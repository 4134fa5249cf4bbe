---------------------------- MODULE MetalBackend ----------------------------
(***************************************************************************)
(* plugins/renderer_metal: what each call of RendererAPI does. There is no *)
(* fence: the frames under way are limited by the drawables of the layer,  *)
(* and present commits the command buffer. The dynamic buffer is a ring    *)
(* that is never reset. Bindings belong to an encoder, one per pass; the   *)
(* index buffer is kept by the backend and survives it.                    *)
(*                                                                         *)
(* A command buffer keeps what it refers to alive, so "uses" stays empty.  *)
(* A ring's "head" is dynamicBufferOffset, "address" lastDynamicOffsets.   *)
(***************************************************************************)
EXTENDS RenderThread

VARIABLES
  drawable,      \* currentDrawable is not null
  cmdBuffer,     \* currentCmdBuffer is not null
  encoder,       \* currentEncoder is not null
  maxDrawables   \* the layer's drawables

mtlVars == <<drawable, cmdBuffer, encoder, maxDrawables>>

\* MetalRenderer::init and create_swapchain; a layer has three drawables.
mtl_init ==
  /\ drawable = FALSE /\ cmdBuffer = FALSE /\ encoder = FALSE /\ maxDrawables = 3

-----------------------------------------------------------------------------
(* The swapchain *)

\* The depth texture is replaced under resourceMutex; nobody waits for the GPU.
mtl_resize_swapchain ==
  /\ Requested /\ lock = "free"
  /\ generation' = [generation EXCEPT ![<<"depth", 0>>] = @ + 1]
  /\ UNCHANGED <<draws, call, frames, creation, lock, list, gpu, memory, slots,
                 torn, begun, up, mtlVars>>

\* Three drawables with synchronisation, two without
mtl_set_present_mode ==
  /\ Requested /\ lock = "free"
  /\ \E mode \in Modes : maxDrawables' = IF mode = "Fifo" THEN 3 ELSE 2
  /\ UNCHANGED <<draws, call, frames, creation, lock, list, gpu, memory, slots,
                 objects, begun, up, drawable, cmdBuffer, encoder>>

-----------------------------------------------------------------------------
(* A frame *)

\* nextDrawable: one that no frame under way holds, or none after a timeout
mtl_begin_frame ==
  /\ Calling("begin_frame", "none")
  /\ \/ /\ begun - retired < maxDrawables
        /\ drawable' = TRUE /\ address' = [s \in Slots |-> None]
        /\ begun' = begun + 1 /\ Return
     \/ drawable' = FALSE /\ GiveUp /\ UNCHANGED <<address, begun>>
  /\ UNCHANGED <<draws, budget, creation, lock, list, gpu, memory, meant, bound,
                 objects, up, cmdBuffer, encoder, maxDrawables>>

mtl_create_graphics_pipeline(new) ==
  /\ new # {} => lock = "free" /\ "objects" \in made
  /\ UNCHANGED <<lock, mtlVars>>

mtl_begin_commands ==
  /\ Calling("begin_commands", "none") /\ Return
  /\ cmdBuffer' = TRUE /\ list' = [Empty EXCEPT !.open = TRUE]
  /\ UNCHANGED <<draws, budget, creation, lock, gpu, memory, slots, objects, begun,
                 up, drawable, encoder, maxDrawables>>

\* A new encoder: nothing is bound to it yet.
mtl_cmd_begin_pass(pass) ==
  /\ Calling("cmd_begin_pass", pass) /\ Return
  /\ encoder' = cmdBuffer
  /\ bound' = IF cmdBuffer THEN [[i \in Inputs |-> None] EXCEPT !["index"] = bound["index"]]
                           ELSE bound
  /\ UNCHANGED <<draws, budget, creation, lock, list, gpu, memory, meant, address,
                 objects, begun, up, drawable, cmdBuffer, maxDrawables>>

mtl_cmd_end_pass(pass) ==
  /\ Calling("cmd_end_pass", pass) /\ Return
  /\ encoder' = FALSE
  /\ UNCHANGED <<draws, budget, creation, lock, list, gpu, memory, slots, objects,
                 begun, up, drawable, cmdBuffer, maxDrawables>>

\* Pipeline, depth state and cull mode of the encoder
mtl_cmd_set_pipeline(pass) ==
  /\ Calling("cmd_set_pipeline", pass) /\ Return /\ (encoder => lock = "free")
  /\ UNCHANGED <<draws, budget, creation, lock, list, gpu, memory, slots, objects,
                 begun, up, mtlVars>>

\* Written to the buffer and to the dynamic buffer, from its start when full
mtl_update_buffer(b) ==
  /\ Calling("update_buffer", b) /\ Return /\ lock = "free"
  /\ LET cell == IF head = RingCells THEN 0 ELSE head IN
       /\ Store(0, cell, b)
       /\ address' = [address EXCEPT ![b] = <<0, cell>>]
  /\ UNCHANGED <<draws, budget, creation, lock, list, gpu, bound, objects, begun, up,
                 mtlVars>>

\* This frame's store, or the buffer itself
mtl_cmd_bind_uniform(b) ==
  /\ Calling("cmd_bind_uniform", b) /\ Return /\ (encoder => lock = "free")
  /\ bound' = IF encoder
              THEN [bound EXCEPT ![b] = IF address[b] = None THEN <<b>> ELSE address[b]]
              ELSE bound
  /\ UNCHANGED <<draws, budget, creation, lock, list, gpu, memory, meant, address,
                 objects, begun, up, mtlVars>>

\* Copied into the encoder
mtl_cmd_push_constants ==
  /\ Calling("cmd_push_constants", "constants") /\ Return
  /\ bound' = IF encoder THEN [bound EXCEPT !["constants"] = <<"inline">>] ELSE bound
  /\ UNCHANGED <<draws, budget, creation, lock, list, gpu, memory, meant, address,
                 objects, begun, up, mtlVars>>

mtl_cmd_set_vertex_buffer ==
  /\ Calling("cmd_set_vertex_buffer", "vertex") /\ Return /\ (encoder => lock = "free")
  /\ bound' = IF encoder THEN [bound EXCEPT !["vertex"] = <<"vertex">>] ELSE bound
  /\ UNCHANGED <<draws, budget, creation, lock, list, gpu, memory, meant, address,
                 objects, begun, up, mtlVars>>

\* Kept in currentIndexBuffer, encoder or not
mtl_cmd_set_index_buffer ==
  /\ Calling("cmd_set_index_buffer", "index") /\ Return /\ lock = "free"
  /\ bound' = [bound EXCEPT !["index"] = <<"index">>]
  /\ UNCHANGED <<draws, budget, creation, lock, list, gpu, memory, meant, address,
                 objects, begun, up, mtlVars>>

mtl_cmd_draw_indexed(pass) ==
  /\ Calling("cmd_draw_indexed", pass) /\ Return
  /\ list' = IF encoder THEN [list EXCEPT !.reads = @ \cup Reads] ELSE list
  /\ UNCHANGED <<draws, budget, creation, lock, gpu, memory, slots, objects, begun,
                 up, mtlVars>>

\* Presents the drawable, if there is one, and commits the command buffer.
mtl_present ==
  /\ Calling("present", "none") /\ Return
  /\ IF cmdBuffer THEN Submit("frame", list, 0) /\ list' = Empty
                  ELSE UNCHANGED <<queue, list>>
  /\ cmdBuffer' = FALSE /\ drawable' = (drawable /\ ~cmdBuffer)
  /\ UNCHANGED <<draws, budget, creation, lock, filled, retired, memory, slots,
                 objects, begun, up, encoder, maxDrawables>>

mtl_end_frame ==
  /\ Calling("end_frame", "none") /\ Return
  /\ drawable' = FALSE /\ cmdBuffer' = FALSE /\ encoder' = FALSE
  /\ UNCHANGED <<draws, budget, creation, lock, list, gpu, memory, slots, objects,
                 begun, up, maxDrawables>>

\* end_commands and submit are empty; the scissor changes nothing kept here.
mtl_unmodelled ==
  /\ \/ Calling("end_commands", "none") \/ Calling("submit", "none")
     \/ Calling("cmd_set_scissor", "none")
  /\ Return
  /\ UNCHANGED <<draws, budget, creation, lock, list, gpu, memory, slots, objects,
                 begun, up, mtlVars>>

-----------------------------------------------------------------------------
(* The loading thread, under resourceMutex *)

\* A shared buffer, written at once
mtl_create_buffer(b) ==
  /\ Creating(b) /\ lock = "free" /\ Created
  /\ UNCHANGED <<draws, call, budget, lock, list, gpu, memory, slots, objects,
                 begun, up, mtlVars>>

\* Libraries, a vertex descriptor, a sampler
mtl_create_objects ==
  /\ Creating("objects") /\ lock = "free" /\ Created
  /\ UNCHANGED <<draws, call, budget, lock, list, gpu, memory, slots, objects,
                 begun, up, mtlVars>>

\* Mutant: the contents are left to a copy nobody commits.
mtl_create_texture_empty ==
  /\ Creating("texture") /\ lock = "free" /\ Created
  /\ UNCHANGED <<draws, call, budget, lock, list, gpu, memory, slots, objects,
                 begun, up, mtlVars>>

\* A shared texture is written at once; a private one, as built for iOS, by a blit
\* that is committed and waited for with the mutex held.
mtl_create_texture ==
  /\ Creating("texture") /\ lock = "free"
  /\ \/ /\ Created /\ filled' = filled \cup {"texture"} /\ UNCHANGED <<lock, queue>>
     \/ /\ step' = "copying" /\ lock' = "loader"
        /\ Submit("copy", [reads |-> {}, uses |-> {}, fills |-> {"texture"}], 0)
        /\ UNCHANGED <<made, creating, filled>>
  /\ UNCHANGED <<draws, call, budget, list, retired, memory, slots, objects,
                 begun, up, mtlVars>>

\* waitUntilCompleted; the texture is entered in the heap.
mtl_waitUntilCompleted ==
  /\ step = "copying" /\ "texture" \in filled
  /\ lock' = "free" /\ Created
  /\ UNCHANGED <<draws, call, budget, list, gpu, memory, slots, objects,
                 begun, up, mtlVars>>

-----------------------------------------------------------------------------

\* Every handle is released; what the GPU still uses it keeps.
mtl_shutdown ==
  /\ up = "fonts"
  /\ up' = "down" /\ generation' = [o \in Objects |-> generation[o] + 1]
  /\ UNCHANGED <<draws, call, budget, creation, lock, list, gpu, memory, slots,
                 torn, begun, mtlVars>>

mtl_finish == Finish /\ UNCHANGED mtlVars

mtl_calls ==
  \/ EnterFrame /\ UNCHANGED mtlVars
  \/ mtl_begin_frame
  \/ \E new \in SUBSET Passes : BuildDrawList(new) /\ mtl_create_graphics_pipeline(new)
  \/ mtl_begin_commands \/ mtl_cmd_push_constants
  \/ mtl_cmd_set_vertex_buffer \/ mtl_cmd_set_index_buffer
  \/ \E pass \in Passes \cup {"Clear"} : mtl_cmd_begin_pass(pass) \/ mtl_cmd_end_pass(pass)
  \/ \E pass \in Passes : mtl_cmd_set_pipeline(pass) \/ mtl_cmd_draw_indexed(pass)
  \/ \E b \in Uniforms : mtl_update_buffer(b) \/ mtl_cmd_bind_uniform(b)
  \/ mtl_present \/ mtl_end_frame \/ mtl_unmodelled

mtl_creates ==
  \/ \E b \in Uniforms \cup {"vertex", "index"} : mtl_create_buffer(b)
  \/ mtl_create_objects \/ mtl_create_texture \/ mtl_waitUntilCompleted
=============================================================================
