---------------------------- MODULE D3D12Backend ----------------------------
(***************************************************************************)
(* plugins/renderer_d3d12: what each call of RendererAPI does. There are   *)
(* FrameCount frame contexts, each with a command list, an upload ring and *)
(* the fence value of its last submission; the swapchain's current index   *)
(* says which is in use. mtx_ is held by every call but those that record, *)
(* so the loading thread may add to the frame's command list in between.   *)
(*                                                                         *)
(* A ring's "head" is UploadRing::head_ of the current frame (each is used *)
(* from its start), "address" the gpuAddress of a buffer.                  *)
(***************************************************************************)
EXTENDS RenderThread

VARIABLES
  frameIndex,   \* frameIndex_
  current,      \* the swapchain's current_index
  frameBegun,   \* frameBegun_
  fenceValue,   \* per frame context: FrameContext::fenceValue
  signalled,    \* D3D12Device::fenceValue_, the last value a frame asked for
  completed,    \* the value the fence has reached
  rootSet,      \* a root signature is set in the list
  lost          \* history: textures whose copy was recorded in a closed list

dxVars == <<frameIndex, current, frameBegun, fenceValue, signalled, completed,
            rootSet, lost>>

\* RendererD3D12::init and create_swapchain
dx_init ==
  /\ frameIndex = 0 /\ current = 0 /\ frameBegun = FALSE
  /\ fenceValue = [r \in Rings |-> 0] /\ signalled = 1 /\ completed = 1
  /\ rootSet = FALSE /\ lost = {}

-----------------------------------------------------------------------------
(* The swapchain *)

\* Waits for the device (for a value of the fence that nobody else sees), releases
\* the back buffers, resizes them and creates the depth buffer again. If resizing
\* fails there is no back buffer; if the depth buffer fails there is none.
dx_resize_swapchain ==
  /\ Requested /\ lock = "free" /\ Idle
  /\ generation' = [generation EXCEPT ![<<"views", 0>>] = @ + 1,
                                      ![<<"depth", 0>>] = @ + 1]
  /\ \/ torn' = torn \cup {"views"} /\ UNCHANGED current
     \/ torn' \in {{}, {"depth"}} /\ current' = 0
  /\ UNCHANGED <<draws, call, frames, creation, lock, list, gpu, memory, slots,
                 begun, up, frameIndex, frameBegun, fenceValue, signalled, completed,
                 rootSet, lost>>

-----------------------------------------------------------------------------
(* A frame *)

\* Takes the frame of the current back buffer, waits until the GPU has finished
\* what it last submitted, then resets allocator, list, upload ring and the
\* addresses of all buffers. It never returns false.
dx_begin_frame ==
  /\ Calling("begin_frame", "none") /\ Return /\ lock = "free"
  /\ completed >= fenceValue[current]
  /\ frameIndex' = current /\ frameBegun' = TRUE /\ rootSet' = FALSE
  /\ generation' = [generation EXCEPT ![<<"commands", current>>] = @ + 1]
  /\ list' = [Empty EXCEPT !.open = TRUE,
                           !.uses = {<<<<"commands", current>>, generation[<<"commands", current>>] + 1>>}]
  /\ ResetRing(current) /\ address' = [s \in Slots |-> None]
  /\ bound' = [i \in Inputs |-> None] /\ begun' = begun + 1
  /\ UNCHANGED <<draws, budget, creation, lock, gpu, torn, up,
                 current, fenceValue, signalled, completed, lost>>

\* Under mtx_, held by a loading thread for as long as its upload takes
dx_create_graphics_pipeline(new) ==
  /\ new # {} => lock = "free" /\ "objects" \in made
  /\ UNCHANGED <<lock, dxVars>>

\* begin_frame has begun the list already.
dx_begin_commands ==
  /\ Calling("begin_commands", "none") /\ Return /\ lock = "free"
  /\ UNCHANGED <<draws, budget, creation, lock, list, gpu, memory, slots, objects,
                 begun, up, dxVars>>

\* get_current_backbuffer takes mtx_. Without a back buffer nothing is set.
dx_cmd_begin_pass(pass) ==
  /\ Calling("cmd_begin_pass", pass) /\ Return /\ lock = "free"
  /\ IF "views" \in torn THEN UNCHANGED list
     ELSE list' = [list EXCEPT !.uses = @ \cup Targets]
  /\ UNCHANGED <<draws, budget, creation, lock, gpu, memory, slots, objects, begun,
                 up, dxVars>>

\* The root signature is set: every root argument set before is undefined.
dx_cmd_set_pipeline(pass) ==
  /\ Calling("cmd_set_pipeline", pass) /\ Return
  /\ rootSet' = TRUE
  /\ bound' = [i \in Inputs |-> IF i \in Slots THEN None ELSE bound[i]]
  /\ UNCHANGED <<draws, budget, creation, lock, list, gpu, memory, meant, address,
                 objects, begun, up, frameIndex, current, frameBegun, fenceValue,
                 signalled, completed, lost>>

\* UploadRing::stage for a uniform buffer during a frame, refused when full
dx_update_buffer(b) ==
  /\ Calling("update_buffer", b) /\ Return /\ lock = "free"
  /\ \/ /\ head < RingCells
        /\ Store(frameIndex, head, b)
        /\ address' = [address EXCEPT ![b] = <<frameIndex, head>>]
     \/ head = RingCells /\ Refuse(b)
  /\ UNCHANGED <<draws, budget, creation, lock, list, gpu, bound, objects, begun, up,
                 dxVars>>

\* The address of this frame's store, or the buffer's own
dx_cmd_bind_uniform(b) ==
  /\ Calling("cmd_bind_uniform", b) /\ Return
  /\ bound' = [bound EXCEPT ![b] = IF rootSet THEN IF address[b] = None THEN <<b>> ELSE address[b]
                                   ELSE None]
  /\ UNCHANGED <<draws, budget, creation, lock, list, gpu, memory, meant, address,
                 objects, begun, up, dxVars>>

\* Written into the list itself: nothing is stored in the ring.
dx_cmd_push_constants ==
  /\ Calling("cmd_push_constants", "constants") /\ Return
  /\ bound' = [bound EXCEPT !["constants"] = IF rootSet THEN <<"inline">> ELSE None]
  /\ UNCHANGED <<draws, budget, creation, lock, list, gpu, memory, meant, address,
                 objects, begun, up, dxVars>>

dx_cmd_set_vertex_buffer ==
  /\ Calling("cmd_set_vertex_buffer", "vertex") /\ Return
  /\ bound' = [bound EXCEPT !["vertex"] = <<"vertex">>]
  /\ UNCHANGED <<draws, budget, creation, lock, list, gpu, memory, meant, address,
                 objects, begun, up, dxVars>>

dx_cmd_set_index_buffer ==
  /\ Calling("cmd_set_index_buffer", "index") /\ Return
  /\ bound' = [bound EXCEPT !["index"] = <<"index">>]
  /\ UNCHANGED <<draws, budget, creation, lock, list, gpu, memory, meant, address,
                 objects, begun, up, dxVars>>

dx_cmd_draw_indexed(pass) ==
  /\ Calling("cmd_draw_indexed", pass) /\ Return
  /\ list' = [list EXCEPT !.reads = @ \cup Reads,
                          !.uses = @ \cup Using({<<"texture", 0>>})]
  /\ UNCHANGED <<draws, budget, creation, lock, gpu, memory, slots, objects, begun,
                 up, dxVars>>

\* The list is closed.
dx_end_commands ==
  /\ Calling("end_commands", "none") /\ Return /\ lock = "free"
  /\ list' = [list EXCEPT !.open = FALSE]
  /\ UNCHANGED <<draws, budget, creation, lock, gpu, memory, slots, objects, begun,
                 up, dxVars>>

\* Mutant: the fence value is not stored in the frame context.
dx_submit_unfenced ==
  /\ Calling("submit", "none") /\ Return /\ lock = "free"
  /\ signalled' = signalled + 1
  /\ Submit("frame", list, signalled + 1) /\ list' = Empty
  /\ UNCHANGED <<draws, budget, creation, lock, filled, retired, memory, slots,
                 objects, begun, up, frameIndex, current, frameBegun, fenceValue,
                 completed, rootSet, lost>>

\* Executes the list and signals the fence; the value is the frame's.
dx_submit ==
  /\ Calling("submit", "none") /\ Return /\ lock = "free"
  /\ signalled' = signalled + 1
  /\ fenceValue' = [fenceValue EXCEPT ![frameIndex] = signalled + 1]
  /\ Submit("frame", list, signalled + 1) /\ list' = Empty
  /\ UNCHANGED <<draws, budget, creation, lock, filled, retired, memory, slots,
                 objects, begun, up, frameIndex, current, frameBegun, completed,
                 rootSet, lost>>

\* Present: the next back buffer becomes the current one.
dx_present ==
  /\ Calling("present", "none") /\ Return /\ lock = "free"
  /\ current' = (current + 1) % FrameCount
  /\ UNCHANGED <<draws, budget, creation, lock, list, gpu, memory, slots, objects,
                 begun, up, frameIndex, frameBegun, fenceValue, signalled, completed,
                 rootSet, lost>>

dx_end_frame ==
  /\ Calling("end_frame", "none") /\ Return /\ lock = "free"
  /\ frameBegun' = FALSE
  /\ UNCHANGED <<draws, budget, creation, lock, list, gpu, memory, slots, objects,
                 begun, up, frameIndex, current, fenceValue, signalled, completed,
                 rootSet, lost>>

\* The scissor rectangle, and cmd_end_pass, which is empty
dx_unmodelled ==
  /\ \/ Calling("cmd_set_scissor", "none")
     \/ \E pass \in Passes \cup {"Clear"} : Calling("cmd_end_pass", pass)
  /\ Return
  /\ UNCHANGED <<draws, budget, creation, lock, list, gpu, memory, slots, objects,
                 begun, up, dxVars>>

-----------------------------------------------------------------------------
(* The loading thread *)

\* Shaders, a layout, a sampler
dx_create_objects ==
  /\ Creating("objects") /\ lock = "free" /\ Created
  /\ UNCHANGED <<draws, call, budget, lock, list, gpu, memory, slots, objects,
                 begun, up, dxVars>>

\* A store that is no draw's, numbered if something reads it
Stage(number) ==
  /\ head' = head + 1 /\ ring' = [ring EXCEPT ![frameIndex][head] = number]

\* executeNow: an upload buffer, an allocator and a list of its own; the copy is
\* executed and the next value of the fence, which nobody else sees, awaited, with
\* mtx_ held all the while.
dx_executeNow(fills) ==
  /\ step' = "copying" /\ lock' = "loader"
  /\ SubmitCopy(fills)
  /\ UNCHANGED <<draws, call, budget, made, creating, list, filled, retired, memory,
                 slots, torn, begun, up, dxVars>>

\* create_buffer for a vertex or index buffer: its data are copied now.
dx_create_filled_buffer(b) ==
  Creating(b) /\ lock = "free" /\ dx_executeNow({})

\* create_buffer for a uniform buffer: during a frame its first data are staged in
\* the frame's ring, and lost to later frames, or the creation fails.
dx_create_uniform_buffer(b) ==
  /\ Creating(b) /\ lock = "free"
  /\ \/ ~frameBegun /\ dx_executeNow({})
     \/ /\ frameBegun /\ head < RingCells
        /\ Stage(0) /\ UNCHANGED stores
        /\ address' = [address EXCEPT ![b] = <<frameIndex, head>>] /\ Created
        /\ UNCHANGED <<draws, call, budget, lock, list, gpu, meant, bound, objects,
                       begun, up, dxVars>>
     \/ /\ frameBegun /\ head = RingCells /\ NotCreated
        /\ UNCHANGED <<draws, call, budget, lock, list, gpu, memory, slots, objects,
                       begun, up, dxVars>>

\* D3D12Device::wait returns; list, allocator and upload buffer are released.
dx_wait ==
  /\ step = "copying" /\ Idle /\ Created
  /\ lock' = "free"
  /\ ReleaseCopy
  /\ UNCHANGED <<draws, call, budget, list, gpu, memory, slots, torn, begun, up,
                 dxVars>>

\* create_texture: outside a frame the copy is executed now; during one it is
\* staged in the frame's ring and recorded in the frame's list. A closed list
\* takes no command, and a full ring fails the creation.
dx_create_texture ==
  /\ Creating("texture") /\ lock = "free"
  /\ \/ ~frameBegun /\ dx_executeNow({"texture"})
     \/ /\ frameBegun /\ head < RingCells
        /\ Stage(stores + 1) /\ stores' = stores + 1
        /\ IF list.open
           THEN /\ list' = [list EXCEPT !.fills = @ \cup {"texture"},
                              !.reads = @ \cup {[input |-> "staged", at |-> <<frameIndex, head>>,
                                                 value |-> stores + 1]}]
                /\ UNCHANGED lost
           ELSE lost' = lost \cup {"texture"} /\ UNCHANGED list
        /\ Created
        /\ UNCHANGED <<draws, call, budget, lock, gpu, slots, objects, begun, up,
                       frameIndex, current, frameBegun, fenceValue, signalled,
                       completed, rootSet>>
     \/ /\ frameBegun /\ head = RingCells /\ NotCreated
        /\ UNCHANGED <<draws, call, budget, lock, list, gpu, memory, slots, objects,
                       begun, up, dxVars>>

-----------------------------------------------------------------------------

\* Waits for the device, then releases everything.
dx_shutdown ==
  /\ up = "fonts" /\ Idle
  /\ up' = "down" /\ generation' = [o \in Objects |-> generation[o] + 1]
  /\ UNCHANGED <<draws, call, budget, creation, lock, list, gpu, memory, slots,
                 torn, begun, dxVars>>

\* The GPU: the fence reaches the value of a frame's submission.
dx_finish ==
  /\ Finish
  /\ completed' = IF Head(queue).kind = "frame" THEN Head(queue).value ELSE completed
  /\ UNCHANGED <<frameIndex, current, frameBegun, fenceValue, signalled, rootSet, lost>>

dx_calls ==
  \/ EnterFrame /\ UNCHANGED dxVars
  \/ dx_begin_frame
  \/ \E new \in SUBSET Passes : BuildDrawList(new) /\ dx_create_graphics_pipeline(new)
  \/ dx_begin_commands \/ dx_cmd_push_constants
  \/ dx_cmd_set_vertex_buffer \/ dx_cmd_set_index_buffer
  \/ \E pass \in Passes \cup {"Clear"} : dx_cmd_begin_pass(pass)
  \/ \E pass \in Passes : dx_cmd_set_pipeline(pass) \/ dx_cmd_draw_indexed(pass)
  \/ \E b \in Uniforms : dx_update_buffer(b) \/ dx_cmd_bind_uniform(b)
  \/ dx_end_commands \/ dx_submit \/ dx_present \/ dx_end_frame \/ dx_unmodelled

dx_creates ==
  \/ \E b \in Uniforms : dx_create_uniform_buffer(b)
  \/ \E b \in {"vertex", "index"} : dx_create_filled_buffer(b)
  \/ dx_create_objects \/ dx_create_texture \/ dx_wait
=============================================================================
