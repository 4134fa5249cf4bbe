---------------------------- MODULE VulkanBackend ----------------------------
(***************************************************************************)
(* plugins/renderer_vulkan: what each call of RendererAPI does. There is   *)
(* one command buffer, one ring and one fence, which begin_frame waits on  *)
(* and resets; the swapchain is recreated by resize_swapchain, and may be  *)
(* missing or incomplete afterwards. Textures are copied on the loading    *)
(* thread with a command buffer of its own, under graphicsQueueMutex.      *)
(*                                                                         *)
(* A ring's "head" is currentDynamicOffset, "address" the dynamicOffset of *)
(* a buffer (of slot "constants": dynamicOffsets[0]).                      *)
(***************************************************************************)
EXTENDS RenderThread

VARIABLES
  fence,           \* inFlightFence is signalled
  swapchain,       \* VulkanSwapchain::swapchain is not null
  surface,         \* VulkanSwapchain::surface is not null
  acquired,        \* imageAcquired
  dynamicOffsets,  \* per slot: the offset Set 0 is bound with
  lastPresentMode, \* the mode the swapchain was created with
  asked            \* history: the mode set_present_mode was last called with

vkVars == <<fence, swapchain, surface, acquired, dynamicOffsets,
            lastPresentMode, asked>>

\* vk_init creates the fence signalled, the ring and the descriptor sets;
\* vk_create_swapchain creates surface, swapchain, views and depth buffer.
vk_init ==
  /\ fence = TRUE /\ swapchain = TRUE /\ surface = TRUE /\ acquired = FALSE
  /\ dynamicOffsets = [s \in Slots |-> <<0, 0>>]
  /\ lastPresentMode = "Fifo" /\ asked = "Fifo"

-----------------------------------------------------------------------------
(* The swapchain *)

\* VulkanSwapchain::init, called by resize: the surface is created if it is
\* null; then the swapchain, its views and the depth buffer, each of which may
\* throw and leave the rest undone.
vk_swapchain_init ==
  \/ swapchain' = FALSE /\ surface' \in {surface, TRUE} /\ torn' = {"views", "depth"}
  \/ /\ swapchain' = TRUE /\ surface' = TRUE
     /\ torn' \in {{}, {"depth"}, {"views", "depth"}}

\* VulkanSwapchain::resize: waits for the device, destroys views and depth
\* buffer and recreates the swapchain with the mode it had.
vk_resize ==
  /\ Idle
  /\ generation' = [generation EXCEPT ![<<"views", 0>>] = @ + 1,
                                      ![<<"depth", 0>>] = @ + 1]
  /\ acquired' = FALSE
  /\ vk_swapchain_init

vk_resize_swapchain ==
  /\ Requested /\ vk_resize
  /\ UNCHANGED <<draws, call, frames, creation, lock, list, gpu, memory, slots,
                 begun, up, fence, dynamicOffsets, lastPresentMode, asked>>

\* The swapchain is recreated, if the mode asked for is not the one it has.
vk_set_present_mode ==
  /\ Requested
  /\ \E mode \in Modes :
       /\ asked' = mode
       /\ \/ mode = lastPresentMode /\ UNCHANGED <<objects, swapchain, surface, acquired>>
          \/ mode # lastPresentMode /\ vk_resize
  /\ UNCHANGED <<draws, call, frames, creation, lock, list, gpu, memory, slots,
                 begun, up, fence, dynamicOffsets, lastPresentMode>>

\* Android's main thread, at any moment: the window is gone or replaced.
vk_set_platform_drawable ==
  /\ up = "up" /\ requests < MaxRequests /\ requests' = requests + 1
  /\ surface' = FALSE
  /\ UNCHANGED <<draws, call, frames, creation, lock, list, gpu, memory, slots,
                 objects, begun, up, fence, swapchain, acquired, dynamicOffsets,
                 lastPresentMode, asked>>

-----------------------------------------------------------------------------
(* A frame *)

\* Mutant: the fence is reset before an image is acquired.
vk_begin_frame_reset ==
  /\ Calling("begin_frame", "none") /\ fence
  /\ fence' = FALSE
  /\ \/ /\ swapchain /\ surface
        /\ acquired' = TRUE /\ ResetRing(0)
        /\ begun' = begun + 1 /\ Return
     \/ acquired' = FALSE /\ GiveUp /\ UNCHANGED <<memory, meant, begun>>
  /\ UNCHANGED <<draws, budget, creation, lock, list, gpu, address, bound,
                 objects, up, swapchain, surface, dynamicOffsets, lastPresentMode, asked>>

\* Waits for the fence; acquireNextImage may fail (out of date, timeout), and
\* does so without a surface. Only then is the fence reset, and the ring.
vk_begin_frame ==
  /\ Calling("begin_frame", "none") /\ fence
  /\ \/ /\ swapchain /\ surface
        /\ acquired' = TRUE /\ fence' = FALSE /\ ResetRing(0)
        /\ begun' = begun + 1 /\ Return
     \/ acquired' = FALSE /\ GiveUp /\ UNCHANGED <<fence, memory, meant, begun>>
  /\ UNCHANGED <<draws, budget, creation, lock, list, gpu, address, bound,
                 objects, up, swapchain, surface, dynamicOffsets, lastPresentMode, asked>>

\* Shaders and layout are found; the pipeline may still fail to compile.
vk_create_graphics_pipeline(new) ==
  /\ new # {} => "objects" \in made
  /\ UNCHANGED <<lock, vkVars>>

\* Reset, then begin: the command buffer's old contents are gone.
vk_begin_commands ==
  /\ Calling("begin_commands", "none") /\ Return
  /\ generation' = [generation EXCEPT ![<<"commands", 0>>] = @ + 1]
  /\ list' = [Empty EXCEPT !.open = TRUE, !.uses = {<<<<"commands", 0>>, generation'[<<"commands", 0>>]>>}]
  /\ bound' = [i \in Inputs |-> None]
  /\ UNCHANGED <<draws, budget, creation, lock, gpu, memory, meant, address, torn,
                 begun, up, vkVars>>

\* Every pass renders to the image's view and to the depth buffer. What a
\* failed resize left out is used all the same.
vk_cmd_begin_pass(pass) ==
  /\ Calling("cmd_begin_pass", pass) /\ Return
  /\ list' = [list EXCEPT !.uses = @ \cup Targets]
  /\ UNCHANGED <<draws, budget, creation, lock, gpu, memory, slots, objects, begun,
                 up, vkVars>>

\* Binding Set 0 binds all its slots, with the offsets they have.
BindSet ==
  bound' = [i \in Inputs |-> IF i \in Slots THEN dynamicOffsets'[i] ELSE bound[i]]

vk_cmd_set_pipeline(pass) ==
  /\ Calling("cmd_set_pipeline", pass) /\ Return
  /\ UNCHANGED dynamicOffsets /\ BindSet
  /\ UNCHANGED <<draws, budget, creation, lock, list, gpu, memory, meant, address,
                 objects, begun, up, fence, swapchain, surface, acquired,
                 lastPresentMode, asked>>

\* Refused when the ring is full.
vk_update_buffer(b) ==
  /\ Calling("update_buffer", b) /\ Return
  /\ \/ /\ head < RingCells
        /\ Store(0, head, b) /\ address' = [address EXCEPT ![b] = <<0, head>>]
     \/ head = RingCells /\ Refuse(b)
  /\ UNCHANGED <<draws, budget, creation, lock, list, gpu, bound, objects, begun, up,
                 vkVars>>

vk_cmd_bind_uniform(b) ==
  /\ Calling("cmd_bind_uniform", b) /\ Return
  /\ dynamicOffsets' = [dynamicOffsets EXCEPT ![b] = IF address[b] = None THEN <<0, 0>> ELSE address[b]]
  /\ BindSet
  /\ UNCHANGED <<draws, budget, creation, lock, list, gpu, memory, meant, address,
                 objects, begun, up, fence, swapchain, surface, acquired,
                 lastPresentMode, asked>>

\* Goes back to the start of a ring that is full.
vk_cmd_push_constants ==
  /\ Calling("cmd_push_constants", "constants") /\ Return
  /\ LET cell == IF head = RingCells THEN 0 ELSE head IN
       /\ Store(0, cell, "constants")
       /\ dynamicOffsets' = [dynamicOffsets EXCEPT !["constants"] = <<0, cell>>]
  /\ BindSet
  /\ UNCHANGED <<draws, budget, creation, lock, list, gpu, address, objects, begun,
                 up, fence, swapchain, surface, acquired, lastPresentMode, asked>>

vk_cmd_set_vertex_buffer ==
  /\ Calling("cmd_set_vertex_buffer", "vertex") /\ Return
  /\ bound' = [bound EXCEPT !["vertex"] = <<"vertex">>]
  /\ UNCHANGED <<draws, budget, creation, lock, list, gpu, memory, meant, address,
                 objects, begun, up, vkVars>>

vk_cmd_set_index_buffer ==
  /\ Calling("cmd_set_index_buffer", "index") /\ Return
  /\ bound' = [bound EXCEPT !["index"] = <<"index">>]
  /\ UNCHANGED <<draws, budget, creation, lock, list, gpu, memory, meant, address,
                 objects, begun, up, vkVars>>

vk_cmd_draw_indexed(pass) ==
  /\ Calling("cmd_draw_indexed", pass) /\ Return
  /\ list' = [list EXCEPT !.reads = @ \cup Reads,
                          !.uses = @ \cup Using({<<"texture", 0>>})]
  /\ UNCHANGED <<draws, budget, creation, lock, gpu, memory, slots, objects, begun,
                 up, vkVars>>

\* The image's layout is changed if one was acquired; nothing else is recorded.
vk_end_commands ==
  /\ Calling("end_commands", "none") /\ Return
  /\ list' = [list EXCEPT !.open = FALSE]
  /\ UNCHANGED <<draws, budget, creation, lock, gpu, memory, slots, objects, begun,
                 up, vkVars>>

\* Under graphicsQueueMutex; the fence is signalled when the frame is finished.
vk_submit ==
  /\ Calling("submit", "none") /\ Return /\ lock = "free"
  /\ Submit("frame", list, 0) /\ list' = Empty
  /\ UNCHANGED <<draws, budget, creation, lock, filled, retired, memory, slots,
                 objects, begun, up, vkVars>>

vk_present ==
  /\ Calling("present", "none") /\ Return
  /\ swapchain /\ acquired => lock = "free"
  /\ acquired' = FALSE
  /\ UNCHANGED <<draws, budget, creation, lock, list, gpu, memory, slots, objects,
                 begun, up, fence, swapchain, surface, dynamicOffsets,
                 lastPresentMode, asked>>

\* Calls that change nothing the model keeps: the scissor, the end of a pass,
\* and vk_end_frame, which is empty.
vk_unmodelled ==
  /\ \/ Calling("cmd_set_scissor", "none") \/ Calling("end_frame", "none")
     \/ \E pass \in Passes \cup {"Clear"} : Calling("cmd_end_pass", pass)
  /\ Return
  /\ UNCHANGED <<draws, budget, creation, lock, list, gpu, memory, slots, objects,
                 begun, up, vkVars>>

-----------------------------------------------------------------------------
(* The loading thread *)

\* Buffers are host visible and written by create_vulkan_buffer itself.
vk_create_buffer(b) ==
  /\ Creating(b) /\ Created
  /\ UNCHANGED <<draws, call, budget, lock, list, gpu, memory, slots, objects,
                 begun, up, vkVars>>

\* Shader modules, a vertex layout, a sampler
vk_create_objects ==
  /\ Creating("objects") /\ Created
  /\ UNCHANGED <<draws, call, budget, lock, list, gpu, memory, slots, objects,
                 begun, up, vkVars>>

\* create_vulkan_texture: image and staging buffer are created, then under
\* graphicsQueueMutex the copy is recorded and submitted.
vk_submit_copy ==
  /\ Creating("texture") /\ lock = "free"
  /\ step' = "copying" /\ lock' = "loader"
  /\ SubmitCopy({"texture"})
  /\ UNCHANGED <<draws, call, budget, made, creating, list, filled, retired, memory,
                 slots, torn, begun, up, vkVars>>

\* Mutant: the staging buffer is destroyed without waiting for the copy.
vk_finish_copy_early ==
  /\ step = "copying"
  /\ step' = "copied" /\ lock' = "free"
  /\ ReleaseCopy
  /\ UNCHANGED <<draws, call, budget, made, creating, list, gpu, memory, slots,
                 torn, begun, up, vkVars>>

\* graphicsQueue.waitIdle, then the mutex is released and the staging buffer
\* destroyed.
vk_finish_copy ==
  /\ step = "copying" /\ Idle
  /\ step' = "copied" /\ lock' = "free"
  /\ ReleaseCopy
  /\ UNCHANGED <<draws, call, budget, made, creating, list, gpu, memory, slots,
                 torn, begun, up, vkVars>>

\* The view is created, a descriptor written and the handle handed out.
vk_create_texture ==
  /\ step = "copied" /\ Created
  /\ UNCHANGED <<draws, call, budget, lock, list, gpu, memory, slots, objects,
                 begun, up, vkVars>>

-----------------------------------------------------------------------------

\* vk_shutdown: waits for the device, then destroys everything.
vk_shutdown ==
  /\ up = "fonts" /\ Idle
  /\ up' = "down" /\ generation' = [o \in Objects |-> generation[o] + 1]
  /\ UNCHANGED <<draws, call, budget, creation, lock, list, gpu, memory, slots,
                 torn, begun, vkVars>>

\* The GPU: the fence given to a frame's submission is signalled.
vk_finish ==
  /\ Finish
  /\ fence' = (fence \/ Head(queue).kind = "frame")
  /\ UNCHANGED <<swapchain, surface, acquired, dynamicOffsets, lastPresentMode, asked>>

vk_calls ==
  \/ EnterFrame /\ UNCHANGED vkVars
  \/ vk_begin_frame
  \/ \E new \in SUBSET Passes : BuildDrawList(new) /\ vk_create_graphics_pipeline(new)
  \/ vk_begin_commands \/ vk_cmd_push_constants
  \/ vk_cmd_set_vertex_buffer \/ vk_cmd_set_index_buffer
  \/ \E pass \in Passes \cup {"Clear"} : vk_cmd_begin_pass(pass)
  \/ \E pass \in Passes : vk_cmd_set_pipeline(pass) \/ vk_cmd_draw_indexed(pass)
  \/ \E b \in Uniforms : vk_update_buffer(b) \/ vk_cmd_bind_uniform(b)
  \/ vk_end_commands \/ vk_submit \/ vk_present \/ vk_unmodelled

vk_requests == vk_resize_swapchain \/ vk_set_present_mode \/ vk_set_platform_drawable

vk_creates ==
  \/ \E b \in Uniforms \cup {"vertex", "index"} : vk_create_buffer(b)
  \/ vk_create_objects \/ vk_submit_copy \/ vk_finish_copy \/ vk_create_texture
=============================================================================
