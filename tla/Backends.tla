------------------------------ MODULE Backends ------------------------------
(***************************************************************************)
(* The three backends behind one front end: Renderer::initialize loads one *)
(* of them, and the render thread, the loading thread and the GPU act      *)
(* through it. Their correctness is stated here, once for all three.       *)
(***************************************************************************)
EXTENDS VulkanBackend, D3D12Backend, MetalBackend, FiniteSets

CONSTANT
  Plugins        \* the plugins that can be loaded

ASSUME PluginsAssumption == Plugins \subseteq {"vulkan", "d3d12", "metal"}

VARIABLE
  plugin         \* the one that is

vars == <<shared, vkVars, dxVars, mtlVars, plugin>>

\* Renderer::initialize
Init ==
  /\ plugin \in Plugins
  /\ InitShared /\ vk_init /\ dx_init /\ mtl_init

Vulkan(action) == plugin = "vulkan" /\ action /\ UNCHANGED <<dxVars, mtlVars, plugin>>
D3D12(action)  == plugin = "d3d12" /\ action /\ UNCHANGED <<vkVars, mtlVars, plugin>>
Metal(action)  == plugin = "metal" /\ action /\ UNCHANGED <<vkVars, dxVars, plugin>>

RenderCalls == Vulkan(vk_calls) \/ D3D12(dx_calls) \/ Metal(mtl_calls)

Requests ==
  \/ Vulkan(vk_requests) \/ D3D12(dx_resize_swapchain)
  \/ Metal(mtl_resize_swapchain) \/ Metal(mtl_set_present_mode)

Creates == Vulkan(vk_creates) \/ D3D12(dx_creates) \/ Metal(mtl_creates)

Gpu == Vulkan(vk_finish) \/ D3D12(dx_finish) \/ Metal(mtl_finish)

Shutdown ==
  \/ ShutdownFonts /\ UNCHANGED <<vkVars, dxVars, mtlVars, plugin>>
  \/ Vulkan(vk_shutdown) \/ D3D12(dx_shutdown) \/ Metal(mtl_shutdown)

Next == RenderCalls \/ Requests \/ Creates \/ Gpu \/ Shutdown

\* The threads are scheduled, and the GPU finishes what it is given.
Spec == Init /\ [][Next]_vars
             /\ WF_vars(RenderCalls) /\ WF_vars(Creates) /\ WF_vars(Gpu)

-----------------------------------------------------------------------------
(* Correctness *)

\* A draw finds all it needs bound, and reads what was stored for it as long as the
\* ring has room. In Direct3D nothing is overwritten before the GPU has read it.
\* Vulkan and Metal go back to the start of a full ring without looking who still
\* reads it: all they promise is that a cell is not reused before RingCells stores
\* later. A value refused for lack of room is not meant to be read.
Intact(read) ==
  /\ read.at # None
  /\ read.value # 0 /\ read.at \in Rings \X Cells =>
       LET held == ring[read.at[1]][read.at[2]] IN
         held = read.value \/ (plugin # "d3d12" /\ held >= read.value + RingCells)

ReadsIntact == \A work \in Outstanding \cup {list} : \A read \in work.reads : Intact(read)

\* What a submission uses is not destroyed, reset or recorded again until the GPU
\* has finished it, whatever is resized, loaded or begun meanwhile, and in shutdown.
\* The code has two exceptions: the font system destroys its texture before anybody
\* waits for the device, while the last frames may still sample it; and passes
\* render all the same to what a failed resize destroyed and did not create again.
Missing == {<<<<o, 0>>, 0>> : o \in torn}
InUseAlive ==
  \A work \in Outstanding : \A use \in work.uses :
    \/ use[2] = generation[use[1]]
    \/ up = "fonts" /\ use[1] = <<"texture", 0>>
    \/ use \in Missing

\* A texture whose handle is out has its contents, or the copy that brings them is
\* recorded or submitted in front of every later frame; but for one handed out
\* while Direct3D's command list was closed.
Filling == filled \cup UNION {work.fills : work \in Outstanding \cup {list}}
TexturesReady == "texture" \in made \ lost => "texture" \in Filling

\* Every call of the render thread returns, whatever fails in between, and so does
\* every creation: nobody waits for a fence nobody will signal.
CallsReturn == []<>(call = 0) /\ []<>(step = "idle")

\* Frames are begun, submitted and finished one after the other, each exactly
\* once, and no more of them are under way than there are fences, frame contexts
\* or drawables for: the backend implements FramePipeline.
FramesUnderWay == Cardinality({i \in DOMAIN queue : queue[i].kind = "frame"})
limit ==
  CASE plugin = "vulkan" -> 1 [] plugin = "d3d12" -> FrameCount
    [] plugin = "metal" -> maxDrawables

Pipeline == INSTANCE FramePipeline WITH submitted <- retired + FramesUnderWay
ImplementsPipeline == Pipeline!Spec

-----------------------------------------------------------------------------
(* What comments of the code say, and is not so *)

\* vulkan_swapchain.cpp:212, "Changing mode requires swapchain recreation.": between
\* calls, the swapchain has the mode set_present_mode was last called with.
ModeTaken == call = 0 => lastPresentMode = asked

\* d3d12_renderer.cpp:466, "If initial data provided, do one-shot upload (either
\* in-frame or immediate list)": no texture is handed out without its contents.
TexturesUploaded == "texture" \in made => "texture" \in Filling
=============================================================================
