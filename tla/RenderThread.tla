---------------------------- MODULE RenderThread ----------------------------
(***************************************************************************)
(* What the three renderer backends have in common: the calls the render   *)
(* thread makes of RendererAPI in one iteration of render_loop (through    *)
(* the scene and the render graph), the thread that creates resources      *)
(* meanwhile, and the GPU, which executes submissions in order.            *)
(*                                                                         *)
(* An iteration is a script of calls, fixed once buildDrawList has chosen  *)
(* what to draw: one packet at most in each of the two drawing passes.     *)
(* "call" is the thread's place in it. VulkanBackend, D3D12Backend and     *)
(* MetalBackend say what each call does; Backends puts them together.      *)
(*                                                                         *)
(* Uniform data goes through a ring of cells. Stores are numbered, a cell  *)
(* holds the number of the last store into it, and a draw remembers for    *)
(* each slot which store was meant for it: what a draw reads is then right *)
(* if the cell it was bound to still holds that number. Resetting a ring   *)
(* empties its cells, as if all were overwritten at once.                  *)
(***************************************************************************)
EXTENDS Naturals, Sequences

CONSTANTS
  MaxFrames,     \* bound: iterations of render_loop
  MaxRequests,   \* bound: resizes, mode changes and lost surfaces
  FrameCount,    \* RendererDesc::frame_count
  RingCells      \* stores that fit in a ring

ASSUME RenderThreadAssumption ==
  /\ MaxFrames \in Nat /\ MaxRequests \in Nat
  /\ FrameCount \in Nat \ {0} /\ RingCells \in Nat \ {0}

Passes   == {"Forward", "UI_Pass"}
Uniforms == {"frame", "object"}             \* slots 0 and 1 of cmd_bind_uniform
Slots    == Uniforms \cup {"constants"}     \* what a draw takes from a ring
Inputs   == Slots \cup {"vertex", "index"}  \* all a draw needs bound
None     == <<>>                            \* nothing bound, no address
Modes    == {"Fifo", "Mailbox"}

\* What the loading thread creates, in this order, and what a draw needs of it.
\* "objects" are the shader modules, the vertex layout and the sampler.
Resources == <<"vertex", "index", "frame", "object", "objects", "texture">>
DrawNeeds == {"vertex", "index", "frame", "object", "objects"}

VARIABLES
  draws,       \* passes with a packet to draw in this iteration
  call,        \* place in the script, 0 at the top of render_loop
  frames,      \* iterations begun
  requests,    \* requests made
  made,        \* resources created, their handles handed out
  creating,    \* index of the resource the loading thread creates next
  step,        \* where it is in that creation
  lock,        \* who holds the mutex it shares with the render thread
  list,        \* the command list the render thread records
  queue,       \* submissions the GPU has not finished, oldest first
  filled,      \* textures whose contents have arrived
  retired,     \* frames the GPU has finished
  ring,        \* the store each cell of each ring holds
  head,        \* the next cell of the ring in use
  stores,      \* stores made since the ring was reset
  meant,       \* per slot: the store meant for the next draw, 0 if refused
  address,     \* per slot: where its last store is
  bound,       \* per input: what is bound to the list
  generation,  \* per object: changed when it is destroyed or reused
  torn,        \* objects the last resize failed to create again
  begun,       \* frames for which begin_frame returned true
  up           \* "up", then "fonts" gone, then "down" in shutdown

budget   == <<frames, requests>>
creation == <<made, creating, step>>
gpu      == <<queue, filled, retired>>
memory   == <<ring, head, stores>>
slots    == <<meant, address, bound>>
objects  == <<generation, torn>>
shared   == <<draws, call, budget, creation, lock, list, gpu, memory, slots,
              objects, begun, up>>

Rings   == 0 .. FrameCount - 1
Cells   == 0 .. RingCells - 1
Objects == ({"commands"} \X Rings)
           \cup ({"views", "depth", "oneShot", "texture"} \X {0})
Empty   == [open |-> FALSE, reads |-> {}, uses |-> {}, fills |-> {}]

InitShared ==
  /\ draws = {} /\ call = 0 /\ frames = 0 /\ requests = 0
  /\ made = {} /\ creating = 1 /\ step = "idle" /\ lock = "free"
  /\ list = Empty /\ queue = <<>> /\ filled = {} /\ retired = 0
  /\ ring = [r \in Rings |-> [c \in Cells |-> 0]] /\ head = 0 /\ stores = 0
  /\ meant = [s \in Slots |-> 0] /\ address = [s \in Slots |-> None]
  /\ bound = [i \in Inputs |-> None]
  /\ generation = [o \in Objects |-> 1] /\ torn = {} /\ begun = 0
  /\ up = "up"

-----------------------------------------------------------------------------
(* The script of an iteration: calls, each with the argument that matters. *)

\* Mutant: the pipeline is set after the frame's uniform buffer is bound.
DrawPipelineLate(pass) ==
  <<<<"update_buffer", "frame">>, <<"cmd_bind_uniform", "frame">>,
    <<"cmd_set_pipeline", pass>>,
    <<"cmd_set_vertex_buffer", "vertex">>, <<"cmd_set_index_buffer", "index">>,
    <<"cmd_push_constants", "constants">>,
    <<"update_buffer", "object">>, <<"cmd_bind_uniform", "object">>>>
  \o (IF pass = "UI_Pass" THEN <<<<"cmd_set_scissor", "none">>>> ELSE <<>>)
  \o <<<<"cmd_draw_indexed", pass>>>>

\* Scene::renderScene, one packet: the calls between its pipeline and its draw
Draw(pass) ==
  <<<<"cmd_set_pipeline", pass>>,
    <<"update_buffer", "frame">>, <<"cmd_bind_uniform", "frame">>,
    <<"cmd_set_vertex_buffer", "vertex">>, <<"cmd_set_index_buffer", "index">>,
    <<"cmd_push_constants", "constants">>,
    <<"update_buffer", "object">>, <<"cmd_bind_uniform", "object">>>>
  \o (IF pass = "UI_Pass" THEN <<<<"cmd_set_scissor", "none">>>> ELSE <<>>)
  \o <<<<"cmd_draw_indexed", pass>>>>

\* A pass of the render graph, with its packet if it has one
Pass(name, drawn) ==
  <<<<"cmd_begin_pass", name>>>>
  \o (IF name \in drawn THEN Draw(name) ELSE <<>>)
  \o <<<<"cmd_end_pass", name>>>>

\* RenderGraph::execute, the passes in the order renderScene added them
Execute(drawn) ==
  <<<<"begin_commands", "none">>>>
  \o Pass("Clear", drawn) \o Pass("Forward", drawn) \o Pass("UI_Pass", drawn)
  \o <<<<"end_commands", "none">>, <<"submit", "none">>>>

\* render_loop, from begin_frame to end_frame
Script == [drawn \in SUBSET Passes |->
  <<<<"begin_frame", "none">>, <<"buildDrawList", "none">>>>
  \o Execute(drawn) \o <<<<"present", "none">>, <<"end_frame", "none">>>>]

Calling(op, arg) == call > 0 /\ Script[draws][call] = <<op, arg>>
Return  == call' = IF call = Len(Script[draws]) THEN 0 ELSE call + 1
GiveUp  == call' = 0      \* begin_frame returned false

\* The top of the loop: the thread goes on to begin_frame.
EnterFrame ==
  /\ up = "up" /\ call = 0 /\ frames < MaxFrames
  /\ frames' = frames + 1 /\ call' = 1 /\ draws' = {}
  /\ UNCHANGED <<requests, creation, lock, list, gpu, memory, slots,
                 objects, begun, up>>

\* process_pending_resizes has a request for the backend
Requested ==
  up = "up" /\ call = 0 /\ requests < MaxRequests /\ requests' = requests + 1

\* Scene::buildDrawList: a pass is drawn if its resources are there and so is its
\* pipeline, which may have to be created first.
BuildDrawList(new) ==
  /\ Calling("buildDrawList", "none") /\ Return
  /\ \E drawn \in SUBSET Passes :
       /\ drawn # {} => DrawNeeds \subseteq made
       /\ new \subseteq drawn /\ draws' = drawn
  /\ UNCHANGED <<budget, creation, list, gpu, memory, slots, objects, begun, up>>

-----------------------------------------------------------------------------
(* Stores and draws *)

\* A store for a slot into cell c of ring r.
Store(r, c, slot) ==
  /\ stores' = stores + 1
  /\ ring' = [ring EXCEPT ![r][c] = stores + 1]
  /\ head' = c + 1
  /\ meant' = [meant EXCEPT ![slot] = stores + 1]

\* Ring r is reset: what it held counts as overwritten, and numbers start again.
ResetRing(r) ==
  /\ ring' = [ring EXCEPT ![r] = [c \in Cells |-> 0]]
  /\ head' = 0 /\ stores' = 0
  /\ meant' = [s \in Slots |-> 0]

\* A store that was refused: the draw reads what it was bound to before.
Refuse(slot) ==
  /\ meant' = [meant EXCEPT ![slot] = 0]
  /\ UNCHANGED <<memory, address>>

\* What a draw recorded now will read.
Reads == {[input |-> i, at |-> bound[i],
           value |-> IF i \in Slots THEN meant[i] ELSE 0] : i \in Inputs}

Using(names) == {<<o, generation[o]>> : o \in names}

\* The views and the depth buffer a pass renders to, or what is in place of one
\* that could not be created again: a handle to nothing.
Targets == {IF o \in torn THEN <<<<o, 0>>, 0>> ELSE <<<<o, 0>>, generation[<<o, 0>>]>> :
            o \in {"views", "depth"}}

\* Append a submission to the queue.
Submit(kind, work, value) ==
  queue' = Append(queue, [kind |-> kind, reads |-> work.reads, uses |-> work.uses,
                          fills |-> work.fills, value |-> value])

-----------------------------------------------------------------------------
(* The loading thread and the GPU *)

Creating(r) == up = "up" /\ step = "idle" /\ creating <= Len(Resources) /\ Resources[creating] = r
Created ==
  /\ made' = made \cup {Resources[creating]}
  /\ creating' = creating + 1 /\ step' = "idle"
NotCreated ==
  /\ creating' = creating + 1 /\ step' = "idle" /\ UNCHANGED made

\* A copy of its own for the resource being created: its commands and its staging
\* buffer are one object, whose generation is the creation they serve.
SubmitCopy(fills) ==
  /\ generation' = [generation EXCEPT ![<<"oneShot", 0>>] = creating]
  /\ Submit("copy", [reads |-> {}, fills |-> fills, uses |-> {<<<<"oneShot", 0>>, creating>>}], 0)
ReleaseCopy == generation' = [generation EXCEPT ![<<"oneShot", 0>>] = 0]

\* The GPU finishes the oldest submission.
Finish ==
  /\ queue # <<>>
  /\ queue' = Tail(queue)
  /\ filled' = filled \cup Head(queue).fills
  /\ retired' = IF Head(queue).kind = "frame" THEN retired + 1 ELSE retired
  /\ UNCHANGED <<draws, call, budget, creation, lock, list, memory, slots,
                 objects, begun, up>>

Idle == queue = <<>>      \* the device has nothing left to do

\* IApplication::shutdown, the threads having ended: the font system goes, and
\* with it its texture, before the renderer.
ShutdownFonts ==
  /\ up = "up" /\ call = 0 /\ step = "idle"
  /\ up' = "fonts"
  /\ generation' = [generation EXCEPT ![<<"texture", 0>>] = @ + 1]
  /\ UNCHANGED <<draws, call, budget, creation, lock, list, gpu, memory, slots,
                 torn, begun>>

Outstanding == {queue[i] : i \in DOMAIN queue}
=============================================================================
