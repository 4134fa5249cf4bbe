------------------------------- MODULE Scene -------------------------------
(***************************************************************************)
(* The scene the render thread keeps: the proxies of the objects, in the   *)
(* partitioner, those of the user interface, and the camera. The commands  *)
(* a tick extracts (SceneRenderSystem, UIRenderSystem) reach it through    *)
(* the triple buffer: a frame may never be consumed, one that is may be    *)
(* lost because begin_frame fails, and an older one may come back.         *)
(*                                                                         *)
(* A proxy is the number of the frame it came with; 0: there is none.      *)
(***************************************************************************)
EXTENDS TripleBuffer, Sequences

CONSTANT Objects   \* the entities of the scene

Elements == {"panel", "first", "last"}   \* a quad, the first and the last glyph of a text

VARIABLES
  queues,      \* history: the commands of each frame, by its number
  hasNewState, \* what update_consumer returned
  proxies,     \* GridPartitioner::proxies_
  uiProxies,   \* Scene::uiProxies
  camera       \* Scene::cachedViewProj, as the number of its frame

drawn == <<proxies, uiProxies, camera>>
scene == <<tbVars, queues, hasNewState, drawn>>

InitScene ==
  /\ Init
  /\ queues = <<>> /\ hasNewState = FALSE
  /\ proxies = [o \in Objects |-> 0] /\ uiProxies = [e \in Elements |-> 0]
  /\ camera = 0

\* UIRenderSystem::extract: a quad, and one glyph for each character; "Selected: 1"
\* is shorter than "No Selection".
UIElements(selecting) == IF selecting THEN Elements \ {"last"} ELSE Elements

\* Before the application is ready it extracts nothing.
NoCommands == [camera |-> FALSE, objects |-> {}, elements |-> {}]

\* extract_render_state: the camera, the objects that have a mesh and a material,
\* ClearUI, the user interface.
Commands(objects, selecting) ==
  [camera |-> TRUE, objects |-> objects, elements |-> UIElements(selecting)]

Extract(commands) ==
  /\ BeginExtract
  /\ queues' = Append(queues, commands)
  /\ UNCHANGED <<hasNewState, drawn>>

\* push_producer
Push == (PushExchange \/ PushFlag) /\ UNCHANGED <<queues, hasNewState, drawn>>

\* update_consumer
UpdateConsumer ==
  /\ \/ ClaimFlag /\ hasNewState' = newData
     \/ SwapConsumer /\ UNCHANGED hasNewState
  /\ UNCHANGED <<queues, drawn>>

\* Mutant: the application does not send ClearUI.
Accumulate(uis) == uis

\* ClearUI
clearUIProxies(uis) == [e \in Elements |-> 0]

\* A map with the proxies of a frame added or replaced.
addOrUpdate(map, ids, n) == [i \in DOMAIN map |-> IF i \in ids THEN n ELSE map[i]]

setCameraViewProj(n) == camera' = n

\* The commands in the order in which they are in the queue.
processCommands(queue, n) ==
  /\ setCameraViewProj(n)
  /\ proxies' = addOrUpdate(proxies, queue.objects, n)
  /\ uiProxies' = addOrUpdate(clearUIProxies(uiProxies), queue.elements, n)

\* begin_frame fails, or render dispatches the commands of a frame the loop
\* has not had before, or only its camera.
RenderFrame(begun) ==
  LET n == buffers[consumer]
      queue == IF n = 0 THEN NoCommands ELSE queues[n]
  IN  /\ EndDraw
      /\ IF ~begun \/ ~queue.camera THEN UNCHANGED drawn
         ELSE IF hasNewState THEN processCommands(queue, n)
         ELSE setCameraViewProj(n) /\ UNCHANGED <<proxies, uiProxies>>
      /\ UNCHANGED <<queues, hasNewState>>

-----------------------------------------------------------------------------
(* Correctness *)

\* What the scene holds is what one tick extracted, whole: no proxy, object or
\* glyph, is left from another frame, although frames are skipped and lost or
\* come back, and nothing ever destroys the proxy of an object.
PictureWhole ==
  \A s, t \in ({proxies[o] : o \in Objects} \cup {uiProxies[e] : e \in Elements}) \ {0} :
    s = t
=============================================================================
