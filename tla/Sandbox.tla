------------------------------ MODULE Sandbox ------------------------------
(***************************************************************************)
(* The sandbox application: its input state, which the main thread writes  *)
(* in app_on_event and the simulation thread reads and clears in tick,     *)
(* without a lock; the user interface and the selection that a tick works  *)
(* on; the frame it extracts and the render thread's scene.                *)
(*                                                                         *)
(* A tick takes one step for each access to the input state, so that the   *)
(* events fall between any two of them. Keys and the angles of the camera  *)
(* are left out; the key events and the resize event write nothing else.   *)
(***************************************************************************)
EXTENDS UserInterface, Scene, FiniteSets

CONSTANTS
  Places,      \* where the pointer can be
  Corner,      \* where mousePos is before the first event
  Behind,      \* [Places -> SUBSET Objects] the object a ray through a place hits first
  NoObject,    \* static_cast<EntityID>(-1)
  Loads,       \* bound: what the setup may have loaded
  MaxEvents    \* bound

ASSUME SandboxAssumption ==
  /\ Corner \in Places
  /\ Behind \in [Places -> SUBSET Objects] /\ \A p \in Places : Cardinality(Behind[p]) <= 1
  /\ NoObject \notin Objects
  /\ Loads \subseteq SUBSET {"mesh", "material"}
  /\ MaxEvents \in Nat

VARIABLES
  isReady, loaded,               \* the setup coroutine has ended; what it got
  buttons, clicked, pos, wheel,  \* inputState_
  handler, wheelRead,            \* where the main thread is in an event; the value += has read
  pc,                            \* where the simulation thread is in a tick
  isLeftDown, inputConsumed,     \* locals of tick
  isLooking, selected,
  ups, events                    \* counts

input == <<buttons, clicked, pos, wheel>>
main  == <<handler, wheelRead, ups, events>>
setup == <<isReady, loaded>>
local == <<isLeftDown, inputConsumed, isLooking, selected>>
vars  == <<setup, input, main, pc, local, ui, scene>>

SandboxInit ==
  /\ isReady = FALSE /\ loaded = {}
  /\ buttons = FALSE /\ clicked = FALSE /\ pos = Corner /\ wheel = 0
  /\ handler = "none" /\ wheelRead = 0 /\ ups = 0 /\ events = 0
  /\ pc = "idle"
  /\ isLeftDown = FALSE /\ inputConsumed = FALSE /\ isLooking = FALSE
  /\ selected = NoObject
  /\ InitUI /\ InitScene

\* setupAsync, on a thread of the pool: the entities get a mesh and a material
\* if these could be loaded.
SetupDone(got) ==
  /\ ~isReady
  /\ isReady' = TRUE /\ loaded' = got
  /\ UNCHANGED <<input, main, pc, local, ui, scene>>

-----------------------------------------------------------------------------
(* app_on_event, on the main thread *)

Event ==
  /\ handler = "none" /\ events < MaxEvents
  /\ events' = events + 1

MouseMove(p) ==
  /\ Event /\ p # pos
  /\ pos' = p
  /\ UNCHANGED <<handler, wheelRead, ups, setup, buttons, clicked, wheel, pc, local, ui, scene>>

MouseDown(p) ==
  /\ Event /\ ~buttons
  /\ pos' = p /\ buttons' = TRUE
  /\ handler' = "down"
  /\ UNCHANGED <<wheelRead, ups, setup, clicked, wheel, pc, local, ui, scene>>

\* The second write of MouseDown.
MouseDownClicked ==
  /\ handler = "down"
  /\ clicked' = TRUE
  /\ handler' = "none"
  /\ UNCHANGED <<wheelRead, ups, events, setup, buttons, pos, wheel, pc, local, ui, scene>>

MouseUp(p) ==
  /\ Event /\ buttons
  /\ pos' = p /\ buttons' = FALSE
  /\ ups' = ups + 1
  /\ UNCHANGED <<handler, wheelRead, setup, clicked, wheel, pc, local, ui, scene>>

\* MouseScroll is a read and a write.
MouseScroll(delta) ==
  /\ Event
  /\ wheelRead' = wheel + delta
  /\ handler' = "scroll"
  /\ UNCHANGED <<ups, setup, input, pc, local, ui, scene>>

MouseScrollStore ==
  /\ handler = "scroll"
  /\ wheel' = wheelRead
  /\ handler' = "none" /\ wheelRead' = 0
  /\ UNCHANGED <<ups, events, setup, buttons, clicked, pos, pc, local, ui, scene>>

-----------------------------------------------------------------------------
(* tick and extract_render_state, on the simulation thread *)

\* What tick takes for the state of the left button.
LeftDown == buttons \/ clicked

\* Before the application is ready a tick does nothing.
BeginTick ==
  /\ pc = "idle" /\ sim = "tick" /\ published < MaxFrames
  /\ IF isReady
     THEN isLeftDown' = LeftDown /\ pc' = "consume"
     ELSE UNCHANGED isLeftDown /\ pc' = "extract"
  /\ UNCHANGED <<setup, input, main, inputConsumed, isLooking, selected, ui, scene>>

\* The layout follows in the same step: it touches no input.
ConsumeClick ==
  /\ pc = "consume"
  /\ clicked' = FALSE
  /\ Layout
  /\ pc' = "interact"
  /\ UNCHANGED <<hovered, pressed, lit, offset, aimed, fired>>
  /\ UNCHANGED <<setup, buttons, pos, wheel, main, local, scene>>

\* Selection_Button clears the selection.
InteractWithUI ==
  /\ pc = "interact"
  /\ Interact(pos, isLeftDown, wheel)
  /\ inputConsumed' = Consumed(pos, wheel)
  /\ selected' = IF Select \in Clicked(pos, isLeftDown) THEN NoObject ELSE selected
  /\ pc' = "reset"
  /\ UNCHANGED <<laid, setup, input, main, isLeftDown, isLooking, scene>>

ResetWheel ==
  /\ pc = "reset"
  /\ wheel' = 0
  /\ IF inputConsumed
     THEN isLooking' = FALSE /\ pc' = "extract"
     ELSE UNCHANGED isLooking /\ pc' = "camera"
  /\ UNCHANGED <<setup, buttons, clicked, pos, main, isLeftDown, inputConsumed, selected, ui, scene>>

\* The wheel has been reset: what is left for the zoom is what turned since.
updateCamera ==
  /\ pc = "camera"
  /\ wheel' = 0
  /\ isLooking' = (buttons /\ (isLooking \/ Behind[pos] = {}))
  /\ pc' = "select"
  /\ UNCHANGED <<setup, buttons, clicked, pos, main, isLeftDown, inputConsumed, selected, ui, scene>>

\* The object the ray hits first, or none. The thread dies when that is a new
\* one without a material: nobody checks the component or the color in it.
handleSelection ==
  /\ pc = "select"
  /\ LET best == IF Behind[pos] = {} THEN NoObject ELSE CHOOSE o \in Behind[pos] : TRUE
         picks == isLeftDown /\ ~isLooking /\ best # selected
     IN  /\ selected' = IF picks THEN best ELSE selected
         /\ pc' = IF picks /\ best # NoObject /\ "material" \notin loaded THEN "dead" ELSE "extract"
  /\ UNCHANGED <<setup, input, main, isLeftDown, inputConsumed, isLooking, ui, scene>>

\* isReady_ is read again: the first picture may be of a tick that did nothing.
extract_render_state ==
  /\ pc = "extract"
  /\ Extract(IF isReady
             THEN Commands(IF {"mesh", "material"} \subseteq loaded THEN Objects ELSE {},
                           selected # NoObject)
             ELSE NoCommands)
  /\ pc' = "idle"
  /\ UNCHANGED <<setup, input, main, local, ui>>

-----------------------------------------------------------------------------

\* The rest of the simulation's iteration and that of the render thread.
HandOver ==
  /\ Push \/ UpdateConsumer \/ \E begun \in BOOLEAN : RenderFrame(begun)
  /\ UNCHANGED <<setup, input, main, pc, local, ui>>

SandboxNext ==
  \/ \E got \in Loads : SetupDone(got)
  \/ \E p \in Places : MouseMove(p) \/ MouseDown(p) \/ MouseUp(p)
  \/ MouseDownClicked
  \/ \E delta \in {-1, 1} : MouseScroll(delta)
  \/ MouseScrollStore
  \/ BeginTick \/ ConsumeClick \/ InteractWithUI \/ ResetWheel
  \/ updateCamera \/ handleSelection \/ extract_render_state
  \/ HandOver

SandboxSpec == SandboxInit /\ [][SandboxNext]_vars

-----------------------------------------------------------------------------
(* Correctness *)

\* The pointer belongs to one element: at most one is hovered, it is the one
\* that has its hover colour and the only one that may be pressed, and it is
\* under the pointer, in view, where the picture of this tick shows it. The
\* flags are set in one system, the colour in callbacks of four branches, the
\* place in another system, and the list scrolls under a pointer at rest.
PointerOnOne ==
  pc # "interact" =>
    /\ \A b, c \in hovered : b = c
    /\ pressed \subseteq hovered
    /\ lit = hovered
    /\ \A b \in hovered : aimed \in Clipped(b)

\* A click is earned: no onClick runs that the user did not end with a release
\* of the button, however the two writes of MouseDown, the release and the
\* clearing of the flag interleave; one press never clicks twice.
ClicksEarned == fired <= ups
=============================================================================
