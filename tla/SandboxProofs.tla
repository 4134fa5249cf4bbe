---------------------------- MODULE SandboxProofs ----------------------------
(***************************************************************************)
(* What holds of the sandbox for any list, window, places, objects, number *)
(* of frames and number of events: the pointer is on one element, every    *)
(* click is earned, and the picture is of one tick.                        *)
(***************************************************************************)
EXTENDS Sandbox, TripleBufferProofs, SequenceTheorems

-----------------------------------------------------------------------------
(* The hand-over: the sandbox uses the triple buffer as its protocol demands *)

\* No action of the application touches the buffer but through its calls.
LEMMA SandboxStep == [SandboxNext]_vars => [Next]_tbVars
<1> SUFFICES ASSUME SandboxNext PROVE [Next]_tbVars
  BY DEF vars, scene
<1> USE DEF scene
<1>1. CASE \E got \in Loads : SetupDone(got)
  BY <1>1 DEF SetupDone
<1>2. CASE \E p \in Places : MouseMove(p) \/ MouseDown(p) \/ MouseUp(p)
  BY <1>2 DEF MouseMove, MouseDown, MouseUp
<1>3. CASE MouseDownClicked \/ MouseScrollStore \/ \E delta \in {-1, 1} : MouseScroll(delta)
  BY <1>3 DEF MouseDownClicked, MouseScrollStore, MouseScroll
<1>4. CASE BeginTick \/ ConsumeClick \/ InteractWithUI \/ ResetWheel \/ updateCamera \/ handleSelection
  BY <1>4 DEF BeginTick, ConsumeClick, InteractWithUI, ResetWheel, updateCamera, handleSelection
<1>5. CASE extract_render_state
  BY <1>5 DEF extract_render_state, Extract, Next, SimNext
<1>6. CASE HandOver
  BY <1>6 DEF HandOver, Push, UpdateConsumer, RenderFrame, Next, SimNext, RenderNext
<1> QED
  BY <1>1, <1>2, <1>3, <1>4, <1>5, <1>6 DEF SandboxNext

\* Everything proved of the triple buffer holds of the one in the sandbox.
THEOREM SandboxUsesTripleBuffer == SandboxSpec => Spec
<1>1. SandboxInit => Init
  BY DEF SandboxInit, InitScene
<1> QED
  BY <1>1, SandboxStep, PTL DEF SandboxSpec, Spec

LEMMA BuffersHold == SandboxSpec => []IInv
  BY SandboxUsesTripleBuffer, InvariantHolds, PTL

-----------------------------------------------------------------------------
(* The pointer *)

\* What holds in the middle of a tick as well: the colours follow the flags, of
\* one element at most, and the place does once the interaction has run.
PointerInv ==
  /\ hovered \subseteq Buttons /\ laid \in Int /\ offset \in Int
  /\ wheel \in Int /\ wheelRead \in Int
  /\ \A b, c \in hovered : b = c
  /\ pressed \subseteq hovered
  /\ lit = hovered
  /\ pc # "interact" => \A b \in hovered : aimed \in Clipped(b)

\* Two elements are never on top of each other under one pointer: rows lie side
\* by side, and the button is above them.
LEMMA TopIsOne ==
  ASSUME laid \in Int, NEW x, NEW b \in Top(x), NEW c \in Top(x)
  PROVE  b = c
<1> USE DEF Top
<1>1. zIndex(b) <= zIndex(c) /\ zIndex(c) <= zIndex(b)
  OBVIOUS
<1>2. b = Select <=> c = Select
  BY <1>1 DEF zIndex
<1>3. CASE b # Select
  <2>1. b \in Int /\ c \in Int /\ x = b - laid /\ x = c - laid
    BY <1>2, <1>3, UserInterfaceAssumption DEF Buttons, Clipped
  <2> QED BY <2>1
<1> QED BY <1>2, <1>3

LEMMA InteractPoints ==
  ASSUME PointerInv, pc = "interact", InteractWithUI
  PROVE  PointerInv'
<1> DEFINE top == Top(pos)
<1>1. hovered' = top /\ lit' = (lit \ (hovered \ top)) \cup (top \ hovered) /\ aimed' = pos
  BY DEF InteractWithUI, Interact, Left
<1>2. pressed' \subseteq top /\ laid' = laid /\ wheel' = wheel /\ wheelRead' = wheelRead
  BY DEF InteractWithUI, Interact, Pressed, input, main
<1>3. offset' \in Int
  <2>1. offset' = offset \/ offset' = Clamp(0, offset - wheel, Rows - Window)
    BY DEF InteractWithUI, Interact
  <2>2. offset \in Int /\ wheel \in Int /\ Rows \in Int /\ Window \in Int
    BY UserInterfaceAssumption DEF PointerInv
  <2> QED BY <2>1, <2>2 DEF Clamp
<1>4. lit' = top
  BY <1>1 DEF PointerInv
<1>5. top \subseteq Buttons /\ \A b \in top : pos \in Clipped(b)
  BY DEF Top
<1>6. \A b, c \in top : b = c
  BY TopIsOne DEF PointerInv
<1>7. \A b : Clipped(b)' = Clipped(b)
  BY <1>2 DEF Clipped
<1> QED
  BY <1>1, <1>2, <1>3, <1>4, <1>5, <1>6, <1>7 DEF PointerInv

LEMMA NextPointer == PointerInv /\ [SandboxNext]_vars => PointerInv'
<1> SUFFICES ASSUME PointerInv, [SandboxNext]_vars PROVE PointerInv'
  OBVIOUS
<1> DEFINE Still == /\ UNCHANGED <<hovered, pressed, lit, laid, offset, aimed>>
                    /\ wheel' \in Int /\ wheelRead' \in Int
<1>1. ASSUME Still, pc' # "interact" => pc # "interact" PROVE PointerInv'
  BY <1>1 DEF PointerInv, Clipped
<1>2. CASE (\E got \in Loads : SetupDone(got)) \/ HandOver \/ extract_render_state
  BY <1>1, <1>2 DEF SetupDone, HandOver, extract_render_state, ui, input, main, PointerInv
<1>3. CASE (\E p \in Places : MouseMove(p) \/ MouseDown(p) \/ MouseUp(p)) \/ MouseDownClicked
  BY <1>1, <1>3 DEF MouseMove, MouseDown, MouseUp, MouseDownClicked, ui, PointerInv
<1>4. CASE MouseScrollStore \/ \E delta \in {-1, 1} : MouseScroll(delta)
  BY <1>1, <1>4 DEF MouseScrollStore, MouseScroll, ui, input, PointerInv
<1>5. CASE BeginTick \/ ResetWheel \/ updateCamera \/ handleSelection
  <2>1. UNCHANGED ui /\ pc' # "interact" /\ wheel' \in {0, wheel} /\ wheelRead' = wheelRead
    BY <1>5 DEF BeginTick, ResetWheel, updateCamera, handleSelection, input, main
  <2>2. pc # "interact"
    BY <1>5 DEF BeginTick, ResetWheel, updateCamera, handleSelection
  <2> QED BY <1>1, <2>1, <2>2 DEF ui, PointerInv
<1>6. CASE ConsumeClick
  BY <1>6 DEF ConsumeClick, Layout, main, PointerInv
<1>7. CASE InteractWithUI
  BY <1>7, InteractPoints DEF InteractWithUI
<1>8. CASE UNCHANGED vars
  BY <1>1, <1>8 DEF vars, ui, input, main, PointerInv
<1> QED
  BY <1>2, <1>3, <1>4, <1>5, <1>6, <1>7, <1>8 DEF SandboxNext

\* At every time but between the layout and the interaction of a tick, at most one
\* element has the pointer; flags, colour and place agree on which.
THEOREM PointerIsOnOne == SandboxSpec => []PointerOnOne
<1>1. SandboxInit => PointerInv
  BY DEF SandboxInit, InitUI, PointerInv
<1>2. PointerInv => PointerOnOne
  BY DEF PointerInv, PointerOnOne
<1> QED
  BY <1>1, <1>2, NextPointer, PTL DEF SandboxSpec

-----------------------------------------------------------------------------
(* Clicks *)

\* A press that the interface has seen or is about to see in this tick.
InTick == pc \in {"consume", "interact"}
Armed  == pressed # {} \/ (InTick /\ isLeftDown = TRUE)

FlagsTyped == buttons \in BOOLEAN /\ clicked \in BOOLEAN /\ isLeftDown \in BOOLEAN

\* A click takes a release of its own. As long as the button is held none has been
\* made for the press under way; afterwards there is one that no click has used.
\* A tick that saw the button up has that release at its disposal even if the
\* button is down again, and two if it was released once more.
EarnedInv ==
  /\ fired \in Nat /\ ups \in Nat /\ fired <= ups
  /\ handler = "down" => buttons = TRUE
  /\ buttons = FALSE /\ (Armed \/ clicked = TRUE) => fired + 1 <= ups
  /\ InTick /\ isLeftDown = FALSE /\ pressed # {} =>
       /\ fired + 1 <= ups
       /\ buttons = FALSE /\ clicked = TRUE => fired + 2 <= ups

LEMMA NextFlagsTyped == FlagsTyped /\ [SandboxNext]_vars => FlagsTyped'
<1> SUFFICES ASSUME FlagsTyped, [SandboxNext]_vars PROVE FlagsTyped'
  OBVIOUS
<1> USE DEF FlagsTyped
<1>1. CASE (\E got \in Loads : SetupDone(got)) \/ HandOver \/ UNCHANGED vars
  BY <1>1 DEF SetupDone, HandOver, vars, input, local
<1>2. CASE \E p \in Places : MouseMove(p) \/ MouseDown(p) \/ MouseUp(p)
  BY <1>2 DEF MouseMove, MouseDown, MouseUp, local
<1>3. CASE MouseDownClicked \/ MouseScrollStore \/ \E delta \in {-1, 1} : MouseScroll(delta)
  BY <1>3 DEF MouseDownClicked, MouseScrollStore, MouseScroll, input, local
<1>4. CASE BeginTick
  BY <1>4 DEF BeginTick, LeftDown, input
<1>5. CASE ConsumeClick \/ InteractWithUI \/ ResetWheel \/ updateCamera \/ handleSelection \/ extract_render_state
  BY <1>5 DEF ConsumeClick, InteractWithUI, ResetWheel, updateCamera, handleSelection,
              extract_render_state, input, local
<1> QED
  BY <1>1, <1>2, <1>3, <1>4, <1>5 DEF SandboxNext

LEMMA NextEarned == FlagsTyped /\ EarnedInv /\ [SandboxNext]_vars => EarnedInv'
<1> SUFFICES ASSUME FlagsTyped, EarnedInv, [SandboxNext]_vars PROVE EarnedInv'
  OBVIOUS
<1> USE DEF EarnedInv, InTick, Armed
<1>1. CASE (\E got \in Loads : SetupDone(got)) \/ HandOver \/ UNCHANGED vars
  BY <1>1 DEF SetupDone, HandOver, vars, ui, input, main, local
<1>2. CASE \E p \in Places : MouseMove(p) \/ MouseDown(p) \/ MouseUp(p)
  <2>1. CASE \E p \in Places : MouseMove(p) \/ MouseDown(p)
    BY <2>1 DEF MouseMove, MouseDown, Event, ui, local
  <2>2. CASE \E p \in Places : MouseUp(p)
    <3>1. /\ handler = "none" /\ buttons = TRUE /\ buttons' = FALSE /\ ups' = ups + 1
          /\ UNCHANGED <<handler, clicked, pc, isLeftDown, fired, pressed>>
      BY <2>2 DEF MouseUp, Event, FlagsTyped, ui, local
    <3> QED BY <3>1
  <2> QED BY <1>2, <2>1, <2>2
<1>3. CASE MouseDownClicked
  BY <1>3 DEF MouseDownClicked, ui, local
<1>4. CASE MouseScrollStore \/ \E delta \in {-1, 1} : MouseScroll(delta)
  BY <1>4 DEF MouseScrollStore, MouseScroll, Event, ui, input, local
<1>5. CASE BeginTick
  <2>1. isReady => (isLeftDown' = FALSE => buttons = FALSE /\ clicked = FALSE)
                   /\ (isLeftDown' = TRUE => buttons = TRUE \/ clicked = TRUE)
    BY <1>5 DEF BeginTick, LeftDown, FlagsTyped
  <2>2. CASE isReady
    BY <1>5, <2>1, <2>2 DEF BeginTick, ui, input, main
  <2>3. CASE ~isReady
    BY <1>5, <2>3 DEF BeginTick, ui, input, main
  <2> QED BY <2>2, <2>3
<1>6. CASE ConsumeClick
  BY <1>6 DEF ConsumeClick, main, local
<1>7. CASE InteractWithUI
  <2>1. pc = "interact" /\ pc' = "reset" /\ UNCHANGED <<buttons, clicked, ups, handler>>
    BY <1>7 DEF InteractWithUI, input, main
  <2>2. fired' = fired + (IF Clicked(pos, isLeftDown) = {} THEN 0 ELSE 1)
    BY <1>7 DEF InteractWithUI, Interact
  <2>3. CASE isLeftDown = TRUE
    <3>1. Clicked(pos, isLeftDown) = {}
      BY <2>3 DEF Clicked
    <3>2. fired' = fired
      BY <2>2, <3>1
    <3> QED BY <2>1, <2>3, <3>2
  <2>4. CASE isLeftDown = FALSE
    <3>1. pressed' = {} /\ Clicked(pos, isLeftDown) = pressed \cap Top(pos)
      BY <1>7, <2>4 DEF InteractWithUI, Interact, Clicked, Pressed
    <3>2. fired' = fired \/ (fired' = fired + 1 /\ pressed # {})
      BY <2>2, <3>1
    <3>3. CASE pressed = {}
      BY <2>1, <3>1, <3>2, <3>3
    <3>4. CASE pressed # {}
      BY <2>1, <2>4, <3>1, <3>2, <3>4
    <3> QED BY <3>3, <3>4
  <2> QED BY <2>3, <2>4 DEF FlagsTyped
<1>8. CASE ResetWheel \/ updateCamera \/ handleSelection \/ extract_render_state
  BY <1>8 DEF ResetWheel, updateCamera, handleSelection, extract_render_state, ui, input, main, local
<1> QED
  BY <1>1, <1>2, <1>3, <1>4, <1>5, <1>6, <1>7, <1>8 DEF SandboxNext

\* No onClick runs that was not earned by a release of its own, however the writes
\* of the two threads interleave.
THEOREM ClicksAreEarned == SandboxSpec => []ClicksEarned
<1>1. SandboxInit => FlagsTyped
  BY DEF SandboxInit, FlagsTyped
<1>2. SandboxInit => EarnedInv
  BY DEF SandboxInit, InitUI, EarnedInv, InTick, Armed
<1>3. EarnedInv => ClicksEarned
  BY DEF EarnedInv, ClicksEarned
<1> QED
  BY <1>1, <1>2, <1>3, NextFlagsTyped, NextEarned, PTL DEF SandboxSpec
-----------------------------------------------------------------------------
(* The picture *)

\* Both assets were loaded: the objects of the scene have something to draw.
Dressed == {"mesh", "material"} \subseteq loaded

\* Every extracted frame has its commands, those of a tick that did nothing or of
\* one that draws all the objects there are, and the buffers hold no other frame.
QueuesInv ==
  /\ queues \in Seq([camera : BOOLEAN, objects : SUBSET Objects, elements : SUBSET Elements])
  /\ Len(queues) = published + (IF sim = "extract" THEN 1 ELSE 0)
  /\ \A n \in 1..Len(queues) :
       \/ queues[n] = NoCommands
       \/ isReady = TRUE /\ queues[n].objects = IF Dressed THEN Objects ELSE {}

\* All that is drawn came with frame n; before the set-up ends nothing is.
DrawnTogether(n) ==
  /\ n \in Nat /\ (isReady = FALSE => n = 0)
  /\ proxies = [o \in Objects |-> IF Dressed THEN n ELSE 0]
  /\ uiProxies \in [Elements -> {0, n}]

PictureInv == isReady \in BOOLEAN /\ QueuesInv /\ \E n : DrawnTogether(n)

\* An extraction appends the commands of a frame, all or nothing.
LEMMA ExtractQueues ==
  ASSUME IInv, PictureInv, extract_render_state PROVE QueuesInv'
<1> DEFINE commands == IF isReady
                       THEN Commands(IF Dressed THEN Objects ELSE {}, selected # NoObject)
                       ELSE NoCommands
           Queue == [camera : BOOLEAN, objects : SUBSET Objects, elements : SUBSET Elements]
<1>1. /\ queues' = Append(queues, commands) /\ sim = "tick" /\ sim' = "extract"
      /\ published' = published /\ isReady' = isReady /\ loaded' = loaded
  BY DEF extract_render_state, Extract, BeginExtract, Dressed, setup
<1>2. commands \in Queue
  BY DEF Commands, UIElements, NoCommands
<1>3. commands = NoCommands \/ (isReady = TRUE /\ commands.objects = IF Dressed THEN Objects ELSE {})
  BY DEF Commands, PictureInv
<1>4. queues \in Seq(Queue) /\ Len(queues) \in Nat
  BY DEF PictureInv, QueuesInv
<1> HIDE DEF commands, Queue
<1>5. /\ queues' \in Seq(Queue) /\ Len(queues') = Len(queues) + 1
      /\ \A n \in 1..Len(queues) : queues'[n] = queues[n]
      /\ queues'[Len(queues) + 1] = commands
  BY <1>1, <1>2, <1>4, AppendProperties
<1>6. Len(queues') = published' + (IF sim' = "extract" THEN 1 ELSE 0)
  BY <1>1, <1>5 DEF PictureInv, QueuesInv, IInv, TypeOK
<1>7. ASSUME NEW n \in 1..Len(queues')
      PROVE  queues'[n] = NoCommands \/ (isReady' = TRUE /\ queues'[n].objects = IF Dressed' THEN Objects ELSE {})
  <2>1. CASE n = Len(queues) + 1
    BY <1>1, <1>3, <1>5, <2>1 DEF Dressed
  <2>2. CASE n \in 1..Len(queues)
    BY <1>1, <1>5, <2>2 DEF Dressed, PictureInv, QueuesInv
  <2>3. n = Len(queues) + 1 \/ n \in 1..Len(queues)
    BY <1>4, <1>5
  <2> QED BY <2>1, <2>2, <2>3
<1> QED
  BY <1>5, <1>6, <1>7 DEF QueuesInv, Queue

\* A frame that is drawn replaces everything the one before left: its objects are
\* all there are or there never were any, and its user interface starts empty.
LEMMA RenderTogether ==
  ASSUME IInv, PictureInv, NEW begun \in BOOLEAN, RenderFrame(begun),
         UNCHANGED <<isReady, loaded>>
  PROVE  \E n : DrawnTogether(n)'
<1> DEFINE n == buffers[consumer]
           queue == IF n = 0 THEN NoCommands ELSE queues[n]
<1>1. n \in Nat /\ n <= published
  BY DEF IInv, TypeOK, FramesBounded
<1>2. PICK m : DrawnTogether(m)
  BY DEF PictureInv
<1>3. CASE UNCHANGED <<proxies, uiProxies>>
  BY <1>2, <1>3 DEF DrawnTogether, Dressed
<1>4. CASE queue.camera /\ processCommands(queue, n)
  <2>1. n # 0 /\ n \in 1..Len(queues)
    BY <1>1, <1>4 DEF NoCommands, PictureInv, QueuesInv, IInv, TypeOK
  <2>2. isReady = TRUE /\ queue.objects = (IF Dressed THEN Objects ELSE {}) /\ queue = queues[n]
    BY <1>4, <2>1 DEF NoCommands, PictureInv, QueuesInv
  <2>3. proxies' = [o \in Objects |-> IF Dressed THEN n ELSE 0]
    BY <1>2, <1>4, <2>2 DEF processCommands, addOrUpdate, DrawnTogether
  <2>4. uiProxies' \in [Elements -> {0, n}]
    BY <1>4 DEF processCommands, addOrUpdate, clearUIProxies
  <2> QED BY <1>1, <2>2, <2>3, <2>4 DEF DrawnTogether, Dressed
<1> QED
  BY <1>3, <1>4 DEF RenderFrame, drawn

LEMMA NextPicture == IInv /\ PictureInv /\ [SandboxNext]_vars => PictureInv'
<1> SUFFICES ASSUME IInv, PictureInv, [SandboxNext]_vars PROVE PictureInv'
  OBVIOUS
<1>1. CASE UNCHANGED <<setup, scene>>
  BY <1>1 DEF setup, scene, tbVars, drawn, PictureInv, QueuesInv, DrawnTogether, Dressed
<1>2. CASE \E got \in Loads : SetupDone(got)
  <2>1. isReady = FALSE /\ isReady' = TRUE /\ UNCHANGED <<sim, published, queues, proxies, uiProxies>>
    BY <1>2 DEF SetupDone, scene, tbVars, drawn, PictureInv
  <2>2. PICK n : DrawnTogether(n)
    BY DEF PictureInv
  <2>3. DrawnTogether(0)'
    BY <2>1, <2>2 DEF DrawnTogether
  <2>4. QueuesInv'
    BY <2>1 DEF PictureInv, QueuesInv
  <2> QED BY <2>1, <2>3, <2>4 DEF PictureInv
<1>3. CASE extract_render_state
  <2>1. UNCHANGED <<isReady, loaded, proxies, uiProxies>>
    BY <1>3 DEF extract_render_state, Extract, setup, drawn
  <2> QED BY <1>3, <2>1, ExtractQueues DEF PictureInv, DrawnTogether, Dressed
<1>4. CASE HandOver
  <2>1. UNCHANGED <<isReady, loaded, queues>>
    BY <1>4 DEF HandOver, setup, Push, UpdateConsumer, RenderFrame
  <2>2. QueuesInv'
    <3>1. published' + (IF sim' = "extract" THEN 1 ELSE 0) = published + (IF sim = "extract" THEN 1 ELSE 0)
      BY <1>4 DEF HandOver, Push, UpdateConsumer, RenderFrame, PushExchange, PushFlag, ClaimFlag,
                  SwapConsumer, EndDraw, IInv, TypeOK
    <3> QED BY <2>1, <3>1 DEF PictureInv, QueuesInv, Dressed
  <2>3. \E n : DrawnTogether(n)'
    <3>1. CASE Push \/ UpdateConsumer
      BY <2>1, <3>1 DEF Push, UpdateConsumer, drawn, PictureInv, DrawnTogether, Dressed
    <3>2. CASE \E begun \in BOOLEAN : RenderFrame(begun)
      BY <2>1, <3>2, RenderTogether
    <3> QED BY <1>4, <3>1, <3>2 DEF HandOver
  <2> QED BY <2>1, <2>2, <2>3 DEF PictureInv
<1>5. CASE (\E p \in Places : MouseMove(p) \/ MouseDown(p) \/ MouseUp(p)) \/ MouseDownClicked
           \/ MouseScrollStore \/ \E delta \in {-1, 1} : MouseScroll(delta)
  BY <1>1, <1>5 DEF MouseMove, MouseDown, MouseUp, MouseDownClicked, MouseScrollStore, MouseScroll
<1>6. CASE BeginTick \/ ConsumeClick \/ InteractWithUI \/ ResetWheel \/ updateCamera \/ handleSelection
  BY <1>1, <1>6 DEF BeginTick, ConsumeClick, InteractWithUI, ResetWheel, updateCamera, handleSelection
<1>7. CASE UNCHANGED vars
  BY <1>1, <1>7 DEF vars
<1> QED
  BY <1>2, <1>3, <1>4, <1>5, <1>6, <1>7 DEF SandboxNext

\* What the scene holds is what one tick extracted, although frames are skipped,
\* lost with a failed begin_frame or handed over again.
THEOREM PictureIsWhole == SandboxSpec => []PictureWhole
<1>1. SandboxInit => PictureInv
  <2> SUFFICES ASSUME SandboxInit PROVE PictureInv
    OBVIOUS
  <2>1. DrawnTogether(0)
    BY DEF SandboxInit, InitScene, DrawnTogether
  <2>2. queues = <<>> /\ published = 0 /\ sim = "tick" /\ isReady \in BOOLEAN
    BY DEF SandboxInit, InitScene, Init
  <2>3. QueuesInv
    BY <2>2 DEF QueuesInv
  <2> QED BY <2>1, <2>2, <2>3 DEF PictureInv
<1>2. PictureInv => PictureWhole
  BY DEF PictureInv, DrawnTogether, PictureWhole
<1> QED
  BY <1>1, <1>2, BuffersHold, NextPicture, PTL DEF SandboxSpec
=============================================================================
