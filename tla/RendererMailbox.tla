--------------------------- MODULE RendererMailbox ---------------------------
(***************************************************************************)
(* engine/render/frontend/renderer.h: the two settings that cross into the *)
(* render thread. The main thread queues window sizes (queue_resize), the  *)
(* simulation thread presentation modes (queue_present_mode), the render   *)
(* thread passes both to the backend (process_pending_resizes). Each       *)
(* access to an atomic is a step; relaxed ones may be taken in any order.  *)
(*                                                                         *)
(* The backend is told...: what resize_swapchain and set_present_mode were *)
(* last called with. resize_handle_ is written by both threads, always     *)
(* with the one swapchain there is, and is left out.                       *)
(***************************************************************************)
EXTENDS Naturals

CONSTANTS
  Lengths,         \* widths and heights a window can have, 0 when minimised
  InitialSize,     \* what the swapchain is created with
  InitialMode,
  MaxResizes,      \* bound: WindowResize events
  MaxModeChanges   \* bound: set_present_mode calls

PresentModes == {"Fifo", "Mailbox", "Immediate"}
Dimensions   == {"width", "height"}
Sizes        == [Dimensions -> Lengths]
Drawable     == {s \in Sizes : \A d \in Dimensions : s[d] > 0}

ASSUME MailboxAssumption ==
  /\ Lengths \subseteq Nat
  /\ InitialSize \in Drawable /\ InitialMode \in PresentModes
  /\ MaxResizes \in Nat /\ MaxModeChanges \in Nat

VARIABLES
  newSize,        \* new_width_ and new_height_
  pendingResize,  \* pending_resize_
  newMode,        \* new_present_mode_
  pendingMode,    \* pending_mode_change_
  main,           \* main thread: "idle", or "queue" inside queue_resize
  toStore,        \* dimensions queue_resize has still to store
  sim,            \* simulation thread: "idle", "store" or "flag"
  render,         \* render thread: where it is in process_pending_resizes
  toLoad,         \* dimensions it has still to load
  loaded,         \* its w and h
  toldSize,       \* the size resize_swapchain was last called with
  toldMode,       \* the mode set_present_mode was last called with
  windowSize,     \* the window's size: the argument of the last queue_resize
  modeRequest,    \* config_.presentMode: that of the last queue_present_mode
  spent           \* how much of each bound is used up

sizeCell == <<newSize, pendingResize>>
modeCell == <<newMode, pendingMode>>
mainVars == <<main, toStore, windowSize>>
simVars  == <<sim, modeRequest>>
told     == <<toldSize, toldMode>>
vars     == <<sizeCell, modeCell, mainVars, simVars,
              render, toLoad, loaded, told, spent>>

Init ==
  /\ newSize = [d \in Dimensions |-> 0] /\ pendingResize = FALSE
  /\ newMode = "Fifo" /\ pendingMode = FALSE
  /\ main = "idle" /\ toStore = {} /\ sim = "idle"
  /\ render = "resizeFlag" /\ toLoad = {} /\ loaded = [d \in Dimensions |-> 0]
  /\ toldSize = InitialSize /\ toldMode = InitialMode
  /\ windowSize = InitialSize /\ modeRequest = InitialMode
  /\ spent = [resizes |-> 0, modes |-> 0]

-----------------------------------------------------------------------------
(* Main thread: a WindowResize event *)

\* on_event calls queue_resize with the window's new size.
OnResize ==
  /\ main = "idle" /\ spent.resizes < MaxResizes
  /\ windowSize' \in Sizes
  /\ main' = "queue" /\ toStore' = Dimensions
  /\ spent' = [spent EXCEPT !.resizes = @ + 1]
  /\ UNCHANGED <<sizeCell, modeCell, simVars, render, toLoad, loaded, told>>

StoreLength(d) ==
  /\ d \in toStore
  /\ toStore' = toStore \ {d}
  /\ newSize' = [newSize EXCEPT ![d] = windowSize[d]]
  /\ UNCHANGED <<pendingResize, modeCell, main, windowSize, simVars,
                 render, toLoad, loaded, told, spent>>

\* Mutant: the flag is raised before the size is stored.
RaiseResizeEarly ==
  /\ main = "queue" /\ toStore = Dimensions
  /\ main' = "idle" /\ pendingResize' = TRUE
  /\ UNCHANGED <<newSize, modeCell, toStore, windowSize, simVars,
                 render, toLoad, loaded, told, spent>>

\* Mutant: the flag is left to the next event.
RaiseResizeNever ==
  /\ main = "queue" /\ toStore = {}
  /\ main' = "idle"
  /\ UNCHANGED <<sizeCell, modeCell, toStore, windowSize, simVars,
                 render, toLoad, loaded, told, spent>>

\* pending_resize_.store(true, release): both lengths have been stored.
RaiseResize ==
  /\ main = "queue" /\ toStore = {}
  /\ main' = "idle" /\ pendingResize' = TRUE
  /\ UNCHANGED <<newSize, modeCell, toStore, windowSize, simVars,
                 render, toLoad, loaded, told, spent>>

-----------------------------------------------------------------------------
(* Simulation thread: set_present_mode *)

SetPresentMode ==
  /\ sim = "idle" /\ spent.modes < MaxModeChanges
  /\ sim' = "store"
  /\ spent' = [spent EXCEPT !.modes = @ + 1]
  /\ UNCHANGED <<sizeCell, modeCell, mainVars, modeRequest,
                 render, toLoad, loaded, told>>

\* new_present_mode_.store: from here on this is the mode requested.
StoreMode ==
  /\ sim = "store"
  /\ sim' = "flag"
  /\ newMode' \in PresentModes /\ modeRequest' = newMode'
  /\ UNCHANGED <<sizeCell, pendingMode, mainVars,
                 render, toLoad, loaded, told, spent>>

\* Mutant: the second store is missing.
RaiseModeNever ==
  /\ sim = "flag"
  /\ sim' = "idle"
  /\ UNCHANGED <<sizeCell, modeCell, mainVars, modeRequest,
                 render, toLoad, loaded, told, spent>>

\* pending_mode_change_.store(true, release)
RaiseMode ==
  /\ sim = "flag"
  /\ sim' = "idle" /\ pendingMode' = TRUE
  /\ UNCHANGED <<sizeCell, newMode, mainVars, modeRequest,
                 render, toLoad, loaded, told, spent>>

-----------------------------------------------------------------------------
(* Render thread: process_pending_resizes, called once per rendered frame *)

ClaimResize ==
  /\ render = "resizeFlag"
  /\ render' = IF pendingResize THEN "load" ELSE "modeFlag"
  /\ toLoad' = IF pendingResize THEN Dimensions ELSE toLoad
  /\ pendingResize' = FALSE
  /\ UNCHANGED <<newSize, modeCell, mainVars, simVars, loaded, told, spent>>

LoadLength(d) ==
  /\ d \in toLoad
  /\ toLoad' = toLoad \ {d}
  /\ loaded' = [loaded EXCEPT ![d] = newSize[d]]
  /\ UNCHANGED <<sizeCell, modeCell, mainVars, simVars, render, told, spent>>

\* Mutant: a minimised window is passed on.
ResizeUnguarded ==
  /\ render = "load" /\ toLoad = {}
  /\ render' = "modeFlag"
  /\ toldSize' = loaded
  /\ UNCHANGED <<sizeCell, modeCell, mainVars, simVars,
                 toLoad, loaded, toldMode, spent>>

\* resize_swapchain, unless a length is zero
ResizeSwapchain ==
  /\ render = "load" /\ toLoad = {}
  /\ render' = "modeFlag"
  /\ toldSize' = IF loaded \in Drawable THEN loaded ELSE toldSize
  /\ UNCHANGED <<sizeCell, modeCell, mainVars, simVars,
                 toLoad, loaded, toldMode, spent>>

ClaimMode ==
  /\ render = "modeFlag"
  /\ render' = IF pendingMode THEN "mode" ELSE "resizeFlag"
  /\ pendingMode' = FALSE
  /\ UNCHANGED <<sizeCell, newMode, mainVars, simVars,
                 toLoad, loaded, told, spent>>

\* new_present_mode_.load and set_present_mode
ApplyMode ==
  /\ render = "mode"
  /\ render' = "resizeFlag"
  /\ toldMode' = newMode
  /\ UNCHANGED <<sizeCell, modeCell, mainVars, simVars,
                 toLoad, loaded, toldSize, spent>>

-----------------------------------------------------------------------------
QueueResize == (\E d \in Dimensions : StoreLength(d)) \/ RaiseResize
QueueMode   == StoreMode \/ RaiseMode
ProcessPending ==
  \/ ClaimResize \/ (\E d \in Dimensions : LoadLength(d)) \/ ResizeSwapchain
  \/ ClaimMode \/ ApplyMode

Next == OnResize \/ QueueResize \/ SetPresentMode \/ QueueMode \/ ProcessPending

Spec == Init /\ [][Next]_vars

\* A call that has begun ends, and the render loop goes round.
FairSpec ==
  Spec /\ WF_vars(QueueResize) /\ WF_vars(QueueMode) /\ WF_vars(ProcessPending)

-----------------------------------------------------------------------------
(* Correctness *)

\* In particular the backend is never given a size it cannot create images of.
TypeOK ==
  /\ newSize \in [Dimensions -> Lengths \cup {0}] /\ pendingResize \in BOOLEAN
  /\ newMode \in PresentModes /\ pendingMode \in BOOLEAN
  /\ main \in {"idle", "queue"} /\ toStore \in SUBSET Dimensions
  /\ sim \in {"idle", "store", "flag"}
  /\ render \in {"resizeFlag", "load", "modeFlag", "mode"}
  /\ toLoad \in SUBSET Dimensions /\ loaded \in [Dimensions -> Lengths \cup {0}]
  /\ toldSize \in Drawable /\ toldMode \in PresentModes
  /\ windowSize \in Sizes /\ modeRequest \in PresentModes
  /\ spent \in [resizes : Nat, modes : Nat]

\* No size is lost between the two threads: when the main thread has finished
\* queue_resize and the render thread has nothing pending and nothing loaded,
\* the backend has been told the window's size (unless it cannot be drawn to).
\* One flag guards two words, so this rests on the flag being raised after
\* both stores and cleared before both loads.
NoResizeLost ==
  main = "idle" /\ ~pendingResize /\ render # "load"
    /\ windowSize \in Drawable => toldSize = windowSize

\* Nor is a presentation mode.
NoModeLost ==
  sim # "flag" /\ ~pendingMode /\ render # "mode" => toldMode = modeRequest

\* The swapchain catches up with a window that stays as it is.
ResizeArrives ==
  \A s \in Drawable : windowSize = s ~> toldSize = s \/ windowSize # s

\* The mode, a single word, is handed over as one: the backend is only ever
\* told the mode requested last, and is told it in the end.
ModeMailbox == INSTANCE LatestValue
  WITH Values <- PresentModes, InitialValue <- InitialMode,
       requested <- modeRequest, applied <- toldMode
ModeHandedOver == ModeMailbox!Spec
=============================================================================
