----------------------------- MODULE EngineLoop -----------------------------
(***************************************************************************)
(* engine/platform/public/application.cpp: the main thread that starts and *)
(* stops the engine threads, simulation_loop and render_loop, with the     *)
(* condition variable between them, running over the TripleBuffer.         *)
(*                                                                         *)
(* The actions of TripleBuffer are conjoined with the control of the loop  *)
(* they are called from. A condition variable is a place the render thread *)
(* is in ("blocked") until a notify moves it on; a critical section that   *)
(* does not wait inside is one action guarded by the free mutex.           *)
(***************************************************************************)
EXTENDS TripleBuffer

CONSTANTS
  InitialMode,     \* presentMode the application is configured with
  MaxModeChanges,  \* bound: set_present_mode calls from the UI
  MaxSuspends,     \* bound: changes of is_foreground
  MaxSpurious      \* bound: spurious wake-ups of renderCv_

Modes == {"Fifo", "Uncapped"}

ASSUME LoopAssumption ==
  /\ InitialMode \in Modes
  /\ MaxModeChanges \in Nat /\ MaxSuspends \in Nat /\ MaxSpurious \in Nat

VARIABLES
  main,        \* where the main thread is
  simLoop,     \* where simulation_loop is
  renderLoop,  \* where render_loop is
  running,     \* isRunning_
  mutex,       \* stateMutex_ is held (by the render thread, in wait)
  frameReady,  \* frameReady_
  mode,        \* config_.presentMode, Immediate and Mailbox alike
  foreground,  \* platform_.is_foreground()
  hasNewState, \* the result of update_consumer in this iteration
  heldBack,    \* history: an iteration in the background skipped the buffer
  spent        \* how much of each bound is used up

control  == <<main, simLoop, renderLoop, running>>
signal   == <<mutex, frameReady>>
outside  == <<mode, foreground, spent>>
frame    == <<hasNewState, heldBack>>
loopVars == <<control, signal, outside, frame>>
vars     == <<tbVars, loopVars>>

EngineInit ==
  /\ Init
  /\ main = "start" /\ simLoop = "off" /\ renderLoop = "off"
  /\ running = FALSE
  /\ mutex = FALSE /\ frameReady = FALSE
  /\ mode = InitialMode /\ foreground = TRUE
  /\ hasNewState = FALSE /\ heldBack = FALSE
  /\ spent = [modes |-> 0, suspends |-> 0, spurious |-> 0]

-----------------------------------------------------------------------------
(* Main thread *)

StartEngineThreads ==
  /\ main = "start"
  /\ main' = "run" /\ running' = TRUE
  /\ simLoop' = "head" /\ renderLoop' = "head"
  /\ UNCHANGED <<tbVars, signal, outside, frame>>

\* stop_engine_threads: isRunning_ = false, with no mutex held ...
StopEngineThreads ==
  /\ main = "run"
  /\ main' = "notify" /\ running' = FALSE
  /\ UNCHANGED <<tbVars, simLoop, renderLoop, signal, outside, frame>>

\* A notify moves a blocked render thread on to take the mutex again.
WakeRender == renderLoop' = IF renderLoop = "blocked" THEN "lock" ELSE renderLoop

\* Mutant: the notification is forgotten.
StopWithoutNotify ==
  /\ main = "notify"
  /\ main' = "join"
  /\ UNCHANGED <<tbVars, simLoop, renderLoop, running, signal, outside, frame>>

\* ... and, when the task scheduler is down, renderCv_.notify_all()
NotifyStop ==
  /\ main = "notify"
  /\ main' = "join"
  /\ WakeRender
  /\ UNCHANGED <<tbVars, simLoop, running, signal, outside, frame>>

Join ==
  /\ main = "join" /\ simLoop = "stopped" /\ renderLoop = "stopped"
  /\ main' = "stopped"
  /\ UNCHANGED <<tbVars, simLoop, renderLoop, running, signal, outside, frame>>

\* The window system suspends or resumes the application (poll_events).
ToggleForeground ==
  /\ main = "run" /\ spent.suspends < MaxSuspends
  /\ foreground' = ~foreground
  /\ spent' = [spent EXCEPT !.suspends = @ + 1]
  /\ UNCHANGED <<tbVars, control, signal, mode, frame>>

-----------------------------------------------------------------------------
(* Simulation thread *)

SimHead ==
  /\ simLoop = "head"
  /\ simLoop' = IF running THEN "tick" ELSE "stopped"
  /\ UNCHANGED <<tbVars, main, renderLoop, running, signal, outside, frame>>

\* A button of the UI calls set_present_mode during tick.
SetPresentMode ==
  /\ simLoop = "tick" /\ spent.modes < MaxModeChanges
  /\ mode' \in Modes \ {mode}
  /\ spent' = [spent EXCEPT !.modes = @ + 1]
  /\ UNCHANGED <<tbVars, control, signal, foreground, frame>>

\* Less than fixedDt_ accumulated: no tick, no extraction, yield.
SimYield ==
  /\ simLoop = "tick"
  /\ simLoop' = "head"
  /\ UNCHANGED <<tbVars, main, renderLoop, running, signal, outside, frame>>

SimExtract ==
  /\ simLoop = "tick" /\ BeginExtract
  /\ simLoop' = "push"
  /\ UNCHANGED <<main, renderLoop, running, signal, outside, frame>>

SimPushExchange == simLoop = "push" /\ PushExchange /\ UNCHANGED loopVars

SimPushFlag ==
  /\ simLoop = "push" /\ PushFlag
  /\ simLoop' = "lock"
  /\ UNCHANGED <<main, renderLoop, running, signal, outside, frame>>

\* Mutant: frameReady_ is set without stateMutex_.
SimReadyUnlocked ==
  /\ simLoop = "lock"
  /\ simLoop' = "notify" /\ frameReady' = TRUE
  /\ UNCHANGED <<tbVars, main, renderLoop, running, mutex, outside, frame>>

\* { lock_guard lock(stateMutex_); frameReady_ = true; }
SimReady ==
  /\ simLoop = "lock" /\ ~mutex
  /\ simLoop' = "notify" /\ frameReady' = TRUE
  /\ UNCHANGED <<tbVars, main, renderLoop, running, mutex, outside, frame>>

\* renderCv_.notify_one()
SimNotify ==
  /\ simLoop = "notify"
  /\ simLoop' = "head"
  /\ WakeRender
  /\ UNCHANGED <<tbVars, main, running, signal, outside, frame>>

-----------------------------------------------------------------------------
(* Render thread *)

RenderGoto(from, to) == renderLoop = from /\ renderLoop' = to

RenderHead ==
  /\ RenderGoto("head", IF running THEN "mode" ELSE "stopped")
  /\ UNCHANGED <<tbVars, main, simLoop, running, signal, outside, frame>>

\* if (config_.presentMode == PresentMode::Fifo)
RenderMode ==
  /\ RenderGoto("mode", IF mode = "Fifo" THEN "lock" ELSE "reset")
  /\ UNCHANGED <<tbVars, main, simLoop, running, signal, outside, frame>>

\* unique_lock, the first time or on the way out of the wait
RenderLock ==
  /\ RenderGoto("lock", "predicate") /\ ~mutex
  /\ mutex' = TRUE
  /\ UNCHANGED <<tbVars, main, simLoop, running, frameReady, outside, frame>>

\* The predicate holds: frameReady_ = false, and the lock is released.
RenderWake ==
  /\ RenderGoto("predicate", "check") /\ (frameReady \/ ~running)
  /\ mutex' = FALSE /\ frameReady' = FALSE
  /\ UNCHANGED <<tbVars, main, simLoop, running, outside, frame>>

\* The predicate was false. The thread still holds the mutex, which keeps
\* the simulation out, but not the main thread, which takes no mutex.
RenderWait ==
  /\ RenderGoto("predicate", "block") /\ ~frameReady /\ running
  /\ UNCHANGED <<tbVars, main, simLoop, running, signal, outside, frame>>

\* Mutant: the thread sleeps with the mutex held.
RenderBlockHolding ==
  /\ RenderGoto("block", "blocked")
  /\ UNCHANGED <<tbVars, main, simLoop, running, signal, outside, frame>>

\* The mutex is released and the thread put to sleep, in one step.
RenderBlock ==
  /\ RenderGoto("block", "blocked")
  /\ mutex' = FALSE
  /\ UNCHANGED <<tbVars, main, simLoop, running, frameReady, outside, frame>>

RenderSpurious ==
  /\ RenderGoto("blocked", "lock") /\ spent.spurious < MaxSpurious
  /\ spent' = [spent EXCEPT !.spurious = @ + 1]
  /\ UNCHANGED <<tbVars, main, simLoop, running, signal, mode, foreground, frame>>

\* Uncapped: frameReady_.store(false), with no mutex
RenderReset ==
  /\ RenderGoto("reset", "check")
  /\ frameReady' = FALSE
  /\ UNCHANGED <<tbVars, main, simLoop, running, mutex, outside, frame>>

\* if (!isRunning_) break
RenderCheck ==
  /\ RenderGoto("check", IF running THEN "foreground" ELSE "stopped")
  /\ UNCHANGED <<tbVars, main, simLoop, running, signal, outside, frame>>

\* Background: sleep_idle and nothing else
RenderIdle ==
  /\ RenderGoto("foreground", "head") /\ ~foreground
  /\ heldBack' = TRUE
  /\ UNCHANGED <<tbVars, main, simLoop, running, signal, outside,
                 hasNewState>>

\* Mutant: the buffer is only looked at when the simulation has signalled.
RenderClaimIfReady ==
  /\ renderLoop = "foreground" /\ foreground
  /\ \/ /\ frameReady /\ ClaimFlag
        /\ renderLoop' = "update" /\ hasNewState' = newData
     \/ /\ ~frameReady
        /\ renderLoop' = "head" /\ UNCHANGED <<tbVars, hasNewState>>
  /\ heldBack' = FALSE
  /\ UNCHANGED <<main, simLoop, running, signal, outside>>

\* hasNewState = update_consumer(), its first access ...
RenderClaim ==
  /\ RenderGoto("foreground", "update") /\ foreground
  /\ ClaimFlag
  /\ hasNewState' = newData /\ heldBack' = FALSE
  /\ UNCHANGED <<main, simLoop, running, signal, outside>>

\* ... and its second
RenderSwap == renderLoop = "update" /\ SwapConsumer /\ UNCHANGED loopVars

\* begin_frame() fails: nothing is rendered in this iteration.
RenderSkip ==
  /\ RenderGoto("update", "head") /\ EndDraw
  /\ UNCHANGED <<main, simLoop, running, signal, outside, frame>>

\* begin_frame() succeeds; render (its effect on the scene is in Scene)
RenderBegin ==
  /\ RenderGoto("update", "draw") /\ render = "draw"
  /\ UNCHANGED <<tbVars, main, simLoop, running, signal, outside, frame>>

\* graph.execute, present, end_frame
RenderEnd ==
  /\ RenderGoto("draw", "head") /\ EndDraw
  /\ UNCHANGED <<main, simLoop, running, signal, outside, frame>>

-----------------------------------------------------------------------------
MainStop == NotifyStop \/ Join
MainNext == StartEngineThreads \/ StopEngineThreads \/ MainStop \/ ToggleForeground

SimWork ==
  SimHead \/ SimPushExchange \/ SimPushFlag \/ SimReady \/ SimNotify
SimLoopNext == SimWork \/ SimYield \/ SetPresentMode \/ SimExtract

RenderWork ==
  \/ RenderHead \/ RenderMode \/ RenderLock \/ RenderWake \/ RenderWait
  \/ RenderBlock \/ RenderReset \/ RenderCheck \/ RenderIdle
  \/ RenderClaim \/ RenderSwap \/ RenderSkip \/ RenderBegin \/ RenderEnd
RenderLoopNext == RenderWork \/ RenderSpurious

EngineNext == MainNext \/ SimLoopNext \/ RenderLoopNext

EngineSpec == EngineInit /\ [][EngineNext]_vars

\* The threads are scheduled and a free mutex is obtained; that a tick ends is
\* the fairness of the yield. Nothing obliges the user to close the window,
\* the simulation to produce another frame, or the wait to wake spuriously.
EngineFairSpec ==
  EngineSpec
    /\ WF_vars(StartEngineThreads) /\ WF_vars(MainStop)
    /\ WF_vars(SimWork \/ SimYield \/ SimExtract) /\ WF_vars(RenderWork)

-----------------------------------------------------------------------------
(* Correctness *)

\* The mutex is held exactly while the render thread evaluates the predicate,
\* never while it sleeps or draws: the simulation "MUST NEVER block waiting on
\* the Render thread" (GEMINI.md) but for those few instructions.
MutexHeldBriefly == mutex <=> renderLoop \in {"predicate", "block"}

\* No frame signal is lost: a render thread asleep on renderCv_ with
\* frameReady_ set is about to be notified, and it never goes to sleep on a
\* predicate that has become true of frameReady_ since it looked.
FrameSignalKept ==
  /\ renderLoop = "block" => ~frameReady
  /\ renderLoop = "blocked" /\ frameReady => simLoop = "notify"

\* A published frame is never left lying while the render thread sleeps: if it
\* has not been seen, the simulation is still on its way to the notify. (An
\* iteration spent in the background may have thrown the signal away.)
NoFrameStranded ==
  renderLoop \in {"block", "blocked"} /\ seen < published /\ ~heldBack
    => frameReady \/ simLoop \in {"push", "lock"}

\* A frame the simulation publishes reaches the render thread, unless the
\* application is put in the background or stopped.
FrameDelivered ==
  \A n \in 1..MaxFrames :
    published >= n ~> (seen >= n \/ ~foreground \/ ~running)

\* Both threads end and are joined if the render thread is anywhere but between
\* a predicate it found false and its sleep when isRunning_ has been cleared.
ShutdownOutsideWindow ==
  main = "notify" /\ renderLoop # "block" ~> main = "stopped"

\* "Wake up render thread if it's waiting" (application.cpp:143): both threads
\* are joined once stop_engine_threads has notified them.
\* Does not hold: isRunning_ is cleared without stateMutex_, so the notify can
\* fall into that window; the render thread then sleeps for ever.
ShutdownCompletes == main = "join" ~> main = "stopped"
=============================================================================
