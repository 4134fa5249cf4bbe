--------------------------- MODULE EngineLoopProofs ---------------------------
(***************************************************************************)
(* The engine loops use the triple buffer as its protocol asks, so all     *)
(* that is proved of it holds in the engine; and the signal between the    *)
(* two loops is never lost, with any number of frames, mode changes,       *)
(* suspensions and spurious wake-ups.                                      *)
(***************************************************************************)
EXTENDS EngineLoop, TripleBufferProofs

\* Where a loop is while its thread is inside a call of the triple buffer.
Linked ==
  /\ sim # "tick" => simLoop = "push"
  /\ render # "loop" => renderLoop \in {"update", "draw"}

\* NoFrameStranded for every place of the render loop: a frame not seen is
\* signalled, being pushed, or about to be looked for.
FrameExpected ==
  seen < published /\ ~heldBack =>
    \/ frameReady
    \/ simLoop \in {"push", "lock"}
    \/ renderLoop \in {"check", "foreground", "stopped"}
    \/ render = "swap"

\* Nothing has happened before start_engine_threads.
NotStarted ==
  main = "start" => simLoop = "off" /\ renderLoop = "off" /\ seen = published

LoopInv ==
  MutexHeldBriefly /\ FrameSignalKept /\ Linked /\ FrameExpected /\ NotStarted

-----------------------------------------------------------------------------
(* The engine runs the triple buffer's protocol *)

\* The steps of the main thread and the control steps of the loops leave the
\* triple buffer alone; each of the others is one of its accesses.
LEMMA EngineStep == [EngineNext]_vars => [Next]_tbVars
<1> SUFFICES ASSUME [EngineNext]_vars PROVE [Next]_tbVars
  OBVIOUS
<1>1. CASE MainNext
  BY <1>1 DEF MainNext, MainStop, StartEngineThreads, StopEngineThreads,
              NotifyStop, Join, ToggleForeground
<1>2. CASE SimLoopNext
  BY <1>2 DEF SimLoopNext, SimWork, SimHead, SetPresentMode, SimYield, SimExtract,
              SimPushExchange, SimPushFlag, SimReady, SimNotify, Next, SimNext
<1>3. CASE RenderLoopNext
  BY <1>3 DEF RenderLoopNext, RenderWork, RenderHead, RenderMode, RenderLock,
              RenderWake, RenderWait, RenderBlock, RenderSpurious, RenderReset,
              RenderCheck, RenderIdle, RenderClaim, RenderSwap, RenderSkip,
              RenderBegin, RenderEnd, Next, RenderNext
<1>4. CASE UNCHANGED vars
  BY <1>4 DEF vars
<1> QED
  BY <1>1, <1>2, <1>3, <1>4 DEF EngineNext

\* The engine implements the closed triple buffer, and inherits its theorems.
THEOREM EngineUsesTripleBuffer == EngineSpec => Spec
  BY EngineStep, PTL DEF EngineSpec, EngineInit, Spec

-----------------------------------------------------------------------------
(* The signal between the loops *)

LEMMA EngineInitInv == EngineInit => LoopInv
  BY DEF EngineInit, Init, LoopInv, MutexHeldBriefly, FrameSignalKept, Linked,
         FrameExpected, NotStarted

LEMMA MainKeepsInv == LoopInv /\ MainNext => LoopInv'
<1> SUFFICES ASSUME LoopInv, MainNext PROVE LoopInv'
  OBVIOUS
<1> USE DEF LoopInv, MutexHeldBriefly, FrameSignalKept, Linked, FrameExpected,
            NotStarted, tbVars, control, signal, outside, frame
<1>1. CASE StartEngineThreads
  BY <1>1 DEF StartEngineThreads
<1>2. CASE StopEngineThreads
  BY <1>2 DEF StopEngineThreads
<1>3. CASE NotifyStop
  BY <1>3 DEF NotifyStop, WakeRender
<1>4. CASE Join
  BY <1>4 DEF Join
<1>5. CASE ToggleForeground
  BY <1>5 DEF ToggleForeground
<1> QED
  BY <1>1, <1>2, <1>3, <1>4, <1>5 DEF MainNext, MainStop
\* The published frame and the flag of the triple buffer only matter through
\* NewestKept: an update_consumer that finds no new data although a frame has
\* not been seen has overtaken the second access of push_producer.
LEMMA SimKeepsInv == IInv /\ LoopInv /\ SimLoopNext => LoopInv'
<1> SUFFICES ASSUME IInv, LoopInv, SimLoopNext PROVE LoopInv'
  OBVIOUS
<1> USE DEF LoopInv, MutexHeldBriefly, FrameSignalKept, Linked, FrameExpected,
            NotStarted, tbVars, control, signal, outside, frame
<1>1. CASE SimHead
  BY <1>1 DEF SimHead
<1>2. CASE SetPresentMode
  BY <1>2 DEF SetPresentMode
<1>3. CASE SimYield
  BY <1>3 DEF SimYield
<1>4. CASE SimExtract
  BY <1>4 DEF SimExtract, BeginExtract
<1>5. CASE SimPushExchange
  BY <1>5 DEF SimPushExchange, PushExchange, loopVars
<1>6. CASE SimPushFlag
  BY <1>6 DEF SimPushFlag, PushFlag
<1>7. CASE SimReady
  BY <1>7 DEF SimReady
<1>8. CASE SimNotify
  BY <1>8 DEF SimNotify, WakeRender
<1> QED
  BY <1>1, <1>2, <1>3, <1>4, <1>5, <1>6, <1>7, <1>8 DEF SimLoopNext, SimWork

LEMMA RenderKeepsInv == IInv /\ LoopInv /\ RenderLoopNext => LoopInv'
<1> SUFFICES ASSUME IInv, LoopInv, RenderLoopNext PROVE LoopInv'
  OBVIOUS
<1> USE DEF LoopInv, MutexHeldBriefly, FrameSignalKept, Linked, FrameExpected,
            NotStarted, tbVars, control, signal, outside, frame, RenderGoto
<1>1. CASE RenderHead \/ RenderMode \/ RenderCheck
  BY <1>1 DEF RenderHead, RenderMode, RenderCheck
<1>2. CASE RenderLock
  BY <1>2 DEF RenderLock
<1>3. CASE RenderWake
  BY <1>3 DEF RenderWake
<1>4. CASE RenderWait
  BY <1>4 DEF RenderWait
<1>5. CASE RenderBlock
  BY <1>5 DEF RenderBlock
<1>6. CASE RenderSpurious
  BY <1>6 DEF RenderSpurious
<1>7. CASE RenderReset
  BY <1>7 DEF RenderReset
<1>8. CASE RenderIdle
  BY <1>8 DEF RenderIdle
<1>9. CASE RenderClaim
  BY <1>9 DEF RenderClaim, ClaimFlag, IInv, NewestKept
<1>10. CASE RenderSwap
  <2>1. ~(seen' < published')
    BY <1>10 DEF RenderSwap, SwapConsumer, IInv, TypeOK, NewestKept, FramesBounded
  <2> QED
    BY <1>10, <2>1 DEF RenderSwap, SwapConsumer, loopVars
<1>11. CASE RenderSkip \/ RenderEnd
  BY <1>11 DEF RenderSkip, RenderEnd, EndDraw
<1>12. CASE RenderBegin
  BY <1>12 DEF RenderBegin
<1> QED
  BY <1>1, <1>2, <1>3, <1>4, <1>5, <1>6, <1>7, <1>8, <1>9, <1>10, <1>11, <1>12
     DEF RenderLoopNext, RenderWork

\* The invariant of the loops, on top of the buffer's: where a frame that was
\* not seen is expected, and how the places in the buffer's calls go with them.
THEOREM LoopInvariantHolds == EngineSpec => [](IInv /\ LoopInv)
<1>1. LoopInv /\ UNCHANGED vars => LoopInv'
  BY DEF LoopInv, MutexHeldBriefly, FrameSignalKept, Linked, FrameExpected, NotStarted,
         vars, tbVars, loopVars, control, signal, outside, frame
<1>2. IInv /\ LoopInv /\ [EngineNext]_vars => LoopInv'
  BY <1>1, MainKeepsInv, SimKeepsInv, RenderKeepsInv DEF EngineNext
<1> QED
  BY <1>2, EngineInitInv, EngineUsesTripleBuffer, InvariantHolds, PTL DEF EngineSpec

\* stateMutex_ is only ever held for the evaluation of the wait's predicate.
THEOREM MutexIsHeldBriefly == EngineSpec => []MutexHeldBriefly
<1>1. LoopInv => MutexHeldBriefly
  BY DEF LoopInv
<1> QED BY <1>1, LoopInvariantHolds, PTL

\* A render thread asleep on renderCv_ with frameReady_ set is being notified.
THEOREM FrameSignalIsKept == EngineSpec => []FrameSignalKept
<1>1. LoopInv => FrameSignalKept
  BY DEF LoopInv
<1> QED BY <1>1, LoopInvariantHolds, PTL

\* The render thread never sleeps on a frame it has not seen.
THEOREM NoFrameIsStranded == EngineSpec => []NoFrameStranded
<1>1. IInv /\ LoopInv => NoFrameStranded
  BY DEF LoopInv, FrameExpected, NoFrameStranded, Linked
<1> QED BY <1>1, LoopInvariantHolds, PTL
=============================================================================
