-------------------------- MODULE TripleBufferProofs --------------------------
(***************************************************************************)
(* What holds of the triple buffer for any number of frames: the inductive *)
(* invariant, the isolation of the render thread's frame, the newest frame *)
(* never being lost, and the step simulation of FrameMailbox.              *)
(***************************************************************************)
EXTENDS TripleBuffer, TLAPS

\* The three pointers always designate three different buffers.
Distinct == producer # consumer /\ producer # shared /\ consumer # shared

\* Only the producer's buffer can hold a frame that is not published yet, and
\* does exactly while push_producer has not exchanged it into the slot.
FramesBounded ==
  /\ buffers[consumer] <= published /\ buffers[shared] <= published
  /\ sim = "extract" => buffers[producer] = published + 1 /\ published < MaxFrames

IInv == TypeOK /\ Distinct /\ FramesBounded /\ NewestKept

\* The buffers start out distinct and empty, as the constructor leaves them.
LEMMA InitIInv == Init => IInv
<1> SUFFICES ASSUME Init PROVE IInv
  OBVIOUS
<1> USE MaxFramesAssumption DEF Init, Buffers
<1>1. TypeOK
  <2>1. buffers \in [Buffers -> Nat]
    OBVIOUS
  <2>2. newData \in BOOLEAN
    OBVIOUS
  <2>3. published \in 0..MaxFrames /\ seen \in 0..published
    OBVIOUS
  <2> QED
    BY <2>1, <2>2, <2>3 DEF TypeOK
<1>2. Distinct /\ FramesBounded /\ NewestKept
  BY DEF Distinct, FramesBounded, NewestKept
<1> QED
  BY <1>1, <1>2 DEF IInv

\* No access of either thread breaks the invariant.
LEMMA NextIInv == IInv /\ [Next]_tbVars => IInv'
<1> SUFFICES ASSUME IInv, [Next]_tbVars PROVE IInv'
  OBVIOUS
<1> USE MaxFramesAssumption DEF IInv, TypeOK, Distinct, FramesBounded, NewestKept
<1>1. CASE BeginExtract
  BY <1>1 DEF BeginExtract, pointers
<1>2. CASE PushExchange
  BY <1>2 DEF PushExchange
<1>3. CASE PushFlag
  BY <1>3 DEF PushFlag, pointers
<1>4. CASE ClaimFlag
  BY <1>4 DEF ClaimFlag, pointers
<1>5. CASE SwapConsumer
  <2>1. buffers[shared] \in Nat /\ buffers[shared] <= published
    OBVIOUS
  <2>2. TypeOK' /\ Distinct' /\ FramesBounded'
    BY <1>5, <2>1 DEF SwapConsumer
  <2>3. seen' = published'
    BY <1>5, <2>1 DEF SwapConsumer
  <2> QED BY <2>2, <2>3
<1>6. CASE EndDraw
  BY <1>6 DEF EndDraw, pointers
<1>7. CASE UNCHANGED tbVars
  BY <1>7 DEF tbVars, pointers
<1> QED
  BY <1>1, <1>2, <1>3, <1>4, <1>5, <1>6, <1>7 DEF Next, SimNext, RenderNext

\* The inductive invariant: the three pointers are a permutation of the buffers
\* and no buffer holds a frame that was not started.
THEOREM InvariantHolds == Spec => []IInv
  BY InitIInv, NextIInv, PTL DEF Spec

\* Every pointer is one of the three buffers in every reachable state.
THEOREM TypeCorrect == Spec => []TypeOK
<1>1. IInv => TypeOK
  BY DEF IInv
<1> QED BY <1>1, InvariantHolds, PTL

\* No interleaving of the four accesses loses the newest frame.
THEOREM NewestFrameKept == Spec => []NewestKept
<1>1. IInv => NewestKept
  BY DEF IInv
<1> QED BY <1>1, InvariantHolds, PTL

\* The frame a render thread draws from does not change under it.
THEOREM ReadsAreStable == Spec => StableRead
<1>1. IInv /\ [Next]_tbVars =>
        [render = "draw" => /\ consumer' = consumer
                            /\ buffers'[consumer] = buffers[consumer]]_tbVars
  <2> SUFFICES ASSUME IInv, Next, render = "draw"
               PROVE  consumer' = consumer /\ buffers'[consumer] = buffers[consumer]
    OBVIOUS
  <2>1. CASE BeginExtract
    BY <2>1 DEF BeginExtract, pointers, IInv, Distinct, TypeOK
  <2>2. CASE PushExchange \/ PushFlag \/ ClaimFlag \/ SwapConsumer \/ EndDraw
    BY <2>2 DEF PushExchange, PushFlag, ClaimFlag, SwapConsumer, EndDraw, pointers
  <2> QED
    BY <2>1, <2>2 DEF Next, SimNext, RenderNext
<1> QED
  BY <1>1, InvariantHolds, PTL DEF Spec, StableRead

\* Every step of the triple buffer is a step of the mailbox or leaves it alone:
\* what the render thread has seen only ever jumps to the newest frame.
THEOREM RefinesMailbox == Spec => ImplementsMailbox
<1>1. Init => Mailbox!Init
  BY DEF Init, Mailbox!Init
<1>2. IInv /\ [Next]_tbVars => [Mailbox!Next]_Mailbox!mailbox
  <2> SUFFICES ASSUME IInv, [Next]_tbVars PROVE [Mailbox!Next]_Mailbox!mailbox
    OBVIOUS
  <2> USE DEF Mailbox!mailbox
  <2>1. CASE PushExchange
    BY <2>1 DEF PushExchange, Mailbox!Next, Mailbox!Publish
  <2>2. CASE SwapConsumer
    <3>1. CASE seen = published
      BY <2>2, <3>1 DEF SwapConsumer, IInv, TypeOK, FramesBounded
    <3>2. CASE seen < published
      BY <2>2, <3>2 DEF SwapConsumer, IInv, NewestKept, Mailbox!Next, Mailbox!Deliver
    <3> QED BY <3>1, <3>2 DEF IInv, TypeOK
  <2>3. CASE BeginExtract \/ PushFlag \/ ClaimFlag \/ EndDraw \/ UNCHANGED tbVars
    BY <2>3 DEF BeginExtract, PushFlag, ClaimFlag, EndDraw, tbVars
  <2> QED
    BY <2>1, <2>2, <2>3 DEF Next, SimNext, RenderNext
<1> QED
  BY <1>1, <1>2, InvariantHolds, PTL DEF Spec, ImplementsMailbox, Mailbox!Spec
=============================================================================
