------------------------ MODULE RendererMailboxProofs ------------------------
(***************************************************************************)
(* Proofs about RendererMailbox, for every set of lengths and every number *)
(* of requests: no size and no mode is lost, and the mode implements the   *)
(* LatestValue hand-over.                                                  *)
(***************************************************************************)
EXTENDS RendererMailbox, TLAPS

\* The size cell. A queue_resize under way has stored what it need not store
\* any more; when none is under way and no flag is up, what the render thread
\* has loaded is the window's size.
SizeInv ==
  /\ main = "idle" => toStore = {}
  /\ render # "load" => toLoad = {}
  /\ main = "queue" => \A d \in Dimensions \ toStore : newSize[d] = windowSize[d]
  /\ main = "idle" /\ (pendingResize \/ render = "load") => newSize = windowSize
  /\ main = "idle" /\ ~pendingResize /\ render = "load"
       => \A d \in Dimensions \ toLoad : loaded[d] = windowSize[d]
  /\ NoResizeLost

\* The mode cell: whoever is on the way to the backend finds the mode in it.
ModeInv ==
  /\ sim = "flag" \/ pendingMode \/ render = "mode" => newMode = modeRequest
  /\ NoModeLost

LEMMA InitInv == Init => TypeOK /\ SizeInv /\ ModeInv
<1> SUFFICES ASSUME Init PROVE TypeOK /\ SizeInv /\ ModeInv
  OBVIOUS
<1>1. InitialSize \in Sizes
  BY MailboxAssumption DEF Drawable
<1>2. TypeOK
  BY <1>1, MailboxAssumption DEF Init, TypeOK, PresentModes
<1>3. SizeInv
  BY DEF Init, SizeInv, NoResizeLost
<1>4. ModeInv
  BY DEF Init, ModeInv, NoModeLost
<1>5. QED
  BY <1>2, <1>3, <1>4

LEMMA TypeOKInductive == TypeOK /\ SizeInv /\ [Next]_vars => TypeOK'
<1> SUFFICES ASSUME TypeOK, SizeInv, [Next]_vars PROVE TypeOK'
  OBVIOUS
<1> USE MailboxAssumption DEF TypeOK
<1>1. CASE OnResize
  BY <1>1 DEF OnResize, sizeCell, modeCell, simVars, told, Drawable
<1>2. ASSUME NEW d \in Dimensions, StoreLength(d) PROVE TypeOK'
  BY <1>2 DEF StoreLength, modeCell, simVars, told, Sizes
<1>3. CASE RaiseResize
  BY <1>3 DEF RaiseResize, modeCell, simVars, told
<1>4. CASE SetPresentMode
  BY <1>4 DEF SetPresentMode, sizeCell, modeCell, mainVars, told
<1>5. CASE StoreMode
  BY <1>5 DEF StoreMode, sizeCell, mainVars, told
<1>6. CASE RaiseMode
  BY <1>6 DEF RaiseMode, sizeCell, mainVars, told
<1>7. CASE ClaimResize
  BY <1>7 DEF ClaimResize, modeCell, mainVars, simVars, told
<1>8. ASSUME NEW d \in Dimensions, LoadLength(d) PROVE TypeOK'
  BY <1>8 DEF LoadLength, sizeCell, modeCell, mainVars, simVars, told
<1>9. CASE ResizeSwapchain
  BY <1>9 DEF ResizeSwapchain, sizeCell, modeCell, mainVars, simVars
<1>10. CASE ClaimMode
  BY <1>10 DEF ClaimMode, sizeCell, mainVars, simVars, told
<1>11. CASE ApplyMode
  BY <1>11 DEF ApplyMode, sizeCell, modeCell, mainVars, simVars
<1>12. CASE UNCHANGED vars
  BY <1>12 DEF vars, sizeCell, modeCell, mainVars, simVars, told
<1>13. QED
  BY <1>1, <1>2, <1>3, <1>4, <1>5, <1>6, <1>7, <1>8, <1>9, <1>10, <1>11, <1>12
     DEF Next, QueueResize, QueueMode, ProcessPending

\* The size cell is only touched by queue_resize and by the first half of
\* process_pending_resizes.
LEMMA SizeInvInductive == TypeOK /\ SizeInv /\ [Next]_vars => SizeInv'
<1> SUFFICES ASSUME TypeOK, SizeInv, [Next]_vars PROVE SizeInv'
  OBVIOUS
<1> USE DEF TypeOK, SizeInv, NoResizeLost
<1>1. CASE OnResize
  BY <1>1 DEF OnResize, sizeCell, told
<1>2. ASSUME NEW d \in Dimensions, StoreLength(d) PROVE SizeInv'
  <2>1. main = "queue"
    BY <1>2 DEF StoreLength
  <2>2. QED
    BY <1>2, <2>1 DEF StoreLength, told
<1>3. CASE RaiseResize
  <2>1. newSize = windowSize
    BY <1>3 DEF RaiseResize, Sizes
  <2>2. QED
    BY <1>3, <2>1 DEF RaiseResize, told
<1>4. CASE ClaimResize
  BY <1>4 DEF ClaimResize, mainVars, told
<1>5. ASSUME NEW d \in Dimensions, LoadLength(d) PROVE SizeInv'
  <2>1. render = "load"
    BY <1>5 DEF LoadLength
  <2>2. QED
    BY <1>5, <2>1 DEF LoadLength, sizeCell, mainVars, told
<1>6. CASE ResizeSwapchain
  <2>1. main = "idle" /\ ~pendingResize => loaded = windowSize
    BY <1>6 DEF ResizeSwapchain, Sizes
  <2>2. QED
    BY <1>6, <2>1 DEF ResizeSwapchain, sizeCell, mainVars
<1>7. CASE ClaimMode
  BY <1>7 DEF ClaimMode, sizeCell, mainVars, told
<1>8. CASE ApplyMode
  BY <1>8 DEF ApplyMode, sizeCell, mainVars
<1>9. CASE SetPresentMode \/ StoreMode \/ RaiseMode \/ UNCHANGED vars
  BY <1>9 DEF SetPresentMode, StoreMode, RaiseMode, vars, sizeCell, mainVars, told
<1>10. QED
  BY <1>1, <1>2, <1>3, <1>4, <1>5, <1>6, <1>7, <1>8, <1>9
     DEF Next, QueueResize, QueueMode, ProcessPending

\* The mode cell, by queue_present_mode and the second half.
LEMMA ModeInvInductive == TypeOK /\ ModeInv /\ [Next]_vars => ModeInv'
<1> SUFFICES ASSUME TypeOK, ModeInv, [Next]_vars PROVE ModeInv'
  OBVIOUS
<1> USE DEF TypeOK, ModeInv, NoModeLost
<1>1. CASE SetPresentMode
  BY <1>1 DEF SetPresentMode, modeCell, told
<1>2. CASE StoreMode
  BY <1>2 DEF StoreMode, told
<1>3. CASE RaiseMode
  BY <1>3 DEF RaiseMode, told
<1>4. CASE ClaimResize
  BY <1>4 DEF ClaimResize, modeCell, simVars, told
<1>5. CASE ResizeSwapchain
  BY <1>5 DEF ResizeSwapchain, modeCell, simVars
<1>6. CASE ClaimMode
  BY <1>6 DEF ClaimMode, simVars, told
<1>7. CASE ApplyMode
  BY <1>7 DEF ApplyMode, modeCell, simVars
<1>8. ASSUME UNCHANGED <<modeCell, sim, modeRequest, render, toldMode>>
      PROVE  ModeInv'
  BY <1>8 DEF modeCell
<1>9. CASE OnResize
  BY <1>8, <1>9 DEF OnResize, simVars, told
<1>10. ASSUME NEW d \in Dimensions, StoreLength(d) \/ LoadLength(d)
       PROVE  ModeInv'
  BY <1>8, <1>10 DEF StoreLength, LoadLength, simVars, told
<1>11. CASE RaiseResize
  BY <1>8, <1>11 DEF RaiseResize, simVars, told
<1>12. CASE UNCHANGED vars
  BY <1>8, <1>12 DEF vars, simVars, told
<1>13. QED
  BY <1>1, <1>2, <1>3, <1>4, <1>5, <1>6, <1>7, <1>9, <1>10, <1>11, <1>12
     DEF Next, QueueResize, QueueMode, ProcessPending

LEMMA InvHolds == Spec => [](TypeOK /\ SizeInv /\ ModeInv)
<1>1. TypeOK /\ SizeInv /\ ModeInv /\ [Next]_vars
        => (TypeOK /\ SizeInv /\ ModeInv)'
  BY TypeOKInductive, SizeInvInductive, ModeInvInductive
<1>2. QED
  BY InitInv, <1>1, PTL DEF Spec

\* Whatever the window and the user do, all state keeps its type; in
\* particular the backend is only told sizes it can create images of.
THEOREM MailboxTypeCorrect == Spec => []TypeOK
  BY InvHolds, PTL

\* The two stores before the flag, against the two loads after it: a resize
\* is never lost, for any number of resizes at any time.
THEOREM ResizeNotLost == Spec => []NoResizeLost
<1>1. SizeInv => NoResizeLost
  BY DEF SizeInv
<1>2. QED
  BY InvHolds, <1>1, PTL

\* The mode the simulation asked for last is with the backend, or in a cell
\* from which the render thread is yet to take it.
THEOREM ModeNotLost == Spec => []NoModeLost
<1>1. ModeInv => NoModeLost
  BY DEF ModeInv
<1>2. QED
  BY InvHolds, <1>1, PTL

\* The backend is only ever told the mode that was requested last: the safety
\* half of ModeHandedOver.
THEOREM ModeRefines == Spec => ModeMailbox!SafeSpec
<1>1. Init => ModeMailbox!Init
  BY DEF Init, ModeMailbox!Init
<1>2. TypeOK /\ ModeInv /\ [Next]_vars
        => [ModeMailbox!Next]_(ModeMailbox!vars)
  <2> SUFFICES ASSUME TypeOK, ModeInv, [Next]_vars
               PROVE  \/ modeRequest' \in PresentModes /\ UNCHANGED toldMode
                      \/ toldMode' = modeRequest /\ UNCHANGED modeRequest
                      \/ UNCHANGED <<modeRequest, toldMode>>
    BY DEF ModeMailbox!Next, ModeMailbox!Request, ModeMailbox!Apply, ModeMailbox!vars
  <2>1. CASE StoreMode
    BY <2>1 DEF StoreMode, told
  <2>2. CASE ApplyMode
    BY <2>2 DEF ApplyMode, simVars, ModeInv
  <2>3. CASE OnResize \/ RaiseResize \/ SetPresentMode \/ RaiseMode
             \/ ClaimResize \/ ResizeSwapchain \/ ClaimMode \/ UNCHANGED vars
    BY <2>3 DEF OnResize, RaiseResize, SetPresentMode, RaiseMode, ClaimResize,
                ResizeSwapchain, ClaimMode, vars, simVars, told
  <2>4. ASSUME NEW d \in Dimensions, StoreLength(d) \/ LoadLength(d)
        PROVE  UNCHANGED <<modeRequest, toldMode>>
    BY <2>4 DEF StoreLength, LoadLength, simVars, told
  <2>5. QED
    BY <2>1, <2>2, <2>3, <2>4 DEF Next, QueueResize, QueueMode, ProcessPending
<1>3. QED
  BY <1>1, <1>2, InvHolds, PTL DEF Spec, ModeMailbox!SafeSpec
=============================================================================
