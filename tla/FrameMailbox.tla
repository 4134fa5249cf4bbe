---------------------------- MODULE FrameMailbox ----------------------------
(***************************************************************************)
(* What the simulation/render hand-off promises, with no buffers in it:    *)
(* frames are published one after the other, and a delivery brings the     *)
(* render side to the newest published frame (frames in between may be     *)
(* skipped).                                                               *)
(***************************************************************************)
EXTENDS Naturals

VARIABLES
  published,   \* number of the last frame handed over by the simulation
  seen         \* newest frame the render side has ever held; 0: none

mailbox == <<published, seen>>

Init == published = 0 /\ seen = 0

Publish ==
  /\ published' = published + 1
  /\ UNCHANGED seen

Deliver ==
  /\ seen < published
  /\ seen' = published
  /\ UNCHANGED published

Next == Publish \/ Deliver

Spec == Init /\ [][Next]_mailbox
=============================================================================
