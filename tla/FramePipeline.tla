---------------------------- MODULE FramePipeline ----------------------------
(***************************************************************************)
(* What a backend promises of frames: one is recorded at a time, each is   *)
(* submitted exactly once, they retire in order, no more than a limit are  *)
(* under way when a new one begins, and every one begun is finished.       *)
(***************************************************************************)
EXTENDS Naturals

VARIABLES begun, submitted, retired, limit

Init == begun = 0 /\ submitted = 0 /\ retired = 0 /\ limit \in Nat \ {0}

Begin ==
  /\ begun = submitted /\ begun - retired < limit
  /\ begun' = begun + 1 /\ UNCHANGED <<submitted, retired, limit>>

Submit ==
  /\ submitted < begun
  /\ submitted' = submitted + 1 /\ UNCHANGED <<begun, retired, limit>>

Retire ==
  /\ retired < submitted
  /\ retired' = retired + 1 /\ UNCHANGED <<begun, submitted, limit>>

Relimit == limit' \in Nat \ {0} /\ UNCHANGED <<begun, submitted, retired>>

Next == Begin \/ Submit \/ Retire \/ Relimit

vars == <<begun, submitted, retired, limit>>
Safety == Init /\ [][Next]_vars
Spec == Safety /\ WF_vars(Submit) /\ WF_vars(Retire)
=============================================================================
