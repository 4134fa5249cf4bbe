---------------------------- MODULE LatestValue ----------------------------
(***************************************************************************)
(* What a setting handed from one thread to another promises: the receiver *)
(* only ever applies the value requested last, and it gets round to it.    *)
(* Requests overwrite one another; those in between may never be applied.  *)
(***************************************************************************)
CONSTANTS Values, InitialValue

VARIABLES requested, applied

Init == requested = InitialValue /\ applied = InitialValue

Request == requested' \in Values /\ UNCHANGED applied

Apply == applied' = requested /\ UNCHANGED requested

Next == Request \/ Apply

vars     == <<requested, applied>>
SafeSpec == Init /\ [][Next]_vars
Spec     == SafeSpec /\ WF_vars(Apply)
=============================================================================
