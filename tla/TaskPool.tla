------------------------------ MODULE TaskPool ------------------------------
(***************************************************************************)
(* What the task scheduler promises of every task: it is accepted, run and *)
(* finished in that order and once each, and the continuation of a task is *)
(* not accepted before the task has finished. A continuation may also be   *)
(* run on the spot, without having been accepted by a queue; a load may be *)
(* answered with an error, without having been run.                        *)
(***************************************************************************)
CONSTANTS
  Tasks,
  Loads,  \* the tasks that load a file
  After   \* After[t]: the continuation of t, or something that is no task

VARIABLE status

Ready(t) == \A p \in Tasks : After[p] = t => status[p] = "done"

Init == status = [t \in Tasks |-> "new"]

Accept(t) == status[t] = "new" /\ Ready(t)
               /\ status' = [status EXCEPT ![t] = "accepted"]

Start(t) == /\ status[t] = "accepted" \/ (status[t] = "new" /\ Ready(t))
            /\ status' = [status EXCEPT ![t] = "running"]

Finish(t) == status[t] = "running" /\ status' = [status EXCEPT ![t] = "done"]

Answer(t) == t \in Loads /\ status[t] = "new" /\ Ready(t)
               /\ status' = [status EXCEPT ![t] = "done"]

\* One task changes: the first conjunct follows from the others and saves TLC time.
Next == \E t \in Tasks :
          status'[t] # status[t] /\ (Accept(t) \/ Start(t) \/ Finish(t) \/ Answer(t))

\* Finishing one task and starting its continuation may be one step.
Spec == Init /\ [][Next]_status
=============================================================================
