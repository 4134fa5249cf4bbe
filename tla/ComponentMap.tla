---------------------------- MODULE ComponentMap ----------------------------
(***************************************************************************)
(* What a pool of components promises: a partial map from entities to      *)
(* components. Adding to an entity that has a component changes nothing,   *)
(* removing takes that component and no other away.                        *)
(***************************************************************************)
CONSTANTS Ids, Values, Default

VARIABLE component   \* a function from the entities that have one

Init == component = [id \in {} |-> Default]

Add(id) ==
  component' = [i \in DOMAIN component \cup {id} |->
                  IF i \in DOMAIN component THEN component[i] ELSE Default]

Write(id, v) == id \in DOMAIN component /\ component' = [component EXCEPT ![id] = v]

Remove(id) == component' = [i \in DOMAIN component \ {id} |-> component[i]]

Next == \E id \in Ids : Add(id) \/ Remove(id) \/ \E v \in Values : Write(id, v)

Spec == Init /\ [][Next]_component
=============================================================================
