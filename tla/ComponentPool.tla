---------------------------- MODULE ComponentPool ----------------------------
(***************************************************************************)
(* engine/entity/entity.h: ComponentPool, the sparse set that keeps the    *)
(* components of one type packed. dense and entities are parallel vectors, *)
(* sparse maps an entity to its place in them. Places count from 1 here.   *)
(***************************************************************************)
EXTENDS Entities, Sequences, SequencesExt

CONSTANTS
  Values,    \* what a component can hold
  Default    \* T{}

ASSUME PoolAssumption == Default \in Values

VARIABLES
  sparse,    \* one past the end: an entity beyond it has no component
  dense,
  entities

poolVars == <<sparse, dense, entities>>

PoolInit == sparse = <<>> /\ dense = <<>> /\ entities = <<>>

contains(id) == id \in DOMAIN sparse /\ sparse[id] # None

\* Mutant: an entity that is asked for again gets a second component.
AppendAlways(id) ==
  /\ dense' = Append(dense, Default) /\ entities' = Append(entities, id)
  /\ sparse' = [i \in 1..(IF id > Len(sparse) THEN id ELSE Len(sparse)) |->
                  IF i = id THEN Len(dense) + 1
                  ELSE IF i <= Len(sparse) THEN sparse[i] ELSE None]

\* operator[]: sparse is grown up to the id, the component goes to the end.
Access(id) ==
  /\ ~contains(id)
  /\ dense' = Append(dense, Default) /\ entities' = Append(entities, id)
  /\ sparse' = [i \in 1..(IF id > Len(sparse) THEN id ELSE Len(sparse)) |->
                  IF i = id THEN Len(dense) + 1
                  ELSE IF i <= Len(sparse) THEN sparse[i] ELSE None]

\* The caller writes through the reference or the pointer it got.
Write(id, v) ==
  /\ contains(id)
  /\ dense' = [dense EXCEPT ![sparse[id]] = v]
  /\ UNCHANGED <<sparse, entities>>

\* Mutant: the component of the last entity is not moved into the gap.
RemoveKeepingGap(id) ==
  /\ contains(id)
  /\ LET at == sparse[id] IN
       /\ dense'    = Front(dense)
       /\ entities' = Front([entities EXCEPT ![at] = entities[Len(dense)]])
       /\ sparse'   = [sparse EXCEPT ![entities[Len(dense)]] = at, ![id] = None]

\* remove: the last component moves into the gap, and its entity is told.
remove(id) ==
  /\ contains(id)
  /\ LET at == sparse[id]  last == entities[Len(dense)] IN
       /\ dense'    = Front([dense EXCEPT ![at] = dense[Len(dense)]])
       /\ entities' = Front([entities EXCEPT ![at] = last])
       /\ sparse'   = [sparse EXCEPT ![last] = at, ![id] = None]

PoolNext == \E id \in Ids : Access(id) \/ remove(id) \/ \E v \in Values : Write(id, v)

PoolSpec == PoolInit /\ [][PoolNext]_poolVars

-----------------------------------------------------------------------------
(* Correctness *)

TypeOK ==
  /\ sparse \in Seq(Nat) /\ Len(sparse) <= MaxId
  /\ dense \in Seq(Values)
  /\ entities \in Seq(Ids)

\* The pool is packed and its two directions agree: an entity's place holds
\* that entity, and every place is that of the entity it holds.
Packed ==
  /\ Len(entities) = Len(dense)
  /\ \A id \in DOMAIN sparse :
       sparse[id] # None => /\ sparse[id] \in DOMAIN entities
                            /\ entities[sparse[id]] = id
  /\ \A at \in DOMAIN entities :
       entities[at] \in DOMAIN sparse /\ sparse[entities[at]] = at

\* The pool implements the map: however components move, find returns what
\* was last written to that entity.
Map == INSTANCE ComponentMap
  WITH component <- [id \in {i \in Ids : contains(i)} |-> dense[sparse[id]]]
ImplementsMap == Map!Spec
=============================================================================
