------------------------------ MODULE Entities ------------------------------
(***************************************************************************)
(* What entities are named by (engine/entity/entity.h): the ids that       *)
(* EntityManager::createEntity counts out.                                 *)
(***************************************************************************)
EXTENDS Naturals

CONSTANT MaxId     \* bound: the highest EntityID in use

ASSUME EntitiesAssumption == MaxId \in Nat

Ids  == 1..MaxId   \* EntityManager counts from 1
None == 0          \* static_cast<EntityID>(-1), and size_t(-1) for a place in a pool
=============================================================================
