------------------------------ MODULE AssetLoads ------------------------------
(***************************************************************************)
(* What the loads of meshes and of materials share: the calls under way,   *)
(* the files they read (engine/storage), the renderer objects they make,   *)
(* and the two containers a system keeps its assets in, a map and a bitset *)
(* of slots. A load is a call of loadMesh, createMaterial or their Async   *)
(* forms; between two of its steps any other thread may act, whether the   *)
(* call is a coroutine that is suspended or a plain call. The renderer     *)
(* outlives the loads.                                                     *)
(***************************************************************************)
EXTENDS Integers, FiniteSets, Functions

CONSTANTS
  Loads,       \* bound: the calls that are ever made
  MaxEntries   \* MAX_MESH_ENTRIES, MAX_MATERIALS

ASSUME LoadsAssumption == MaxEntries \in Nat \ {0, 1}

NoSlot == -1   \* static_cast<uint32_t>(-1)

VARIABLES
  op,      \* which call each load is
  at,      \* where it is
  handle,  \* its h
  gpu      \* the renderer's objects that exist

calls == <<op, at, handle>>

\* An object of the renderer is named by the load that makes it and its part.
Made(l, parts) == {l} \X parts

LoadsInit ==
  /\ op = [l \in Loads |-> "none"] /\ at = [l \in Loads |-> "idle"]
  /\ handle = [l \in Loads |-> NoSlot] /\ gpu = {}

Goto(l, place) == at' = [at EXCEPT ![l] = place]

\* FileManager::load or loadAsync and the parsing of what it read: the file
\* may be missing, empty or malformed, a future may carry an error.
FailsToLoad(l, place) ==
  at[l] = place /\ Goto(l, "failed") /\ UNCHANGED <<op, handle, gpu>>

\* unordered_map::emplace leaves an entry that is there alone.
Emplaced(map, key, entry) ==
  [k \in DOMAIN map \cup {key} |-> IF k \in DOMAIN map THEN map[k] ELSE entry]

Erased(map, key) == Restrict(map, DOMAIN map \ {key})

\* Mutant: the search goes on past the last slot.
firstAvailablePastEnd(first, bits) ==
  LET free == (first..MaxEntries) \ bits
  IN  IF free = {} THEN NoSlot ELSE CHOOSE s \in free : \A t \in free : s <= t

\* The first slot from the given one on whose bit is not set, NoSlot if none.
firstAvailable(first, bits) ==
  LET Found(s) == s \notin bits /\ \A t \in first..(s - 1) : t \in bits
  IN  IF \E s \in first..(MaxEntries - 1) : Found(s)
      THEN CHOOSE s \in first..(MaxEntries - 1) : Found(s)
      ELSE NoSlot
=============================================================================
