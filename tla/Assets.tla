-------------------------------- MODULE Assets --------------------------------
(***************************************************************************)
(* MeshSystem and MaterialSystem side by side, on the same files and the   *)
(* same renderer: the loads of SandboxApp's set-up, which run on the       *)
(* simulation thread and on the workers, and removals by any thread.       *)
(***************************************************************************)
EXTENDS MeshSystem, MaterialSystem

vars == <<calls, gpu, meshVars, materialVars>>

Init == LoadsInit /\ MeshInit /\ MaterialInit

Next ==
  \/ MeshNext /\ UNCHANGED materialVars
  \/ MaterialNext /\ UNCHANGED meshVars

Spec == Init /\ [][Next]_vars

-----------------------------------------------------------------------------
(* Correctness *)

MeshSlots     == 0..MaxEntries - 1
MaterialSlots == 1..MaxEntries - 1
Places == {"idle", "parse", "store", "metadata", "insert", "reflection", "vertex",
           "pixel", "textures", "done", "failed", "gone"}
Objects == Loads \X (MeshParts \cup MaterialParts \cup {"newTexture"})

\* Handles stay within the tables of slots; the one entry outside of them is
\* the one a full table of materials leaves behind.
TypeOK ==
  /\ op \in [Loads -> MaterialOps \cup {"mesh", "none"}]
  /\ at \in [Loads -> Places]
  /\ handle \in [Loads -> MeshSlots \cup {NoSlot}]
  /\ gpu \subseteq Objects
  /\ meshSlots \subseteq MeshSlots /\ DOMAIN meshes \subseteq meshSlots
  /\ matSlots \subseteq MaterialSlots /\ DOMAIN storage \subseteq matSlots \cup {NoSlot}
  /\ \A h \in DOMAIN meshes : meshes[h] \subseteq Objects
  /\ \A h \in DOMAIN storage : storage[h] \in [by : Loads, bg : SUBSET Objects]

\* The load holds its handle: it is being carried out or its caller has it.
Holds(l) == handle[l] # NoSlot /\ at[l] \notin {"failed", "gone"}

\* A handle is never given to two loads of the same system at the same time,
\* whichever of them are still under way and however slots are reused.
HandlesDistinct == \A l, m \in Loads :
  Holds(l) /\ Holds(m) /\ l # m /\ (op[l] = "mesh" <=> op[m] = "mesh")
    => handle[l] # handle[m]

\* Whoever has a handle finds under it the asset it loaded, and all of it,
\* until it removes it: getMesh, getBindData and getMetadata never serve
\* another's asset or one that is half made.
HandleServesItsLoad == \A l \in Loads : at[l] = "done" =>
  IF op[l] = "mesh"
  THEN handle[l] \in DOMAIN meshes /\ meshes[handle[l]] = Made(l, MeshParts)
  ELSE /\ handle[l] \in DOMAIN storage /\ storage[handle[l]].by = l
       /\ Made(l, MaterialParts \ {"texture"}) \subseteq storage[handle[l]].bg

\* What a stored asset is bound to exists, and is bound to no other: no object
\* is used after it was destroyed, and none is destroyed twice.
Bound == {meshes[h] : h \in DOMAIN meshes} \cup {storage[h].bg : h \in DOMAIN storage}
BindingsLive ==
  /\ UNION Bound \subseteq gpu
  /\ \A h, k \in DOMAIN storage : h # k => storage[h].bg \cap storage[k].bg = {}

\* A slot is in use for the asset a load has stored or is about to store, or
\* it was lost to a load that failed; no other slot is ever out of use.
SlotsAccounted ==
  /\ meshSlots = {handle[l] : l \in {m \in Loads :
                    op[m] = "mesh" /\ at[m] # "gone"}} \ {NoSlot}
  /\ matSlots = DOMAIN storage \ {NoSlot}
=============================================================================
