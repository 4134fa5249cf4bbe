------------------------------ MODULE MeshSystem ------------------------------
(***************************************************************************)
(* engine/mesh: the handles of MeshSystem. The slot is taken under the     *)
(* lock when a load begins, the mesh stored under it when the file has     *)
(* been read and parsed; a load that fails keeps its slot.                 *)
(***************************************************************************)
EXTENDS AssetLoads

VARIABLES
  meshes,    \* from a handle to the vertex and the index buffer
  meshSlots  \* slotUsage

meshVars == <<meshes, meshSlots>>

MeshParts == {"vertexBuffer", "indexBuffer"}

MeshInit == meshes = [h \in {} |-> {}] /\ meshSlots = {}

\* loadMesh, loadMeshAsync: allocateSlot, under the lock
StartMesh(l) ==
  /\ at[l] = "idle"
  /\ op' = [op EXCEPT ![l] = "mesh"]
  /\ LET s == firstAvailable(0, meshSlots) IN
       /\ handle' = [handle EXCEPT ![l] = s]
       /\ meshSlots' = meshSlots \cup ({s} \ {NoSlot})
       /\ Goto(l, IF s = NoSlot THEN "failed" ELSE "parse")
  /\ UNCHANGED <<meshes, gpu>>

\* The file is read and parsed; its buffers are created last.
ParseMesh(l) ==
  /\ at[l] = "parse"
  /\ gpu' = gpu \cup Made(l, MeshParts)
  /\ Goto(l, "store")
  /\ UNCHANGED <<op, handle, meshVars>>

\* load, loadAsync or the parser fails: nothing is undone.
FailMesh(l) == FailsToLoad(l, "parse") /\ UNCHANGED meshVars

\* The mesh is stored under the lock and its handle returned.
StoreMesh(l) ==
  /\ at[l] = "store"
  /\ meshes' = Emplaced(meshes, handle[l], Made(l, MeshParts))
  /\ Goto(l, "done")
  /\ UNCHANGED <<op, handle, gpu, meshSlots>>

\* Mutant: the slot is not given back.
RemoveMeshKeepingSlot(l) ==
  /\ op[l] = "mesh" /\ at[l] = "done"
  /\ IF handle[l] \in DOMAIN meshes
     THEN /\ gpu' = gpu \ meshes[handle[l]]
          /\ meshes' = Erased(meshes, handle[l])
     ELSE UNCHANGED <<gpu, meshes>>
  /\ Goto(l, "gone")
  /\ UNCHANGED <<op, handle, meshSlots>>

\* removeMesh, by the owner of the handle, once
RemoveMesh(l) ==
  /\ op[l] = "mesh" /\ at[l] = "done"
  /\ IF handle[l] \in DOMAIN meshes
     THEN /\ gpu' = gpu \ meshes[handle[l]]
          /\ meshes' = Erased(meshes, handle[l])
          /\ meshSlots' = meshSlots \ {handle[l]}
     ELSE UNCHANGED <<gpu, meshes, meshSlots>>
  /\ Goto(l, "gone")
  /\ UNCHANGED <<op, handle>>

MeshNext == \E l \in Loads :
  StartMesh(l) \/ ParseMesh(l) \/ FailMesh(l) \/ StoreMesh(l) \/ RemoveMesh(l)
=============================================================================
