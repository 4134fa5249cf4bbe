----------------------------- MODULE AssetsProofs -----------------------------
(***************************************************************************)
(* Proofs about Assets, for any number of loads and of slots.              *)
(***************************************************************************)
EXTENDS Assets, TLAPS

-----------------------------------------------------------------------------
(* The containers *)

\* firstAvailable returns a slot of the table whose bit is not set, or NoSlot.
LEMMA FirstAvailable ==
  ASSUME NEW first \in Nat, NEW bits
  PROVE  \/ firstAvailable(first, bits) = NoSlot
         \/ firstAvailable(first, bits) \in (first..(MaxEntries - 1)) \ bits
<1> DEFINE Found(s) == s \notin bits /\ \A t \in first..(s - 1) : t \in bits
<1>1. CASE \E s \in first..(MaxEntries - 1) : Found(s)
  <2>1. (CHOOSE s \in first..(MaxEntries - 1) : Found(s)) \in {s \in first..(MaxEntries - 1) : Found(s)}
    BY <1>1
  <2>2. QED
    BY <1>1, <2>1 DEF firstAvailable
<1>2. CASE ~\E s \in first..(MaxEntries - 1) : Found(s)
  BY <1>2 DEF firstAvailable
<1>3. QED
  BY <1>1, <1>2

-----------------------------------------------------------------------------
(* The inductive invariant *)

MaterialPlaces == {"metadata", "insert", "reflection", "vertex", "pixel", "textures"}

\* The place of a load tells which system it is in, and whether it has a slot.
CallsInv == \A l \in Loads :
  /\ at[l] = "idle" => op[l] = "none"
  /\ at[l] \in {"parse", "store"} => op[l] = "mesh" /\ handle[l] # NoSlot
  /\ at[l] \in MaterialPlaces => op[l] \in MaterialOps
  /\ at[l] \in {"idle", "metadata"} => handle[l] = NoSlot
  /\ at[l] = "done" => op[l] # "none" /\ handle[l] # NoSlot

\* A mesh load has its slot, or has lost it.
HasMeshSlot(l) == op[l] = "mesh" /\ at[l] # "gone" /\ handle[l] # NoSlot

MeshInv ==
  /\ \A l, m \in Loads : HasMeshSlot(l) /\ HasMeshSlot(m) /\ l # m => handle[l] # handle[m]
  /\ meshSlots = {handle[l] : l \in {m \in Loads : HasMeshSlot(m)}}
  /\ \A l \in Loads : op[l] = "mesh" /\ at[l] = "done" =>
       handle[l] \in DOMAIN meshes /\ meshes[handle[l]] = Made(l, MeshParts)
  /\ \A h \in DOMAIN meshes : \E l \in Loads :
       op[l] = "mesh" /\ at[l] = "done" /\ handle[l] = h
  /\ \A l \in Loads : op[l] = "mesh" /\ at[l] \in {"store", "done"}
       => Made(l, MeshParts) \subseteq gpu

\* A material load that has stored its entry
Entered(l) == op[l] \in MaterialOps /\ at[l] \in {"reflection", "vertex", "pixel", "textures", "done"}

\* What a material load has bound by the time it is at a place
BoundAt(l) == CASE at[l] = "pixel" -> {"vertexShader"}
                [] at[l] = "textures" -> ShaderParts
                [] at[l] = "done" -> MaterialParts \ {"texture"}
                [] OTHER -> {}

MaterialInv ==
  /\ \A l, m \in Loads : Creating(l) /\ Creating(m) => l = m
  /\ matSlots = DOMAIN storage \ {NoSlot}
  /\ \A l \in Loads : at[l] = "insert" => handle[l] \in (MaterialSlots \ matSlots) \cup {NoSlot}
  /\ \A l \in Loads : Entered(l) =>
       /\ handle[l] # NoSlot /\ handle[l] \in DOMAIN storage
       /\ storage[handle[l]].by = l
       /\ Made(l, BoundAt(l)) \subseteq storage[handle[l]].bg
  /\ \A h \in DOMAIN storage :
       LET l == storage[h].by IN
         /\ op[l] \in MaterialOps /\ handle[l] = h
         /\ at[l] \notin {"idle", "metadata", "insert", "gone"}
         /\ storage[h].bg \subseteq Made(l, MaterialParts \cup {"newTexture"})
         /\ storage[h].bg \subseteq gpu

IInv == TypeOK /\ CallsInv /\ MeshInv /\ MaterialInv

LEMMA InitInv == Init => IInv
<1> SUFFICES ASSUME Init PROVE IInv
  OBVIOUS
<1> USE DEF Init, LoadsInit, MeshInit, MaterialInit
<1>1. TypeOK
  BY DEF TypeOK, Places, Objects
<1>2. CallsInv
  BY DEF CallsInv, MaterialPlaces
<1>3. MeshInv
  BY DEF MeshInv, HasMeshSlot
<1>4. MaterialInv
  BY DEF MaterialInv, Creating, Entered, MaterialOps
<1>5. QED
  BY <1>1, <1>2, <1>3, <1>4 DEF IInv

LEMMA TypeStep == IInv /\ [Next]_vars => TypeOK'
<1> SUFFICES ASSUME IInv, [Next]_vars PROVE TypeOK'
  OBVIOUS
<1> USE LoadsAssumption DEF TypeOK, Places, Objects, MeshSlots, MaterialSlots, NoSlot,
        Goto, Made, calls, meshVars, materialVars
<1>0. TypeOK /\ CallsInv /\ MeshInv /\ MaterialInv
  BY DEF IInv
<1>1. ASSUME NEW l \in Loads, StartMesh(l), UNCHANGED materialVars PROVE TypeOK'
  <2>1. firstAvailable(0, meshSlots) \in MeshSlots \cup {NoSlot}
    BY FirstAvailable
  <2>2. QED
    BY <1>0, <1>1, <2>1 DEF StartMesh
<1>2. ASSUME NEW l \in Loads, ParseMesh(l), UNCHANGED materialVars PROVE TypeOK'
  BY <1>0, <1>2 DEF ParseMesh
<1>3. ASSUME NEW l \in Loads, FailMesh(l), UNCHANGED materialVars PROVE TypeOK'
  BY <1>0, <1>3 DEF FailMesh, FailsToLoad
<1>4. ASSUME NEW l \in Loads, StoreMesh(l), UNCHANGED materialVars PROVE TypeOK'
  <2>1. handle[l] \in meshSlots
    BY <1>0, <1>4 DEF StoreMesh, CallsInv, MeshInv, HasMeshSlot
  <2>2. QED
    BY <1>0, <1>4, <2>1 DEF StoreMesh, Emplaced
<1>5. ASSUME NEW l \in Loads, RemoveMesh(l), UNCHANGED materialVars PROVE TypeOK'
  BY <1>0, <1>5 DEF RemoveMesh, Erased, Restrict
<1>6. ASSUME NEW l \in Loads, NEW kind \in MaterialOps, StartMaterial(l, kind), UNCHANGED meshVars
      PROVE  TypeOK'
  BY <1>0, <1>6 DEF StartMaterial
<1>7. ASSUME NEW l \in Loads, Pick(l), UNCHANGED meshVars PROVE TypeOK'
  <2>1. firstAvailable(1, matSlots) \in MaterialSlots \cup {NoSlot}
    BY FirstAvailable
  <2>2. QED
    BY <1>0, <1>7, <2>1 DEF Pick
<1>8. ASSUME NEW l \in Loads, Insert(l), UNCHANGED meshVars PROVE TypeOK'
  BY <1>0, <1>8 DEF Insert, AfterInsert, Emplaced, MaterialInv
<1>9. ASSUME NEW l \in Loads, Reflect(l), UNCHANGED meshVars PROVE TypeOK'
  BY <1>0, <1>9 DEF Reflect
<1>10. ASSUME NEW l \in Loads, BuildVertex(l), UNCHANGED meshVars PROVE TypeOK'
  BY <1>0, <1>10 DEF BuildVertex, Build, MaterialParts, ShaderParts
<1>11. ASSUME NEW l \in Loads, BuildPixel(l), UNCHANGED meshVars PROVE TypeOK'
  BY <1>0, <1>11 DEF BuildPixel, Build, MaterialParts, ShaderParts
<1>12. ASSUME NEW l \in Loads, BuildRest(l), UNCHANGED meshVars PROVE TypeOK'
  BY <1>0, <1>12 DEF BuildRest, Build, MaterialParts, ShaderParts
<1>13. ASSUME NEW l \in Loads, FailMaterial(l), UNCHANGED meshVars PROVE TypeOK'
  BY <1>0, <1>13 DEF FailMaterial, FailsToLoad
<1>14. ASSUME NEW l \in Loads, SetTextureSlot(l), UNCHANGED meshVars PROVE TypeOK'
  BY <1>0, <1>14 DEF SetTextureSlot
<1>15. ASSUME NEW l \in Loads, DestroyMaterial(l), UNCHANGED meshVars PROVE TypeOK'
  BY <1>0, <1>15 DEF DestroyMaterial, Erased, Restrict
<1>16. CASE UNCHANGED vars
  BY <1>0, <1>16 DEF vars
<1>17. QED
  BY <1>1, <1>2, <1>3, <1>4, <1>5, <1>6, <1>7, <1>8, <1>9, <1>10, <1>11, <1>12,
     <1>13, <1>14, <1>15, <1>16 DEF Next, MeshNext, MaterialNext

LEMMA CallsStep == IInv /\ [Next]_vars => CallsInv'
<1> SUFFICES ASSUME IInv, [Next]_vars PROVE CallsInv'
  OBVIOUS
<1> USE LoadsAssumption DEF CallsInv, Goto, MaterialPlaces, MaterialOps
<1>0. TypeOK /\ CallsInv /\ MaterialInv
  BY DEF IInv
<1> USE DEF TypeOK
<1>1. ASSUME NEW l \in Loads, StartMesh(l) PROVE CallsInv'
  BY <1>0, <1>1 DEF StartMesh
<1>2. ASSUME NEW l \in Loads, ParseMesh(l) PROVE CallsInv'
  BY <1>0, <1>2 DEF ParseMesh
<1>3. ASSUME NEW l \in Loads, FailMesh(l) PROVE CallsInv'
  BY <1>0, <1>3 DEF FailMesh, FailsToLoad
<1>4. ASSUME NEW l \in Loads, StoreMesh(l) PROVE CallsInv'
  BY <1>0, <1>4 DEF StoreMesh
<1>5. ASSUME NEW l \in Loads, RemoveMesh(l) PROVE CallsInv'
  BY <1>0, <1>5 DEF RemoveMesh
<1>6. ASSUME NEW l \in Loads, NEW kind \in MaterialOps, StartMaterial(l, kind)
      PROVE  CallsInv'
  BY <1>0, <1>6 DEF StartMaterial
<1>7. ASSUME NEW l \in Loads, Pick(l) PROVE CallsInv'
  BY <1>0, <1>7 DEF Pick
<1>8. ASSUME NEW l \in Loads, Insert(l) PROVE CallsInv'
  BY <1>0, <1>8 DEF Insert, AfterInsert
<1>9. ASSUME NEW l \in Loads, Reflect(l) PROVE CallsInv'
  BY <1>0, <1>9 DEF Reflect
<1>10. ASSUME NEW l \in Loads, BuildVertex(l) \/ BuildPixel(l) PROVE CallsInv'
  BY <1>0, <1>10 DEF BuildVertex, BuildPixel, Build
<1>11. ASSUME NEW l \in Loads, BuildRest(l) PROVE CallsInv'
  <2>1. handle[l] # NoSlot /\ op[l] # "none"
    BY <1>0, <1>11 DEF BuildRest, Build, MaterialInv, Entered
  <2>2. QED
    BY <1>0, <1>11, <2>1 DEF BuildRest, Build
<1>12. ASSUME NEW l \in Loads, FailMaterial(l) PROVE CallsInv'
  BY <1>0, <1>12 DEF FailMaterial, FailsToLoad
<1>13. ASSUME NEW l \in Loads, SetTextureSlot(l) PROVE CallsInv'
  BY <1>0, <1>13 DEF SetTextureSlot, calls
<1>14. ASSUME NEW l \in Loads, DestroyMaterial(l) PROVE CallsInv'
  BY <1>0, <1>14 DEF DestroyMaterial
<1>15. CASE UNCHANGED vars
  BY <1>0, <1>15 DEF vars, calls
<1>16. QED
  BY <1>1, <1>2, <1>3, <1>4, <1>5, <1>6, <1>7, <1>8, <1>9, <1>10, <1>11, <1>12,
     <1>13, <1>14, <1>15 DEF Next, MeshNext, MaterialNext

-----------------------------------------------------------------------------
(* The meshes *)

\* A step of a material changes no call of a mesh and no object of a mesh.
LEMMA MaterialStepFrame ==
  ASSUME IInv, MaterialNext
  PROVE  \A m \in Loads : op[m] = "mesh" \/ op'[m] = "mesh" =>
           /\ op'[m] = op[m] /\ at'[m] = at[m] /\ handle'[m] = handle[m]
           /\ Made(m, MeshParts) \subseteq gpu => Made(m, MeshParts) \subseteq gpu'
<1> USE DEF TypeOK, Goto, CallsInv, MaterialPlaces, MaterialOps, calls
<1>0. TypeOK /\ CallsInv /\ MaterialInv
  BY DEF IInv
<1> TAKE m \in Loads
<1> HAVE op[m] = "mesh" \/ op'[m] = "mesh"
<1>1. PICK l \in Loads :
        \/ \E kind \in MaterialOps : StartMaterial(l, kind)
        \/ Pick(l) \/ Insert(l) \/ Reflect(l)
        \/ BuildVertex(l) \/ BuildPixel(l) \/ BuildRest(l) \/ FailMaterial(l)
        \/ SetTextureSlot(l) \/ DestroyMaterial(l)
  BY DEF MaterialNext
<1>2. CASE \E kind \in MaterialOps : StartMaterial(l, kind)
  BY <1>0, <1>2 DEF StartMaterial
<1>3. CASE Pick(l) \/ Insert(l) \/ Reflect(l)
  BY <1>0, <1>3 DEF Pick, Insert, Reflect
<1>4. CASE BuildVertex(l) \/ BuildPixel(l) \/ BuildRest(l)
  BY <1>0, <1>4 DEF BuildVertex, BuildPixel, BuildRest, Build
<1>5. CASE FailMaterial(l)
  BY <1>0, <1>5 DEF FailMaterial, FailsToLoad
<1>6. CASE SetTextureSlot(l)
  BY <1>0, <1>6 DEF SetTextureSlot
<1>7. CASE DestroyMaterial(l)
  <2>1. l # m /\ at'[m] = at[m] /\ op' = op /\ handle' = handle
    BY <1>0, <1>7 DEF DestroyMaterial
  <2>2. CASE handle[l] \in DOMAIN storage
    <3>1. storage[handle[l]].by # m
      BY <1>0, <2>1, <2>2 DEF MaterialInv
    <3>2. storage[handle[l]].bg \subseteq {storage[handle[l]].by} \X (MaterialParts \cup {"newTexture"})
      BY <1>0, <2>2 DEF MaterialInv, Made
    <3>3. storage[handle[l]].bg \cap Made(m, MeshParts) = {}
      BY <3>1, <3>2 DEF Made
    <3>4. gpu' = gpu \ storage[handle[l]].bg
      BY <1>7, <2>2 DEF DestroyMaterial
    <3>5. QED
      BY <2>1, <3>3, <3>4
  <2>3. CASE handle[l] \notin DOMAIN storage
    BY <1>7, <2>1, <2>3 DEF DestroyMaterial
  <2>4. QED
    BY <2>2, <2>3
<1>8. QED
  BY <1>1, <1>2, <1>3, <1>4, <1>5, <1>6, <1>7

LEMMA MeshStep == IInv /\ [Next]_vars => MeshInv'
<1> SUFFICES ASSUME IInv, [Next]_vars PROVE MeshInv'
  OBVIOUS
<1> USE LoadsAssumption DEF TypeOK, Goto, CallsInv, HasMeshSlot
<1>0. TypeOK /\ CallsInv /\ MeshInv
  BY DEF IInv
<1>1. ASSUME NEW l \in Loads, StartMesh(l) PROVE MeshInv'
  <2> DEFINE s == firstAvailable(0, meshSlots)
  <2>1. s = NoSlot \/ s \in (0..(MaxEntries - 1)) \ meshSlots
    BY FirstAvailable
  <2>2. NoSlot \notin Nat
    BY DEF NoSlot
  <2>3. /\ at[l] = "idle" /\ op[l] = "none"
        /\ handle' = [handle EXCEPT ![l] = s]
        /\ op' = [op EXCEPT ![l] = "mesh"]
        /\ at' = [at EXCEPT ![l] = IF s = NoSlot THEN "failed" ELSE "parse"]
        /\ meshSlots' = meshSlots \cup ({s} \ {NoSlot})
        /\ meshes' = meshes /\ gpu' = gpu
    BY <1>0, <1>1 DEF StartMesh
  <2> HIDE DEF s
  <2>4. \A m \in Loads : HasMeshSlot(m)' <=> HasMeshSlot(m) \/ (m = l /\ s # NoSlot)
    BY <1>0, <2>3
  <2>5. \A m \in Loads \ {l} : op'[m] = op[m] /\ at'[m] = at[m] /\ handle'[m] = handle[m]
    BY <1>0, <2>3
  <2>6. \A m, k \in Loads : HasMeshSlot(m)' /\ HasMeshSlot(k)' /\ m # k => handle'[m] # handle'[k]
    BY <1>0, <2>1, <2>2, <2>3, <2>4, <2>5 DEF MeshInv
  <2>7. meshSlots' = {handle'[k] : k \in {m \in Loads : HasMeshSlot(m)'}}
    BY <1>0, <2>3, <2>4, <2>5 DEF MeshInv
  <2>8. QED
    BY <1>0, <2>3, <2>5, <2>6, <2>7 DEF MeshInv
<1>2. ASSUME NEW l \in Loads, ParseMesh(l) PROVE MeshInv'
  BY <1>0, <1>2 DEF ParseMesh, MeshInv, meshVars
<1>3. ASSUME NEW l \in Loads, FailMesh(l) PROVE MeshInv'
  BY <1>0, <1>3 DEF FailMesh, FailsToLoad, MeshInv, meshVars
<1>4. ASSUME NEW l \in Loads, StoreMesh(l) PROVE MeshInv'
  <2>1. /\ at[l] = "store" /\ op[l] = "mesh" /\ HasMeshSlot(l)
        /\ at' = [at EXCEPT ![l] = "done"]
        /\ UNCHANGED <<op, handle, gpu, meshSlots>>
    BY <1>0, <1>4 DEF StoreMesh
  <2>2. handle[l] \notin DOMAIN meshes
    BY <1>0, <2>1 DEF MeshInv
  <2>3. /\ DOMAIN meshes' = DOMAIN meshes \cup {handle[l]}
        /\ meshes'[handle[l]] = Made(l, MeshParts)
        /\ \A h \in DOMAIN meshes : meshes'[h] = meshes[h]
    BY <1>4, <2>2 DEF StoreMesh, Emplaced
  <2>4. \A m \in Loads : HasMeshSlot(m)' <=> HasMeshSlot(m)
    BY <1>0, <2>1
  <2>5. \A m \in Loads : op'[m] = "mesh" /\ at'[m] = "done" =>
          handle'[m] \in DOMAIN meshes' /\ meshes'[handle'[m]] = Made(m, MeshParts)
    BY <1>0, <2>1, <2>3 DEF MeshInv
  <2>6. \A h \in DOMAIN meshes' : \E m \in Loads :
          op'[m] = "mesh" /\ at'[m] = "done" /\ handle'[m] = h
    BY <1>0, <2>1, <2>3 DEF MeshInv
  <2>7. \A m \in Loads : op'[m] = "mesh" /\ at'[m] \in {"store", "done"} =>
          Made(m, MeshParts) \subseteq gpu'
    BY <1>0, <2>1 DEF MeshInv
  <2>8. meshSlots' = {handle'[k] : k \in {m \in Loads : HasMeshSlot(m)'}}
    BY <1>0, <2>1, <2>4 DEF MeshInv
  <2>9. \A m, k \in Loads : HasMeshSlot(m)' /\ HasMeshSlot(k)' /\ m # k => handle'[m] # handle'[k]
    BY <1>0, <2>1, <2>4 DEF MeshInv
  <2>10. QED
    BY <2>5, <2>6, <2>7, <2>8, <2>9 DEF MeshInv
<1>5. ASSUME NEW l \in Loads, RemoveMesh(l) PROVE MeshInv'
  <2>1. /\ op[l] = "mesh" /\ at[l] = "done" /\ HasMeshSlot(l)
        /\ at' = [at EXCEPT ![l] = "gone"] /\ UNCHANGED <<op, handle>>
    BY <1>0, <1>5 DEF RemoveMesh
  <2>2. handle[l] \in DOMAIN meshes /\ meshes[handle[l]] = Made(l, MeshParts)
    BY <1>0, <2>1 DEF MeshInv
  <2>3. /\ gpu' = gpu \ Made(l, MeshParts)
        /\ meshSlots' = meshSlots \ {handle[l]}
        /\ DOMAIN meshes' = DOMAIN meshes \ {handle[l]}
        /\ \A h \in DOMAIN meshes' : meshes'[h] = meshes[h]
    BY <1>5, <2>2 DEF RemoveMesh, Erased, Restrict
  <2>4. \A m \in Loads : HasMeshSlot(m)' <=> HasMeshSlot(m) /\ m # l
    BY <1>0, <2>1
  <2>5. \A m \in Loads \ {l} : HasMeshSlot(m) => handle[m] # handle[l]
    BY <1>0, <2>1 DEF MeshInv
  <2>6. \A m \in Loads : op'[m] = "mesh" /\ at'[m] = "done" =>
          handle'[m] \in DOMAIN meshes' /\ meshes'[handle'[m]] = Made(m, MeshParts)
    BY <1>0, <2>1, <2>3, <2>5 DEF MeshInv
  <2>7. \A h \in DOMAIN meshes' : \E m \in Loads :
          op'[m] = "mesh" /\ at'[m] = "done" /\ handle'[m] = h
    BY <1>0, <2>1, <2>3 DEF MeshInv
  <2>8. \A m \in Loads \ {l} : Made(m, MeshParts) \cap Made(l, MeshParts) = {}
    BY DEF Made
  <2>9. \A m \in Loads : op'[m] = "mesh" /\ at'[m] \in {"store", "done"} =>
          Made(m, MeshParts) \subseteq gpu'
    BY <1>0, <2>1, <2>3, <2>8 DEF MeshInv
  <2>10. meshSlots' = {handle'[k] : k \in {m \in Loads : HasMeshSlot(m)'}}
    BY <1>0, <2>1, <2>3, <2>4, <2>5 DEF MeshInv
  <2>11. \A m, k \in Loads : HasMeshSlot(m)' /\ HasMeshSlot(k)' /\ m # k => handle'[m] # handle'[k]
    BY <1>0, <2>1, <2>4 DEF MeshInv
  <2>12. QED
    BY <2>6, <2>7, <2>9, <2>10, <2>11 DEF MeshInv
<1>6. CASE MaterialNext /\ UNCHANGED meshVars
  <2>1. \A m \in Loads : op[m] = "mesh" \/ op'[m] = "mesh" =>
          /\ op'[m] = op[m] /\ at'[m] = at[m] /\ handle'[m] = handle[m]
          /\ Made(m, MeshParts) \subseteq gpu => Made(m, MeshParts) \subseteq gpu'
    BY <1>6, MaterialStepFrame
  <2>2. \A m \in Loads : HasMeshSlot(m)' <=> HasMeshSlot(m)
    BY <2>1
  <2>3. meshSlots' = {handle'[k] : k \in {m \in Loads : HasMeshSlot(m)'}}
    BY <1>0, <1>6, <2>1, <2>2 DEF MeshInv, meshVars
  <2>4. QED
    BY <1>0, <1>6, <2>1, <2>2, <2>3 DEF MeshInv, meshVars
<1>7. CASE UNCHANGED vars
  BY <1>0, <1>7 DEF vars, calls, meshVars, MeshInv
<1>8. QED
  BY <1>1, <1>2, <1>3, <1>4, <1>5, <1>6, <1>7 DEF Next, MeshNext

-----------------------------------------------------------------------------
(* The materials *)

Bindable == MaterialParts \cup {"newTexture"}

\* A step of a mesh changes no call of a material and no object of one.
LEMMA MeshStepFrame ==
  ASSUME IInv, MeshNext
  PROVE  \A m \in Loads : op[m] \in MaterialOps \/ op'[m] \in MaterialOps =>
           /\ op'[m] = op[m] /\ at'[m] = at[m] /\ handle'[m] = handle[m]
           /\ gpu \cap Made(m, Bindable) \subseteq gpu'
<1> USE DEF TypeOK, Goto, CallsInv, MaterialOps
<1>0. TypeOK /\ CallsInv /\ MeshInv
  BY DEF IInv
<1> TAKE m \in Loads
<1> HAVE op[m] \in MaterialOps \/ op'[m] \in MaterialOps
<1>1. PICK l \in Loads :
        StartMesh(l) \/ ParseMesh(l) \/ FailMesh(l) \/ StoreMesh(l) \/ RemoveMesh(l)
  BY DEF MeshNext
<1>2. CASE StartMesh(l)
  BY <1>0, <1>2 DEF StartMesh
<1>3. CASE ParseMesh(l) \/ StoreMesh(l)
  BY <1>0, <1>3 DEF ParseMesh, StoreMesh
<1>4. CASE FailMesh(l)
  BY <1>0, <1>4 DEF FailMesh, FailsToLoad
<1>5. CASE RemoveMesh(l)
  <2>1. /\ op[l] = "mesh" /\ l # m /\ handle[l] \in DOMAIN meshes
        /\ meshes[handle[l]] = Made(l, MeshParts)
        /\ op' = op /\ at'[m] = at[m] /\ handle' = handle
    BY <1>0, <1>5 DEF RemoveMesh, MeshInv
  <2>2. gpu' = gpu \ Made(l, MeshParts)
    BY <1>5, <2>1 DEF RemoveMesh
  <2>3. Made(m, Bindable) \cap Made(l, MeshParts) = {}
    BY <2>1 DEF Made
  <2>4. QED
    BY <2>1, <2>2, <2>3
<1>6. QED
  BY <1>1, <1>2, <1>3, <1>4, <1>5

\* What the invariant says of one entry of the storage
EntryInv(h) ==
  LET l == storage[h].by IN
    /\ op[l] \in MaterialOps /\ handle[l] = h
    /\ at[l] \notin {"idle", "metadata", "insert", "gone"}
    /\ storage[h].bg \subseteq Made(l, Bindable)
    /\ storage[h].bg \subseteq gpu

\* What it says of one load that has stored its entry
EnteredInv(l) == Entered(l) =>
  /\ handle[l] # NoSlot /\ handle[l] \in DOMAIN storage
  /\ storage[handle[l]].by = l
  /\ Made(l, BoundAt(l)) \subseteq storage[handle[l]].bg

LEMMA MaterialInvParts ==
  MaterialInv <=>
    /\ \A l, m \in Loads : Creating(l) /\ Creating(m) => l = m
    /\ matSlots = DOMAIN storage \ {NoSlot}
    /\ \A l \in Loads : at[l] = "insert" => handle[l] \in (MaterialSlots \ matSlots) \cup {NoSlot}
    /\ \A l \in Loads : EnteredInv(l)
    /\ \A h \in DOMAIN storage : EntryInv(h)
BY DEF MaterialInv, EnteredInv, EntryInv, Bindable

\* A load that goes on alone, with its entry growing
LEMMA BuildStep ==
  ASSUME IInv, NEW l \in Loads, NEW place \in {"vertex", "pixel", "textures"},
         NEW parts \in SUBSET MaterialParts, NEW next \in {"pixel", "textures", "done"},
         Build(l, place, parts, next),
         BoundAt(l)' \subseteq BoundAt(l) \cup parts
  PROVE  MaterialInv'
<1> USE DEF TypeOK, Goto, CallsInv, MaterialPlaces
<1>0. TypeOK /\ CallsInv /\ MaterialInv
  BY DEF IInv
<1>1. /\ at[l] = place /\ op[l] \in MaterialOps /\ at' = [at EXCEPT ![l] = next]
      /\ gpu' = gpu \cup Made(l, parts)
      /\ UNCHANGED <<op, handle, matSlots>>
  BY <1>0 DEF Build
<1>2. Entered(l) /\ EnteredInv(l) /\ EntryInv(handle[l])
  BY <1>0, <1>1, MaterialInvParts DEF Entered, EnteredInv
<1>3. /\ DOMAIN storage' = DOMAIN storage
      /\ storage'[handle[l]].by = l
      /\ storage'[handle[l]].bg = storage[handle[l]].bg \cup Made(l, parts)
      /\ \A h \in DOMAIN storage \ {handle[l]} : storage'[h] = storage[h]
  BY <1>0, <1>2 DEF Build, EnteredInv
<1>4. \A m \in Loads : Creating(m)' => Creating(m)
  BY <1>0, <1>1 DEF Creating
<1>5. \A m \in Loads : EnteredInv(m)'
  <2> SUFFICES ASSUME NEW m \in Loads PROVE EnteredInv(m)'
    OBVIOUS
  <2>1. CASE m = l
    BY <1>0, <1>1, <1>2, <1>3, <2>1 DEF EnteredInv, Made
  <2>2. CASE m # l
    <3>1. EnteredInv(m) /\ (Entered(m)' <=> Entered(m)) /\ BoundAt(m)' = BoundAt(m)
      BY <1>0, <1>1, <2>2, MaterialInvParts DEF Entered, BoundAt
    <3>2. Entered(m) => handle[m] # handle[l]
      BY <1>2, <2>2, <3>1 DEF EnteredInv
    <3>3. QED
      BY <1>1, <1>3, <3>1, <3>2 DEF EnteredInv
  <2>3. QED
    BY <2>1, <2>2
<1>6. \A h \in DOMAIN storage' : EntryInv(h)'
  <2> SUFFICES ASSUME NEW h \in DOMAIN storage PROVE EntryInv(h)'
    BY <1>3
  <2>1. EntryInv(h)
    BY <1>0, MaterialInvParts
  <2>2. CASE h = handle[l]
    BY <1>0, <1>1, <1>2, <1>3, <2>1, <2>2 DEF EntryInv, EnteredInv, Made, Bindable
  <2>3. CASE h # handle[l]
    BY <1>0, <1>1, <1>3, <2>1, <2>3 DEF EntryInv
  <2>4. QED
    BY <2>2, <2>3
<1>7. \A k, m \in Loads : Creating(k)' /\ Creating(m)' => k = m
  BY <1>0, <1>4 DEF MaterialInv
<1>8. \A m \in Loads : at'[m] = "insert" =>
        handle'[m] \in (MaterialSlots \ matSlots)' \cup {NoSlot}
  BY <1>0, <1>1 DEF MaterialInv, MaterialSlots
<1>9. matSlots' = DOMAIN storage' \ {NoSlot}
  BY <1>0, <1>1, <1>3 DEF MaterialInv
<1>10. QED
  BY <1>5, <1>6, <1>7, <1>8, <1>9 DEF MaterialInv, EnteredInv, EntryInv, Bindable

\* A step that leaves the storage alone, and the calls its entries belong to
LEMMA StorageKept ==
  ASSUME IInv, UNCHANGED <<storage, matSlots>>,
         \A k, m \in Loads : Creating(k)' /\ Creating(m)' => k = m,
         \A m \in Loads : at'[m] = "insert" =>
           handle'[m] \in (MaterialSlots \ matSlots) \cup {NoSlot},
         \A m \in Loads : Entered(m)' =>
           Entered(m) /\ BoundAt(m)' = BoundAt(m) /\ handle'[m] = handle[m],
         \A h \in DOMAIN storage : EntryInv(h)'
  PROVE  MaterialInv'
<1>1. MaterialInv
  BY DEF IInv
<1>2. \A m \in Loads : EnteredInv(m)'
  BY <1>1 DEF MaterialInv, EnteredInv, Made
<1>3. QED
  BY <1>1, <1>2 DEF MaterialInv, EnteredInv, EntryInv, Bindable, MaterialSlots

LEMMA MaterialStep == IInv /\ [Next]_vars => MaterialInv'
<1> SUFFICES ASSUME IInv, [Next]_vars PROVE MaterialInv'
  OBVIOUS
<1> USE LoadsAssumption DEF TypeOK, Goto, CallsInv, MaterialPlaces
<1>0. TypeOK /\ CallsInv /\ MaterialInv
  BY DEF IInv
<1>1. ASSUME NEW l \in Loads, NEW kind \in MaterialOps, StartMaterial(l, kind)
      PROVE  MaterialInv'
  <2>1. \A m \in Loads : Creating(m)' => m = l
    BY <1>0, <1>1 DEF StartMaterial, InTurn, Creating
  <2>2. \A m \in Loads : Entered(m)' => Entered(m) /\ m # l
    BY <1>0, <1>1 DEF StartMaterial, Entered, MaterialOps
  <2>3. \A m \in Loads : Entered(m) => BoundAt(m)' = BoundAt(m)
    BY <1>0, <1>1 DEF StartMaterial, Entered, BoundAt, MaterialOps
  <2>4. \A h \in DOMAIN storage : storage[h].by # l
    BY <1>0, <1>1 DEF StartMaterial, MaterialInv
  <2>5. /\ UNCHANGED <<handle, gpu, storage, matSlots>>
        /\ \A m \in Loads \ {l} : op'[m] = op[m] /\ at'[m] = at[m]
        /\ at'[l] # "insert"
    BY <1>0, <1>1 DEF StartMaterial, materialVars
  <2>6. \A h \in DOMAIN storage : EntryInv(h)'
    <3> SUFFICES ASSUME NEW h \in DOMAIN storage PROVE EntryInv(h)'
      OBVIOUS
    <3>1. EntryInv(h)
      BY <1>0, MaterialInvParts
    <3>2. QED
      BY <1>0, <2>4, <2>5, <3>1 DEF EntryInv
  <2>7. \A m \in Loads : at'[m] = "insert" =>
          handle'[m] \in (MaterialSlots \ matSlots) \cup {NoSlot}
    BY <1>0, <2>5 DEF MaterialInv
  <2>8. \A m \in Loads : Entered(m)' =>
          Entered(m) /\ BoundAt(m)' = BoundAt(m) /\ handle'[m] = handle[m]
    BY <2>2, <2>3, <2>5
  <2>9. \A k, m \in Loads : Creating(k)' /\ Creating(m)' => k = m
    BY <2>1
  <2>10. QED
    BY <2>5, <2>6, <2>7, <2>8, <2>9, StorageKept
<1>2. ASSUME NEW l \in Loads, Pick(l) PROVE MaterialInv'
  <2>1. firstAvailable(1, matSlots) \in (MaterialSlots \ matSlots) \cup {NoSlot}
    BY FirstAvailable DEF MaterialSlots
  <2>2. \A m \in Loads : Creating(m)' => Creating(m)
    BY <1>0, <1>2 DEF Pick, Creating
  <2>3. \A m \in Loads : Entered(m)' => Entered(m) /\ m # l /\ BoundAt(m)' = BoundAt(m)
    BY <1>0, <1>2 DEF Pick, Entered, BoundAt
  <2>4. \A h \in DOMAIN storage : storage[h].by # l
    BY <1>0, <1>2 DEF Pick, MaterialInv
  <2>5. /\ UNCHANGED <<op, gpu, storage, matSlots>>
        /\ \A m \in Loads \ {l} : handle'[m] = handle[m] /\ at'[m] = at[m]
        /\ handle'[l] = firstAvailable(1, matSlots)
    BY <1>0, <1>2 DEF Pick, materialVars
  <2>6. \A h \in DOMAIN storage : EntryInv(h)'
    <3> SUFFICES ASSUME NEW h \in DOMAIN storage PROVE EntryInv(h)'
      OBVIOUS
    <3>1. EntryInv(h)
      BY <1>0, MaterialInvParts
    <3>2. QED
      BY <1>0, <2>4, <2>5, <3>1 DEF EntryInv
  <2>7. \A m \in Loads : at'[m] = "insert" =>
          handle'[m] \in (MaterialSlots \ matSlots) \cup {NoSlot}
    BY <1>0, <2>1, <2>5 DEF MaterialInv
  <2>8. \A m \in Loads : Entered(m)' =>
          Entered(m) /\ BoundAt(m)' = BoundAt(m) /\ handle'[m] = handle[m]
    BY <2>3, <2>5
  <2>9. \A k, m \in Loads : Creating(k)' /\ Creating(m)' => k = m
    BY <1>0, <2>2 DEF MaterialInv
  <2>10. QED
    BY <2>5, <2>6, <2>7, <2>8, <2>9, StorageKept
<1>3. ASSUME NEW l \in Loads, Insert(l) PROVE MaterialInv'
  <2>1. /\ at[l] = "insert" /\ op[l] \in MaterialOps /\ UNCHANGED <<op, handle, gpu>>
        /\ at' = [at EXCEPT ![l] = IF handle[l] = NoSlot THEN "failed" ELSE AfterInsert(l)]
        /\ AfterInsert(l) \in {"vertex", "reflection"}
    BY <1>0, <1>3 DEF Insert, AfterInsert
  <2>2. handle[l] # NoSlot => handle[l] \notin DOMAIN storage
    BY <1>0, <2>1 DEF MaterialInv
  <2>3. /\ DOMAIN storage' = DOMAIN storage \cup {handle[l]}
        /\ \A h \in DOMAIN storage : storage'[h] = storage[h]
        /\ handle[l] \notin DOMAIN storage => storage'[handle[l]] = [by |-> l, bg |-> {}]
        /\ matSlots' = matSlots \cup ({handle[l]} \ {NoSlot})
    BY <1>3 DEF Insert, Emplaced
  <2>4. \A m \in Loads : Creating(m)' => Creating(m)
    BY <1>0, <2>1 DEF Creating
  <2>5. \A m \in Loads : EnteredInv(m)'
    <3> SUFFICES ASSUME NEW m \in Loads PROVE EnteredInv(m)'
      OBVIOUS
    <3>1. CASE m = l
      BY <1>0, <2>1, <2>2, <2>3, <3>1 DEF EnteredInv, Entered, BoundAt, Made
    <3>2. CASE m # l
      <4>1. EnteredInv(m) /\ (Entered(m)' <=> Entered(m)) /\ BoundAt(m)' = BoundAt(m)
        BY <1>0, <2>1, <3>2, MaterialInvParts DEF Entered, BoundAt
      <4>2. QED
        BY <2>1, <2>3, <4>1 DEF EnteredInv
    <3>3. QED
      BY <3>1, <3>2
  <2>6. \A h \in DOMAIN storage' : EntryInv(h)'
    <3> SUFFICES ASSUME NEW h \in DOMAIN storage' PROVE EntryInv(h)'
      OBVIOUS
    <3>1. CASE h \in DOMAIN storage
      <4>1. EntryInv(h)
        BY <1>0, <3>1, MaterialInvParts
      <4>2. QED
        BY <1>0, <2>1, <2>3, <3>1, <4>1 DEF EntryInv
    <3>2. CASE h \notin DOMAIN storage
      BY <1>0, <2>1, <2>3, <3>2 DEF EntryInv
    <3>3. QED
      BY <3>1, <3>2
  <2>7. matSlots' = DOMAIN storage' \ {NoSlot}
    BY <1>0, <2>3 DEF MaterialInv
  <2>8. \A m \in Loads : at'[m] # "insert"
    BY <1>0, <2>1 DEF MaterialInv, Creating
  <2>9. QED
    BY <1>0, <2>4, <2>5, <2>6, <2>7, <2>8 DEF MaterialInv, EnteredInv, EntryInv, Bindable
<1>4. ASSUME NEW l \in Loads, Reflect(l) PROVE MaterialInv'
  <2>1. /\ at[l] = "reflection" /\ op[l] \in MaterialOps /\ Entered(l)
        /\ at' = [at EXCEPT ![l] = "vertex"] /\ UNCHANGED <<op, handle, gpu, matSlots>>
    BY <1>0, <1>4 DEF Reflect, Entered
  <2>2. /\ DOMAIN storage' = DOMAIN storage
        /\ \A h \in DOMAIN storage : storage'[h].by = storage[h].by /\ storage'[h].bg \subseteq storage[h].bg
        /\ \A h \in DOMAIN storage \ {handle[l]} : storage'[h] = storage[h]
    BY <1>0, <1>4 DEF Reflect
  <2>3. \A m \in Loads : /\ Creating(m)' => Creating(m)
                         /\ Entered(m)' <=> Entered(m)
                         /\ BoundAt(m)' = BoundAt(m)
    BY <1>0, <2>1 DEF Creating, Entered, BoundAt
  <2>4. BoundAt(l) = {}
    BY <2>1 DEF BoundAt
  <2>5. \A m \in Loads : EnteredInv(m)'
    <3> SUFFICES ASSUME NEW m \in Loads PROVE EnteredInv(m)'
      OBVIOUS
    <3>1. EnteredInv(m) /\ EnteredInv(l)
      BY <1>0, MaterialInvParts
    <3>2. CASE m = l
      BY <2>1, <2>2, <2>3, <2>4, <3>1, <3>2 DEF EnteredInv, Made
    <3>3. CASE m # l
      BY <2>1, <2>2, <2>3, <3>1, <3>3 DEF EnteredInv
    <3>4. QED
      BY <3>2, <3>3
  <2>6. \A h \in DOMAIN storage' : EntryInv(h)'
    <3> SUFFICES ASSUME NEW h \in DOMAIN storage PROVE EntryInv(h)'
      BY <2>2
    <3>1. EntryInv(h)
      BY <1>0, MaterialInvParts
    <3>2. QED
      BY <1>0, <2>1, <2>2, <3>1 DEF EntryInv
  <2>7. \A k, m \in Loads : Creating(k)' /\ Creating(m)' => k = m
    BY <1>0, <2>3 DEF MaterialInv
  <2>8. \A m \in Loads : at'[m] = "insert" =>
          handle'[m] \in (MaterialSlots \ matSlots)' \cup {NoSlot}
    BY <1>0, <2>1 DEF MaterialInv, MaterialSlots
  <2>9. matSlots' = DOMAIN storage' \ {NoSlot}
    BY <1>0, <2>1, <2>2 DEF MaterialInv
  <2>10. QED
    BY <2>5, <2>6, <2>7, <2>8, <2>9 DEF MaterialInv, EnteredInv, EntryInv, Bindable
<1>5. ASSUME NEW l \in Loads, BuildVertex(l) PROVE MaterialInv'
  <2>1. BoundAt(l)' = {"vertexShader"}
    BY <1>0, <1>5 DEF BuildVertex, Build, BoundAt
  <2>2. QED
    BY <1>5, <2>1, BuildStep DEF BuildVertex, MaterialParts, ShaderParts
<1>6. ASSUME NEW l \in Loads, BuildPixel(l) PROVE MaterialInv'
  <2>1. BoundAt(l) = {"vertexShader"} /\ BoundAt(l)' = ShaderParts
    BY <1>0, <1>6 DEF BuildPixel, Build, BoundAt
  <2>2. QED
    BY <1>6, <2>1, BuildStep DEF BuildPixel, MaterialParts, ShaderParts
<1>7. ASSUME NEW l \in Loads, BuildRest(l) PROVE MaterialInv'
  <2>1. BoundAt(l) = ShaderParts /\ BoundAt(l)' = MaterialParts \ {"texture"}
    BY <1>0, <1>7 DEF BuildRest, Build, BoundAt
  <2>2. QED
    BY <1>7, <2>1, BuildStep DEF BuildRest, MaterialParts, ShaderParts
<1>8. ASSUME NEW l \in Loads, FailMaterial(l) PROVE MaterialInv'
  <2>1. /\ at' = [at EXCEPT ![l] = "failed"] /\ UNCHANGED <<op, handle, gpu, storage, matSlots>>
        /\ at[l] \in MaterialPlaces
    BY <1>8 DEF FailMaterial, FailsToLoad, materialVars
  <2>2. \A m \in Loads : /\ Creating(m)' => Creating(m)
                         /\ Entered(m)' => Entered(m) /\ BoundAt(m)' = BoundAt(m)
    BY <1>0, <2>1 DEF Creating, Entered, BoundAt
  <2>3. \A h \in DOMAIN storage : EntryInv(h)'
    <3> SUFFICES ASSUME NEW h \in DOMAIN storage PROVE EntryInv(h)'
      OBVIOUS
    <3>1. EntryInv(h)
      BY <1>0, MaterialInvParts
    <3>2. QED
      BY <1>0, <2>1, <3>1 DEF EntryInv
  <2>4. QED
    BY <1>0, <2>1, <2>2, <2>3, StorageKept DEF MaterialInv
<1>9. ASSUME NEW l \in Loads, SetTextureSlot(l) PROVE MaterialInv'
  <2>1. Entered(l) /\ BoundAt(l) = MaterialParts \ {"texture"} /\ UNCHANGED <<op, at, handle, matSlots>>
    BY <1>0, <1>9 DEF SetTextureSlot, Entered, BoundAt, calls
  <2>2. EnteredInv(l) /\ EntryInv(handle[l]) /\ handle[l] \in DOMAIN storage
    BY <1>0, <2>1, MaterialInvParts DEF EnteredInv
  <2>3. /\ DOMAIN storage' = DOMAIN storage
        /\ storage'[handle[l]].by = l
        /\ storage'[handle[l]].bg = (storage[handle[l]].bg \ {<<l, "texture">>}) \cup {<<l, "newTexture">>}
        /\ \A h \in DOMAIN storage \ {handle[l]} : storage'[h] = storage[h]
        /\ gpu' = gpu \cup {<<l, "newTexture">>}
    BY <1>0, <1>9, <2>1, <2>2 DEF SetTextureSlot, EnteredInv
  <2>4. \A m \in Loads : EnteredInv(m)'
    <3> SUFFICES ASSUME NEW m \in Loads PROVE EnteredInv(m)'
      OBVIOUS
    <3>1. EnteredInv(m) /\ (Entered(m)' <=> Entered(m)) /\ BoundAt(m)' = BoundAt(m)
      BY <1>0, <2>1, MaterialInvParts DEF Entered, BoundAt
    <3>2. CASE m = l
      BY <2>1, <2>2, <2>3, <3>1, <3>2 DEF EnteredInv, Made
    <3>3. CASE m # l
      BY <2>1, <2>2, <2>3, <3>1, <3>3 DEF EnteredInv
    <3>4. QED
      BY <3>2, <3>3
  <2>5. \A h \in DOMAIN storage' : EntryInv(h)'
    <3> SUFFICES ASSUME NEW h \in DOMAIN storage PROVE EntryInv(h)'
      BY <2>3
    <3>1. EntryInv(h)
      BY <1>0, MaterialInvParts
    <3>2. CASE h = handle[l]
      BY <2>1, <2>2, <2>3, <3>1, <3>2 DEF EntryInv, EnteredInv, Made, Bindable
    <3>3. CASE h # handle[l]
      BY <2>1, <2>3, <3>1, <3>3 DEF EntryInv
    <3>4. QED
      BY <3>2, <3>3
  <2>6. \A m \in Loads : Creating(m)' <=> Creating(m)
    BY <2>1 DEF Creating
  <2>7. QED
    BY <1>0, <2>1, <2>3, <2>4, <2>5, <2>6 DEF MaterialInv, EnteredInv, EntryInv, Bindable, MaterialSlots
<1>10. ASSUME NEW l \in Loads, DestroyMaterial(l) PROVE MaterialInv'
  <2>1. /\ Entered(l) /\ op[l] \in MaterialOps /\ at[l] = "done"
        /\ at' = [at EXCEPT ![l] = "gone"] /\ UNCHANGED <<op, handle>>
    BY <1>0, <1>10 DEF DestroyMaterial, Entered
  <2>2. EnteredInv(l) /\ EntryInv(handle[l]) /\ handle[l] \in DOMAIN storage
    BY <1>0, <2>1, MaterialInvParts DEF EnteredInv
  <2>3. /\ gpu' = gpu \ storage[handle[l]].bg
        /\ matSlots' = matSlots \ {handle[l]}
        /\ DOMAIN storage' = DOMAIN storage \ {handle[l]}
        /\ \A h \in DOMAIN storage' : storage'[h] = storage[h]
    BY <1>10, <2>2 DEF DestroyMaterial, Erased, Restrict
  <2>4. \A m \in Loads : /\ Creating(m)' => Creating(m)
                         /\ Entered(m)' <=> Entered(m) /\ m # l
                         /\ Entered(m)' => BoundAt(m)' = BoundAt(m)
    BY <1>0, <2>1 DEF Creating, Entered, BoundAt
  <2>5. \A m \in Loads : EnteredInv(m)'
    <3> SUFFICES ASSUME NEW m \in Loads PROVE EnteredInv(m)'
      OBVIOUS
    <3>1. EnteredInv(m)
      BY <1>0, MaterialInvParts
    <3>2. QED
      BY <2>1, <2>2, <2>3, <2>4, <3>1 DEF EnteredInv
  <2>6. \A h \in DOMAIN storage' : EntryInv(h)'
    <3> SUFFICES ASSUME NEW h \in DOMAIN storage, h # handle[l] PROVE EntryInv(h)'
      BY <2>3
    <3>1. EntryInv(h)
      BY <1>0, MaterialInvParts
    <3>2. storage[h].by # l
      BY <3>1 DEF EntryInv
    <3>3. storage[handle[l]].bg \subseteq Made(l, Bindable)
      BY <2>1, <2>2 DEF EntryInv, EnteredInv
    <3>4. storage[h].bg \cap storage[handle[l]].bg = {}
      BY <3>1, <3>2, <3>3 DEF EntryInv, Made
    <3>5. storage[h].bg \subseteq gpu'
      BY <2>3, <3>1, <3>4 DEF EntryInv
    <3>6. QED
      BY <1>0, <2>1, <2>3, <3>1, <3>2, <3>5 DEF EntryInv
  <2>7. matSlots' = DOMAIN storage' \ {NoSlot}
    BY <1>0, <2>3 DEF MaterialInv
  <2>8. \A m \in Loads : at'[m] = "insert" => handle'[m] \in (MaterialSlots \ matSlots') \cup {NoSlot}
    BY <1>0, <2>1, <2>3 DEF MaterialInv
  <2>9. QED
    BY <1>0, <2>4, <2>5, <2>6, <2>7, <2>8 DEF MaterialInv, EnteredInv, EntryInv, Bindable, MaterialSlots
<1>11. CASE MeshNext /\ UNCHANGED materialVars
  <2>1. \A m \in Loads : op[m] \in MaterialOps \/ op'[m] \in MaterialOps =>
          /\ op'[m] = op[m] /\ at'[m] = at[m] /\ handle'[m] = handle[m]
          /\ gpu \cap Made(m, Bindable) \subseteq gpu'
    BY <1>11, MeshStepFrame
  <2>2. CallsInv'
    BY CallsStep
  <2>3. \A m \in Loads : /\ Creating(m)' => Creating(m)
                         /\ Entered(m)' => Entered(m) /\ BoundAt(m)' = BoundAt(m)
    BY <2>1 DEF Creating, Entered, BoundAt
  <2>4. \A m \in Loads : at'[m] = "insert" => at[m] = "insert" /\ handle'[m] = handle[m]
    BY <2>1, <2>2
  <2>5. \A h \in DOMAIN storage' : EntryInv(h)'
    <3> SUFFICES ASSUME NEW h \in DOMAIN storage PROVE EntryInv(h)'
      BY <1>11 DEF materialVars
    <3>1. EntryInv(h)
      BY <1>0, MaterialInvParts
    <3>2. QED
      BY <1>0, <1>11, <2>1, <3>1 DEF EntryInv, materialVars
  <2>6. \A m \in Loads : Entered(m)' => handle'[m] = handle[m]
    BY <2>1 DEF Entered
  <2>7. QED
    BY <1>0, <1>11, <2>3, <2>4, <2>5, <2>6, StorageKept DEF MaterialInv, materialVars
<1>12. CASE UNCHANGED vars
  <2>1. UNCHANGED <<op, at, handle, gpu, storage, matSlots>>
    BY <1>12 DEF vars, calls, materialVars
  <2>2. QED
    BY <1>0, <2>1 DEF MaterialInv, Creating, Entered, BoundAt, MaterialSlots
<1>13. QED
  BY <1>1, <1>2, <1>3, <1>4, <1>5, <1>6, <1>7, <1>8, <1>9, <1>10, <1>11, <1>12
  DEF Next, MaterialNext

-----------------------------------------------------------------------------
(* The theorems *)

LEMMA Invariance == Spec => []IInv
<1>1. IInv /\ [Next]_vars => IInv'
  BY TypeStep, CallsStep, MeshStep, MaterialStep DEF IInv
<1>2. QED
  BY <1>1, InitInv, PTL DEF Spec

\* Handles and slots stay within the tables, whatever loads fail and however
\* slots are reused (MeshSystem, MaterialSystem).
THEOREM AssetsTypeCorrect == Spec => []TypeOK
<1>1. IInv => TypeOK
  BY DEF IInv
<1>2. QED
  BY <1>1, Invariance, PTL

\* allocateSlot and firstAvailable never give a handle to two loads at a time.
THEOREM HandlesAreDistinct == Spec => []HandlesDistinct
<1>1. IInv => HandlesDistinct
  <2> SUFFICES ASSUME IInv, NEW l \in Loads, NEW m \in Loads, Holds(l), Holds(m), l # m,
                      op[l] = "mesh" <=> op[m] = "mesh"
               PROVE  handle[l] # handle[m]
    BY DEF HandlesDistinct
  <2> USE DEF IInv, Holds
  <2>1. CASE op[l] = "mesh"
    BY <2>1 DEF MeshInv, HasMeshSlot
  <2>2. CASE op[l] # "mesh"
    <3>1. ASSUME NEW k \in {l, m}
          PROVE  at[k] = "insert" \/ (Entered(k) /\ at[k] # "insert")
      BY <2>2 DEF TypeOK, Places, CallsInv, Entered, MaterialPlaces
    <3>2. \A k \in {l, m} : at[k] = "insert" => handle[k] \notin matSlots /\ Creating(k)
      BY <2>2 DEF MaterialInv, CallsInv, MaterialPlaces, Creating
    <3>3. \A k \in {l, m} : Entered(k) => handle[k] \in matSlots /\ storage[handle[k]].by = k
      BY DEF MaterialInv
    <3>4. QED
      BY <3>1, <3>2, <3>3 DEF MaterialInv
  <2>3. QED
    BY <2>1, <2>2
<1>2. QED
  BY <1>1, Invariance, PTL

\* getMesh and getBindData serve whoever holds a handle the asset it loaded,
\* complete, until it removes it.
THEOREM HandlesServe == Spec => []HandleServesItsLoad
<1>1. IInv => HandleServesItsLoad
  <2> SUFFICES ASSUME IInv, NEW l \in Loads, at[l] = "done", op[l] # "mesh"
               PROVE  /\ handle[l] \in DOMAIN storage /\ storage[handle[l]].by = l
                      /\ Made(l, MaterialParts \ {"texture"}) \subseteq storage[handle[l]].bg
    BY DEF HandleServesItsLoad, IInv, MeshInv
  <2>1. Entered(l) /\ BoundAt(l) = MaterialParts \ {"texture"}
    BY DEF IInv, TypeOK, CallsInv, Entered, BoundAt
  <2>2. QED
    BY <2>1 DEF IInv, MaterialInv
<1>2. QED
  BY <1>1, Invariance, PTL

\* removeMesh and destroyMaterial destroy only what their asset alone is bound
\* to: whatever is stored is bound to objects that exist.
THEOREM BoundObjectsLive == Spec => []BindingsLive
<1>1. IInv => BindingsLive
  <2> SUFFICES ASSUME IInv PROVE BindingsLive
    OBVIOUS
  <2> USE DEF IInv
  <2>1. \A h \in DOMAIN meshes : meshes[h] \subseteq gpu
    BY DEF MeshInv
  <2>2. \A h \in DOMAIN storage : storage[h].bg \subseteq gpu
    BY DEF MaterialInv
  <2>3. \A h, k \in DOMAIN storage : h # k => storage[h].bg \cap storage[k].bg = {}
    <3> SUFFICES ASSUME NEW h \in DOMAIN storage, NEW k \in DOMAIN storage, h # k
                 PROVE  storage[h].bg \cap storage[k].bg = {}
      OBVIOUS
    <3>1. storage[h].by # storage[k].by
      BY DEF MaterialInv
    <3>2. QED
      BY <3>1 DEF MaterialInv, Made
  <2>4. QED
    BY <2>1, <2>2, <2>3 DEF BindingsLive, Bound
<1>2. QED
  BY <1>1, Invariance, PTL

\* A slot is lost to nothing but a load that fails.
THEOREM SlotsAreAccounted == Spec => []SlotsAccounted
<1>1. IInv => SlotsAccounted
  <2> SUFFICES ASSUME IInv PROVE SlotsAccounted
    OBVIOUS
  <2>1. meshSlots = {handle[l] : l \in {m \in Loads : op[m] = "mesh" /\ at[m] # "gone"}} \ {NoSlot}
    BY DEF IInv, MeshInv, HasMeshSlot
  <2>2. QED
    BY <2>1 DEF IInv, MaterialInv, SlotsAccounted
<1>2. QED
  BY <1>1, Invariance, PTL
=============================================================================
