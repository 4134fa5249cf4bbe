---------------------------- MODULE MaterialSystem ----------------------------
(***************************************************************************)
(* engine/material: the handles and bindings of MaterialSystem. A material *)
(* is made from several files one after the other: its description, the    *)
(* reflection of its shaders, the shaders, its texture. The slot is picked *)
(* after the first, with no lock, and the entry filled while the others    *)
(* are read. A load that fails leaves its entry as it is.                  *)
(***************************************************************************)
EXTENDS AssetLoads

VARIABLES
  storage,   \* from a handle to the load that described it and its bindings
  matSlots   \* slotUsage

materialVars == <<storage, matSlots>>

\* createMaterialAsync, createMaterial(path) and createMaterial(path, layout, ...)
MaterialOps == {"createAsync", "create", "createWithLayout"}

ShaderParts   == {"vertexShader", "pixelShader", "vertexLayout"}
MaterialParts == ShaderParts \cup {"texture", "sampler", "constantBuffer"}

MaterialInit == storage = [h \in {} |-> {}] /\ matSlots = {}

\* A material whose load has begun and not ended
Creating(l) == op[l] \in MaterialOps /\ at[l] \notin {"done", "failed", "gone"}

\* Mutant: a material is asked for while another is being created.
AnyTime == TRUE

\* The program awaits each material before it asks for the next.
InTurn == \A l \in Loads : ~Creating(l)

\* The call begins. The slots that can be handed out are one fewer than those
\* counted here: 0 is never used, so a full table passes the check.
StartMaterial(l, kind) ==
  /\ at[l] = "idle" /\ InTurn
  /\ op' = [op EXCEPT ![l] = kind]
  /\ Goto(l, IF Cardinality(matSlots) >= MaxEntries THEN "failed" ELSE "metadata")
  /\ UNCHANGED <<handle, gpu, materialVars>>

\* The description has been read and parsed; firstAvailable, without the lock.
Pick(l) ==
  /\ at[l] = "metadata"
  /\ handle' = [handle EXCEPT ![l] = firstAvailable(1, matSlots)]
  /\ Goto(l, "insert")
  /\ UNCHANGED <<op, gpu, materialVars>>

AfterInsert(l) == IF op[l] = "createWithLayout" THEN "vertex" ELSE "reflection"

\* Under the lock: the entry, then its bit. There is no bit for NoSlot: set
\* throws, which ends the load and leaves the entry.
Insert(l) ==
  /\ at[l] = "insert"
  /\ storage' = Emplaced(storage, handle[l], [by |-> l, bg |-> {}])
  /\ matSlots' = matSlots \cup ({handle[l]} \ {NoSlot})
  /\ Goto(l, IF handle[l] = NoSlot THEN "failed" ELSE AfterInsert(l))
  /\ UNCHANGED <<op, handle, gpu>>

\* The reflection has been read; _createMaterialResourcesAsync clears the
\* lists of bindings before it reads the first shader.
Reflect(l) ==
  /\ at[l] = "reflection"
  /\ storage' = IF op[l] = "createAsync"
                THEN [storage EXCEPT ![handle[l]].bg = @ \cap (Loads \X ShaderParts)]
                ELSE storage
  /\ Goto(l, "vertex")
  /\ UNCHANGED <<op, handle, gpu, matSlots>>

\* A file has been read; objects of the renderer are made from it and bound.
Build(l, place, parts, next) ==
  /\ at[l] = place
  /\ gpu' = gpu \cup Made(l, parts)
  /\ storage' = [storage EXCEPT ![handle[l]].bg = @ \cup Made(l, parts)]
  /\ Goto(l, next)
  /\ UNCHANGED <<op, handle, matSlots>>

BuildVertex(l) == Build(l, "vertex", {"vertexShader"}, "pixel")
BuildPixel(l)  == Build(l, "pixel", {"pixelShader", "vertexLayout"}, "textures")

\* Mutant: the constant buffers are not made.
BuildTexturesOnly(l) == Build(l, "textures", {"texture", "sampler"}, "done")

\* The texture and its sampler, then the constant buffers; the call returns.
BuildRest(l) ==
  Build(l, "textures", {"texture", "sampler", "constantBuffer"}, "done")

\* One of the files cannot be read or parsed: nothing is undone.
FailMaterial(l) ==
  /\ \E place \in {"metadata", "reflection", "vertex", "pixel", "textures"} :
       FailsToLoad(l, place)
  /\ UNCHANGED materialVars

\* setTextureSlot with a texture of the caller's, which the material then
\* owns; the one it replaces stays.
SetTextureSlot(l) ==
  /\ op[l] \in MaterialOps /\ at[l] = "done"
  /\ <<l, "newTexture">> \notin gpu
  /\ gpu' = gpu \cup {<<l, "newTexture">>}
  /\ storage' = IF handle[l] \in DOMAIN storage
                THEN [storage EXCEPT ![handle[l]].bg =
                        (@ \ {<<l, "texture">>}) \cup {<<l, "newTexture">>}]
                ELSE storage
  /\ UNCHANGED <<calls, matSlots>>

\* Mutant: the entry stays when its objects are destroyed.
DestroyKeepingEntry(l) ==
  /\ op[l] \in MaterialOps /\ at[l] = "done"
  /\ IF handle[l] \in DOMAIN storage
     THEN /\ gpu' = gpu \ storage[handle[l]].bg
          /\ matSlots' = matSlots \ {handle[l]}
          /\ UNCHANGED storage
     ELSE UNCHANGED <<gpu, materialVars>>
  /\ Goto(l, "gone")
  /\ UNCHANGED <<op, handle>>

\* destroyMaterial, by the owner of the handle, once
DestroyMaterial(l) ==
  /\ op[l] \in MaterialOps /\ at[l] = "done"
  /\ IF handle[l] \in DOMAIN storage
     THEN /\ gpu' = gpu \ storage[handle[l]].bg
          /\ storage' = Erased(storage, handle[l])
          /\ matSlots' = matSlots \ {handle[l]}
     ELSE UNCHANGED <<gpu, materialVars>>
  /\ Goto(l, "gone")
  /\ UNCHANGED <<op, handle>>

MaterialNext == \E l \in Loads :
  \/ \E kind \in MaterialOps : StartMaterial(l, kind)
  \/ Pick(l) \/ Insert(l) \/ Reflect(l)
  \/ BuildVertex(l) \/ BuildPixel(l) \/ BuildRest(l) \/ FailMaterial(l)
  \/ SetTextureSlot(l) \/ DestroyMaterial(l)
=============================================================================
