----------------------------- MODULE EntityTree -----------------------------
(***************************************************************************)
(* The hierarchy of entities: the links of entity.h (Relationship), the    *)
(* two ways they are made (EntityManager::attachEntity, which prepends,    *)
(* and UIBuilder::beginScrollContainer, which appends), and the two        *)
(* systems that walk them once a tick, TransformSystem::update over the    *)
(* scene and UILayoutSystem::update over the user interface.               *)
(*                                                                         *)
(* A pool is a map here (ComponentPool shows that it is one). An absent    *)
(* Relationship and a default one read alike, so every entity has one. A   *)
(* matrix or a rectangle is the list of what it was composed from.         *)
(***************************************************************************)
EXTENDS Entities, Sequences, SequencesExt

CONSTANT Locals    \* the local transforms an animation sets

ASSUME TreeAssumption == Locals \subseteq Nat

VARIABLES
  nextID,
  kind,          \* what an entity carries: Transform, RectTransform, that and a scroll view
  parent, firstChild, nextSibling, prevSibling,
  stack, current,   \* UIBuilder's
  local,         \* Transform, or the place a layout gives a child
  world,         \* WorldMatrix, or worldRect
  todo,          \* the stack of the update that is running
  updating       \* which update that is

links == <<parent, firstChild, nextSibling, prevSibling>>
vars  == <<nextID, kind, links, stack, current, local, world, todo, updating>>

Init ==
  /\ nextID = 1
  /\ kind = [e \in Ids |-> "none"]
  /\ parent = [e \in Ids |-> None] /\ firstChild = parent
  /\ nextSibling = parent /\ prevSibling = parent
  /\ stack = <<>> /\ current = None
  /\ local = [e \in Ids |-> 0] /\ world = [e \in Ids |-> <<>>]
  /\ todo = <<>> /\ updating = "no"

\* The entities that carry the component an update starts from.
Carriers(system) ==
  {e \in Ids : kind[e] \in IF system = "transform" THEN {"scene"} ELSE {"panel", "scroll"}}

\* The lists of siblings that start at each entity, as walks of n steps along
\* nextSibling find them.
Siblings[n \in 0..MaxId + 1] ==
  [e \in Ids \cup {None} |->
     IF n = 0 \/ e = None THEN <<>> ELSE <<e>> \o Siblings[n - 1][nextSibling[e]]]

Children(e) == Siblings[MaxId + 1][firstChild[e]]

-----------------------------------------------------------------------------
(* Building the hierarchy *)

\* createEntity: the id the next entity gets.
Fresh == nextID

\* Mutant: the children the parent already has are not linked behind the new one.
AttachAlone(child, p) ==
  /\ parent'      = [parent EXCEPT ![child] = p]
  /\ firstChild'  = [firstChild EXCEPT ![p] = child]
  /\ UNCHANGED <<nextSibling, prevSibling>>

\* attachEntity: the child becomes the first one. Adding the Relationship of
\* the parent may move that of the child, which is then not used again.
attachEntity(child, p) ==
  LET first == firstChild[p] IN
  /\ parent'      = [parent EXCEPT ![child] = p]
  /\ firstChild'  = [firstChild EXCEPT ![p] = child]
  /\ IF first = None
     THEN UNCHANGED <<nextSibling, prevSibling>>
     ELSE /\ nextSibling' = [nextSibling EXCEPT ![child] = first]
          /\ prevSibling' = [prevSibling EXCEPT ![first] = child]

\* beginScrollContainer: the container becomes the last child; nobody sets
\* its prevSibling.
AppendChild(child, p) ==
  /\ parent' = [parent EXCEPT ![child] = p]
  /\ IF firstChild[p] = None
     THEN /\ firstChild' = [firstChild EXCEPT ![p] = child]
          /\ UNCHANGED nextSibling
     ELSE /\ nextSibling' = [nextSibling EXCEPT ![Last(Children(p))] = child]
          /\ UNCHANGED firstChild
  /\ UNCHANGED prevSibling

\* An entity of the scene: createEntity and its Transform.
CreateSceneEntity ==
  /\ updating = "no" /\ nextID <= MaxId
  /\ nextID' = nextID + 1
  /\ kind' = [kind EXCEPT ![Fresh] = "scene"]
  /\ UNCHANGED <<links, stack, current, local, world, todo, updating>>

\* Each entity and those above it, as walks of n steps along parent find them.
Above[n \in 0..MaxId] ==
  [e \in Ids \cup {None} |->
     IF n = 0 \/ e = None THEN {} ELSE {e} \cup Above[n - 1][parent[e]]]

IsAncestor(a, e) == a \in Above[MaxId][e]

\* The application attaches an entity of the scene that has no parent yet, and
\* never below itself: attachEntity checks neither.
AttachSceneEntity(child, p) ==
  /\ updating = "no"
  /\ {child, p} \subseteq Carriers("transform")
  /\ parent[child] = None /\ ~IsAncestor(child, p)
  /\ attachEntity(child, p)
  /\ UNCHANGED <<nextID, kind, stack, current, local, world, todo, updating>>

\* UIBuilder::begin
Begin ==
  /\ updating = "no" /\ nextID <= MaxId
  /\ nextID' = nextID + 1
  /\ kind' = [kind EXCEPT ![Fresh] = "panel"]
  /\ IF stack = <<>> THEN UNCHANGED links ELSE attachEntity(Fresh, Last(stack))
  /\ stack' = Append(stack, Fresh) /\ current' = Fresh
  /\ UNCHANGED <<local, world, todo, updating>>

\* UIBuilder::end
End ==
  /\ updating = "no" /\ stack # <<>>
  /\ stack' = Front(stack)
  /\ current' = IF stack' = <<>> THEN None ELSE Last(stack')
  /\ UNCHANGED <<nextID, kind, links, local, world, todo, updating>>

\* UIBuilder::beginScrollContainer
BeginScroll ==
  /\ updating = "no" /\ nextID <= MaxId
  /\ nextID' = nextID + 1
  /\ kind' = [kind EXCEPT ![Fresh] = "scroll"]
  /\ IF stack = <<>> THEN UNCHANGED links ELSE AppendChild(Fresh, Last(stack))
  /\ stack' = Append(stack, Fresh) /\ current' = Fresh
  /\ UNCHANGED <<local, world, todo, updating>>

\* UIBuilder::endScrollContainer: current_ stays what it is.
EndScroll ==
  /\ updating = "no" /\ stack # <<>>
  /\ stack' = Front(stack)
  /\ UNCHANGED <<nextID, kind, links, current, local, world, todo, updating>>

-----------------------------------------------------------------------------
(* Walking it *)

\* AnimationSystem::update: a track writes the transform of its joint.
Animate(e, v) ==
  /\ updating = "no" /\ e \in Carriers("transform") /\ v # local[e]
  /\ local' = [local EXCEPT ![e] = v]
  /\ UNCHANGED <<nextID, kind, links, stack, current, world, todo, updating>>

\* The entities an update starts from: those of its pool without a parent.
Roots(system) == {e \in Carriers(system) : parent[e] = None}

\* In the order of the pool, that of creation.
InPoolOrder(S) == CHOOSE s \in SetToSeqs(S) : \A i, j \in DOMAIN s : i < j => s[i] < s[j]

\* An update collects the roots, in the order of their pool.
\* None runs while the user interface is being built (SandboxApp::isReady_).
StartUpdate(system) ==
  /\ updating = "no" /\ stack = <<>>
  /\ Roots(system) # {}
  /\ updating' = system
  /\ todo' = InPoolOrder(Roots(system))
  /\ UNCHANGED <<nextID, kind, links, stack, current, local, world>>

\* Mutant: only the first child of an entity is visited.
FirstOnly(e) == IF firstChild[e] = None THEN <<>> ELSE <<firstChild[e]>>

\* The children of the entity an update visits, as it pushes them: the layout
\* reverses the list twice.
Pushed(e) == Children(e)

\* Composed from the world of the parent, which was visited before.
Compose(e, loc) == IF parent[e] = None THEN <<loc>> ELSE Append(world[parent[e]], loc)

VisitTransform ==
  /\ updating = "transform" /\ todo # <<>>
  /\ LET e == Last(todo) IN
       /\ world' = [world EXCEPT ![e] = Compose(e, local[e])]
       /\ todo' = Front(todo) \o Pushed(e)
  /\ UNCHANGED <<nextID, kind, links, stack, current, local, updating>>

\* Mutant: the layout places the children as they are linked, newest first.
InListOrder(e) == Children(e)

\* The order in which a layout places the children of an entity.
Placed(e) == Reverse(Children(e))

\* A panel places its children one below the other: a vertical layout.
VisitRect ==
  /\ updating = "layout" /\ todo # <<>>
  /\ LET e == Last(todo)  cs == Placed(e) IN
       /\ world' = [world EXCEPT ![e] = Compose(e, local[e])]
       /\ local' = [c \in Ids |-> IF parent[c] = e /\ c \in Range(cs)
                                  THEN CHOOSE i \in DOMAIN cs : cs[i] = c ELSE local[c]]
       /\ todo' = Front(todo) \o Pushed(e)
  /\ UNCHANGED <<nextID, kind, links, stack, current, updating>>

EndUpdate ==
  /\ updating # "no" /\ todo = <<>>
  /\ updating' = "no"
  /\ UNCHANGED <<nextID, kind, links, stack, current, local, world, todo>>

Next ==
  \/ CreateSceneEntity \/ Begin \/ End \/ BeginScroll \/ EndScroll
  \/ \E child, p \in Ids : AttachSceneEntity(child, p)
  \/ \E e \in Ids, v \in Locals : Animate(e, v)
  \/ \E system \in {"transform", "layout"} : StartUpdate(system)
  \/ VisitTransform \/ VisitRect \/ EndUpdate

Spec == Init /\ [][Next]_vars

-----------------------------------------------------------------------------
(* Correctness *)

\* The links make a forest: the list of an entity's children holds each entity
\* that names it as its parent once and no other, and none is above itself.
Forest ==
  \A e \in Ids :
    /\ IsInjective(Children(e))
    /\ Range(Children(e)) = {c \in Ids : parent[c] = e}
    /\ parent[e] # None => ~IsAncestor(e, parent[e])

\* An update leaves everything it is for up to date, however the tree was
\* built: the world of an entity is composed from that of its parent as it is
\* now, so no parent is visited after its child and no entity is left out.
UpdateComplete ==
  updating # "no" /\ todo = <<>> =>
    \A e \in Carriers(updating) : world[e] = Compose(e, local[e])

\* A layout places the children that begin made in the order they were made,
\* although attachEntity links them in the opposite one.
BegunInOrder ==
  updating = "layout" /\ todo = <<>> =>
    \A c, d \in Ids :
      c < d /\ parent[c] = parent[d] /\ parent[c] # None /\ kind[c] = "panel" /\ kind[d] = "panel"
        => local[c] < local[d]
=============================================================================
