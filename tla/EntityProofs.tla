---------------------------- MODULE EntityProofs ----------------------------
(***************************************************************************)
(* Proofs about entities, for any number of them: ComponentPool stays      *)
(* packed and implements the map, and the links of EntityTree stay a       *)
(* forest that every update walks to its end.                              *)
(***************************************************************************)
EXTENDS ComponentPool, EntityTree, WellFoundedInduction, FiniteSetTheorems,
        SequenceTheorems, TLAPS

\* What dropping the last element leaves.
LEMMA FrontFacts ==
  ASSUME NEW S, NEW t \in Seq(S), t # <<>>
  PROVE  /\ Front(t) \in Seq(S) /\ Len(Front(t)) = Len(t) - 1
         /\ \A i \in 1..(Len(t) - 1) : Front(t)[i] = t[i]
<1>1. Len(t) \in Nat \ {0}
  OBVIOUS
<1> DEFINE f == SubSeq(t, 1, Len(t) - 1)
<1>2. f = [i \in 1..(Len(t) - 1) |-> t[i]]
  BY <1>1
<1>3. \A i \in 1..(Len(t) - 1) : t[i] \in S
  BY <1>1
<1>4. f \in Seq(S) /\ Len(f) = Len(t) - 1
  <2>1. PICK m \in Nat : m = Len(t) - 1
    BY <1>1
  <2>2. f \in [1..m -> S]
    BY <1>2, <1>3, <2>1
  <2> HIDE DEF f
  <2> QED BY <2>1, <2>2
<1> HIDE DEF f
<1>5. \A i \in 1..(Len(t) - 1) : f[i] = t[i]
  BY <1>2
<1> QED
  BY <1>4, <1>5 DEF Front, f

-----------------------------------------------------------------------------
(* The pool *)

\* An empty pool is packed.
LEMMA InitInv == PoolInit => TypeOK /\ Packed
  BY PoolAssumption, EntitiesAssumption DEF PoolInit, TypeOK, Packed

\* A pool that contains something is not empty, and the place it looks up is
\* one of the places.
LEMMA ContainedPlace ==
  ASSUME TypeOK, Packed, NEW id \in Ids, contains(id)
  PROVE  /\ dense # <<>> /\ entities # <<>> /\ Len(dense) = Len(entities)
         /\ Len(dense) \in Nat \ {0}
         /\ sparse[id] \in 1..Len(dense) /\ entities[sparse[id]] = id
         /\ entities[Len(dense)] \in Ids /\ sparse[entities[Len(dense)]] = Len(dense)
         /\ id \in DOMAIN sparse /\ entities[Len(dense)] \in DOMAIN sparse
<1>1. id \in DOMAIN sparse /\ sparse[id] \in DOMAIN entities /\ entities[sparse[id]] = id
  BY DEF Packed, contains
<1>2. /\ Len(dense) = Len(entities) /\ Len(entities) \in Nat
      /\ DOMAIN entities = 1..Len(entities)
  BY DEF Packed, TypeOK
<1>3. Len(entities) \in DOMAIN entities
  BY <1>1, <1>2
<1>4. entities[Len(entities)] \in Ids
  BY <1>3 DEF TypeOK
<1>5. dense # <<>> /\ entities # <<>>
  BY <1>1, <1>2
<1>6. QED
  BY <1>1, <1>2, <1>3, <1>4, <1>5 DEF Packed

\* operator[] gives an entity a component and leaves the others theirs.
LEMMA AccessKeeps ==
  ASSUME TypeOK, Packed, NEW id \in Ids, Access(id)
  PROVE  /\ TypeOK' /\ Packed'
         /\ \A i \in Ids : contains(i)' <=> contains(i) \/ i = id
         /\ \A i \in Ids : contains(i) => dense'[sparse'[i]] = dense[sparse[i]]
         /\ dense'[sparse'[id]] = Default
<1> DEFINE n == IF id > Len(sparse) THEN id ELSE Len(sparse)
<1>1. n \in Nat /\ n <= MaxId /\ id \in 1..n /\ Len(sparse) <= n /\ id \in Nat
  BY PoolAssumption, EntitiesAssumption DEF TypeOK, Ids
<1>2. /\ sparse' \in Seq(Nat) /\ Len(sparse') = n
      /\ \A i \in 1..n : sparse'[i] = IF i = id THEN Len(dense) + 1
                                       ELSE IF i <= Len(sparse) THEN sparse[i] ELSE None
  <2>1. sparse' = [i \in 1..n |-> IF i = id THEN Len(dense) + 1
                                 ELSE IF i <= Len(sparse) THEN sparse[i] ELSE None]
    BY DEF Access
  <2>2. \A i \in 1..n : i <= Len(sparse) => sparse[i] \in Nat
    BY <1>1 DEF TypeOK
  <2>3. Len(dense) + 1 \in Nat /\ None \in Nat
    BY DEF TypeOK, None
  <2> HIDE DEF n
  <2>4. sparse' \in [1..n -> Nat]
    BY <2>1, <2>2, <2>3
  <2>5. QED
    BY <1>1, <2>1, <2>4
<1>3. /\ dense' \in Seq(Values) /\ Len(dense') = Len(dense) + 1
      /\ \A i \in 1..Len(dense) : dense'[i] = dense[i]
      /\ dense'[Len(dense) + 1] = Default
  BY PoolAssumption, EntitiesAssumption DEF Access, TypeOK
<1>4. /\ entities' \in Seq(Ids) /\ Len(entities') = Len(entities) + 1
      /\ \A i \in 1..Len(entities) : entities'[i] = entities[i]
      /\ entities'[Len(entities) + 1] = id
  BY DEF Access, TypeOK
<1> HIDE DEF n
<1>5. ~contains(id)
  BY DEF Access
<1>6. TypeOK'
  BY <1>1, <1>2, <1>3, <1>4 DEF TypeOK
<1>7. Packed'
  <2>1. Len(entities') = Len(dense')
    BY <1>3, <1>4 DEF Packed
  <2>2. ASSUME NEW i \in DOMAIN sparse', sparse'[i] # None
        PROVE  sparse'[i] \in DOMAIN entities' /\ entities'[sparse'[i]] = i
    <3>1. i \in 1..n
      BY <1>1, <1>2, <2>2
    <3>2. CASE i = id
      <4>1. sparse'[i] = Len(entities) + 1
        BY <1>2, <3>1, <3>2 DEF Packed
      <4>2. QED
        BY <1>4, <3>2, <4>1 DEF TypeOK
    <3>3. CASE i # id
      <4>1. i \in DOMAIN sparse /\ sparse'[i] = sparse[i]
        BY <1>1, <1>2, <2>2, <3>1, <3>3 DEF TypeOK
      <4>2. sparse[i] \in 1..Len(entities) /\ entities[sparse[i]] = i
        BY <2>2, <4>1 DEF Packed, TypeOK
      <4>3. QED
        BY <1>4, <4>1, <4>2 DEF TypeOK
    <3>4. QED
      BY <3>2, <3>3
  <2>3. ASSUME NEW at \in DOMAIN entities'
        PROVE  entities'[at] \in DOMAIN sparse' /\ sparse'[entities'[at]] = at
    <3>1. CASE at = Len(entities) + 1
      BY <1>1, <1>2, <1>4, <3>1 DEF Packed
    <3>2. CASE at \in 1..Len(entities)
      <4>1. entities[at] \in 1..Len(sparse) /\ sparse[entities[at]] = at /\ at # None
        BY <3>2 DEF Packed, TypeOK, None
      <4>2. entities[at] # id
        BY <4>1, <1>5 DEF contains, TypeOK
      <4>3. entities'[at] = entities[at]
        BY <1>4, <3>2
      <4>4. entities[at] \in 1..n
        BY <1>1, <4>1 DEF TypeOK
      <4>5. sparse'[entities[at]] = sparse[entities[at]]
        BY <1>2, <4>1, <4>2, <4>4
      <4>6. DOMAIN sparse' = 1..n
        BY <1>2
      <4>7. QED
        BY <4>1, <4>3, <4>4, <4>5, <4>6
    <3>3. QED
      BY <1>4, <2>3, <3>1, <3>2 DEF TypeOK
  <2>4. QED
    BY <2>1, <2>2, <2>3 DEF Packed
<1>8. \A i \in Ids : contains(i)' <=> contains(i) \/ i = id
  BY <1>1, <1>2 DEF contains, None, TypeOK, Ids
<1>9. \A i \in Ids : contains(i) => dense'[sparse'[i]] = dense[sparse[i]]
  BY <1>1, <1>2, <1>3, <1>5 DEF contains, Packed, TypeOK, Ids
<1>10. dense'[sparse'[id]] = Default
  BY <1>1, <1>2, <1>3
<1>11. QED
  BY <1>6, <1>7, <1>8, <1>9, <1>10

\* A write reaches the component of one entity.
LEMMA WriteKeeps ==
  ASSUME TypeOK, Packed, NEW id \in Ids, NEW v \in Values, Write(id, v)
  PROVE  /\ TypeOK' /\ Packed'
         /\ \A i \in Ids : contains(i)' <=> contains(i)
         /\ \A i \in Ids : contains(i) =>
              dense'[sparse'[i]] = IF i = id THEN v ELSE dense[sparse[i]]
<1>1. contains(id) /\ sparse[id] \in 1..Len(dense)
  BY ContainedPlace DEF Write
<1>2. /\ dense' \in Seq(Values) /\ Len(dense') = Len(dense)
      /\ \A i \in 1..Len(dense) : dense'[i] = IF i = sparse[id] THEN v ELSE dense[i]
  BY <1>1 DEF Write, TypeOK
<1>3. UNCHANGED <<sparse, entities>>
  BY DEF Write
<1>4. TypeOK' /\ Packed'
  BY <1>2, <1>3 DEF TypeOK, Packed
<1>5. \A i \in Ids : contains(i)' <=> contains(i)
  BY <1>3 DEF contains
<1>6. ASSUME NEW i \in Ids, contains(i)
      PROVE  dense'[sparse'[i]] = IF i = id THEN v ELSE dense[sparse[i]]
  <2>1. sparse[i] \in 1..Len(dense) /\ entities[sparse[i]] = i
    BY <1>6, ContainedPlace
  <2>2. entities[sparse[id]] = id
    BY <1>1, ContainedPlace
  <2>3. QED
    BY <1>2, <1>3, <2>1, <2>2
<1>7. QED
  BY <1>4, <1>5, <1>6

\* remove takes one component away; that of the last entity keeps its value where
\* it moves.
LEMMA RemoveKeeps ==
  ASSUME TypeOK, Packed, NEW id \in Ids, remove(id)
  PROVE  /\ TypeOK' /\ Packed'
         /\ \A i \in Ids : contains(i)' <=> contains(i) /\ i # id
         /\ \A i \in Ids : contains(i) /\ i # id =>
              dense'[sparse'[i]] = dense[sparse[i]]
<1> DEFINE at == sparse[id]  last == entities[Len(dense)]  n == Len(dense)
<1>1. contains(id)
  BY DEF remove
<1>2. /\ dense # <<>> /\ entities # <<>> /\ n = Len(entities) /\ n \in Nat \ {0}
      /\ at \in 1..n /\ entities[at] = id /\ last \in Ids /\ sparse[last] = n
      /\ id \in DOMAIN sparse /\ last \in DOMAIN sparse
  BY <1>1, ContainedPlace
<1>3. dense[n] \in Values
  BY <1>2 DEF TypeOK
<1>4. /\ dense' \in Seq(Values) /\ Len(dense') = n - 1
      /\ \A i \in 1..(n - 1) : dense'[i] = IF i = at THEN dense[n] ELSE dense[i]
  <2> DEFINE t == [dense EXCEPT ![at] = dense[n]]
  <2>1. dense' = Front(t)
    BY DEF remove
  <2>2. /\ t \in Seq(Values) /\ Len(t) = n /\ t # <<>>
        /\ \A i \in 1..n : t[i] = IF i = at THEN dense[n] ELSE dense[i]
    BY <1>2, <1>3 DEF TypeOK
  <2> HIDE DEF t, at, n
  <2>3. /\ Front(t) \in Seq(Values) /\ Len(Front(t)) = n - 1
        /\ \A i \in 1..(n - 1) : Front(t)[i] = t[i]
    BY <2>2, FrontFacts
  <2>4. QED
    BY <1>2, <2>1, <2>2, <2>3
<1>5. /\ entities' \in Seq(Ids) /\ Len(entities') = n - 1
      /\ \A i \in 1..(n - 1) : entities'[i] = IF i = at THEN last ELSE entities[i]
  <2> DEFINE t == [entities EXCEPT ![at] = last]
  <2>1. entities' = Front(t)
    BY DEF remove
  <2>2. /\ t \in Seq(Ids) /\ Len(t) = n /\ t # <<>>
        /\ \A i \in 1..n : t[i] = IF i = at THEN last ELSE entities[i]
    BY <1>2 DEF TypeOK
  <2> HIDE DEF t, at, last, n
  <2>3. /\ Front(t) \in Seq(Ids) /\ Len(Front(t)) = n - 1
        /\ \A i \in 1..(n - 1) : Front(t)[i] = t[i]
    BY <2>2, FrontFacts
  <2>4. QED
    BY <1>2, <2>1, <2>2, <2>3
<1>6. /\ sparse' \in Seq(Nat) /\ Len(sparse') = Len(sparse)
      /\ \A i \in 1..Len(sparse) :
           sparse'[i] = IF i = id THEN None ELSE IF i = last THEN at ELSE sparse[i]
  BY <1>2 DEF remove, TypeOK, None
<1> HIDE DEF at, last, n
<1>7. TypeOK'
  BY <1>4, <1>5, <1>6 DEF TypeOK
<1>8. last = id <=> at = n
  BY <1>2 DEF at, last, n
<1>9. \A i \in DOMAIN sparse : sparse[i] # None =>
        sparse[i] \in 1..n /\ entities[sparse[i]] = i
  BY <1>2 DEF Packed, TypeOK
<1>10. \A j \in 1..n : entities[j] \in 1..Len(sparse) /\ sparse[entities[j]] = j
  BY <1>2 DEF Packed, TypeOK
<1>11. Packed'
  <2>1. ASSUME NEW i \in DOMAIN sparse', sparse'[i] # None
        PROVE  sparse'[i] \in DOMAIN entities' /\ entities'[sparse'[i]] = i
    <3>1. i \in 1..Len(sparse) /\ i # id
      BY <1>6, <2>1 DEF TypeOK
    <3>2. CASE i = last
      <4>1. sparse'[i] = at
        BY <1>6, <3>1, <3>2
      <4>2. at \in 1..(n - 1)
        BY <1>2, <1>8, <3>1, <3>2
      <4>3. QED
        BY <1>2, <1>5, <3>2, <4>1, <4>2
    <3>3. CASE i # last
      <4>1. sparse'[i] = sparse[i] /\ sparse[i] \in 1..n /\ entities[sparse[i]] = i
        BY <1>6, <1>9, <2>1, <3>1, <3>3 DEF TypeOK
      <4>2. sparse[i] # at /\ sparse[i] # n
        BY <1>2, <3>1, <3>3, <4>1 DEF at, last, n
      <4>3. QED
        BY <1>2, <1>5, <4>1, <4>2
    <3>4. QED
      BY <3>2, <3>3
  <2>2. ASSUME NEW j \in DOMAIN entities'
        PROVE  entities'[j] \in DOMAIN sparse' /\ sparse'[entities'[j]] = j
    <3>1. j \in 1..(n - 1)
      BY <1>5, <2>2
    <3>2. CASE j = at
      BY <1>2, <1>5, <1>6, <1>8, <3>1, <3>2
    <3>3. CASE j # at
      <4>1. entities'[j] = entities[j]
        BY <1>5, <3>1, <3>3
      <4>2. entities[j] # id /\ entities[j] # last
        BY <1>2, <1>10, <3>1, <3>3 DEF at, last, n
      <4>3. QED
        BY <1>2, <1>6, <1>10, <3>1, <4>1, <4>2
    <3>4. QED
      BY <3>2, <3>3
  <2>3. QED
    BY <1>4, <1>5, <2>1, <2>2 DEF Packed
<1>12. \A i \in Ids : contains(i)' <=> contains(i) /\ i # id
  <2> SUFFICES ASSUME NEW i \in Ids PROVE contains(i)' <=> contains(i) /\ i # id
    OBVIOUS
  <2>1. DOMAIN sparse' = DOMAIN sparse /\ DOMAIN sparse = 1..Len(sparse)
    BY <1>6 DEF TypeOK
  <2>2. sparse[last] # None /\ at # None
    BY <1>2 DEF None
  <2>3. QED
    BY <1>2, <1>6, <2>1, <2>2 DEF contains
<1>13. ASSUME NEW i \in Ids, contains(i), i # id
       PROVE  dense'[sparse'[i]] = dense[sparse[i]]
  <2>1. i \in 1..Len(sparse) /\ sparse[i] \in 1..n /\ entities[sparse[i]] = i
    BY <1>9, <1>13 DEF contains, TypeOK
  <2>2. CASE i = last
    BY <1>2, <1>4, <1>6, <1>8, <1>13, <2>1, <2>2
  <2>3. CASE i # last
    <3>1. sparse[i] # at /\ sparse[i] # n
      BY <1>2, <1>13, <2>1, <2>3 DEF at, last, n
    <3>2. QED
      <4>1. sparse'[i] = sparse[i]
        BY <1>6, <1>13, <2>1, <2>3
      <4>2. sparse[i] \in 1..(n - 1)
        BY <1>2, <2>1, <3>1
      <4>3. QED
        BY <1>4, <3>1, <4>1, <4>2
  <2>4. QED
    BY <2>2, <2>3
<1>14. QED
  BY <1>7, <1>11, <1>12, <1>13

\* However components are added, written and removed, the pool stays packed
\* and its two index vectors agree.
THEOREM PoolPacked == PoolSpec => [](TypeOK /\ Packed)
<1>1. TypeOK /\ Packed /\ [PoolNext]_poolVars => (TypeOK /\ Packed)'
  <2>1. TypeOK /\ Packed /\ PoolNext => (TypeOK /\ Packed)'
    BY AccessKeeps, WriteKeeps, RemoveKeeps DEF PoolNext
  <2>2. TypeOK /\ Packed /\ UNCHANGED poolVars => (TypeOK /\ Packed)'
    BY DEF poolVars, TypeOK, Packed
  <2>3. QED
    BY <2>1, <2>2
<1>2. QED
  BY InitInv, <1>1, PTL DEF PoolSpec

\* The pool implements the map: what find returns for an entity is what was
\* last written to it, wherever its component has moved to in between.
THEOREM PoolImplementsMap == PoolSpec => ImplementsMap
<1> DEFINE has == {i \in Ids : contains(i)}
           cur == [id \in has |-> dense[sparse[id]]]
<1>1. PoolInit => Map!Init
  BY DEF PoolInit, Map!Init, contains
<1>2. TypeOK /\ Packed /\ [PoolNext]_poolVars => [Map!Next]_cur
  <2> SUFFICES ASSUME TypeOK, Packed, [PoolNext]_poolVars PROVE Map!Next \/ cur' = cur
    OBVIOUS
  <2>1. ASSUME NEW id \in Ids, Access(id) PROVE Map!Add(id)
    <3>1. has' = has \cup {id} /\ id \notin has
      BY <2>1, AccessKeeps DEF Access
    <3>2. \A i \in has' : cur'[i] = IF i \in has THEN cur[i] ELSE Default
      BY <2>1, <3>1, AccessKeeps
    <3>3. cur' = [i \in has' |-> IF i \in has THEN cur[i] ELSE Default]
      BY <3>2
    <3>4. QED
      BY <3>1, <3>3 DEF Map!Add
  <2>2. ASSUME NEW id \in Ids, NEW v \in Values, Write(id, v) PROVE Map!Write(id, v)
    <3>1. has' = has /\ id \in has
      BY <2>2, WriteKeeps DEF Write
    <3>2. \A i \in has : cur'[i] = IF i = id THEN v ELSE cur[i]
      BY <2>2, <3>1, WriteKeeps
    <3>3. cur' = [cur EXCEPT ![id] = v]
      BY <3>1, <3>2
    <3>4. QED
      BY <3>1, <3>3 DEF Map!Write
  <2>3. ASSUME NEW id \in Ids, remove(id) PROVE Map!Remove(id)
    <3>1. has' = has \ {id}
      BY <2>3, RemoveKeeps
    <3>2. \A i \in has' : cur'[i] = cur[i]
      BY <2>3, <3>1, RemoveKeeps
    <3>3. cur' = [i \in has \ {id} |-> cur[i]]
      BY <3>1, <3>2
    <3>4. QED
      BY <3>3 DEF Map!Remove
  <2>4. CASE UNCHANGED poolVars
    BY <2>4 DEF poolVars, contains
  <2>5. QED
    BY <2>1, <2>2, <2>3, <2>4 DEF PoolNext, Map!Next
<1>3. QED
  BY <1>1, <1>2, PoolPacked, PTL DEF PoolSpec, ImplementsMap, Map!Spec

-----------------------------------------------------------------------------
(* Induction over the naturals, from a least counterexample *)

\* Every set of naturals that is not empty has a least element.
LEMMA Least == ASSUME NEW T \in SUBSET Nat, T # {} PROVE \E m \in T : \A k \in T : m <= k
<1>1. PICK R : IsWellFoundedOn(R, Nat) /\ (\A j, k \in Nat : (<<j, k>> \in R) <=> (j < k))
  <2>1. \A j, k \in Nat : <<j, k>> \in OpToRel(<, Nat) <=> j < k
    BY DEF OpToRel
  <2> QED BY <2>1, NatLessThanWellFounded
<1>a. IsWellFoundedOn(R, Nat)
  BY <1>1
<1>b. T \subseteq Nat
  OBVIOUS
<1>2. \E m \in T : \A k \in T : ~(<<k, m>> \in R)
  BY <1>a, <1>b, WFMin, Zenon
<1>3. PICK m \in T : \A k \in T : ~(<<k, m>> \in R)
  BY <1>2
<1>4. \A k \in T : m <= k
  <2> TAKE k \in T
  <2>1. k \in Nat /\ m \in Nat
    BY <1>b
  <2>2. ~(k < m)
    BY <1>1, <1>3, <2>1
  <2> QED BY <2>1, <2>2
<1> QED BY <1>4

\* What is true of 0 and of every successor of what it is true of.
LEMMA Induct ==
  ASSUME NEW T \in SUBSET Nat, NEW m \in Nat, \A n \in 0..m : (\A k \in 0..n-1 : k \in T) => n \in T
  PROVE  0..m \subseteq T
<1> SUFFICES ASSUME ~(0..m \subseteq T) PROVE FALSE
  OBVIOUS
<1> DEFINE out == (0..m) \ T
<1>1. out \in SUBSET Nat /\ out # {}
  OBVIOUS
<1>2. PICK n \in out : \A k \in out : n <= k
  <2> HIDE DEF out
  <2> QED BY <1>1, Least
<1>3. \A k \in 0..n-1 : k \in T
  BY <1>2
<1> QED BY <1>2, <1>3

\* The first N iterates of H from v0.
Iteration(f, V, v0, H, N) ==
  f \in [0..N -> V] /\ f[0] = v0 /\ \A n \in 1..N : f[n] = H[f[n-1]]

LEMMA Iterates ==
  ASSUME NEW V, NEW v0 \in V, NEW H \in [V -> V], NEW N \in Nat
  PROVE  \E f : Iteration(f, V, v0, H, N)
<1> DEFINE Good(m, f) == Iteration(f, V, v0, H, m)
           T == {m \in Nat : \E f : Good(m, f)}
<1>1. \A n \in 0..N : (\A k \in 0..n-1 : k \in T) => n \in T
  <2> SUFFICES ASSUME NEW n \in 0..N, \A k \in 0..n-1 : k \in T PROVE \E f : Good(n, f)
    OBVIOUS
  <2>1. CASE n = 0
    <3>1. Good(0, [i \in 0..0 |-> v0])
      BY DEF Iteration
    <3> QED BY <2>1, <3>1
  <2>2. CASE n > 0
    <3>1. n - 1 \in 0..n-1 /\ n-1 \in Nat
      BY <2>2
    <3>2. PICK f : Good(n-1, f)
      BY <3>1
    <3> DEFINE g == [i \in 0..n |-> IF i = n THEN H[f[n-1]] ELSE f[i]]
    <3>3. f[n-1] \in V
      BY <3>1, <3>2 DEF Iteration
    <3>4. g \in [0..n -> V]
      BY <3>1, <3>2, <3>3 DEF Iteration
    <3>5. g[0] = v0
      BY <2>2, <3>2 DEF Iteration
    <3>6. \A i \in 1..n : g[i] = H[g[i-1]]
      BY <2>2, <3>2 DEF Iteration
    <3> QED BY <3>4, <3>5, <3>6 DEF Iteration
  <2> QED BY <2>1, <2>2
<1>2. T \in SUBSET Nat
  OBVIOUS
<1> HIDE DEF T
<1>3. N \in T
  BY <1>1, <1>2, Induct
<1> QED BY <1>3 DEF T, Iteration

\* How the links are typed.
LinksTyped ==
  /\ parent \in [Ids -> Ids \cup {None}] /\ firstChild \in [Ids -> Ids \cup {None}]
  /\ nextSibling \in [Ids -> Ids \cup {None}]

\* The definition of Above has a solution, so Above is one.
LEMMA AboveIs ==
  ASSUME LinksTyped
  PROVE  /\ \A e \in Ids \cup {None} : Above[0][e] = {}
         /\ \A n \in 1..MaxId : \A e \in Ids \cup {None} :
              Above[n][e] = IF e = None THEN {} ELSE {e} \cup Above[n-1][parent[e]]
<1> DEFINE S == Ids \cup {None}
           V == [S -> SUBSET Ids]
           step(v) == [e \in S |-> IF e = None THEN {} ELSE {e} \cup v[parent[e]]]
           H == [v \in V |-> step(v)]
           v0 == [e \in S |-> {}]
           Eq(f) == f = [n \in 0..MaxId |-> [e \in S |-> IF n = 0 \/ e = None THEN {} ELSE {e} \cup f[n-1][parent[e]]]]
<1>1. v0 \in V /\ H \in [V -> V]
  BY DEF LinksTyped
<1>2. PICK f \in [0..MaxId -> V] : f[0] = v0 /\ \A n \in 1..MaxId : f[n] = H[f[n-1]]
  <2>1. MaxId \in Nat
    BY EntitiesAssumption
  <2> HIDE DEF V, H, v0
  <2>2. PICK f : Iteration(f, V, v0, H, MaxId)
    BY <1>1, <2>1, Iterates
  <2> QED BY <2>2 DEF Iteration
<1>3. Eq(f)
  <2>1. ASSUME NEW n \in 0..MaxId
        PROVE  f[n] = [e \in S |-> IF n = 0 \/ e = None THEN {} ELSE {e} \cup f[n-1][parent[e]]]
    <3>1. CASE n = 0
      BY <1>2, <3>1
    <3>2. CASE n # 0
      <4>0. n \in 1..MaxId /\ n-1 \in 0..MaxId
        BY <3>2, EntitiesAssumption
      <4>1. n \in 1..MaxId /\ n-1 \in 0..MaxId /\ f[n-1] \in V
        <5> HIDE DEF V
        <5> QED BY <1>2, <4>0
      <4>2. f[n] = step(f[n-1])
        BY <1>2, <4>1
      <4> QED BY <3>2, <4>2
    <3> QED BY <3>1, <3>2
  <2> HIDE DEF V
  <2> QED BY <2>1
<1>4. Eq(Above)
  <2>1. Above = CHOOSE g : Eq(g)
    BY DEF Above
  <2> HIDE DEF Eq
  <2> QED BY <1>3, <2>1
<1>5. PICK A : A = Above
  OBVIOUS
<1>6. Eq(A)
  <2> HIDE DEF Eq
  <2> QED BY <1>4, <1>5
<1>7. ASSUME NEW n \in 0..MaxId, NEW e \in S
      PROVE  A[n][e] = IF n = 0 \/ e = None THEN {} ELSE {e} \cup A[n-1][parent[e]]
  <2>1. PICK B : B = A[n-1]
    OBVIOUS
  <2>2. A[n] = [x \in S |-> IF n = 0 \/ x = None THEN {} ELSE {x} \cup A[n-1][parent[x]]]
    BY <1>6, Zenon
  <2>3. A[n] = [x \in S |-> IF n = 0 \/ x = None THEN {} ELSE {x} \cup B[parent[x]]]
    BY <2>1, <2>2
  <2>4. A[n][e] = IF n = 0 \/ e = None THEN {} ELSE {e} \cup B[parent[e]]
    BY <2>3
  <2> QED BY <2>1, <2>4
<1> HIDE DEF S, Eq
<1>8. \A n \in 0..MaxId : \A e \in S :
        A[n][e] = IF n = 0 \/ e = None THEN {} ELSE {e} \cup A[n-1][parent[e]]
  BY <1>7
<1>9. /\ \A e \in S : A[0][e] = {}
      /\ \A n \in 1..MaxId : \A e \in S :
              A[n][e] = IF e = None THEN {} ELSE {e} \cup A[n-1][parent[e]]
  <2>1. 0 \in 0..MaxId /\ \A n \in 1..MaxId : n \in 0..MaxId /\ n # 0
    BY EntitiesAssumption
  <2>2. \A e \in S : A[0][e] = {}
    BY <1>8, <2>1
  <2>3. ASSUME NEW n \in 1..MaxId, NEW e \in S
        PROVE  A[n][e] = IF e = None THEN {} ELSE {e} \cup A[n-1][parent[e]]
    BY <1>8, <2>1
  <2> QED BY <2>2, <2>3
<1> QED BY <1>5, <1>9 DEF S

\* So has that of Siblings.
LEMMA SiblingsAre ==
  ASSUME LinksTyped
  PROVE  /\ \A n \in 0..MaxId + 1 : Siblings[n][None] = <<>>
         /\ \A n \in 1..MaxId + 1 : \A e \in Ids :
              Siblings[n][e] = <<e>> \o Siblings[n-1][nextSibling[e]]
<1> DEFINE S == Ids \cup {None}
           V == [S -> Seq(Ids)]
           step(v) == [e \in S |-> IF e = None THEN <<>> ELSE <<e>> \o v[nextSibling[e]]]
           H == [v \in V |-> step(v)]
           v0 == [e \in S |-> <<>>]
           Eq(f) == f = [n \in 0..MaxId + 1 |-> [e \in S |-> IF n = 0 \/ e = None THEN <<>> ELSE <<e>> \o f[n-1][nextSibling[e]]]]
<1>1. v0 \in V /\ H \in [V -> V]
  BY DEF LinksTyped
<1>2. PICK f \in [0..MaxId + 1 -> V] : f[0] = v0 /\ \A n \in 1..MaxId + 1 : f[n] = H[f[n-1]]
  <2>1. MaxId + 1 \in Nat
    BY EntitiesAssumption
  <2> HIDE DEF V, H, v0
  <2>2. PICK f : Iteration(f, V, v0, H, MaxId + 1)
    BY <1>1, <2>1, Iterates
  <2> QED BY <2>2 DEF Iteration
<1>3. Eq(f)
  <2>1. ASSUME NEW n \in 0..MaxId + 1
        PROVE  f[n] = [e \in S |-> IF n = 0 \/ e = None THEN <<>> ELSE <<e>> \o f[n-1][nextSibling[e]]]
    <3>1. CASE n = 0
      BY <1>2, <3>1
    <3>2. CASE n # 0
      <4>0. n \in 1..MaxId + 1 /\ n-1 \in 0..MaxId + 1
        BY <3>2, EntitiesAssumption
      <4>1. n \in 1..MaxId + 1 /\ n-1 \in 0..MaxId + 1 /\ f[n-1] \in V
        <5> HIDE DEF V
        <5> QED BY <1>2, <4>0
      <4>2. f[n] = step(f[n-1])
        BY <1>2, <4>1
      <4> QED BY <3>2, <4>2
    <3> QED BY <3>1, <3>2
  <2> HIDE DEF V
  <2> QED BY <2>1
<1>4. Eq(Siblings)
  <2>1. Siblings = CHOOSE g : Eq(g)
    BY DEF Siblings
  <2> HIDE DEF Eq
  <2> QED BY <1>3, <2>1
<1>5. PICK A : A = Siblings
  OBVIOUS
<1>6. Eq(A)
  <2> HIDE DEF Eq
  <2> QED BY <1>4, <1>5
<1>7. ASSUME NEW n \in 0..MaxId + 1, NEW e \in S
      PROVE  A[n][e] = IF n = 0 \/ e = None THEN <<>> ELSE <<e>> \o A[n-1][nextSibling[e]]
  <2>1. PICK B : B = A[n-1]
    OBVIOUS
  <2>2. A[n] = [x \in S |-> IF n = 0 \/ x = None THEN <<>> ELSE <<x>> \o A[n-1][nextSibling[x]]]
    BY <1>6, Zenon
  <2>3. A[n] = [x \in S |-> IF n = 0 \/ x = None THEN <<>> ELSE <<x>> \o B[nextSibling[x]]]
    BY <2>1, <2>2
  <2>4. A[n][e] = IF n = 0 \/ e = None THEN <<>> ELSE <<e>> \o B[nextSibling[e]]
    BY <2>3
  <2> QED BY <2>1, <2>4
<1>8. \A n \in 1..MaxId + 1 : n \in 0..MaxId + 1 /\ n # 0
  BY EntitiesAssumption
<1>9. \A e \in Ids : e # None
  BY DEF Ids, None
<1> HIDE DEF Eq
<1> QED BY <1>5, <1>7, <1>8, <1>9

-----------------------------------------------------------------------------
(* The lists of children *)

\* Each entity's children in the order of their links.
KidsInv(kids) ==
  /\ kids \in [Ids -> Seq(Ids)]
  /\ \A p \in Ids : \A i, j \in 1..Len(kids[p]) : kids[p][i] = kids[p][j] => i = j
  /\ \A p \in Ids : \A i \in 1..Len(kids[p]) : parent[kids[p][i]] = p
  /\ \A c \in Ids : parent[c] # None => \E i \in 1..Len(kids[parent[c]]) : kids[parent[c]][i] = c
  /\ \A p \in Ids : firstChild[p] = IF Len(kids[p]) = 0 THEN None ELSE kids[p][1]
  /\ \A p \in Ids : \A i \in 1..Len(kids[p]) :
       nextSibling[kids[p][i]] = IF i = Len(kids[p]) THEN None ELSE kids[p][i + 1]
  /\ \A c \in Ids : parent[c] = None => nextSibling[c] = None

\* The lists depend on the links alone.
LEMMA SameKids ==
  ASSUME NEW kids, KidsInv(kids), UNCHANGED <<parent, firstChild, nextSibling>>
  PROVE  KidsInv(kids)'
<1>1. parent' = parent /\ firstChild' = firstChild /\ nextSibling' = nextSibling
  OBVIOUS
<1>2. /\ kids \in [Ids -> Seq(Ids)]
      /\ \A p \in Ids : \A i, j \in 1..Len(kids[p]) : kids[p][i] = kids[p][j] => i = j
  BY DEF KidsInv
<1>3. \A p \in Ids : \A i \in 1..Len(kids[p]) : parent'[kids[p][i]] = p
  BY <1>1 DEF KidsInv
<1>4. \A c \in Ids : parent'[c] # None => \E i \in 1..Len(kids[parent'[c]]) : kids[parent'[c]][i] = c
  BY <1>1 DEF KidsInv
<1>5. \A p \in Ids : firstChild'[p] = IF Len(kids[p]) = 0 THEN None ELSE kids[p][1]
  BY <1>1 DEF KidsInv
<1>6. \A p \in Ids : \A i \in 1..Len(kids[p]) :
        nextSibling'[kids[p][i]] = IF i = Len(kids[p]) THEN None ELSE kids[p][i + 1]
  <2>1. \A p \in Ids : \A i \in 1..Len(kids[p]) :
          nextSibling[kids[p][i]] = IF i = Len(kids[p]) THEN None ELSE kids[p][i + 1]
    BY DEF KidsInv
  <2> QED BY <1>1, <2>1
<1>7. \A c \in Ids : parent'[c] = None => nextSibling'[c] = None
  BY <1>1 DEF KidsInv
<1> QED BY <1>2, <1>3, <1>4, <1>5, <1>6, <1>7 DEF KidsInv

\* There are finitely many ids.
LEMMA IdsAre == None \notin Ids /\ IsFiniteSet(Ids) /\ Cardinality(Ids) = MaxId /\ MaxId \in Nat
BY FS_Interval, EntitiesAssumption DEF Ids, None

\* No list is longer than there are entities.
LEMMA FewKids ==
  ASSUME NEW kids, KidsInv(kids), NEW p \in Ids
  PROVE  Len(kids[p]) \in 0..MaxId
<1>1. kids[p] \in Seq(Ids) /\ Len(kids[p]) \in Nat
  BY DEF KidsInv
<1> DEFINE n == Len(kids[p])
           D == 1..n
<1>2. IsFiniteSet(D) /\ Cardinality(D) = n
  BY <1>1, FS_Interval
<1>3. kids[p] \in [D -> Ids]
  BY <1>1
<1>4. \A i, j \in D : kids[p][i] = kids[p][j] => i = j
  BY DEF KidsInv
<1>5. Cardinality(D) <= Cardinality(Ids)
  <2> HIDE DEF D, n
  <2>1. kids[p] \in Injection(D, Ids)
    BY <1>3, <1>4 DEF Injection, IsInjective
  <2> QED BY <1>2, <2>1, IdsAre, FS_Injection
<1> QED BY <1>1, <1>2, <1>5, IdsAre

\* The walk along nextSibling finds that list.
LEMMA ChildrenAre ==
  ASSUME LinksTyped, NEW kids, KidsInv(kids), NEW p \in Ids
  PROVE  Children(p) = kids[p]
<1> DEFINE s == kids[p]
           len == Len(s)
           Found(n) == \A i \in 1..len : len - i < n => Siblings[n][s[i]] = SubSeq(s, i, len)
           T == {n \in Nat : n <= MaxId + 1 => Found(n)}
<1>1. /\ s \in Seq(Ids) /\ len \in 0..MaxId /\ len \in Nat
      /\ \A i \in 1..len : s[i] \in Ids
  <2>1. s \in Seq(Ids)
    BY DEF KidsInv
  <2>2. len \in 0..MaxId /\ len \in Nat
    BY FewKids, IdsAre
  <2> QED BY <2>1, <2>2
<1>2. /\ firstChild[p] = IF len = 0 THEN None ELSE s[1]
      /\ \A i \in 1..len : nextSibling[s[i]] = IF i = len THEN None ELSE s[i + 1]
  BY DEF KidsInv
<1>3. ASSUME NEW n \in 0..MaxId + 1, n > 0 => Found(n - 1) PROVE Found(n)
  <2> SUFFICES ASSUME NEW i \in 1..len, len - i < n PROVE Siblings[n][s[i]] = SubSeq(s, i, len)
    OBVIOUS
  <2> HIDE DEF s
  <2>1. n \in 1..MaxId + 1 /\ n - 1 \in 0..MaxId + 1 /\ n > 0
    BY <1>1, IdsAre
  <2>2. Siblings[n][s[i]] = <<s[i]>> \o Siblings[n - 1][nextSibling[s[i]]]
    BY <1>1, <2>1, SiblingsAre
  <2>3. CASE i = len
    <3>1. nextSibling[s[i]] = None
      BY <1>2, <2>3
    <3>2. Siblings[n - 1][None] = <<>>
      BY <2>1, SiblingsAre
    <3>3. SubSeq(s, i, len) = <<s[i]>>
      <4>1. len \in i..len /\ i \in 1..Len(s) /\ len \in i..Len(s)
        BY <1>1, <2>3
      <4>2. SubSeq(s, i, len) = <<s[i]>> \o SubSeq(s, i + 1, len)
        BY <1>1, <4>1, SubSeqRecursiveFirst
      <4>3. SubSeq(s, i + 1, len) = <<>>
        BY <1>1, <2>3, SubSeqEmpty
      <4>4. <<s[i]>> \o <<>> = <<s[i]>>
        BY <1>1
      <4> QED BY <4>2, <4>3, <4>4
    <3> QED BY <1>1, <2>2, <3>1, <3>2, <3>3
  <2>4. CASE i # len
    <3>1. i + 1 \in 1..len /\ nextSibling[s[i]] = s[i + 1] /\ len - (i + 1) < n - 1
      BY <1>1, <1>2, <2>4
    <3>2. Siblings[n - 1][s[i + 1]] = SubSeq(s, i + 1, len)
      BY <1>3, <2>1, <3>1
    <3>3. len \in i..len
      BY <1>1
    <3>4. SubSeq(s, i, len) = <<s[i]>> \o SubSeq(s, i + 1, len)
      BY <1>1, <3>3, SubSeqRecursiveFirst
    <3> QED BY <2>2, <3>1, <3>2, <3>4
  <2> QED BY <2>3, <2>4
<1>4. \A n \in 0..MaxId + 1 : (\A k \in 0..n-1 : k \in T) => n \in T
  <2> SUFFICES ASSUME NEW n \in 0..MaxId + 1, \A k \in 0..n-1 : k \in T PROVE n \in T
    OBVIOUS
  <2> HIDE DEF Found
  <2>1. n > 0 => Found(n - 1)
    <3>1. n > 0 => n - 1 \in 0..n-1 /\ n - 1 <= MaxId + 1
      BY IdsAre
    <3> QED BY <3>1
  <2> QED BY <1>3, <2>1
<1>5. Found(MaxId + 1)
  <2>1. T \in SUBSET Nat /\ MaxId + 1 \in Nat /\ MaxId + 1 \in 0..MaxId + 1
    BY IdsAre
  <2>2. MaxId + 1 \in T
    <3> HIDE DEF T
    <3> QED BY <1>4, <2>1, Induct
  <2> QED BY <2>2, IdsAre
<1> HIDE DEF T
<1>6. CASE len = 0
  <2>1. Children(p) = <<>>
    BY <1>2, <1>6, SiblingsAre, IdsAre DEF Children
  <2>2. s = <<>>
    BY <1>1, <1>6
  <2> QED BY <2>1, <2>2
<1>7. CASE len # 0
  <2>1. 1 \in 1..len /\ len - 1 < MaxId + 1
    BY <1>1, <1>7, IdsAre
  <2>2. Siblings[MaxId + 1][s[1]] = SubSeq(s, 1, len)
    BY <1>5, <2>1
  <2>3. SubSeq(s, 1, len) = s
    BY <1>1, SubSeqFull
  <2> QED BY <1>2, <1>7, <2>2, <2>3 DEF Children
<1> QED BY <1>6, <1>7

-----------------------------------------------------------------------------
(* The entities above each *)

\* up[e] holds e and all above it: those above a root are itself alone, nobody is
\* above itself, and going up ends at a root.
UpInv(up) ==
  /\ up \in [Ids -> SUBSET Ids]
  /\ \A e \in Ids : parent[e] = None => up[e] = {e}
  /\ \A e \in Ids : parent[e] # None => up[e] = {e} \cup up[parent[e]] /\ e \notin up[parent[e]]
  /\ \A e \in Ids : \A x \in up[e] : up[x] \subseteq up[e]
  /\ \A e \in Ids : \E r \in up[e] : parent[r] = None
  /\ \A e \in Ids : \A x \in up[e] \ {e} : \E c \in up[e] : parent[c] = x

\* The walk along parent finds them.
LEMMA AncestorsAre ==
  ASSUME LinksTyped, NEW up, UpInv(up)
  PROVE  \A a, e \in Ids : IsAncestor(a, e) <=> a \in up[e]
<1> DEFINE Found(n) == \A e \in Ids : Cardinality(up[e]) <= n => Above[n][e] = up[e]
           T == {n \in Nat : n <= MaxId => Found(n)}
<1>1. ASSUME NEW e \in Ids
      PROVE  /\ e \in up[e] /\ up[e] \subseteq Ids /\ IsFiniteSet(up[e])
             /\ Cardinality(up[e]) \in 1..MaxId
  <2>1. e \in up[e] /\ up[e] \subseteq Ids
    BY DEF UpInv, LinksTyped
  <2>2. IsFiniteSet(up[e]) /\ Cardinality(up[e]) <= MaxId
    BY <2>1, IdsAre, FS_Subset
  <2>3. Cardinality(up[e]) \in Nat /\ Cardinality(up[e]) # 0
    BY <2>1, <2>2, FS_CardinalityType, FS_EmptySet
  <2> QED BY <2>1, <2>2, <2>3, IdsAre
<1>2. ASSUME NEW n \in 0..MaxId, n > 0 => Found(n - 1) PROVE Found(n)
  <2> SUFFICES ASSUME NEW e \in Ids, Cardinality(up[e]) <= n PROVE Above[n][e] = up[e]
    OBVIOUS
  <2>1. n \in 1..MaxId /\ n > 0 /\ n - 1 \in 0..MaxId
    BY <1>1, IdsAre
  <2>2. Above[n][e] = {e} \cup Above[n - 1][parent[e]]
    BY <2>1, AboveIs, IdsAre
  <2>3. CASE parent[e] = None
    <3>1. Above[n - 1][None] = {}
      <4>1. CASE n - 1 = 0
        BY <4>1, AboveIs
      <4>2. CASE n - 1 # 0
        <5>1. n - 1 \in 1..MaxId
          BY <2>1, <4>2, IdsAre
        <5> QED BY <5>1, AboveIs
      <4> QED BY <4>1, <4>2
    <3>2. up[e] = {e}
      BY <2>3 DEF UpInv
    <3> QED BY <2>2, <2>3, <3>1, <3>2
  <2>4. CASE parent[e] # None
    <3>1. parent[e] \in Ids
      BY <2>4 DEF LinksTyped
    <3>2. up[e] = up[parent[e]] \cup {e} /\ e \notin up[parent[e]]
      BY <2>4 DEF UpInv
    <3>3. Cardinality(up[e]) = Cardinality(up[parent[e]]) + 1
      BY <1>1, <3>1, <3>2, FS_AddElement
    <3>4. Cardinality(up[parent[e]]) <= n - 1
      BY <1>1, <2>1, <3>1, <3>3
    <3>5. Above[n - 1][parent[e]] = up[parent[e]]
      BY <1>2, <2>1, <3>1, <3>4
    <3> QED BY <2>2, <3>2, <3>5
  <2> QED BY <2>3, <2>4
<1>3. \A n \in 0..MaxId : (\A k \in 0..n-1 : k \in T) => n \in T
  <2> SUFFICES ASSUME NEW n \in 0..MaxId, \A k \in 0..n-1 : k \in T PROVE n \in T
    OBVIOUS
  <2> HIDE DEF Found
  <2>1. n > 0 => Found(n - 1)
    <3>1. n > 0 => n - 1 \in 0..n-1 /\ n - 1 <= MaxId
      BY IdsAre
    <3> QED BY <3>1
  <2> QED BY <1>2, <2>1
<1>4. Found(MaxId)
  <2>1. T \in SUBSET Nat /\ MaxId \in Nat /\ MaxId \in 0..MaxId
    BY IdsAre
  <2>2. MaxId \in T
    <3> HIDE DEF T
    <3> QED BY <1>3, <2>1, Induct
  <2> QED BY <2>2, IdsAre
<1>5. \A e \in Ids : Above[MaxId][e] = up[e]
  BY <1>1, <1>4, IdsAre
<1> QED BY <1>5 DEF IsAncestor

\* An entity without a parent that is put below another which is not below it: the
\* sets above the entities of its own tree grow by those above the other.
Raised(up, c, p) == [e \in Ids |-> IF c \in up[e] THEN up[e] \cup up[p] ELSE up[e]]

\* With those sets the entities above each are right again.
LEMMA Adopted ==
  ASSUME LinksTyped, NEW up, UpInv(up), NEW c \in Ids, NEW p \in Ids,
         parent[c] = None, c \notin up[p], parent' = [parent EXCEPT ![c] = p]
  PROVE  UpInv(Raised(up, c, p))'
<1> DEFINE u == Raised(up, c, p)
<1>0. ASSUME NEW e \in Ids
      PROVE  u[e] = IF c \in up[e] THEN up[e] \cup up[p] ELSE up[e]
  BY DEF Raised
<1>1. /\ parent'[c] = p /\ p # None /\ up[c] = {c} /\ up[p] \subseteq Ids
      /\ \A e \in Ids \ {c} : parent'[e] = parent[e]
      /\ \A e \in Ids : parent[e] # None => parent[e] \in Ids
      /\ \A e \in Ids : e \in up[e] /\ up[e] \subseteq Ids
  <2>1. parent'[c] = p /\ p # None /\ \A e \in Ids \ {c} : parent'[e] = parent[e]
    BY IdsAre DEF LinksTyped
  <2>2. \A e \in Ids : parent[e] # None => parent[e] \in Ids
    BY DEF LinksTyped
  <2>3. up[c] = {c} /\ \A e \in Ids : e \in up[e] /\ up[e] \subseteq Ids
    BY DEF UpInv
  <2> QED BY <2>1, <2>2, <2>3
<1>2. u[p] = up[p] /\ u[c] = {c} \cup up[p]
  BY <1>0, <1>1
<1>3. u \in [Ids -> SUBSET Ids]
  BY <1>1 DEF Raised, UpInv
<1>4. ASSUME NEW e \in Ids, parent'[e] = None PROVE u[e] = {e}
  <2>1. e # c /\ parent[e] = None
    BY <1>1, <1>4
  <2> QED BY <1>0, <2>1 DEF UpInv
<1>5. ASSUME NEW e \in Ids, parent'[e] # None
      PROVE  u[e] = {e} \cup u[parent'[e]] /\ e \notin u[parent'[e]]
  <2>1. CASE e = c
    BY <1>1, <1>2, <2>1
  <2>2. CASE e # c
    <3>1. parent'[e] = parent[e] /\ parent[e] # None /\ parent[e] \in Ids
      BY <1>1, <1>5, <2>2
    <3>2. up[e] = {e} \cup up[parent[e]] /\ e \notin up[parent[e]]
      BY <3>1 DEF UpInv
    <3>3. c \in up[e] <=> c \in up[parent[e]]
      BY <2>2, <3>2
    <3>4. c \in up[e] => e \notin up[p]
      BY <1>1 DEF UpInv
    <3> QED BY <1>0, <3>1, <3>2, <3>3, <3>4
  <2> QED BY <2>1, <2>2
<1>6. ASSUME NEW e \in Ids, NEW x \in u[e] PROVE u[x] \subseteq u[e]
  <2>1. \A y, z \in Ids : z \in up[y] => up[z] \subseteq up[y]
    BY DEF UpInv
  <2>2. x \in Ids
    BY <1>0, <1>1
  <2>3. CASE x \in up[e]
    <3>1. up[x] \subseteq up[e]
      BY <2>1, <2>2, <2>3
    <3> QED BY <1>0, <2>2, <3>1
  <2>4. CASE x \notin up[e]
    <3>1. x \in up[p] /\ c \in up[e]
      BY <1>0, <2>4
    <3>2. up[x] \subseteq up[p] /\ c \notin up[x]
      BY <2>1, <2>2, <3>1
    <3> QED BY <1>0, <2>2, <3>1, <3>2
  <2> QED BY <2>3, <2>4
<1>7. ASSUME NEW e \in Ids PROVE \E r \in u[e] : parent'[r] = None
  <2>1. PICK r \in up[e] : parent[r] = None
    BY DEF UpInv
  <2>2. CASE r # c
    BY <1>0, <1>1, <2>1, <2>2
  <2>3. CASE r = c
    <3>1. PICK s \in up[p] : parent[s] = None
      BY DEF UpInv
    <3>2. s # c /\ s \in u[e]
      BY <1>0, <2>1, <2>3
    <3> QED BY <1>1, <3>1, <3>2
  <2> QED BY <2>2, <2>3
<1>8. ASSUME NEW e \in Ids, NEW x \in u[e] \ {e} PROVE \E d \in u[e] : parent'[d] = x
  <2>1. \A y \in Ids : \A z \in up[y] \ {y} : \E d \in up[y] : parent[d] = z
    BY DEF UpInv
  <2>2. \A y \in Ids, d \in Ids : parent[d] = y => parent'[d] = y
    BY <1>1, IdsAre
  <2>3. x \in Ids
    BY <1>0, <1>1
  <2>4. CASE x \in up[e]
    <3>1. PICK d \in up[e] : parent[d] = x
      BY <2>1, <2>4
    <3>2. d \in Ids /\ d \in u[e]
      BY <1>0, <1>1
    <3> QED BY <2>2, <2>3, <3>1, <3>2
  <2>5. CASE x \notin up[e]
    <3>1. x \in up[p] /\ c \in up[e]
      BY <1>0, <2>5
    <3>2. CASE x = p
      BY <1>0, <1>1, <3>1, <3>2
    <3>3. CASE x # p
      <4>1. PICK d \in up[p] : parent[d] = x
        BY <2>1, <3>1, <3>3
      <4> QED BY <1>0, <1>1, <2>2, <2>3, <3>1, <4>1
    <3> QED BY <3>2, <3>3
  <2> QED BY <2>4, <2>5
<1> HIDE DEF u
<1>9. UpInv(u)'
  BY <1>3, <1>4, <1>5, <1>6, <1>7, <1>8 DEF UpInv
<1> QED BY <1>9 DEF u

\* A child that had no parent is linked in front of the others, or behind them.
LEMMA NewKid ==
  ASSUME LinksTyped, NEW kids, KidsInv(kids), NEW c \in Ids, parent[c] = None
  PROVE  /\ nextSibling[c] = None
         /\ \A q \in Ids : \A i \in 1..Len(kids[q]) : kids[q][i] \in Ids /\ kids[q][i] # c
         /\ \A q \in Ids : kids[q] \in Seq(Ids) /\ Len(kids[q]) \in Nat
<1>1. \A q \in Ids : kids[q] \in Seq(Ids)
  BY DEF KidsInv
<1>2. \A q \in Ids : Len(kids[q]) \in Nat /\ \A i \in 1..Len(kids[q]) : kids[q][i] \in Ids
  BY <1>1
<1>3. \A q \in Ids : \A i \in 1..Len(kids[q]) : kids[q][i] # c
  <2>1. \A q \in Ids : \A i \in 1..Len(kids[q]) : parent[kids[q][i]] = q
    BY DEF KidsInv
  <2> QED BY <2>1, IdsAre
<1>4. nextSibling[c] = None
  BY DEF KidsInv
<1> QED BY <1>1, <1>2, <1>3, <1>4

\* attachEntity puts a child in front of its parent's list.
LEMMA Prepended ==
  ASSUME LinksTyped, NEW kids, KidsInv(kids), NEW c \in Ids, NEW p \in Ids,
         parent[c] = None, attachEntity(c, p)
  PROVE  KidsInv([kids EXCEPT ![p] = <<c>> \o @])'
<1> DEFINE k == [kids EXCEPT ![p] = <<c>> \o @]
           old == kids[p]
           new == <<c>> \o old
<1>1. /\ nextSibling[c] = None
      /\ \A q \in Ids : \A i \in 1..Len(kids[q]) : kids[q][i] \in Ids /\ kids[q][i] # c
      /\ \A q \in Ids : kids[q] \in Seq(Ids) /\ Len(kids[q]) \in Nat
  BY NewKid
<1>2. /\ new \in Seq(Ids) /\ Len(new) = Len(old) + 1 /\ new[1] = c
      /\ \A i \in 2..Len(new) : i - 1 \in 1..Len(old) /\ new[i] = old[i - 1]
  BY <1>1
<1>3. k[p] = new /\ \A q \in Ids \ {p} : k[q] = kids[q]
  BY DEF KidsInv
<1>4. k \in [Ids -> Seq(Ids)]
  BY <1>1, <1>2 DEF KidsInv
<1>5. /\ parent'[c] = p /\ \A e \in Ids \ {c} : parent'[e] = parent[e]
      /\ firstChild'[p] = c /\ \A e \in Ids \ {p} : firstChild'[e] = firstChild[e]
  BY DEF attachEntity, LinksTyped
<1>6. /\ nextSibling'[c] = IF Len(old) = 0 THEN None ELSE old[1]
      /\ \A e \in Ids \ {c} : nextSibling'[e] = nextSibling[e]
  <2>1. firstChild[p] = IF Len(old) = 0 THEN None ELSE old[1]
    BY DEF KidsInv
  <2>2. Len(old) # 0 => old[1] # None
    BY <1>1, IdsAre
  <2> QED BY <1>1, <2>1, <2>2 DEF attachEntity, LinksTyped
<1> HIDE DEF k, new, old
<1>7. \A i \in 1..Len(new) : i = 1 \/ i \in 2..Len(new)
  BY <1>1, <1>2
<1>8. \A q \in Ids : \A i, j \in 1..Len(k[q]) : k[q][i] = k[q][j] => i = j
  <2> SUFFICES ASSUME NEW i \in 1..Len(new), NEW j \in 1..Len(new), new[i] = new[j] PROVE i = j
    BY <1>3 DEF KidsInv
  <2>1. CASE i = 1 \/ j = 1
    BY <1>1, <1>2, <1>7, <2>1 DEF old
  <2>2. CASE i # 1 /\ j # 1
    <3>1. i - 1 \in 1..Len(old) /\ j - 1 \in 1..Len(old) /\ old[i - 1] = old[j - 1]
      BY <1>2, <1>7, <2>2
    <3>2. i - 1 = j - 1
      BY <3>1 DEF KidsInv, old
    <3> QED BY <3>2
  <2> QED BY <2>1, <2>2
<1>9. \A q \in Ids : \A i \in 1..Len(k[q]) : parent'[k[q][i]] = q
  <2>1. ASSUME NEW q \in Ids, NEW i \in 1..Len(kids[q]) PROVE parent'[kids[q][i]] = q
    <3>1. parent[kids[q][i]] = q
      BY DEF KidsInv
    <3> QED BY <1>1, <1>5, <3>1
  <2>2. ASSUME NEW i \in 1..Len(new) PROVE parent'[new[i]] = p
    BY <1>2, <1>5, <1>7, <2>1 DEF old
  <2> QED BY <1>3, <2>1, <2>2
<1>10. \A e \in Ids : parent'[e] # None => \E i \in 1..Len(k[parent'[e]]) : k[parent'[e]][i] = e
  <2> SUFFICES ASSUME NEW e \in Ids, parent'[e] # None
               PROVE  \E i \in 1..Len(k[parent'[e]]) : k[parent'[e]][i] = e
    OBVIOUS
  <2>1. CASE e = c
    <3>1. 1 \in 1..Len(new)
      BY <1>1, <1>2 DEF old
    <3> QED BY <1>2, <1>3, <1>5, <2>1, <3>1
  <2>2. CASE e # c
    <3>1. parent'[e] = parent[e] /\ parent[e] \in Ids
      BY <1>5, <2>2 DEF LinksTyped
    <3>2. PICK i \in 1..Len(kids[parent[e]]) : kids[parent[e]][i] = e
      BY <3>1 DEF KidsInv
    <3>3. CASE parent[e] # p
      BY <1>3, <3>1, <3>2, <3>3
    <3>4. CASE parent[e] = p
      <4>1. i + 1 \in 1..Len(new) /\ i + 1 \in 2..Len(new) /\ (i + 1) - 1 = i
        BY <1>1, <1>2, <3>2, <3>4 DEF old
      <4>2. new[i + 1] = e
        BY <1>2, <3>2, <3>4, <4>1 DEF old
      <4> QED BY <1>3, <3>1, <3>4, <4>1, <4>2
    <3> QED BY <3>3, <3>4
  <2> QED BY <2>1, <2>2
<1>11. \A q \in Ids : firstChild'[q] = IF Len(k[q]) = 0 THEN None ELSE k[q][1]
  <2>1. Len(new) # 0
    BY <1>1, <1>2 DEF old
  <2> QED BY <1>2, <1>3, <1>5, <2>1 DEF KidsInv
<1>12. \A q \in Ids : \A i \in 1..Len(k[q]) :
         nextSibling'[k[q][i]] = IF i = Len(k[q]) THEN None ELSE k[q][i + 1]
  <2>1. ASSUME NEW q \in Ids, NEW i \in 1..Len(kids[q])
        PROVE  nextSibling'[kids[q][i]] = IF i = Len(kids[q]) THEN None ELSE kids[q][i + 1]
    <3>1. \A x \in Ids : \A j \in 1..Len(kids[x]) :
            nextSibling[kids[x][j]] = IF j = Len(kids[x]) THEN None ELSE kids[x][j + 1]
      BY DEF KidsInv
    <3>2. nextSibling[kids[q][i]] = IF i = Len(kids[q]) THEN None ELSE kids[q][i + 1]
      BY <3>1
    <3> QED BY <1>1, <1>6, <3>2
  <2>2. ASSUME NEW i \in 1..Len(new)
        PROVE  nextSibling'[new[i]] = IF i = Len(new) THEN None ELSE new[i + 1]
    <3>0. Len(old) \in Nat /\ i \in Nat
      BY <1>1 DEF old
    <3>1. CASE i = 1
      <4>1. i = Len(new) <=> Len(old) = 0
        BY <1>2, <3>0, <3>1
      <4>2. Len(old) # 0 => new[2] = old[1]
        BY <1>2, <3>0
      <4> QED BY <1>2, <1>6, <3>1, <4>1, <4>2
    <3>2. CASE i # 1
      <4>1. i - 1 \in 1..Len(old) /\ new[i] = old[i - 1] /\ (i = Len(new) <=> i - 1 = Len(old))
        BY <1>2, <1>7, <3>0, <3>2
      <4>2. i # Len(new) => new[i + 1] = old[i]
        BY <1>2, <3>0, <3>2
      <4>3. nextSibling'[old[i - 1]] = IF i - 1 = Len(old) THEN None ELSE old[i]
        BY <2>1, <3>0, <4>1 DEF old
      <4> QED BY <4>1, <4>2, <4>3
    <3> QED BY <3>1, <3>2
  <2> QED BY <1>3, <2>1, <2>2
<1>13. \A e \in Ids : parent'[e] = None => nextSibling'[e] = None
  BY <1>5, <1>6, IdsAre DEF KidsInv
<1>14. KidsInv(k)'
  BY <1>4, <1>8, <1>9, <1>10, <1>11, <1>12, <1>13 DEF KidsInv
<1> QED BY <1>14 DEF k

\* beginScrollContainer puts one at the end of it.
LEMMA Appended ==
  ASSUME LinksTyped, NEW kids, KidsInv(kids), NEW c \in Ids, NEW p \in Ids,
         parent[c] = None, AppendChild(c, p)
  PROVE  KidsInv([kids EXCEPT ![p] = Append(@, c)])'
<1> DEFINE k == [kids EXCEPT ![p] = Append(@, c)]
           old == kids[p]
           new == Append(old, c)
           len == Len(old)
<1>1. /\ nextSibling[c] = None
      /\ \A q \in Ids : \A i \in 1..Len(kids[q]) : kids[q][i] \in Ids /\ kids[q][i] # c
      /\ \A q \in Ids : kids[q] \in Seq(Ids) /\ Len(kids[q]) \in Nat
  BY NewKid
<1>2. /\ new \in Seq(Ids) /\ Len(new) = len + 1 /\ new[len + 1] = c
      /\ \A i \in 1..len : new[i] = old[i]
      /\ len \in Nat
  BY <1>1
<1>3. k[p] = new /\ \A q \in Ids \ {p} : k[q] = kids[q]
  BY DEF KidsInv
<1>4. k \in [Ids -> Seq(Ids)]
  BY <1>1, <1>2 DEF KidsInv
<1>5. parent'[c] = p /\ \A e \in Ids \ {c} : parent'[e] = parent[e]
  BY DEF AppendChild, LinksTyped
<1>6. firstChild[p] = IF len = 0 THEN None ELSE old[1]
  BY DEF KidsInv
<1>7. len # 0 => old[1] # None
  BY <1>1, <1>2, IdsAre
<1>8. /\ firstChild'[p] = new[1]
      /\ \A e \in Ids \ {p} : firstChild'[e] = firstChild[e]
  <2>1. CASE len = 0
    BY <1>2, <1>6, <2>1 DEF AppendChild, LinksTyped
  <2>2. CASE len # 0
    BY <1>2, <1>6, <1>7, <2>2 DEF AppendChild, LinksTyped
  <2> QED BY <2>1, <2>2
<1>9. /\ len # 0 => nextSibling'[old[len]] = c
      /\ \A e \in Ids : (len # 0 => e # old[len]) => nextSibling'[e] = nextSibling[e]
  <2>1. CASE len = 0
    BY <1>6, <2>1 DEF AppendChild
  <2>2. CASE len # 0
    <3>1. Children(p) = old
      BY ChildrenAre
    <3>2. Last(old) = old[len] /\ old[len] \in Ids
      BY <1>1, <1>2, <2>2 DEF Last
    <3>3. nextSibling' = [nextSibling EXCEPT ![old[len]] = c]
      BY <1>6, <1>7, <2>2, <3>1, <3>2 DEF AppendChild
    <3> QED BY <2>2, <3>2, <3>3 DEF LinksTyped
  <2> QED BY <2>1, <2>2
<1> HIDE DEF k, new, old, len
<1>10. \A i \in 1..Len(new) : i \in 1..len \/ i = len + 1
  BY <1>2
<1>11. \A i \in 1..len : new[i] \in Ids /\ new[i] # c /\ parent[new[i]] = p
  <2>1. \A i \in 1..Len(kids[p]) : parent[kids[p][i]] = p
    BY DEF KidsInv
  <2> QED BY <1>1, <1>2, <2>1 DEF old, len
<1>12. \A q \in Ids : \A i, j \in 1..Len(k[q]) : k[q][i] = k[q][j] => i = j
  <2> SUFFICES ASSUME NEW i \in 1..Len(new), NEW j \in 1..Len(new), new[i] = new[j] PROVE i = j
    BY <1>3 DEF KidsInv
  <2>1. CASE i = len + 1 \/ j = len + 1
    BY <1>2, <1>10, <1>11, <2>1
  <2>2. CASE i \in 1..len /\ j \in 1..len
    <3>1. old[i] = old[j]
      BY <1>2, <2>2
    <3> QED BY <2>2, <3>1 DEF KidsInv, old, len
  <2> QED BY <1>10, <2>1, <2>2
<1>13. \A q \in Ids : \A i \in 1..Len(k[q]) : parent'[k[q][i]] = q
  <2>1. ASSUME NEW q \in Ids, NEW i \in 1..Len(kids[q]) PROVE parent'[kids[q][i]] = q
    <3>1. parent[kids[q][i]] = q
      BY DEF KidsInv
    <3> QED BY <1>1, <1>5, <3>1
  <2>2. ASSUME NEW i \in 1..Len(new) PROVE parent'[new[i]] = p
    BY <1>2, <1>5, <1>10, <1>11
  <2> QED BY <1>3, <2>1, <2>2
<1>14. \A e \in Ids : parent'[e] # None => \E i \in 1..Len(k[parent'[e]]) : k[parent'[e]][i] = e
  <2> SUFFICES ASSUME NEW e \in Ids, parent'[e] # None
               PROVE  \E i \in 1..Len(k[parent'[e]]) : k[parent'[e]][i] = e
    OBVIOUS
  <2>1. CASE e = c
    <3>1. len + 1 \in 1..Len(new)
      BY <1>2
    <3> QED BY <1>2, <1>3, <1>5, <2>1, <3>1
  <2>2. CASE e # c
    <3>1. parent'[e] = parent[e] /\ parent[e] \in Ids
      BY <1>5, <2>2 DEF LinksTyped
    <3>2. PICK i \in 1..Len(kids[parent[e]]) : kids[parent[e]][i] = e
      BY <3>1 DEF KidsInv
    <3>3. CASE parent[e] # p
      BY <1>3, <3>1, <3>2, <3>3
    <3>4. CASE parent[e] = p
      <4>1. i \in 1..Len(new) /\ i \in 1..len
        BY <1>2, <3>2, <3>4 DEF old, len
      <4>2. new[i] = e
        BY <1>2, <3>2, <3>4, <4>1 DEF old
      <4> QED BY <1>3, <3>1, <3>4, <4>1, <4>2
    <3> QED BY <3>3, <3>4
  <2> QED BY <2>1, <2>2
<1>15. \A q \in Ids : firstChild'[q] = IF Len(k[q]) = 0 THEN None ELSE k[q][1]
  <2>1. Len(new) # 0
    BY <1>2
  <2>2. \A q \in Ids : firstChild[q] = IF Len(kids[q]) = 0 THEN None ELSE kids[q][1]
    BY DEF KidsInv
  <2> QED BY <1>3, <1>8, <2>1, <2>2
<1>16. \A q \in Ids : \A i \in 1..Len(k[q]) :
         nextSibling'[k[q][i]] = IF i = Len(k[q]) THEN None ELSE k[q][i + 1]
  <2>1. ASSUME NEW q \in Ids \ {p}, NEW i \in 1..Len(kids[q])
        PROVE  nextSibling'[kids[q][i]] = IF i = Len(kids[q]) THEN None ELSE kids[q][i + 1]
    <3>1. /\ nextSibling[kids[q][i]] = IF i = Len(kids[q]) THEN None ELSE kids[q][i + 1]
          /\ parent[kids[q][i]] = q
      BY DEF KidsInv
    <3>2. len # 0 => parent[old[len]] = p
      BY <1>2, <1>11
    <3>3. kids[q][i] \in Ids /\ (len # 0 => kids[q][i] # old[len])
      BY <1>1, <3>1, <3>2
    <3>4. nextSibling'[kids[q][i]] = nextSibling[kids[q][i]]
      BY <1>9, <3>3
    <3> QED BY <3>1, <3>4
  <2>2. ASSUME NEW i \in 1..Len(new)
        PROVE  nextSibling'[new[i]] = IF i = Len(new) THEN None ELSE new[i + 1]
    <3>1. CASE i = len + 1
      <4>1. len # 0 => old[len] # c
        BY <1>2, <1>11
      <4>2. nextSibling'[c] = nextSibling[c]
        BY <1>9, <4>1
      <4> QED BY <1>1, <1>2, <3>1, <4>2
    <3>2. CASE i = len /\ len # 0
      <4>1. new[i] = old[len] /\ i # Len(new) /\ new[i + 1] = c
        BY <1>2, <3>2
      <4> QED BY <1>9, <3>2, <4>1
    <3>3. CASE i \in 1..len /\ i # len
      <4>1. nextSibling[old[i]] = old[i + 1]
        <5>1. nextSibling[kids[p][i]] = IF i = Len(kids[p]) THEN None ELSE kids[p][i + 1]
          BY <3>3 DEF KidsInv, old, len
        <5> QED BY <3>3, <5>1 DEF old, len
      <4>2. old[i] # old[len]
        BY <1>2, <3>3 DEF KidsInv, old, len
      <4>3. new[i] = old[i] /\ new[i + 1] = old[i + 1] /\ i # Len(new)
        BY <1>2, <3>3
      <4>4. nextSibling'[old[i]] = nextSibling[old[i]]
        BY <1>9, <1>11, <3>3, <4>2, <4>3
      <4> QED BY <4>1, <4>3, <4>4
    <3>4. i = len + 1 \/ (i = len /\ len # 0) \/ (i \in 1..len /\ i # len)
      BY <1>2, <1>10
    <3> QED BY <3>1, <3>2, <3>3, <3>4
  <2> QED BY <1>3, <2>1, <2>2
<1>17. \A e \in Ids : parent'[e] = None => nextSibling'[e] = None
  <2> SUFFICES ASSUME NEW e \in Ids, parent'[e] = None PROVE nextSibling'[e] = None
    OBVIOUS
  <2>1. e # c /\ parent[e] = None
    BY <1>5, IdsAre
  <2>2. len # 0 => parent[old[len]] = p
    BY <1>2, <1>11
  <2>3. nextSibling'[e] = nextSibling[e]
    BY <1>9, <2>1, <2>2, IdsAre
  <2>4. nextSibling[e] = None
    BY <2>1 DEF KidsInv
  <2> QED BY <2>3, <2>4
<1>18. KidsInv(k)'
  BY <1>4, <1>12, <1>13, <1>14, <1>15, <1>16, <1>17 DEF KidsInv
<1> QED BY <1>18 DEF k

-----------------------------------------------------------------------------
(* The order of a pool *)

\* An increasing enumeration of a set of entities.
InOrder(s, S) == s \in SetToSeqs(S) /\ \A i, j \in DOMAIN s : i < j => s[i] < s[j]

\* There is one of every set.
LEMMA OrderExists ==
  ASSUME NEW S \in SUBSET Ids
  PROVE  \E s : InOrder(s, S)
<1> DEFINE Good(m) == \A R \in SUBSET (1..m) : \E s : InOrder(s, R)
           T == {m \in Nat : Good(m)}
<1>1. \A m \in 0..MaxId : (\A k \in 0..m-1 : k \in T) => m \in T
  <2> SUFFICES ASSUME NEW m \in 0..MaxId, \A k \in 0..m-1 : k \in T,
                      NEW R \in SUBSET (1..m)
               PROVE  \E s : InOrder(s, R)
    <3>1. 0..MaxId \subseteq Nat
      BY IdsAre
    <3> QED BY <3>1
  <2>0. m \in Nat
    BY IdsAre
  <2>1. CASE m = 0
    <3>1. R = {} /\ 1..0 = {}
      BY <2>1
    <3>2. InOrder([i \in {} |-> 0], {})
      BY FS_EmptySet DEF InOrder, SetToSeqs
    <3> QED BY <3>1, <3>2
  <2>2. CASE m # 0
    <3>1. m - 1 \in T /\ m - 1 \in Nat
      BY <2>0, <2>2
    <3> DEFINE Q == R \ {m}
               n == Cardinality(Q)
    <3>2. Q \in SUBSET (1..m-1)
      BY <2>0
    <3>3. PICK s : InOrder(s, Q)
      BY <3>1, <3>2
    <3>4. CASE m \notin R
      <4>1. Q = R
        BY <3>4
      <4> QED BY <3>3, <4>1
    <3>5. CASE m \in R
      <4>1. IsFiniteSet(Q) /\ n \in Nat
        <5>1. IsFiniteSet(1..m-1)
          BY <2>0, FS_Interval
        <5> HIDE DEF Q
        <5> QED BY <3>2, <5>1, FS_Subset, FS_CardinalityType
      <4>2. R = Q \cup {m} /\ m \notin Q
        BY <3>5
      <4>3. Cardinality(R) = n + 1
        BY <4>1, <4>2, FS_AddElement
      <4>4. /\ s \in [1..n -> Q] /\ \A i, j \in 1..n : i # j => s[i] # s[j]
            /\ \A i, j \in 1..n : i < j => s[i] < s[j]
        BY <3>3 DEF InOrder, SetToSeqs
      <4> DEFINE t == [i \in 1..n + 1 |-> IF i = n + 1 THEN m ELSE s[i]]
      <4>5. \A q \in Q : q < m
        BY <2>0, <3>2
      <4> HIDE DEF Q, n
      <4>6. t \in [1..n + 1 -> R] /\ DOMAIN t = 1..n + 1
        BY <4>1, <4>2, <4>4
      <4>7. \A i \in 1..n : t[i] = s[i] /\ s[i] \in Q
        BY <4>1, <4>4
      <4>8. t[n + 1] = m
        BY <4>1
      <4>9. \A i \in 1..n + 1 : i \in 1..n \/ i = n + 1
        BY <4>1
      <4> HIDE DEF t
      <4>10. \A i, j \in 1..n + 1 : i # j => t[i] # t[j]
        BY <4>2, <4>4, <4>7, <4>8, <4>9
      <4>11. \A i, j \in 1..n + 1 : i < j => t[i] < t[j]
        BY <4>1, <4>4, <4>5, <4>7, <4>8, <4>9
      <4>12. InOrder(t, R)
        BY <4>3, <4>6, <4>10, <4>11 DEF InOrder, SetToSeqs
      <4> QED BY <4>12
    <3> QED BY <3>4, <3>5
  <2> QED BY <2>1, <2>2
<1>2. T \in SUBSET Nat /\ MaxId \in Nat /\ MaxId \in 0..MaxId
  BY IdsAre
<1> HIDE DEF T
<1>3. MaxId \in T
  BY <1>1, <1>2, Induct
<1> QED BY <1>3 DEF T, Ids

\* The enumeration of a set of entities lists them all.
LEMMA PoolOrderIs ==
  ASSUME NEW S \in SUBSET Ids
  PROVE  /\ InPoolOrder(S) \in Seq(S)
         /\ \A x \in S : \E i \in 1..Len(InPoolOrder(S)) : InPoolOrder(S)[i] = x
<1> DEFINE s == InPoolOrder(S)
           n == Cardinality(S)
<1>1. InOrder(s, S)
  <2>1. s = CHOOSE t : t \in SetToSeqs(S) /\ \A i, j \in DOMAIN t : i < j => t[i] < t[j]
    BY DEF InPoolOrder
  <2> HIDE DEF s
  <2>2. s = CHOOSE t : InOrder(t, S)
    BY <2>1 DEF InOrder
  <2> QED BY <2>2, OrderExists
<1>2. IsFiniteSet(S) /\ n \in Nat
  BY IdsAre, FS_Subset, FS_CardinalityType
<1> DEFINE D == 1..n
<1>3. IsFiniteSet(D) /\ Cardinality(D) = n
  BY <1>2, FS_Interval
<1> HIDE DEF s
<1>4. s \in [D -> S] /\ \A i, j \in D : i # j => s[i] # s[j]
  BY <1>1 DEF InOrder, SetToSeqs
<1>5. s \in Seq(S) /\ Len(s) = n
  BY <1>2, <1>4
<1>6. s \in Surjection(D, S)
  <2> HIDE DEF D, n
  <2>1. s \in Injection(D, S)
    BY <1>4 DEF Injection, IsInjective
  <2>2. Cardinality(D) = Cardinality(S)
    BY <1>3 DEF n
  <2> QED BY <1>2, <2>1, <2>2, FS_Injection
<1>7. \A x \in S : \E i \in 1..Len(s) : s[i] = x
  BY <1>5, <1>6 DEF Surjection
<1> QED BY <1>5, <1>7 DEF s

-----------------------------------------------------------------------------
(* The invariant *)

Systems == {"transform", "layout"}

TypeInv ==
  /\ nextID \in Nat \ {0}
  /\ kind \in [Ids -> {"none", "scene", "panel", "scroll"}]
  /\ LinksTyped
  /\ stack \in Seq(Ids)
  /\ local \in [Ids -> Nat] /\ world \in [Ids -> Seq(Nat)]
  /\ todo \in Seq(Ids)
  /\ updating \in Systems \cup {"no"}

\* Both exist, and both in the scene or both in the user interface.
Alike(k, x, e) == k[x] # "none" /\ k[e] # "none" /\ (k[x] = "scene" <=> k[e] = "scene")

AllAlike(k, up) == \A e \in Ids : \A x \in up[e] : x = e \/ Alike(k, x, e)

KindInv(up) ==
  /\ \A e \in Ids : kind[e] = "none" <=> e >= nextID
  /\ \A i \in 1..Len(stack) : kind[stack[i]] \in {"panel", "scroll"}
  /\ AllAlike(kind, up)

\* Of the children that begin made, the newest is in front.
OrderInv(kids) ==
  \A p \in Ids : \A i, j \in 1..Len(kids[p]) :
    i < j /\ kind[kids[p][i]] = "panel" /\ kind[kids[p][j]] = "panel" => kids[p][j] < kids[p][i]

\* The update that is running has still to visit it, or an entity above it.
Pending(up, x) == \E i \in 1..Len(todo) : todo[i] \in up[x]

Begun(c, d) ==
  c < d /\ parent[c] = parent[d] /\ parent[c] # None /\ kind[c] = "panel" /\ kind[d] = "panel"

UpdateInv(up) ==
  updating # "no" =>
    /\ \A i \in 1..Len(todo) : todo[i] \in Carriers(updating)
    /\ \A x \in Carriers(updating) : Pending(up, x) \/ world[x] = Compose(x, local[x])
    /\ updating = "layout" =>
         \A c, d \in Ids : Begun(c, d) => Pending(up, parent[c]) \/ local[c] < local[d]

TreeInv(kids, up) ==
  TypeInv /\ KidsInv(kids) /\ UpInv(up) /\ KindInv(up) /\ OrderInv(kids) /\ UpdateInv(up)

\* An entity is alike its parent, which is another.
LEMMA Family ==
  ASSUME LinksTyped, NEW up, UpInv(up)
  PROVE  /\ \A e \in Ids : e \in up[e] /\ up[e] \subseteq Ids
         /\ \A c \in Ids : parent[c] # None =>
              /\ parent[c] \in Ids /\ parent[c] # c
              /\ parent[c] \in up[c] /\ up[parent[c]] \subseteq up[c]
              /\ AllAlike(kind, up) => Alike(kind, parent[c], c)
<1>1. \A e \in Ids : e \in up[e] /\ up[e] \subseteq Ids
  BY DEF UpInv
<1>2. ASSUME NEW c \in Ids, parent[c] # None
      PROVE  /\ parent[c] \in Ids /\ parent[c] # c
             /\ parent[c] \in up[c] /\ up[parent[c]] \subseteq up[c]
  <2>1. parent[c] \in Ids
    BY <1>2 DEF LinksTyped
  <2>2. up[c] = {c} \cup up[parent[c]] /\ c \notin up[parent[c]]
    BY <1>2 DEF UpInv
  <2> QED BY <1>1, <2>1, <2>2
<1>3. ASSUME NEW c \in Ids, parent[c] # None, AllAlike(kind, up) PROVE Alike(kind, parent[c], c)
  BY <1>2, <1>3 DEF AllAlike
<1> QED BY <1>1, <1>2, <1>3

\* A new entity stands alone.
StandsAlone(kids, up, c, K) ==
  /\ c \in Ids /\ parent[c] = None /\ \A e \in Ids : c \in up[e] => e = c
  /\ \A q \in Ids : \A i \in 1..Len(kids[q]) : kids[q][i] \in Ids /\ kids[q][i] < c
  /\ kind'[c] = K /\ \A e \in Ids \ {c} : kind'[e] = kind[e]
  /\ \A i \in 1..Len(stack) : stack[i] \in Ids /\ stack[i] # c
  /\ \A e \in Ids : kind'[e] = "none" <=> e >= nextID'
  /\ kind' \in [Ids -> {"none", "scene", "panel", "scroll"}]
  /\ AllAlike(kind', up)

LEMMA New ==
  ASSUME TypeInv, NEW kids, NEW up, KidsInv(kids), UpInv(up), KindInv(up),
         NEW c, NEW K \in {"scene", "panel", "scroll"},
         nextID <= MaxId, c = nextID, nextID' = nextID + 1, kind' = [kind EXCEPT ![c] = K]
  PROVE  StandsAlone(kids, up, c, K)
<1>1. c \in Ids /\ c \in Nat /\ kind[c] = "none" /\ \A e \in Ids : e \in Nat
  <2>1. c \in Ids /\ c \in Nat /\ \A e \in Ids : e \in Nat
    BY IdsAre DEF TypeInv, Ids, None
  <2> QED BY <2>1 DEF KindInv
<1>2. kind'[c] = K /\ \A e \in Ids \ {c} : kind'[e] = kind[e]
  BY <1>1 DEF TypeInv
<1>3. \A e \in Ids : \A x \in up[e] : x = e \/ Alike(kind, x, e)
  BY DEF KindInv, AllAlike
<1>4. \A e \in Ids : c \in up[e] => e = c
  BY <1>1, <1>3 DEF Alike
<1>5. parent[c] = None
  <2>1. AllAlike(kind, up) /\ LinksTyped
    BY DEF KindInv, TypeInv
  <2> QED BY <1>1, <2>1, Family DEF Alike
<1>6. ASSUME NEW q \in Ids, NEW i \in 1..Len(kids[q]) PROVE kids[q][i] \in Ids /\ kids[q][i] < c
  <2>1. kids[q][i] \in Ids
    BY DEF KidsInv
  <2>2. parent[kids[q][i]] = q
    BY DEF KidsInv
  <2>3. kind[kids[q][i]] # "none"
    <3>1. AllAlike(kind, up) /\ LinksTyped
      BY DEF KindInv, TypeInv
    <3> DEFINE x == kids[q][i]
    <3> HIDE DEF x
    <3>2. x \in Ids /\ parent[x] = q /\ q # None
      BY <2>1, <2>2, IdsAre DEF x
    <3>3. Alike(kind, parent[x], x)
      BY <3>1, <3>2, Family
    <3> QED BY <3>3 DEF Alike, x
  <2>4. ~(kids[q][i] >= nextID)
    BY <2>1, <2>3, Zenon DEF KindInv
  <2>5. kids[q][i] \in Nat
    BY <1>1, <2>1
  <2> QED BY <1>1, <2>1, <2>4, <2>5
<1>7. ASSUME NEW i \in 1..Len(stack) PROVE stack[i] \in Ids /\ stack[i] # c
  <2>1. stack[i] \in Ids
    BY DEF TypeInv
  <2>2. kind[stack[i]] \in {"panel", "scroll"}
    BY DEF KindInv
  <2> QED BY <1>1, <2>1, <2>2
<1>8. \A e \in Ids : kind'[e] = "none" <=> e >= nextID'
  BY <1>1, <1>2 DEF KindInv
<1>9. kind' \in [Ids -> {"none", "scene", "panel", "scroll"}]
  BY DEF TypeInv
<1>10. ASSUME NEW e \in Ids, NEW x \in up[e] PROVE x = e \/ Alike(kind', x, e)
  <2>1. x \in Ids
    BY DEF UpInv
  <2>2. CASE e = c \/ x = c
    <3>1. (kind[x] # "none" /\ kind[e] # "none") \/ x = e
      BY <1>3 DEF Alike
    <3> QED BY <1>1, <2>2, <3>1
  <2>3. CASE e # c /\ x # c
    BY <1>2, <1>3, <2>1, <2>3 DEF Alike
  <2> QED BY <2>2, <2>3
<1>11. AllAlike(kind', up)
  BY <1>10 DEF AllAlike
<1> QED BY <1>1, <1>2, <1>4, <1>5, <1>6, <1>7, <1>8, <1>9, <1>11 DEF StandsAlone

\* Adoption among alike entities leaves all alike.
LEMMA RaisedAlike ==
  ASSUME NEW k, NEW up, up \in [Ids -> SUBSET Ids], AllAlike(k, up),
         NEW c \in Ids, NEW p \in Ids, Alike(k, p, c)
  PROVE  AllAlike(k, Raised(up, c, p))
<1> SUFFICES ASSUME NEW e \in Ids, NEW x \in Raised(up, c, p)[e] PROVE x = e \/ Alike(k, x, e)
  BY DEF AllAlike
<1>1. \A y \in Ids : \A z \in up[y] : z = y \/ Alike(k, z, y)
  BY DEF AllAlike
<1>2. CASE x \in up[e]
  BY <1>1, <1>2
<1>3. CASE x \notin up[e]
  <2>1. c \in up[e] /\ x \in up[p]
    BY <1>3 DEF Raised
  <2>2. (c = e \/ Alike(k, c, e)) /\ (x = p \/ Alike(k, x, p))
    BY <1>1, <2>1
  <2> QED BY <2>2 DEF Alike
<1> QED BY <1>2, <1>3

-----------------------------------------------------------------------------
(* The steps that link *)

Linked(kids, up) ==
  LinksTyped /\ KidsInv(kids) /\ UpInv(up) /\ OrderInv(kids) /\ AllAlike(kind, up)

\* attachEntity of a child that begin made last, or of one of the scene.
LEMMA AttachKeeps ==
  ASSUME LinksTyped, NEW kids, NEW up, KidsInv(kids), UpInv(up), OrderInv(kids), AllAlike(kind', up),
         NEW c \in Ids, NEW p \in Ids, parent[c] = None, c \notin up[p], Alike(kind', p, c),
         \A e \in Ids \ {c} : kind'[e] = kind[e],
         kind'[c] = "panel" => \A i \in 1..Len(kids[p]) : kids[p][i] < c,
         attachEntity(c, p)
  PROVE  \E k, u : Linked(k, u)'
<1> DEFINE old == kids[p]
           new == <<c>> \o old
           k == [kids EXCEPT ![p] = <<c>> \o @]
           u == Raised(up, c, p)
<1>1. LinksTyped'
  BY DEF LinksTyped, attachEntity
<1>2. KidsInv(k)'
  BY Prepended
<1>3. parent' = [parent EXCEPT ![c] = p]
  BY DEF attachEntity
<1>4. UpInv(u)'
  BY <1>3, Adopted
<1>5. AllAlike(kind', u)
  <2>1. up \in [Ids -> SUBSET Ids]
    BY DEF UpInv
  <2> QED BY <2>1, RaisedAlike
<1>6. /\ \A q \in Ids : \A i \in 1..Len(kids[q]) : kids[q][i] \in Ids /\ kids[q][i] # c
      /\ \A q \in Ids : kids[q] \in Seq(Ids) /\ Len(kids[q]) \in Nat
  BY NewKid
<1>7. /\ new[1] = c /\ Len(new) = Len(old) + 1
      /\ \A i \in 2..Len(new) : i - 1 \in 1..Len(old) /\ new[i] = old[i - 1]
      /\ \A i \in 1..Len(new) : i = 1 \/ i \in 2..Len(new)
  BY <1>6
<1>8. k[p] = new /\ \A q \in Ids \ {p} : k[q] = kids[q]
  BY DEF KidsInv
<1>9. ASSUME NEW q \in Ids, NEW i \in 1..Len(kids[q]), NEW j \in 1..Len(kids[q]), i < j,
             kind'[kids[q][i]] = "panel", kind'[kids[q][j]] = "panel"
      PROVE  kids[q][j] < kids[q][i]
  <2>1. kind[kids[q][i]] = "panel" /\ kind[kids[q][j]] = "panel"
    BY <1>6, <1>9
  <2> QED BY <1>9, <2>1 DEF OrderInv
<1>10. ASSUME NEW i \in 1..Len(new), NEW j \in 1..Len(new), i < j,
              kind'[new[i]] = "panel", kind'[new[j]] = "panel"
       PROVE  new[j] < new[i]
  <2> HIDE DEF new, old
  <2>0. j \in 2..Len(new) /\ j - 1 \in 1..Len(old) /\ new[j] = old[j - 1]
    BY <1>7, <1>10
  <2>1. CASE i = 1
    BY <1>7, <1>10, <2>0, <2>1 DEF old
  <2>2. CASE i # 1
    <3>1. i - 1 \in 1..Len(old) /\ new[i] = old[i - 1] /\ i - 1 < j - 1
      BY <1>7, <1>10, <2>0, <2>2
    <3>2. kind'[old[i - 1]] = "panel" /\ kind'[old[j - 1]] = "panel"
      BY <1>10, <2>0, <3>1
    <3>3. old[j - 1] < old[i - 1]
      BY <1>9, <2>0, <3>1, <3>2 DEF old
    <3> QED BY <2>0, <3>1, <3>3
  <2> QED BY <2>1, <2>2
<1> HIDE DEF k, u, new, old
<1>11. OrderInv(k)'
  BY <1>8, <1>9, <1>10 DEF OrderInv
<1>12. Linked(k, u)'
  BY <1>1, <1>2, <1>4, <1>5, <1>11 DEF Linked
<1> QED BY <1>12

\* AppendChild of one that is not a panel.
LEMMA AppendKeeps ==
  ASSUME LinksTyped, NEW kids, NEW up, KidsInv(kids), UpInv(up), OrderInv(kids), AllAlike(kind', up),
         NEW c \in Ids, NEW p \in Ids, parent[c] = None, c \notin up[p], Alike(kind', p, c),
         \A e \in Ids \ {c} : kind'[e] = kind[e], kind'[c] # "panel",
         AppendChild(c, p)
  PROVE  \E k, u : Linked(k, u)'
<1> DEFINE old == kids[p]
           new == Append(old, c)
           k == [kids EXCEPT ![p] = Append(@, c)]
           u == Raised(up, c, p)
<1>1. LinksTyped'
  BY DEF LinksTyped, AppendChild
<1>2. KidsInv(k)'
  BY Appended
<1>3. parent' = [parent EXCEPT ![c] = p]
  BY DEF AppendChild
<1>4. UpInv(u)'
  BY <1>3, Adopted
<1>5. AllAlike(kind', u)
  <2>1. up \in [Ids -> SUBSET Ids]
    BY DEF UpInv
  <2> QED BY <2>1, RaisedAlike
<1>6. /\ \A q \in Ids : \A i \in 1..Len(kids[q]) : kids[q][i] \in Ids /\ kids[q][i] # c
      /\ \A q \in Ids : kids[q] \in Seq(Ids) /\ Len(kids[q]) \in Nat
  BY NewKid
<1>7. /\ new[Len(old) + 1] = c /\ Len(new) = Len(old) + 1 /\ Len(old) \in Nat
      /\ \A i \in 1..Len(old) : new[i] = old[i]
  BY <1>6
<1>8. k[p] = new /\ \A q \in Ids \ {p} : k[q] = kids[q]
  BY DEF KidsInv
<1>9. ASSUME NEW q \in Ids, NEW i \in 1..Len(kids[q]), NEW j \in 1..Len(kids[q]), i < j,
             kind'[kids[q][i]] = "panel", kind'[kids[q][j]] = "panel"
      PROVE  kids[q][j] < kids[q][i]
  <2>1. kind[kids[q][i]] = "panel" /\ kind[kids[q][j]] = "panel"
    BY <1>6, <1>9
  <2> QED BY <1>9, <2>1 DEF OrderInv
<1>10. ASSUME NEW i \in 1..Len(new), NEW j \in 1..Len(new), i < j,
              kind'[new[i]] = "panel", kind'[new[j]] = "panel"
       PROVE  new[j] < new[i]
  <2> HIDE DEF new, old
  <2>1. j # Len(old) + 1
    BY <1>7, <1>10
  <2>2. i \in 1..Len(old) /\ j \in 1..Len(old)
    BY <1>7, <1>10, <2>1
  <2>3. kind'[old[i]] = "panel" /\ kind'[old[j]] = "panel"
    BY <1>7, <1>10, <2>2
  <2>4. old[j] < old[i]
    BY <1>9, <1>10, <2>2, <2>3 DEF old
  <2> QED BY <1>7, <2>2, <2>4
<1> HIDE DEF k, u, new, old
<1>11. OrderInv(k)'
  BY <1>8, <1>9, <1>10 DEF OrderInv
<1>12. Linked(k, u)'
  BY <1>1, <1>2, <1>4, <1>5, <1>11 DEF Linked
<1> QED BY <1>12

-----------------------------------------------------------------------------
(* The steps that build *)

\* While no update runs that is all of the invariant.
LEMMA Assembled ==
  ASSUME TypeInv', NEW k, NEW u, Linked(k, u)', updating' = "no",
         \A e \in Ids : kind'[e] = "none" <=> e >= nextID',
         \A i \in 1..Len(stack') : kind'[stack'[i]] \in {"panel", "scroll"}
  PROVE  TreeInv(k, u)'
BY DEF Linked, TreeInv, KindInv, UpdateInv

\* A step that changes no link and the kind of no child.
LEMMA Unlinked ==
  ASSUME NEW kids, NEW up, TreeInv(kids, up), UNCHANGED links, AllAlike(kind', up),
         \A p \in Ids : \A i \in 1..Len(kids[p]) : kind'[kids[p][i]] = kind[kids[p][i]]
  PROVE  Linked(kids, up)'
<1>1. UNCHANGED <<parent, firstChild, nextSibling>>
  BY DEF links
<1>2. LinksTyped' /\ KidsInv(kids)' /\ UpInv(up)'
  <2>1. LinksTyped /\ KidsInv(kids) /\ UpInv(up)
    BY DEF TreeInv, TypeInv
  <2>2. LinksTyped'
    BY <1>1, <2>1 DEF LinksTyped
  <2>3. KidsInv(kids)'
    BY <1>1, <2>1, SameKids
  <2>4. UpInv(up)'
    BY <1>1, <2>1 DEF UpInv
  <2> QED BY <2>2, <2>3, <2>4
<1>3. OrderInv(kids)'
  BY DEF TreeInv, OrderInv
<1> QED BY <1>2, <1>3 DEF Linked

LEMMA CreateSceneEntityStep ==
  ASSUME NEW kids, NEW up, TreeInv(kids, up), CreateSceneEntity
  PROVE  \E k, u : TreeInv(k, u)'
<1>1. PICK c : c = nextID
  OBVIOUS
<1>2. /\ nextID <= MaxId /\ nextID' = nextID + 1 /\ kind' = [kind EXCEPT ![c] = "scene"]
      /\ UNCHANGED links /\ UNCHANGED <<stack, local, world, todo, updating>> /\ updating = "no"
  BY <1>1 DEF CreateSceneEntity, Fresh
<1>3. TypeInv /\ KidsInv(kids) /\ UpInv(up) /\ KindInv(up)
  BY DEF TreeInv
<1>4. /\ c \in Ids
      /\ \A q \in Ids : \A i \in 1..Len(kids[q]) : kids[q][i] \in Ids /\ kids[q][i] < c
      /\ \A e \in Ids \ {c} : kind'[e] = kind[e]
      /\ \A i \in 1..Len(stack) : stack[i] \in Ids /\ stack[i] # c
      /\ \A e \in Ids : kind'[e] = "none" <=> e >= nextID'
      /\ kind' \in [Ids -> {"none", "scene", "panel", "scroll"}]
      /\ AllAlike(kind', up)
  <2>1. StandsAlone(kids, up, c, "scene")
    BY <1>1, <1>2, <1>3, New
  <2> QED BY <2>1 DEF StandsAlone
<1>5. \A p \in Ids : \A i \in 1..Len(kids[p]) : kind'[kids[p][i]] = kind[kids[p][i]]
  <2> SUFFICES ASSUME NEW p \in Ids, NEW i \in 1..Len(kids[p]) PROVE kind'[kids[p][i]] = kind[kids[p][i]]
    OBVIOUS
  <2>1. c \in Nat
    BY <1>1, <1>3 DEF TypeInv
  <2>2. kids[p][i] \in Ids /\ kids[p][i] < c
    BY <1>4
  <2>3. kids[p][i] # c
    BY <2>1, <2>2
  <2> QED BY <1>4, <2>2, <2>3
<1>6. Linked(kids, up)'
  <2>1. UNCHANGED links /\ AllAlike(kind', up)
    BY <1>2, <1>4
  <2> QED BY <1>5, <2>1, Unlinked
<1>7. TypeInv'
  BY <1>2, <1>3, <1>4 DEF TypeInv, LinksTyped, links
<1>8. \A i \in 1..Len(stack') : kind'[stack'[i]] \in {"panel", "scroll"}
  BY <1>2, <1>3, <1>4 DEF KindInv
<1>9. TreeInv(kids, up)'
  BY <1>2, <1>4, <1>6, <1>7, <1>8, Assembled
<1> QED BY <1>9

LEMMA AttachSceneEntityStep ==
  ASSUME NEW kids, NEW up, TreeInv(kids, up), NEW c \in Ids, NEW p \in Ids, AttachSceneEntity(c, p)
  PROVE  \E k, u : TreeInv(k, u)'
<1>1. /\ TypeInv /\ LinksTyped /\ KidsInv(kids) /\ UpInv(up) /\ OrderInv(kids) /\ KindInv(up)
      /\ AllAlike(kind, up)
  BY DEF TreeInv, TypeInv, KindInv
<1>2. /\ kind[c] = "scene" /\ kind[p] = "scene" /\ parent[c] = None /\ attachEntity(c, p)
      /\ UNCHANGED <<nextID, kind, stack, local, world, todo, updating>> /\ updating = "no"
  BY DEF AttachSceneEntity, Carriers
<1>3. c \notin up[p]
  BY <1>1, AncestorsAre DEF AttachSceneEntity
<1>4. Alike(kind', p, c) /\ AllAlike(kind', up) /\ kind'[c] # "panel" /\ \A e \in Ids \ {c} : kind'[e] = kind[e]
  BY <1>1, <1>2 DEF Alike
<1>5. PICK k, u : Linked(k, u)'
  BY <1>1, <1>2, <1>3, <1>4, AttachKeeps
<1>6. TypeInv'
  <2>1. LinksTyped'
    BY <1>5 DEF Linked
  <2> QED BY <1>1, <1>2, <2>1 DEF TypeInv
<1>7. /\ \A e \in Ids : kind'[e] = "none" <=> e >= nextID'
      /\ \A i \in 1..Len(stack') : kind'[stack'[i]] \in {"panel", "scroll"}
  BY <1>1, <1>2 DEF KindInv
<1>8. TreeInv(k, u)'
  BY <1>2, <1>5, <1>6, <1>7, Assembled
<1> QED BY <1>8

\* What a builder's stack holds.
LEMMA StackFacts ==
  ASSUME TypeInv, NEW up, KindInv(up)
  PROVE  /\ stack # <<>> => Last(stack) \in Ids /\ kind[Last(stack)] \in {"panel", "scroll"}
         /\ stack # <<>> => /\ Front(stack) \in Seq(Ids)
                            /\ \A i \in 1..Len(Front(stack)) :
                                 kind[Front(stack)[i]] \in {"panel", "scroll"}
<1> SUFFICES ASSUME stack # <<>>
             PROVE  /\ Last(stack) \in Ids /\ kind[Last(stack)] \in {"panel", "scroll"}
                    /\ Front(stack) \in Seq(Ids)
                    /\ \A i \in 1..Len(Front(stack)) : kind[Front(stack)[i]] \in {"panel", "scroll"}
  OBVIOUS
<1>1. stack \in Seq(Ids) /\ Len(stack) \in Nat \ {0} /\ Len(stack) \in 1..Len(stack)
  BY DEF TypeInv
<1>2. Last(stack) \in Ids /\ kind[Last(stack)] \in {"panel", "scroll"}
  BY <1>1 DEF Last, KindInv
<1>3. /\ Front(stack) \in Seq(Ids) /\ Len(Front(stack)) = Len(stack) - 1
      /\ \A i \in 1..Len(stack) - 1 : Front(stack)[i] = stack[i]
  BY <1>1 DEF Front
<1>4. \A i \in 1..Len(Front(stack)) : kind[Front(stack)[i]] \in {"panel", "scroll"}
  <2>1. \A i \in 1..Len(stack) - 1 : i \in 1..Len(stack)
    BY <1>1
  <2> QED BY <1>3, <2>1 DEF KindInv
<1> QED BY <1>2, <1>3, <1>4

LEMMA EndSteps ==
  ASSUME NEW kids, NEW up, TreeInv(kids, up), End \/ EndScroll
  PROVE  \E k, u : TreeInv(k, u)'
<1>1. TypeInv /\ KindInv(up)
  BY DEF TreeInv
<1>2. /\ stack # <<>> /\ stack' = Front(stack) /\ updating = "no"
      /\ UNCHANGED links /\ UNCHANGED <<nextID, kind, local, world, todo, updating>>
  BY DEF End, EndScroll
<1>3. /\ stack' \in Seq(Ids)
      /\ \A i \in 1..Len(stack') : kind'[stack'[i]] \in {"panel", "scroll"}
  BY <1>1, <1>2, StackFacts
<1>4. TypeInv'
  BY <1>1, <1>2, <1>3 DEF TypeInv, LinksTyped, links
<1>5. Linked(kids, up)'
  <2>1. AllAlike(kind', up)
    BY <1>1, <1>2 DEF KindInv
  <2> QED BY <1>2, <2>1, Unlinked
<1>6. \A e \in Ids : kind'[e] = "none" <=> e >= nextID'
  BY <1>1, <1>2 DEF KindInv
<1>7. TreeInv(kids, up)'
  BY <1>2, <1>3, <1>4, <1>5, <1>6, Assembled
<1> QED BY <1>7

\* What begin and beginScrollContainer have in common.
BeginAs(c, K) ==
  /\ updating = "no" /\ nextID <= MaxId /\ c = nextID /\ nextID' = nextID + 1
  /\ kind' = [kind EXCEPT ![c] = K] /\ stack' = Append(stack, c)
  /\ UNCHANGED <<local, world, todo, updating>>

LEMMA BeginAsStep ==
  ASSUME NEW kids, NEW up, TreeInv(kids, up), NEW c, NEW K \in {"panel", "scroll"}, BeginAs(c, K),
         \/ stack = <<>> /\ UNCHANGED links
         \/ stack # <<>> /\ K = "panel" /\ attachEntity(c, Last(stack))
         \/ stack # <<>> /\ K = "scroll" /\ AppendChild(c, Last(stack))
  PROVE  \E k, u : TreeInv(k, u)'
<1>1. /\ TypeInv /\ LinksTyped /\ KidsInv(kids) /\ UpInv(up) /\ OrderInv(kids) /\ KindInv(up)
      /\ AllAlike(kind, up)
  BY DEF TreeInv, TypeInv, KindInv
<1>2. /\ nextID <= MaxId /\ c = nextID /\ nextID' = nextID + 1 /\ kind' = [kind EXCEPT ![c] = K]
      /\ updating = "no" /\ stack' = Append(stack, c) /\ UNCHANGED <<local, world, todo, updating>>
  BY DEF BeginAs
<1>3. /\ c \in Ids /\ parent[c] = None /\ \A e \in Ids : c \in up[e] => e = c
      /\ \A q \in Ids : \A i \in 1..Len(kids[q]) : kids[q][i] \in Ids /\ kids[q][i] < c
      /\ kind'[c] = K /\ \A e \in Ids \ {c} : kind'[e] = kind[e]
      /\ \A i \in 1..Len(stack) : stack[i] \in Ids /\ stack[i] # c
      /\ \A e \in Ids : kind'[e] = "none" <=> e >= nextID'
      /\ kind' \in [Ids -> {"none", "scene", "panel", "scroll"}]
      /\ AllAlike(kind', up)
  <2>1. K \in {"scene", "panel", "scroll"}
    OBVIOUS
  <2>2. TypeInv /\ KidsInv(kids) /\ UpInv(up) /\ KindInv(up)
    BY <1>1
  <2>3. nextID <= MaxId /\ c = nextID /\ nextID' = nextID + 1 /\ kind' = [kind EXCEPT ![c] = K]
    BY <1>2
  <2>4. StandsAlone(kids, up, c, K)
    BY <2>1, <2>2, <2>3, New
  <2> QED BY <2>4 DEF StandsAlone
<1>4. c \in Nat /\ nextID' \in Nat \ {0}
  BY <1>1, <1>2 DEF TypeInv
<1>5. /\ stack' \in Seq(Ids)
      /\ \A i \in 1..Len(stack') : kind'[stack'[i]] \in {"panel", "scroll"}
  <2>1. stack \in Seq(Ids) /\ c \in Ids
    BY <1>1, <1>3 DEF TypeInv
  <2>2. stack' \in Seq(Ids)
    BY <1>2, <2>1
  <2>3. ASSUME NEW i \in 1..Len(stack') PROVE kind'[stack'[i]] \in {"panel", "scroll"}
    <3>1. CASE i = Len(stack) + 1
      <4>1. stack'[i] = c
        BY <1>2, <2>1, <3>1
      <4> QED BY <1>3, <4>1
    <3>2. CASE i # Len(stack) + 1
      <4>1. i \in 1..Len(stack) /\ stack'[i] = stack[i]
        BY <1>2, <2>1, <3>2
      <4>2. kind[stack[i]] \in {"panel", "scroll"}
        BY <1>1, <4>1 DEF KindInv
      <4> QED BY <1>3, <4>1, <4>2
    <3> QED BY <3>1, <3>2
  <2> QED BY <2>2, <2>3
<1>6. \E k, u : Linked(k, u)'
  <2>1. CASE stack = <<>> /\ UNCHANGED links
    <3>1. ASSUME NEW p \in Ids, NEW i \in 1..Len(kids[p]) PROVE kind'[kids[p][i]] = kind[kids[p][i]]
      <4>1. kids[p][i] \in Ids /\ kids[p][i] < c
        BY <1>3
      <4>2. kids[p][i] # c
        BY <1>4, <4>1
      <4> QED BY <1>3, <4>1, <4>2
    <3>2. UNCHANGED links /\ AllAlike(kind', up)
      BY <1>3, <2>1
    <3>3. Linked(kids, up)'
      BY <3>1, <3>2, Unlinked
    <3> QED BY <3>3
  <2>2. CASE stack # <<>>
    <3>1. PICK p : p = Last(stack)
      OBVIOUS
    <3>2. p \in Ids /\ kind[p] \in {"panel", "scroll"}
      BY <1>1, <2>2, <3>1, StackFacts
    <3>3. p # c
      <4>1. Len(stack) \in 1..Len(stack)
        BY <1>1, <2>2 DEF TypeInv
      <4> QED BY <1>3, <3>1, <4>1 DEF Last
    <3>4. kind'[p] = kind[p] /\ Alike(kind', p, c)
      BY <1>3, <3>2, <3>3 DEF Alike
    <3>5. c \notin up[p]
      BY <1>3, <3>2, <3>3
    <3>6. AllAlike(kind', up) /\ \A e \in Ids \ {c} : kind'[e] = kind[e]
      BY <1>3
    <3>7. CASE K = "panel" /\ attachEntity(c, Last(stack))
      <4>1. attachEntity(c, p) /\ \A i \in 1..Len(kids[p]) : kids[p][i] < c
        BY <1>3, <3>1, <3>2, <3>7
      <4> QED BY <1>1, <1>3, <3>2, <3>4, <3>5, <3>6, <4>1, AttachKeeps
    <3>8. CASE K = "scroll" /\ AppendChild(c, Last(stack))
      <4>1. AppendChild(c, p) /\ kind'[c] # "panel"
        BY <1>3, <3>1, <3>8
      <4> QED BY <1>1, <1>3, <3>2, <3>4, <3>5, <3>6, <4>1, AppendKeeps
    <3> QED BY <2>2, <3>7, <3>8
  <2> QED BY <2>1, <2>2
<1>7. PICK k, u : Linked(k, u)'
  BY <1>6
<1>8. TypeInv'
  <2>1. LinksTyped'
    BY <1>7 DEF Linked
  <2> QED BY <1>1, <1>2, <1>3, <1>4, <1>5, <2>1 DEF TypeInv
<1>9. TreeInv(k, u)'
  BY <1>2, <1>3, <1>5, <1>7, <1>8, Assembled
<1> QED BY <1>9

LEMMA BeginStep ==
  ASSUME NEW kids, NEW up, TreeInv(kids, up), Begin
  PROVE  \E k, u : TreeInv(k, u)'
<1>1. PICK c : c = nextID
  OBVIOUS
<1>2. BeginAs(c, "panel")
  BY <1>1 DEF Begin, BeginAs, Fresh
<1>3. (stack = <<>> /\ UNCHANGED links) \/ (stack # <<>> /\ attachEntity(c, Last(stack)))
  <2>1. CASE stack = <<>>
    <3>1. UNCHANGED links
      BY <2>1 DEF Begin
    <3> QED BY <2>1, <3>1
  <2>2. CASE stack # <<>>
    <3>1. attachEntity(Fresh, Last(stack))
      BY <2>2 DEF Begin
    <3>2. attachEntity(c, Last(stack))
      BY <1>1, <3>1 DEF attachEntity, Fresh
    <3> QED BY <2>2, <3>2
  <2> QED BY <2>1, <2>2
<1> QED BY <1>2, <1>3, BeginAsStep

LEMMA BeginScrollStep ==
  ASSUME NEW kids, NEW up, TreeInv(kids, up), BeginScroll
  PROVE  \E k, u : TreeInv(k, u)'
<1>1. PICK c : c = nextID
  OBVIOUS
<1>2. BeginAs(c, "scroll")
  BY <1>1 DEF BeginScroll, BeginAs, Fresh
<1>3. (stack = <<>> /\ UNCHANGED links) \/ (stack # <<>> /\ AppendChild(c, Last(stack)))
  <2>1. CASE stack = <<>>
    <3>1. UNCHANGED links
      BY <2>1 DEF BeginScroll
    <3> QED BY <2>1, <3>1
  <2>2. CASE stack # <<>>
    <3>1. AppendChild(Fresh, Last(stack))
      BY <2>2 DEF BeginScroll
    <3>2. AppendChild(c, Last(stack))
      BY <1>1, <3>1 DEF AppendChild, Fresh
    <3> QED BY <2>2, <3>2
  <2> QED BY <2>1, <2>2
<1> QED BY <1>2, <1>3, BeginAsStep

-----------------------------------------------------------------------------
(* The steps that walk *)

Shape == <<nextID, kind, links, stack>>

\* A step that leaves the tree alone.
LEMMA SameShape ==
  ASSUME NEW kids, NEW up, TreeInv(kids, up), UNCHANGED Shape
  PROVE  /\ LinksTyped' /\ KidsInv(kids)' /\ UpInv(up)' /\ KindInv(up)' /\ OrderInv(kids)'
         /\ UNCHANGED <<nextID, kind, parent, stack>>
         /\ \A s : Carriers(s)' = Carriers(s)
<1>1. UNCHANGED <<nextID, kind, parent, firstChild, nextSibling, stack>>
  BY DEF Shape, links
<1>2. LinksTyped /\ KidsInv(kids) /\ UpInv(up) /\ KindInv(up) /\ OrderInv(kids)
  BY DEF TreeInv, TypeInv
<1>3. LinksTyped'
  BY <1>1, <1>2 DEF LinksTyped
<1>4. KidsInv(kids)'
  <2>1. KidsInv(kids) /\ UNCHANGED <<parent, firstChild, nextSibling>>
    BY <1>1, <1>2
  <2> QED BY <2>1, SameKids
<1>5. UpInv(up)'
  BY <1>1, <1>2 DEF UpInv
<1>6. KindInv(up)'
  BY <1>1, <1>2 DEF KindInv, AllAlike, Alike
<1>7. OrderInv(kids)'
  BY <1>1, <1>2 DEF OrderInv
<1>8. \A s : Carriers(s)' = Carriers(s)
  BY <1>1 DEF Carriers
<1> QED BY <1>1, <1>3, <1>4, <1>5, <1>6, <1>7, <1>8

LEMMA AnimateStep ==
  ASSUME NEW kids, NEW up, TreeInv(kids, up), NEW e \in Ids, NEW v \in Locals, Animate(e, v)
  PROVE  TreeInv(kids, up)'
<1>1. /\ UNCHANGED Shape /\ UNCHANGED <<world, todo, updating>> /\ updating = "no"
      /\ local' = [local EXCEPT ![e] = v]
  BY DEF Animate, Shape, links
<1>2. LinksTyped' /\ KidsInv(kids)' /\ UpInv(up)' /\ KindInv(up)' /\ OrderInv(kids)'
      /\ UNCHANGED <<nextID, kind, parent, stack>>
  BY <1>1, SameShape
<1>3. TypeInv'
  <2>1. v \in Nat
    BY TreeAssumption
  <2> QED BY <1>1, <1>2, <2>1 DEF TreeInv, TypeInv
<1>4. UpdateInv(up)'
  BY <1>1 DEF UpdateInv
<1> QED BY <1>2, <1>3, <1>4 DEF TreeInv

LEMMA EndUpdateStep ==
  ASSUME NEW kids, NEW up, TreeInv(kids, up), EndUpdate
  PROVE  TreeInv(kids, up)'
<1>1. UNCHANGED Shape /\ UNCHANGED <<local, world, todo>> /\ updating' = "no"
  BY DEF EndUpdate, Shape, links
<1>2. LinksTyped' /\ KidsInv(kids)' /\ UpInv(up)' /\ KindInv(up)' /\ OrderInv(kids)'
      /\ UNCHANGED <<nextID, kind, parent, stack>>
  BY <1>1, SameShape
<1>3. TypeInv'
  BY <1>1, <1>2 DEF TreeInv, TypeInv
<1>4. UpdateInv(up)'
  BY <1>1 DEF UpdateInv
<1> QED BY <1>2, <1>3, <1>4 DEF TreeInv

\* What an update is for is alike all that is above it.
LEMMA CarriersAlike ==
  ASSUME NEW up, UpInv(up), AllAlike(kind, up), TypeInv, NEW s \in Systems,
         NEW e \in Carriers(s), NEW x \in Ids, x \in up[e] \/ e \in up[x]
  PROVE  x \in Carriers(s)
<1>1. e \in Ids /\ (x = e \/ Alike(kind, x, e) \/ Alike(kind, e, x))
  BY DEF AllAlike, Carriers
<1>2. kind[e] \in {"none", "scene", "panel", "scroll"} /\ kind[x] \in {"none", "scene", "panel", "scroll"}
  BY <1>1 DEF TypeInv
<1> QED BY <1>1, <1>2 DEF Carriers, Alike, Systems

\* Everything an update is for is below one of the roots it starts from.
LEMMA StartUpdateStep ==
  ASSUME NEW kids, NEW up, TreeInv(kids, up), NEW s \in Systems, StartUpdate(s)
  PROVE  TreeInv(kids, up)'
<1>1. UNCHANGED Shape /\ UNCHANGED <<local, world>> /\ updating' = s /\ todo' = InPoolOrder(Roots(s))
  BY DEF StartUpdate, Shape, links
<1>2. LinksTyped' /\ KidsInv(kids)' /\ UpInv(up)' /\ KindInv(up)' /\ OrderInv(kids)'
      /\ UNCHANGED <<nextID, kind, parent, stack>> /\ Carriers(s)' = Carriers(s)
  BY <1>1, SameShape
<1>3. /\ Roots(s) \in SUBSET Ids /\ Roots(s) \subseteq Carriers(s)
      /\ \A x \in Carriers(s) : parent[x] = None => x \in Roots(s)
  BY DEF Roots, Carriers
<1>4. /\ todo' \in Seq(Roots(s))
      /\ \A x \in Roots(s) : \E i \in 1..Len(todo') : todo'[i] = x
  BY <1>1, <1>3, PoolOrderIs
<1>5. todo' \in Seq(Ids) /\ \A i \in 1..Len(todo') : todo'[i] \in Carriers(s)
  BY <1>3, <1>4
<1>6. TypeInv'
  BY <1>1, <1>2, <1>5 DEF TreeInv, TypeInv
<1>7. ASSUME NEW x \in Carriers(s) PROVE Pending(up, x)'
  <2>1. UpInv(up) /\ AllAlike(kind, up) /\ TypeInv /\ x \in Ids
    BY DEF TreeInv, KindInv, Carriers
  <2>2. PICK r \in up[x] : parent[r] = None
    BY <2>1 DEF UpInv
  <2>3. r \in Ids
    BY <2>1 DEF UpInv
  <2>4. r \in Carriers(s)
    BY <2>1, <2>3, CarriersAlike
  <2>5. PICK i \in 1..Len(todo') : todo'[i] = r
    BY <1>3, <1>4, <2>2, <2>4
  <2> QED BY <2>5 DEF Pending
<1>8. UpdateInv(up)'
  <2>1. ASSUME NEW x \in Carriers(updating)' PROVE Pending(up, x)'
    BY <1>1, <1>2, <1>7, <2>1 DEF Carriers
  <2>2. ASSUME NEW c \in Ids, NEW d \in Ids, updating' = "layout", Begun(c, d)'
        PROVE  Pending(up, parent[c])'
    <3>1. parent[c] # None /\ kind[c] = "panel"
      BY <1>2, <2>2 DEF Begun
    <3>2. LinksTyped /\ UpInv(up) /\ AllAlike(kind, up) /\ TypeInv
      BY DEF TreeInv, TypeInv, KindInv
    <3>3. c \in Carriers(s)
      BY <1>1, <2>2, <3>1 DEF Carriers
    <3>4. parent[c] \in Ids /\ parent[c] \in up[c]
      BY <3>1, <3>2, Family
    <3>5. PICK p : p = parent[c]
      OBVIOUS
    <3>6. p \in Ids /\ p \in up[c]
      BY <3>4, <3>5
    <3>7. p \in Carriers(s)
      BY <3>2, <3>3, <3>6, CarriersAlike
    <3>8. Pending(up, p)'
      BY <1>7, <3>7
    <3>9. parent'[c] = p
      BY <1>2, <3>5
    <3> QED BY <3>8, <3>9 DEF Pending
  <2>3. \A i \in 1..Len(todo') : todo'[i] \in Carriers(updating)'
    BY <1>1, <1>2, <1>5 DEF Carriers
  <2> QED BY <1>2, <2>1, <2>2, <2>3 DEF UpdateInv
<1> QED BY <1>2, <1>6, <1>8 DEF TreeInv

\* What is left to visit once an entity is replaced by its children.
Replaces(t, e) ==
  /\ e \in Ids /\ \E i \in 1..Len(todo) : e = todo[i]
  /\ t \in Seq(Ids)
  /\ \A i \in 1..Len(t) : (\E j \in 1..Len(todo) : t[i] = todo[j]) \/ parent[t[i]] = e
  /\ \A i \in 1..Len(todo) : todo[i] # e => \E j \in 1..Len(t) : t[j] = todo[i]
  /\ \A c \in Ids : parent[c] = e => \E j \in 1..Len(t) : t[j] = c

LEMMA Replaced ==
  ASSUME LinksTyped, NEW kids, KidsInv(kids), todo \in Seq(Ids), todo # <<>>,
         NEW e, e = Last(todo), NEW t, t = Front(todo) \o Children(e)
  PROVE  Replaces(t, e)
<1> DEFINE n == Len(todo)
           F == Front(todo)
           cs == kids[e]
<1>1. n \in Nat \ {0} /\ n \in 1..n /\ e = todo[n] /\ e \in Ids /\ e # None
  BY IdsAre DEF Last
<1>2. cs \in Seq(Ids) /\ Len(cs) \in Nat
  BY <1>1 DEF KidsInv
<1>3. /\ \A i \in 1..Len(cs) : parent[cs[i]] = e
      /\ \A c \in Ids : parent[c] = e => \E i \in 1..Len(cs) : cs[i] = c
  BY <1>1 DEF KidsInv
<1>4. F \in Seq(Ids) /\ Len(F) = n - 1 /\ \A i \in 1..n - 1 : F[i] = todo[i]
  BY FrontFacts
<1>5. t = F \o cs
  BY <1>1, ChildrenAre
<1> HIDE DEF F, cs, n
<1>6. /\ t \in Seq(Ids) /\ Len(t) = n - 1 + Len(cs)
      /\ \A i \in 1..n - 1 : t[i] = F[i]
      /\ \A i \in 1..Len(cs) : t[n - 1 + i] = cs[i]
  <2>1. /\ t \in Seq(Ids) /\ Len(t) = Len(F) + Len(cs)
        /\ \A i \in 1..Len(t) : t[i] = IF i <= Len(F) THEN F[i] ELSE cs[i - Len(F)]
    BY <1>2, <1>4, <1>5, ConcatProperties
  <2>0. n \in Nat \ {0} /\ Len(F) = n - 1 /\ Len(cs) \in Nat /\ Len(t) = Len(F) + Len(cs)
    BY <1>1, <1>2, <1>4, <2>1
  <2>2. \A i \in 1..n - 1 : i \in 1..Len(t) /\ i <= Len(F)
    BY <2>0
  <2>3. \A i \in 1..Len(cs) : /\ n - 1 + i \in 1..Len(t) /\ ~(n - 1 + i <= Len(F))
                              /\ n - 1 + i - Len(F) = i
    BY <2>0
  <2> QED BY <1>4, <2>1, <2>2, <2>3
<1>7. ASSUME NEW i \in 1..Len(t) PROVE (\E j \in 1..n : t[i] = todo[j]) \/ parent[t[i]] = e
  <2>1. CASE i \in 1..n - 1
    <3>1. t[i] = todo[i] /\ i \in 1..n
      BY <1>1, <1>4, <1>6, <2>1
    <3> QED BY <3>1
  <2>2. CASE i \notin 1..n - 1
    <3>1. i - (n - 1) \in 1..Len(cs) /\ i = n - 1 + (i - (n - 1))
      BY <1>1, <1>2, <1>6, <2>2
    <3>2. t[i] = cs[i - (n - 1)]
      BY <1>6, <3>1
    <3> QED BY <1>3, <3>1, <3>2
  <2> QED BY <2>1, <2>2
<1>8. ASSUME NEW i \in 1..n, todo[i] # e PROVE \E j \in 1..Len(t) : t[j] = todo[i]
  <2>1. i # n
    BY <1>1, <1>8
  <2>2. i \in 1..n - 1 /\ i \in 1..Len(t)
    BY <1>1, <1>2, <1>6, <2>1
  <2> QED BY <1>4, <1>6, <2>2
<1>9. ASSUME NEW c \in Ids, parent[c] = e PROVE \E j \in 1..Len(t) : t[j] = c
  <2>1. PICK i \in 1..Len(cs) : cs[i] = c
    BY <1>3, <1>9
  <2>2. n - 1 + i \in 1..Len(t) /\ t[n - 1 + i] = c
    BY <1>1, <1>2, <1>6, <2>1
  <2> QED BY <2>2
<1> QED BY <1>1, <1>6, <1>7, <1>8, <1>9 DEF n, Replaces

\* Whoever waited for the visited entity was it, or waits for one of its children.
LEMMA VisitKeeps ==
  ASSUME NEW kids, NEW up, TreeInv(kids, up), UNCHANGED Shape,
         updating \in Systems, updating' = updating,
         NEW e, e = Last(todo), todo # <<>>, todo' = Front(todo) \o Children(e),
         world' = [world EXCEPT ![e] = Compose(e, local[e])],
         local' \in [Ids -> Nat], \A x \in Ids : parent[x] # e => local'[x] = local[x],
         \A c, d \in Ids : updating = "layout" /\ Begun(c, d) /\ parent[c] = e => local'[c] < local'[d]
  PROVE  TreeInv(kids, up)'
<1>1. /\ TypeInv /\ LinksTyped /\ KidsInv(kids) /\ UpInv(up) /\ AllAlike(kind, up)
      /\ todo \in Seq(Ids)
  BY DEF TreeInv, TypeInv, KindInv
<1>2. LinksTyped' /\ KidsInv(kids)' /\ UpInv(up)' /\ KindInv(up)' /\ OrderInv(kids)'
      /\ UNCHANGED <<nextID, kind, parent, stack>> /\ Carriers(updating)' = Carriers(updating)
  <2>1. \A s : Carriers(s)' = Carriers(s)
    BY SameShape
  <2>2. Carriers(updating)' = Carriers(updating)
    BY <2>1 DEF Carriers
  <2> QED BY <2>2, SameShape
<1>3. /\ e \in Ids /\ \E i \in 1..Len(todo) : e = todo[i]
      /\ todo' \in Seq(Ids)
      /\ \A i \in 1..Len(todo') : (\E j \in 1..Len(todo) : todo'[i] = todo[j]) \/ parent[todo'[i]] = e
      /\ \A i \in 1..Len(todo) : todo[i] # e => \E j \in 1..Len(todo') : todo'[j] = todo[i]
      /\ \A c \in Ids : parent[c] = e => \E j \in 1..Len(todo') : todo'[j] = c
  <2>1. PICK t : t = todo'
    OBVIOUS
  <2>2. t = Front(todo) \o Children(e)
    BY <2>1
  <2>3. Replaces(t, e)
    BY <1>1, <2>2, Replaced
  <2> QED BY <2>1, <2>3 DEF Replaces
<1>4. UpdateInv(up) /\ updating # "no"
  BY DEF TreeInv, Systems
<1>5. /\ \A i \in 1..Len(todo) : todo[i] \in Carriers(updating)
      /\ \A x \in Carriers(updating) : Pending(up, x) \/ world[x] = Compose(x, local[x])
      /\ updating = "layout" =>
           \A c, d \in Ids : Begun(c, d) => Pending(up, parent[c]) \/ local[c] < local[d]
  BY <1>4 DEF UpdateInv
<1>6. e \in Carriers(updating)
  BY <1>3, <1>5
<1>7. \A x \in Ids : parent[x] # None =>
        parent[x] \in Ids /\ parent[x] # x /\ parent[x] \in up[x]
  BY <1>1, Family
<1>8. \A i \in 1..Len(todo') : todo'[i] \in Carriers(updating)
  <2> SUFFICES ASSUME NEW i \in 1..Len(todo') PROVE todo'[i] \in Carriers(updating)
    OBVIOUS
  <2>1. CASE \E j \in 1..Len(todo) : todo'[i] = todo[j]
    BY <1>5, <2>1
  <2>2. CASE parent[todo'[i]] = e
    <3>1. PICK x : x = todo'[i]
      OBVIOUS
    <3>2. x \in Ids
      <4>1. todo' \in Seq(Ids)
        BY <1>3
      <4> QED BY <3>1, <4>1
    <3>3. e \in up[x]
      <4>1. parent[x] = e /\ e # None
        BY <1>3, <2>2, <3>1, IdsAre
      <4> QED BY <1>7, <3>2, <4>1
    <3>4. x \in Carriers(updating)
      <4>1. PICK s \in Systems : s = updating
        OBVIOUS
      <4>2. e \in Carriers(s)
        BY <1>6, <4>1
      <4>3. x \in Carriers(s)
        BY <1>1, <3>2, <3>3, <4>2, CarriersAlike
      <4> QED BY <4>1, <4>3
    <3> QED BY <3>1, <3>4
  <2> QED BY <1>3, <2>1, <2>2
<1>9. \A c \in Ids : parent[c] = e => Pending(up, c)'
  <2> SUFFICES ASSUME NEW c \in Ids, parent[c] = e PROVE Pending(up, c)'
    OBVIOUS
  <2>1. PICK j \in 1..Len(todo') : todo'[j] = c
    BY <1>3
  <2>2. c \in up[c]
    BY <1>1, Family
  <2> QED BY <2>1, <2>2 DEF Pending
<1>10. \A x \in Ids : Pending(up, x) /\ x # e => Pending(up, x)'
  <2> SUFFICES ASSUME NEW x \in Ids, Pending(up, x), x # e PROVE Pending(up, x)'
    OBVIOUS
  <2>1. PICK i \in 1..Len(todo) : todo[i] \in up[x]
    BY DEF Pending
  <2>2. CASE todo[i] # e
    <3>1. PICK j \in 1..Len(todo') : todo'[j] = todo[i]
      BY <1>3, <2>2
    <3> QED BY <2>1, <3>1 DEF Pending
  <2>3. CASE todo[i] = e
    <3>1. PICK c \in up[x] : parent[c] = e
      <4>1. e \in up[x] \ {x}
        BY <2>1, <2>3
      <4>2. \A y \in Ids : \A z \in up[y] \ {y} : \E c \in up[y] : parent[c] = z
        BY <1>1 DEF UpInv
      <4> QED BY <4>1, <4>2
    <3>2. c \in Ids
      BY <1>1 DEF UpInv
    <3>3. PICK j \in 1..Len(todo') : todo'[j] = c
      BY <1>3, <3>1, <3>2
    <3> QED BY <3>3 DEF Pending
  <2> QED BY <2>2, <2>3
<1>11. ASSUME NEW x \in Carriers(updating)
       PROVE  Pending(up, x)' \/ world'[x] = Compose(x, local[x])'
  <2>0. x \in Ids /\ parent' = parent /\ world \in [Ids -> Seq(Nat)]
    BY <1>1, <1>2 DEF Carriers, TypeInv
  <2>1. CASE parent[x] = e
    BY <1>9, <2>0, <2>1
  <2>2. CASE parent[x] # e
    <3>1. /\ local'[x] = local[x]
          /\ parent[x] # None => parent[x] \in Ids /\ world'[parent[x]] = world[parent[x]]
      BY <1>7, <2>0, <2>2
    <3>2. Compose(x, local[x])' = Compose(x, local[x])
      BY <2>0, <3>1 DEF Compose
    <3>3. CASE x = e
      <4>1. world'[x] = Compose(x, local[x])
        BY <2>0, <3>3
      <4> QED BY <3>2, <4>1
    <3>4. CASE x # e
      <4>1. world'[x] = world[x]
        BY <2>0, <3>4
      <4>2. Pending(up, x) \/ world[x] = Compose(x, local[x])
        BY <1>5
      <4> QED BY <1>10, <2>0, <3>2, <3>4, <4>1, <4>2
    <3> QED BY <3>3, <3>4
  <2> QED BY <2>1, <2>2
<1>12. ASSUME NEW c \in Ids, NEW d \in Ids, updating = "layout", Begun(c, d)
       PROVE  Pending(up, parent[c])' \/ local'[c] < local'[d]
  <2>0. parent[c] # None /\ parent[d] = parent[c] /\ parent' = parent
    BY <1>2, <1>12 DEF Begun
  <2>1. CASE parent[c] = e
    BY <1>12, <2>1
  <2>2. CASE parent[c] # e
    <3>1. PICK p \in Ids : p = parent[c]
      BY <1>7, <2>0
    <3>2. local'[c] = local[c] /\ local'[d] = local[d]
      BY <2>0, <2>2
    <3>3. Pending(up, p) \/ local[c] < local[d]
      BY <1>5, <1>12, <3>1 DEF Pending
    <3>4. Pending(up, p)' \/ local'[c] < local'[d]
      BY <1>10, <2>2, <3>1, <3>2, <3>3
    <3>5. parent'[c] = p
      BY <2>0, <3>1
    <3> QED BY <3>4, <3>5 DEF Pending
  <2> QED BY <2>1, <2>2
<1>13. UpdateInv(up)'
  <2>1. \A i \in 1..Len(todo') : todo'[i] \in Carriers(updating)'
    BY <1>2, <1>8
  <2>2. \A x \in Carriers(updating)' : Pending(up, x)' \/ world'[x] = Compose(x, local[x])'
    BY <1>2, <1>11
  <2>3. \A c, d \in Ids : Begun(c, d)' => Begun(c, d)
    BY <1>2 DEF Begun
  <2>4. updating' = "layout" =>
          \A c, d \in Ids : Begun(c, d)' => Pending(up, parent[c])' \/ local'[c] < local'[d]
    BY <1>12, <2>3
  <2> QED BY <2>1, <2>2, <2>4 DEF UpdateInv
<1>14. TypeInv'
  <2>1. world' \in [Ids -> Seq(Nat)]
    <3>1. Compose(e, local[e]) \in Seq(Nat)
      BY <1>1, <1>3, <1>7 DEF Compose, TypeInv
    <3> QED BY <1>1, <1>3, <3>1 DEF TypeInv
  <2> QED BY <1>1, <1>2, <1>3, <2>1 DEF TypeInv
<1> QED BY <1>2, <1>13, <1>14 DEF TreeInv

LEMMA VisitTransformStep ==
  ASSUME NEW kids, NEW up, TreeInv(kids, up), VisitTransform
  PROVE  TreeInv(kids, up)'
<1>1. PICK e : e = Last(todo)
  OBVIOUS
<1>2. /\ todo # <<>> /\ updating \in Systems /\ updating # "layout" /\ updating' = updating
      /\ UNCHANGED Shape /\ local' = local
      /\ todo' = Front(todo) \o Children(e)
      /\ world' = [world EXCEPT ![e] = Compose(e, local[e])]
  BY <1>1 DEF VisitTransform, Shape, Systems, links, Pushed, Compose, Children
<1>3. local' \in [Ids -> Nat] /\ \A x \in Ids : parent[x] # e => local'[x] = local[x]
  BY <1>2 DEF TreeInv, TypeInv
<1> QED BY <1>1, <1>2, <1>3, VisitKeeps

\* The place a layout gives an entity is that in the list of its parent, from the end.
LEMMA PlaceOf ==
  ASSUME NEW s, s \in Seq(Ids), \A i, j \in 1..Len(s) : s[i] = s[j] => i = j, NEW i \in 1..Len(s)
  PROVE  /\ s[i] \in Range(Reverse(s))
         /\ (CHOOSE k \in DOMAIN Reverse(s) : Reverse(s)[k] = s[i]) = Len(s) - i + 1
<1> DEFINE n == Len(s)
           r == Reverse(s)
<1>1. n \in Nat /\ i \in Nat
  OBVIOUS
<1>2. DOMAIN r = 1..n /\ \A k \in 1..n : r[k] = s[n - k + 1]
  BY DEF Reverse
<1>3. n - i + 1 \in 1..n /\ n - (n - i + 1) + 1 = i
  BY <1>1
<1> HIDE DEF r, n
<1>4. r[n - i + 1] = s[i]
  BY <1>2, <1>3
<1>5. ASSUME NEW k \in 1..n, r[k] = s[i] PROVE k = n - i + 1
  <2>1. n - k + 1 \in 1..n /\ s[n - k + 1] = s[i]
    BY <1>1, <1>2, <1>5
  <2>2. n - k + 1 = i
    BY <2>1 DEF n
  <2> QED BY <1>1, <2>2
<1>6. (CHOOSE k \in DOMAIN r : r[k] = s[i]) = n - i + 1
  BY <1>2, <1>3, <1>4, <1>5
<1>7. s[i] \in Range(r)
  BY <1>2, <1>3, <1>4 DEF Range
<1> QED BY <1>6, <1>7 DEF r, n

LEMMA VisitRectStep ==
  ASSUME NEW kids, NEW up, TreeInv(kids, up), VisitRect
  PROVE  TreeInv(kids, up)'
<1>1. PICK e : e = Last(todo)
  OBVIOUS
<1>2. /\ todo # <<>> /\ updating \in Systems /\ updating' = updating
      /\ UNCHANGED Shape
      /\ todo' = Front(todo) \o Children(e)
      /\ world' = [world EXCEPT ![e] = Compose(e, local[e])]
  BY <1>1 DEF VisitRect, Shape, Systems, links, Pushed, Compose, Children
<1>3. /\ local' = [c \in Ids |-> IF parent[c] = e /\ c \in Range(Reverse(Children(e)))
                                THEN CHOOSE i \in DOMAIN Reverse(Children(e)) : Reverse(Children(e))[i] = c
                                ELSE local[c]]
  BY <1>1 DEF VisitRect, Placed, Children
<1>4. /\ LinksTyped /\ KidsInv(kids) /\ OrderInv(kids) /\ todo \in Seq(Ids) /\ local \in [Ids -> Nat]
  BY DEF TreeInv, TypeInv
<1>5. e \in Ids
  <2>1. Len(todo) \in 1..Len(todo)
    BY <1>2, <1>4
  <2> QED BY <1>1, <1>4, <2>1 DEF Last
<1> DEFINE s == kids[e]
<1>6. Children(e) = s
  BY <1>4, <1>5, ChildrenAre
<1>7. /\ s \in Seq(Ids) /\ Len(s) \in Nat /\ \A i, j \in 1..Len(s) : s[i] = s[j] => i = j
      /\ \A c \in Ids : parent[c] = e => \E i \in 1..Len(s) : s[i] = c
  <2>1. KidsInv(kids) /\ e # None
    BY <1>4, <1>5, IdsAre
  <2>2. s \in Seq(Ids) /\ Len(s) \in Nat
    BY <1>5, <2>1 DEF KidsInv
  <2>3. \A i, j \in 1..Len(s) : s[i] = s[j] => i = j
    BY <1>5, <2>1 DEF KidsInv
  <2>4. \A c \in Ids : parent[c] = e => \E i \in 1..Len(s) : s[i] = c
    BY <2>1 DEF KidsInv
  <2> QED BY <2>2, <2>3, <2>4
<1> HIDE DEF s
<1>8. ASSUME NEW i \in 1..Len(s), parent[s[i]] = e PROVE local'[s[i]] = Len(s) - i + 1
  <2>1. /\ s[i] \in Range(Reverse(s))
        /\ (CHOOSE k \in DOMAIN Reverse(s) : Reverse(s)[k] = s[i]) = Len(s) - i + 1
    BY <1>7, PlaceOf
  <2>2. PICK c \in Ids : c = s[i]
    BY <1>7
  <2>3. local'[c] = CHOOSE k \in DOMAIN Reverse(s) : Reverse(s)[k] = c
    BY <1>3, <1>6, <1>8, <2>1, <2>2
  <2> QED BY <2>1, <2>2, <2>3
<1>9. \A x \in Ids : parent[x] # e => local'[x] = local[x]
  BY <1>3
<1>10. local' \in [Ids -> Nat]
  <2>1. ASSUME NEW x \in Ids PROVE local'[x] \in Nat
    <3>1. CASE parent[x] = e
      <4>1. PICK i \in 1..Len(s) : s[i] = x
        BY <1>7, <3>1
      <4>2. local'[x] = Len(s) - i + 1
        BY <1>8, <3>1, <4>1
      <4> QED BY <1>7, <4>2
    <3>2. CASE parent[x] # e
      BY <1>4, <1>9, <3>2
    <3> QED BY <3>1, <3>2
  <2>2. local' = [x \in Ids |-> local'[x]]
    BY <1>3
  <2> QED BY <2>1, <2>2
<1>11. ASSUME NEW c \in Ids, NEW d \in Ids, Begun(c, d), parent[c] = e PROVE local'[c] < local'[d]
  <2>1. c < d /\ parent[d] = e /\ kind[c] = "panel" /\ kind[d] = "panel"
    BY <1>11 DEF Begun
  <2>2. PICK i \in 1..Len(s) : s[i] = c
    BY <1>7, <1>11
  <2>3. PICK j \in 1..Len(s) : s[j] = d
    BY <1>7, <2>1
  <2>4. local'[c] = Len(s) - i + 1 /\ local'[d] = Len(s) - j + 1
    BY <1>8, <1>11, <2>1, <2>2, <2>3
  <2>5. c \in Nat /\ d \in Nat
    BY DEF Ids
  <2>6. i # j
    BY <2>1, <2>2, <2>3, <2>5
  <2>7. ~(i < j)
    <3> SUFFICES ASSUME i < j PROVE FALSE
      OBVIOUS
    <3>1. s[j] < s[i]
      BY <1>4, <1>5, <2>1, <2>2, <2>3 DEF OrderInv, s
    <3> QED BY <2>1, <2>2, <2>3, <2>5, <3>1
  <2> QED BY <1>7, <2>4, <2>6, <2>7
<1>12. \A c, d \in Ids : updating = "layout" /\ Begun(c, d) /\ parent[c] = e => local'[c] < local'[d]
  BY <1>11
<1> QED BY <1>1, <1>2, <1>9, <1>10, <1>12, VisitKeeps

-----------------------------------------------------------------------------

\* The inductive invariant: the links describe some lists of children, without a cycle.
Inv == \E kids, up : TreeInv(kids, up)

\* A tree without entities: nobody has children, and nobody is above another.
LEMMA TreeInit == Init => Inv
<1> SUFFICES ASSUME Init PROVE Inv
  OBVIOUS
<1> DEFINE kids == [e \in Ids |-> <<>>]
           up == [e \in Ids |-> {e}]
<1>1. /\ nextID = 1 /\ stack = <<>> /\ todo = <<>> /\ updating = "no"
      /\ \A e \in Ids : /\ kind[e] = "none" /\ parent[e] = None /\ firstChild[e] = None
                        /\ nextSibling[e] = None
      /\ kind \in [Ids -> {"none", "scene", "panel", "scroll"}]
      /\ local \in [Ids -> Nat] /\ world \in [Ids -> Seq(Nat)]
  BY DEF Init
<1>2. LinksTyped
  BY DEF Init, LinksTyped
<1>3. TypeInv
  BY <1>1, <1>2 DEF TypeInv
<1>4. KidsInv(kids)
  BY <1>1 DEF KidsInv
<1>5. UpInv(up)
  BY <1>1 DEF UpInv
<1>6. KindInv(up)
  <2>1. \A e \in Ids : e \in Nat /\ e >= 1
    BY DEF Ids
  <2>2. \A e \in Ids : kind[e] = "none" <=> e >= nextID
    BY <1>1, <2>1
  <2>3. AllAlike(kind, up)
    BY DEF AllAlike
  <2> QED BY <1>1, <2>2, <2>3 DEF KindInv
<1>7. OrderInv(kids)
  BY DEF OrderInv
<1>8. UpdateInv(up)
  BY <1>1 DEF UpdateInv
<1> QED BY <1>3, <1>4, <1>5, <1>6, <1>7, <1>8 DEF Inv, TreeInv

LEMMA TreeStep == Inv /\ [Next]_vars => Inv'
<1> SUFFICES ASSUME Inv, [Next]_vars PROVE Inv'
  OBVIOUS
<1>1. PICK kids, up : TreeInv(kids, up)
  BY DEF Inv
<1> SUFFICES \E k, u : TreeInv(k, u)'
  BY DEF Inv
<1>2. CASE CreateSceneEntity
  BY <1>1, <1>2, CreateSceneEntityStep
<1>3. CASE Begin
  BY <1>1, <1>3, BeginStep
<1>4. CASE BeginScroll
  BY <1>1, <1>4, BeginScrollStep
<1>5. CASE End \/ EndScroll
  BY <1>1, <1>5, EndSteps
<1>6. ASSUME NEW c \in Ids, NEW p \in Ids, AttachSceneEntity(c, p) PROVE \E k, u : TreeInv(k, u)'
  BY <1>1, <1>6, AttachSceneEntityStep
<1>7. ASSUME NEW e \in Ids, NEW v \in Locals, Animate(e, v) PROVE \E k, u : TreeInv(k, u)'
  <2>1. TreeInv(kids, up)'
    BY <1>1, <1>7, AnimateStep
  <2> QED BY <2>1
<1>8. ASSUME NEW s \in {"transform", "layout"}, StartUpdate(s) PROVE \E k, u : TreeInv(k, u)'
  <2>1. s \in Systems
    BY DEF Systems
  <2>2. TreeInv(kids, up)'
    BY <1>1, <1>8, <2>1, StartUpdateStep
  <2> QED BY <2>2
<1>9. CASE VisitTransform
  <2>1. TreeInv(kids, up)'
    BY <1>1, <1>9, VisitTransformStep
  <2> QED BY <2>1
<1>10. CASE VisitRect
  <2>1. TreeInv(kids, up)'
    BY <1>1, <1>10, VisitRectStep
  <2> QED BY <2>1
<1>11. CASE EndUpdate
  <2>1. TreeInv(kids, up)'
    BY <1>1, <1>11, EndUpdateStep
  <2> QED BY <2>1
<1>12. CASE UNCHANGED vars
  <2>1. UNCHANGED Shape /\ UNCHANGED <<local, world, todo, updating>>
    BY <1>12 DEF vars, Shape, links
  <2>2. /\ LinksTyped' /\ KidsInv(kids)' /\ UpInv(up)' /\ KindInv(up)' /\ OrderInv(kids)'
        /\ UNCHANGED <<nextID, kind, parent, stack>>
    BY <1>1, <2>1, SameShape
  <2>3. TypeInv'
    BY <1>1, <2>1, <2>2 DEF TreeInv, TypeInv
  <2>4. UpdateInv(up)'
    <3>1. UpdateInv(up)
      BY <1>1 DEF TreeInv
    <3> QED BY <2>1, <2>2, <3>1 DEF UpdateInv, Pending, Compose, Carriers, Begun
  <2>5. TreeInv(kids, up)'
    BY <2>2, <2>3, <2>4 DEF TreeInv
  <2> QED BY <2>5
<1> QED BY <1>2, <1>3, <1>4, <1>5, <1>6, <1>7, <1>8, <1>9, <1>10, <1>11, <1>12 DEF Next

\* The list of each entity holds its children once each, and nobody is above itself.
LEMMA InvForest == Inv => Forest
<1> SUFFICES ASSUME NEW kids, NEW up, TreeInv(kids, up), NEW e \in Ids
             PROVE  /\ IsInjective(Children(e))
                    /\ Range(Children(e)) = {c \in Ids : parent[c] = e}
                    /\ parent[e] # None => ~IsAncestor(e, parent[e])
  BY DEF Inv, Forest
<1>1. LinksTyped /\ KidsInv(kids) /\ UpInv(up)
  BY DEF TreeInv, TypeInv
<1>2. Children(e) = kids[e] /\ e # None
  BY <1>1, ChildrenAre, IdsAre
<1>3. kids[e] \in Seq(Ids) /\ DOMAIN kids[e] = 1..Len(kids[e])
  BY <1>1 DEF KidsInv
<1>4. IsInjective(kids[e])
  BY <1>1, <1>3 DEF KidsInv, IsInjective
<1>5. \A i \in 1..Len(kids[e]) : kids[e][i] \in Ids /\ parent[kids[e][i]] = e
  BY <1>1, <1>3 DEF KidsInv
<1>6. \A c \in Ids : parent[c] = e => \E i \in 1..Len(kids[e]) : kids[e][i] = c
  <2>1. KidsInv(kids) /\ e # None
    BY <1>1, <1>2
  <2> QED BY <2>1 DEF KidsInv
<1>7. Range(kids[e]) = {c \in Ids : parent[c] = e}
  BY <1>3, <1>5, <1>6 DEF Range
<1>8. ASSUME parent[e] # None PROVE ~IsAncestor(e, parent[e])
  <2>1. PICK p \in Ids : p = parent[e]
    BY <1>1, <1>8 DEF LinksTyped
  <2>2. e \notin up[p]
    BY <1>1, <1>8, <2>1 DEF UpInv
  <2>3. ~IsAncestor(e, p)
    BY <1>1, <2>2, AncestorsAre
  <2> QED BY <2>1, <2>3
<1> QED BY <1>2, <1>4, <1>7, <1>8

\* Once nothing is left to visit nothing is pending.
LEMMA InvUpdated == Inv => UpdateComplete /\ BegunInOrder
<1> SUFFICES ASSUME NEW kids, NEW up, TreeInv(kids, up) PROVE UpdateComplete /\ BegunInOrder
  BY DEF Inv
<1>1. UpdateInv(up)
  BY DEF TreeInv
<1>2. todo = <<>> => \A x : ~Pending(up, x)
  BY DEF Pending
<1>3. UpdateComplete
  BY <1>1, <1>2 DEF UpdateComplete, UpdateInv
<1>4. BegunInOrder
  <2> SUFFICES ASSUME updating = "layout", todo = <<>>, NEW c \in Ids, NEW d \in Ids, Begun(c, d)
               PROVE  local[c] < local[d]
    BY DEF BegunInOrder, Begun
  <2> QED BY <1>1, <1>2 DEF UpdateInv
<1> QED BY <1>3, <1>4

\* What holds of the hierarchy in every state: the links are those of lists of
\* children in a forest, and a running update has still to visit whatever is not
\* yet up to date, or something above it.
THEOREM TreeCorrect == Spec => []Inv
BY TreeInit, TreeStep, PTL DEF Spec

\* However entities are attached, by attachEntity in front and by
\* beginScrollContainer behind, each is once in the list of its parent and none
\* is above itself.
THEOREM LinksAreForest == Spec => []Forest
BY TreeCorrect, InvForest, PTL

\* When TransformSystem::update or UILayoutSystem::update has emptied its stack,
\* every entity it is for is composed from its parent as that is now.
THEOREM UpdatesAreComplete == Spec => []UpdateComplete
<1>1. Inv => UpdateComplete
  BY InvUpdated
<1> QED BY TreeCorrect, <1>1, PTL

\* The layout puts the children that UIBuilder::begin made in the order they were
\* made, against that of their links.
THEOREM BegunArePlacedInOrder == Spec => []BegunInOrder
<1>1. Inv => BegunInOrder
  BY InvUpdated
<1> QED BY TreeCorrect, <1>1, PTL
=============================================================================
