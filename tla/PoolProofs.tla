----------------------------- MODULE PoolProofs -----------------------------
(***************************************************************************)
(* What the memory pool guarantees for every size, every order of calls    *)
(* and every number of damages to its memory.                              *)
(*                                                                         *)
(* The invariant SoundPoolWorks is not inductive: that the free list has   *)
(* the right length does not say that its nodes are distinct.  SoundList   *)
(* adds that, and is kept by the two operations that change the list.      *)
(***************************************************************************)
EXTENDS Pool, FiniteSetTheorems, TLAPS

\* w visits the k nodes of F, each of them once, along the links l from h.
Threads(w, k, h, l, F) ==
  /\ w \in [0..k -> Nodes \cup {Null}]
  /\ w[0] = h
  /\ w[k] = Null
  /\ \A i \in 0..(k - 1) : w[i] \in F /\ w[i + 1] = l[w[i]]
  /\ \A i, j \in 0..(k - 1) : w[i] = w[j] => i = j
  /\ \A n \in F : \E i \in 0..(k - 1) : w[i] = n

SoundList(h, l, F) ==
  /\ F \subseteq Nodes
  /\ \E w : Threads(w, Cardinality(F), h, l, F)

\* No set of nodes has more than PoolSize members.
LEMMA NodesCardinality ==
  ASSUME NEW F \in SUBSET Nodes
  PROVE  IsFiniteSet(F) /\ Cardinality(F) \in 0..PoolSize
<1>1. IsFiniteSet(Nodes) /\ Cardinality(Nodes) = PoolSize
  BY PoolAssumption, FS_Interval DEF Nodes
<1>2. IsFiniteSet(F) /\ Cardinality(F) <= PoolSize
  BY <1>1, FS_Subset
<1>3. QED
  BY <1>2, FS_CardinalityType, PoolAssumption

\* A sound list without a head holds nothing, and its head is one of its nodes.
LEMMA SoundListHead ==
  ASSUME NEW h, NEW l, NEW F, SoundList(h, l, F)
  PROVE  h \in F \/ (h = Null /\ F = {})
<1>1. PICK w : Threads(w, Cardinality(F), h, l, F)
  BY DEF SoundList
<1>2. IsFiniteSet(F) /\ Cardinality(F) \in Nat
  BY NodesCardinality, PoolAssumption DEF SoundList
<1>3. CASE Cardinality(F) = 0
  BY <1>1, <1>2, <1>3, FS_EmptySet DEF Threads
<1>4. CASE Cardinality(F) # 0
  <2>1. 0 \in 0..(Cardinality(F) - 1)
    BY <1>2, <1>4
  <2>2. QED
    BY <1>1, <2>1 DEF Threads
<1>5. QED
  BY <1>3, <1>4

\* Allocation: without its head the list is a sound list of the other nodes.
LEMMA SoundListPop ==
  ASSUME NEW h, NEW l, NEW F, SoundList(h, l, F), h # Null
  PROVE  SoundList(l[h], l, F \ {h})
<1> DEFINE k == Cardinality(F)
<1>1. PICK w : Threads(w, k, h, l, F)
  BY DEF SoundList
<1>2. h \in F
  BY SoundListHead
<1>3. IsFiniteSet(F) /\ k \in Nat
  BY NodesCardinality, PoolAssumption DEF SoundList
<1>4. Cardinality(F \ {h}) = k - 1
  BY <1>2, <1>3, FS_RemoveElement
<1>5. k - 1 \in Nat
  BY <1>2, <1>3, FS_EmptySet
<1> DEFINE v == [i \in 0..(k - 1) |-> w[i + 1]]
<1> HIDE DEF k
<1>6. Threads(v, k - 1, l[h], l, F \ {h})
  <2>1. v \in [0..(k - 1) -> Nodes \cup {Null}]
    BY <1>1, <1>3 DEF Threads
  <2>2. v[0] = l[h] /\ v[k - 1] = Null
    <3>1. 0 \in 0..(k - 1) /\ w[0 + 1] = l[w[0]] /\ (k - 1) + 1 = k /\ 0 + 1 = 1
      BY <1>1, <1>3, <1>5 DEF Threads
    <3>2. v[0] = w[1] /\ v[k - 1] = w[k]
      BY <1>3, <1>5, <3>1
    <3>3. QED
      BY <1>1, <3>1, <3>2 DEF Threads
  <2>3. \A i \in 0..(k - 2) : v[i] \in F \ {h} /\ v[i + 1] = l[v[i]]
    <3>1. TAKE i \in 0..(k - 2)
    <3>2. i + 1 \in 0..(k - 1) /\ i \in 0..(k - 1) /\ i + 1 # 0 /\ 0 \in 0..(k - 1)
      BY <1>3, <1>5
    <3>3. w[i + 1] \in F /\ w[i + 1] # w[0] /\ w[(i + 1) + 1] = l[w[i + 1]]
      BY <1>1, <3>2 DEF Threads
    <3>4. v[i] = w[i + 1] /\ v[i + 1] = w[(i + 1) + 1]
      BY <3>2
    <3>5. QED
      BY <1>1, <3>3, <3>4 DEF Threads
  <2>4. \A i, j \in 0..(k - 2) : v[i] = v[j] => i = j
    BY <1>1, <1>3, <1>5 DEF Threads
  <2>5. \A n \in F \ {h} : \E i \in 0..(k - 2) : v[i] = n
    <3>1. TAKE n \in F \ {h}
    <3>2. PICK j \in 0..(k - 1) : w[j] = n
      BY <1>1 DEF Threads
    <3>3. j - 1 \in 0..(k - 2) /\ v[j - 1] = n
      BY <1>1, <1>3, <1>5, <3>2 DEF Threads
    <3>4. QED
      BY <3>3
  <2>6. (k - 1) - 1 = k - 2
    BY <1>3
  <2>7. QED
    BY <2>1, <2>2, <2>3, <2>4, <2>5, <2>6 DEF Threads
<1>7. QED
  BY <1>4, <1>6 DEF SoundList

\* Deallocation: a node put in front of the list makes it a sound list of the
\* larger set, whatever the link of that node was.
LEMMA SoundListPush ==
  ASSUME NEW h, NEW l \in [Nodes -> Pointers], NEW F, SoundList(h, l, F),
         NEW p \in Nodes \ F
  PROVE  SoundList(p, [l EXCEPT ![p] = h], F \cup {p})
<1> DEFINE k == Cardinality(F)
           m == [l EXCEPT ![p] = h]
<1>1. PICK w : Threads(w, k, h, l, F)
  BY DEF SoundList
<1>2. IsFiniteSet(F) /\ k \in Nat /\ F \subseteq Nodes
  BY NodesCardinality, PoolAssumption DEF SoundList
<1>3. Cardinality(F \cup {p}) = k + 1
  BY <1>2, FS_AddElement
<1> DEFINE v == [i \in 0..(k + 1) |-> IF i = 0 THEN p ELSE w[i - 1]]
<1> HIDE DEF k
<1>4. Threads(v, k + 1, p, m, F \cup {p})
  <2>1. v \in [0..(k + 1) -> Nodes \cup {Null}]
    BY <1>1, <1>2 DEF Threads
  <2>2. v[0] = p /\ v[k + 1] = Null
    BY <1>1, <1>2 DEF Threads
  <2>3. \A i \in 0..k : v[i] \in F \cup {p} /\ v[i + 1] = m[v[i]]
    <3>1. TAKE i \in 0..k
    <3>2. CASE i = 0
      BY <1>1, <1>2, <3>2 DEF Threads
    <3>3. CASE i # 0
      <4>1. i - 1 \in 0..(k - 1)
        BY <1>2, <3>3
      <4>2. w[i - 1] \in F /\ w[(i - 1) + 1] = l[w[i - 1]]
        BY <1>1, <4>1 DEF Threads
      <4>3. QED
        BY <1>2, <3>3, <4>2
    <3>4. QED
      BY <3>2, <3>3
  <2>4. \A i, j \in 0..k : v[i] = v[j] => i = j
    BY <1>1, <1>2 DEF Threads
  <2>5. \A n \in F \cup {p} : \E i \in 0..k : v[i] = n
    <3>1. TAKE n \in F \cup {p}
    <3>2. CASE n = p
      BY <1>2, <2>2, <3>2
    <3>3. CASE n # p
      <4>1. PICK j \in 0..(k - 1) : w[j] = n
        BY <1>1, <3>3 DEF Threads
      <4>2. j + 1 \in 0..k /\ v[j + 1] = n
        BY <1>2, <4>1
      <4>3. QED
        BY <4>2
    <3>4. QED
      BY <3>2, <3>3
  <2>6. (k + 1) - 1 = k
    BY <1>2
  <2>7. QED
    BY <2>1, <2>2, <2>3, <2>4, <2>5, <2>6 DEF Threads
<1>5. QED
  BY <1>2, <1>3, <1>4 DEF SoundList

\* A client's data over the link of a node off the list leave the list alone.
LEMMA SoundListUse ==
  ASSUME NEW h, NEW l \in [Nodes -> Pointers], NEW F, SoundList(h, l, F),
         NEW n \in Nodes \ F, NEW data
  PROVE  SoundList(h, [l EXCEPT ![n] = data], F)
<1>1. PICK w : Threads(w, Cardinality(F), h, l, F)
  BY DEF SoundList
<1>2. Threads(w, Cardinality(F), h, [l EXCEPT ![n] = data], F)
  BY <1>1 DEF Threads, SoundList
<1>3. QED
  BY <1>2 DEF SoundList
-----------------------------------------------------------------------------
\* A sound list passes the check of the free list, and is complete.
LEMMA SoundListPasses ==
  ASSUME SoundList(head, link, FreeNodes)
  PROVE  CheckFreeList /\ ListIsComplete
<1> DEFINE k == Cardinality(FreeNodes)
<1>1. k \in 0..PoolSize /\ IsFiniteSet(FreeNodes)
  BY NodesCardinality DEF FreeNodes
<1>2. PICK w : Threads(w, k, head, link, FreeNodes)
  BY DEF SoundList
<1> HIDE DEF k
<1>3. w \in Walks(k)
  <2>1. \A n \in FreeNodes : IsNode(n) /\ IsFree(n)
    BY DEF FreeNodes, IsNode
  <2>2. QED
    BY <1>2, <2>1 DEF Threads, Walks
<1>4. {w[i] : i \in 0..(k - 1)} = FreeNodes
  BY <1>2 DEF Threads
<1>5. CheckFreeList
  BY <1>1, <1>3 DEF CheckFreeList
<1>6. QED
  BY <1>3, <1>4, <1>5 DEF ListIsComplete, k

\* The constructor threads all nodes.
LEMMA InitSoundList == Init => SoundList(head, link, FreeNodes)
<1> SUFFICES ASSUME Init PROVE SoundList(head, link, FreeNodes)
  OBVIOUS
<1>1. FreeNodes = Nodes
  BY DEF Init, FreeNodes, IsFree
<1>2. Cardinality(Nodes) = PoolSize
  BY PoolAssumption, FS_Interval DEF Nodes
<1> DEFINE w == [i \in 0..PoolSize |-> IF i = PoolSize THEN Null ELSE i + 1]
<1>3. Threads(w, PoolSize, head, link, Nodes)
  <2>1. w \in [0..PoolSize -> Nodes \cup {Null}]
    BY PoolAssumption DEF Nodes
  <2>2. w[0] = head /\ w[PoolSize] = Null
    BY PoolAssumption DEF Init
  <2>3. \A i \in 0..(PoolSize - 1) : w[i] \in Nodes /\ w[i + 1] = link[w[i]]
    BY PoolAssumption DEF Init, Nodes
  <2>4. \A i, j \in 0..(PoolSize - 1) : w[i] = w[j] => i = j
    BY PoolAssumption
  <2>5. \A n \in Nodes : \E i \in 0..(PoolSize - 1) : w[i] = n
    <3>1. TAKE n \in Nodes
    <3>2. n - 1 \in 0..(PoolSize - 1) /\ w[n - 1] = n
      BY PoolAssumption DEF Nodes
    <3>3. QED
      BY <3>2
  <2>6. QED
    BY <2>1, <2>2, <2>3, <2>4, <2>5 DEF Threads
<1>4. QED
  BY <1>1, <1>2, <1>3 DEF SoundList

\* A head that passes the checks is NULL or a free node.
LEMMA CheckedHead == CheckPool => head = Null \/ (head \in Nodes /\ IsFree(head))
<1> SUFFICES ASSUME CheckPool, head # Null
             PROVE  head \in Nodes /\ IsFree(head)
  OBVIOUS
<1>1. PICK k \in 0..PoolSize : Walks(k) # {}
  BY DEF CheckPool, CheckStandardMarkers, CheckFreeList
<1>2. PICK w \in Walks(k) : TRUE
  BY <1>1
<1>3. k # 0
  BY <1>2 DEF Walks
<1>4. 0 \in 0..(k - 1)
  BY <1>3, PoolAssumption
<1>5. QED
  BY <1>2, <1>4 DEF Walks, IsNode

-----------------------------------------------------------------------------
\* The inductive invariant: no damage frees a block under its owner, and an
\* undamaged pool is sound.
OwnedNotFree == \A n \in owned : ~IsFree(n)

Undamaged ==
  /\ standard
  /\ CheckStorage
  /\ owned = Nodes \ FreeNodes
  /\ SoundList(head, link, FreeNodes)

PoolInv == TypeOK /\ OwnedNotFree /\ (damages = 0 => Undamaged)

LEMMA InitPoolInv == Init => PoolInv
<1> SUFFICES ASSUME Init PROVE PoolInv
  OBVIOUS
<1>1. TypeOK
  BY PoolAssumption DEF Init, TypeOK, Nodes, Pointers, EngineError, NoError
<1>2. OwnedNotFree
  BY DEF Init, OwnedNotFree
<1>3. Undamaged
  BY InitSoundList DEF Init, Undamaged, CheckStorage, FreeNodes, IsFree
<1>4. QED
  BY <1>1, <1>2, <1>3 DEF PoolInv

\* A call that fails leaves the pool as it is.
LEMMA FailPoolInv ==
  ASSUME PoolInv, NEW e \in EngineError, NEW p \in Pointers, Fail(e, p)
  PROVE  PoolInv'
<1>1. TypeOK'
  BY DEF PoolInv, TypeOK, Fail, Return
<1>2. QED
  BY <1>1 DEF PoolInv, Fail, OwnedNotFree, Undamaged, CheckStorage, FreeNodes, IsFree

\* Allocation of the head keeps the invariant.
LEMMA AllocatePoolInv == PoolInv /\ Allocate => PoolInv'
<1> SUFFICES ASSUME PoolInv, Allocate PROVE PoolInv'
  OBVIOUS
<1>1. CASE ~CheckPool
  BY <1>1, FailPoolInv DEF Allocate, Pointers, EngineError, PoolIsCorrupted
<1>2. CASE CheckPool /\ head = Null
  BY <1>2, FailPoolInv DEF Allocate, Pointers, EngineError, PoolIsFull
<1>3. CASE CheckPool /\ head # Null
  <2>1. head \in Nodes /\ IsFree(head)
    BY <1>3, CheckedHead
  <2>2. /\ marker' = [marker EXCEPT ![head] = "busy"]
        /\ head' = link[head]
        /\ result' = [error |-> NoError, block |-> head]
        /\ owned' = owned \cup {head}
        /\ UNCHANGED <<link, standard, damages>>
    BY <1>3 DEF Allocate, Return
  <2>3. TypeOK'
    BY <2>1, <2>2 DEF PoolInv, TypeOK, Pointers, EngineError, NoError
  <2>4. OwnedNotFree'
    BY <2>1, <2>2 DEF PoolInv, TypeOK, OwnedNotFree, IsFree
  <2>5. ASSUME damages' = 0 PROVE Undamaged'
    <3>1. Undamaged
      BY <2>2, <2>5 DEF PoolInv
    <3>2. FreeNodes' = FreeNodes \ {head}
      BY <2>1, <2>2 DEF PoolInv, TypeOK, FreeNodes, IsFree
    <3>3. SoundList(head', link', FreeNodes')
      BY <1>3, <2>2, <3>1, <3>2, SoundListPop DEF Undamaged
    <3>4. CheckStorage'
      BY <2>1, <2>2, <3>1 DEF PoolInv, TypeOK, Undamaged, CheckStorage
    <3>5. owned' = Nodes \ FreeNodes'
      BY <2>1, <2>2, <3>1, <3>2 DEF Undamaged
    <3>6. QED
      BY <2>2, <3>1, <3>3, <3>4, <3>5 DEF Undamaged
  <2>6. QED
    BY <2>3, <2>4, <2>5 DEF PoolInv
<1>4. QED
  BY <1>1, <1>2, <1>3

\* Deallocation, of whatever pointer, keeps the invariant.
LEMMA DeallocatePoolInv ==
  ASSUME PoolInv, NEW p \in Pointers, Deallocate(p)
  PROVE  PoolInv'
<1>1. CASE ~CheckPool
  BY <1>1, FailPoolInv DEF Deallocate, EngineError, PoolIsCorrupted
<1>2. CASE CheckPool /\ ~IsNode(p)
  BY <1>2, FailPoolInv DEF Deallocate, EngineError, PoolInvalidObject
<1>3. CASE CheckPool /\ IsNode(p) /\ IsFree(p)
  BY <1>3, FailPoolInv DEF Deallocate, EngineError, PoolDoubleDelete
<1>4. CASE CheckPool /\ IsNode(p) /\ ~IsFree(p)
  <2>1. p \in Nodes /\ ~IsFree(p)
    BY <1>4 DEF IsNode
  <2>2. /\ link' = [link EXCEPT ![p] = head]
        /\ marker' = [marker EXCEPT ![p] = "free"]
        /\ head' = p
        /\ result' = [error |-> NoError, block |-> p]
        /\ owned' = owned \ {p}
        /\ UNCHANGED <<standard, damages>>
    BY <1>4 DEF Deallocate, Return
  <2>3. TypeOK'
    BY <2>1, <2>2 DEF PoolInv, TypeOK, EngineError, NoError
  <2>4. OwnedNotFree'
    BY <2>1, <2>2 DEF PoolInv, TypeOK, OwnedNotFree, IsFree
  <2>5. ASSUME damages' = 0 PROVE Undamaged'
    <3>1. Undamaged
      BY <2>2, <2>5 DEF PoolInv
    <3>2. FreeNodes' = FreeNodes \cup {p} /\ p \in Nodes \ FreeNodes
      BY <2>1, <2>2 DEF PoolInv, TypeOK, FreeNodes, IsFree
    <3>3. SoundList(head', link', FreeNodes')
      BY <2>2, <3>1, <3>2, SoundListPush DEF PoolInv, TypeOK, Undamaged
    <3>4. CheckStorage'
      BY <2>1, <2>2, <3>1 DEF PoolInv, TypeOK, Undamaged, CheckStorage
    <3>5. owned' = Nodes \ FreeNodes'
      BY <2>1, <2>2, <3>1, <3>2 DEF Undamaged
    <3>6. QED
      BY <2>2, <3>1, <3>3, <3>4, <3>5 DEF Undamaged
  <2>6. QED
    BY <2>3, <2>4, <2>5 DEF PoolInv
<1>5. QED
  BY <1>1, <1>2, <1>3, <1>4

\* A client that writes to its block keeps the invariant.
LEMMA UsePoolInv ==
  ASSUME PoolInv, NEW n \in Nodes, Use(n)
  PROVE  PoolInv'
<1>1. PICK data \in Pointers : link' = [link EXCEPT ![n] = data]
  BY DEF Use
<1>2. n \in owned /\ UNCHANGED <<marker, head, standard, owned, damages, result>>
  BY DEF Use
<1>3. TypeOK' /\ OwnedNotFree'
  BY <1>1, <1>2 DEF PoolInv, TypeOK, OwnedNotFree, IsFree
<1>4. ASSUME damages' = 0 PROVE Undamaged'
  <2>1. Undamaged /\ FreeNodes' = FreeNodes /\ n \in Nodes \ FreeNodes
    BY <1>2, <1>4 DEF PoolInv, Undamaged, FreeNodes, IsFree
  <2>2. SoundList(head', link', FreeNodes')
    BY <1>1, <1>2, <2>1, SoundListUse DEF PoolInv, TypeOK, Undamaged
  <2>3. QED
    BY <1>2, <2>1, <2>2 DEF Undamaged, CheckStorage
<1>5. QED
  BY <1>3, <1>4 DEF PoolInv

\* Damage keeps what holds of a damaged pool.
LEMMA DamagePoolInv ==
  ASSUME PoolInv,
         \/ \E n \in Nodes : DamageLink(n) \/ DamageMarker(n)
         \/ DamageHead
         \/ DamageStandard
  PROVE  PoolInv'
<1>1. Damage /\ UNCHANGED <<owned, result>>
  BY DEF DamageLink, DamageHead, DamageMarker, DamageStandard
<1>2. damages' \in 0..MaxDamages /\ damages' # 0
  BY <1>1, PoolAssumption DEF Damage, PoolInv, TypeOK
<1>3. TypeOK'
  BY <1>1, <1>2 DEF PoolInv, TypeOK, DamageLink, DamageHead, DamageMarker, DamageStandard
<1>4. OwnedNotFree'
  BY <1>1 DEF PoolInv, TypeOK, OwnedNotFree, IsFree, DamageLink, DamageHead,
              DamageMarker, DamageStandard
<1>5. QED
  BY <1>2, <1>3, <1>4 DEF PoolInv

LEMMA NextPoolInv == PoolInv /\ [Next]_vars => PoolInv'
<1> SUFFICES ASSUME PoolInv, [Next]_vars PROVE PoolInv'
  OBVIOUS
<1>1. CASE UNCHANGED vars
  BY <1>1 DEF vars, PoolInv, TypeOK, OwnedNotFree, Undamaged, CheckStorage, FreeNodes, IsFree
<1>2. QED
  BY <1>1, AllocatePoolInv, DeallocatePoolInv, UsePoolInv, DamagePoolInv DEF Next

\* The inductive invariant holds in every state of the pool.
LEMMA PoolInvariant == Spec => []PoolInv
  BY InitPoolInv, NextPoolInv, PTL DEF Spec

\* Links, markers, head and answers stay in their ranges, also when damaged.
THEOREM PoolTypeCorrect == Spec => []TypeOK
<1>1. PoolInv => TypeOK
  BY DEF PoolInv
<1>2. QED
  BY <1>1, PoolInvariant, PTL

\* A pool that nothing damaged never reports corruption and never loses a
\* block, whatever its size and the order of the calls.
THEOREM SoundPoolAlwaysWorks == Spec => []SoundPoolWorks
<1>1. PoolInv => SoundPoolWorks
  BY SoundListPasses DEF PoolInv, Undamaged, SoundPoolWorks, CheckPool, CheckStandardMarkers
<1>2. QED
  BY <1>1, PoolInvariant, PTL

\* A block that is owned is never handed out again, whatever the damage.
THEOREM HeadNeverOwned == Spec => []HeadIsUnowned
<1>1. PoolInv => HeadIsUnowned
  BY CheckedHead DEF PoolInv, OwnedNotFree, HeadIsUnowned
<1>2. QED
  BY <1>1, PoolInvariant, PTL
-----------------------------------------------------------------------------
\* Every call of the pool is a step of the abstract pool.
LEMMA AllocateImplements == PoolInv /\ Allocate => [Promise!PoolNext]_Promise!poolVars
<1> SUFFICES ASSUME PoolInv, Allocate PROVE Promise!PoolNext
  OBVIOUS
<1>1. CASE ~CheckPool
  <2>1. damages > 0
    BY <1>1, SoundListPasses DEF PoolInv, TypeOK, Undamaged, CheckPool, CheckStandardMarkers
  <2>2. Promise!RefuseDamaged
    BY <1>1, <2>1 DEF Allocate, Fail, Return, Promise!RefuseDamaged, Promise!Answer,
                      PoolIsCorrupted, Promise!PoolIsCorrupted
  <2>3. QED
    BY <2>2 DEF Promise!PoolNext
<1>2. CASE CheckPool /\ head = Null
  <2>1. owned = Nodes \/ damages > 0
    <3>1. ASSUME damages = 0 PROVE owned = Nodes
      <4>1. Null \notin FreeNodes
        BY DEF FreeNodes, Nodes, Null
      <4>2. QED
        BY <1>2, <3>1, <4>1, SoundListHead DEF PoolInv, Undamaged
    <3>2. QED
      BY <3>1 DEF PoolInv, TypeOK
  <2>2. Promise!RefuseFull
    BY <1>2, <2>1 DEF Allocate, Fail, Return, Promise!RefuseFull, Promise!Answer,
                      PoolIsFull, Promise!PoolIsFull
  <2>3. QED
    BY <2>2 DEF Promise!PoolNext
<1>3. CASE CheckPool /\ head # Null
  <2>1. head \in Nodes \ owned
    BY <1>3, CheckedHead DEF PoolInv, OwnedNotFree
  <2>2. Promise!Grant
    BY <1>3, <2>1 DEF Allocate, Return, Promise!Grant, Promise!Answer, NoError, Promise!NoError
  <2>3. QED
    BY <2>2 DEF Promise!PoolNext
<1>4. QED
  BY <1>1, <1>2, <1>3

LEMMA DeallocateImplements ==
  ASSUME PoolInv, NEW p \in Pointers, Deallocate(p)
  PROVE  Promise!PoolNext
<1>1. CASE ~CheckPool
  <2>1. damages > 0
    BY <1>1, SoundListPasses DEF PoolInv, TypeOK, Undamaged, CheckPool, CheckStandardMarkers
  <2>2. Promise!RefuseDamaged
    BY <1>1, <2>1 DEF Deallocate, Fail, Return, Pointers, Promise!RefuseDamaged,
                      Promise!Answer, PoolIsCorrupted, Promise!PoolIsCorrupted
  <2>3. QED
    BY <2>2 DEF Promise!PoolNext
<1>2. CASE CheckPool /\ ~IsNode(p)
  <2>1. Promise!RefuseRelease
    BY <1>2 DEF Deallocate, Fail, Return, Pointers, IsNode, Promise!RefuseRelease,
                Promise!Answer, PoolInvalidObject, Promise!PoolInvalidObject
  <2>2. QED
    BY <2>1 DEF Promise!PoolNext
<1>3. CASE CheckPool /\ IsNode(p) /\ IsFree(p)
  <2>1. p \in Nodes \ owned
    BY <1>3 DEF PoolInv, OwnedNotFree, IsNode
  <2>2. Promise!RefuseRelease
    BY <1>3, <2>1 DEF Deallocate, Fail, Return, Promise!RefuseRelease,
                      Promise!Answer, PoolDoubleDelete, Promise!PoolDoubleDelete
  <2>3. QED
    BY <2>2 DEF Promise!PoolNext
<1>4. CASE CheckPool /\ IsNode(p) /\ ~IsFree(p)
  <2>1. /\ p \in Nodes
        /\ owned' = owned \ {p}
        /\ result' = [error |-> NoError, block |-> p]
        /\ damages' = damages
    BY <1>4 DEF Deallocate, Return, IsNode
  <2>2. CASE p \in owned
    <3>1. Promise!TakeBack
      BY <2>1, <2>2 DEF Promise!TakeBack, Promise!Answer, NoError, Promise!NoError
    <3>2. QED
      BY <3>1 DEF Promise!PoolNext
  <2>3. CASE p \notin owned
    <3>1. damages > 0
      BY <1>4, <2>1, <2>3 DEF PoolInv, TypeOK, Undamaged, FreeNodes
    <3>2. Promise!TakeBackUnowned
      BY <2>1, <2>3, <3>1 DEF Promise!TakeBackUnowned, Promise!Answer, NoError, Promise!NoError
    <3>3. QED
      BY <3>2 DEF Promise!PoolNext
  <2>4. QED
    BY <2>2, <2>3
<1>5. QED
  BY <1>1, <1>2, <1>3, <1>4

LEMMA NextImplements == PoolInv /\ [Next]_vars => [Promise!PoolNext]_Promise!poolVars
<1> SUFFICES ASSUME PoolInv, [Next]_vars PROVE [Promise!PoolNext]_Promise!poolVars
  OBVIOUS
<1>1. CASE Allocate
  BY <1>1, AllocateImplements
<1>2. ASSUME NEW p \in Pointers, Deallocate(p) PROVE Promise!PoolNext
  BY <1>2, DeallocateImplements
<1>3. ASSUME NEW n \in Nodes, Use(n) PROVE UNCHANGED Promise!poolVars
  BY <1>3 DEF Use, Promise!poolVars
<1>4. ASSUME Damage, UNCHANGED <<owned, result>> PROVE Promise!PoolNext
  <2>1. damages' > 0
    BY <1>4 DEF Damage, PoolInv, TypeOK
  <2>2. QED
    BY <1>4, <2>1 DEF Promise!Damage, Promise!PoolNext
<1>5. CASE UNCHANGED vars
  BY <1>5 DEF vars, Promise!poolVars
<1>6. QED
  BY <1>1, <1>2, <1>3, <1>4, <1>5
     DEF Next, DamageLink, DamageHead, DamageMarker, DamageStandard

\* The pool keeps the promise of the abstract pool: one owner for each block,
\* damaged or not, and every request granted that can be while undamaged.
THEOREM PoolKeepsPromise == Spec => ImplementsPool
<1>1. Init => Promise!PoolInit
  BY DEF Init, Promise!PoolInit, NoError, Promise!NoError
<1>2. QED
  BY <1>1, PoolInvariant, NextImplements, PTL
     DEF Spec, ImplementsPool, Promise!AbstractPoolSpec
=============================================================================
