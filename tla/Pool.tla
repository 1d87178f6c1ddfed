-------------------------------- MODULE Pool --------------------------------
(***************************************************************************)
(* The memory pool: a free list threaded through the storage, a marker at  *)
(* the end of each node, and the checks that every operation begins with.  *)
(*                                                                         *)
(* A node is a number; a pointer is a node, NULL, or a pointer that is not *)
(* the beginning of a node.  While a block is allocated its client's data  *)
(* lie over the link.  Something outside the pool may damage its memory    *)
(* (the faults of the fault injection tests): any pointer of the free      *)
(* list, any marker, the two standard markers.                             *)
(***************************************************************************)
EXTENDS EngineErrors, Integers, FiniteSets

CONSTANTS
  PoolSize,
  MaxDamages    \* how often the memory is damaged (bound for model checking)

ASSUME PoolAssumption ==
  /\ PoolSize \in Nat \ {0}
  /\ MaxDamages \in Nat

\* A node has its body, the link or a client's data, and its marker.
Nodes      == 1..PoolSize
Null       == 0
Misaligned == -1              \* inside the storage, not the beginning of a node
Outside    == -2              \* before or behind the storage
Pointers   == Nodes \cup {Null, Misaligned, Outside}

VARIABLES
  link,         \* Node::body.next, or what the client wrote over it
  marker,       \* Node::marker: "free", "busy", or neither pattern
  head,         \* m_pFreeList
  standard,     \* m_markerFree and m_markerBusy have their patterns
  owned,        \* history: the blocks handed out and not taken back
  damages,      \* history: how often something else damaged the pool's memory
  result        \* the error and pointer of the last call

vars == <<link, marker, head, standard, owned, damages, result>>

TypeOK ==
  /\ link \in [Nodes -> Pointers]
  /\ marker \in [Nodes -> {"free", "busy", "other"}]
  /\ head \in Pointers
  /\ standard \in BOOLEAN
  /\ owned \subseteq Nodes
  /\ damages \in 0..MaxDamages
  /\ result \in [error : EngineError, block : Pointers]

\* The constructor: every node is free and linked to the next one.
Init ==
  /\ link = [n \in Nodes |-> IF n = PoolSize THEN Null ELSE n + 1]
  /\ marker = [n \in Nodes |-> "free"]
  /\ head = 1
  /\ standard = TRUE
  /\ owned = {}
  /\ damages = 0
  /\ result = [error |-> NoError, block |-> Null]

-----------------------------------------------------------------------------
\* checkObjectIsInsideStorage and checkBeginningOfObject
IsNode(p) == p \in Nodes

\* checkObjectIsFree
IsFree(n) == marker[n] = "free"

\* checkStorage, and checkMarker of each node: one of the two patterns.
CheckStorage == \A n \in Nodes : marker[n] \in {"free", "busy"}

CheckStandardMarkers == standard

\* Mutant: the walk does not look at the markers.
WalksAnywhere(length) ==
  {w \in [0..length -> Nodes \cup {Null}] :
     /\ w[0] = head
     /\ w[length] = Null
     /\ \A i \in 0..(length - 1) : IsNode(w[i]) /\ w[i + 1] = link[w[i]]}

\* checkFreeList: following the links from the head, over free nodes only, ends
\* at NULL after at most PoolSize nodes.
Walks(length) ==
  {w \in [0..length -> Nodes \cup {Null}] :
     /\ w[0] = head
     /\ w[length] = Null
     /\ \A i \in 0..(length - 1) :
          IsNode(w[i]) /\ IsFree(w[i]) /\ w[i + 1] = link[w[i]]}

\* Mutant: the walk gives up one node too early.
CheckFreeListShort == \E length \in 0..(PoolSize - 1) : Walks(length) # {}

CheckFreeList == \E length \in 0..PoolSize : Walks(length) # {}

\* checkPool
CheckPool == CheckStandardMarkers /\ CheckStorage /\ (head # Null => CheckFreeList)

Return(error, block) == result' = [error |-> error, block |-> block]

Fail(error, block) ==
  Return(error, block) /\ UNCHANGED <<link, marker, head, standard, owned, damages>>

\* Pool::allocate
Allocate ==
  IF ~CheckPool THEN Fail(PoolIsCorrupted, Null)
  ELSE IF head = Null THEN Fail(PoolIsFull, Null)
  ELSE /\ marker' = [marker EXCEPT ![head] = "busy"]
       /\ head' = link[head]
       /\ Return(NoError, head)
       /\ owned' = owned \cup {head}
       /\ UNCHANGED <<link, standard, damages>>

\* Mutant: no check for a double delete.
DeallocateTwice(p) ==
  IF ~CheckPool THEN Fail(PoolIsCorrupted, p)
  ELSE IF ~IsNode(p) THEN Fail(PoolInvalidObject, p)
  ELSE /\ link' = [link EXCEPT ![p] = head]
       /\ marker' = [marker EXCEPT ![p] = "free"]
       /\ head' = p
       /\ Return(NoError, p)
       /\ owned' = owned \ {p}
       /\ UNCHANGED <<standard, damages>>

\* Pool::deallocate
Deallocate(p) ==
  IF ~CheckPool THEN Fail(PoolIsCorrupted, p)
  ELSE IF ~IsNode(p) THEN Fail(PoolInvalidObject, p)
  ELSE IF IsFree(p) THEN Fail(PoolDoubleDelete, p)
  ELSE /\ link' = [link EXCEPT ![p] = head]
       /\ marker' = [marker EXCEPT ![p] = "free"]
       /\ head' = p
       /\ Return(NoError, p)
       /\ owned' = owned \ {p}
       /\ UNCHANGED <<standard, damages>>

\* A client writes to its block.
Use(n) ==
  /\ n \in owned
  /\ \E data \in Pointers : link' = [link EXCEPT ![n] = data]
  /\ UNCHANGED <<marker, head, standard, owned, damages, result>>

\* Something else damages the memory of the pool.
Damage == damages < MaxDamages /\ damages' = damages + 1

DamageLink(n) ==
  /\ Damage
  /\ \E p \in Pointers : link' = [link EXCEPT ![n] = p]
  /\ UNCHANGED <<marker, head, standard, owned, result>>

DamageHead ==
  /\ Damage
  /\ head' \in Pointers
  /\ UNCHANGED <<link, marker, standard, owned, result>>

\* That a marker is overwritten with exactly the free pattern is ruled out.
DamageMarker(n) ==
  /\ Damage
  /\ \E m \in {"busy", "other"} : marker' = [marker EXCEPT ![n] = m]
  /\ UNCHANGED <<link, head, standard, owned, result>>

DamageStandard ==
  /\ Damage
  /\ standard' = FALSE
  /\ UNCHANGED <<link, marker, head, owned, result>>

Next ==
  \/ Allocate
  \/ \E p \in Pointers : Deallocate(p)
  \/ \E n \in Nodes : Use(n)
  \/ \E n \in Nodes : DamageLink(n)
  \/ DamageHead
  \/ \E n \in Nodes : DamageMarker(n)
  \/ DamageStandard

Spec == Init /\ [][Next]_vars

-----------------------------------------------------------------------------
FreeNodes == {n \in Nodes : IsFree(n)}

\* The free list holds exactly the free nodes, each of them once.
ListIsComplete ==
  /\ CheckFreeList
  /\ \E w \in Walks(Cardinality(FreeNodes)) :
       {w[i] : i \in 0..(Cardinality(FreeNodes) - 1)} = FreeNodes

\* In a pool that nothing damaged the checks raise no false alarm, whatever the
\* order of the calls and whatever the clients write to their blocks, and no
\* block is lost: what is not owned is on the free list.
SoundPoolWorks ==
  damages = 0 => CheckPool /\ ListIsComplete /\ owned = Nodes \ FreeNodes

\* Whatever the damage to links, head and markers, the head of a list that
\* passes the checks is a block that no client owns.
HeadIsUnowned == CheckPool /\ head # Null => head \in Nodes \ owned

Promise == INSTANCE AbstractPool WITH
  Blocks <- Nodes, Foreign <- {Null, Misaligned, Outside}, Nothing <- Null,
  damaged <- damages > 0

ImplementsPool == Promise!AbstractPoolSpec
=============================================================================
