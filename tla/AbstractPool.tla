---------------------------- MODULE AbstractPool ----------------------------
(***************************************************************************)
(* What a memory pool promises its clients: a block has at most one owner, *)
(* and as long as the memory of the pool is sound every request succeeds   *)
(* that can, and the others are told why they cannot.  Once the memory is  *)
(* damaged a request may fail, but a block still never gets a second owner.*)
(***************************************************************************)
EXTENDS EngineErrors

CONSTANTS Blocks, Foreign, Nothing

VARIABLES
  owned,    \* the blocks the clients own
  damaged,  \* something else has written to the memory of the pool
  result    \* what the last request returned: [error, block]

poolVars == <<owned, damaged, result>>

PoolInit == owned = {} /\ damaged = FALSE /\ result = [error |-> NoError, block |-> Nothing]

Answer(error, block) == result' = [error |-> error, block |-> block]

\* A client becomes the owner of a block that nobody owns.
Grant ==
  /\ \E b \in Blocks \ owned : Answer(NoError, b) /\ owned' = owned \cup {b}
  /\ UNCHANGED damaged

RefuseFull ==
  /\ owned = Blocks \/ damaged
  /\ Answer(PoolIsFull, Nothing)
  /\ UNCHANGED <<owned, damaged>>

\* A client returns a block it owns.
TakeBack ==
  /\ \E b \in owned : owned' = owned \ {b} /\ Answer(NoError, b)
  /\ UNCHANGED damaged

\* A request to release what cannot be released names its mistake.
RefuseRelease ==
  /\ \/ \E b \in Blocks \ owned : Answer(PoolDoubleDelete, b)
     \/ \E p \in Foreign : Answer(PoolInvalidObject, p)
  /\ UNCHANGED <<owned, damaged>>

\* A damaged pool may refuse any request.
RefuseDamaged ==
  /\ damaged
  /\ \E b \in Blocks \cup Foreign \cup {Nothing} : Answer(PoolIsCorrupted, b)
  /\ UNCHANGED <<owned, damaged>>

\* A damaged pool may also take back a block nobody owns.
TakeBackUnowned ==
  /\ damaged
  /\ \E b \in Blocks \ owned : Answer(NoError, b)
  /\ UNCHANGED <<owned, damaged>>

Damage == damaged' = TRUE /\ UNCHANGED <<owned, result>>

PoolNext ==
  \/ Grant \/ RefuseFull
  \/ TakeBack \/ RefuseRelease
  \/ RefuseDamaged \/ TakeBackUnowned
  \/ Damage

AbstractPoolSpec == PoolInit /\ [][PoolNext]_poolVars
=============================================================================
