-------------------------- MODULE AbstractSession ---------------------------
(***************************************************************************)
(* What the session promises the bridge: peers come one at a time, as long *)
(* as it listens, and go one at a time.  The bridge speaks to the one that *)
(* came last, until that goes; then to none, whoever else is there, until  *)
(* the next one comes.                                                     *)
(***************************************************************************)
CONSTANTS Peers, None

VARIABLES
  phase,    \* "open" as long as peers may come, "deaf" when listening failed, "over"
  peers,    \* those that are connected
  speaker   \* the one the bridge speaks to

lineVars == <<phase, peers, speaker>>

LineInit == phase \in {"open", "deaf"} /\ peers = {} /\ speaker = None

Come ==
  /\ phase = "open"
  /\ \E p \in Peers \ peers : peers' = peers \cup {p} /\ speaker' = p
  /\ UNCHANGED phase

\* Only who leaves is not spoken to any more.
Go ==
  /\ \E p \in peers :
       /\ peers' = peers \ {p}
       /\ speaker' = IF speaker = p THEN None ELSE speaker
  /\ UNCHANGED phase

End ==
  /\ phase # "over" /\ phase' = "over"
  /\ peers' = {} /\ speaker' = None

LineNext == Come \/ Go \/ End

LineSpec == LineInit /\ [][LineNext]_lineVars
=============================================================================
