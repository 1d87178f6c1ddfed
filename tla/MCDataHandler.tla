--------------------------- MODULE MCDataHandler ----------------------------
(***************************************************************************)
(* Two data for TLC, one that ages and one that does not, and a clock that *)
(* wraps after four ticks.                                                 *)
(***************************************************************************)
EXTENDS DataHandler

CONSTANTS lamp, speed, unknown, boolean, integer

MCTypeOfId == [i \in {lamp, speed} |-> IF i = lamp THEN boolean ELSE integer]
MCTimeout == [i \in {lamp, speed} |-> IF i = lamp THEN 2 ELSE 0]
=============================================================================
