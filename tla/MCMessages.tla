----------------------------- MODULE MCMessages -----------------------------
(***************************************************************************)
(* Messages for TLC: two data of one FU, one of them with the ids and the  *)
(* type a response that ends early is read with.                           *)
(***************************************************************************)
EXTENDS Messages

MCIds == {<<1, 0>>, <<1, 1>>}
MCForeignIds == ({0, 1} \X {0, 1}) \ MCIds
MCTypeOfId == [i \in MCIds |-> i[2]]
MCTimeout == [i \in MCIds |-> 0]
=============================================================================
