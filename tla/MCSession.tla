----------------------------- MODULE MCSession ------------------------------
(***************************************************************************)
(* A listener and up to two connections for TLC.  The addresses are        *)
(* interchangeable, the descriptors are not: they are compared.            *)
(***************************************************************************)
EXTENDS Session, TLC

AnyAddress == Permutations(Addresses)
=============================================================================
