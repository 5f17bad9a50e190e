----------------------------- MODULE MCSendKernel -----------------------------
(***************************************************************************)
(* SendKernel for TLC: signatures are interchangeable, and so are the      *)
(* wordings of the one demand.                                             *)
(***************************************************************************)
EXTENDS SendKernel, TLC

Alike == Permutations(Sigs) \cup Permutations(Keyed)

=============================================================================
