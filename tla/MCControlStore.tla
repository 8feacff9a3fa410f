--------------------------- MODULE MCControlStore ---------------------------
(***************************************************************************)
(* ControlStore for TLC: model values for ids, attempts and issues.        *)
(***************************************************************************)
EXTENDS ControlStore, TLC

\* Ids, attempts and issues are only compared for equality.
Symmetry == Permutations(ReqIds) \cup Permutations(Attempts) \cup Permutations(Issues)
=============================================================================
