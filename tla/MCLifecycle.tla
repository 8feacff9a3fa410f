---------------------------- MODULE MCLifecycle ----------------------------
(***************************************************************************)
(* Lifecycle for TLC: model values for request ids, attempts and issues.   *)
(***************************************************************************)
EXTENDS Lifecycle, TLC

\* Ids, attempts and issues are only compared for equality.
Symmetry == Permutations(ReqIds) \cup Permutations(Attempts) \cup Permutations(Issues)
=============================================================================
