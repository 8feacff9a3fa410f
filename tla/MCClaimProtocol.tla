-------------------------- MODULE MCClaimProtocol --------------------------
(* Instances of ClaimProtocol for TLC.                                     *)
EXTENDS ClaimProtocol, TLC

Symmetry == Permutations(Workers)

=============================================================================
