--------------------------- MODULE MCTokenLedger ---------------------------
(***************************************************************************)
(* Model checking of TokenLedger: a main thread and one subagent, two      *)
(* responses each.  The reports are incomparable, so that merging them     *)
(* differs from replacing one by another, and one is below the estimate,   *)
(* so that the budget may fall.                                            *)
(***************************************************************************)
EXTENDS TokenLedger

MCUsages == { [input |-> 1, output |-> 2], [input |-> 3, output |-> 0],
              [input |-> 0, output |-> 0] }

=============================================================================
