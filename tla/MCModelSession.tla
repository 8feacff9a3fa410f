-------------------------- MODULE MCModelSession --------------------------
(***************************************************************************)
(* Model checking of ModelSession.  The scenes pair the surroundings: two  *)
(* requests of the operator, a request and a compaction, a request and a   *)
(* background task, a background task and a compaction, two tasks.         *)
(***************************************************************************)
EXTENDS ModelSession

CONSTANTS t1, t2

MCScenes ==
    { [tasks |-> {}, requests |-> 2, compaction |-> FALSE,
        readings |-> {0, 2}, results |-> Results],
      [tasks |-> {}, requests |-> 1, compaction |-> TRUE,
        readings |-> {0, 1}, results |-> Results],
      [tasks |-> {t1}, requests |-> 1, compaction |-> FALSE,
        readings |-> {0}, results |-> {"ok"}],
      [tasks |-> {t1}, requests |-> 0, compaction |-> TRUE,
        readings |-> 0..2, results |-> Results],
      [tasks |-> Tasks, requests |-> 0, compaction |-> FALSE,
        readings |-> {0}, results |-> {"ok"}] }

=============================================================================
