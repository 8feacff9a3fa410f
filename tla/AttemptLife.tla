----------------------------- MODULE AttemptLife -----------------------------
(***************************************************************************)
(* What the agent promises of its attempts, whatever crashes and operators *)
(* do: one attempt at a time, and an attempt that was claimed stays open   *)
(* until it is finalized, which takes a result on its issue and then the   *)
(* release of the issue, and happens once (lifecycle.py, the durable       *)
(* completion boundary of run_once; attempt_state.py, start).              *)
(***************************************************************************)
CONSTANTS Attempts, None

VARIABLES claimed, active, announced, freed, finished

lifeVars == <<claimed, active, announced, freed, finished>>

Init ==
    /\ claimed = {}
    /\ active = None
    /\ announced = {}
    /\ freed = {}
    /\ finished = {}

Claim(a) ==
    /\ active = None
    /\ a \notin claimed
    /\ claimed' = claimed \cup {a}
    /\ active' = a
    /\ UNCHANGED <<announced, freed, finished>>

Announce(a) ==
    /\ active = a
    /\ announced' = announced \cup {a}
    /\ UNCHANGED <<claimed, active, freed, finished>>

Free(a) ==
    /\ active = a
    /\ a \in announced
    /\ freed' = freed \cup {a}
    /\ UNCHANGED <<claimed, active, announced, finished>>

Finalize(a) ==
    /\ active = a
    /\ a \in freed
    /\ finished' = finished \cup {a}
    /\ active' = None
    /\ UNCHANGED <<claimed, announced, freed>>

Next == \E a \in Attempts : Claim(a) \/ Announce(a) \/ Free(a) \/ Finalize(a)

Spec == Init /\ [][Next]_lifeVars
=============================================================================
