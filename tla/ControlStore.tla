---------------------------- MODULE ControlStore ----------------------------
(***************************************************************************)
(* The durable operator-control store of one agent instance                *)
(* (src/simple_coding_agent/control.py, class ControlStore): the record of *)
(* operator commands, the intake state, the pending stop plan, the         *)
(* stop --after countdown, the one-shot issue priority and the tracked     *)
(* handoff.  Every public method runs in one SQLite transaction under one  *)
(* re-entrant lock, so every method is one atomic action here.             *)
(*                                                                         *)
(* The store is an open system.  Its callers (the control socket and the   *)
(* lifecycle) pass in whether an attempt is active and whether a recovery  *)
(* hold blocks the command; here both are free, so what is shown of the    *)
(* store holds whatever its callers do.  Lifecycle.tla binds them.         *)
(*                                                                         *)
(* A repeated request id returns the stored record or is refused: neither  *)
(* changes the store, and neither does a rejected command, so both are     *)
(* stuttering steps.  Timestamps, detail texts and command sequence        *)
(* numbers are left out.                                                   *)
(***************************************************************************)
EXTENDS Naturals, FiniteSets

CONSTANTS
    ReqIds,     \* request ids an operator may use
    Attempts,   \* attempt ids the lifecycle may create
    Issues,     \* issue numbers a priority may name
    MaxAfter,   \* largest N of a stop --after N
    None        \* SQL NULL

ASSUME NoneAssumption ==
    /\ None \notin ReqIds
    /\ None \notin Attempts
    /\ None \notin Issues

ASSUME SizeAssumption ==
    /\ IsFiniteSet(Attempts)
    /\ MaxAfter \in Nat

VARIABLES
    commands,   \* table commands: request id -> kind, payload, acknowledgement
    intake,     \* control_state.intake
    pending,    \* control_state.pending_command_id
    plan,       \* control_state.stop_after_*
    nextIssue,  \* control_state.next_issue_*
    handoff,    \* control_state.handoff_*
    counted     \* table counted_attempts: attempt -> plan_request_id

storeVars == <<commands, intake, pending, plan, nextIssue, handoff, counted>>

-----------------------------------------------------------------------------
(* Rows *)

Intakes == {"running", "stopping", "stopped"}

Acks == {"accepted", "completed", "superseded", "not_fulfilled"}

PlanKinds == {"stop", "stop_after", "handoff"}

RecoveryKinds == {"recovery_retry", "recovery_release"}

Kinds == PlanKinds \cup RecoveryKinds \cup {"resume", "next_issue", "errors_reset"}

Counts == 1 .. MaxAfter

Payloads == Counts \cup Issues \cup Attempts \cup {None}

NoCommand == [kind |-> "none", payload |-> None, ack |-> "none"]

CommandRecord == [kind : Kinds, payload : Payloads, ack : Acks]

\* No countdown: parse_stop_after refuses 0, so requested = 0 stands for NULL.
NoPlan == [requested |-> 0, remaining |-> 0, active |-> None]

NoNextIssue == [number |-> None, req |-> None]

Phases == {"accepted", "delivering", "model_work", "completed", "not_fulfilled"}

NoHandoff == [req |-> None, begun |-> FALSE, phase |-> None]

TypeOK ==
    /\ commands \in [ReqIds -> CommandRecord \cup {NoCommand}]
    /\ intake \in Intakes
    /\ pending \in ReqIds \cup {None}
    /\ plan \in [requested : 0 .. MaxAfter, remaining : 0 .. MaxAfter,
                 active : Attempts \cup {None}]
    /\ nextIssue \in [number : Issues \cup {None}, req : ReqIds \cup {None}]
    /\ handoff \in [req : ReqIds \cup {None}, begun : BOOLEAN,
                    phase : Phases \cup {None}]
    /\ counted \in [Attempts -> ReqIds \cup {None}]

StoreInit ==
    /\ commands = [r \in ReqIds |-> NoCommand]
    /\ intake = "running"
    /\ pending = None
    /\ plan = NoPlan
    /\ nextIssue = NoNextIssue
    /\ handoff = NoHandoff
    /\ counted = [a \in Attempts |-> None]

-----------------------------------------------------------------------------
(* Helpers of the transactions *)

\* Mutant: a repeated request id is executed again.
FreshAlways(r) == TRUE

Fresh(r) == commands[r] = NoCommand

\* The accepted commands of some kinds, what _supersede_plans_locked selects.
Accepted(kinds) ==
    {r \in ReqIds : commands[r].kind \in kinds /\ commands[r].ack = "accepted"}

\* UPDATE commands SET acknowledgement = a over a set of rows.
WithAck(S, a) ==
    [r \in ReqIds |-> IF r \in S THEN [commands[r] EXCEPT !.ack = a] ELSE commands[r]]

\* _insert_locked, after the updates of the same transaction.
Insert(cmds, r, kind, payload, ack) ==
    [cmds EXCEPT ![r] = [kind |-> kind, payload |-> payload, ack |-> ack]]

IsTrackedHandoff(r) == handoff.req = r /\ commands[r].ack = "accepted"

HandoffBegun ==
    /\ handoff.req # None
    /\ commands[handoff.req].ack = "accepted"
    /\ handoff.begun

HasPlan == plan.requested # 0

\* The attempts counted under the plan that request r accepted.
CountedUnder(r) == {a \in Attempts : counted[a] = r}

-----------------------------------------------------------------------------
(* stop *)

StopWhileStopped(r) ==
    /\ intake = "stopped"
    /\ commands' = Insert(commands, r, "stop", None, "completed")
    /\ UNCHANGED <<intake, pending, plan, nextIssue, handoff, counted>>

\* Mutant: the joining stop leaves the countdown it takes over accepted.
StopWhileStoppingBeside(r) ==
    /\ intake = "stopping"
    /\ commands' = Insert(commands, r, "stop", None, "accepted")
    /\ UNCHANGED <<intake, pending, plan, nextIssue, handoff, counted>>

\* Joins the wait of the active attempt.  It takes the wait over from a
\* countdown, or from a handoff the model has not begun.
StopWhileStopping(r) ==
    LET after == Accepted({"stop_after"})
        over  == IF /\ after = {}
                    /\ pending # None
                    /\ IsTrackedHandoff(pending)
                    /\ ~HandoffBegun
                 THEN Accepted({"handoff"})
                 ELSE {}
    IN  /\ intake = "stopping"
        /\ commands' = Insert(WithAck(after \cup over, "superseded"),
                              r, "stop", None, "accepted")
        /\ pending' = IF after \cup over = {} THEN pending ELSE r
        /\ plan' = IF after = {} THEN plan ELSE NoPlan
        /\ handoff' = IF over = {} THEN handoff ELSE NoHandoff
        /\ UNCHANGED <<intake, nextIssue, counted>>

\* With an active attempt the stop waits for it; without one it is immediate.
StopWhileRunning(r, active) ==
    LET kinds == {"stop_after"} \cup IF HandoffBegun THEN {} ELSE {"handoff"}
        gone  == Accepted(kinds)
        waits == active # None
    IN  /\ intake = "running"
        /\ commands' = Insert(WithAck(gone, "superseded"), r, "stop", None,
                              IF waits THEN "accepted" ELSE "completed")
        /\ intake' = IF waits THEN "stopping" ELSE "stopped"
        /\ pending' = IF waits THEN r ELSE None
        /\ plan' = IF gone = {} THEN plan ELSE NoPlan
        /\ handoff' = IF gone = {} THEN handoff ELSE NoHandoff
        /\ UNCHANGED <<nextIssue, counted>>

SubmitStop(r, active) ==
    /\ Fresh(r)
    /\ \/ StopWhileStopped(r)
       \/ StopWhileStopping(r)
       \/ StopWhileRunning(r, active)

-----------------------------------------------------------------------------
(* resume *)

\* A begun handoff cannot be undone: the resume is recorded and no more.
ResumeUnderBegunHandoff(r) ==
    /\ HandoffBegun
    /\ commands' = Insert(commands, r, "resume", None, "completed")
    /\ UNCHANGED <<intake, pending, plan, nextIssue, handoff, counted>>

\* Mutant: the pending slot outlives the plan.
ResumeIntakeKeepsPending(r) ==
    /\ ~HandoffBegun
    /\ commands' = Insert(WithAck(Accepted(PlanKinds), "superseded"),
                          r, "resume", None, "completed")
    /\ intake' = "running"
    /\ plan' = NoPlan
    /\ handoff' = NoHandoff
    /\ UNCHANGED <<pending, nextIssue, counted>>

\* Mutant: a begun handoff is cancelled like any other plan.
ResumeIntakeAnyway(r) ==
    /\ commands' = Insert(WithAck(Accepted(PlanKinds), "superseded"),
                          r, "resume", None, "completed")
    /\ intake' = "running"
    /\ pending' = None
    /\ plan' = NoPlan
    /\ handoff' = NoHandoff
    /\ UNCHANGED <<nextIssue, counted>>

ResumeIntake(r) ==
    LET handoffs == Accepted({"handoff"})
    IN  /\ ~HandoffBegun
        /\ commands' = Insert(WithAck(Accepted(PlanKinds), "superseded"),
                              r, "resume", None, "completed")
        /\ intake' = "running"
        /\ pending' = None
        /\ plan' = NoPlan
        /\ handoff' = IF handoffs = {} THEN handoff ELSE NoHandoff
        /\ UNCHANGED <<nextIssue, counted>>

SubmitResume(r, hold) ==
    /\ Fresh(r)
    /\ ~hold
    /\ ResumeUnderBegunHandoff(r) \/ ResumeIntake(r)

-----------------------------------------------------------------------------
(* stop --after N *)

SubmitStopAfter(r, n, active) ==
    LET gone == Accepted(PlanKinds)
    IN  /\ Fresh(r)
        /\ intake # "stopped"
        /\ ~HandoffBegun
        /\ commands' = Insert(WithAck(gone, "superseded"), r, "stop_after", n, "accepted")
        /\ intake' = IF active # None /\ n = 1 THEN "stopping" ELSE "running"
        /\ pending' = r
        /\ plan' = [requested |-> n, remaining |-> n, active |-> active]
        /\ handoff' = IF handoff.req \in gone THEN NoHandoff ELSE handoff
        /\ UNCHANGED <<nextIssue, counted>>

-----------------------------------------------------------------------------
(* next issue *)

\* Mutant: the replaced priority stays accepted.
SubmitNextIssueBeside(r, issue) ==
    /\ Fresh(r)
    /\ commands' = Insert(commands, r, "next_issue", issue, "accepted")
    /\ nextIssue' = [number |-> issue, req |-> r]
    /\ UNCHANGED <<intake, pending, plan, handoff, counted>>

\* Acceptance never touches the intake or a stop plan.
SubmitNextIssue(r, issue) ==
    LET old == {s \in ReqIds : s = nextIssue.req /\ commands[s].ack = "accepted"}
    IN  /\ Fresh(r)
        /\ commands' = Insert(WithAck(old, "superseded"), r, "next_issue", issue, "accepted")
        /\ nextIssue' = [number |-> issue, req |-> r]
        /\ UNCHANGED <<intake, pending, plan, handoff, counted>>

SettleNextIssue(ack) ==
    /\ nextIssue.req # None
    /\ commands' = WithAck({nextIssue.req} \cap
                             {s \in ReqIds : commands[s].ack = "accepted"}, ack)
    /\ nextIssue' = NoNextIssue
    /\ UNCHANGED <<intake, pending, plan, handoff, counted>>

\* The claimed issue must be the stored target.
CompleteNextIssue(issue) ==
    /\ nextIssue.number = issue
    /\ SettleNextIssue("completed")

FailNextIssue == SettleNextIssue("not_fulfilled")

-----------------------------------------------------------------------------
(* handoff now *)

\* Mutant: the accepted handoff is not tracked.
SubmitHandoffUntracked(r, active, hold) ==
    /\ Fresh(r)
    /\ ~hold
    /\ active # None
    /\ ~HandoffBegun
    /\ commands' = Insert(WithAck(Accepted(PlanKinds), "superseded"),
                          r, "handoff", None, "accepted")
    /\ intake' = "stopping"
    /\ pending' = r
    /\ plan' = NoPlan
    /\ UNCHANGED <<nextIssue, handoff, counted>>

SubmitHandoff(r, active, hold) ==
    /\ Fresh(r)
    /\ ~hold
    /\ active # None
    /\ ~HandoffBegun
    /\ commands' = Insert(WithAck(Accepted(PlanKinds), "superseded"),
                          r, "handoff", None, "accepted")
    /\ intake' = "stopping"
    /\ pending' = r
    /\ plan' = NoPlan
    /\ handoff' = [req |-> r, begun |-> FALSE, phase |-> "accepted"]
    /\ UNCHANGED <<nextIssue, counted>>

MarkHandoffDelivering(r) ==
    /\ IsTrackedHandoff(r)
    /\ handoff' = [handoff EXCEPT !.phase = "delivering"]
    /\ UNCHANGED <<commands, intake, pending, plan, nextIssue, counted>>

\* Mutant: a phase the readers of the store do not know.
MarkHandoffBegunUnknown(r) ==
    /\ IsTrackedHandoff(r)
    /\ handoff' = [handoff EXCEPT !.begun = TRUE, !.phase = "begun"]
    /\ UNCHANGED <<commands, intake, pending, plan, nextIssue, counted>>

MarkHandoffBegun(r) ==
    /\ IsTrackedHandoff(r)
    /\ handoff' = [handoff EXCEPT !.begun = TRUE, !.phase = "model_work"]
    /\ UNCHANGED <<commands, intake, pending, plan, nextIssue, counted>>

\* complete_handoff and fail_handoff differ in the acknowledgement only.  The
\* plain stops that waited alongside complete on the same boundary.
SettleHandoff(r, ack) ==
    LET owns  == pending = r
        stops == IF owns THEN Accepted({"stop"}) ELSE {}
    IN  /\ commands[r].kind = "handoff"
        /\ commands[r].ack = "accepted"
        /\ commands' = [s \in ReqIds |->
                          IF s = r THEN [commands[s] EXCEPT !.ack = ack]
                          ELSE IF s \in stops THEN [commands[s] EXCEPT !.ack = "completed"]
                          ELSE commands[s]]
        /\ intake' = IF owns THEN "stopped" ELSE intake
        /\ pending' = IF owns THEN None ELSE pending
        /\ handoff' = [handoff EXCEPT !.phase = ack]
        /\ UNCHANGED <<plan, nextIssue, counted>>

CompleteHandoff(r) == SettleHandoff(r, "completed")

FailHandoff(r) == SettleHandoff(r, "not_fulfilled")

-----------------------------------------------------------------------------
(* recovery and error-guard commands: never touch intake or a plan *)

SubmitRecovery(r, kind, attempt) ==
    /\ Fresh(r)
    /\ commands' = Insert(commands, r, kind, attempt, "accepted")
    /\ UNCHANGED <<intake, pending, plan, nextIssue, handoff, counted>>

SettleRecovery(r, ack) ==
    /\ commands[r].kind \in RecoveryKinds
    /\ commands[r].ack = "accepted"
    /\ commands' = WithAck({r}, ack)
    /\ UNCHANGED <<intake, pending, plan, nextIssue, handoff, counted>>

SubmitErrorsReset(r) ==
    /\ Fresh(r)
    /\ commands' = Insert(commands, r, "errors_reset", None, "completed")
    /\ UNCHANGED <<intake, pending, plan, nextIssue, handoff, counted>>

-----------------------------------------------------------------------------
(* attempt accounting *)

CompletePlainStops ==
    /\ commands' = WithAck(Accepted({"stop"}), "completed")
    /\ intake' = "stopped"
    /\ pending' = None
    /\ UNCHANGED <<plan, nextIssue, handoff, counted>>

CompletePendingStop ==
    /\ pending # None
    /\ commands[pending].kind = "stop"
    /\ CompletePlainStops

\* Counts attempt a against the countdown; the last count stops the intake
\* and completes the command in the same transaction.
CountDown(a) ==
    LET left == plan.remaining - 1
        last == left <= 0
    IN  /\ HasPlan
        /\ pending # None
        /\ counted' = [counted EXCEPT ![a] = pending]
        /\ commands' = IF last
                       THEN WithAck({pending} \cap
                              {s \in ReqIds : commands[s].ack = "accepted"}, "completed")
                       ELSE commands
        /\ intake' = IF last THEN "stopped"
                     ELSE IF intake = "stopped" THEN intake ELSE "running"
        /\ pending' = IF last THEN None ELSE pending
        /\ plan' = IF last THEN NoPlan ELSE [plan EXCEPT !.remaining = left]
        /\ UNCHANGED <<nextIssue, handoff>>

\* Mutant: a replayed finalization is counted again.
CountAttemptAgain(a) == CountDown(a) \/ (~HasPlan /\ CompletePendingStop)

\* record_attempt_finalized when it changes something.
CountAttempt(a) ==
    /\ counted[a] = None
    /\ \/ CountDown(a)
       \/ ~HasPlan /\ CompletePendingStop

\* What record_attempt_finalized leaves alone: an attempt already counted, a
\* countdown without a command, and a finalization no stop waits for.
NothingToCount(a) ==
    \/ counted[a] # None
    \/ pending = None
    \/ ~HasPlan /\ commands[pending].kind # "stop"

RecordAttemptFinalized(a) ==
    IF NothingToCount(a) THEN UNCHANGED storeVars ELSE CountAttempt(a)

\* Mutant: the claim before the last one already stops the intake.
FinalClaimDueEarly == pending # None /\ HasPlan /\ plan.remaining <= 2 /\ intake = "running"

FinalClaimDue == pending # None /\ HasPlan /\ plan.remaining = 1 /\ intake = "running"

EnterStoppingForFinalClaim ==
    /\ FinalClaimDue
    /\ intake' = "stopping"
    /\ UNCHANGED <<commands, pending, plan, nextIssue, handoff, counted>>

-----------------------------------------------------------------------------
(* The store with free callers *)

OperatorCall(r) ==
    \/ \E active \in Attempts \cup {None} :
          \/ SubmitStop(r, active)
          \/ \E n \in Counts : SubmitStopAfter(r, n, active)
          \/ \E hold \in BOOLEAN : SubmitHandoff(r, active, hold)
    \/ \E hold \in BOOLEAN : SubmitResume(r, hold)
    \/ \E issue \in Issues : SubmitNextIssue(r, issue)
    \/ \E kind \in RecoveryKinds, a \in Attempts : SubmitRecovery(r, kind, a)
    \/ SubmitErrorsReset(r)

LifecycleCall ==
    \/ \E r \in ReqIds : \/ MarkHandoffDelivering(r)
                         \/ MarkHandoffBegun(r)
                         \/ CompleteHandoff(r)
                         \/ FailHandoff(r)
                         \/ \E ack \in {"completed", "not_fulfilled"} : SettleRecovery(r, ack)
    \/ \E issue \in Issues : CompleteNextIssue(issue)
    \/ FailNextIssue
    \/ CompletePendingStop
    \/ \E a \in Attempts : CountAttempt(a)
    \/ EnterStoppingForFinalClaim

StoreNext == LifecycleCall \/ \E r \in ReqIds : OperatorCall(r)

StoreSpec == StoreInit /\ [][StoreNext]_storeVars

-----------------------------------------------------------------------------
(* Properties *)

\* One stop plan at a time: an accepted countdown or handoff is the pending
\* command, and plain stops wait only under a pending stop or a begun handoff.
\* (_supersede_plans_locked is called with a different tuple of kinds by each
\* command, and submit_stop keeps the pending slot of a plan it joins.)
OneStopPlan ==
    /\ \A r \in Accepted({"stop_after", "handoff"}) : pending = r
    /\ Accepted({"stop"}) # {} =>
          /\ intake = "stopping"
          /\ pending # None
          /\ \/ commands[pending].kind = "stop"
             \/ commands[pending].kind = "handoff" /\ HandoffBegun

\* The intake state and the plan that explains it agree: a stopping intake has
\* an accepted command that will settle it, a running one has no plan or a
\* countdown with attempts left to claim, a stopped one leaves nobody waiting.
IntakeExplained ==
    /\ pending # None => /\ commands[pending].ack = "accepted"
                         /\ commands[pending].kind \in PlanKinds
    /\ intake = "stopping" => pending # None
    /\ intake = "running" => pending = None \/ commands[pending].kind = "stop_after"
    /\ intake = "stopped" => pending = None /\ Accepted(PlanKinds) = {}

\* The countdown of a stop --after N is exact: the attempts counted under it
\* and the attempts that remain make N, and the command completes after N
\* distinct attempts, whatever replays record_attempt_finalized sees.
CountdownExact ==
    /\ HasPlan <=> pending # None /\ commands[pending].kind = "stop_after"
    /\ HasPlan => /\ plan.requested = commands[pending].payload
                  /\ plan.remaining >= 1
                  /\ plan.remaining + Cardinality(CountedUnder(pending)) = plan.requested
    /\ \A r \in ReqIds :
          commands[r].kind = "stop_after" /\ commands[r].ack = "completed" =>
             Cardinality(CountedUnder(r)) = commands[r].payload

\* The pending priority is the one accepted next-issue command: a replaced,
\* consumed or failed priority leaves no accepted command behind.
PriorityTracked ==
    \A r \in ReqIds :
       commands[r].kind = "next_issue" /\ commands[r].ack = "accepted" <=>
          nextIssue = [number |-> commands[r].payload, req |-> r]

\* An accepted handoff is the tracked one, so the runner that polls the
\* tracked request delivers every accepted handoff.
HandoffTracked ==
    \A r \in Accepted({"handoff"}) :
       handoff.req = r /\ handoff.phase \in {"accepted", "delivering", "model_work"}

\* A terminal acknowledgement is final, and a recorded command keeps its kind
\* and payload: a retried request id can rely on the stored record.
AcksAreFinal ==
    [][\A r \in ReqIds : commands[r] # NoCommand =>
          /\ commands'[r].kind = commands[r].kind
          /\ commands'[r].payload = commands[r].payload
          /\ commands[r].ack # "accepted" => commands'[r].ack = commands[r].ack]_storeVars

\* Once the model has begun the handoff no command replaces it: it keeps the
\* pending slot and the stopping intake until it is completed or failed.
BegunHandoffKept ==
    [][HandoffBegun =>
          \/ /\ handoff'.req = handoff.req
             /\ handoff'.begun
             /\ commands'[handoff.req].ack = "accepted"
             /\ pending' = handoff.req
             /\ intake' = "stopping"
          \/ /\ commands'[handoff.req].ack \in {"completed", "not_fulfilled"}
             /\ intake' = "stopped"]_storeVars

\* Only an operator command reopens the intake: no count, completion or
\* settlement by the lifecycle turns a stopping or stopped intake to running.
OnlyOperatorReopens ==
    [][intake # "running" /\ intake' = "running" =>
          \E r \in ReqIds : /\ commands[r] = NoCommand
                            /\ commands'[r].kind \in {"resume", "stop_after"}]_storeVars
=============================================================================
