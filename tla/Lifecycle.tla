------------------------------ MODULE Lifecycle ------------------------------
(***************************************************************************)
(* The lifecycle of one agent instance (src/simple_coding_agent/           *)
(* lifecycle.py, class AgentLifecycle), composed with its control store.   *)
(*                                                                         *)
(* Two kinds of threads act on the same durable state: the engine loop     *)
(* (claim, model, publication, release, cleanup, finalization, and startup *)
(* reconciliation after a crash) and the threads of the control socket     *)
(* (operator commands, and the recovery commands that finish or abandon a  *)
(* retained attempt).  They share one re-entrant lock, held only for a     *)
(* claim, for a command's acceptance and for each store transaction.       *)
(*                                                                         *)
(* An attempt finalizes through separate durable steps: result comment on  *)
(* GitHub, issue release, workspace cleanup, error guard, completion       *)
(* ledger, stop accounting, checkpoint removal, handoff resolution.  Each  *)
(* is one action, and the process may die between any two of them.         *)
(*                                                                         *)
(* Titles, texts, archives, telemetry and event logs are left out, and so  *)
(* are conflict attempts and unreadable checkpoint or ledger files.        *)
(***************************************************************************)
EXTENDS ControlStore

CONSTANTS
    Menu,          \* kinds of command the operator may send
    MaxExits,      \* bound on crashes and failed releases, which end the process
    MaxErrors,     \* MAX_CONSECUTIVE_ERRORS
    IdleRecovery   \* operators send recovery commands only while the loop is idle

ASSUME MenuAssumption == Menu \subseteq Kinds

ASSUME BoundAssumption ==
    /\ MaxExits \in Nat
    /\ MaxErrors \in Nat \ {0}
    /\ IdleRecovery \in BOOLEAN

VARIABLES
    \* durable: attempt-state directory, ledger, error guard, workspace, GitHub
    started,     \* attempts ever claimed
    checkpoint,  \* attempt_state file: the attempt and its phase
    ledger,      \* completion store: attempt -> outcome
    comments,    \* GitHub: attempts whose result comment is posted
    released,    \* GitHub: attempts whose issue was released
    errors,      \* consecutive-error guard
    tree,        \* working tree: attempt note, branch checked out, dirty
    verdict,     \* the runner's own decision on the checkpointed attempt
    owner,       \* attempt named in the detail of the failed handoff
    late,        \* 360 s have passed since the tracked handoff was accepted
    exits,
    \* engine loop
    pc, job, latched,
    \* flags shared by the threads
    processing, recovering, executing,
    \* thread of the recovery command
    rpc, rjob

attemptVars == <<started, checkpoint, ledger, comments, released, errors, tree, verdict>>
loopVars == <<pc, job, latched>>
flagVars == <<processing, recovering, executing>>
recoveryVars == <<rpc, rjob>>
vars == <<storeVars, attemptVars, owner, late, exits, loopVars, flagVars, recoveryVars>>

-----------------------------------------------------------------------------
(* Values *)

Outcomes == {"success", "incomplete", "handoff", "error"}

\* The ledger has no row of an attempt that is not finalized.
ASSUME OutcomeAssumption == None \notin Outcomes

\* claimed and setup, and pushing and publishing, are not told apart.
CheckpointPhases == {"setup", "model_running", "pushing"}

NoCheckpoint == [att |-> None, phase |-> "none"]

\* The handoff note this attempt committed on its branch.
Notes == {"none", "invalid", "ordinary", "operator"}

LoopSteps == {"down", "starting", "reconcile", "idle", "prioritized", "fifo", "opened",
              "prepare", "model", "reprepare", "publish", "hold1", "fail1", "release",
              "cleanup", "hold2", "fail2", "errors", "ledger", "count", "delete",
              "resolve", "finish", "recount", "reresolve", "redelete"}

RecoverySteps == {"none", "prepare", "publish", "release", "cleanup", "errors", "ledger",
                  "count", "delete", "resolve", "unflag", "settle"}

NoJob == [att |-> None, outcome |-> "error", ok |-> TRUE, prep |-> FALSE,
          req |-> None, exit |-> FALSE]

NoRecovery == [req |-> None, att |-> None, outcome |-> "error", done |-> FALSE]

LifeTypeOK ==
    /\ TypeOK
    /\ started \subseteq Attempts
    /\ checkpoint \in [att : Attempts, phase : CheckpointPhases] \cup {NoCheckpoint}
    /\ ledger \in [Attempts -> Outcomes \cup {None}]
    /\ comments \subseteq Attempts
    /\ released \subseteq Attempts
    /\ errors \in [count : Nat, last : Attempts \cup {None}]
    /\ tree \in [note : Notes, branch : BOOLEAN, dirty : BOOLEAN]
    /\ verdict \in Outcomes \cup {None}
    /\ owner \in Attempts \cup {None}
    /\ late \in BOOLEAN
    /\ exits \in 0 .. MaxExits
    /\ pc \in LoopSteps
    /\ job \in [att : Attempts \cup {None}, outcome : Outcomes, ok : BOOLEAN,
                prep : BOOLEAN, req : ReqIds \cup {None}, exit : BOOLEAN]
    /\ latched \in ReqIds \cup {None}
    /\ <<processing, recovering, executing>> \in BOOLEAN \X BOOLEAN \X BOOLEAN
    /\ rpc \in RecoverySteps
    /\ rjob \in [req : ReqIds \cup {None}, att : Attempts \cup {None},
                 outcome : Outcomes, done : BOOLEAN]

LifeInit ==
    /\ StoreInit
    /\ started = {}
    /\ checkpoint = NoCheckpoint
    /\ ledger = [a \in Attempts |-> None]
    /\ comments = {}
    /\ released = {}
    /\ errors = [count |-> 0, last |-> None]
    /\ tree = [note |-> "none", branch |-> FALSE, dirty |-> FALSE]
    /\ verdict = None
    /\ owner = None
    /\ late = FALSE
    /\ exits = 0
    /\ pc = "down"
    /\ job = NoJob
    /\ latched = None
    /\ processing = FALSE
    /\ recovering = FALSE
    /\ executing = FALSE
    /\ rpc = "none"
    /\ rjob = NoRecovery

-----------------------------------------------------------------------------
(* Process start and end *)

\* What a process loses when it ends.
ProcessEnds ==
    /\ pc' = "down"
    /\ job' = NoJob
    /\ latched' = None
    /\ processing' = FALSE
    /\ recovering' = FALSE
    /\ executing' = FALSE
    /\ rpc' = "none"
    /\ rjob' = NoRecovery

\* The process dies at any point.  A model session that is killed may leave
\* uncommitted work.
Crash ==
    /\ pc # "down"
    /\ exits < MaxExits
    /\ exits' = exits + 1
    /\ ProcessEnds
    /\ \E d \in {tree.dirty, pc = "model" \/ tree.dirty} : tree' = [tree EXCEPT !.dirty = d]
    /\ UNCHANGED <<storeVars, started, checkpoint, ledger, comments, released, errors,
                   verdict, owner, late>>

\* The container restarts; the control socket serves before provenance checks.
Boot ==
    /\ pc = "down"
    /\ pc' = "starting"
    /\ UNCHANGED <<storeVars, attemptVars, owner, late, exits, job, latched, flagVars,
                   recoveryVars>>

\* mark_started, and the first run_once enters reconciliation.
MarkStarted ==
    /\ pc = "starting"
    /\ pc' = "reconcile"
    /\ recovering' = TRUE
    /\ UNCHANGED <<storeVars, attemptVars, owner, late, exits, job, latched, processing,
                   executing, recoveryVars>>

-----------------------------------------------------------------------------
(* The claim boundary: _gated_claim holds the control lock throughout *)

LockHeld == pc \in {"prioritized", "fifo", "opened"}

\* Mutant: a retained attempt does not block the next claim.
GateOpenOverHold == pc = "idle" /\ intake = "running" /\ ~tree.dirty

GateOpen ==
    /\ pc = "idle"
    /\ intake = "running"
    /\ checkpoint = NoCheckpoint
    /\ ~tree.dirty

\* attempt_state.start, with the flag that marks the attempt as in progress.
OpenAttempt(a) ==
    /\ a \notin started
    /\ started' = started \cup {a}
    /\ checkpoint' = [att |-> a, phase |-> "setup"]
    /\ tree' = [tree EXCEPT !.note = "none"]
    /\ verdict' = None
    /\ job' = [NoJob EXCEPT !.att = a]
    /\ processing' = TRUE
    /\ UNCHANGED <<ledger, comments, released, errors>>

\* The assignment of the prioritized issue succeeded.
ClaimPriority ==
    /\ GateOpen
    /\ CompleteNextIssue(nextIssue.number)
    /\ pc' = "prioritized"
    /\ UNCHANGED <<attemptVars, owner, late, exits, job, latched, flagVars, recoveryVars>>

StartPrioritized(a) ==
    /\ pc = "prioritized"
    /\ OpenAttempt(a)
    /\ pc' = "prepare"
    /\ UNCHANGED <<storeVars, owner, late, exits, latched, recovering, executing,
                   recoveryVars>>

\* The target lost its eligibility or another assignee won it: the same cycle
\* falls back to the queue.
LosePriority ==
    /\ GateOpen
    /\ FailNextIssue
    /\ pc' = "fifo"
    /\ UNCHANGED <<attemptVars, owner, late, exits, job, latched, flagVars, recoveryVars>>

ClaimFifo(a) ==
    /\ pc = "fifo" \/ (GateOpen /\ nextIssue.req = None)
    /\ OpenAttempt(a)
    /\ pc' = "opened"
    /\ UNCHANGED <<storeVars, owner, late, exits, latched, recovering, executing,
                   recoveryVars>>

EmptyQueue ==
    /\ pc = "fifo"
    /\ pc' = "idle"
    /\ UNCHANGED <<storeVars, attemptVars, owner, late, exits, job, latched, flagVars,
                   recoveryVars>>

\* enter_stopping_for_final_claim returns without a change when not due.
EnterStoppingIfDue ==
    IF FinalClaimDue THEN EnterStoppingForFinalClaim ELSE UNCHANGED storeVars

AnnounceFinalClaim ==
    /\ pc = "opened"
    /\ EnterStoppingIfDue
    /\ pc' = "prepare"
    /\ UNCHANGED <<attemptVars, owner, late, exits, job, latched, flagVars, recoveryVars>>

AcceptedHandoff == handoff.req # None /\ commands[handoff.req].ack = "accepted"

\* Mutant: the gate completes a stop that still waits for its attempt.
FinishStopEarly ==
    /\ pc = "idle"
    /\ intake = "stopping"
    /\ IF AcceptedHandoff THEN FailHandoff(handoff.req) ELSE CompletePendingStop
    /\ UNCHANGED <<attemptVars, owner, late, exits, loopVars, flagVars, recoveryVars>>

\* Mutant: the gate leaves an orphan handoff pending.
FinishStopOnly ==
    /\ pc = "idle"
    /\ intake = "stopping"
    /\ checkpoint = NoCheckpoint
    /\ CompletePendingStop
    /\ UNCHANGED <<attemptVars, owner, late, exits, loopVars, flagVars, recoveryVars>>

\* Stopping with no attempt left: the orphan handoff fails, a plain stop is done.
FinishStop ==
    /\ pc = "idle"
    /\ intake = "stopping"
    /\ checkpoint = NoCheckpoint
    /\ IF AcceptedHandoff THEN FailHandoff(handoff.req) ELSE CompletePendingStop
    /\ UNCHANGED <<attemptVars, owner, late, exits, loopVars, flagVars, recoveryVars>>

-----------------------------------------------------------------------------
(* Preparation and model execution *)

\* attempt_state.transition raises when there is no checkpoint; the phase the
\* checkpoint has needs no transition.
AdvanceTo(p) ==
    /\ p = checkpoint.phase \/ checkpoint # NoCheckpoint
    /\ checkpoint' = [checkpoint EXCEPT !.phase = p]

\* The branch is checked out and rebased, and setup has run.
PrepareAttempt ==
    /\ pc = "prepare"
    /\ ~tree.dirty
    /\ AdvanceTo("model_running")
    /\ tree' = [tree EXCEPT !.branch = TRUE]
    /\ job' = [job EXCEPT !.prep = TRUE]
    /\ pc' = "model"
    /\ UNCHANGED <<storeVars, started, ledger, comments, released, errors, verdict, owner,
                   late, exits, latched, flagVars, recoveryVars>>

\* A dirty tree or an unrecoverable repository: nothing is published, released
\* or cleaned, and the attempt is held.
PrepareRefused ==
    /\ pc \in {"prepare", "reprepare"}
    /\ job' = [job EXCEPT !.ok = FALSE]
    /\ pc' = "finish"
    /\ UNCHANGED <<storeVars, attemptVars, owner, late, exits, latched, flagVars,
                   recoveryVars>>

\* Any other failure is published as an infrastructure error.
PrepareRaises ==
    /\ pc \in {"prepare", "reprepare"}
    /\ \E p \in {FALSE, ~tree.dirty} :
          /\ tree' = [tree EXCEPT !.branch = p \/ @]
          /\ job' = [job EXCEPT !.prep = p, !.outcome = "error"]
    /\ pc' = "publish"
    /\ UNCHANGED <<storeVars, started, checkpoint, ledger, comments, released, errors,
                   verdict, owner, late, exits, latched, flagVars, recoveryVars>>

\* The executor latches the tracked request and pins it once delivered.
DeliverHandoff ==
    /\ pc = "model"
    /\ latched = None
    /\ AcceptedHandoff
    /\ MarkHandoffDelivering(handoff.req)
    /\ latched' = handoff.req
    /\ UNCHANGED <<attemptVars, owner, late, exits, pc, job, flagVars, recoveryVars>>

BeginHandoff ==
    /\ pc = "model"
    /\ latched # None
    /\ ~handoff.begun
    /\ MarkHandoffBegun(latched)
    /\ UNCHANGED <<attemptVars, owner, late, exits, loopVars, flagVars, recoveryVars>>

\* _settle_operator_request: an accepted request stays pending only when it was
\* served and a valid operator note makes the attempt a handoff.
SettleOperatorRequest(outcome, note) ==
    IF AcceptedHandoff /\ ~(latched = handoff.req /\ outcome = "handoff" /\ note = "operator")
    THEN FailHandoff(handoff.req)
    ELSE UNCHANGED storeVars

\* The notes a decision comes with.
NotesFor(outcome) ==
    CASE outcome = "handoff" -> {"ordinary"} \cup (IF latched = None THEN {} ELSE {"operator"})
      [] outcome = "incomplete" -> {"none", "invalid"}
      [] OTHER -> {"none"}

\* Work that is published moves the checkpoint to pushing before it is pushed;
\* incomplete work without commits has nothing to push.
PhasesFor(outcome, note) ==
    CASE outcome \in {"success", "handoff"} -> {"pushing"}
      [] outcome = "incomplete" /\ note = "none" -> {checkpoint.phase, "pushing"}
      [] outcome = "incomplete" /\ note # "none" -> {"pushing"}
      [] OTHER -> {checkpoint.phase}

EndModel(outcome, note) ==
    /\ pc = "model"
    /\ note \in NotesFor(outcome)
    /\ SettleOperatorRequest(outcome, note)
    /\ \E p \in PhasesFor(outcome, note) : AdvanceTo(p)
    /\ \E d \in BOOLEAN : tree' = [tree EXCEPT !.note = note, !.dirty = d]
    /\ verdict' = outcome
    /\ job' = [job EXCEPT !.outcome = outcome]
    /\ latched' = None
    /\ pc' = "publish"
    /\ UNCHANGED <<started, ledger, comments, released, errors, owner, late, exits,
                   flagVars, recoveryVars>>

\* An exception in the runner: no decision, and no settlement of the handoff.
\* What the model left is sealed, where the seal does not fail.
ModelRaises ==
    /\ pc = "model"
    /\ verdict' = "error"
    /\ job' = [job EXCEPT !.outcome = "error"]
    /\ latched' = None
    /\ pc' = "publish"
    /\ \E d \in BOOLEAN : tree' = [tree EXCEPT !.dirty = d]
    /\ UNCHANGED <<storeVars, started, checkpoint, ledger, comments, released, errors,
                   owner, late, exits, flagVars, recoveryVars>>

-----------------------------------------------------------------------------
(* Publication *)

\* The result comment, deduplicated by the attempt's marker.
PostComment(a) == comments' = comments \cup {a}

\* A push or pull-request failure turns the outcome into an error.
PublishedOutcomes(outcome) == {outcome, "error"}

PublishConfirmed ==
    /\ pc = "publish"
    /\ PostComment(job.att)
    /\ \E o \in PublishedOutcomes(job.outcome) : job' = [job EXCEPT !.outcome = o]
    /\ pc' = "hold1"
    /\ UNCHANGED <<storeVars, started, checkpoint, ledger, released, errors, tree, verdict,
                   owner, late, exits, latched, flagVars, recoveryVars>>

\* Mutant: an unconfirmed publication is taken for a confirmed one.
PublishUnconfirmedReleases ==
    /\ pc = "publish"
    /\ PostComment(job.att) \/ UNCHANGED comments
    /\ pc' = "hold1"
    /\ UNCHANGED <<storeVars, started, checkpoint, ledger, released, errors, tree, verdict,
                   owner, late, exits, job, latched, flagVars, recoveryVars>>

\* The comment was lost, or posted with its reply lost.
PublishUnconfirmed ==
    /\ pc = "publish"
    /\ PostComment(job.att) \/ UNCHANGED comments
    /\ job' = [job EXCEPT !.ok = FALSE]
    /\ pc' = "cleanup"
    /\ UNCHANGED <<storeVars, started, checkpoint, ledger, released, errors, tree, verdict,
                   owner, late, exits, latched, flagVars, recoveryVars>>

-----------------------------------------------------------------------------
(* The durable completion boundary *)

\* _check_operator_note reads the note from the checked-out working tree.
NoteVisible == tree.branch /\ tree.note = "operator"

\* Mutant: any published outcome completes the handoff.
HandoffCauseAnyOutcome(outcome, prep, slow) == ~handoff.begun \/ late \/ slow

\* _handoff_completion_cause: why the tracked handoff cannot complete.
\* Without a prepared attempt an earlier validation is trusted.
HandoffCause(outcome, prep, slow) ==
    \/ outcome # "handoff"
    \/ ~handoff.begun
    \/ prep /\ ~NoteVisible
    \/ late
    \/ slow

OwnedBy(a) ==
    /\ handoff.req # None
    /\ commands[handoff.req].ack = "not_fulfilled"
    /\ owner = a

\* _hold_failed_handoff up to its decision; the failing write is a step of its
\* own.  Only the first check applies the 120 s publication allowance.
CheckHold(here, failing, next, slow) ==
    /\ pc = here
    /\ pc' = IF AcceptedHandoff
             THEN IF HandoffCause(job.outcome, job.prep, slow) THEN failing ELSE next
             ELSE IF OwnedBy(job.att) THEN "finish" ELSE next
    /\ job' = [job EXCEPT !.req = IF pc' = failing THEN handoff.req ELSE None]
    /\ UNCHANGED <<storeVars, attemptVars, owner, late, exits, latched, flagVars,
                   recoveryVars>>

HoldBeforeRelease == \E slow \in BOOLEAN : CheckHold("hold1", "fail1", "release", slow)

HoldBeforeCommit == CheckHold("hold2", "fail2", "errors", FALSE)

\* fail_handoff leaves a command that is no longer accepted alone; the hold
\* is reported either way.
FailHeldHandoff ==
    /\ pc \in {"fail1", "fail2"}
    /\ IF commands[job.req].ack = "accepted"
       THEN FailHandoff(job.req) /\ owner' = job.att
       ELSE UNCHANGED <<storeVars, owner>>
    /\ pc' = "finish"
    /\ UNCHANGED <<attemptVars, late, exits, job, latched, flagVars, recoveryVars>>

ReleaseIssue ==
    /\ pc = "release"
    /\ released' = released \cup {job.att}
    /\ pc' = "cleanup"
    /\ UNCHANGED <<storeVars, started, checkpoint, ledger, comments, errors, tree, verdict,
                   owner, late, exits, job, latched, flagVars, recoveryVars>>

\* The exception leaves run_once after the boundary and ends the process.
ReleaseRaises ==
    /\ pc = "release"
    /\ exits < MaxExits
    /\ exits' = exits + 1
    /\ released' \in {released, released \cup {job.att}}
    /\ job' = [job EXCEPT !.exit = TRUE]
    /\ pc' = "cleanup"
    /\ UNCHANGED <<storeVars, started, checkpoint, ledger, comments, errors, tree, verdict,
                   owner, late, latched, flagVars, recoveryVars>>

\* workspace.cleanup: a dirty tree keeps the branch; a failing checkout of the
\* base branch is swallowed.
LeaveBranch ==
    \E b \in {FALSE, tree.branch} : tree' = [tree EXCEPT !.branch = b]

Cleanup ==
    LET cleaned == ~job.prep \/ ~tree.dirty
    IN  /\ pc = "cleanup"
        /\ IF job.prep /\ cleaned THEN LeaveBranch ELSE UNCHANGED tree
        /\ pc' = IF job.ok /\ ~job.exit /\ cleaned THEN "hold2" ELSE "finish"
        /\ UNCHANGED <<storeVars, started, checkpoint, ledger, comments, released, errors,
                       verdict, owner, late, exits, job, latched, flagVars, recoveryVars>>

\* Mutant: a replayed attempt is counted again.
GuardAfterAgain(a, outcome) ==
    [count |-> IF outcome = "error" THEN errors.count + 1 ELSE 0, last |-> a]

\* The error guard counts each attempt once.
GuardAfter(a, outcome) ==
    IF errors.last = a THEN errors
    ELSE [count |-> IF outcome = "error" THEN errors.count + 1 ELSE 0, last |-> a]

\* completion_store.record keeps the first record of an attempt.
RecordLedger(a, outcome) ==
    ledger' = [ledger EXCEPT ![a] = IF @ = None THEN outcome ELSE @]

\* Mutant: the checkpoint is blanked, not removed.
BlankCheckpoint == checkpoint' = [checkpoint EXCEPT !.att = None]

\* attempt_state.delete unlinks whatever checkpoint there is.
DeleteCheckpoint == checkpoint' = NoCheckpoint

\* _resolve_pending_handoff: the tracked handoff, if still accepted, completes
\* or fails on behalf of attempt a.
ResolvePendingHandoff(a, outcome, prep) ==
    IF ~AcceptedHandoff THEN UNCHANGED <<storeVars, owner>>
    ELSE IF HandoffCause(outcome, prep, FALSE)
         THEN FailHandoff(handoff.req) /\ owner' = a
         ELSE CompleteHandoff(handoff.req) /\ UNCHANGED owner

\* _commit_finalization, first step: at the limit the process halts with the
\* attempt neither recorded nor counted.
RecordErrors ==
    /\ pc = "errors"
    /\ errors' = GuardAfter(job.att, job.outcome)
    /\ IF errors'.count >= MaxErrors
       THEN ProcessEnds
       ELSE pc' = "ledger" /\ UNCHANGED <<job, latched, flagVars, recoveryVars>>
    /\ UNCHANGED <<storeVars, started, checkpoint, ledger, comments, released, tree,
                   verdict, owner, late, exits>>

RecordCompletion ==
    /\ pc = "ledger"
    /\ RecordLedger(job.att, job.outcome)
    /\ pc' = "count"
    /\ UNCHANGED <<storeVars, started, checkpoint, comments, released, errors, tree,
                   verdict, owner, late, exits, job, latched, flagVars, recoveryVars>>

CountFinalized ==
    /\ pc \in {"count", "recount"}
    /\ RecordAttemptFinalized(job.att)
    /\ pc' = IF pc = "count" THEN "delete" ELSE "reresolve"
    /\ UNCHANGED <<attemptVars, owner, late, exits, job, latched, flagVars, recoveryVars>>

RemoveCheckpoint ==
    /\ pc = "delete"
    /\ DeleteCheckpoint
    /\ pc' = "resolve"
    /\ UNCHANGED <<storeVars, started, ledger, comments, released, errors, tree, verdict,
                   owner, late, exits, job, latched, flagVars, recoveryVars>>

ResolveHandoff ==
    /\ pc = "resolve"
    /\ ResolvePendingHandoff(job.att, job.outcome, job.prep)
    /\ pc' = "finish"
    /\ UNCHANGED <<attemptVars, late, exits, job, latched, flagVars, recoveryVars>>

\* Finalized or held, the attempt is no longer in progress.
Finish ==
    /\ pc = "finish"
    /\ IF job.exit
       THEN ProcessEnds
       ELSE /\ pc' = "idle"
            /\ job' = NoJob
            /\ processing' = FALSE
            /\ recovering' = FALSE
            /\ UNCHANGED <<latched, executing, recoveryVars>>
    /\ UNCHANGED <<storeVars, attemptVars, owner, late, exits>>

-----------------------------------------------------------------------------
(* Startup reconciliation *)

ReconcileNothing ==
    /\ pc = "reconcile"
    /\ checkpoint = NoCheckpoint
    /\ pc' = "idle"
    /\ recovering' = FALSE
    /\ UNCHANGED <<storeVars, attemptVars, owner, late, exits, job, latched, processing,
                   executing, recoveryVars>>

\* The previous process recorded the attempt and died before removing the
\* checkpoint: it is counted, never replayed.
ReconcileFinalized ==
    /\ pc = "reconcile"
    /\ checkpoint # NoCheckpoint
    /\ ledger[checkpoint.att] # None
    /\ job' = [NoJob EXCEPT !.att = checkpoint.att, !.outcome = ledger[checkpoint.att]]
    /\ pc' = "recount"
    /\ UNCHANGED <<storeVars, attemptVars, owner, late, exits, latched, flagVars,
                   recoveryVars>>

\* A handoff that failed for this attempt keeps the checkpoint.
ResolveReplayed ==
    /\ pc = "reresolve"
    /\ ResolvePendingHandoff(job.att, job.outcome, FALSE)
    /\ IF \E a \in {job.att} : OwnedBy(a)'
       THEN pc' = "idle" /\ job' = NoJob /\ recovering' = FALSE
       ELSE pc' = "redelete" /\ UNCHANGED <<job, recovering>>
    /\ UNCHANGED <<attemptVars, late, exits, latched, processing, executing, recoveryVars>>

RemoveReplayed ==
    /\ pc = "redelete"
    /\ DeleteCheckpoint
    /\ pc' = "idle"
    /\ job' = NoJob
    /\ recovering' = FALSE
    /\ UNCHANGED <<storeVars, started, ledger, comments, released, errors, tree, verdict,
                   owner, late, exits, latched, processing, executing, recoveryVars>>

ReconcileInterrupted ==
    /\ pc = "reconcile"
    /\ checkpoint # NoCheckpoint
    /\ ledger[checkpoint.att] = None
    /\ EnterStoppingIfDue
    /\ processing' = TRUE
    /\ job' = [NoJob EXCEPT !.att = checkpoint.att]
    /\ pc' = "reprepare"
    /\ UNCHANGED <<attemptVars, owner, late, exits, latched, recovering, executing,
                   recoveryVars>>

\* The decision inferred from the checkpoint phase and the branch, with the
\* phase the checkpoint is moved to.  No commits, or an interrupted final
\* check, make an interrupted model execution an error.
InferredDecisions ==
    CASE checkpoint.phase = "model_running" ->
           {<<"incomplete", "pushing">>, <<"error", "model_running">>}
      [] checkpoint.phase = "pushing" ->
           {<<CASE tree.note \in {"ordinary", "operator"} -> "handoff"
                [] tree.note = "invalid" -> "incomplete"
                [] OTHER -> "success", "pushing">>}
      [] OTHER -> {<<"error", checkpoint.phase>>}

ReprepareAttempt ==
    /\ pc = "reprepare"
    /\ ~tree.dirty
    /\ \E d \in InferredDecisions :
          /\ AdvanceTo(d[2])
          /\ job' = [job EXCEPT !.prep = TRUE, !.outcome = d[1]]
    /\ tree' = [tree EXCEPT !.branch = TRUE]
    /\ pc' = "publish"
    /\ UNCHANGED <<storeVars, started, ledger, comments, released, errors, verdict, owner,
                   late, exits, latched, flagVars, recoveryVars>>

-----------------------------------------------------------------------------
(* Recovery commands, executed by a thread of the control socket.  At most   *)
(* one such thread is modelled.                                              *)

\* Commands, counts and flags take the lock that a claim in progress holds.
Serving == pc # "down" /\ ~LockHeld

\* _validated_recovery_checkpoint_locked.
Recoverable(a) ==
    /\ ~recovering
    /\ ~processing
    /\ checkpoint.att = a
    /\ ledger[a] = None

\* A fresh request is recorded first; an accepted one that an earlier process
\* left unfinished is executed again.
AcceptRecovery(r, kind, a) ==
    /\ Serving
    /\ kind \in Menu
    /\ IdleRecovery => pc = "idle"
    /\ rpc = "none"
    /\ Recoverable(a)
    /\ \/ SubmitRecovery(r, kind, a)
       \/ /\ commands[r] = [kind |-> kind, payload |-> a, ack |-> "accepted"]
          /\ UNCHANGED storeVars
    /\ processing' = TRUE
    /\ executing' = TRUE
    /\ rpc' = "prepare"
    /\ rjob' = [NoRecovery EXCEPT !.req = r, !.att = a]
    /\ UNCHANGED <<attemptVars, owner, late, exits, loopVars, recovering>>

\* Every step up to the accounting may fail and keep the hold.  A failed
\* publication or release may still have taken effect on GitHub.
RecoveryFails ==
    /\ rpc \in {"prepare", "publish", "release", "cleanup"}
    /\ \/ rpc = "publish" /\ PostComment(rjob.att) /\ UNCHANGED released
       \/ rpc = "release" /\ released' = released \cup {rjob.att} /\ UNCHANGED comments
       \/ UNCHANGED <<comments, released>>
    /\ rpc' = "unflag"
    /\ UNCHANGED <<storeVars, started, checkpoint, ledger, errors, tree, verdict, owner,
                   late, exits, loopVars, flagVars, rjob>>

\* A retry republishes the inferred decision; a release reports what is there.
RecoveryDecisions ==
    IF commands[rjob.req].kind = "recovery_retry"
    THEN InferredDecisions
    ELSE {<<o, checkpoint.phase>> : o \in IF tree.note \in {"ordinary", "operator"}
                                           THEN {"handoff"} ELSE {"incomplete", "error"}}

RecoveryPrepare ==
    /\ rpc = "prepare"
    /\ ~tree.dirty
    /\ \E d \in RecoveryDecisions :
          /\ AdvanceTo(d[2])
          /\ rjob' = [rjob EXCEPT !.outcome = d[1]]
    /\ tree' = [tree EXCEPT !.branch = TRUE]
    /\ rpc' = "publish"
    /\ UNCHANGED <<storeVars, started, ledger, comments, released, errors, verdict, owner,
                   late, exits, loopVars, flagVars>>

RecoveryPublish ==
    /\ rpc = "publish"
    /\ PostComment(rjob.att)
    /\ \E o \in IF commands[rjob.req].kind = "recovery_retry"
                THEN PublishedOutcomes(rjob.outcome) ELSE {rjob.outcome} :
          rjob' = [rjob EXCEPT !.outcome = o]
    /\ rpc' = "release"
    /\ UNCHANGED <<storeVars, started, checkpoint, ledger, released, errors, tree, verdict,
                   owner, late, exits, loopVars, flagVars>>

RecoveryRelease ==
    /\ rpc = "release"
    /\ released' = released \cup {rjob.att}
    /\ rpc' = "cleanup"
    /\ UNCHANGED <<storeVars, started, checkpoint, ledger, comments, errors, tree, verdict,
                   owner, late, exits, loopVars, flagVars, rjob>>

RecoveryCleanup ==
    /\ rpc = "cleanup"
    /\ ~tree.dirty
    /\ LeaveBranch
    /\ rpc' = "errors"
    /\ UNCHANGED <<storeVars, started, checkpoint, ledger, comments, released, errors,
                   verdict, owner, late, exits, loopVars, flagVars, rjob>>

\* At the limit the SystemExit is caught: the command fails, the process lives.
RecoveryErrors ==
    /\ Serving
    /\ rpc = "errors"
    /\ errors' = GuardAfter(rjob.att, rjob.outcome)
    /\ rpc' = IF errors'.count >= MaxErrors THEN "unflag" ELSE "ledger"
    /\ UNCHANGED <<storeVars, started, checkpoint, ledger, comments, released, tree,
                   verdict, owner, late, exits, loopVars, flagVars, rjob>>

RecoveryLedger ==
    /\ rpc = "ledger"
    /\ RecordLedger(rjob.att, rjob.outcome)
    /\ rpc' = "count"
    /\ UNCHANGED <<storeVars, started, checkpoint, comments, released, errors, tree,
                   verdict, owner, late, exits, loopVars, flagVars, rjob>>

RecoveryCount ==
    /\ Serving
    /\ rpc = "count"
    /\ RecordAttemptFinalized(rjob.att)
    /\ rpc' = "delete"
    /\ UNCHANGED <<attemptVars, owner, late, exits, loopVars, flagVars, rjob>>

RecoveryDelete ==
    /\ rpc = "delete"
    /\ DeleteCheckpoint
    /\ rpc' = "resolve"
    /\ UNCHANGED <<storeVars, started, ledger, comments, released, errors, tree, verdict,
                   owner, late, exits, loopVars, flagVars, rjob>>

RecoveryResolve ==
    /\ Serving
    /\ rpc = "resolve"
    /\ ResolvePendingHandoff(rjob.att, rjob.outcome, TRUE)
    /\ rpc' = "unflag"
    /\ rjob' = [rjob EXCEPT !.done = TRUE]
    /\ UNCHANGED <<attemptVars, late, exits, loopVars, flagVars>>

RecoveryUnflag ==
    /\ Serving
    /\ rpc = "unflag"
    /\ processing' = FALSE
    /\ executing' = FALSE
    /\ rpc' = "settle"
    /\ UNCHANGED <<storeVars, attemptVars, owner, late, exits, loopVars, recovering, rjob>>

\* Mutant: a failed recovery is reported as completed.
RecoverySettleBlindly ==
    /\ Serving
    /\ rpc = "settle"
    /\ SettleRecovery(rjob.req, "completed")
    /\ rpc' = "none"
    /\ rjob' = NoRecovery
    /\ UNCHANGED <<attemptVars, owner, late, exits, loopVars, flagVars>>

RecoverySettle ==
    /\ Serving
    /\ rpc = "settle"
    /\ SettleRecovery(rjob.req, IF rjob.done THEN "completed" ELSE "not_fulfilled")
    /\ rpc' = "none"
    /\ rjob' = NoRecovery
    /\ UNCHANGED <<attemptVars, owner, late, exits, loopVars, flagVars>>

-----------------------------------------------------------------------------
(* Operator commands on the control socket *)

\* _recovery_hold_locked: what blocks resume and handoff.
RecoveryHold ==
    \/ recovering
    \/ checkpoint # NoCheckpoint /\ (~processing \/ executing)
    \/ ~processing /\ tree.dirty

\* stop and stop --after are never blocked by a hold.
CommandStop(r) ==
    /\ "stop" \in Menu
    /\ SubmitStop(r, checkpoint.att)
    /\ UNCHANGED <<errors, owner, late>>

CommandStopAfter(r, n) ==
    /\ "stop_after" \in Menu
    /\ SubmitStopAfter(r, n, checkpoint.att)
    /\ UNCHANGED <<errors, owner, late>>

CommandResume(r) ==
    /\ "resume" \in Menu
    /\ SubmitResume(r, RecoveryHold)
    /\ UNCHANGED <<errors, owner, late>>

\* A new tracked handoff has a detail and a deadline of its own.
CommandHandoff(r) ==
    /\ "handoff" \in Menu
    /\ SubmitHandoff(r, checkpoint.att, RecoveryHold)
    /\ owner' = None
    /\ late' = FALSE
    /\ UNCHANGED errors

CommandNextIssue(r, issue) ==
    /\ "next_issue" \in Menu
    /\ SubmitNextIssue(r, issue)
    /\ UNCHANGED <<errors, owner, late>>

\* The guard is cleared; the last counted attempt is kept.
CommandErrorsReset(r) ==
    /\ "errors_reset" \in Menu
    /\ SubmitErrorsReset(r)
    /\ errors' = [errors EXCEPT !.count = 0]
    /\ UNCHANGED <<owner, late>>

OperatorCommand ==
    /\ Serving
    /\ \E r \in ReqIds : \/ CommandStop(r)
                         \/ \E n \in Counts : CommandStopAfter(r, n)
                         \/ CommandResume(r)
                         \/ CommandHandoff(r)
                         \/ \E issue \in Issues : CommandNextIssue(r, issue)
                         \/ CommandErrorsReset(r)
    /\ UNCHANGED <<started, checkpoint, ledger, comments, released, tree, verdict, exits,
                   loopVars, flagVars, recoveryVars>>

-----------------------------------------------------------------------------
(* Environment *)

DeadlinePasses ==
    /\ AcceptedHandoff
    /\ ~late
    /\ late' = TRUE
    /\ UNCHANGED <<storeVars, attemptVars, owner, exits, loopVars, flagVars, recoveryVars>>

\* An operator commits, stashes or removes the unexplained work.
RepairTree ==
    /\ tree.dirty
    /\ pc \in {"idle", "down"}
    /\ tree' = [tree EXCEPT !.dirty = FALSE]
    /\ UNCHANGED <<storeVars, started, checkpoint, ledger, comments, released, errors,
                   verdict, owner, late, exits, loopVars, flagVars, recoveryVars>>

-----------------------------------------------------------------------------
(* Specification *)

ClaimStep ==
    \/ ClaimPriority
    \/ LosePriority
    \/ EmptyQueue
    \/ AnnounceFinalClaim
    \/ FinishStop
    \/ \E a \in Attempts : StartPrioritized(a) \/ ClaimFifo(a)

ModelStep ==
    \/ PrepareAttempt
    \/ PrepareRefused
    \/ PrepareRaises
    \/ DeliverHandoff
    \/ BeginHandoff
    \/ \E outcome \in Outcomes, note \in Notes : EndModel(outcome, note)
    \/ ModelRaises

BoundaryStep ==
    \/ PublishConfirmed
    \/ PublishUnconfirmed
    \/ HoldBeforeRelease
    \/ FailHeldHandoff
    \/ ReleaseIssue
    \/ ReleaseRaises
    \/ Cleanup
    \/ HoldBeforeCommit
    \/ RecordErrors
    \/ RecordCompletion
    \/ CountFinalized
    \/ RemoveCheckpoint
    \/ ResolveHandoff
    \/ Finish

ReconcileStep ==
    \/ ReconcileNothing
    \/ ReconcileFinalized
    \/ ResolveReplayed
    \/ RemoveReplayed
    \/ ReconcileInterrupted
    \/ ReprepareAttempt

LoopStep == Boot \/ MarkStarted \/ ClaimStep \/ ModelStep \/ BoundaryStep \/ ReconcileStep

RecoveryStep ==
    \/ RecoveryFails
    \/ RecoveryPrepare
    \/ RecoveryPublish
    \/ RecoveryRelease
    \/ RecoveryCleanup
    \/ RecoveryErrors
    \/ RecoveryLedger
    \/ RecoveryCount
    \/ RecoveryDelete
    \/ RecoveryResolve
    \/ RecoveryUnflag
    \/ RecoverySettle

LifeNext ==
    \/ LoopStep
    \/ RecoveryStep
    \/ \E r \in ReqIds, kind \in RecoveryKinds, a \in Attempts : AcceptRecovery(r, kind, a)
    \/ OperatorCommand
    \/ DeadlinePasses
    \/ RepairTree
    \/ Crash

LifeSpec == LifeInit /\ [][LifeNext]_vars

\* The loop and the recovery thread run until they wait for an operator.
FairLifeSpec == LifeSpec /\ WF_vars(LoopStep) /\ WF_vars(RecoveryStep)

-----------------------------------------------------------------------------
(* Properties *)

\* An attempt that was claimed keeps its checkpoint until the completion
\* ledger has it: no crash, hold or recovery command loses one.
NoAttemptLost == \A a \in started : checkpoint.att = a \/ ledger[a] # None

\* The attempt still to be finalized.
Unfinished ==
    IF checkpoint # NoCheckpoint /\ ledger[checkpoint.att] = None THEN checkpoint.att ELSE None

Life == INSTANCE AttemptLife
          WITH claimed <- started, active <- Unfinished, announced <- comments,
               freed <- released, finished <- {a \in Attempts : ledger[a] # None}

\* The lifecycle implements AttemptLife: one attempt at a time, its result
\* posted before its issue is released, its issue released before the ledger
\* has it, and finalized once, by the loop, by reconciliation or by a recovery
\* command (the boundary of run_once, _reconcile_startup, _retry_retained_attempt).
ImplementsAttemptLife == Life!Spec

\* A plain stop that waits is acknowledged only when no attempt is left open,
\* or together with the handoff it joined (complete_pending_stop at the gate,
\* record_attempt_finalized, fail_handoff).
StopsWait ==
    [][\A r \in ReqIds :
          /\ commands[r].kind = "stop" /\ commands[r].ack = "accepted"
          /\ commands'[r].ack = "completed"
          => \/ Unfinished = None
             \/ \E h \in ReqIds : /\ commands[h].kind = "handoff"
                                  /\ commands[h].ack = "accepted"
                                  /\ commands'[h].ack # "accepted"]_vars

\* The operator's counts and completions stand for finished work: only a
\* finalized attempt counts against a stop --after, and a completed handoff has
\* an attempt that was published as a handoff, released and finalized, whichever
\* of the loop, reconciliation and recovery got it there
\* (record_attempt_finalized, _resolve_pending_handoff).
FinalizedWorkOnly ==
    /\ \A a \in Attempts : counted[a] # None => ledger[a] # None
    /\ \A r \in ReqIds :
          commands[r].kind = "handoff" /\ commands[r].ack = "completed" =>
             \E a \in Attempts : ledger[a] = "handoff" /\ a \in released

\* The guard counts an attempt at most once, whatever is replayed after a
\* crash between the guard, the ledger and the checkpoint.
ErrorsCountedOnce == errors.count <= Cardinality(released)

\* A recovery command is acknowledged as completed only when its attempt is
\* finalized and its hold is gone.
RecoveryTruthful ==
    \A r \in ReqIds :
       commands[r].kind \in RecoveryKinds /\ commands[r].ack = "completed" =>
          /\ ledger[commands[r].payload] # None
          /\ checkpoint.att # commands[r].payload

\* The attempt is retained for an operator and nothing works on it.
Held == checkpoint # NoCheckpoint /\ ~processing /\ pc = "idle"

\* The guard is at its limit with the attempt it halts on still open: every
\* restart ends at the guard again, before the ledger, the count and the handoff,
\* until an operator resets it (_record_terminal_outcome).
Halting ==
    /\ errors.count >= MaxErrors
    /\ checkpoint.att = errors.last /\ Unfinished # None

\* A stop, or a handoff, is eventually acknowledged, after crashes and after a
\* reset of the error guard too, unless its attempt is held for recovery or the
\* guard halts every process on it (FinishStop, record_attempt_finalized,
\* fail_handoff).
StopsSettle ==
    \A r \in ReqIds :
       commands[r].kind \in {"stop", "handoff"} /\ commands[r].ack = "accepted" ~>
          commands[r].ack # "accepted" \/ Held \/ Halting

-----------------------------------------------------------------------------
(* A statement of the code that the model refutes *)

\* Only a locally complete candidate is published as complete (Publisher.publish).
OnlyVerifiedSuccess ==
    /\ pc = "hold1" /\ job.outcome = "success" => verdict = "success"
    /\ rpc = "release" /\ rjob.outcome = "success" => verdict = "success"
=============================================================================
