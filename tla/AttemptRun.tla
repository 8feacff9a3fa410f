---------------------------- MODULE AttemptRun -----------------------------
(***************************************************************************)
(* One attempt from its claim to its end: the git workspace, the runner of *)
(* an ordinary attempt (lifecycle.ModelAttemptRunner), the conflict        *)
(* attempt (AgentLifecycle._execute_conflict_attempt), the publication of  *)
(* the result (module Publication) and startup recovery, with crashes at   *)
(* every step, a base that moves and another Worker that publishes.        *)
(*                                                                         *)
(* The model commits, edits, writes notes and ends in any way it likes;    *)
(* commands succeed or fail.  The steps after the publication (release,    *)
(* cleanup, accounting) are the subject of Lifecycle and one step here.    *)
(***************************************************************************)
EXTENDS Publication

CONSTANTS
    Scenes,         \* how the attempt finds its branch: kind, mode, base,
                    \* branch of origin and of the clone, conflicting commits
    MaxCrashes      \* bound: deaths of the process

\* The branch is new, published by earlier attempts, or left behind in the
\* clone by one that published nothing; a conflict attempt has a published one.
ASSUME AttemptAssumption ==
    /\ MaxCrashes \in Nat
    /\ Scenes \subseteq
        [kind : {"ordinary", "conflict"}, mode : {"verbose", "link"}, base : 0..MaxBase,
         remote : {Absent, Branch({"old"}, 0)}, local : {Absent, Branch({"old"}, 0)},
         clashes : SUBSET Commits]
    /\ \A s \in Scenes : s.kind = "conflict" => s.remote # Absent

VARIABLES
    signal,         \* the issue promises a published branch
    prep,           \* PreparedAttempt
    run,            \* what the runner has observed so far
    mark,           \* archive: the final check "started", "finished" or neither
    actor,          \* who has the attempt: the "runner", "startup" recovery, or
                    \* the operator's recovery "retry" or "release"
    crashes,        \* bound
    checked,        \* ghost: the revisions a green check ran on
    wrote           \* ghost: the model changed something in this attempt

vars == <<kind, mode, clashes, base, remote, record, comments, pr, local, tree, ckpt, intent,
          pc, req, pub, faults, others, history, own,
          signal, prep, run, mark, actor, crashes, checked, wrote>>

\* What stays while the attempt itself runs
Elsewhere == UNCHANGED <<kind, mode, clashes, base, remote, record, comments, pr, intent, pub,
                         others, history, own, signal, crashes>>

Statuses == {"succeeded", "limit", "handoff", "expired", "infra"}
NoPrep == [pre |-> Absent, restored |-> FALSE, seen |-> Absent]
NoRun == [deferred |-> FALSE, continuation |-> FALSE, baseline |-> "none",
          status |-> "none", check |-> "none", residue |-> FALSE, head |-> Absent]

AttemptInit ==
    /\ \E s \in Scenes : /\ kind = s.kind /\ mode = s.mode /\ base = s.base
                         /\ remote = s.remote /\ local = s.local
                         /\ clashes = s.clashes
    /\ pr = IF kind = "conflict" THEN "open" ELSE "none"
    /\ record = [by |-> IF remote = Absent THEN "none" ELSE "earlier", rev |-> remote]
    /\ signal = (remote # Absent)
    /\ comments = <<>> /\ intent = Absent /\ tree = "clean"
    /\ ckpt = [phase |-> "claimed", lease |-> Absent, known |-> FALSE]
    /\ pc = IF kind = "conflict" THEN "entry" ELSE "prepare"
    /\ req = NoRequest /\ pub = Fresh /\ prep = NoPrep /\ run = NoRun /\ mark = "none"
    /\ faults = 0 /\ others = 0 /\ crashes = 0
    /\ history = {remote} /\ own = {} /\ checked = {} /\ wrote = FALSE
    /\ actor = "runner"

-----------------------------------------------------------------------------
(* The git workspace *)

Rebase(rev, b) == [rev EXCEPT !.base = b]

\* Mutant: a branch neither side has is not created.
StartingPointMissing(seen) == IF seen # Absent THEN seen ELSE local

\* The branch of origin is preferred to the local one, and that to a new one.
StartingPoint(seen) ==
    IF seen # Absent THEN seen ELSE IF local # Absent THEN local ELSE Branch({}, base)

\* The fetch of the branch is best effort: one that fails reads as absent.
FetchBranch(seen) ==
    \/ seen = remote /\ UNCHANGED faults
    \/ seen = Absent /\ seen # remote /\ Fails

\* The runner returns its request, or raises into one without a push.
Returns(r) ==
    /\ req' = r
    /\ pc' = "publish"
    /\ run' = NoRun /\ prep' = NoPrep

Terminal(outcome) ==
    Returns(IF kind = "conflict" THEN RaisedRequest("unprepared") ELSE Request(outcome, FALSE, FALSE))

\* DirtyWorkspaceError, or a base beyond repair: everything is preserved.
HoldWorkspace ==
    /\ pc = "prepare"
    /\ \/ tree # "clean" /\ UNCHANGED faults
       \/ tree = "clean" /\ Fails
    /\ pc' = "held"
    /\ Elsewhere
    /\ UNCHANGED <<local, tree, ckpt, req, prep, run, mark, actor, checked, wrote>>

\* prepare_attempt and _rebase_onto_base: a conflicting rebase is left in
\* progress, with the branch still at its old tip.
PrepareAttempt ==
    /\ pc = "prepare" /\ tree = "clean"
    /\ \E seen \in {remote, Absent} :
        LET start == StartingPoint(seen)
            clash == start.base # base /\ start.work \cap clashes # {}
        IN /\ prep' = [pre |-> IF clash THEN start ELSE Absent,
                       restored |-> seen # Absent, seen |-> seen]
           /\ FetchBranch(seen)
           /\ local' = IF clash THEN start ELSE Rebase(start, base)
           /\ tree' = IF clash THEN "conflict" ELSE "clean"
    /\ pc' = IF actor = "release" THEN "release" ELSE "lease"
    /\ Elsewhere
    /\ UNCHANGED <<ckpt, req, run, mark, actor, checked, wrote>>

\* Any other failure while preparing ends the attempt; a recovery command only
\* fails.
PrepareFails ==
    /\ pc = "prepare" /\ tree = "clean" /\ Fails
    /\ actor \in {"runner", "startup"}
    /\ Terminal("infra")
    /\ Elsewhere
    /\ UNCHANGED <<local, tree, ckpt, mark, actor, checked, wrote>>

\* _record_claim_lease: the first recording wins; a failed one is only logged.
RecordLease ==
    /\ pc = "lease"
    /\ \/ /\ ckpt' = IF ckpt.known THEN ckpt
                     ELSE [ckpt EXCEPT !.lease = prep.seen, !.known = TRUE]
          /\ UNCHANGED faults
       \/ ~ckpt.known /\ Fails /\ UNCHANGED ckpt
    /\ pc' = IF actor # "runner" THEN "infer" ELSE IF kind = "conflict" THEN "rebased" ELSE "setup"
    /\ Elsewhere
    /\ UNCHANGED <<local, tree, req, prep, run, mark, actor, checked, wrote>>

\* seal: every change is committed, unless a rebase is in progress.
Sealed(rev) == IF tree \in {"dirty", "markers"} THEN [rev EXCEPT !.work = @ \cup {"work"}] ELSE rev
SealedTree == IF tree \in {"dirty", "markers"} THEN "clean" ELSE tree

\* conflict_state: a rebase in progress, or markers that were committed or left
Unresolved == tree \in {"conflict", "markers"}

\* abort_unresolved_rebase
Restored == IF prep.pre = Absent THEN local ELSE prep.pre

-----------------------------------------------------------------------------
(* The runner of an ordinary attempt *)

RunnerStep == Elsewhere /\ UNCHANGED actor

\* ModelAttemptRunner.__call__, up to setup
EnterSetup ==
    /\ pc = "setup"
    /\ ckpt' = [ckpt EXCEPT !.phase = "setup"]
    /\ \/ /\ ~prep.restored /\ signal          \* continuation_branch_missing
          /\ Terminal("incomplete")
       \/ /\ prep.restored \/ ~signal
          /\ run' = [NoRun EXCEPT !.continuation = HasCommits(local),
                                  !.deferred = tree = "conflict"]
          /\ pc' = IF tree = "conflict" THEN "dispatch" ELSE "preparation"
          /\ UNCHANGED <<req, prep>>
    /\ RunnerStep
    /\ UNCHANGED <<local, tree, faults, mark, checked, wrote>>

\* _run_preparation: the decision of evaluate when setup or the baseline fails
EarlyDecision(ok, baseline, continuation) ==
    IF ~ok \/ baseline = "none" THEN "infra"
    ELSE IF baseline = "red" /\ ~continuation THEN "incomplete"
    ELSE "none"

\* Setup and baseline, before the model or, deferred, after it
RunPreparation ==
    /\ pc = "preparation"
    /\ \E ok \in BOOLEAN, baseline \in {"none", "red", "green"} :
        LET early == EarlyDecision(ok, baseline, run.continuation \/ run.deferred)
        IN IF early = "none"
           THEN /\ run' = [run EXCEPT !.baseline = baseline]
                /\ pc' = IF run.deferred THEN "note" ELSE "dispatch"
                /\ UNCHANGED <<req, prep>>
           ELSE Terminal(early)
    /\ RunnerStep
    /\ UNCHANGED <<local, tree, ckpt, faults, mark, checked, wrote>>

DispatchModel ==
    /\ pc = "dispatch"
    /\ ckpt' = [ckpt EXCEPT !.phase = "model_running"]
    /\ pc' = "model"
    /\ RunnerStep
    /\ UNCHANGED <<local, tree, req, faults, prep, run, mark, checked, wrote>>

\* The model's doings in the working tree, in a session of either kind
ModelCommits ==
    /\ pc \in {"model", "resolve"} /\ tree \in {"clean", "dirty"}
    /\ local' = [local EXCEPT !.work = @ \cup {"work"}]
    /\ wrote' = TRUE
    /\ RunnerStep
    /\ UNCHANGED <<tree, ckpt, pc, req, faults, prep, run, mark, checked>>

ModelEdits ==
    /\ pc \in {"model", "resolve"} /\ tree = "clean"
    /\ tree' = "dirty"
    /\ wrote' = TRUE
    /\ RunnerStep
    /\ UNCHANGED <<local, ckpt, pc, req, faults, prep, run, mark, checked>>

ModelWritesNote ==
    /\ pc = "model" /\ tree \in {"clean", "dirty"} /\ local.note = "none"
    /\ \E note \in {"written", "bad"} :
        local' = [local EXCEPT !.note = note, !.cites = local.base]
    /\ RunnerStep
    /\ UNCHANGED <<tree, ckpt, pc, req, faults, prep, run, mark, checked, wrote>>

\* The rebase is finished, well or with markers left behind, or one of the
\* model's own is left in progress.
ModelRebases ==
    /\ pc \in {"model", "resolve"}
    /\ \/ /\ tree = "conflict"
          /\ local' = Rebase(local, base)
          /\ tree' \in {"clean", "markers"}
       \/ /\ tree = "clean" /\ HasCommits(local) /\ ~run.deferred
          /\ tree' = "conflict" /\ UNCHANGED local
    /\ RunnerStep
    /\ UNCHANGED <<ckpt, pc, req, faults, prep, run, mark, checked, wrote>>

ModelEnds ==
    /\ pc = "model"
    /\ \E s \in Statuses : run' = [run EXCEPT !.status = s]
    /\ pc' = "verify"
    /\ RunnerStep
    /\ UNCHANGED <<local, tree, ckpt, req, faults, prep, mark, checked, wrote>>

\* The session raises: what is there is sealed, best effort, and the attempt
\* ends as an infrastructure error.
ModelRaises ==
    /\ pc = "model"
    /\ \/ local' = Sealed(local) /\ tree' = SealedTree /\ UNCHANGED faults
       \/ tree = "dirty" /\ Fails /\ UNCHANGED <<local, tree>>
    /\ Terminal("infra")
    /\ RunnerStep
    /\ UNCHANGED <<ckpt, mark, checked, wrote>>

\* An unresolved rebase is aborted and reported.
VerifyResolution ==
    /\ pc = "verify"
    /\ LET unresolved == run.deferred /\ Unresolved
       IN \/ /\ unresolved
             /\ \/ local' = Restored /\ tree' = "clean" /\ UNCHANGED faults
                \/ Fails /\ UNCHANGED <<local, tree>>
             /\ Terminal("infra")
          \/ /\ ~unresolved
             /\ pc' = "seal" /\ UNCHANGED <<local, tree, req, faults, prep, run>>
    /\ RunnerStep
    /\ UNCHANGED <<ckpt, mark, checked, wrote>>

\* Every session is sealed; a seal that is refused or fails ends the attempt.
SealWork ==
    /\ pc = "seal"
    /\ \/ /\ tree # "conflict"
          /\ local' = Sealed(local) /\ tree' = SealedTree
          /\ pc' = IF run.deferred THEN "preparation" ELSE "note"
          /\ UNCHANGED <<req, faults, prep, run>>
       \/ /\ \/ tree = "conflict" /\ UNCHANGED faults
             \/ tree = "dirty" /\ Fails
          /\ Terminal("infra")
          /\ UNCHANGED <<local, tree>>
    /\ RunnerStep
    /\ UNCHANGED <<ckpt, mark, checked, wrote>>

\* _build_emergency_handoff_note: a note on top of what is committed
WithNote(rev) == [rev EXCEPT !.note = "written", !.cites = rev.base]

\* A session at its limit gets an emergency note unless it wrote one; when that
\* raises, the note may be left behind uncommitted.
EmergencyNote ==
    /\ pc = "note"
    /\ \/ /\ local' = IF run.status = "limit" /\ local.note = "none"
                      THEN WithNote(local) ELSE local
          /\ run' = [run EXCEPT !.status = IF @ = "limit" THEN "handoff" ELSE @]
          /\ pc' = "check"
          /\ UNCHANGED <<tree, req, faults, prep>>
       \/ /\ Fails
          /\ tree' \in IF run.status = "limit" THEN {tree, "dirty"} ELSE {tree}
          /\ Terminal("infra") /\ UNCHANGED local
    /\ RunnerStep
    /\ UNCHANGED <<ckpt, mark, checked, wrote>>

\* The final check runs on a session that succeeded with commits, unless the
\* deferred baseline is the same check and red.
FinalCheckRuns ==
    /\ run.status = "succeeded" /\ HasCommits(local)
    /\ ~(run.deferred /\ run.baseline = "red")

StartFinalCheck ==
    /\ pc = "check"
    /\ IF FinalCheckRuns
       THEN mark' = "started" /\ pc' = "checking"
       ELSE pc' = "decide" /\ UNCHANGED mark
    /\ RunnerStep
    /\ UNCHANGED <<local, tree, ckpt, req, faults, prep, run, checked, wrote>>

\* What a green check leaves behind in the tree is noticed and sealed, both
\* best effort.
FinishFinalCheck ==
    /\ pc = "checking"
    /\ mark' = "finished"
    /\ \E green \in BOOLEAN, dirties \in BOOLEAN, noticed \in BOOLEAN :
        /\ noticed => green /\ dirties
        /\ run' = [run EXCEPT !.check = IF green THEN "green" ELSE "red", !.residue = noticed]
        /\ checked' = IF green THEN checked \cup {local} ELSE checked
        /\ \/ /\ noticed                            \* sealed
              /\ local' = [local EXCEPT !.work = @ \cup {"fix"}] /\ tree' = "clean"
              /\ UNCHANGED faults
           \/ /\ green /\ dirties /\ Fails          \* not sealed, or not noticed
              /\ tree' = "dirty" /\ UNCHANGED local
           \/ /\ ~(green /\ dirties)
              /\ tree' = IF dirties THEN "dirty" ELSE tree
              /\ UNCHANGED <<local, faults>>
    /\ pc' = "decide"
    /\ RunnerStep
    /\ UNCHANGED <<ckpt, req, prep, wrote>>

Decision(outcome) == Request(outcome, FALSE, outcome = "incomplete" /\ HasCommits(local))

\* Mutant: what the check left behind in the tree does not matter.
EvaluateResidueIgnored(accepted) ==
    CASE run.status = "infra" -> Decision("infra")
      [] run.status \in {"handoff", "expired"} /\ ~HasCommits(local) -> Decision("no_changes")
      [] run.status = "handoff" -> Request("handoff", FALSE, TRUE)
      [] run.status = "expired" -> Request("incomplete", FALSE, TRUE)
      [] ~HasCommits(local) -> Decision("no_changes")
      [] \/ run.deferred /\ run.baseline = "red"
         \/ ~accepted
         \/ run.check # "green" -> Decision("incomplete")
      [] OTHER -> Request("none", TRUE, FALSE)

\* CompletionEvaluator.evaluate, after setup and baseline.  "accepted" stands
\* for the acceptance criteria, the review findings and the repair cycles.
Evaluate(accepted) ==
    CASE run.status = "infra" -> Decision("infra")
      [] run.status \in {"handoff", "expired"} /\ ~HasCommits(local) -> Decision("no_changes")
      [] run.status = "handoff" -> Request("handoff", FALSE, TRUE)
      [] run.status = "expired" -> Request("incomplete", FALSE, TRUE)
      [] ~HasCommits(local) -> Decision("no_changes")
      [] \/ run.deferred /\ run.baseline = "red"
         \/ ~accepted
         \/ run.check # "green"
         \/ run.residue -> Decision("incomplete")
      [] OTHER -> Request("none", TRUE, FALSE)

\* _validate_handoff_note: the note names the commit beneath it, which a
\* rebase onto a moved base replaces.
NoteValid(rev) == rev.note = "written" /\ rev.cites = rev.base

\* The standing of a handoff may be unreadable, which leaves it without a
\* shared record, and its budget may be used up.
HandoffRequests(r) ==
    IF r.outcome = "handoff"
    THEN {[r EXCEPT !.notify = n, !.shared = s] : n, s \in BOOLEAN}
    ELSE {r}

\* Mutant: any note will do for a handoff.
DecideAnyNote ==
    /\ pc = "decide"
    /\ \E accepted \in BOOLEAN :
        LET d == Evaluate(accepted)
        IN /\ \E r \in HandoffRequests(d) : Returns(r)
           /\ ckpt' = IF d.eligible \/ d.partial THEN [ckpt EXCEPT !.phase = "pushing"] ELSE ckpt
    /\ RunnerStep
    /\ UNCHANGED <<local, tree, faults, mark, checked, wrote>>

\* The decision, its validation and the transition to PUSHING
Decide ==
    /\ pc = "decide"
    /\ \E accepted \in BOOLEAN :
        LET d == Evaluate(accepted)
            v == IF d.outcome = "handoff" /\ ~NoteValid(local) THEN Decision("incomplete") ELSE d
        IN /\ \E r \in HandoffRequests(v) : Returns(r)
           /\ ckpt' = IF v.eligible \/ v.partial THEN [ckpt EXCEPT !.phase = "pushing"] ELSE ckpt
    /\ RunnerStep
    /\ UNCHANGED <<local, tree, faults, mark, checked, wrote>>

-----------------------------------------------------------------------------
(* The conflict attempt *)

ConflictEnds(result, push) == Returns(ConflictRequest(result, push, run.head))

\* A call of _execute_conflict_attempt that raises leaves run_once without the
\* prepared attempt.
ConflictRaises == Fails /\ Returns(RaisedRequest("unprepared"))

\* entry_skip_reason, base_mismatch_reason: no open pull request, or one that
\* is a draft, mergeable or on another base; or it cannot be looked up
ConflictEntry ==
    /\ pc = "entry"
    /\ \/ /\ pr = "open"
          /\ ckpt' = [ckpt EXCEPT !.phase = "setup"]
          /\ run' = [NoRun EXCEPT !.head = remote]
          /\ pc' = "prepare" /\ UNCHANGED <<req, prep, faults>>
       \/ ConflictEnds("skipped", FALSE) /\ UNCHANGED <<ckpt, faults>>
       \/ ConflictRaises /\ UNCHANGED ckpt
    /\ RunnerStep
    /\ UNCHANGED <<local, tree, mark, checked, wrote>>

\* A conflicting rebase goes to the model; a clean one to setup and a check.
ConflictRebased ==
    /\ pc = "rebased"
    /\ \/ /\ tree = "conflict"
          /\ run' = [run EXCEPT !.deferred = TRUE]
          /\ pc' = "session" /\ UNCHANGED <<ckpt, req, prep>>
       \/ /\ tree = "clean"
          /\ ckpt' = [ckpt EXCEPT !.phase = "model_running"]
          /\ pc' = "first_check" /\ UNCHANGED <<req, run, prep>>
       \/ /\ tree = "clean"
          /\ ConflictEnds("setup_failed", FALSE) /\ UNCHANGED ckpt
    /\ RunnerStep
    /\ UNCHANGED <<local, tree, faults, mark, checked, wrote>>

\* A green check is pushed; a red one is a semantic conflict for the model.
ConflictFirstCheck ==
    /\ pc = "first_check"
    /\ tree' \in {"clean", "dirty"}
    /\ \/ /\ checked' = checked \cup {local}
          /\ ckpt' = [ckpt EXCEPT !.phase = "pushing"]
          /\ ConflictEnds("success", TRUE)
       \/ pc' = "session" /\ UNCHANGED <<checked, ckpt, req, prep, run>>
    /\ RunnerStep
    /\ UNCHANGED <<local, faults, mark, wrote>>

\* _resolve_conflict_with_model: the one session of a conflict attempt.  Where
\* it cannot be prepared (the commits, then the comments are read), the attempt
\* ends with its rebase still in progress.
ConflictSession ==
    /\ pc = "session"
    /\ \/ /\ ckpt' = [ckpt EXCEPT !.phase = "model_running"]
          /\ pc' = "resolve" /\ UNCHANGED <<req, prep, run, faults>>
       \/ Fails /\ ConflictEnds("error", FALSE) /\ UNCHANGED ckpt
       \/ ConflictRaises /\ ckpt' = [ckpt EXCEPT !.phase = "model_running"]
    /\ RunnerStep
    /\ UNCHANGED <<local, tree, mark, checked, wrote>>

\* _abort_conflict_best_effort, _seal_conflict_best_effort
AbortAndSeal ==
    \/ /\ local' = IF tree = "conflict" THEN Restored ELSE Sealed(local)
       /\ tree' = IF tree = "conflict" THEN "clean" ELSE SealedTree
       /\ UNCHANGED faults
    \/ tree # "clean" /\ Fails /\ UNCHANGED <<local, tree>>

\* A session that fails, or leaves the rebase unresolved, is aborted and never
\* pushed.
ConflictUnresolved ==
    /\ pc = "resolve"
    /\ \E result \in {"error", "model_limit", "rebase_conflict"} :
        /\ result = "rebase_conflict" => Unresolved
        /\ ConflictEnds(result, FALSE)
    /\ AbortAndSeal
    /\ RunnerStep
    /\ UNCHANGED <<ckpt, mark, checked, wrote>>

\* A resolution is sealed; its history must only have grown, and setup must run.
ConflictResolved ==
    /\ pc = "resolve" /\ tree \in {"clean", "dirty"}
    /\ \/ local' = Sealed(local) /\ tree' = "clean" /\ UNCHANGED faults
       \/ tree = "dirty" /\ Fails /\ UNCHANGED <<local, tree>>
    /\ \/ /\ tree' = "clean" /\ pc' = "second_check" /\ UNCHANGED <<req, prep, run>>
       \/ /\ tree' = "clean"
          /\ \E result \in {"resolution_failed", "setup_failed"} : ConflictEnds(result, FALSE)
       \/ tree' = "dirty" /\ ConflictEnds("error", FALSE)
    /\ RunnerStep
    /\ UNCHANGED <<ckpt, mark, checked, wrote>>

\* Mutant: a resolution is pushed whatever its check says.
ConflictSecondCheckIgnored ==
    /\ pc = "second_check"
    /\ tree' \in {"clean", "dirty"}
    /\ \E green \in BOOLEAN : checked' = IF green THEN checked \cup {local} ELSE checked
    /\ ckpt' = [ckpt EXCEPT !.phase = "pushing"]
    /\ ConflictEnds("success", TRUE)
    /\ RunnerStep
    /\ UNCHANGED <<local, faults, mark, wrote>>

ConflictSecondCheck ==
    /\ pc = "second_check"
    /\ tree' \in {"clean", "dirty"}
    /\ \/ /\ checked' = checked \cup {local}
          /\ ckpt' = [ckpt EXCEPT !.phase = "pushing"]
          /\ \/ ConflictEnds("success", TRUE) /\ UNCHANGED faults
             \/ ConflictRaises                    \* its files are not read
       \/ ConflictEnds("check_failed", FALSE) /\ UNCHANGED <<checked, ckpt, faults>>
    /\ RunnerStep
    /\ UNCHANGED <<local, mark, wrote>>

-----------------------------------------------------------------------------
(* Startup recovery *)

\* The decision is not durable: it is inferred from the phase, the commits
\* and the note.
Inferred(readable) ==
    CASE ckpt.phase = "model_running" /\ HasCommits(local) ->
            IF mark = "started" THEN Request("infra", FALSE, TRUE)
            ELSE Request("incomplete", FALSE, TRUE)
      [] ckpt.phase \in {"pushing", "publishing"} ->
            IF local.note = "none" THEN Request("none", TRUE, FALSE)
            ELSE IF NoteValid(local) /\ readable THEN Request("handoff", FALSE, TRUE)
            ELSE Request("incomplete", FALSE, TRUE)
      [] OTHER -> Request("infra", FALSE, FALSE)

\* A model session with commits is on its way to be published.
Recovered(r) ==
    ckpt' = IF ckpt.phase = "model_running" /\ r.outcome = "incomplete"
            THEN [ckpt EXCEPT !.phase = "pushing"] ELSE ckpt

\* Startup: a conflict attempt recovers as an error and is never pushed.
InferDecision ==
    /\ pc = "infer" /\ actor = "startup"
    /\ \E readable \in IF tree = "conflict" THEN BOOLEAN ELSE {TRUE} :
        LET r == Inferred(readable)
        IN /\ \E q \in IF kind = "conflict" THEN {ConflictRequest("error", FALSE, Absent)}
                        ELSE HandoffRequests(r) : Returns(q)
           /\ Recovered(r)
    /\ RunnerStep
    /\ UNCHANGED <<local, tree, faults, mark, checked, wrote>>

\* _recovery_shared_hold: a newer attempt has the record, or it already
\* confirms a handoff of this one.
SharedHold(r) ==
    \/ record.by = "newer"
    \/ record.by = "this" /\ r.outcome # "handoff"

\* _retry_retained_attempt: the same inference, published as an ordinary
\* result whatever the attempt's kind; doubts keep the hold.
RetryDecision ==
    /\ pc = "infer" /\ actor = "retry"
    /\ LET r == Inferred(TRUE)
       IN \/ /\ tree # "conflict" /\ ~SharedHold(r) /\ UNCHANGED faults
             /\ \E q \in HandoffRequests(r) : Returns(q)
             /\ Recovered(r)
          \/ /\ tree = "conflict" /\ UNCHANGED <<ckpt, faults>>
             /\ pc' = "held" /\ req' = NoRequest /\ run' = NoRun /\ prep' = NoPrep
          \/ /\ tree # "conflict" /\ ((SharedHold(r) /\ UNCHANGED faults) \/ Fails)
             /\ Recovered(r)
             /\ pc' = "held" /\ req' = NoRequest /\ run' = NoRun /\ prep' = NoPrep
    /\ RunnerStep
    /\ UNCHANGED <<local, tree, mark, checked, wrote>>

\* _release_retained_attempt: a comment that names the failure, then the end.
ReleaseComment ==
    /\ pc = "release"
    /\ \/ /\ comments' = IF ToPost THEN Append(comments, [outcome |-> "released", result |-> "ordinary"])
                         ELSE comments
          /\ pub' = [Fresh EXCEPT !.posted = TRUE] /\ UNCHANGED faults
       \/ /\ Fails /\ pub' = Fresh
          /\ \/ UNCHANGED comments
             \/ /\ ToPost
                /\ comments' = Append(comments, [outcome |-> "released", result |-> "ordinary"])
    /\ pc' = "finish"
    /\ prep' = NoPrep
    /\ UNCHANGED <<kind, mode, clashes, base, remote, record, pr, local, tree, ckpt, intent, req, others,
                   history, own, signal, run, mark, actor, crashes, checked, wrote>>

\* The process dies, or a recovery command starts over.
Forgotten == req' = NoRequest /\ pub' = Fresh /\ prep' = NoPrep /\ run' = NoRun

Crash ==
    /\ pc \notin {"down", "done"} /\ crashes < MaxCrashes
    /\ crashes' = crashes + 1
    /\ pc' = "down"
    /\ Forgotten
    /\ UNCHANGED <<kind, mode, clashes, base, remote, record, comments, pr, local, tree, ckpt, intent,
                   faults, others, history, own, signal, mark, actor, checked, wrote>>

\* _reconcile_startup, up to the workspace
Restart ==
    /\ pc = "down"
    /\ actor' = "startup"
    /\ pc' = "prepare"
    /\ Elsewhere
    /\ UNCHANGED <<local, tree, ckpt, req, faults, prep, run, mark, checked, wrote>>

-----------------------------------------------------------------------------
(* The end, and the surroundings *)

\* confirm_shared_handoff: the record, read again, names this attempt's note.
RecordConfirms == record.by = "this" /\ record.rev.base = local.base

\* _publication_confirmed; a retry also takes the shared record for the comment
\* (_confirm_shared_handoff_for_retry).
Confirmed ==
    /\ pub.recorded
    /\ \/ pub.posted
       \/ actor = "retry" /\ pub.outcome = "handoff" /\ RecordConfirms

\* cleanup_ok without a cleanup: run_once has no prepared attempt.
NothingPrepared == req.raised = "unprepared"

\* cleanup aborts a rebase; an unconfirmed recovery command does not reach it.
CleanedUp ==
    IF tree = "conflict" /\ ~NothingPrepared /\ (Confirmed \/ actor \in {"runner", "startup"})
    THEN "clean" ELSE tree

\* Mutant: a confirmed attempt ends whatever is in its tree.
FinishAttemptUnguarded ==
    /\ pc = "finish"
    /\ tree' = CleanedUp
    /\ IF Confirmed
       THEN pc' = "done" /\ ckpt' = [ckpt EXCEPT !.phase = "gone"]
       ELSE pc' = "held" /\ UNCHANGED ckpt
    /\ Elsewhere
    /\ UNCHANGED <<local, req, faults, prep, run, mark, actor, checked, wrote>>

\* A confirmed result is released and cleaned up, and the checkpoint removed;
\* anything else, and a tree the cleanup refuses, holds.
FinishAttempt ==
    /\ pc = "finish"
    /\ tree' = CleanedUp
    /\ IF Confirmed /\ (tree' = "clean" \/ NothingPrepared)
       THEN pc' = "done" /\ ckpt' = [ckpt EXCEPT !.phase = "gone"]
       ELSE pc' = "held" /\ UNCHANGED ckpt
    /\ Elsewhere
    /\ UNCHANGED <<local, req, faults, prep, run, mark, actor, checked, wrote>>

AttemptIdle == UNCHANGED <<signal, prep, run, mark, actor, crashes, checked, wrote>>

BaseMoves ==
    /\ base < MaxBase
    /\ base' = base + 1
    /\ AttemptIdle
    /\ UNCHANGED <<kind, mode, clashes, remote, record, comments, pr, local, tree, ckpt, intent,
                   pc, req, pub, faults, others, history, own>>

\* Another Worker publishes on the branch: work alone, or a handoff with its
\* record.
OtherPublishes ==
    /\ others < MaxOthers /\ pc # "done"
    /\ others' = others + 1
    /\ remote' = [(IF remote = Absent THEN Branch({}, base) ELSE remote)
                    EXCEPT !.work = @ \cup {"other"}]
    /\ history' = history \cup {remote'}
    /\ record' \in {record, [by |-> "newer", rev |-> remote']}
    /\ AttemptIdle
    /\ UNCHANGED <<kind, mode, clashes, base, comments, pr, local, tree, ckpt, intent,
                   pc, req, pub, faults, own>>

\* An operator discards what holds the workspace, and may restart.
OperatorRepairs ==
    /\ pc = "held" /\ tree # "clean"
    /\ tree' = "clean"
    /\ wrote' = ("work" \in local.work)
    /\ pc' \in {"down", "held"}
    /\ Forgotten
    /\ UNCHANGED <<kind, mode, clashes, base, remote, record, comments, pr, local, ckpt, intent,
                   faults, others, history, own, signal, mark, actor, crashes, checked>>

\* recovery retry and recovery release of the held attempt
OperatorRecovers ==
    /\ pc = "held"
    /\ actor' \in {"retry", "release"}
    /\ pc' = "prepare"
    /\ Forgotten
    /\ UNCHANGED <<kind, mode, clashes, base, remote, record, comments, pr, local, tree, ckpt, intent,
                   faults, others, history, own, signal, mark, crashes, checked, wrote>>

Publishes == PublishStep /\ AttemptIdle

Worker ==
    \/ HoldWorkspace \/ PrepareAttempt \/ PrepareFails \/ RecordLease
    \/ EnterSetup \/ RunPreparation \/ DispatchModel
    \/ VerifyResolution \/ SealWork \/ EmergencyNote \/ StartFinalCheck
    \/ FinishFinalCheck \/ Decide
    \/ ConflictEntry \/ ConflictRebased \/ ConflictFirstCheck \/ ConflictSession
    \/ ConflictResolved \/ ConflictSecondCheck
    \/ InferDecision \/ RetryDecision \/ ReleaseComment
    \/ Restart \/ FinishAttempt \/ Publishes

Model ==
    \/ ModelCommits \/ ModelEdits \/ ModelWritesNote \/ ModelRebases
    \/ ModelEnds \/ ModelRaises \/ ConflictUnresolved

AttemptNext ==
    \/ Worker \/ Model
    \/ Crash \/ BaseMoves \/ OtherPublishes \/ OperatorRepairs \/ OperatorRecovers

AttemptSpec == AttemptInit /\ [][AttemptNext]_vars

-----------------------------------------------------------------------------
(* Properties *)

\* The values of the variables; a clone that prepared its attempt has a branch.
AttemptTypeOK ==
    /\ kind \in {"ordinary", "conflict"} /\ mode \in {"verbose", "link"}
    /\ clashes \subseteq Commits
    /\ base \in 0..MaxBase
    /\ {remote, local, intent} \cup own \cup checked \subseteq Revisions
    /\ record \in [by : {"none", "earlier", "this", "newer"}, rev : Revisions]
    /\ \A i \in 1..Len(comments) : /\ comments[i].outcome \in Outcomes
                                   /\ comments[i].result \in Results
    /\ pr \in {"none", "open", "merged"}
    /\ tree \in {"clean", "dirty", "conflict", "markers"}
    /\ ckpt \in [phase : Phases, lease : Revisions, known : BOOLEAN]
    /\ req.outcome \in Outcomes /\ req.result \in Results
    /\ mark \in {"none", "started", "finished"}
    /\ run.status \in Statuses \cup {"none"}

Posted(outcome) == \E i \in 1..Len(comments) : comments[i].outcome = outcome

\* What a result comment says is true, whatever calls failed, lost their reply or
\* were cut off by a crash before it: "complete" stands for a branch this attempt
\* pushed and a pull request that exists and, from the attempt itself, for
\* nothing but revisions a green check ran on (so for nothing the check changed
\* afterwards); a conflict's "success" means, while no other Worker publishes,
\* that origin's branch has changed, no_change being a failure toward the budget
\* (publish, publish_conflict, CompletionEvaluator.evaluate).
ResultsTruthful ==
    /\ Posted("complete") => /\ own # {} /\ pr # "none"
                             /\ actor = "runner" => own \subseteq checked
    /\ others = 0 /\ (\E i \in 1..Len(comments) : comments[i].result = "success")
       => \E r, s \in history : r # s

\* A handoff that is told, by a comment or by the shared record, stands for a
\* revision this attempt has on origin and a note there that names the commit
\* beneath it, after restarts and failed calls too (_validate_handoff_note,
\* _publish_handoff_record).
HandoffHasNote ==
    /\ Posted("handoff") => \E r \in own : NoteValid(r)
    /\ record.by = "this" => record.rev \in own /\ NoteValid(record.rev)

\* What another Worker published after the claim's revision was recorded is
\* never overwritten, on any path to a push (_push_with_claim_lease).
OthersWorkKept ==
    [][ckpt.known /\ "other" \in remote.work => "other" \in remote'.work]_vars

\* The attempt itself and startup recovery push, for a conflict attempt, only
\* revisions its check was green on, after a moved base, a red first check and
\* a crash too (publish_conflict).
ConflictPushChecked ==
    [][kind = "conflict" /\ actor # "retry" => own' \ own \subseteq checked]_vars

\* A conflict attempt never puts a revision on origin that its check was not
\* green on, whoever finishes it (publish_conflict, _reconcile_startup).
OnlyVerifiedConflictPush == kind = "conflict" => own \subseteq checked

\* The one way to end untold: the publication that the except clause attempts
\* for a conflict attempt raised before it began (_stamp_conflict_budget).
NeverBegun == req.raised # "no" /\ pub.outcome = "none"

\* An attempt ends only with its result told, by a comment of its own or by the
\* shared record of its handoff, unless it is a conflict attempt whose except
\* clause could not begin its publication either; and, when the attempt itself
\* gets there, with what the model changed on the branch of the clone, however
\* the session ended and whatever failed after it (seal, cleanup, the durable
\* completion boundary of run_once and _reconcile_startup).
EndIsSound ==
    pc = "done" =>
        /\ \/ comments # <<>>
           \/ intent # Absent /\ record.by \in {"this", "newer"}
           \/ kind = "conflict" /\ actor \in {"runner", "startup"} /\ NeverBegun
        /\ actor = "runner" /\ wrote => "work" \in local.work

\* An interrupted session's committed work is pushed by the recovery that
\* reports it as preserved (_reconcile_startup).
CommittedWorkPushed ==
    /\ pc = "finish" /\ actor = "startup" /\ ckpt.phase = "publishing"
    /\ kind = "ordinary" /\ wrote
    => \E r \in own : "work" \in r.work

=============================================================================
