---------------------------- MODULE Publication ----------------------------
(***************************************************************************)
(* Publication of one attempt's result (publication.Publisher) on the      *)
(* attempt branch, the pull request, the result comment and the shared     *)
(* handoff record of its issue.                                            *)
(*                                                                         *)
(* One action per call to the remote, so that the process may die, the     *)
(* base may move and another Worker may publish between any two of them.   *)
(* A call may fail before it is applied, or be applied and lose its reply. *)
(* A passed deadline is a failure of the next call, which is what the code *)
(* makes of it.                                                            *)
(*                                                                         *)
(* A revision is what its branch carries beyond the base: the commits of   *)
(* earlier attempts ("old"), of this one ("work", "fix") and of another    *)
(* Worker ("other"), the handoff note of this attempt with the base it was *)
(* written on, and the base.  Equal records are equal shas; a rebase onto  *)
(* the same base changes nothing.  The wording of comments is left out.    *)
(***************************************************************************)
EXTENDS Naturals, Sequences

CONSTANTS
    MaxBase,        \* bound: moves of the base branch
    MaxFaults,      \* bound: failing calls
    MaxOthers       \* bound: publications of another Worker

ASSUME PublicationAssumption == {MaxBase, MaxFaults, MaxOthers} \subseteq Nat

VARIABLES
    kind,           \* "ordinary" or "conflict": the attempt's kind
    mode,           \* HANDOFF_COMMENT_MODE: "verbose" or "link"
    clashes,        \* the commits that conflict with a moved base
    base,           \* base branch of origin
    remote,         \* attempt branch of origin
    record,         \* shared handoff comment: whose it is and what it names
    comments,       \* result comments with this attempt's marker
    pr,             \* pull request of the branch: "none", "open", "merged"
    local,          \* attempt branch of the clone
    tree,           \* working tree: "clean", "dirty", "conflict", "markers"
    ckpt,           \* the attempt's checkpoint
    intent,         \* HandoffPublicationStore: revision of the intended record
    pc,             \* the process's next step
    req,            \* the publication request
    pub,            \* what the publication has observed so far
    faults, others, \* bounds
    history,        \* ghost: the revisions origin's branch has had
    own             \* ghost: the ones this attempt pushed or found pushed

pubVars == <<kind, mode, clashes, base, remote, record, comments, pr, local, tree, ckpt,
             intent, pc, req, pub, faults, others, history, own>>

-----------------------------------------------------------------------------
Branch(work, b) == [work |-> work, note |-> "none", cites |-> 0, base |-> b]

\* No branch.
Absent == Branch({"absent"}, 0)

Commits == {"old", "work", "fix", "other"}
Revisions == {Absent} \cup
             [work : SUBSET Commits, note : {"none", "written", "bad"},
              cites : 0..MaxBase, base : 0..MaxBase]

\* commits_added: what the branch has beyond the base
HasCommits(rev) == rev.work # {} \/ rev.note # "none"

Phases == {"claimed", "setup", "model_running", "pushing", "publishing", "gone"}
Outcomes == {"none", "complete", "incomplete", "no_changes", "handoff", "infra", "released"}

\* conflict_attempt's outcomes; "ordinary" for an ordinary attempt
Results == {"ordinary", "success", "skipped", "rebase_conflict", "check_failed",
            "model_limit", "resolution_failed", "no_change", "setup_failed", "error",
            "push_failed"}

Request(outcome, eligible, partial) ==
    [outcome |-> outcome, eligible |-> eligible, partial |-> partial, push |-> FALSE,
     result |-> "ordinary", head |-> Absent, shared |-> TRUE, notify |-> FALSE,
     raised |-> "no"]

NoRequest == Request("none", FALSE, FALSE)

\* lifecycle_outcome
LifecycleOutcome(result) ==
    CASE result = "success" -> "complete"
      [] result = "skipped" -> "no_changes"
      [] result \in {"rebase_conflict", "check_failed", "model_limit",
                     "resolution_failed", "no_change"} -> "incomplete"
      [] OTHER -> "infra"

\* ConflictPublicationRequest
ConflictRequest(result, push, head) ==
    [Request(LifecycleOutcome(result), FALSE, FALSE) EXCEPT
        !.push = push, !.result = result, !.head = head]

\* Who publishes a conflict attempt: the attempt itself ("no"), or the except
\* clause of run_once or _reconcile_startup, with the attempt "prepared" or not
\* ("unprepared", when nothing is cleaned up afterwards).
Raised == {"no", "prepared", "unprepared"}

\* _conflict_error_request, built by the except clause
RaisedRequest(how) == [ConflictRequest("error", FALSE, Absent) EXCEPT !.raised = how]

\* The request goes to publish_conflict, not to publish.
IsConflict == req.result # "ordinary"

\* publish: needs_push; publish_conflict: push_branch
NeedsPush(r) ==
    \/ r.push
    \/ r.eligible
    \/ r.outcome \in {"incomplete", "handoff"} /\ r.partial

Fresh == [outcome |-> "none", result |-> "ordinary", pushed |-> Absent,
          claimed |-> Absent, verify |-> FALSE, last |-> FALSE,
          posted |-> FALSE, recorded |-> TRUE]

Fails == faults < MaxFaults /\ faults' = faults + 1

\* The calls below leave the workspace, the attempt's kind and, but for the
\* first, the request alone.
Untouched == UNCHANGED <<kind, mode, clashes, base, local, tree, others>>
Quiet == Untouched /\ UNCHANGED req

-----------------------------------------------------------------------------
(* The branch *)

\* publish, publish_conflict: a checkpoint in PUBLISHING has its push behind it.
BeginPublish ==
    /\ pc = "publish"
    /\ pub' = [Fresh EXCEPT !.outcome = req.outcome, !.result = req.result,
                            !.claimed = IF ckpt.known THEN ckpt.lease ELSE Absent]
    /\ pc' = CASE NeedsPush(req) /\ ckpt.phase # "publishing" -> "push"
               [] NeedsPush(req) /\ ckpt.phase = "publishing" -> "pushed"
               [] ~NeedsPush(req) -> "report"
    /\ Quiet
    /\ UNCHANGED <<remote, record, comments, pr, ckpt, intent, faults, history, own>>

\* _stamp_conflict_budget reads the issue before anything of a conflict attempt
\* is published, and raises when it cannot.  The except clause publishes the
\* error instead, with the same reads; while GitHub stays away they raise too,
\* and comment_posted is still as it was initialised.
StampRaises ==
    /\ pc = "publish" /\ IsConflict
    /\ \/ /\ req.raised = "no" /\ Fails
          /\ req' = RaisedRequest("prepared")
          /\ UNCHANGED <<pc, pub>>
       \/ /\ req.raised # "no"
          /\ pub' = [Fresh EXCEPT !.posted = TRUE]
          /\ pc' = "finish"
          /\ UNCHANGED <<req, faults>>
    /\ Untouched
    /\ UNCHANGED <<remote, record, comments, pr, ckpt, intent, history, own>>

\* Mutant: a push always uses the branch as it is now as its lease.
PermittedUnleased == TRUE

\* --force-with-lease with the lease of the claim; without one, with the
\* revision fetched right before.
Permitted == ~ckpt.known \/ remote = ckpt.lease

\* A partial result keeps its outcome when the push fails; a moved branch
\* never does.
FailedOutcome(moved) ==
    IF pub.outcome = "incomplete" /\ ~req.eligible /\ ~IsConflict /\ ~moved
    THEN "incomplete" ELSE "infra"

\* _publish_handoff_record is done: in link mode a comment follows only when
\* someone has to act.
RecordDone(ok) ==
    LET quiet == mode = "link" /\ ok /\ ~req.notify /\ req.shared
    IN /\ pub' = [pub EXCEPT !.recorded = ok, !.verify = FALSE, !.last = TRUE,
                             !.posted = quiet \/ @]
       /\ pc' = IF mode = "link" /\ ~quiet THEN "result" ELSE "finish"

\* The except clauses of publish and publish_conflict: only a comment follows.
PublicationFails(moved) ==
    /\ pub' = [pub EXCEPT !.outcome = FailedOutcome(moved), !.last = TRUE,
                          !.result = IF IsConflict THEN "push_failed" ELSE @]
    /\ pc' = "result"

\* The push that verifies a record's revision only fails the record.
PushFails == IF pub.verify THEN RecordDone(FALSE) ELSE PublicationFails(FALSE)

Pushed == /\ pub' = [pub EXCEPT !.pushed = local]
          /\ pc' = "advance"
          /\ own' = own \cup {local}

\* The push is applied; when its reply is lost, the branch read again says so.
PushAccepted ==
    /\ pc = "push" /\ Permitted
    /\ remote' = local
    /\ history' = history \cup {local}
    /\ Pushed
    /\ Quiet /\ UNCHANGED <<record, comments, pr, ckpt, intent, faults>>

\* The push is refused, but the branch already is the local one.
PushReconciled ==
    /\ pc = "push" /\ ~Permitted /\ remote = local
    /\ Pushed
    /\ Quiet /\ UNCHANGED <<remote, record, comments, pr, ckpt, intent, faults, history>>

BranchMoved ==
    /\ pc = "push" /\ ~Permitted /\ remote # local
    /\ PublicationFails(TRUE)
    /\ Quiet
    /\ UNCHANGED <<remote, record, comments, pr, ckpt, intent, faults, history, own>>

\* Every retry fails: not applied, or applied and not readable.
PushBroken ==
    /\ pc = "push" /\ Fails
    /\ \/ UNCHANGED <<remote, history, own>>
       \/ /\ Permitted
          /\ remote' = local
          /\ history' = history \cup {local}
          /\ own' = own \cup {local}
    /\ PushFails
    /\ Quiet /\ UNCHANGED <<record, comments, pr, ckpt, intent>>

\* _advance_claim_lease
AdvanceLease ==
    /\ pc = "advance"
    /\ \/ /\ ckpt' = [ckpt EXCEPT !.lease = pub.pushed, !.known = TRUE]
          /\ pc' = "mark"
          /\ UNCHANGED <<pub, faults>>
       \/ Fails /\ PushFails /\ UNCHANGED ckpt
    /\ Quiet /\ UNCHANGED <<remote, record, comments, pr, intent, history, own>>

\* A green push of a conflict attempt that changed nothing on the branch (the
\* code also knows the sha of an earlier conflict result, which only makes more
\* pushes no_change)
Unchanged == pub.pushed \in {pub.claimed, req.head}

NoChangeResult(result) ==
    IF result = "success" /\ Unchanged THEN "no_change" ELSE result

\* _mark_publishing, after the deadline was checked again
MarkPublishing ==
    /\ pc = "mark"
    /\ \/ /\ ckpt.phase \in {"pushing", "publishing"}
          /\ ckpt' = [ckpt EXCEPT !.phase = "publishing"]
          /\ pub' = [pub EXCEPT !.result = NoChangeResult(@)]
          /\ pc' = IF pub.verify THEN "intent" ELSE "pushed"
          /\ UNCHANGED faults
       \/ /\ IF ckpt.phase \in {"pushing", "publishing"} THEN Fails ELSE UNCHANGED faults
          /\ PushFails /\ UNCHANGED ckpt
    /\ Quiet /\ UNCHANGED <<remote, record, comments, pr, intent, history, own>>

-----------------------------------------------------------------------------
(* The pull request *)

AfterPush ==
    /\ pc = "pushed"
    /\ pc' = IF req.eligible THEN "find_pr"
             ELSE IF IsConflict /\ pr # "none" THEN "merge" ELSE "report"
    /\ Quiet
    /\ UNCHANGED <<remote, record, comments, pr, ckpt, intent, pub, faults, history, own>>

\* _ensure_pull_request: only an open one is found.
FindPullRequest ==
    /\ pc = "find_pr"
    /\ \/ /\ pr = "open"
          /\ pub' = [pub EXCEPT !.outcome = "complete"]
          /\ pc' = "merge" /\ UNCHANGED faults
       \/ /\ pr # "open"
          /\ pc' = "create_pr" /\ UNCHANGED <<pub, faults>>
       \/ /\ Fails
          /\ pub' = [pub EXCEPT !.outcome = "infra", !.last = TRUE]
          /\ pc' = "result"
    /\ Quiet
    /\ UNCHANGED <<remote, record, comments, pr, ckpt, intent, history, own>>

\* A lost reply is found by looking again.  GitHub refuses a pull request for
\* a branch with nothing to merge, and may refuse one for a merged branch.
CreatePullRequest ==
    /\ pc = "create_pr"
    /\ \/ /\ HasCommits(remote) /\ pr' = "open"
          /\ pub' = [pub EXCEPT !.outcome = "complete"]
          /\ pc' = "merge" /\ UNCHANGED faults
       \/ /\ \/ Fails
             \/ (~HasCommits(remote) \/ pr = "merged") /\ UNCHANGED faults
          /\ pub' = [pub EXCEPT !.outcome = "infra", !.last = TRUE]
          /\ pc' = "result" /\ UNCHANGED pr
       \/ /\ Fails /\ HasCommits(remote)       \* created, but never read
          /\ pub' = [pub EXCEPT !.outcome = "infra", !.last = TRUE]
          /\ pc' = "result" /\ pr' = "open"
    /\ Quiet
    /\ UNCHANGED <<remote, record, comments, ckpt, intent, history, own>>

\* _maybe_auto_merge, _merge_directly: off, enabled, merged or failed; the
\* outcome stands.
AutoMerge ==
    /\ pc = "merge"
    /\ pr' \in IF pr = "open" THEN {"open", "merged"} ELSE {pr}
    /\ pc' = "report"
    /\ Quiet
    /\ UNCHANGED <<remote, record, comments, ckpt, intent, pub, faults, history, own>>

-----------------------------------------------------------------------------
(* The comment and the shared record *)

\* Link mode publishes the record of a handoff first.
Report ==
    /\ pc = "report"
    /\ pc' = IF pub.outcome = "handoff" /\ mode = "link" THEN "record" ELSE "result"
    /\ Quiet
    /\ UNCHANGED <<remote, record, comments, pr, ckpt, intent, pub, faults, history, own>>

\* find_attempt_comment: a comment with this attempt's marker stands.
ToPost == comments = <<>>

\* _post_result, _post_conflict_result
PostResult ==
    /\ pc = "result"
    /\ \/ /\ comments' = IF ToPost
                         THEN Append(comments, [outcome |-> pub.outcome, result |-> pub.result])
                         ELSE comments
          /\ pub' = [pub EXCEPT !.posted = TRUE]
          /\ UNCHANGED faults
       \/ /\ Fails
          /\ \/ UNCHANGED comments
             \/ /\ ToPost
                /\ comments' = Append(comments, [outcome |-> pub.outcome, result |-> pub.result])
          /\ pub' = [pub EXCEPT !.posted = FALSE]
    /\ pc' = IF pub.outcome = "handoff" /\ mode = "verbose" /\ ~pub.last
             THEN "record" ELSE "finish"
    /\ Quiet
    /\ UNCHANGED <<remote, record, pr, ckpt, intent, history, own>>

\* _publish_handoff_record: a retry without a push of its own pushes again to
\* verify the revision.
RecordHandoff ==
    /\ pc = "record"
    /\ \/ /\ ~req.shared
          /\ RecordDone(TRUE)
       \/ /\ req.shared /\ pub.pushed = Absent
          /\ pub' = [pub EXCEPT !.verify = TRUE]
          /\ pc' = "push"
       \/ /\ req.shared /\ pub.pushed # Absent
          /\ pc' = "intent" /\ UNCHANGED pub
    /\ Quiet
    /\ UNCHANGED <<remote, record, comments, pr, ckpt, intent, faults, history, own>>

\* save_if_absent: the first intent of an attempt stands, and one that no
\* longer matches the branch is never published.
SaveIntent ==
    /\ pc = "intent"
    /\ \/ /\ intent' = IF intent = Absent THEN pub.pushed ELSE intent
          /\ IF intent' = pub.pushed THEN pc' = "find_record" /\ UNCHANGED pub
             ELSE RecordDone(FALSE)
          /\ UNCHANGED faults
       \/ Fails /\ RecordDone(FALSE) /\ UNCHANGED intent
    /\ Quiet
    /\ UNCHANGED <<remote, record, comments, pr, ckpt, history, own>>

\* find_handoff_record: the attempt's own record is confirmed or corrected, an
\* older one is replaced, a newer one stands.
FindRecord ==
    /\ pc = "find_record"
    /\ \/ /\ record = [by |-> "this", rev |-> intent]
          /\ RecordDone(TRUE) /\ UNCHANGED faults
       \/ /\ record # [by |-> "this", rev |-> intent] /\ record.by # "newer"
          /\ pc' = "write_record" /\ UNCHANGED <<pub, faults>>
       \/ record.by = "newer" /\ RecordDone(FALSE) /\ UNCHANGED faults
       \/ Fails /\ RecordDone(FALSE)
    /\ Quiet
    /\ UNCHANGED <<remote, record, comments, pr, ckpt, intent, history, own>>

\* _create_shared_comment, _update_shared_comment, _confirm_shared_comment:
\* only the record read back confirms.
WriteRecord ==
    /\ pc = "write_record"
    /\ \/ /\ record' = [by |-> "this", rev |-> intent]
          /\ RecordDone(TRUE) /\ UNCHANGED faults
       \/ /\ Fails
          /\ record' \in {record, [by |-> "this", rev |-> intent]}
          /\ RecordDone(FALSE)
    /\ Quiet
    /\ UNCHANGED <<remote, comments, pr, ckpt, intent, history, own>>

PublishStep ==
    \/ BeginPublish \/ StampRaises \/ PushAccepted \/ PushReconciled \/ BranchMoved \/ PushBroken
    \/ AdvanceLease \/ MarkPublishing \/ AfterPush \/ FindPullRequest
    \/ CreatePullRequest \/ AutoMerge \/ Report \/ PostResult \/ RecordHandoff
    \/ SaveIntent \/ FindRecord \/ WriteRecord

=============================================================================
