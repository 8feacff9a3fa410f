--------------------------- MODULE ClaimProtocol ---------------------------
(***************************************************************************)
(* Several workers take issues from one GitHub repository (github_tracker, *)
(* and the parts of lifecycle and publication that write to the issue).    *)
(* GitHub has no lock: a worker assigns its login, adds its claimed-by     *)
(* marker when it has a WORKER_ID, waits, reads the issue again, and works *)
(* only if nobody else is there.  Every read and every write of GitHub is  *)
(* a step of its own, and a worker may die between any two of them.        *)
(*                                                                         *)
(* Texts, titles, bodies, blockers and the closing of an issue are left    *)
(* out.  A result comment is the attempt it marks and how the two budgets  *)
(* read it.  A handoff also writes the one shared handoff record of the    *)
(* issue, or, when it is routine and HANDOFF_COMMENT_MODE is link, only    *)
(* that; the record is edited in place, and comments keeps its versions,   *)
(* of which GitHub shows the last.  Attempts are numbered in the order of  *)
(* their starting times.  The order of the queue is not fixed: a poll may  *)
(* end up with any eligible issue, since the ones before it may be lost or *)
(* skipped.                                                                *)
(***************************************************************************)
EXTENDS Naturals, Sequences, FiniteSets

CONSTANTS
    Workers,
    Issues,
    Pools,          \* deployments: "shared" login with WORKER_IDs, "peers"
    MaxCont,        \* MAX_AUTO_CONTINUATIONS
    MaxConflict,    \* MAX_CONFLICT_ATTEMPTS
    MaxAttempts,    \* bound: attempts started
    MaxCrashes,     \* bound: crashes
    MaxHuman,       \* bound: what people do on the issues
    None

ASSUME PoolAssumption == Pools \subseteq {"shared", "peers"}

ASSUME BudgetAssumption == MaxCont \in Nat /\ MaxConflict \in Nat

ASSUME BoundAssumption == MaxAttempts \in Nat /\ MaxCrashes \in Nat /\ MaxHuman \in Nat

VARIABLES
    pool,           \* the deployment, fixed at the start
    assignees,      \* [Issues -> SUBSET logins]
    markers,        \* [Issues -> SUBSET Workers]: claimed-by labels
    labels,         \* [Issues -> SUBSET QueueLabels]
    comments,       \* [Issues -> Seq(Comment)]: results, versions of the record
    wpc,            \* [Workers -> step]: the next call of each worker
    job,            \* [Workers -> record]: its local variables
    ckpt,           \* [Workers -> checkpoint or None]: durable
    abandoned,      \* claims lost with their process, left for a human
    stalled,        \* a peer's calls outlasted the settle delay
    attempts, crashes, acts

github == <<assignees, markers, labels, comments>>
claimVars == <<pool, assignees, markers, labels, comments, wpc, job,
               ckpt, abandoned, stalled, attempts, crashes, acts>>

Ready == "ready-for-agent"
Finished == "round-finished"
Conflict == "merge-conflict"
ForHuman == "ready-for-human"
QueueLabels == {Ready, Finished, Conflict, ForHuman}

\* Workers that share a login set WORKER_ID; workers with logins of their own
\* need none and list each other in PEER_LOGINS.
LoginOf(w) == IF pool = "shared" THEN "login" ELSE w
HasMarker == pool = "shared"
Logins == Workers \union {"login", "human"}

Kinds == {"human", "automatic", "failure", "stopped", "escalation"}
Comment == [attempt : Nat \ {0}, kind : Kinds, shared : BOOLEAN, standing : Nat]
\* With the checkpoint goes the persisted intent of the attempt's handoff: the
\* standing its record is to carry.
Checkpoint == [issue : Issues, attempt : Nat \ {0}, kind : {"ordinary", "conflict"},
               source : {"human", "automatic", "conflict"}, intent : Nat \union {None}]
Job == [issue : Issues \union {None}, claim : SUBSET QueueLabels,
        seen : SUBSET QueueLabels, result : {"none", "handoff", "other"},
        recovered : BOOLEAN, standing : Nat]
NoJob == [issue |-> None, claim |-> {}, seen |-> {}, result |-> "none", recovered |-> FALSE,
          standing |-> 0]

ASSUME ClaimNoneAssumption ==
    /\ None \notin Issues /\ None \notin Checkpoint /\ None \notin Nat
    /\ "human" \notin Workers /\ "login" \notin Workers

Claiming == {"selected", "assigned", "settling"}
Yielding == {"yield", "yielded", "unassign"}
Won == {"won", "cleared", "claimed"}
Releasing == {"posted", "handing", "unlabelled", "unmarked", "dropping", "released"}
Publishing == {"working", "recording", "noting", "escalating"}
Steps == {"idle", "detected", "down", "fatal"} \union Publishing
            \union Claiming \union Yielding \union Won \union Releasing

ClaimInit ==
    /\ pool \in Pools
    /\ assignees = [i \in Issues |-> {}]
    /\ markers = [i \in Issues |-> {}]
    /\ labels = [i \in Issues |-> {Ready}]
    /\ comments = [i \in Issues |-> <<>>]
    /\ wpc = [w \in Workers |-> "idle"]
    /\ job = [w \in Workers |-> NoJob]
    /\ ckpt = [w \in Workers |-> None]
    /\ abandoned = {}
    /\ stalled = FALSE
    /\ attempts = 0 /\ crashes = 0 /\ acts = 0

-----------------------------------------------------------------------------
(* What the tracker reads.                                                 *)

Results(h) == {j \in 1..Len(h) : ~h[j].shared /\ h[j].kind \in {"human", "automatic"}}
Versions(h) == {j \in 1..Len(h) : h[j].shared}

\* find_handoff_record: the version of the shared record that the issue shows,
\* as its attempt and its standing; no attempt has the number 0.
SharedRecord(h) ==
    IF Versions(h) = {} THEN [attempt |-> 0, standing |-> 0]
    ELSE LET last == CHOOSE j \in Versions(h) : \A k \in Versions(h) : k <= j
         IN [attempt |-> h[last].attempt, standing |-> h[last].standing]

\* Results that the shared record does not sum up; conflict results are
\* transparent.
Newer(h) == {j \in Results(h) : h[j].attempt > SharedRecord(h).attempt}

\* resolve_automatic_continuation_count: the newer automatic results down to the
\* first one of a human requeue, and without such a one the record's standing.
AutomaticCount(h) ==
    Cardinality({j \in Newer(h) : \A k \in Newer(h) : k >= j => h[k].kind = "automatic"})
    + (IF \E j \in Newer(h) : h[j].kind = "human" THEN 0 ELSE SharedRecord(h).standing)

\* conflict_failure_streak: failed conflict attempts at the newest end; the
\* shared handoff record is transparent.
FailureStreak(h) ==
    Cardinality({j \in 1..Len(h) : /\ h[j].kind = "failure"
                                   /\ \A k \in j..Len(h) : h[k].kind = "failure" \/ h[k].shared})

BaseRules(i) == assignees[i] = {} /\ markers[i] = {}

ContinuationSignal(i) == Finished \in labels[i] /\ Ready \notin labels[i]

IsConflictClaim(ls) == Conflict \in ls /\ ls \intersect {Ready, Finished, ForHuman} = {}

AnyContinuations(i) == MaxCont > 0

WithinContinuations(i) == AutomaticCount(comments[i]) < MaxCont

Eligible(i) ==
    /\ BaseRules(i)
    /\ \/ Ready \in labels[i]
       \/ MaxConflict > 0 /\ IsConflictClaim(labels[i])
       \/ ContinuationSignal(i) /\ WithinContinuations(i)

ContestedByLogin(w, i) == assignees[i] \ {LoginOf(w)} # {}

\* Whether someone else is on the issue, as the claim check of w reads it.
Contested(w, i) ==
    \/ assignees[i] \ {LoginOf(w)} # {}
    \/ HasMarker /\ markers[i] \ {w} # {}

UnassignNever(w, i) == LoginOf(w) \in assignees[i] /\ ~HasMarker

\* The assignment may go: it is ours and no marker remains on the issue.
MayUnassign(w, i) == LoginOf(w) \in assignees[i] /\ (HasMarker => markers[i] = {})

Posted(i, n) == \E j \in 1..Len(comments[i]) : comments[i][j].attempt = n

-----------------------------------------------------------------------------
(* Taking an issue.                                                        *)

Goto(w, step) == wpc' = [wpc EXCEPT ![w] = step]

\* runnable_queue and the revalidation in claim_next (for a priority, the
\* revalidation before claim_verified): the snapshot becomes the claim.
SelectIssue(w, i) ==
    /\ wpc[w] = "idle" /\ ckpt[w] = None
    /\ attempts < MaxAttempts
    /\ Eligible(i)
    /\ job' = [job EXCEPT ![w] = [NoJob EXCEPT !.issue = i, !.claim = labels[i]]]
    /\ Goto(w, "selected")
    /\ UNCHANGED <<pool, github, ckpt, abandoned, stalled, attempts, crashes, acts>>

AssignIssue(w) ==
    /\ wpc[w] = "selected"
    /\ assignees' = [assignees EXCEPT ![job[w].issue] = @ \union {LoginOf(w)}]
    /\ Goto(w, IF HasMarker THEN "assigned" ELSE "settling")
    /\ UNCHANGED <<pool, markers, labels, comments, job, ckpt, abandoned,
                   stalled, attempts, crashes, acts>>

AddMarker(w) ==
    /\ wpc[w] = "assigned"
    /\ markers' = [markers EXCEPT ![job[w].issue] = @ \union {w}]
    /\ Goto(w, "settling")
    /\ UNCHANGED <<pool, assignees, labels, comments, job, ckpt, abandoned,
                   stalled, attempts, crashes, acts>>

\* _verify_claim: the read after the settle delay.  stalled records that a
\* peer had read the issue as free and had not marked it within the delay.
VerifyClaim(w) ==
    /\ wpc[w] = "settling"
    /\ Goto(w, IF Contested(w, job[w].issue) THEN "yield" ELSE "won")
    /\ job' = [job EXCEPT ![w] = IF Contested(w, job[w].issue)
                                 THEN [NoJob EXCEPT !.issue = job[w].issue]
                                 ELSE [job[w] EXCEPT !.seen = labels[job[w].issue]]]
    /\ stalled' = (stalled \/ \E v \in Workers \ {w} : /\ wpc[v] \in {"selected", "assigned"}
                                                       /\ job[v].issue = job[w].issue)
    /\ UNCHANGED <<pool, github, ckpt, abandoned, attempts, crashes, acts>>

\* _yield_losing_claim, first write: the own marker, or, without a marker,
\* the assignment itself.
YieldClaim(w) ==
    /\ wpc[w] = "yield"
    /\ IF HasMarker
       THEN /\ markers' = [markers EXCEPT ![job[w].issue] = @ \ {w}]
            /\ Goto(w, "yielded")
            /\ UNCHANGED <<assignees, job>>
       ELSE /\ assignees' = [assignees EXCEPT ![job[w].issue] = @ \ {LoginOf(w)}]
            /\ Goto(w, "idle")
            /\ job' = [job EXCEPT ![w] = NoJob]
            /\ UNCHANGED markers
    /\ UNCHANGED <<pool, labels, comments, ckpt, abandoned, stalled,
                   attempts, crashes, acts>>

\* The read that decides whether this loser is the last one out.
YieldRead(w) ==
    /\ wpc[w] = "yielded"
    /\ IF MayUnassign(w, job[w].issue)
       THEN Goto(w, "unassign") /\ UNCHANGED job
       ELSE Goto(w, "idle") /\ job' = [job EXCEPT ![w] = NoJob]
    /\ UNCHANGED <<pool, github, ckpt, abandoned, stalled, attempts, crashes, acts>>

YieldUnassign(w) ==
    /\ wpc[w] = "unassign"
    /\ assignees' = [assignees EXCEPT ![job[w].issue] = @ \ {LoginOf(w)}]
    /\ Goto(w, "idle")
    /\ job' = [job EXCEPT ![w] = NoJob]
    /\ UNCHANGED <<pool, markers, labels, comments, ckpt, abandoned,
                   stalled, attempts, crashes, acts>>

\* _remove_stale_claim_labels: two writes, both decided by the verified read.
ClearFinished(w) ==
    /\ wpc[w] = "won"
    /\ labels' = [labels EXCEPT ![job[w].issue] = @ \ (job[w].seen \intersect {Finished})]
    /\ Goto(w, "cleared")
    /\ UNCHANGED <<pool, assignees, markers, comments, job, ckpt, abandoned,
                   stalled, attempts, crashes, acts>>

ClearConflict(w) ==
    /\ wpc[w] = "cleared"
    /\ labels' = [labels EXCEPT ![job[w].issue] =
                    IF job[w].seen \intersect {Ready, Finished} # {} THEN @ \ {Conflict} ELSE @]
    /\ job' = [job EXCEPT ![w].seen = {}]
    /\ Goto(w, "claimed")
    /\ UNCHANGED <<pool, assignees, markers, comments, ckpt, abandoned,
                   stalled, attempts, crashes, acts>>

SourceUnset(ls) == IF Ready \in ls THEN "human" ELSE IF Finished \in ls THEN "automatic" ELSE None

\* requeue_source_for_labels and the conflict override in _gated_claim.
SourceOf(ls) ==
    IF IsConflictClaim(ls) THEN "conflict" ELSE IF Ready \in ls THEN "human" ELSE "automatic"

\* attempt_state.start: the claim becomes durable.
StartAttempt(w) ==
    /\ wpc[w] = "claimed"
    /\ attempts < MaxAttempts
    /\ ckpt' = [ckpt EXCEPT ![w] =
                 [issue |-> job[w].issue, attempt |-> attempts + 1,
                  kind |-> IF IsConflictClaim(job[w].claim) THEN "conflict" ELSE "ordinary",
                  source |-> SourceOf(job[w].claim), intent |-> None]]
    /\ attempts' = attempts + 1
    /\ job' = [job EXCEPT ![w] = [NoJob EXCEPT !.issue = job[w].issue]]
    /\ Goto(w, "working")
    /\ UNCHANGED <<pool, github, abandoned, stalled, crashes, acts>>

-----------------------------------------------------------------------------
(* Publishing and releasing.                                               *)

EscalatesLate(i) == MaxConflict > 0 /\ FailureStreak(comments[i]) >= MaxConflict

\* _stamp_conflict_budget: one past the streak, against the operator budget.
Escalates(i) == MaxConflict > 0 /\ FailureStreak(comments[i]) + 1 >= MaxConflict

\* How a result reads in the counts: an ordinary result by its requeue source,
\* a conflict result by its success (or skip) or its failure.
ResultKinds(c, recovered) ==
    IF c.kind = "ordinary" THEN {c.source}
    ELSE {IF Escalates(c.issue) THEN "escalation" ELSE "failure"}
            \union (IF recovered THEN {} ELSE {"stopped"})

Entry(n, k, shared, standing) ==
    [attempt |-> n, kind |-> k, shared |-> shared, standing |-> standing]

\* _post_result: the result is posted unless a result with the attempt's marker
\* is there; the shared record is no result.
PostComment(i, n, k) ==
    comments' = IF \E j \in 1..Len(comments[i]) :
                        comments[i][j].attempt = n /\ ~comments[i][j].shared
                THEN comments
                ELSE [comments EXCEPT ![i] = Append(@, Entry(n, k, FALSE, 0))]

\* _handoff_continuation_used: the standing of the attempt's record, one past
\* the count of the comments, unless an intent was persisted before.
Standing(c) ==
    IF c.source # "automatic" THEN 0
    ELSE IF c.intent # None THEN c.intent
    ELSE AutomaticCount(comments[c.issue]) + 1

\* _handoff_needs_notification: the handoff exhausts the budget.
Notifies(c) ==
    /\ MaxCont > 0
    /\ c.source = "automatic" /\ AutomaticCount(comments[c.issue]) + 1 >= MaxCont

\* Publication of an attempt's result.  A conflict attempt that comes back
\* after a restart reports an error; an ordinary one infers its outcome again.
\* A handoff in verbose mode writes the record after its comment, with the
\* standing read before it, or no record if the count cannot be read.  A comment
\* that cannot be posted holds the attempt: the step is not taken.
PublishResult(w) ==
    /\ wpc[w] = "working"
    /\ \E k \in ResultKinds(ckpt[w], job[w].recovered), r \in {"handoff", "other"},
          record \in BOOLEAN :
        /\ ckpt[w].kind = "conflict" => r = "other"
        /\ record => r = "handoff"
        /\ PostComment(ckpt[w].issue, ckpt[w].attempt, k)
        /\ job' = [job EXCEPT ![w].result = r, ![w].recovered = FALSE,
                             ![w].standing = IF record THEN Standing(ckpt[w]) ELSE 0]
        /\ Goto(w, IF k = "escalation" THEN "escalating"
                   ELSE IF record THEN "recording" ELSE "posted")
    /\ UNCHANGED <<pool, assignees, markers, labels, ckpt, abandoned, stalled, attempts,
                   crashes, acts>>

\* _publish_handoff_record, after the comment or, in link mode, as the first
\* write.  The intent is persisted first.  A newer attempt's record stays, and
\* the write may fail: the handoff is told by its comment, and the attempt is
\* held.
RecordHandoff(w) ==
    LET c == ckpt[w]
        shown == SharedRecord(comments[c.issue])
        standing == IF wpc[w] = "recording" THEN job[w].standing ELSE Standing(c)
    IN
    /\ wpc[w] \in {"working", "recording"} /\ c.kind = "ordinary"
    /\ ckpt' = [ckpt EXCEPT ![w].intent = standing]
    /\ job' = [job EXCEPT ![w].result = "handoff", ![w].recovered = FALSE, ![w].standing = 0]
    /\ \/ /\ PostComment(c.issue, c.attempt, c.source)
          /\ Goto(w, "working")
       \/ /\ shown.attempt <= c.attempt
          /\ comments' = IF shown.attempt = c.attempt THEN comments
                         ELSE [comments EXCEPT ![c.issue] =
                                  Append(@, Entry(c.attempt, c.source, TRUE, standing))]
          /\ Goto(w, IF wpc[w] = "working" /\ Notifies(c) THEN "noting" ELSE "posted")
    /\ UNCHANGED <<pool, assignees, markers, labels, abandoned, stalled, attempts, crashes, acts>>

\* _publish_handoff_link_mode: the notification after the record.
NotifyHandoff(w) ==
    /\ wpc[w] = "noting"
    /\ PostComment(ckpt[w].issue, ckpt[w].attempt, ckpt[w].source)
    /\ Goto(w, "posted")
    /\ UNCHANGED <<pool, assignees, markers, labels, job, ckpt, abandoned, stalled, attempts,
                   crashes, acts>>

\* escalate_conflict_to_human; the label may fail and is only warned about.
EscalateToHuman(w) ==
    /\ wpc[w] = "escalating"
    /\ labels' \in {labels, [labels EXCEPT ![ckpt[w].issue] = @ \union {ForHuman}]}
    /\ Goto(w, "posted")
    /\ UNCHANGED <<pool, assignees, markers, comments, job, ckpt, abandoned, stalled,
                   attempts, crashes, acts>>

\* release_attempt and release_handoff, first write: the queue label.
ReleaseLabel(w) ==
    /\ wpc[w] = "posted"
    /\ labels' = [labels EXCEPT ![ckpt[w].issue] =
                    @ \ {IF ckpt[w].kind = "conflict" THEN Conflict ELSE Ready}]
    /\ job' = [job EXCEPT ![w].result = "none"]
    /\ Goto(w, IF job[w].result = "handoff" THEN "handing" ELSE "unlabelled")
    /\ UNCHANGED <<pool, assignees, markers, comments, ckpt, abandoned, stalled,
                   attempts, crashes, acts>>

HandOff(w) ==
    /\ wpc[w] = "handing"
    /\ labels' = [labels EXCEPT ![ckpt[w].issue] = @ \union {Finished}]
    /\ Goto(w, "unlabelled")
    /\ UNCHANGED <<pool, assignees, markers, comments, job, ckpt, abandoned, stalled,
                   attempts, crashes, acts>>

\* _release_own_marker.
ReleaseMarker(w) ==
    /\ wpc[w] = "unlabelled"
    /\ markers' = [markers EXCEPT ![ckpt[w].issue] = @ \ {w}]
    /\ Goto(w, "unmarked")
    /\ UNCHANGED <<pool, assignees, labels, comments, job, ckpt, abandoned, stalled,
                   attempts, crashes, acts>>

ReleaseRead(w) ==
    /\ wpc[w] = "unmarked"
    /\ Goto(w, IF MayUnassign(w, ckpt[w].issue) THEN "dropping" ELSE "released")
    /\ UNCHANGED <<pool, github, job, ckpt, abandoned, stalled, attempts, crashes, acts>>

ReleaseAssignee(w) ==
    /\ wpc[w] = "dropping"
    /\ assignees' = [assignees EXCEPT ![ckpt[w].issue] = @ \ {LoginOf(w)}]
    /\ Goto(w, "released")
    /\ UNCHANGED <<pool, markers, labels, comments, job, ckpt, abandoned, stalled,
                   attempts, crashes, acts>>

\* The attempt enters the ledger and its checkpoint goes (module Lifecycle
\* takes this boundary apart).
FinalizeAttempt(w) ==
    /\ wpc[w] = "released"
    /\ ckpt' = [ckpt EXCEPT ![w] = None]
    /\ job' = [job EXCEPT ![w] = NoJob]
    /\ Goto(w, "idle")
    /\ UNCHANGED <<pool, github, abandoned, stalled, attempts, crashes, acts>>

-----------------------------------------------------------------------------
(* The conflict detector, crashes and people.                              *)

\* detect_conflict_requeues reads a free issue without queue labels whose
\* published pull request conflicts; GitHub decides which ones do.
DetectConflict(w, i) ==
    /\ wpc[w] = "idle" /\ ckpt[w] = None
    /\ MaxConflict > 0
    /\ comments[i] # <<>>
    /\ BaseRules(i) /\ labels[i] = {}
    /\ job' = [job EXCEPT ![w].issue = i]
    /\ Goto(w, "detected")
    /\ UNCHANGED <<pool, github, ckpt, abandoned, stalled, attempts, crashes, acts>>

LabelConflict(w) ==
    /\ wpc[w] = "detected"
    /\ labels' = [labels EXCEPT ![job[w].issue] = @ \union {Conflict}]
    /\ job' = [job EXCEPT ![w] = NoJob]
    /\ Goto(w, "idle")
    /\ UNCHANGED <<pool, assignees, markers, comments, ckpt, abandoned, stalled,
                   attempts, crashes, acts>>

\* A process dies, or leaves run_once with an exception.  A claim that had no
\* checkpoint yet is left on GitHub.
Crash(w) ==
    /\ crashes < MaxCrashes
    /\ wpc[w] \notin {"idle", "detected", "down", "fatal"}
    /\ abandoned' = IF ckpt[w] = None THEN abandoned \union {<<w, job[w].issue>>} ELSE abandoned
    /\ crashes' = crashes + 1
    /\ job' = [job EXCEPT ![w] = NoJob]
    /\ Goto(w, "down")
    /\ UNCHANGED <<pool, github, ckpt, stalled, attempts, acts>>

\* recover_claim: whether the checkpoint's claim can be reconstructed.
RecoverClaim(w, i) ==
    HasMarker => LoginOf(w) \in assignees[i] /\ (w \in markers[i] \/ markers[i] = {})

\* _reconcile_startup: without a claim it raises, and the next start tries
\* again.
Restart(w) ==
    /\ wpc[w] \in {"down", "fatal"}
    /\ IF ckpt[w] = None THEN Goto(w, "idle") /\ UNCHANGED job
       ELSE IF RecoverClaim(w, ckpt[w].issue)
       THEN /\ Goto(w, "working")
            /\ job' = [job EXCEPT ![w] = [NoJob EXCEPT !.issue = ckpt[w].issue, !.recovered = TRUE]]
       ELSE Goto(w, "fatal") /\ UNCHANGED job
    /\ UNCHANGED <<pool, github, ckpt, abandoned, stalled, attempts, crashes, acts>>

\* A person requeues the issue, takes it, gives it back, or removes the gate.
PersonActs(i) ==
    /\ acts < MaxHuman
    /\ acts' = acts + 1
    /\ \/ /\ Ready \notin labels[i]
          /\ labels' = [labels EXCEPT ![i] = @ \union {Ready}]
          /\ UNCHANGED assignees
       \/ /\ ForHuman \in labels[i]
          /\ labels' = [labels EXCEPT ![i] = @ \ {ForHuman}]
          /\ UNCHANGED assignees
       \/ /\ \E taken \in {assignees[i] \union {"human"}, assignees[i] \ {"human"}} :
                taken # assignees[i] /\ assignees' = [assignees EXCEPT ![i] = taken]
          /\ UNCHANGED labels
    /\ UNCHANGED <<pool, markers, comments, wpc, job, ckpt, abandoned, stalled, attempts, crashes>>

WorkerStep(w) ==
    \/ AssignIssue(w) \/ AddMarker(w) \/ VerifyClaim(w)
    \/ YieldClaim(w) \/ YieldRead(w) \/ YieldUnassign(w)
    \/ ClearFinished(w) \/ ClearConflict(w) \/ StartAttempt(w)
    \/ PublishResult(w) \/ RecordHandoff(w) \/ NotifyHandoff(w) \/ EscalateToHuman(w)
    \/ ReleaseLabel(w) \/ HandOff(w) \/ ReleaseMarker(w) \/ ReleaseRead(w)
    \/ ReleaseAssignee(w) \/ FinalizeAttempt(w)
    \/ LabelConflict(w)
    \/ \E i \in Issues : SelectIssue(w, i) \/ DetectConflict(w, i)

ClaimNext ==
    \/ \E w \in Workers : WorkerStep(w) \/ Crash(w) \/ Restart(w)
    \/ \E i \in Issues : PersonActs(i)

ClaimSpec == ClaimInit /\ [][ClaimNext]_claimVars

-----------------------------------------------------------------------------
(* Properties.                                                             *)

\* Types of the GitHub fields, the workers' local state and the checkpoints.
ClaimTypeOK ==
    /\ pool \in Pools
    /\ assignees \in [Issues -> SUBSET Logins]
    /\ markers \in [Issues -> SUBSET Workers]
    /\ labels \in [Issues -> SUBSET QueueLabels]
    /\ comments \in [Issues -> Seq(Comment)]
    /\ wpc \in [Workers -> Steps]
    /\ job \in [Workers -> Job]
    /\ ckpt \in [Workers -> Checkpoint \union {None}]
    /\ abandoned \in SUBSET (Workers \X Issues)
    /\ stalled \in BOOLEAN
    /\ attempts \in 0..MaxAttempts /\ crashes \in 0..MaxCrashes /\ acts \in 0..MaxHuman

\* A worker has the issue: it won the claim, or its attempt has no result yet.
Holds(w, i) ==
    \/ wpc[w] \in Won /\ job[w].issue = i
    \/ ckpt[w] # None /\ ckpt[w].issue = i /\ ~Posted(i, ckpt[w].attempt)

\* claim_next and _verify_claim: however slow the workers are and wherever
\* they crash, no two of them work on one issue.
OneWorkerPerIssue ==
    \A i \in Issues : \A v, w \in Workers : Holds(v, i) /\ Holds(w, i) => v = w

Engaged(w, i) ==
    \/ job[w].issue = i /\ wpc[w] # "detected"
    \/ ckpt[w] # None /\ ckpt[w].issue = i
    \/ <<w, i>> \in abandoned

\* _yield_losing_claim and the releases: the last one out takes the assignment
\* with it, so an assignment or a marker on an issue always belongs to a
\* worker that is still on it (or whose process died during the claim).
NothingLeftBehind ==
    \A i \in Issues :
        /\ \A w \in markers[i] : Engaged(w, i)
        /\ \A l \in assignees[i] \ {"human"} :
            \E w \in Workers : LoginOf(w) = l /\ Engaged(w, i)

\* The automatic attempts told after the last attempt of a human requeue, in the
\* order of the attempts: what the budget is about, however it is counted.
AutomaticRow(h) ==
    {h[j].attempt : j \in {m \in 1..Len(h) :
        /\ h[m].kind = "automatic"
        /\ \A k \in 1..Len(h) : h[k].kind = "human" => h[k].attempt < h[m].attempt}}

\* is_auto_continuation_eligible: MAX_AUTO_CONTINUATIONS bounds the automatic
\* attempts in a row, over all workers and restarts, whatever the comments and
\* the shared record say of them and in whichever order they were written, as
\* long as the settle delay covers the time from a peer's eligibility read to
\* its marker.
ContinuationBudget ==
    stalled \/ \A i \in Issues : Cardinality(AutomaticRow(comments[i])) <= MaxCont

\* _stamp_conflict_budget: the failure that reaches MAX_CONFLICT_ATTEMPTS is
\* an escalation, so the streak stays below the budget.
ConflictBudget ==
    MaxConflict > 0 => \A i \in Issues : FailureStreak(comments[i]) < MaxConflict

=============================================================================
