---------------------------- MODULE ClaimProofs ----------------------------
(***************************************************************************)
(* Theorems about ClaimProtocol, for every set of workers and issues, both *)
(* deployments, and every budget and bound: the type invariant and mutual  *)
(* exclusion.                                                              *)
(*                                                                         *)
(* OneWorkerPerIssue is not inductive.  What a later claimant relies on is *)
(* that a worker which has the issue is visible on GitHub (Visible): its   *)
(* marker, or, in a pool of different logins, its assignment.  Nobody but  *)
(* the worker itself removes either, and it does so only after losing the  *)
(* claim or after its result is posted (JobLinked).                        *)
(***************************************************************************)
EXTENDS ClaimProtocol, FiniteSetTheorems, TLAPS

\* Where each step of a worker finds its local variables: a claim in progress
\* has an issue and no checkpoint, an attempt has a checkpoint, and after the
\* first step of its publication its result is posted.
Linked(w) ==
    /\ wpc[w] \in Claiming \union Yielding \union Won \union {"detected"} =>
        job[w].issue \in Issues /\ ckpt[w] = None
    /\ wpc[w] = "assigned" => HasMarker
    /\ wpc[w] \in Publishing \union Releasing => ckpt[w] \in Checkpoint
    /\ wpc[w] \in {"recording", "noting"} => ckpt[w].kind = "ordinary"
    /\ wpc[w] \in (Publishing \ {"working"}) \union Releasing =>
        Posted(ckpt[w].issue, ckpt[w].attempt)
    /\ ckpt[w] # None /\ ckpt[w].kind = "ordinary" => ckpt[w].source # "conflict"

JobLinked == \A w \in Workers : Linked(w)

\* The trace of w on issue i that other workers look for.
Seen(w, i) == IF HasMarker THEN w \in markers[i] ELSE LoginOf(w) \in assignees[i]

\* A worker that waits for its verification, or that has the issue.
Claims(w, i) == (wpc[w] = "settling" /\ job[w].issue = i) \/ Holds(w, i)

Visible == \A w \in Workers, i \in Issues : Claims(w, i) => Seen(w, i)

ClaimInv == ClaimTypeOK /\ JobLinked /\ Visible /\ OneWorkerPerIssue

-----------------------------------------------------------------------------
(* Facts about the operators.                                              *)

\* A claim that dies without a checkpoint was on an issue.
LEMMA CrashIssue ==
    ASSUME ClaimTypeOK, JobLinked, NEW w \in Workers, Crash(w), ckpt[w] = None
    PROVE  job[w].issue \in Issues
<1>1. wpc[w] \notin Publishing \union Releasing
    BY ClaimNoneAssumption DEF JobLinked, Linked
<1>2. wpc[w] \in Claiming \union Yielding \union Won
    BY <1>1 DEF Crash, ClaimTypeOK, Steps
<1> QED BY <1>2 DEF JobLinked, Linked

\* A nonempty set of naturals with a bound has a greatest element.
LEMMA GreatestOf ==
    ASSUME NEW n \in Nat, NEW S \in SUBSET (0..n), S # {}
    PROVE  \E j \in S : \A k \in S : k <= j
<1> DEFINE D == {d \in Nat : \E k \in S : d = n - k}
<1>1. D # {} /\ D \subseteq Nat
    <2>1. PICK k \in S : TRUE
        OBVIOUS
    <2>2. n - k \in D
        BY <2>1
    <2> QED BY <2>2
<1>2. PICK x \in D : \A y \in D : ~(<<y, x>> \in OpToRel(<, Nat))
    BY <1>1, NatLessThanWellFounded, WFMin
<1>3. \A y \in D : ~(y < x)
    BY <1>1, <1>2 DEF OpToRel
<1>4. PICK j \in S : x = n - j
    OBVIOUS
<1>5. ASSUME NEW k \in S PROVE k <= j
    <2>1. n - k \in D
        OBVIOUS
    <2> HIDE DEF D
    <2>2. ~(n - k < x)
        BY <1>3, <2>1
    <2> QED BY <1>4, <2>2
<1> QED BY <1>5

\* The issue shows the last version of the shared record.
LEMMA RecordShown ==
    ASSUME NEW h \in Seq(Comment)
    PROVE  /\ SharedRecord(h).attempt \in Nat /\ SharedRecord(h).standing \in Nat
           /\ Versions(h) = {} => SharedRecord(h).attempt = 0 /\ SharedRecord(h).standing = 0
           /\ Versions(h) # {} => \E j \in Versions(h) :
                /\ \A k \in Versions(h) : k <= j
                /\ SharedRecord(h).attempt = h[j].attempt
                /\ SharedRecord(h).standing = h[j].standing
<1>1. CASE Versions(h) = {}
    BY <1>1 DEF SharedRecord
<1>2. CASE Versions(h) # {}
    <2> DEFINE last == CHOOSE j \in Versions(h) : \A k \in Versions(h) : k <= j
    <2>1. Len(h) \in Nat /\ Versions(h) \in SUBSET (0..Len(h))
        BY DEF Versions
    <2>2. \E j \in Versions(h) : \A k \in Versions(h) : k <= j
        BY <1>2, <2>1, GreatestOf
    <2>3. last \in Versions(h) /\ \A k \in Versions(h) : k <= last
        BY <2>2
    <2>4. SharedRecord(h) = [attempt |-> h[last].attempt, standing |-> h[last].standing]
        BY <1>2 DEF SharedRecord
    <2> HIDE DEF last
    <2>5. h[last] \in Comment
        BY <2>3 DEF Versions
    <2>6. h[last].attempt \in Nat /\ h[last].standing \in Nat
        BY <2>5 DEF Comment
    <2> QED BY <1>2, <2>3, <2>4, <2>6
<1> QED BY <1>1, <1>2

\* The count of the automatic continuations is a natural number.
LEMMA CountIsNatural ==
    ASSUME NEW h \in Seq(Comment)
    PROVE  AutomaticCount(h) \in Nat
<1> DEFINE row == {j \in Newer(h) : \A k \in Newer(h) : k >= j => h[k].kind = "automatic"}
<1>1. Len(h) \in Nat /\ IsFiniteSet(1..Len(h))
    BY FS_Interval
<1>2. row \in SUBSET (1..Len(h))
    BY DEF Newer, Results
<1>3. Cardinality(row) \in Nat
    BY <1>1, <1>2, FS_Subset, FS_CardinalityType
<1>4. AutomaticCount(h) = Cardinality(row)
        + (IF \E j \in Newer(h) : h[j].kind = "human" THEN 0 ELSE SharedRecord(h).standing)
    BY DEF AutomaticCount
<1> HIDE DEF row
<1>5. SharedRecord(h).standing \in Nat
    BY RecordShown
<1> QED BY <1>3, <1>4, <1>5

\* The standing a handoff carries is a natural number.
LEMMA StandingIsNatural ==
    ASSUME ClaimTypeOK, NEW c \in Checkpoint
    PROVE  Standing(c) \in Nat
<1>1. c.issue \in Issues /\ c.intent \in Nat \union {None}
    BY DEF Checkpoint
<1>2. AutomaticCount(comments[c.issue]) \in Nat
    BY <1>1, CountIsNatural DEF ClaimTypeOK
<1> QED BY <1>1, <1>2 DEF Standing

\* What a step of a publication does to the comments: it finds the attempt told,
\* or adds an entry for it.
AddsEntry(i, n, k, q, s) ==
    comments' = [comments EXCEPT ![i] = Append(comments[i], Entry(n, k, q, s))]
Tells(i, n, k) ==
    \/ comments' = comments /\ Posted(i, n)
    \/ \E q \in BOOLEAN, s \in Nat : AddsEntry(i, n, k, q, s)

\* Posting a comment tells the attempt.
LEMMA PostTells ==
    ASSUME NEW i, NEW n, NEW k, PostComment(i, n, k)
    PROVE  Tells(i, n, k)
<1>1. CASE \E j \in 1..Len(comments[i]) : comments[i][j].attempt = n /\ ~comments[i][j].shared
    BY <1>1 DEF PostComment, Tells, Posted
<1>2. CASE ~\E j \in 1..Len(comments[i]) : comments[i][j].attempt = n /\ ~comments[i][j].shared
    <2>1. AddsEntry(i, n, k, FALSE, 0)
        BY <1>2 DEF PostComment, AddsEntry
    <2> QED BY <2>1 DEF Tells
<1> QED BY <1>1, <1>2

\* Telling adds the attempt's result and keeps every earlier one.
LEMMA TellingAdds ==
    ASSUME ClaimTypeOK, NEW i \in Issues, NEW n \in Nat \ {0}, NEW k \in Kinds, Tells(i, n, k)
    PROVE  /\ comments' \in [Issues -> Seq(Comment)]
           /\ \A j \in Issues, m \in Nat : Posted(j, m) => Posted(j, m)'
           /\ Posted(i, n)'
<1>1. CASE comments' = comments /\ Posted(i, n)
    BY <1>1 DEF Posted, ClaimTypeOK
<1>2. ASSUME NEW q \in BOOLEAN, NEW s \in Nat, AddsEntry(i, n, k, q, s)
      PROVE  /\ comments' \in [Issues -> Seq(Comment)]
             /\ \A j \in Issues, m \in Nat : Posted(j, m) => Posted(j, m)'
             /\ Posted(i, n)'
    <2> DEFINE e == Entry(n, k, q, s)
    <2>1. comments[i] \in Seq(Comment) /\ e \in Comment /\ e.attempt = n
        BY DEF ClaimTypeOK, Comment, Entry
    <2>2. comments' = [comments EXCEPT ![i] = Append(comments[i], e)]
        BY <1>2 DEF AddsEntry
    <2> HIDE DEF e
    <2>3. /\ comments'[i] = Append(comments[i], e)
          /\ \A j \in Issues \ {i} : comments'[j] = comments[j]
        BY <2>2 DEF ClaimTypeOK
    <2>4. /\ Len(comments'[i]) = Len(comments[i]) + 1
          /\ \A j \in 1..Len(comments[i]) : comments'[i][j] = comments[i][j]
          /\ comments'[i][Len(comments[i]) + 1] = e
          /\ Len(comments[i]) \in Nat
        BY <2>1, <2>3
    <2>5. comments' \in [Issues -> Seq(Comment)]
        BY <2>1, <2>2 DEF ClaimTypeOK
    <2>6. ASSUME NEW m \in Nat, Posted(i, m) PROVE Posted(i, m)'
        <3>1. PICK j \in 1..Len(comments[i]) : comments[i][j].attempt = m
            BY <2>6 DEF Posted
        <3>2. j \in 1..Len(comments'[i]) /\ comments'[i][j].attempt = m
            BY <2>4, <3>1
        <3> QED BY <3>2 DEF Posted
    <2>7. \A j \in Issues \ {i}, m \in Nat : Posted(j, m) => Posted(j, m)'
        BY <2>3 DEF Posted
    <2>8. Posted(i, n)'
        <3>1. Len(comments[i]) + 1 \in 1..Len(comments'[i]) BY <2>4
        <3>2. comments'[i][Len(comments[i]) + 1].attempt = n BY <2>1, <2>4
        <3> QED BY <3>1, <3>2 DEF Posted
    <2> QED BY <2>5, <2>6, <2>7, <2>8
<1> QED BY <1>1, <1>2 DEF Tells

\* The three writes of a publication.
Publishes(w) == PublishResult(w) \/ RecordHandoff(w) \/ NotifyHandoff(w)

\* A write of a publication tells the attempt in the checkpoint.
LEMMA PublishTells ==
    ASSUME ClaimTypeOK, JobLinked, NEW w \in Workers, Publishes(w)
    PROVE  /\ ckpt[w] \in Checkpoint /\ ckpt[w] # None
           /\ \E i \in Issues, n \in Nat \ {0}, k \in Kinds :
                i = ckpt[w].issue /\ n = ckpt[w].attempt /\ Tells(i, n, k)
<1>1. ckpt[w] \in Checkpoint /\ ckpt[w] # None
    BY ClaimNoneAssumption DEF Publishes, PublishResult, RecordHandoff, NotifyHandoff, JobLinked,
                               Linked, Publishing
<1>2. ckpt[w].issue \in Issues /\ ckpt[w].attempt \in Nat \ {0}
    BY <1>1 DEF Checkpoint
<1>3. CASE PublishResult(w)
    <2>1. PICK k \in ResultKinds(ckpt[w], job[w].recovered) :
            PostComment(ckpt[w].issue, ckpt[w].attempt, k)
        BY <1>3 DEF PublishResult
    <2>2. k \in Kinds
        BY <1>1, <2>1 DEF ResultKinds, Kinds, Checkpoint, JobLinked, Linked
    <2> QED BY <1>1, <1>2, <2>1, <2>2, PostTells
<1>4. CASE RecordHandoff(w) \/ NotifyHandoff(w)
    <2>1. ckpt[w].source \in Kinds
        BY <1>1, <1>4 DEF RecordHandoff, NotifyHandoff, JobLinked, Linked, Checkpoint, Kinds
    <2>2. Tells(ckpt[w].issue, ckpt[w].attempt, ckpt[w].source)
        <3>1. CASE PostComment(ckpt[w].issue, ckpt[w].attempt, ckpt[w].source)
            BY <3>1, PostTells
        <3>2. CASE /\ comments' = comments
                   /\ SharedRecord(comments[ckpt[w].issue]).attempt = ckpt[w].attempt
            <4>1. comments[ckpt[w].issue] \in Seq(Comment)
                BY <1>2 DEF ClaimTypeOK
            <4>2. \E j \in Versions(comments[ckpt[w].issue]) :
                    comments[ckpt[w].issue][j].attempt = ckpt[w].attempt
                BY <1>2, <3>2, <4>1, RecordShown
            <4> QED BY <3>2, <4>2 DEF Tells, Posted, Versions
        <3>3. CASE \E s \in Nat :
                    AddsEntry(ckpt[w].issue, ckpt[w].attempt, ckpt[w].source, TRUE, s)
            BY <3>3 DEF Tells
        <3>4. CASE NotifyHandoff(w)
            BY <3>1, <3>4 DEF NotifyHandoff
        <3>5. CASE RecordHandoff(w)
            <4> DEFINE s == IF wpc[w] = "recording" THEN job[w].standing ELSE Standing(ckpt[w])
            <4>1. s \in Nat
                BY <1>1, StandingIsNatural DEF ClaimTypeOK, Job
            <4>2. \/ PostComment(ckpt[w].issue, ckpt[w].attempt, ckpt[w].source)
                  \/ /\ comments' = comments
                     /\ SharedRecord(comments[ckpt[w].issue]).attempt = ckpt[w].attempt
                  \/ AddsEntry(ckpt[w].issue, ckpt[w].attempt, ckpt[w].source, TRUE, s)
                BY <3>5 DEF RecordHandoff, AddsEntry
            <4> HIDE DEF s
            <4> QED BY <3>1, <3>2, <3>3, <4>1, <4>2
        <3> QED BY <1>4, <3>4, <3>5
    <2> QED BY <1>1, <1>2, <2>1, <2>2
<1> QED BY <1>3, <1>4 DEF Publishes

\* The intent of a handoff leaves the rest of the checkpoint alone.
LEMMA IntentKept ==
    ASSUME NEW c \in Checkpoint, NEW s \in Nat
    PROVE  /\ [c EXCEPT !.intent = s] \in Checkpoint
           /\ [c EXCEPT !.intent = s].issue = c.issue
           /\ [c EXCEPT !.intent = s].attempt = c.attempt
           /\ [c EXCEPT !.intent = s].kind = c.kind
           /\ [c EXCEPT !.intent = s].source = c.source
    BY DEF Checkpoint

\* A publication leaves everything else in the checkpoint alone.
LEMMA PublishKeepsCheckpoint ==
    ASSUME ClaimTypeOK, JobLinked, NEW w \in Workers, Publishes(w)
    PROVE  /\ ckpt'[w] \in Checkpoint
           /\ ckpt'[w].issue = ckpt[w].issue /\ ckpt'[w].attempt = ckpt[w].attempt
           /\ ckpt'[w].kind = ckpt[w].kind /\ ckpt'[w].source = ckpt[w].source
<1>1. ckpt[w] \in Checkpoint
    BY PublishTells
<1>2. CASE RecordHandoff(w)
    <2> DEFINE s == IF wpc[w] = "recording" THEN job[w].standing ELSE Standing(ckpt[w])
    <2>1. s \in Nat
        BY <1>1, StandingIsNatural DEF Job, ClaimTypeOK
    <2>2. ckpt' = [ckpt EXCEPT ![w] = [ckpt[w] EXCEPT !.intent = s]]
        BY <1>2 DEF RecordHandoff
    <2> HIDE DEF s
    <2>3. ckpt'[w] = [ckpt[w] EXCEPT !.intent = s]
        BY <2>2 DEF ClaimTypeOK
    <2> QED BY <1>1, <2>1, <2>3, IntentKept
<1>3. CASE ckpt' = ckpt
    BY <1>1, <1>3
<1> QED BY <1>2, <1>3 DEF Publishes, PublishResult, NotifyHandoff

\* The updates of a worker's local variables keep their types.
LEMMA JobTypes ==
    /\ NoJob \in Job
    /\ \A i \in Issues \union {None} :
        /\ [NoJob EXCEPT !.issue = i] \in Job
        /\ [NoJob EXCEPT !.issue = i, !.recovered = TRUE] \in Job
    /\ \A i \in Issues, ls \in SUBSET QueueLabels :
        [NoJob EXCEPT !.issue = i, !.claim = ls] \in Job
    /\ \A j \in Job : j.issue \in Issues \union {None}
    /\ \A j \in Job, i \in Issues : [j EXCEPT !.issue = i] \in Job
    /\ \A j \in Job, ls \in SUBSET QueueLabels : [j EXCEPT !.seen = ls] \in Job
    /\ \A j \in Job, r \in {"handoff", "other"}, s \in Nat :
        [j EXCEPT !.result = r, !.recovered = FALSE, !.standing = s] \in Job
    /\ \A j \in Job : [j EXCEPT !.result = "none"] \in Job
<1>1. NoJob \in Job
    BY DEF Job, NoJob
<1>2. \A i \in Issues \union {None} : [NoJob EXCEPT !.issue = i] \in Job
    BY DEF Job, NoJob
<1>3. \A i \in Issues \union {None} : [NoJob EXCEPT !.issue = i, !.recovered = TRUE] \in Job
    BY DEF Job, NoJob
<1>4. \A i \in Issues, ls \in SUBSET QueueLabels :
        [NoJob EXCEPT !.issue = i, !.claim = ls] \in Job
    BY DEF Job, NoJob
<1>5. \A j \in Job : j.issue \in Issues \union {None}
    BY DEF Job
<1>6. \A j \in Job, i \in Issues : [j EXCEPT !.issue = i] \in Job
    BY DEF Job
<1>7. \A j \in Job, ls \in SUBSET QueueLabels : [j EXCEPT !.seen = ls] \in Job
    BY DEF Job
<1>8. \A j \in Job, r \in {"handoff", "other"}, s \in Nat :
        [j EXCEPT !.result = r, !.recovered = FALSE, !.standing = s] \in Job
    BY DEF Job
<1>9. \A j \in Job : [j EXCEPT !.result = "none"] \in Job
    BY DEF Job
<1> QED BY <1>1, <1>2, <1>3, <1>4, <1>5, <1>6, <1>7, <1>8, <1>9

\* Settling a claim keeps the issue it is about.
LEMMA VerifyKeepsIssue ==
    ASSUME NEW w \in Workers, job \in [Workers -> Job], VerifyClaim(w)
    PROVE  job'[w].issue = job[w].issue
<1>1. CASE Contested(w, job[w].issue)
    <2>1. job'[w] = [NoJob EXCEPT !.issue = job[w].issue]
        BY <1>1 DEF VerifyClaim
    <2> QED BY <2>1 DEF NoJob
<1>2. CASE ~Contested(w, job[w].issue)
    <2>1. job'[w] = [job[w] EXCEPT !.seen = labels[job[w].issue]]
        BY <1>2 DEF VerifyClaim
    <2> QED BY <2>1 DEF Job
<1> QED BY <1>1, <1>2

-----------------------------------------------------------------------------
(* Types.                                                                  *)

\* Every step of a worker, a crash or a person keeps the types.
LEMMA TypesStep ==
    ASSUME ClaimTypeOK, JobLinked, [ClaimNext]_claimVars
    PROVE  ClaimTypeOK'
<1> USE BudgetAssumption, BoundAssumption, ClaimNoneAssumption
<1> USE DEF ClaimTypeOK, Steps, Publishing, Claiming, Yielding, Won, Releasing, github
<1>0. CASE UNCHANGED claimVars
    BY <1>0 DEF claimVars
<1>1. ASSUME NEW w \in Workers, AssignIssue(w) PROVE ClaimTypeOK'
    <2>1. wpc' \in [Workers -> Steps]
        BY <1>1 DEF AssignIssue, Goto
    <2> QED BY <1>1, <2>1 DEF AssignIssue, LoginOf, Logins
<1>2. ASSUME NEW w \in Workers, AddMarker(w) PROVE ClaimTypeOK'
    <2>1. wpc' \in [Workers -> Steps]
        BY <1>2 DEF AddMarker, Goto
    <2> QED BY <1>2, <2>1 DEF AddMarker
<1>3. ASSUME NEW w \in Workers, VerifyClaim(w) PROVE ClaimTypeOK'
    <2>1. job' \in [Workers -> Job]
        <3>1. /\ job[w] \in Job
              /\ (IF Contested(w, job[w].issue) THEN {} ELSE labels[job[w].issue]) \in SUBSET QueueLabels
            BY <1>3 DEF VerifyClaim, JobLinked, Linked
        <3> QED BY <1>3, <3>1, JobTypes DEF VerifyClaim
    <2>2. wpc' \in [Workers -> Steps]
        BY <1>3 DEF VerifyClaim, Goto
    <2>3. stalled' \in BOOLEAN
        BY <1>3, Zenon DEF VerifyClaim
    <2> QED BY <1>3, <2>1, <2>2, <2>3 DEF VerifyClaim
<1>4. ASSUME NEW w \in Workers, YieldClaim(w) PROVE ClaimTypeOK'
    <2>1. job' \in [Workers -> Job]
        BY <1>4, JobTypes DEF YieldClaim
    <2>2. wpc' \in [Workers -> Steps]
        BY ZenonT(40), <1>4 DEF YieldClaim, Goto
    <2>3. /\ assignees' \in [Issues -> SUBSET Logins]
          /\ markers' \in [Issues -> SUBSET Workers]
        <3>1. CASE /\ markers' = [markers EXCEPT ![job[w].issue] = @ \ {w}]
                   /\ assignees' = assignees
            BY <3>1
        <3>2. CASE /\ assignees' = [assignees EXCEPT ![job[w].issue] = @ \ {LoginOf(w)}]
                   /\ markers' = markers
            BY <3>2
        <3> QED BY <1>4, <3>1, <3>2 DEF YieldClaim
    <2> QED BY <1>4, <2>1, <2>2, <2>3 DEF YieldClaim
<1>5. ASSUME NEW w \in Workers, YieldRead(w) PROVE ClaimTypeOK'
    <2>1. job' \in [Workers -> Job]
        BY <1>5, JobTypes DEF YieldRead
    <2>2. wpc' \in [Workers -> Steps]
        BY <1>5 DEF YieldRead, Goto
    <2> QED BY <1>5, <2>1, <2>2 DEF YieldRead
<1>6. ASSUME NEW w \in Workers, YieldUnassign(w) PROVE ClaimTypeOK'
    <2>1. job' \in [Workers -> Job]
        BY <1>6, JobTypes DEF YieldUnassign
    <2>2. wpc' \in [Workers -> Steps]
        BY <1>6 DEF YieldUnassign, Goto
    <2> QED BY <1>6, <2>1, <2>2 DEF YieldUnassign
<1>7. ASSUME NEW w \in Workers, ClearFinished(w) PROVE ClaimTypeOK'
    <2>1. wpc' \in [Workers -> Steps]
        BY <1>7 DEF ClearFinished, Goto
    <2> QED BY <1>7, <2>1 DEF ClearFinished
<1>8. ASSUME NEW w \in Workers, ClearConflict(w) PROVE ClaimTypeOK'
    <2>1. wpc' \in [Workers -> Steps]
        BY <1>8 DEF ClearConflict, Goto
    <2>2. job' \in [Workers -> Job]
        BY <1>8, JobTypes DEF ClearConflict
    <2> QED BY <1>8, <2>1, <2>2 DEF ClearConflict
<1>9. ASSUME NEW w \in Workers, StartAttempt(w) PROVE ClaimTypeOK'
    <2>1. job' \in [Workers -> Job]
        BY <1>9, JobTypes DEF StartAttempt, JobLinked, Linked, Won
    <2>2. wpc' \in [Workers -> Steps]
        BY <1>9 DEF StartAttempt, Goto
    <2>3. ckpt' \in [Workers -> Checkpoint \union {None}]
        <3>1. job[w].issue \in Issues
            BY <1>9 DEF StartAttempt, JobLinked, Linked
        <3>2. /\ attempts + 1 \in Nat
              /\ SourceOf(job[w].claim) \in {"human", "automatic", "conflict"}
            BY DEF SourceOf
        <3> QED BY <1>9, <3>1, <3>2 DEF StartAttempt, Checkpoint
    <2> QED BY <1>9, <2>1, <2>2, <2>3 DEF StartAttempt
<1>10. ASSUME NEW w \in Workers, Publishes(w) PROVE ClaimTypeOK'
    <2>0. ckpt[w] \in Checkpoint /\ job[w] \in Job /\ Standing(ckpt[w]) \in Nat
        BY <1>10, PublishTells, StandingIsNatural
    <2>1. comments' \in [Issues -> Seq(Comment)]
        BY <1>10, PublishTells, TellingAdds
    <2>2. wpc' \in [Workers -> Steps]
        BY ZenonT(40), <1>10 DEF Publishes, PublishResult, RecordHandoff, NotifyHandoff, Goto
    <2>3. CASE PublishResult(w)
        <3>1. PICK k \in ResultKinds(ckpt[w], job[w].recovered), r \in {"handoff", "other"},
                   record \in BOOLEAN :
                job' = [job EXCEPT ![w].result = r, ![w].recovered = FALSE,
                             ![w].standing = IF record THEN Standing(ckpt[w]) ELSE 0]
            BY <2>3, Zenon DEF PublishResult
        <3>2. PICK s \in Nat : s = IF record THEN Standing(ckpt[w]) ELSE 0
            BY <2>0
        <3>3. job' = [job EXCEPT ![w] = [job[w] EXCEPT !.result = r, !.recovered = FALSE,
                                                      !.standing = s]]
            BY <3>1, <3>2
        <3>4. job' \in [Workers -> Job]
            BY <2>0, <3>3, JobTypes
        <3> QED BY <2>1, <2>2, <2>3, <3>4 DEF PublishResult
    <2>4. CASE RecordHandoff(w)
        <3> DEFINE s == IF wpc[w] = "recording" THEN job[w].standing ELSE Standing(ckpt[w])
        <3>1. s \in Nat
            BY <2>0 DEF Job
        <3>2. /\ ckpt' = [ckpt EXCEPT ![w] = [ckpt[w] EXCEPT !.intent = s]]
              /\ job' = [job EXCEPT ![w] = [job[w] EXCEPT !.result = "handoff",
                                            !.recovered = FALSE, !.standing = 0]]
            BY <2>4 DEF RecordHandoff
        <3> HIDE DEF s
        <3>3. job' \in [Workers -> Job]
            BY <2>0, <3>2, JobTypes
        <3>4. ckpt' \in [Workers -> Checkpoint \union {None}]
            BY <2>0, <3>1, <3>2, IntentKept
        <3> QED BY <2>1, <2>2, <2>4, <3>3, <3>4 DEF RecordHandoff
    <2>5. CASE NotifyHandoff(w)
        BY <2>1, <2>2, <2>5 DEF NotifyHandoff
    <2> QED BY <1>10, <2>3, <2>4, <2>5 DEF Publishes
<1>11. ASSUME NEW w \in Workers, EscalateToHuman(w) PROVE ClaimTypeOK'
    <2>1. wpc' \in [Workers -> Steps]
        BY <1>11 DEF EscalateToHuman, Goto
    <2>2. labels' \in [Issues -> SUBSET QueueLabels]
        <3>1. ForHuman \in QueueLabels
            BY DEF QueueLabels
        <3> QED BY SMTT(30), <1>11, <3>1 DEF EscalateToHuman
    <2> QED BY <1>11, <2>1, <2>2 DEF EscalateToHuman
<1>12. ASSUME NEW w \in Workers, ReleaseLabel(w) PROVE ClaimTypeOK'
    <2>1. wpc' \in [Workers -> Steps]
        BY <1>12 DEF ReleaseLabel, Goto
    <2>2. job' \in [Workers -> Job]
        BY <1>12, JobTypes DEF ReleaseLabel
    <2> QED BY <1>12, <2>1, <2>2 DEF ReleaseLabel
<1>13. ASSUME NEW w \in Workers, HandOff(w) PROVE ClaimTypeOK'
    <2>1. wpc' \in [Workers -> Steps]
        BY <1>13 DEF HandOff, Goto
    <2> QED BY <1>13, <2>1 DEF HandOff, QueueLabels
<1>14. ASSUME NEW w \in Workers, ReleaseMarker(w) PROVE ClaimTypeOK'
    <2>1. wpc' \in [Workers -> Steps]
        BY <1>14 DEF ReleaseMarker, Goto
    <2> QED BY <1>14, <2>1 DEF ReleaseMarker
<1>15. ASSUME NEW w \in Workers, ReleaseRead(w) PROVE ClaimTypeOK'
    <2>1. wpc' \in [Workers -> Steps]
        BY <1>15 DEF ReleaseRead, Goto
    <2> QED BY <1>15, <2>1 DEF ReleaseRead
<1>16. ASSUME NEW w \in Workers, ReleaseAssignee(w) PROVE ClaimTypeOK'
    <2>1. wpc' \in [Workers -> Steps]
        BY <1>16 DEF ReleaseAssignee, Goto
    <2> QED BY <1>16, <2>1 DEF ReleaseAssignee
<1>17. ASSUME NEW w \in Workers, FinalizeAttempt(w) PROVE ClaimTypeOK'
    <2>1. job' \in [Workers -> Job]
        BY <1>17, JobTypes DEF FinalizeAttempt
    <2>2. wpc' \in [Workers -> Steps]
        BY <1>17 DEF FinalizeAttempt, Goto
    <2> QED BY <1>17, <2>1, <2>2 DEF FinalizeAttempt
<1>18. ASSUME NEW w \in Workers, LabelConflict(w) PROVE ClaimTypeOK'
    <2>1. job' \in [Workers -> Job]
        BY <1>18, JobTypes DEF LabelConflict
    <2>2. wpc' \in [Workers -> Steps]
        BY <1>18 DEF LabelConflict, Goto
    <2> QED BY <1>18, <2>1, <2>2 DEF LabelConflict, QueueLabels
<1>19. ASSUME NEW w \in Workers, Crash(w) PROVE ClaimTypeOK'
    <2>1. job' \in [Workers -> Job]
        BY <1>19, JobTypes DEF Crash
    <2>2. wpc' \in [Workers -> Steps]
        BY <1>19 DEF Crash, Goto
    <2>3. abandoned' \in SUBSET (Workers \X Issues)
        <3>1. CASE ckpt[w] = None
            <4>1. <<w, job[w].issue>> \in Workers \X Issues
                BY <1>19, <3>1, CrashIssue
            <4> QED BY <1>19, <3>1, <4>1 DEF Crash
        <3>2. CASE ckpt[w] # None
            BY <1>19, <3>2 DEF Crash
        <3> QED BY <3>1, <3>2
    <2> QED BY <1>19, <2>1, <2>2, <2>3 DEF Crash
<1>20. ASSUME NEW w \in Workers, Restart(w) PROVE ClaimTypeOK'
    <2>1. job' \in [Workers -> Job]
        <3>1. CASE ckpt[w] = None
            BY <1>20, <3>1 DEF Restart
        <3>2. CASE ckpt[w] # None
            <4>1. ckpt[w].issue \in Issues
                BY <3>2 DEF Checkpoint
            <4>2. \/ job' = job
                  \/ job' = [job EXCEPT ![w] = [NoJob EXCEPT !.issue = ckpt[w].issue,
                                                            !.recovered = TRUE]]
                BY <1>20 DEF Restart
            <4>3. [NoJob EXCEPT !.issue = ckpt[w].issue, !.recovered = TRUE] \in Job
                BY <4>1, JobTypes
            <4> QED BY <4>2, <4>3
        <3> QED BY <3>1, <3>2
    <2>2. wpc' \in [Workers -> Steps]
        BY ZenonT(40), <1>20 DEF Restart, Goto
    <2> QED BY <1>20, <2>1, <2>2 DEF Restart
<1>21. ASSUME NEW w \in Workers, NEW i \in Issues, SelectIssue(w, i) PROVE ClaimTypeOK'
    <2>1. job' \in [Workers -> Job]
        BY <1>21, JobTypes DEF SelectIssue
    <2>2. wpc' \in [Workers -> Steps]
        BY <1>21 DEF SelectIssue, Goto
    <2> QED BY <1>21, <2>1, <2>2 DEF SelectIssue
<1>22. ASSUME NEW w \in Workers, NEW i \in Issues, DetectConflict(w, i) PROVE ClaimTypeOK'
    <2>1. job' \in [Workers -> Job]
        BY <1>22, JobTypes DEF DetectConflict
    <2>2. wpc' \in [Workers -> Steps]
        BY <1>22 DEF DetectConflict, Goto
    <2> QED BY <1>22, <2>1, <2>2 DEF DetectConflict
<1>23. ASSUME NEW i \in Issues, PersonActs(i) PROVE ClaimTypeOK'
    <2>1. /\ assignees' \in [Issues -> SUBSET Logins]
          /\ labels' \in [Issues -> SUBSET QueueLabels]
        <3>1. "human" \in Logins /\ Ready \in QueueLabels
            BY DEF Logins, QueueLabels
        <3>2. CASE labels' = [labels EXCEPT ![i] = @ \union {Ready}] /\ UNCHANGED assignees
            BY <3>1, <3>2
        <3>3. CASE labels' = [labels EXCEPT ![i] = @ \ {ForHuman}] /\ UNCHANGED assignees
            BY <3>3
        <3>4. CASE assignees' = [assignees EXCEPT ![i] = @ \union {"human"}] /\ UNCHANGED labels
            BY <3>1, <3>4
        <3>5. CASE assignees' = [assignees EXCEPT ![i] = @ \ {"human"}] /\ UNCHANGED labels
            BY <3>5
        <3> QED BY <1>23, <3>2, <3>3, <3>4, <3>5 DEF PersonActs
    <2> QED BY <1>23, <2>1 DEF PersonActs
<1> QED BY <1>0, <1>1, <1>2, <1>3, <1>4, <1>5, <1>6, <1>7, <1>8, <1>9, <1>10, <1>11, <1>12,
           <1>13, <1>14, <1>15, <1>16, <1>17, <1>18, <1>19, <1>20, <1>21, <1>22, <1>23 DEF
           ClaimNext, WorkerStep, Publishes

-----------------------------------------------------------------------------
(* What a step leaves alone.                                               *)

\* The other workers keep their place and their checkpoints.
OthersKept(w) ==
    \A v \in Workers \ {w} : wpc'[v] = wpc[v] /\ job'[v] = job[v] /\ ckpt'[v] = ckpt[v]

\* No result goes away.
PostsKept == \A i \in Issues, n \in Nat : Posted(i, n) => Posted(i, n)'

\* The other workers stay visible.
OthersSeen(w) == \A v \in Workers \ {w}, i \in Issues : Seen(v, i) => Seen(v, i)'

\* A step of w moves only w.
LEMMA StepMovesOne ==
    ASSUME ClaimTypeOK, NEW w \in Workers, WorkerStep(w) \/ Crash(w) \/ Restart(w)
    PROVE  OthersKept(w) /\ pool' = pool
<1> USE DEF OthersKept, ClaimTypeOK, Goto
<1>1. CASE AssignIssue(w)
    BY <1>1 DEF AssignIssue
<1>2. CASE AddMarker(w)
    BY <1>2 DEF AddMarker
<1>3. CASE VerifyClaim(w)
    BY <1>3 DEF VerifyClaim
<1>4. CASE YieldClaim(w)
    BY <1>4 DEF YieldClaim
<1>5. CASE YieldRead(w)
    BY <1>5 DEF YieldRead
<1>6. CASE YieldUnassign(w)
    BY <1>6 DEF YieldUnassign
<1>7. CASE ClearFinished(w)
    BY <1>7 DEF ClearFinished
<1>8. CASE ClearConflict(w)
    BY <1>8 DEF ClearConflict
<1>9. CASE StartAttempt(w)
    BY <1>9 DEF StartAttempt
<1>10. CASE Publishes(w)
    BY <1>10 DEF Publishes, PublishResult, RecordHandoff, NotifyHandoff
<1>11. CASE EscalateToHuman(w)
    BY <1>11 DEF EscalateToHuman
<1>12. CASE ReleaseLabel(w)
    BY <1>12 DEF ReleaseLabel
<1>13. CASE HandOff(w)
    BY <1>13 DEF HandOff
<1>14. CASE ReleaseMarker(w)
    BY <1>14 DEF ReleaseMarker
<1>15. CASE ReleaseRead(w)
    BY <1>15 DEF ReleaseRead
<1>16. CASE ReleaseAssignee(w)
    BY <1>16 DEF ReleaseAssignee
<1>17. CASE FinalizeAttempt(w)
    BY <1>17 DEF FinalizeAttempt
<1>18. CASE LabelConflict(w)
    BY <1>18 DEF LabelConflict
<1>19. CASE Crash(w)
    BY <1>19 DEF Crash
<1>20. CASE Restart(w)
    BY <1>20 DEF Restart
<1>21. ASSUME NEW i \in Issues, SelectIssue(w, i) PROVE OthersKept(w) /\ pool' = pool
    BY <1>21 DEF SelectIssue
<1>22. ASSUME NEW i \in Issues, DetectConflict(w, i) PROVE OthersKept(w) /\ pool' = pool
    BY <1>22 DEF DetectConflict
<1> QED BY <1>1, <1>2, <1>3, <1>4, <1>5, <1>6, <1>7, <1>8, <1>9, <1>10, <1>11, <1>12, <1>13,
           <1>14, <1>15, <1>16, <1>17, <1>18, <1>19, <1>20, <1>21, <1>22 DEF WorkerStep, Publishes

\* A result, once posted, stays.
LEMMA StepKeepsPosts ==
    ASSUME ClaimTypeOK, JobLinked, NEW w \in Workers, WorkerStep(w) \/ Crash(w) \/ Restart(w)
    PROVE  PostsKept
<1>1. CASE Publishes(w)
    BY <1>1, PublishTells, TellingAdds DEF PostsKept
<1>2. CASE comments' = comments
    BY <1>2 DEF PostsKept, Posted
<1>3. Publishes(w) \/ comments' = comments
    BY DEF Publishes, WorkerStep, AssignIssue, AddMarker, VerifyClaim, YieldClaim, YieldRead,
           YieldUnassign, ClearFinished, ClearConflict, StartAttempt, EscalateToHuman,
           ReleaseLabel, HandOff, ReleaseMarker, ReleaseRead, ReleaseAssignee, FinalizeAttempt,
           LabelConflict, Crash, Restart,
           SelectIssue, DetectConflict, github
<1> QED BY <1>1, <1>2, <1>3

\* A step of w removes no trace but its own.
LEMMA StepKeepsTraces ==
    ASSUME ClaimTypeOK, NEW w \in Workers, WorkerStep(w) \/ Crash(w) \/ Restart(w)
    PROVE  OthersSeen(w)
<1> USE PoolAssumption, ClaimNoneAssumption
<1> USE DEF OthersSeen, Seen, HasMarker, LoginOf, ClaimTypeOK
<1>0. CASE UNCHANGED <<pool, markers, assignees>>
    BY <1>0
<1>1. CASE AssignIssue(w)
    BY <1>1 DEF AssignIssue
<1>2. CASE AddMarker(w)
    BY <1>2 DEF AddMarker
<1>3. CASE YieldClaim(w)
    <2>1. CASE pool = "shared"
        <3>1. /\ markers' = [markers EXCEPT ![job[w].issue] = @ \ {w}]
              /\ pool' = pool /\ assignees' = assignees
            BY <1>3, <2>1 DEF YieldClaim
        <3> QED BY <2>1, <3>1
    <2>2. CASE pool # "shared"
        <3>1. /\ assignees' = [assignees EXCEPT ![job[w].issue] = @ \ {w}]
              /\ pool' = pool /\ markers' = markers
            BY <1>3, <2>2 DEF YieldClaim
        <3> QED BY <2>2, <3>1
    <2> QED BY <2>1, <2>2
<1>4. CASE YieldUnassign(w)
    BY <1>4 DEF YieldUnassign
<1>5. CASE ReleaseMarker(w)
    BY <1>5 DEF ReleaseMarker
<1>6. CASE ReleaseAssignee(w)
    BY <1>6 DEF ReleaseAssignee
<1>7. \/ AssignIssue(w) \/ AddMarker(w) \/ YieldClaim(w)
      \/ YieldUnassign(w) \/ ReleaseMarker(w) \/ ReleaseAssignee(w) \/ UNCHANGED <<pool, markers, assignees>>
    BY DEF WorkerStep, VerifyClaim, YieldRead, ClearFinished, ClearConflict, StartAttempt,
           PublishResult, RecordHandoff, NotifyHandoff, EscalateToHuman, ReleaseLabel,
           HandOff, ReleaseRead, FinalizeAttempt,
           LabelConflict, Crash, Restart,
           SelectIssue, DetectConflict, github
<1> QED BY <1>0, <1>1, <1>2, <1>3, <1>4, <1>5, <1>6, <1>7

-----------------------------------------------------------------------------
(* What a step does to the worker that takes it.                           *)

\* The worker finds its local variables where its next step expects them.
LEMMA StepLinks ==
    ASSUME ClaimTypeOK, JobLinked, NEW w \in Workers, WorkerStep(w) \/ Crash(w) \/ Restart(w)
    PROVE  Linked(w)'
<1> USE ClaimNoneAssumption
<1> USE DEF Linked, ClaimTypeOK, Publishing, Claiming, Yielding, Won, Releasing, Goto, HasMarker
<1>0. Linked(w)
    BY DEF JobLinked
<1>1. CASE AssignIssue(w)
    BY <1>0, <1>1 DEF AssignIssue
<1>2. CASE AddMarker(w)
    BY <1>0, <1>2 DEF AddMarker
<1>3. CASE VerifyClaim(w)
    BY <1>0, <1>3 DEF VerifyClaim
<1>4. CASE YieldClaim(w)
    BY <1>0, <1>4 DEF YieldClaim
<1>5. CASE YieldRead(w)
    BY <1>0, <1>5 DEF YieldRead
<1>6. CASE YieldUnassign(w)
    BY <1>0, <1>6 DEF YieldUnassign
<1>7. CASE ClearFinished(w)
    BY <1>0, <1>7 DEF ClearFinished
<1>8. CASE ClearConflict(w)
    BY <1>0, <1>8 DEF ClearConflict
<1>9. CASE StartAttempt(w)
    BY <1>0, <1>9 DEF StartAttempt, NoJob, Checkpoint, SourceOf
<1>10. CASE Publishes(w)
    <2>1. PICK i \in Issues, n \in Nat \ {0}, k \in Kinds :
            i = ckpt[w].issue /\ n = ckpt[w].attempt /\ Tells(i, n, k)
        BY <1>10, PublishTells
    <2>2. ckpt[w] \in Checkpoint /\ ckpt[w] # None /\ Posted(i, n)'
        BY <1>10, <2>1, PublishTells, TellingAdds
    <2>3. /\ ckpt'[w] \in Checkpoint /\ ckpt'[w].kind = ckpt[w].kind
          /\ ckpt'[w].source = ckpt[w].source
          /\ ckpt'[w].issue = i /\ ckpt'[w].attempt = n
        BY <1>10, <2>1, PublishKeepsCheckpoint
    <2>4. Posted(ckpt[w].issue, ckpt[w].attempt)'
        BY <2>2, <2>3 DEF Posted
    <2>5. wpc'[w] \in (Publishing \union {"posted"})
        BY <1>10 DEF Publishes, PublishResult, RecordHandoff, NotifyHandoff, Publishing
    <2>6. wpc'[w] \in {"recording", "noting"} => ckpt[w].kind = "ordinary"
        BY <1>0, <1>10, <2>2 DEF Publishes, PublishResult, RecordHandoff, NotifyHandoff, Checkpoint
    <2> QED BY <1>0, <2>2, <2>3, <2>4, <2>5, <2>6
<1>11. CASE EscalateToHuman(w)
    BY <1>0, <1>11 DEF EscalateToHuman, Posted
<1>12. CASE ReleaseLabel(w)
    BY <1>0, <1>12 DEF ReleaseLabel, Posted
<1>13. CASE HandOff(w)
    BY <1>0, <1>13 DEF HandOff, Posted
<1>14. CASE ReleaseMarker(w)
    BY <1>0, <1>14 DEF ReleaseMarker, Posted
<1>15. CASE ReleaseRead(w)
    BY <1>0, <1>15 DEF ReleaseRead, Posted, github
<1>16. CASE ReleaseAssignee(w)
    BY <1>0, <1>16 DEF ReleaseAssignee, Posted
<1>17. CASE FinalizeAttempt(w)
    BY <1>0, <1>17 DEF FinalizeAttempt
<1>18. CASE LabelConflict(w)
    BY <1>0, <1>18 DEF LabelConflict
<1>19. CASE Crash(w)
    BY <1>0, <1>19 DEF Crash
<1>20. CASE Restart(w)
    BY <1>0, <1>20 DEF Restart
<1>21. ASSUME NEW i \in Issues, SelectIssue(w, i) PROVE Linked(w)'
    BY <1>0, <1>21 DEF SelectIssue, NoJob, Job
<1>22. ASSUME NEW i \in Issues, DetectConflict(w, i) PROVE Linked(w)'
    BY <1>0, <1>22 DEF DetectConflict, NoJob, Job
<1> QED BY <1>1, <1>2, <1>3, <1>4, <1>5, <1>6, <1>7, <1>8, <1>9, <1>10, <1>11, <1>12, <1>13,
           <1>14, <1>15, <1>16, <1>17, <1>18, <1>19, <1>20, <1>21, <1>22 DEF WorkerStep, Publishes

\* Only a verification gives w an issue it did not have, and it does so only
\* if nobody else was seen.
LEMMA StepHolds ==
    ASSUME ClaimTypeOK, JobLinked, NEW w \in Workers, WorkerStep(w) \/ Crash(w) \/ Restart(w),
           NEW i \in Issues, Holds(w, i)'
    PROVE  \/ Holds(w, i)
           \/ VerifyClaim(w) /\ job[w].issue = i /\ ~Contested(w, i)
<1> USE ClaimNoneAssumption
<1> USE DEF Holds, Linked, ClaimTypeOK, Publishing, Claiming, Yielding, Won, Releasing, Goto
<1>0. Linked(w)
    BY DEF JobLinked
<1>1. CASE AssignIssue(w)
    BY <1>0, <1>1 DEF AssignIssue, Posted, github
<1>2. CASE AddMarker(w)
    BY <1>0, <1>2 DEF AddMarker, Posted, github
<1>3. CASE VerifyClaim(w)
    BY <1>0, <1>3 DEF VerifyClaim, Posted, github, Job
<1>4. CASE YieldClaim(w)
    BY <1>0, <1>4 DEF YieldClaim, Posted, github
<1>5. CASE YieldRead(w)
    BY <1>0, <1>5 DEF YieldRead, Posted, github
<1>6. CASE YieldUnassign(w)
    BY <1>0, <1>6 DEF YieldUnassign, Posted, github
<1>7. CASE ClearFinished(w)
    BY <1>0, <1>7 DEF ClearFinished, Posted, github
<1>8. CASE ClearConflict(w)
    BY <1>0, <1>8 DEF ClearConflict, Posted, github
<1>9. CASE StartAttempt(w)
    BY <1>0, <1>9 DEF StartAttempt, Posted, github, NoJob
<1>10. CASE Publishes(w)
    <2>1. PICK i0 \in Issues, n \in Nat \ {0}, k \in Kinds :
            i0 = ckpt[w].issue /\ n = ckpt[w].attempt /\ Tells(i0, n, k)
        BY <1>10, PublishTells
    <2>2. ckpt[w] \in Checkpoint /\ ckpt[w] # None /\ Posted(i0, n)'
        BY <1>10, <2>1, PublishTells, TellingAdds
    <2>3. ckpt'[w].issue = i0 /\ ckpt'[w].attempt = n
        BY <1>10, <2>1, PublishKeepsCheckpoint
    <2>4. wpc'[w] \notin Won
        BY ZenonT(40), <1>10 DEF Publishes, PublishResult, RecordHandoff, NotifyHandoff
    <2> QED BY <2>2, <2>3, <2>4 DEF Posted
<1>11. CASE EscalateToHuman(w)
    BY <1>0, <1>11 DEF EscalateToHuman, Posted, github
<1>12. CASE ReleaseLabel(w)
    BY <1>0, <1>12 DEF ReleaseLabel, Posted, github
<1>13. CASE HandOff(w)
    BY <1>0, <1>13 DEF HandOff, Posted, github
<1>14. CASE ReleaseMarker(w)
    BY <1>0, <1>14 DEF ReleaseMarker, Posted, github
<1>15. CASE ReleaseRead(w)
    BY <1>0, <1>15 DEF ReleaseRead, Posted, github
<1>16. CASE ReleaseAssignee(w)
    BY <1>0, <1>16 DEF ReleaseAssignee, Posted, github
<1>17. CASE FinalizeAttempt(w)
    BY <1>0, <1>17 DEF FinalizeAttempt, Posted, github
<1>18. CASE LabelConflict(w)
    BY <1>0, <1>18 DEF LabelConflict, Posted, github
<1>19. CASE Crash(w)
    BY <1>0, <1>19 DEF Crash, Posted, github
<1>20. CASE Restart(w)
    BY <1>0, <1>20 DEF Restart, Posted, github
<1>21. ASSUME NEW j \in Issues, SelectIssue(w, j) PROVE Holds(w, i)
    BY <1>0, <1>21 DEF SelectIssue, Posted, github
<1>22. ASSUME NEW j \in Issues, DetectConflict(w, j) PROVE Holds(w, i)
    BY <1>0, <1>22 DEF DetectConflict, Posted, github
<1> QED BY <1>1, <1>2, <1>3, <1>4, <1>5, <1>6, <1>7, <1>8, <1>9, <1>10, <1>11, <1>12, <1>13,
           <1>14, <1>15, <1>16, <1>17, <1>18, <1>19, <1>20, <1>21, <1>22 DEF WorkerStep, Publishes

\* A claim that is to be verified, or has been, can be seen.
LEMMA StepSeen ==
    ASSUME ClaimTypeOK, JobLinked, Visible,
           NEW w \in Workers, WorkerStep(w) \/ Crash(w) \/ Restart(w),
           NEW i \in Issues, Claims(w, i)'
    PROVE  Seen(w, i)'
<1> USE ClaimNoneAssumption
<1>0. Linked(w)
    BY DEF JobLinked
<1>1. CASE AssignIssue(w)
    BY <1>0, <1>1 DEF AssignIssue, Goto, Claims, Holds, Linked, Claiming, Won, Seen, HasMarker,
                      LoginOf, ClaimTypeOK
<1>2. CASE AddMarker(w)
    BY <1>0, <1>2 DEF AddMarker, Goto, Claims, Holds, Linked, Claiming, Won, Seen, HasMarker,
                      ClaimTypeOK, Visible
<1>3. CASE YieldClaim(w) \/ YieldUnassign(w)
    BY <1>0, <1>3 DEF YieldClaim, YieldUnassign, Goto, Claims, Holds, Linked, Yielding, Won,
                      ClaimTypeOK
<1>4. CASE ReleaseMarker(w) \/ ReleaseAssignee(w)
    BY <1>0, <1>4 DEF ReleaseMarker, ReleaseAssignee, Goto, Claims, Holds, Linked, Releasing,
                      Publishing, Won, ClaimTypeOK, Posted
<1>5. CASE UNCHANGED <<pool, markers, assignees>> /\ wpc'[w] # "settling"
    <2>1. Holds(w, i)'
        BY <1>5 DEF Claims
    <2>2. Holds(w, i) \/ (wpc[w] = "settling" /\ job[w].issue = i)
        BY <2>1, StepHolds DEF VerifyClaim
    <2>3. Seen(w, i)
        BY <2>2 DEF Visible, Claims
    <2> QED BY <1>5, <2>3 DEF Seen, HasMarker, LoginOf
<1>6. \/ AssignIssue(w) \/ AddMarker(w) \/ YieldClaim(w) \/ YieldUnassign(w)
      \/ ReleaseMarker(w) \/ ReleaseAssignee(w)
      \/ UNCHANGED <<pool, markers, assignees>> /\ wpc'[w] # "settling"
    BY ZenonT(40) DEF WorkerStep, Goto, ClaimTypeOK, github, SelectIssue, DetectConflict,
           VerifyClaim, YieldRead, ClearFinished, ClearConflict, StartAttempt, PublishResult,
           RecordHandoff, NotifyHandoff, EscalateToHuman, ReleaseLabel, HandOff, ReleaseRead, FinalizeAttempt, LabelConflict, Crash, Restart
<1> QED BY <1>1, <1>2, <1>3, <1>4, <1>5, <1>6

-----------------------------------------------------------------------------
(* The invariant.                                                          *)

\* A worker that moves keeps the whole invariant: the others stay linked and
\* visible, and if it wins the issue, it saw none of them on it.
LEMMA WorkerKeepsInv ==
    ASSUME ClaimInv, NEW w \in Workers, WorkerStep(w) \/ Crash(w) \/ Restart(w)
    PROVE  (JobLinked /\ Visible /\ OneWorkerPerIssue)'
<1> USE DEF ClaimInv
<1>1. OthersKept(w) /\ pool' = pool /\ PostsKept /\ OthersSeen(w)
    BY StepMovesOne, StepKeepsPosts, StepKeepsTraces
<1>2. ASSUME NEW v \in Workers, v # w PROVE Linked(v)'
    <2>1. Linked(v) /\ wpc'[v] = wpc[v] /\ job'[v] = job[v] /\ ckpt'[v] = ckpt[v]
        BY <1>1, <1>2 DEF OthersKept, JobLinked
    <2>2. CASE wpc[v] \in (Publishing \ {"working"}) \union Releasing
        <3>1. PICK i \in Issues, n \in Nat : i = ckpt[v].issue /\ n = ckpt[v].attempt
            BY <2>1, <2>2 DEF Linked, Checkpoint
        <3>2. Posted(i, n)'
            BY <1>1, <2>1, <2>2, <3>1 DEF PostsKept, Linked
        <3>3. Posted(ckpt[v].issue, ckpt[v].attempt)'
            BY <2>1, <3>1, <3>2 DEF Posted
        <3> QED BY <1>1, <2>1, <2>2, <3>3 DEF Linked, HasMarker
    <2>3. CASE wpc[v] \notin (Publishing \ {"working"}) \union Releasing
        BY <1>1, <2>1, <2>3 DEF Linked, HasMarker
    <2> QED BY <2>2, <2>3
<1>3. JobLinked'
    BY <1>2, StepLinks DEF JobLinked
<1>4. ASSUME NEW v \in Workers, v # w, NEW i \in Issues, Holds(v, i)' PROVE Holds(v, i)
    <2>1. wpc'[v] = wpc[v] /\ job'[v] = job[v] /\ ckpt'[v] = ckpt[v]
        BY <1>1, <1>4 DEF OthersKept
    <2>2. CASE wpc[v] \in Won /\ job[v].issue = i
        BY <2>2 DEF Holds
    <2>3. CASE ~(wpc[v] \in Won /\ job[v].issue = i)
        <3>1. ckpt[v] # None /\ ckpt[v].issue = i
            BY <1>4, <2>1, <2>3 DEF Holds
        <3>2. PICK n \in Nat : n = ckpt[v].attempt
            BY <3>1 DEF ClaimTypeOK, Checkpoint
        <3>3. ~Posted(i, n)'
            BY <1>4, <2>1, <2>3, <3>2 DEF Holds, Posted
        <3>4. ~Posted(i, n)
            BY <1>1, <3>3 DEF PostsKept
        <3> QED BY <3>1, <3>2, <3>4 DEF Holds
    <2> QED BY <2>2, <2>3
<1>5. ASSUME NEW v \in Workers, NEW i \in Issues, Claims(v, i)' PROVE Seen(v, i)'
    <2>1. CASE v = w
        BY <1>5, <2>1, StepSeen
    <2>2. CASE v # w
        <3>1. Claims(v, i)
            BY <1>1, <1>4, <1>5, <2>2 DEF Claims, OthersKept
        <3> QED BY <1>1, <2>2, <3>1 DEF Visible, OthersSeen
    <2> QED BY <2>1, <2>2
<1>6. ASSUME NEW v \in Workers, v # w, NEW i \in Issues, Holds(v, i)', Holds(w, i)' PROVE FALSE
    <2>1. Holds(v, i)
        BY <1>4, <1>6
    <2>2. CASE Holds(w, i)
        BY <1>6, <2>1, <2>2 DEF OneWorkerPerIssue
    <2>3. CASE job[w].issue = i /\ ~Contested(w, i)
        <3>1. Seen(v, i)
            BY <2>1 DEF Visible, Claims
        <3> QED BY <1>6, <2>3, <3>1, ClaimNoneAssumption
                DEF Seen, Contested, HasMarker, LoginOf, ClaimTypeOK
    <2> QED BY <1>6, <2>2, <2>3, StepHolds
<1>7. ASSUME NEW i \in Issues, NEW u \in Workers, NEW v \in Workers,
             Holds(u, i)', Holds(v, i)', u # v
      PROVE  FALSE
    <2>1. CASE u = w
        BY <1>6, <1>7, <2>1
    <2>2. CASE v = w
        BY <1>6, <1>7, <2>2
    <2>3. CASE u # w /\ v # w
        BY <1>4, <1>7, <2>3 DEF OneWorkerPerIssue
    <2> QED BY <2>1, <2>2, <2>3
<1>8. Visible'
    BY <1>5 DEF Visible
<1>9. OneWorkerPerIssue'
    BY <1>7 DEF OneWorkerPerIssue
<1> QED BY <1>3, <1>8, <1>9

\* A person changes labels and the person's own assignment only.
LEMMA PersonKeepsInv ==
    ASSUME ClaimInv, NEW i \in Issues, PersonActs(i)
    PROVE  (JobLinked /\ Visible /\ OneWorkerPerIssue)'
<1> USE DEF ClaimInv
<1>1. UNCHANGED <<pool, markers, comments, wpc, job, ckpt>>
    BY DEF PersonActs
<1>2. JobLinked'
    BY <1>1 DEF JobLinked, Linked, Posted, HasMarker
<1>3. ASSUME NEW w \in Workers, NEW j \in Issues PROVE Seen(w, j) => Seen(w, j)'
    <2>1. CASE pool = "shared"
        BY <1>1, <2>1 DEF Seen, HasMarker
    <2>2. CASE pool # "shared"
        <3>1. w # "human"
            BY ClaimNoneAssumption
        <3>2. w \in assignees[j] => w \in assignees'[j]
            <4> DEFINE Lists == {assignees[i] \union {"human"}, assignees[i] \ {"human"}}
            <4>1. \A taken \in Lists : w \in assignees[i] => w \in taken
                BY <3>1
            <4> HIDE DEF Lists
            <4>2. \/ assignees' = assignees
                  \/ \E taken \in Lists :
                        taken # assignees[i] /\ assignees' = [assignees EXCEPT ![i] = taken]
                BY SMT DEF PersonActs, Lists
            <4> QED BY <4>1, <4>2 DEF ClaimTypeOK
        <3> QED BY <1>1, <2>2, <3>2 DEF Seen, HasMarker, LoginOf
    <2> QED BY <2>1, <2>2
<1>4. \A w \in Workers, j \in Issues : Holds(w, j)' <=> Holds(w, j)
    BY <1>1 DEF Holds, Posted
<1>5. Visible'
    BY <1>1, <1>3, <1>4 DEF Visible, Claims
<1>6. OneWorkerPerIssue'
    BY <1>4 DEF OneWorkerPerIssue
<1> QED BY <1>2, <1>5, <1>6

\* ClaimInv is inductive: it holds at the start and every step keeps it.
THEOREM ClaimInvariant == ClaimSpec => []ClaimInv
<1>1. ClaimInit => ClaimInv
    <2> SUFFICES ASSUME ClaimInit PROVE ClaimInv
        OBVIOUS
    <2>1. ClaimTypeOK
        <3>1. NoJob \in Job
            BY JobTypes
        <3>2. {Ready} \in SUBSET QueueLabels
            BY DEF QueueLabels
        <3>3. comments \in [Issues -> Seq(Comment)]
            BY DEF ClaimInit
        <3>4. attempts \in 0..MaxAttempts /\ crashes \in 0..MaxCrashes /\ acts \in 0..MaxHuman
            BY BoundAssumption DEF ClaimInit
        <3>5. stalled \in BOOLEAN
            BY DEF ClaimInit
        <3>6. labels \in [Issues -> SUBSET QueueLabels] /\ job \in [Workers -> Job]
            BY <3>1, <3>2 DEF ClaimInit
        <3> QED BY <3>3, <3>4, <3>5, <3>6 DEF ClaimInit, ClaimTypeOK, Steps
    <2>2. JobLinked
        BY DEF ClaimInit, JobLinked, Linked, Publishing, Claiming, Yielding, Won, Releasing
    <2>3. \A w \in Workers, i \in Issues : ~Claims(w, i)
        BY DEF ClaimInit, Claims, Holds, Won
    <2> QED BY <2>1, <2>2, <2>3 DEF ClaimInv, Visible, OneWorkerPerIssue, Claims
<1>2. ClaimInv /\ [ClaimNext]_claimVars => ClaimInv'
    <2> SUFFICES ASSUME ClaimInv, [ClaimNext]_claimVars PROVE ClaimInv'
        OBVIOUS
    <2>1. ClaimTypeOK'
        BY TypesStep DEF ClaimInv
    <2>2. CASE UNCHANGED claimVars
        BY <2>1, <2>2 DEF claimVars, ClaimInv, JobLinked, Linked, Visible, OneWorkerPerIssue,
                          Claims, Holds, Posted, Seen, HasMarker, LoginOf
    <2>3. ASSUME NEW w \in Workers, WorkerStep(w) \/ Crash(w) \/ Restart(w) PROVE ClaimInv'
        BY <2>1, <2>3, WorkerKeepsInv DEF ClaimInv
    <2>4. ASSUME NEW i \in Issues, PersonActs(i) PROVE ClaimInv'
        BY <2>1, <2>4, PersonKeepsInv DEF ClaimInv
    <2> QED BY <2>2, <2>3, <2>4 DEF ClaimNext
<1> QED BY <1>1, <1>2, PTL DEF ClaimSpec

\* The GitHub fields, the workers' local state and the checkpoints keep their
\* types (ClaimTypeOK).
THEOREM ClaimTypeCorrect == ClaimSpec => []ClaimTypeOK
<1>1. ClaimInv => ClaimTypeOK
    BY DEF ClaimInv
<1> QED BY <1>1, ClaimInvariant, PTL

\* claim_next and _verify_claim: no two workers work on one issue, for any
\* number of workers, however slow they are and wherever they crash.
THEOREM OneWorkerPerIssueHolds == ClaimSpec => []OneWorkerPerIssue
<1>1. ClaimInv => OneWorkerPerIssue
    BY DEF ClaimInv
<1> QED BY <1>1, ClaimInvariant, PTL

-----------------------------------------------------------------------------
(* Nothing is left behind.                                                 *)

\* Where the local variables point when nothing is claimed, and that a worker
\* which has withdrawn its marker has none on the issue.
Homed(w) ==
    /\ wpc[w] \in {"idle", "down", "fatal"} => job[w].issue = None
    /\ wpc[w] = "idle" => ckpt[w] = None
    /\ ckpt[w] # None => job[w].issue \in {None, ckpt[w].issue}
    /\ wpc[w] \in {"yielded", "unassign"} => HasMarker /\ w \notin markers[job[w].issue]
    /\ wpc[w] \in {"unmarked", "dropping", "released"} => w \notin markers[ckpt[w].issue]

AllHomed == \A w \in Workers : Homed(w)

\* A worker that is still to look at the issue before it leaves it.  A worker
\* that has made its last read is engaged until its checkpoint goes, but can no
\* longer answer for what is left on the issue.
Answers(w, i) ==
    \/ <<w, i>> \in abandoned
    \/ /\ wpc[w] \notin {"detected", "released"}
       /\ job[w].issue = i \/ (ckpt[w] # None /\ ckpt[w].issue = i)

MarkersAnswered == \A i \in Issues : \A w \in markers[i] : HasMarker /\ Answers(w, i)

LoginsAnswered ==
    \A i \in Issues : \A l \in assignees[i] \ {"human"} :
        \E w \in Workers : LoginOf(w) = l /\ Answers(w, i)

TraceInv == AllHomed /\ MarkersAnswered /\ LoginsAnswered

\* The steps with which w leaves the issue, and what they leave on it: the own
\* login is gone, or another worker's marker is there.
Leaves(w, i) ==
    /\ markers' = markers /\ pool' = pool
    /\ HasMarker => w \notin markers[i]
    /\ \/ LoginOf(w) \notin assignees'[i]
       \/ assignees' = assignees /\ HasMarker /\ markers[i] # {}

\* Only w adds the marker of w.
LEMMA MarkersByOwner ==
    ASSUME ClaimTypeOK, JobLinked, NEW w \in Workers, WorkerStep(w) \/ Crash(w) \/ Restart(w),
           NEW i \in Issues, NEW v \in markers'[i], v \notin markers[i]
    PROVE  v = w /\ AddMarker(w) /\ job[w].issue = i
<1>1. CASE AddMarker(w)
    BY <1>1 DEF AddMarker, ClaimTypeOK
<1>2. CASE \A j \in Issues : markers'[j] \subseteq markers[j]
    BY <1>2
<1>3. CASE YieldClaim(w)
    BY <1>2, <1>3 DEF YieldClaim, ClaimTypeOK
<1>4. CASE ReleaseMarker(w)
    BY <1>2, <1>4 DEF ReleaseMarker, ClaimTypeOK
<1>5. \/ AddMarker(w) \/ YieldClaim(w) \/ ReleaseMarker(w) \/ markers' = markers
    BY DEF WorkerStep, AssignIssue, VerifyClaim, YieldRead, YieldUnassign, ClearFinished,
           ClearConflict, StartAttempt, PublishResult, RecordHandoff, NotifyHandoff,
           EscalateToHuman, ReleaseLabel, HandOff, ReleaseRead, ReleaseAssignee,
           FinalizeAttempt, LabelConflict, Crash, Restart, SelectIssue, DetectConflict, github
<1> QED BY <1>1, <1>2, <1>3, <1>4, <1>5

\* Only w adds its login, when it assigns the issue.
LEMMA LoginsByOwner ==
    ASSUME ClaimTypeOK, JobLinked, NEW w \in Workers, WorkerStep(w) \/ Crash(w) \/ Restart(w),
           NEW i \in Issues, NEW l \in assignees'[i], l \notin assignees[i]
    PROVE  l = LoginOf(w) /\ AssignIssue(w) /\ job[w].issue = i
<1>1. CASE AssignIssue(w)
    BY <1>1 DEF AssignIssue, ClaimTypeOK
<1>2. CASE \A j \in Issues : assignees'[j] \subseteq assignees[j]
    BY <1>2
<1>3. CASE YieldClaim(w)
    BY <1>2, <1>3 DEF YieldClaim, ClaimTypeOK
<1>4. CASE YieldUnassign(w) \/ ReleaseAssignee(w)
    BY <1>2, <1>4 DEF YieldUnassign, ReleaseAssignee, ClaimTypeOK
<1>5. \/ AssignIssue(w) \/ YieldClaim(w) \/ YieldUnassign(w) \/ ReleaseAssignee(w)
      \/ assignees' = assignees
    BY DEF WorkerStep, AddMarker, VerifyClaim, YieldRead, ClearFinished,
           ClearConflict, StartAttempt, PublishResult, RecordHandoff, NotifyHandoff,
           EscalateToHuman, ReleaseLabel, HandOff, ReleaseRead, ReleaseMarker,
           FinalizeAttempt, LabelConflict, Crash, Restart, SelectIssue, DetectConflict, github
<1> QED BY <1>1, <1>2, <1>3, <1>4, <1>5

\* The worker that moves stays homed.
LEMMA StepHomes ==
    ASSUME ClaimTypeOK, JobLinked, AllHomed, NEW w \in Workers,
           WorkerStep(w) \/ Crash(w) \/ Restart(w)
    PROVE  Homed(w)'
<1> USE ClaimNoneAssumption
<1> USE DEF Homed, ClaimTypeOK, Publishing, Claiming, Yielding, Won, Releasing, Goto, HasMarker,
            github
<1>0. Linked(w) /\ Homed(w) /\ job[w] \in Job
    BY DEF JobLinked, AllHomed
<1>1. CASE AssignIssue(w)
    BY <1>0, <1>1 DEF Linked, AssignIssue
<1>2. CASE AddMarker(w)
    BY <1>0, <1>2 DEF Linked, AddMarker
<1>3. CASE VerifyClaim(w)
    <2>1. job'[w].issue = job[w].issue
        BY <1>0, <1>3, VerifyKeepsIssue
    <2> QED BY <1>0, <1>3, <2>1 DEF Linked, VerifyClaim
<1>4. CASE YieldClaim(w)
    <2>1. CASE pool = "shared"
        BY <1>0, <1>4, <2>1 DEF Linked, YieldClaim
    <2>2. CASE pool # "shared"
        BY <1>0, <1>4, <2>2 DEF Linked, YieldClaim, NoJob
    <2> QED BY <2>1, <2>2
<1>5. CASE YieldRead(w)
    BY <1>0, <1>5 DEF Linked, YieldRead, NoJob
<1>6. CASE YieldUnassign(w)
    BY <1>0, <1>6 DEF Linked, YieldUnassign, NoJob
<1>7. CASE ClearFinished(w) \/ ClearConflict(w)
    <2>1. job'[w].issue = job[w].issue
        BY <1>0, <1>7 DEF ClearFinished, ClearConflict, Job
    <2> QED BY <1>0, <1>7, <2>1 DEF Linked, ClearFinished, ClearConflict
<1>8. CASE StartAttempt(w)
    BY <1>0, <1>8 DEF Linked, StartAttempt, NoJob
<1>9. CASE Publishes(w)
    <2>1. ckpt[w] \in Checkpoint /\ ckpt[w] # None /\ ckpt'[w].issue = ckpt[w].issue
        BY <1>9, PublishTells, PublishKeepsCheckpoint
    <2>2. job'[w].issue = job[w].issue
        <3>1. CASE PublishResult(w)
            <4>1. PICK r, s : job' = [job EXCEPT ![w].result = r, ![w].recovered = FALSE,
                                               ![w].standing = s]
                BY <3>1, Zenon DEF PublishResult
            <4> QED BY <1>0, <4>1 DEF Job
        <3>2. CASE RecordHandoff(w)
            <4>1. job' = [job EXCEPT ![w].result = "handoff", ![w].recovered = FALSE,
                                     ![w].standing = 0]
                BY <3>2 DEF RecordHandoff
            <4> QED BY <1>0, <4>1 DEF Job
        <3>3. CASE NotifyHandoff(w)
            BY <3>3 DEF NotifyHandoff
        <3> QED BY <1>9, <3>1, <3>2, <3>3 DEF Publishes
    <2>3. wpc'[w] \in Publishing \union {"posted"}
        BY <1>9 DEF Publishes, PublishResult, RecordHandoff, NotifyHandoff
    <2> QED BY <1>0, <2>1, <2>2, <2>3
<1>10. CASE EscalateToHuman(w) \/ ReleaseLabel(w) \/ HandOff(w)
    <2>1. job'[w].issue = job[w].issue
        BY <1>0, <1>10 DEF EscalateToHuman, ReleaseLabel, HandOff, Job
    <2> QED BY <1>0, <1>10, <2>1 DEF EscalateToHuman, ReleaseLabel, HandOff
<1>11. CASE ReleaseMarker(w)
    BY <1>0, <1>11 DEF Linked, ReleaseMarker, Checkpoint
<1>12. CASE ReleaseRead(w) \/ ReleaseAssignee(w)
    BY <1>0, <1>12 DEF Linked, ReleaseRead, ReleaseAssignee
<1>13. CASE FinalizeAttempt(w)
    BY <1>0, <1>13 DEF FinalizeAttempt, NoJob
<1>14. CASE LabelConflict(w)
    BY <1>0, <1>14 DEF Linked, LabelConflict, NoJob
<1>15. CASE Crash(w)
    BY <1>0, <1>15 DEF Crash, NoJob
<1>16. CASE Restart(w)
    <2>1. CASE ckpt[w] = None
        BY <1>0, <1>16, <2>1 DEF Restart
    <2>2. CASE ckpt[w] # None /\ RecoverClaim(w, ckpt[w].issue)
        <3>1. wpc'[w] = "working" /\ markers' = markers /\ ckpt' = ckpt /\ pool' = pool
            BY <1>16, <2>2 DEF Restart
        <3>2. job'[w].issue = ckpt[w].issue
            <4>1. job' = [job EXCEPT ![w] = [NoJob EXCEPT !.issue = ckpt[w].issue,
                                                         !.recovered = TRUE]]
                BY <1>16, <2>2 DEF Restart
            <4>2. [NoJob EXCEPT !.issue = ckpt[w].issue, !.recovered = TRUE].issue = ckpt[w].issue
                BY DEF NoJob
            <4> QED BY <4>1, <4>2
        <3> QED BY <3>1, <3>2
    <2>3. CASE ckpt[w] # None /\ ~RecoverClaim(w, ckpt[w].issue)
        BY <1>0, <1>16, <2>3 DEF Restart
    <2> QED BY <2>1, <2>2, <2>3
<1>17. ASSUME NEW i \in Issues, SelectIssue(w, i) PROVE Homed(w)'
    BY <1>0, <1>17 DEF SelectIssue
<1>18. ASSUME NEW i \in Issues, DetectConflict(w, i) PROVE Homed(w)'
    BY <1>0, <1>18 DEF DetectConflict
<1> QED BY <1>1, <1>2, <1>3, <1>4, <1>5, <1>6, <1>7, <1>8, <1>9, <1>10, <1>11, <1>12, <1>13,
           <1>14, <1>15, <1>16, <1>17, <1>18 DEF WorkerStep, Publishes

\* A worker that answers for an issue still does after its step, unless the step
\* is the one it leaves with.
LEMMA AnswersKept ==
    ASSUME ClaimTypeOK, JobLinked, AllHomed, MarkersAnswered, NEW w \in Workers,
           WorkerStep(w) \/ Crash(w) \/ Restart(w), NEW i \in Issues, Answers(w, i)
    PROVE  Answers(w, i)' \/ Leaves(w, i)
<1> USE ClaimNoneAssumption
<1> USE DEF Answers, Homed, ClaimTypeOK, Publishing, Claiming, Yielding, Won, Releasing, Goto
<1>0. Linked(w) /\ Homed(w) /\ job[w] \in Job
    BY DEF JobLinked, AllHomed
<1>1. CASE <<w, i>> \in abandoned
    <2>1. abandoned \subseteq abandoned'
        BY DEF WorkerStep, AssignIssue, AddMarker, VerifyClaim, YieldClaim, YieldRead,
           YieldUnassign, ClearFinished, ClearConflict, StartAttempt, PublishResult,
           RecordHandoff, NotifyHandoff, EscalateToHuman, ReleaseLabel, HandOff, ReleaseMarker,
           ReleaseRead, ReleaseAssignee, FinalizeAttempt, LabelConflict, Crash, Restart,
           SelectIssue, DetectConflict
    <2> QED BY <1>1, <2>1
<1> SUFFICES ASSUME <<w, i>> \notin abandoned PROVE Answers(w, i)' \/ Leaves(w, i)
    BY <1>1
<1>2. CASE AssignIssue(w) \/ AddMarker(w)
    BY <1>0, <1>2 DEF Linked, AssignIssue, AddMarker
<1>3. CASE VerifyClaim(w)
    <2>1. job'[w].issue = job[w].issue
        BY <1>0, <1>3, VerifyKeepsIssue
    <2> QED BY <1>0, <1>3, <2>1 DEF Linked, VerifyClaim
<1>4. CASE YieldClaim(w)
    <2>0. job[w].issue = i /\ ckpt[w] = None
        BY <1>0, <1>4 DEF Linked, YieldClaim
    <2>1. CASE HasMarker
        BY <1>4, <2>0, <2>1 DEF YieldClaim
    <2>2. CASE ~HasMarker
        BY <1>4, <2>0, <2>2 DEF YieldClaim, Leaves
    <2> QED BY <2>1, <2>2
<1>5. CASE YieldRead(w)
    <2>0. job[w].issue = i /\ ckpt[w] = None /\ w \notin markers[i]
        BY <1>0, <1>5 DEF Linked, YieldRead
    <2>1. CASE MayUnassign(w, i)
        BY <1>5, <2>0, <2>1 DEF YieldRead
    <2>2. CASE ~MayUnassign(w, i)
        BY <1>5, <2>0, <2>2 DEF YieldRead, Leaves, MayUnassign, github
    <2> QED BY <2>1, <2>2
<1>6. CASE YieldUnassign(w)
    <2>0. job[w].issue = i /\ ckpt[w] = None /\ w \notin markers[i]
        BY <1>0, <1>6 DEF Linked, YieldUnassign
    <2> QED BY <1>6, <2>0 DEF YieldUnassign, Leaves
<1>7. CASE ClearFinished(w) \/ ClearConflict(w)
    <2>1. job'[w].issue = job[w].issue
        BY <1>0, <1>7 DEF ClearFinished, ClearConflict, Job
    <2> QED BY <1>0, <1>7, <2>1 DEF Linked, ClearFinished, ClearConflict
<1>8. CASE StartAttempt(w)
    BY <1>0, <1>8 DEF Linked, StartAttempt, NoJob
<1>9. CASE Publishes(w)
    <2>1. ckpt[w] \in Checkpoint /\ ckpt'[w] \in Checkpoint /\ ckpt'[w].issue = ckpt[w].issue
        BY <1>9, PublishTells, PublishKeepsCheckpoint
    <2>2. ckpt[w].issue = i
        BY <1>0, <2>1 DEF Checkpoint
    <2>3. wpc'[w] \in Publishing \union {"posted"}
        BY <1>9 DEF Publishes, PublishResult, RecordHandoff, NotifyHandoff
    <2> QED BY <2>1, <2>2, <2>3
<1>10. CASE EscalateToHuman(w) \/ ReleaseLabel(w) \/ HandOff(w) \/ ReleaseMarker(w)
    <2>1. job'[w].issue = job[w].issue
        BY <1>0, <1>10 DEF EscalateToHuman, ReleaseLabel, HandOff, ReleaseMarker, Job
    <2> QED BY <1>0, <1>10, <2>1 DEF EscalateToHuman, ReleaseLabel, HandOff, ReleaseMarker
<1>11. CASE ReleaseRead(w)
    <2>0. ckpt[w].issue = i /\ ckpt[w] # None /\ w \notin markers[i]
        BY <1>0, <1>11 DEF Linked, ReleaseRead, Checkpoint
    <2>1. CASE MayUnassign(w, i)
        BY <1>11, <2>0, <2>1 DEF ReleaseRead
    <2>2. CASE ~MayUnassign(w, i)
        BY <1>11, <2>0, <2>2 DEF ReleaseRead, Leaves, MayUnassign, github
    <2> QED BY <2>1, <2>2
<1>12. CASE ReleaseAssignee(w)
    <2>0. ckpt[w].issue = i /\ ckpt[w] # None /\ w \notin markers[i]
        BY <1>0, <1>12 DEF Linked, ReleaseAssignee, Checkpoint
    <2> QED BY <1>12, <2>0 DEF ReleaseAssignee, Leaves
<1>13. CASE FinalizeAttempt(w) \/ LabelConflict(w)
    BY <1>0, <1>13 DEF Linked, FinalizeAttempt, LabelConflict
<1>14. CASE Crash(w)
    BY <1>0, <1>14 DEF Crash
<1>15. CASE Restart(w)
    <2>1. ckpt[w] # None /\ ckpt[w].issue = i /\ ckpt' = ckpt
        BY <1>0, <1>15 DEF Restart
    <2>2. wpc'[w] \in {"working", "fatal"}
        BY <1>15, <2>1 DEF Restart
    <2> QED BY <2>1, <2>2
<1>16. ASSUME NEW j \in Issues, SelectIssue(w, j) \/ DetectConflict(w, j) PROVE FALSE
    BY <1>0, <1>16 DEF SelectIssue, DetectConflict
<1> QED BY <1>2, <1>3, <1>4, <1>5, <1>6, <1>7, <1>8, <1>9, <1>10, <1>11, <1>12, <1>13,
           <1>14, <1>15, <1>16 DEF WorkerStep, Publishes

\* A worker that starts to leave a trace answers for it.
LEMMA TraceAnswered ==
    ASSUME ClaimTypeOK, JobLinked, NEW w \in Workers, AddMarker(w) \/ AssignIssue(w),
           NEW i \in Issues, job[w].issue = i
    PROVE  Answers(w, i)' /\ (AddMarker(w) => HasMarker')
<1>1. wpc'[w] \in {"assigned", "settling"} /\ job' = job /\ pool' = pool
    BY DEF AddMarker, AssignIssue, Goto, ClaimTypeOK
<1>2. AddMarker(w) => HasMarker'
    BY <1>1 DEF AddMarker, JobLinked, Linked, HasMarker
<1> QED BY <1>1, <1>2 DEF Answers

\* The other workers go on answering for their issues.
LEMMA OthersAnswer ==
    ASSUME ClaimTypeOK, NEW w \in Workers, WorkerStep(w) \/ Crash(w) \/ Restart(w),
           NEW v \in Workers, v # w, NEW i \in Issues, Answers(v, i)
    PROVE  Answers(v, i)'
<1>1. wpc'[v] = wpc[v] /\ job'[v] = job[v] /\ ckpt'[v] = ckpt[v]
    BY StepMovesOne DEF OthersKept
<1>2. abandoned \subseteq abandoned'
    BY DEF WorkerStep, AssignIssue, AddMarker, VerifyClaim, YieldClaim, YieldRead,
       YieldUnassign, ClearFinished, ClearConflict, StartAttempt, PublishResult,
       RecordHandoff, NotifyHandoff, EscalateToHuman, ReleaseLabel, HandOff, ReleaseMarker,
       ReleaseRead, ReleaseAssignee, FinalizeAttempt, LabelConflict, Crash, Restart,
       SelectIssue, DetectConflict
<1> QED BY <1>1, <1>2 DEF Answers

\* The last one out: what is on the issue after a step has somebody who answers
\* for it.
LEMMA WorkerKeepsTraces ==
    ASSUME ClaimTypeOK, JobLinked, TraceInv, NEW w \in Workers,
           WorkerStep(w) \/ Crash(w) \/ Restart(w)
    PROVE  TraceInv'
<1> USE DEF TraceInv
<1>1. OthersKept(w) /\ pool' = pool
    BY StepMovesOne
<1>2. ASSUME NEW v \in Workers PROVE Homed(v)'
    <2>1. CASE v = w
        BY <2>1, StepHomes
    <2>2. CASE v # w
        <3>1. wpc'[v] = wpc[v] /\ job'[v] = job[v] /\ ckpt'[v] = ckpt[v] /\ Homed(v) /\ Linked(v)
            BY <1>1, <2>2 DEF OthersKept, AllHomed, JobLinked
        <3>2. \A i \in Issues : v \in markers'[i] => v \in markers[i]
            BY <2>2, MarkersByOwner
        <3>3. wpc[v] \in {"yielded", "unassign"} => job[v].issue \in Issues
            BY <3>1 DEF Linked, Yielding
        <3>4. wpc[v] \in {"unmarked", "dropping", "released"} => ckpt[v].issue \in Issues
            BY <3>1 DEF Linked, Releasing, Checkpoint
        <3> QED BY <1>1, <3>1, <3>2, <3>3, <3>4 DEF Homed, HasMarker
    <2> QED BY <2>1, <2>2
<1>3. ASSUME NEW i \in Issues, NEW v \in markers'[i] PROVE HasMarker' /\ Answers(v, i)'
    <2>1. CASE v \notin markers[i]
        BY <1>3, <2>1, MarkersByOwner, TraceAnswered
    <2>2. CASE v \in markers[i]
        <3>1. v \in Workers /\ HasMarker /\ Answers(v, i)
            BY <2>2 DEF MarkersAnswered, ClaimTypeOK
        <3>2. CASE v # w
            BY <1>1, <3>1, <3>2, OthersAnswer DEF HasMarker
        <3>3. CASE v = w
            <4>1. ~Leaves(w, i)
                BY <2>2, <3>1, <3>3 DEF Leaves
            <4> QED BY <1>1, <3>1, <3>3, <4>1, AnswersKept DEF HasMarker
        <3> QED BY <3>2, <3>3
    <2> QED BY <2>1, <2>2
<1>4. ASSUME NEW i \in Issues, NEW l \in assignees'[i] \ {"human"}
      PROVE  \E v \in Workers : LoginOf(v)' = l /\ Answers(v, i)'
    <2>0. \A v \in Workers : LoginOf(v)' = LoginOf(v)
        BY <1>1 DEF LoginOf
    <2>1. CASE l \notin assignees[i]
        BY <1>4, <2>0, <2>1, LoginsByOwner, TraceAnswered
    <2>2. CASE l \in assignees[i]
        <3>1. PICK v \in Workers : LoginOf(v) = l /\ Answers(v, i)
            BY <1>4, <2>2 DEF LoginsAnswered
        <3>2. CASE v # w
            BY <2>0, <3>1, <3>2, OthersAnswer
        <3>3. CASE v = w /\ Answers(w, i)'
            BY <2>0, <3>1, <3>3
        <3>4. CASE v = w /\ Leaves(w, i)
            <4>1. HasMarker /\ markers[i] # {} /\ w \notin markers[i]
                BY <1>4, <3>1, <3>4 DEF Leaves
            <4>2. PICK u \in markers[i] : TRUE
                BY <4>1
            <4>3. u \in Workers /\ u # w /\ Answers(u, i)
                BY <4>1, <4>2 DEF MarkersAnswered, ClaimTypeOK
            <4>4. LoginOf(u) = l
                BY <3>1, <3>4, <4>1 DEF LoginOf, HasMarker
            <4> QED BY <2>0, <4>3, <4>4, OthersAnswer
        <3> QED BY <3>1, <3>2, <3>3, <3>4, AnswersKept
    <2> QED BY <2>1, <2>2
<1>5. AllHomed'
    BY <1>2 DEF AllHomed
<1>6. MarkersAnswered'
    BY <1>3 DEF MarkersAnswered
<1>7. LoginsAnswered'
    BY <1>4 DEF LoginsAnswered
<1> QED BY <1>5, <1>6, <1>7

\* A person adds and removes the person's own assignment.
LEMMA PersonKeepsTraces ==
    ASSUME ClaimTypeOK, TraceInv, NEW i \in Issues, PersonActs(i)
    PROVE  TraceInv'
<1> USE DEF TraceInv
<1>1. UNCHANGED <<pool, markers, wpc, job, ckpt, abandoned>>
    BY DEF PersonActs
<1>2. \A j \in Issues : assignees'[j] \ {"human"} = assignees[j] \ {"human"}
    BY DEF PersonActs, ClaimTypeOK
<1>3. \A w \in Workers, j \in Issues : Answers(w, j)' <=> Answers(w, j)
    BY <1>1 DEF Answers
<1>4. AllHomed'
    BY <1>1 DEF AllHomed, Homed, HasMarker
<1>5. MarkersAnswered'
    BY <1>1, <1>3 DEF MarkersAnswered, HasMarker, ClaimTypeOK
<1>6. LoginsAnswered'
    <2>1. \A w \in Workers : LoginOf(w)' = LoginOf(w)
        BY <1>1 DEF LoginOf
    <2>2. ASSUME NEW j \in Issues, NEW l \in assignees'[j] \ {"human"}
          PROVE  \E w \in Workers : LoginOf(w)' = l /\ Answers(w, j)'
        <3>1. l \in assignees[j] \ {"human"}
            BY <1>2, <2>2
        <3>2. PICK w \in Workers : LoginOf(w) = l /\ Answers(w, j)
            BY <3>1 DEF LoginsAnswered
        <3> QED BY <1>3, <2>1, <3>2
    <2> QED BY <2>2 DEF LoginsAnswered
<1> QED BY <1>4, <1>5, <1>6

\* _yield_losing_claim, release_attempt and _release_own_marker: an assignment or
\* a marker of the agents on an issue always belongs to a worker that is still on
\* it or whose process died during the claim, for any number of workers.  The
\* property is not inductive: that a worker which has made its last read leaves
\* nothing needs that somebody else is still to look (TraceInv).
THEOREM NothingLeftBehindHolds == ClaimSpec => []NothingLeftBehind
<1>1. ClaimInit => TraceInv
    BY ClaimNoneAssumption DEF ClaimInit, TraceInv, AllHomed, Homed, MarkersAnswered,
                               LoginsAnswered, NoJob
<1>2. TraceInv /\ ClaimInv /\ [ClaimNext]_claimVars => TraceInv'
    <2> SUFFICES ASSUME TraceInv, ClaimInv, [ClaimNext]_claimVars PROVE TraceInv'
        OBVIOUS
    <2>1. CASE UNCHANGED claimVars
        <3>1. UNCHANGED <<pool, markers, assignees, wpc, job, ckpt, abandoned>>
            BY <2>1 DEF claimVars
        <3>2. AllHomed'
            BY <3>1 DEF TraceInv, AllHomed, Homed, HasMarker
        <3>3. MarkersAnswered'
            BY <3>1 DEF TraceInv, MarkersAnswered, Answers, HasMarker
        <3>4. LoginsAnswered'
            BY <3>1 DEF TraceInv, LoginsAnswered, Answers, LoginOf
        <3> QED BY <3>2, <3>3, <3>4 DEF TraceInv
    <2>2. ASSUME NEW w \in Workers, WorkerStep(w) \/ Crash(w) \/ Restart(w) PROVE TraceInv'
        BY <2>2, WorkerKeepsTraces DEF ClaimInv
    <2>3. ASSUME NEW i \in Issues, PersonActs(i) PROVE TraceInv'
        BY <2>3, PersonKeepsTraces DEF ClaimInv
    <2> QED BY <2>1, <2>2, <2>3 DEF ClaimNext
<1>3. TraceInv => NothingLeftBehind
    BY DEF TraceInv, MarkersAnswered, LoginsAnswered, NothingLeftBehind, Answers, Engaged
<1> QED BY <1>1, <1>2, <1>3, ClaimInvariant, PTL DEF ClaimSpec
=============================================================================
