------------------------- MODULE ClaimBudgetProofs -------------------------
(***************************************************************************)
(* Theorems about the two budgets of ClaimProtocol, for every set of       *)
(* workers and issues, both deployments, and every budget and bound.       *)
(*                                                                         *)
(* ConflictBudget needs only what a new comment does to the streak.        *)
(* ContinuationBudget needs two arguments.  The first is about a single    *)
(* history: the count that is read from the results and the shared record  *)
(* is never below the attempts that are really in a row (Sound), although  *)
(* results are repeated late and the record is overwritten.  The second is *)
(* about the workers: what a claimant read when it selected the issue is   *)
(* still true when it starts (Fresh), because nobody else has the issue    *)
(* meanwhile (Alone), unless a peer outlasted the settle delay.            *)
(***************************************************************************)
EXTENDS ClaimProofs

-----------------------------------------------------------------------------
(* Histories.                                                              *)

\* A new entry comes last and leaves the others where they are.
LEMMA EntryLast ==
    ASSUME NEW h \in Seq(Comment), NEW e \in Comment
    PROVE  /\ Len(h) \in Nat /\ Append(h, e) \in Seq(Comment)
           /\ Len(Append(h, e)) = Len(h) + 1
           /\ \A j \in 1..Len(h) : Append(h, e)[j] = h[j]
           /\ Append(h, e)[Len(h) + 1] = e
    OBVIOUS

\* The failures at the newest end of a history.
Streak(h) ==
    {j \in 1..Len(h) : /\ h[j].kind = "failure"
                       /\ \A k \in j..Len(h) : h[k].kind = "failure" \/ h[k].shared}

\* A new entry lengthens the streak by at most one, and only if it is a failure.
LEMMA StreakGrows ==
    ASSUME NEW h \in Seq(Comment), NEW e \in Comment
    PROVE  /\ FailureStreak(h) \in Nat /\ FailureStreak(Append(h, e)) \in Nat
           /\ FailureStreak(Append(h, e)) <= FailureStreak(h) + 1
           /\ e.kind # "failure" => FailureStreak(Append(h, e)) <= FailureStreak(h)
<1>1. /\ FailureStreak(h) = Cardinality(Streak(h))
      /\ FailureStreak(Append(h, e)) = Cardinality(Streak(Append(h, e)))
    BY DEF FailureStreak, Streak
<1>2. /\ Streak(Append(h, e)) \subseteq Streak(h) \union {Len(h) + 1}
      /\ e.kind # "failure" => Streak(Append(h, e)) \subseteq Streak(h)
    <2>1. ASSUME NEW j \in Streak(Append(h, e)), j # Len(h) + 1 PROVE j \in Streak(h)
        <3>1. j \in 1..Len(h) /\ Append(h, e)[j].kind = "failure"
            BY <2>1, EntryLast DEF Streak
        <3>2. ASSUME NEW k \in j..Len(h) PROVE h[k].kind = "failure" \/ h[k].shared
            <4>1. k \in 1..Len(h) /\ k \in j..Len(Append(h, e))
                BY <3>1, EntryLast
            <4>2. Append(h, e)[k].kind = "failure" \/ Append(h, e)[k].shared
                BY <4>1 DEF Streak
            <4> QED BY <4>1, <4>2, EntryLast
        <3> QED BY <3>1, <3>2, EntryLast DEF Streak
    <2>2. Len(h) + 1 \in Streak(Append(h, e)) => e.kind = "failure"
        BY EntryLast DEF Streak
    <2> QED BY <2>1, <2>2
<1>3. IsFiniteSet(Streak(h)) /\ IsFiniteSet(Streak(Append(h, e)))
    <2>1. IsFiniteSet(1..Len(h)) /\ IsFiniteSet(1..Len(Append(h, e)))
        BY EntryLast, FS_Interval
    <2>2. Streak(h) \in SUBSET (1..Len(h)) /\ Streak(Append(h, e)) \in SUBSET (1..Len(Append(h, e)))
        BY DEF Streak
    <2> QED BY <2>1, <2>2, FS_Subset
<1>4. /\ Cardinality(Streak(h)) \in Nat /\ Cardinality(Streak(Append(h, e))) \in Nat
      /\ IsFiniteSet(Streak(h) \union {Len(h) + 1})
      /\ Cardinality(Streak(h) \union {Len(h) + 1}) \in Nat
      /\ Cardinality(Streak(h) \union {Len(h) + 1}) <= Cardinality(Streak(h)) + 1
    <2>1. Cardinality(Streak(h)) \in Nat /\ Cardinality(Streak(Append(h, e))) \in Nat
        BY <1>3, FS_CardinalityType
    <2>2. /\ IsFiniteSet(Streak(h) \union {Len(h) + 1})
          /\ Cardinality(Streak(h) \union {Len(h) + 1}) =
                IF Len(h) + 1 \in Streak(h) THEN Cardinality(Streak(h))
                ELSE Cardinality(Streak(h)) + 1
        BY <1>3, FS_AddElement
    <2> QED BY <2>1, <2>2
<1>5. Cardinality(Streak(Append(h, e))) <= Cardinality(Streak(h) \union {Len(h) + 1})
    BY <1>2, <1>4, FS_Subset
<1>6. e.kind # "failure" => Cardinality(Streak(Append(h, e))) <= Cardinality(Streak(h))
    BY <1>2, <1>3, FS_Subset
<1> QED BY <1>1, <1>4, <1>5, <1>6

-----------------------------------------------------------------------------
(* The conflict budget.                                                    *)

\* Publication adds an entry only as its kind allows: a failure while the streak
\* is more than one below the budget, an ordinary result by its source, a result
\* at most once, and a record only over older ones.
Fits(w, e) ==
    LET c == ckpt[w]
        h == comments[c.issue]
    IN /\ e \in Comment /\ e.attempt = c.attempt
       /\ c.kind = "ordinary" => e.kind = c.source
       /\ c.kind # "ordinary" => ~e.shared /\ e.kind \notin {"human", "automatic"}
       /\ e.kind = "failure" => ~Escalates(c.issue)
       /\ ~e.shared => \A j \in 1..Len(h) : h[j].attempt = c.attempt => h[j].shared
       /\ e.shared => /\ SharedRecord(h).attempt < c.attempt
                      /\ e.standing = IF wpc[w] = "recording" THEN job[w].standing
                                      ELSE Standing(c)

\* What a write of a publication adds to the history of its issue.
AddsFitting(w, e) ==
    comments' = [comments EXCEPT ![ckpt[w].issue] = Append(comments[ckpt[w].issue], e)]

\* A write of a publication finds the attempt told or adds a fitting entry.
LEMMA PublishFits ==
    ASSUME ClaimTypeOK, JobLinked, NEW w \in Workers, Publishes(w)
    PROVE  \/ comments' = comments /\ Posted(ckpt[w].issue, ckpt[w].attempt)
           \/ \E e \in Comment : Fits(w, e) /\ AddsFitting(w, e)
<1> DEFINE c == ckpt[w]
           h == comments[c.issue]
<1>1. c \in Checkpoint /\ c # None /\ c.issue \in Issues /\ c.attempt \in Nat \ {0}
      /\ h \in Seq(Comment)
    BY PublishTells DEF Checkpoint, ClaimTypeOK
<1>2. c.kind = "ordinary" => c.source \in {"human", "automatic"}
    BY <1>1 DEF JobLinked, Linked, Checkpoint
<1>3. ASSUME NEW k \in Kinds, PostComment(c.issue, c.attempt, k),
             c.kind = "ordinary" => k = c.source,
             c.kind # "ordinary" => k \notin {"human", "automatic"},
             k = "failure" => ~Escalates(c.issue)
      PROVE  \/ comments' = comments /\ Posted(c.issue, c.attempt)
             \/ \E e \in Comment : Fits(w, e) /\ AddsFitting(w, e)
    <2>1. CASE \E j \in 1..Len(h) : h[j].attempt = c.attempt /\ ~h[j].shared
        BY <1>3, <2>1 DEF PostComment, Posted
    <2>2. CASE ~\E j \in 1..Len(h) : h[j].attempt = c.attempt /\ ~h[j].shared
        <3> DEFINE e == Entry(c.attempt, k, FALSE, 0)
        <3>1. /\ e \in Comment /\ e.attempt = c.attempt /\ e.kind = k /\ e.shared = FALSE
            BY <1>1, <1>3 DEF Entry, Comment
        <3>2. AddsFitting(w, e)
            BY <1>3, <2>2 DEF PostComment, AddsFitting
        <3> HIDE DEF e
        <3>3. Fits(w, e)
            BY <1>3, <2>2, <3>1 DEF Fits
        <3> QED BY <3>1, <3>2, <3>3
    <2> QED BY <2>1, <2>2
<1>4. CASE PublishResult(w)
    <2>1. PICK k \in ResultKinds(c, job[w].recovered) : PostComment(c.issue, c.attempt, k)
        BY <1>4 DEF PublishResult
    <2>2. /\ k \in Kinds
          /\ c.kind = "ordinary" => k = c.source
          /\ c.kind # "ordinary" => k \notin {"human", "automatic"}
          /\ k = "failure" => ~Escalates(c.issue)
        BY <1>1, <1>2, <2>1 DEF ResultKinds, Kinds
    <2> QED BY <1>3, <2>1, <2>2
<1>5. CASE RecordHandoff(w) \/ NotifyHandoff(w)
    <2>1. c.kind = "ordinary" /\ c.source \in {"human", "automatic"} /\ c.source \in Kinds
        BY <1>2, <1>5 DEF RecordHandoff, NotifyHandoff, JobLinked, Linked, Kinds
    <2>2. CASE PostComment(c.issue, c.attempt, c.source)
        BY <1>3, <2>1, <2>2
    <2>3. CASE NotifyHandoff(w)
        BY <2>2, <2>3 DEF NotifyHandoff
    <2>4. CASE RecordHandoff(w)
        <3> DEFINE s == IF wpc[w] = "recording" THEN job[w].standing ELSE Standing(c)
                   e == Entry(c.attempt, c.source, TRUE, s)
        <3>1. s \in Nat
            BY <1>1, StandingIsNatural DEF ClaimTypeOK, Job
        <3>2. /\ e \in Comment /\ e.attempt = c.attempt /\ e.kind = c.source
              /\ e.shared = TRUE /\ e.standing = s
            BY <1>1, <2>1, <3>1 DEF Entry, Comment
        <3>3. SharedRecord(h).attempt \in Nat
            BY <1>1, RecordShown
        <3>4. \/ PostComment(c.issue, c.attempt, c.source)
              \/ comments' = comments /\ SharedRecord(h).attempt = c.attempt
              \/ /\ ~(SharedRecord(h).attempt > c.attempt) /\ SharedRecord(h).attempt # c.attempt
                 /\ AddsFitting(w, e)
            <4>1. \/ PostComment(c.issue, c.attempt, c.source)
                  \/ /\ SharedRecord(h).attempt <= c.attempt
                     /\ comments' = IF SharedRecord(h).attempt = c.attempt THEN comments
                                    ELSE [comments EXCEPT ![c.issue] = Append(@, e)]
                BY <2>4, Zenon DEF RecordHandoff
            <4>2. c.attempt \in Nat
                BY <1>1 DEF Checkpoint
            <4> HIDE DEF e
            <4> QED BY <3>3, <4>1, <4>2 DEF AddsFitting
        <3>5. CASE comments' = comments /\ SharedRecord(h).attempt = c.attempt
            <4>1. \E j \in Versions(h) : h[j].attempt = c.attempt
                BY <1>1, <3>5, RecordShown
            <4> QED BY <3>5, <4>1 DEF Posted, Versions
        <3>6. CASE /\ ~(SharedRecord(h).attempt > c.attempt)
                   /\ SharedRecord(h).attempt # c.attempt
                   /\ AddsFitting(w, e)
            <4> HIDE DEF e
            <4>1. SharedRecord(h).attempt < c.attempt
                BY <1>1, <3>3, <3>6
            <4>2. Fits(w, e)
                BY <2>1, <3>2, <4>1 DEF Fits
            <4> QED BY <3>2, <3>6, <4>2
        <3> QED BY <2>2, <3>4, <3>5, <3>6
    <2> QED BY <1>5, <2>3, <2>4
<1> QED BY <1>4, <1>5 DEF Publishes

\* Nobody but a publication writes comments.
LEMMA OnlyPublicationsWrite ==
    ASSUME NEW w \in Workers, WorkerStep(w) \/ Crash(w) \/ Restart(w)
    PROVE  Publishes(w) \/ comments' = comments
    BY DEF Publishes, WorkerStep, AssignIssue, AddMarker, VerifyClaim, YieldClaim, YieldRead,
           YieldUnassign, ClearFinished, ClearConflict, StartAttempt, EscalateToHuman,
           ReleaseLabel, HandOff, ReleaseMarker, ReleaseRead, ReleaseAssignee, FinalizeAttempt,
           LabelConflict, Crash, Restart, SelectIssue, DetectConflict, github

\* _stamp_conflict_budget and count_conflict_failures: the streak of failed
\* conflict attempts stays below MAX_CONFLICT_ATTEMPTS, over all workers, crashes
\* and ordinary attempts in between.
THEOREM ConflictBudgetHolds == ClaimSpec => []ConflictBudget
<1>1. ClaimInit => ConflictBudget
    <2> SUFFICES ASSUME ClaimInit, MaxConflict > 0, NEW i \in Issues
                 PROVE  FailureStreak(comments[i]) < MaxConflict
        BY DEF ConflictBudget
    <2>1. FailureStreak(comments[i]) = 0
        <3>1. {j \in 1..Len(comments[i]) :
                  /\ comments[i][j].kind = "failure"
                  /\ \A k \in j..Len(comments[i]) :
                        comments[i][k].kind = "failure" \/ comments[i][k].shared} = {}
            BY DEF ClaimInit
        <3> QED BY <3>1, FS_EmptySet DEF FailureStreak
    <2> QED BY <2>1, BudgetAssumption
<1>2. ConflictBudget /\ ClaimInv /\ [ClaimNext]_claimVars => ConflictBudget'
    <2> SUFFICES ASSUME ConflictBudget, ClaimTypeOK, JobLinked, [ClaimNext]_claimVars,
                        MaxConflict > 0, NEW i \in Issues
                 PROVE  FailureStreak(comments'[i]) < MaxConflict
        BY DEF ConflictBudget, ClaimInv
    <2>1. CASE comments' = comments
        BY <2>1 DEF ConflictBudget
    <2>2. ASSUME NEW w \in Workers, Publishes(w)
          PROVE  FailureStreak(comments'[i]) < MaxConflict
        <3>1. CASE comments' = comments
            BY <2>1, <3>1
        <3>2. ASSUME NEW e \in Comment, Fits(w, e), AddsFitting(w, e)
              PROVE  FailureStreak(comments'[i]) < MaxConflict
            <4>1. CASE i # ckpt[w].issue
                <5>1. comments'[i] = comments[i]
                    BY <3>2, <4>1 DEF AddsFitting, ClaimTypeOK
                <5> QED BY <5>1 DEF ConflictBudget
            <4>2. CASE i = ckpt[w].issue
                <5>1. comments'[i] = Append(comments[i], e) /\ comments[i] \in Seq(Comment)
                    BY <3>2, <4>2 DEF AddsFitting, ClaimTypeOK
                <5>2. FailureStreak(comments[i]) < MaxConflict
                    BY DEF ConflictBudget
                <5>3. e.kind = "failure" => ~(FailureStreak(comments[i]) + 1 >= MaxConflict)
                    BY <3>2, <4>2 DEF Fits, Escalates
                <5>4. /\ FailureStreak(comments[i]) \in Nat
                      /\ FailureStreak(comments'[i]) \in Nat
                      /\ FailureStreak(comments'[i]) <= FailureStreak(comments[i]) + 1
                      /\ e.kind # "failure" =>
                            FailureStreak(comments'[i]) <= FailureStreak(comments[i])
                    BY <5>1, StreakGrows
                <5> QED BY <5>2, <5>3, <5>4, BudgetAssumption
            <4> QED BY <4>1, <4>2
        <3> QED BY <2>2, <3>1, <3>2, PublishFits
    <2>3. CASE UNCHANGED claimVars
        BY <2>1, <2>3 DEF claimVars
    <2>4. ASSUME NEW j \in Issues, PersonActs(j) PROVE comments' = comments
        BY <2>4 DEF PersonActs
    <2> QED BY <2>1, <2>2, <2>3, <2>4, OnlyPublicationsWrite DEF ClaimNext
<1> QED BY <1>1, <1>2, ClaimInvariant, PTL DEF ClaimSpec

-----------------------------------------------------------------------------
(* The count of a history and the attempts in a row.                       *)

\* Attempt n is told with kind k.
ToldAs(h, n, k) == \E j \in 1..Len(h) : h[j].attempt = n /\ h[j].kind = k

\* The part of the row up to attempt n.
Upto(h, n) == {a \in AutomaticRow(h) : a <= n}

\* A human requeue after attempt n is told, or the standing s covers the row up
\* to it (in Covers) and n itself (in CoversOwn).
ResetAfter(h, n) == \E b \in Nat : b > n /\ ToldAs(h, b, "human")
Covers(h, n, s) == ResetAfter(h, n) \/ Cardinality(Upto(h, n)) <= s
CoversOwn(h, n, s) == ResetAfter(h, n) \/ Cardinality(Upto(h, n) \union {n}) <= s

\* No version of the record is of a later attempt than the one shown.
RecordNewest(h) == \A j \in Versions(h) : h[j].attempt <= SharedRecord(h).attempt

\* The results that the record does not sum up are in the order of the attempts.
ResultsInOrder(h) == \A j, k \in Newer(h) : j <= k => h[j].attempt <= h[k].attempt

\* The record sums up what it hides.
RecordCovers(h) == Covers(h, SharedRecord(h).attempt, SharedRecord(h).standing)

Sound(h) == RecordNewest(h) /\ ResultsInOrder(h) /\ RecordCovers(h)

Bounded(h, b) == \A j \in 1..Len(h) : h[j].attempt <= b

\* The fields of an entry.
LEMMA EntryTyped ==
    ASSUME NEW h \in Seq(Comment), NEW j \in 1..Len(h)
    PROVE  /\ h[j] \in Comment /\ h[j].attempt \in Nat /\ h[j].attempt > 0
           /\ h[j].kind \in Kinds /\ h[j].shared \in BOOLEAN /\ h[j].standing \in Nat
<1>1. h[j] \in Comment
    OBVIOUS
<1> QED BY <1>1 DEF Comment

\* The row in terms of what is told.
LEMMA RowTold ==
    ASSUME NEW h \in Seq(Comment)
    PROVE  /\ AutomaticRow(h) \subseteq Nat
           /\ \A a \in Nat : a \in AutomaticRow(h) <=>
                /\ ToldAs(h, a, "automatic")
                /\ \A b \in Nat : ToldAs(h, b, "human") => b < a
<1>1. \A j \in 1..Len(h) : h[j].attempt \in Nat
    BY EntryTyped
<1>2. ASSUME NEW a \in AutomaticRow(h)
      PROVE  /\ a \in Nat /\ ToldAs(h, a, "automatic")
             /\ \A b \in Nat : ToldAs(h, b, "human") => b < a
    <2>1. PICK m \in 1..Len(h) : /\ h[m].attempt = a /\ h[m].kind = "automatic"
                                 /\ \A k \in 1..Len(h) : h[k].kind = "human" => h[k].attempt < a
        BY DEF AutomaticRow
    <2> QED BY <1>1, <2>1 DEF ToldAs
<1>3. ASSUME NEW a \in Nat, ToldAs(h, a, "automatic"),
             \A b \in Nat : ToldAs(h, b, "human") => b < a
      PROVE  a \in AutomaticRow(h)
    <2>1. PICK m \in 1..Len(h) : h[m].attempt = a /\ h[m].kind = "automatic"
        BY <1>3 DEF ToldAs
    <2>2. ASSUME NEW k \in 1..Len(h), h[k].kind = "human" PROVE h[k].attempt < h[m].attempt
        <3>1. h[k].attempt \in Nat /\ ToldAs(h, h[k].attempt, "human")
            BY <1>1, <2>2 DEF ToldAs
        <3> QED BY <1>3, <2>1, <3>1
    <2> QED BY <2>1, <2>2 DEF AutomaticRow
<1> QED BY <1>2, <1>3

\* The row of a bounded history is finite.
LEMMA RowFinite ==
    ASSUME NEW h \in Seq(Comment), NEW b \in Nat, Bounded(h, b)
    PROVE  /\ IsFiniteSet(AutomaticRow(h)) /\ Cardinality(AutomaticRow(h)) \in Nat
           /\ \A n \in Nat : /\ IsFiniteSet(Upto(h, n)) /\ Cardinality(Upto(h, n)) \in Nat
                             /\ IsFiniteSet(Upto(h, n) \union {n})
                             /\ Cardinality(Upto(h, n) \union {n}) \in Nat
<1>1. \A a \in AutomaticRow(h) : a <= b
    BY DEF AutomaticRow, Bounded
<1>2. IsFiniteSet(AutomaticRow(h))
    BY <1>1, RowTold, FS_BoundedSetOfNaturals
<1>3. ASSUME NEW n \in Nat
      PROVE  IsFiniteSet(Upto(h, n)) /\ IsFiniteSet(Upto(h, n) \union {n})
    <2>1. Upto(h, n) \in SUBSET AutomaticRow(h)
        BY DEF Upto
    <2> QED BY <1>2, <2>1, FS_Subset, FS_AddElement
<1> QED BY <1>2, <1>3, FS_CardinalityType

\* The attempts of a set of entries.
AttemptsIn(h, S) == {h[j].attempt : j \in S}

\* They are at most as many as the entries.
LEMMA AttemptsOf ==
    ASSUME NEW h \in Seq(Comment), NEW S \in SUBSET (1..Len(h))
    PROVE  /\ IsFiniteSet(AttemptsIn(h, S)) /\ Cardinality(AttemptsIn(h, S)) \in Nat
           /\ IsFiniteSet(S) /\ Cardinality(S) \in Nat
           /\ Cardinality(AttemptsIn(h, S)) <= Cardinality(S)
<1> DEFINE T == AttemptsIn(h, S)
           f == [j \in S |-> h[j].attempt]
<1>1. Len(h) \in Nat /\ IsFiniteSet(S)
    <2>1. Len(h) \in Nat
        OBVIOUS
    <2>2. IsFiniteSet(1..Len(h))
        BY <2>1, FS_Interval
    <2> QED BY <2>1, <2>2, FS_Subset
<1>2. f \in Surjection(S, T)
    <2>1. f \in [S -> T]
        BY DEF AttemptsIn
    <2>2. \A t \in T : \E j \in S : f[j] = t
        BY DEF AttemptsIn
    <2> HIDE DEF f, T
    <2> QED BY <2>1, <2>2 DEF Surjection
<1>3. IsFiniteSet(T) /\ Cardinality(T) <= Cardinality(S)
    BY <1>1, <1>2, FS_Surjection
<1> QED BY <1>1, <1>3, FS_CardinalityType

\* resolve_automatic_continuation_count never counts less than there is: a sound
\* history counts at least the attempts in a row.
LEMMA CountCovers ==
    ASSUME NEW h \in Seq(Comment), NEW b \in Nat, Bounded(h, b), Sound(h)
    PROVE  Cardinality(AutomaticRow(h)) <= AutomaticCount(h)
<1> DEFINE s == SharedRecord(h).attempt
           c == SharedRecord(h).standing
           A == AutomaticRow(h)
           tail == {j \in Newer(h) : \A k \in Newer(h) : k >= j => h[k].kind = "automatic"}
           T == AttemptsIn(h, tail)
<1>0. s \in Nat /\ c \in Nat /\ \A j \in 1..Len(h) : h[j] \in Comment /\ h[j].attempt \in Nat
    BY RecordShown, EntryTyped
<1>1. tail \in SUBSET (1..Len(h))
    BY DEF Newer, Results
<1>2. /\ IsFiniteSet(T) /\ Cardinality(T) \in Nat /\ Cardinality(tail) \in Nat
      /\ Cardinality(T) <= Cardinality(tail)
    BY <1>1, AttemptsOf
<1>3. IsFiniteSet(A) /\ Cardinality(A) \in Nat
      /\ IsFiniteSet(Upto(h, s)) /\ Cardinality(Upto(h, s)) \in Nat
    BY <1>0, RowFinite
<1>4. ASSUME NEW a \in A, a > s PROVE a \in T
    <2>1. PICK m \in 1..Len(h) : /\ h[m].attempt = a /\ h[m].kind = "automatic"
                                 /\ \A k \in 1..Len(h) : h[k].kind = "human" => h[k].attempt < a
        BY DEF AutomaticRow
    <2>2. m \notin Versions(h)
        BY <1>0, <1>4, <2>1 DEF Sound, RecordNewest
    <2>3. m \in Newer(h)
        BY <1>4, <2>1, <2>2 DEF Versions, Newer, Results
    <2>4. ASSUME NEW k \in Newer(h), k >= m PROVE h[k].kind = "automatic"
        <3>1. k \in 1..Len(h) /\ h[k].kind \in {"human", "automatic"}
            BY DEF Newer, Results
        <3>2. a <= h[k].attempt
            BY <2>1, <2>3, <2>4, <3>1 DEF Sound, ResultsInOrder
        <3> QED BY <1>0, <2>1, <3>1, <3>2
    <2> QED BY <2>1, <2>3, <2>4 DEF AttemptsIn
<1>5. AutomaticCount(h) = Cardinality(tail)
        + (IF \E j \in Newer(h) : h[j].kind = "human" THEN 0 ELSE c)
    BY DEF AutomaticCount
<1>6. CASE \E j \in Newer(h) : h[j].kind = "human"
    <2>1. PICK j \in Newer(h) : h[j].kind = "human"
        BY <1>6
    <2>2. j \in 1..Len(h) /\ h[j].attempt > s
        BY DEF Newer, Results
    <2>3. ASSUME NEW a \in A PROVE a > s
        <3>1. a \in Nat /\ h[j].attempt < a
            BY <1>0, <2>1, <2>2 DEF AutomaticRow
        <3> QED BY <1>0, <2>2, <3>1
    <2>4. A \in SUBSET T
        BY <1>4, <2>3
    <2> HIDE DEF A, T, tail, s, c
    <2>5. Cardinality(A) <= Cardinality(T)
        BY <1>2, <2>4, FS_Subset
    <2>6. AutomaticCount(h) = Cardinality(tail)
        BY <1>2, <1>5, <1>6
    <2>7. Cardinality(A) <= AutomaticCount(h)
        BY <1>2, <1>3, <2>5, <2>6
    <2> QED BY <2>7 DEF A
<1>7. CASE ~\E j \in Newer(h) : h[j].kind = "human"
    <2>1. ~ResetAfter(h, s)
        <3> SUFFICES ASSUME NEW k \in 1..Len(h), h[k].attempt > s, h[k].kind = "human" PROVE FALSE
            BY DEF ResetAfter, ToldAs
        <3>1. k \notin Versions(h)
            BY <1>0 DEF Sound, RecordNewest
        <3>2. k \in Newer(h)
            BY <3>1 DEF Newer, Results, Versions
        <3> QED BY <1>7, <3>2
    <2>2. Cardinality(Upto(h, s)) <= c
        BY <2>1 DEF Sound, RecordCovers, Covers
    <2>3. A \in SUBSET (Upto(h, s) \union T)
        <3>1. ASSUME NEW a \in A PROVE a \in Upto(h, s) \/ a \in T
            <4>1. a \in Nat
                BY RowTold
            <4>2. CASE a > s
                BY <1>4, <4>2
            <4>3. CASE a <= s
                BY <4>3 DEF Upto
            <4> QED BY <1>0, <4>1, <4>2, <4>3
        <3> QED BY <3>1
    <2> HIDE DEF A, T, tail, s, c
    <2>4. /\ IsFiniteSet(Upto(h, s) \union T)
          /\ Cardinality(Upto(h, s) \union T) =
                Cardinality(Upto(h, s)) + Cardinality(T) - Cardinality(Upto(h, s) \cap T)
          /\ Cardinality(Upto(h, s) \cap T) \in Nat
        BY <1>2, <1>3, FS_Union, FS_Intersection, FS_CardinalityType
    <2>5. Cardinality(A) <= Cardinality(Upto(h, s) \union T)
        BY <2>3, <2>4, FS_Subset
    <2>6. AutomaticCount(h) = Cardinality(tail) + c
        BY <1>5, <1>7
    <2>7. Cardinality(A) <= AutomaticCount(h)
        BY <1>0, <1>2, <1>3, <2>2, <2>4, <2>5, <2>6
    <2> QED BY <2>7 DEF A
<1> QED BY <1>6, <1>7

-----------------------------------------------------------------------------
(* What a new entry does to a history.                                     *)

\* What is told after a new entry.
LEMMA ToldAfter ==
    ASSUME NEW h \in Seq(Comment), NEW e \in Comment, NEW n, NEW k
    PROVE  ToldAs(Append(h, e), n, k) <=> ToldAs(h, n, k) \/ (e.attempt = n /\ e.kind = k)
<1>1. ASSUME ToldAs(Append(h, e), n, k) PROVE ToldAs(h, n, k) \/ (e.attempt = n /\ e.kind = k)
    <2>1. PICK j \in 1..Len(Append(h, e)) : /\ Append(h, e)[j].attempt = n
                                            /\ Append(h, e)[j].kind = k
        BY <1>1 DEF ToldAs
    <2>2. j \in 1..Len(h) \/ j = Len(h) + 1
        BY <2>1, EntryLast
    <2> QED BY <2>1, <2>2, EntryLast DEF ToldAs
<1>2. ASSUME ToldAs(h, n, k) PROVE ToldAs(Append(h, e), n, k)
    <2>1. PICK j \in 1..Len(h) : h[j].attempt = n /\ h[j].kind = k
        BY <1>2 DEF ToldAs
    <2>2. j \in 1..Len(Append(h, e)) /\ Append(h, e)[j] = h[j]
        BY <2>1, EntryLast
    <2> QED BY <2>1, <2>2 DEF ToldAs
<1>3. ASSUME e.attempt = n, e.kind = k PROVE ToldAs(Append(h, e), n, k)
    <2>1. Len(h) + 1 \in 1..Len(Append(h, e)) /\ Append(h, e)[Len(h) + 1] = e
        BY EntryLast
    <2> QED BY <1>3, <2>1 DEF ToldAs
<1> QED BY <1>1, <1>2, <1>3

\* The row after a new entry: only an automatic attempt that was not told before
\* is added.
LEMMA RowAfter ==
    ASSUME NEW h \in Seq(Comment), NEW e \in Comment
    PROVE  /\ AutomaticRow(Append(h, e)) \subseteq AutomaticRow(h) \union {e.attempt}
           /\ e.kind # "automatic" \/ ToldAs(h, e.attempt, e.kind) =>
                AutomaticRow(Append(h, e)) \subseteq AutomaticRow(h)
           /\ e.kind = "human" => \A a \in AutomaticRow(Append(h, e)) : a > e.attempt
<1>1. /\ Append(h, e) \in Seq(Comment) /\ e.attempt \in Nat
    BY EntryLast DEF Comment
<1>2. ASSUME NEW a \in AutomaticRow(Append(h, e)) PROVE a \in Nat
    BY <1>1, RowTold
<1>3. ASSUME NEW a \in AutomaticRow(Append(h, e)), ToldAs(h, a, "automatic")
      PROVE  a \in AutomaticRow(h)
    <2>1. ASSUME NEW b \in Nat, ToldAs(h, b, "human") PROVE b < a
        <3>1. ToldAs(Append(h, e), b, "human")
            BY <2>1, ToldAfter
        <3> QED BY <1>1, <1>2, <3>1, RowTold
    <2> QED BY <1>2, <1>3, <2>1, RowTold
<1>4. ASSUME NEW a \in AutomaticRow(Append(h, e))
      PROVE  ToldAs(h, a, "automatic") \/ (e.attempt = a /\ e.kind = "automatic")
    <2>1. ToldAs(Append(h, e), a, "automatic")
        BY <1>1, <1>2, RowTold
    <2> QED BY <2>1, ToldAfter
<1>5. ASSUME NEW a \in AutomaticRow(Append(h, e)), e.kind = "human" PROVE a > e.attempt
    <2>1. ToldAs(Append(h, e), e.attempt, "human")
        BY <1>5, ToldAfter
    <2>2. e.attempt < a
        BY <1>1, <1>2, <2>1, RowTold
    <2> QED BY <1>1, <1>2, <2>2
<1> QED BY <1>3, <1>4, <1>5

\* A reset stays.
LEMMA ResetStays ==
    ASSUME NEW h \in Seq(Comment), NEW e \in Comment, NEW n \in Nat, ResetAfter(h, n)
    PROVE  ResetAfter(Append(h, e), n)
    BY ToldAfter DEF ResetAfter

\* A bound of a history is one of the new history.
LEMMA BoundedAfter ==
    ASSUME NEW h \in Seq(Comment), NEW e \in Comment, NEW b \in Nat, Bounded(h, b)
    PROVE  /\ e.attempt \in Nat
           /\ e.attempt <= b => Bounded(Append(h, e), b)
           /\ \E d \in Nat : Bounded(Append(h, e), d)
<1>1. e.attempt \in Nat /\ \A j \in 1..Len(h) : h[j].attempt \in Nat
    BY EntryTyped DEF Comment
<1>2. ASSUME NEW d \in Nat, b <= d, e.attempt <= d PROVE Bounded(Append(h, e), d)
    <2> SUFFICES ASSUME NEW j \in 1..Len(Append(h, e)) PROVE Append(h, e)[j].attempt <= d
        BY DEF Bounded
    <2>1. j \in 1..Len(h) \/ j = Len(h) + 1
        BY EntryLast
    <2>2. CASE j \in 1..Len(h)
        <3>1. h[j].attempt <= b /\ Append(h, e)[j] = h[j]
            BY <2>2, EntryLast DEF Bounded
        <3> QED BY <1>1, <1>2, <2>2, <3>1
    <2> QED BY <1>2, <2>1, <2>2, EntryLast
<1>3. e.attempt <= b => Bounded(Append(h, e), b)
    BY <1>2
<1>4. Bounded(Append(h, e), b + e.attempt)
    BY <1>1, <1>2
<1> QED BY <1>1, <1>3, <1>4

\* An attempt's standing goes on covering the row up to it, unless the new entry
\* is of an older automatic attempt that was not told before.
LEMMA CoversOwnKept ==
    ASSUME NEW h \in Seq(Comment), NEW e \in Comment, NEW b \in Nat, Bounded(h, b),
           NEW n \in Nat, NEW s \in Nat, CoversOwn(h, n, s),
           e.kind # "automatic" \/ ToldAs(h, e.attempt, e.kind) \/ e.attempt >= n
    PROVE  CoversOwn(Append(h, e), n, s)
<1>1. CASE ResetAfter(h, n)
    BY <1>1, ResetStays DEF CoversOwn
<1>2. CASE Cardinality(Upto(h, n) \union {n}) <= s
    <2> DEFINE A == Upto(h, n) \union {n}
               B == Upto(Append(h, e), n) \union {n}
    <2>0. e.attempt \in Nat /\ Append(h, e) \in Seq(Comment)
        BY EntryLast DEF Comment
    <2>1. ASSUME NEW a \in Upto(Append(h, e), n) PROVE a \in A
        <3>1. a \in AutomaticRow(Append(h, e)) /\ a <= n /\ a \in Nat
            BY <2>0, RowTold DEF Upto
        <3>2. CASE a \in AutomaticRow(h)
            BY <3>1, <3>2 DEF Upto
        <3>3. CASE a \notin AutomaticRow(h)
            <4>1. a = e.attempt /\ e.attempt >= n
                BY <3>1, <3>3, RowAfter
            <4>2. a = n
                BY <2>0, <3>1, <4>1
            <4> QED BY <4>2
        <3> QED BY <3>2, <3>3
    <2>2. B \in SUBSET A
        BY <2>1
    <2>3. IsFiniteSet(A) /\ Cardinality(A) \in Nat
        BY RowFinite
    <2> HIDE DEF A, B
    <2>4. Cardinality(B) <= Cardinality(A) /\ Cardinality(B) \in Nat
        BY <2>2, <2>3, FS_Subset, FS_CardinalityType
    <2>5. Cardinality(A) <= s
        BY <1>2 DEF A
    <2>6. Cardinality(B) <= s
        BY <2>3, <2>4, <2>5
    <2> QED BY <2>6 DEF B, CoversOwn
<1> QED BY <1>1, <1>2 DEF CoversOwn

\* The standing that is computed from a sound history covers the attempt.
LEMMA CountCoversOwn ==
    ASSUME NEW h \in Seq(Comment), NEW b \in Nat, Bounded(h, b), Sound(h), NEW n \in Nat
    PROVE  CoversOwn(h, n, AutomaticCount(h) + 1)
<1> DEFINE A == AutomaticRow(h)
           U == Upto(h, n)
<1>1. /\ IsFiniteSet(A) /\ Cardinality(A) \in Nat /\ IsFiniteSet(U) /\ Cardinality(U) \in Nat
      /\ Cardinality(U \union {n}) \in Nat
    BY RowFinite
<1>2. U \in SUBSET A
    BY DEF Upto
<1>3. Cardinality(A) <= AutomaticCount(h) /\ AutomaticCount(h) \in Nat
    BY CountCovers, CountIsNatural
<1> HIDE DEF A, U
<1>4. Cardinality(U) <= Cardinality(A)
    BY <1>1, <1>2, FS_Subset
<1>5. Cardinality(U \union {n}) = IF n \in U THEN Cardinality(U) ELSE Cardinality(U) + 1
    BY <1>1, FS_AddElement
<1>6. Cardinality(U \union {n}) <= Cardinality(U) + 1
    BY <1>1, <1>5
<1>7. Cardinality(U \union {n}) <= AutomaticCount(h) + 1
    BY <1>1, <1>3, <1>4, <1>6
<1> QED BY <1>7 DEF U, CoversOwn

\* A result leaves the record alone, and a record is shown at once.
LEMMA RecordAfter ==
    ASSUME NEW h \in Seq(Comment), NEW e \in Comment
    PROVE  /\ ~e.shared => /\ Versions(Append(h, e)) = Versions(h)
                           /\ SharedRecord(Append(h, e)).attempt = SharedRecord(h).attempt
                           /\ SharedRecord(Append(h, e)).standing = SharedRecord(h).standing
           /\ e.shared => /\ Versions(Append(h, e)) = Versions(h) \union {Len(h) + 1}
                          /\ SharedRecord(Append(h, e)).attempt = e.attempt
                          /\ SharedRecord(Append(h, e)).standing = e.standing
<1> DEFINE g == Append(h, e)
<1>1. /\ g \in Seq(Comment) /\ Len(h) \in Nat /\ Len(g) = Len(h) + 1
      /\ \A j \in 1..Len(h) : g[j] = h[j]
      /\ g[Len(h) + 1] = e
    BY EntryLast
<1> HIDE DEF g
<1>2. /\ ~e.shared => Versions(g) = Versions(h)
      /\ e.shared => Versions(g) = Versions(h) \union {Len(h) + 1}
    BY <1>1 DEF Versions
<1>3. ASSUME ~e.shared, Versions(h) # {}
      PROVE  /\ SharedRecord(g).attempt = SharedRecord(h).attempt
             /\ SharedRecord(g).standing = SharedRecord(h).standing
    <2>1. PICK j \in Versions(h) : /\ \A k \in Versions(h) : k <= j
                                   /\ SharedRecord(h).attempt = h[j].attempt
                                   /\ SharedRecord(h).standing = h[j].standing
        BY <1>3, RecordShown
    <2>2. PICK m \in Versions(g) : /\ \A k \in Versions(g) : k <= m
                                   /\ SharedRecord(g).attempt = g[m].attempt
                                   /\ SharedRecord(g).standing = g[m].standing
        BY <1>1, <1>2, <1>3, RecordShown
    <2>3. j \in 1..Len(h) /\ m \in 1..Len(h) /\ j <= m /\ m <= j
        BY <1>2, <1>3, <2>1, <2>2 DEF Versions
    <2>4. j = m
        BY <1>1, <2>3
    <2> QED BY <1>1, <2>1, <2>2, <2>3, <2>4
<1>4. ASSUME ~e.shared, Versions(h) = {}
      PROVE  /\ SharedRecord(g).attempt = SharedRecord(h).attempt
             /\ SharedRecord(g).standing = SharedRecord(h).standing
    BY <1>1, <1>2, <1>4, RecordShown
<1>5. ASSUME e.shared
      PROVE  SharedRecord(g).attempt = e.attempt /\ SharedRecord(g).standing = e.standing
    <2>1. PICK m \in Versions(g) : /\ \A k \in Versions(g) : k <= m
                                   /\ SharedRecord(g).attempt = g[m].attempt
                                   /\ SharedRecord(g).standing = g[m].standing
        BY <1>1, <1>2, <1>5, RecordShown
    <2>2. m \in 1..(Len(h) + 1) /\ Len(h) + 1 <= m
        BY <1>1, <1>2, <1>5, <2>1 DEF Versions
    <2>3. m = Len(h) + 1
        BY <1>1, <2>2
    <2> QED BY <1>1, <2>1, <2>3
<1> QED BY <1>2, <1>3, <1>4, <1>5 DEF g

\* The entries that keep a history sound: a record over an older one that covers
\* its own attempt, a result later than all that is told, and the repeat of a
\* result that the record has summed up.
KeepsSound(h, e) ==
    /\ e.shared => /\ SharedRecord(h).attempt < e.attempt
                   /\ e.kind \in {"human", "automatic"}
                   /\ e.kind = "automatic" => CoversOwn(h, e.attempt, e.standing)
    /\ ~e.shared /\ e.kind \in {"human", "automatic"} =>
            \/ \A j \in 1..Len(h) : h[j].attempt < e.attempt
            \/ e.attempt <= SharedRecord(h).attempt /\ ToldAs(h, e.attempt, e.kind)

\* Such an entry keeps it sound.
LEMMA SoundAfter ==
    ASSUME NEW h \in Seq(Comment), NEW e \in Comment, NEW b \in Nat, Bounded(h, b),
           Sound(h), KeepsSound(h, e)
    PROVE  Sound(Append(h, e))
<1> DEFINE g == Append(h, e)
           s == SharedRecord(h).attempt
           t == SharedRecord(g).attempt
<1>1. /\ g \in Seq(Comment) /\ Len(h) \in Nat /\ Len(g) = Len(h) + 1
      /\ \A j \in 1..Len(h) : g[j] = h[j]
      /\ g[Len(h) + 1] = e
    BY EntryLast
<1>2. /\ e.attempt \in Nat /\ e.standing \in Nat /\ e.shared \in BOOLEAN
      /\ \A j \in 1..Len(h) : h[j].attempt \in Nat
    BY EntryTyped DEF Comment
<1>3. /\ s \in Nat /\ SharedRecord(h).standing \in Nat
      /\ ~e.shared => /\ Versions(g) = Versions(h) /\ t = s
                      /\ SharedRecord(g).standing = SharedRecord(h).standing
      /\ e.shared => /\ Versions(g) = Versions(h) \union {Len(h) + 1} /\ t = e.attempt
                     /\ SharedRecord(g).standing = e.standing
      /\ \A j \in Versions(h) : j \in 1..Len(h) /\ h[j].attempt <= s
    BY RecordShown, RecordAfter DEF Sound, RecordNewest, Versions
<1>4. s <= t
    BY <1>2, <1>3 DEF KeepsSound
<1>5. IsFiniteSet(Upto(h, t)) /\ Cardinality(Upto(h, t)) \in Nat
    <2>1. t \in Nat
        BY <1>2, <1>3
    <2> QED BY <2>1, RowFinite
<1>6. RecordNewest(g)
    <2> SUFFICES ASSUME NEW j \in Versions(g) PROVE g[j].attempt <= t
        BY DEF RecordNewest
    <2>1. CASE j \in Versions(h)
        <3>1. g[j] = h[j] /\ h[j].attempt <= s /\ h[j].attempt \in Nat
            BY <1>1, <1>2, <1>3, <2>1
        <3> QED BY <1>2, <1>3, <1>4, <3>1
    <2>2. CASE j \notin Versions(h)
        <3>1. e.shared /\ j = Len(h) + 1
            BY <1>3, <2>2
        <3> QED BY <1>1, <1>2, <1>3, <3>1
    <2> QED BY <2>1, <2>2
<1>7. ASSUME NEW j \in Newer(g)
      PROVE  \/ j \in Newer(h) /\ j \in 1..Len(h)
             \/ /\ j = Len(h) + 1 /\ ~e.shared /\ e.kind \in {"human", "automatic"}
                /\ e.attempt > s
    <2>1. j \in 1..Len(g) /\ ~g[j].shared /\ g[j].kind \in {"human", "automatic"}
          /\ g[j].attempt > t
        BY DEF Newer, Results
    <2>2. CASE j \in 1..Len(h)
        <3>1. g[j] = h[j] /\ h[j].attempt > s
            BY <1>1, <1>2, <1>3, <1>4, <2>1, <2>2
        <3> QED BY <2>1, <2>2, <3>1 DEF Newer, Results
    <2>3. CASE j = Len(h) + 1
        BY <1>1, <1>2, <1>3, <2>1, <2>3
    <2> QED BY <1>1, <2>1, <2>2, <2>3
<1>8. ResultsInOrder(g)
    <2> SUFFICES ASSUME NEW j \in Newer(g), NEW k \in Newer(g), j <= k
                 PROVE  g[j].attempt <= g[k].attempt
        BY DEF ResultsInOrder
    <2>1. CASE k \in Newer(h) /\ k \in 1..Len(h)
        <3>1. j \in Newer(h) /\ j \in 1..Len(h)
            <4>1. j # Len(h) + 1
                BY <1>1, <2>1
            <4> QED BY <1>7, <4>1
        <3>2. h[j].attempt <= h[k].attempt
            BY <2>1, <3>1 DEF Sound, ResultsInOrder
        <3> QED BY <1>1, <2>1, <3>1, <3>2
    <2>2. CASE /\ k = Len(h) + 1 /\ ~e.shared /\ e.kind \in {"human", "automatic"}
               /\ e.attempt > s
        <3>1. \A m \in 1..Len(h) : h[m].attempt < e.attempt
            BY <1>2, <1>3, <2>2 DEF KeepsSound
        <3>2. CASE j \in 1..Len(h)
            <4>1. h[j].attempt < e.attempt /\ g[j] = h[j] /\ g[k] = e /\ h[j].attempt \in Nat
                BY <1>1, <1>2, <2>2, <3>1, <3>2
            <4> QED BY <1>2, <4>1
        <3>3. CASE j = Len(h) + 1
            BY <1>1, <1>2, <2>2, <3>3
        <3> QED BY <1>7, <3>2, <3>3
    <2> QED BY <1>7, <2>1, <2>2
<1>9. RecordCovers(g)
    <2>1. CASE e.shared /\ e.kind = "human"
        <3>1. Upto(g, t) = {}
            <4> SUFFICES ASSUME NEW a \in Upto(g, t) PROVE FALSE
                OBVIOUS
            <4>1. a \in AutomaticRow(g) /\ a <= e.attempt
                BY <1>3, <2>1 DEF Upto
            <4>2. a > e.attempt /\ a \in Nat
                BY <1>1, <2>1, <4>1, RowAfter, RowTold
            <4> QED BY <1>2, <4>1, <4>2
        <3>2. Cardinality(Upto(g, t)) = 0
            BY <3>1, FS_EmptySet
        <3>3. Cardinality(Upto(g, t)) <= SharedRecord(g).standing
            BY <1>2, <1>3, <2>1, <3>2
        <3> QED BY <3>3 DEF RecordCovers, Covers
    <2>2. CASE e.shared /\ e.kind # "human"
        <3>1. CoversOwn(h, t, SharedRecord(g).standing) /\ t \in Nat
            BY <1>2, <1>3, <2>2 DEF KeepsSound
        <3>2. CoversOwn(g, t, SharedRecord(g).standing)
            <4>1. e.attempt >= t /\ SharedRecord(g).standing \in Nat
                BY <1>2, <1>3, <2>2
            <4> HIDE DEF t
            <4>2. CoversOwn(Append(h, e), t, SharedRecord(g).standing)
                BY <3>1, <4>1, CoversOwnKept
            <4> QED BY <4>2
        <3>3. CASE ResetAfter(g, t)
            BY <3>3 DEF RecordCovers, Covers
        <3>4. CASE Cardinality(Upto(g, t) \union {t}) <= SharedRecord(g).standing
            <4> DEFINE U == Upto(g, t)
                       V == Upto(g, t) \union {t}
            <4>1. PICK d \in Nat : Bounded(g, d)
                BY BoundedAfter
            <4>2. IsFiniteSet(V) /\ Cardinality(V) \in Nat /\ Cardinality(U) \in Nat
                BY <1>1, <3>1, <4>1, RowFinite
            <4>3. U \in SUBSET V /\ SharedRecord(g).standing \in Nat
                BY <1>2, <1>3, <2>2
            <4>4. Cardinality(V) <= SharedRecord(g).standing
                BY <3>4
            <4> HIDE DEF U, V
            <4>5. Cardinality(U) <= Cardinality(V)
                BY <4>2, <4>3, FS_Subset
            <4>6. Cardinality(U) <= SharedRecord(g).standing
                BY <4>2, <4>3, <4>4, <4>5
            <4> QED BY <4>6 DEF U, RecordCovers, Covers
        <3> QED BY <3>2, <3>3, <3>4 DEF CoversOwn
    <2>3. CASE ~e.shared
        <3>1. CASE ResetAfter(h, s)
            <4>1. ResetAfter(g, s)
                BY <1>3, <3>1, ResetStays
            <4> QED BY <1>3, <2>3, <4>1 DEF RecordCovers, Covers
        <3>2. CASE Cardinality(Upto(h, s)) <= SharedRecord(h).standing
            <4>1. Upto(g, s) \in SUBSET Upto(h, s)
                <5> SUFFICES ASSUME NEW a \in AutomaticRow(g), a <= s, a \notin AutomaticRow(h)
                             PROVE  FALSE
                    BY DEF Upto
                <5>1. a = e.attempt /\ e.kind = "automatic" /\ ~ToldAs(h, e.attempt, e.kind)
                    BY RowAfter
                <5>2. \A j \in 1..Len(h) : h[j].attempt < e.attempt
                    BY <2>3, <5>1 DEF KeepsSound
                <5>3. Versions(h) # {}
                    <6>1. e.attempt > 0
                        BY DEF Comment
                    <6> QED BY <1>2, <5>1, <6>1, RecordShown
                <5>4. PICK j \in Versions(h) : s = h[j].attempt
                    BY <5>3, RecordShown
                <5> QED BY <1>2, <1>3, <5>1, <5>2, <5>4
            <4>2. IsFiniteSet(Upto(h, s)) /\ Cardinality(Upto(h, s)) \in Nat
                BY <1>3, RowFinite
            <4>3. Cardinality(Upto(g, s)) <= Cardinality(Upto(h, s))
                  /\ Cardinality(Upto(g, s)) \in Nat
                BY <4>1, <4>2, FS_Subset, FS_CardinalityType
            <4>4. Cardinality(Upto(g, s)) <= SharedRecord(h).standing
                BY <1>3, <3>2, <4>2, <4>3
            <4> QED BY <1>3, <2>3, <4>4 DEF RecordCovers, Covers
        <3> QED BY <3>1, <3>2 DEF Sound, RecordCovers, Covers
    <2> QED BY <1>2, <2>1, <2>2, <2>3
<1> QED BY <1>6, <1>8, <1>9 DEF Sound

-----------------------------------------------------------------------------
(* The histories of the issues.                                            *)

Told(h, n) == \E j \in 1..Len(h) : h[j].attempt = n

\* The history h of the issue and the checkpoint c fit together: what is told of
\* the attempt has its source, it is told before any later attempt, and the
\* persisted intent covers it.
TellsRightly(h, c) ==
    c.kind = "ordinary" => \A j \in 1..Len(h) : h[j].attempt = c.attempt => h[j].kind = c.source
TellsInOrder(h, c) == Told(h, c.attempt) \/ \A j \in 1..Len(h) : h[j].attempt < c.attempt
IntentCovers(h, c) ==
    c.source = "automatic" /\ c.intent # None =>
        Told(h, c.attempt) /\ CoversOwn(h, c.attempt, c.intent)
AttemptFits(h, c) == TellsRightly(h, c) /\ TellsInOrder(h, c) /\ IntentCovers(h, c)

\* The standing a worker has computed and not yet written covers its attempt.
Recorded(w) ==
    wpc[w] = "recording" /\ ckpt[w].source = "automatic" =>
        CoversOwn(comments[ckpt[w].issue], ckpt[w].attempt, job[w].standing)

\* The numbers of the attempts.
Numbered ==
    /\ \A i \in Issues : Bounded(comments[i], attempts)
    /\ \A w \in Workers : ckpt[w] # None => ckpt[w].attempt <= attempts
    /\ \A v, w \in Workers :
        ckpt[v] # None /\ ckpt[w] # None /\ ckpt[v].attempt = ckpt[w].attempt => v = w

HistoryInv ==
    /\ Numbered
    /\ \A i \in Issues : Sound(comments[i])
    /\ \A w \in Workers : ckpt[w] # None => AttemptFits(comments[ckpt[w].issue], ckpt[w])
    /\ \A w \in Workers : Recorded(w)

\* What a publication starts from.
LEMMA PublishFrom ==
    ASSUME ClaimInv, HistoryInv, NEW w \in Workers, Publishes(w)
    PROVE  /\ ckpt[w] \in Checkpoint /\ ckpt[w] # None /\ ckpt[w].issue \in Issues
           /\ ckpt[w].attempt \in Nat /\ attempts \in Nat /\ ckpt[w].attempt <= attempts
           /\ comments[ckpt[w].issue] \in Seq(Comment)
           /\ Bounded(comments[ckpt[w].issue], attempts)
           /\ Sound(comments[ckpt[w].issue])
           /\ AttemptFits(comments[ckpt[w].issue], ckpt[w])
<1>1. ckpt[w] \in Checkpoint /\ ckpt[w] # None
    BY PublishTells DEF ClaimInv
<1>2. ckpt[w].issue \in Issues /\ ckpt[w].attempt \in Nat
    BY <1>1 DEF Checkpoint
<1>3. attempts \in Nat
    BY BoundAssumption DEF ClaimInv, ClaimTypeOK
<1> QED BY <1>1, <1>2, <1>3 DEF HistoryInv, Numbered, ClaimInv, ClaimTypeOK

\* The standing that a handoff writes.
StandingOf(w) == IF wpc[w] = "recording" THEN job[w].standing ELSE Standing(ckpt[w])

\* It covers the attempt.
LEMMA StandingCovers ==
    ASSUME ClaimInv, HistoryInv, NEW w \in Workers, Publishes(w), ckpt[w].source = "automatic"
    PROVE  /\ StandingOf(w) \in Nat
           /\ CoversOwn(comments[ckpt[w].issue], ckpt[w].attempt, StandingOf(w))
<1> DEFINE c == ckpt[w]
           h == comments[ckpt[w].issue]
<1>1. /\ c \in Checkpoint /\ c.attempt \in Nat /\ attempts \in Nat
      /\ h \in Seq(Comment) /\ Bounded(h, attempts) /\ Sound(h) /\ AttemptFits(h, c)
    BY PublishFrom
<1>2. StandingOf(w) \in Nat
    BY <1>1, StandingIsNatural DEF StandingOf, ClaimInv, ClaimTypeOK, Job
<1>3. CASE wpc[w] = "recording"
    BY <1>2, <1>3 DEF HistoryInv, Recorded, StandingOf
<1>4. CASE wpc[w] # "recording" /\ c.intent # None
    <2>1. StandingOf(w) = c.intent
        BY <1>4 DEF StandingOf, Standing
    <2> QED BY <1>1, <1>2, <1>4, <2>1 DEF AttemptFits, IntentCovers
<1>5. CASE wpc[w] # "recording" /\ c.intent = None
    <2>1. StandingOf(w) = AutomaticCount(h) + 1
        BY <1>5 DEF StandingOf, Standing
    <2>2. CoversOwn(h, c.attempt, AutomaticCount(h) + 1)
        BY <1>1, CountCoversOwn
    <2> QED BY <1>2, <2>1, <2>2
<1> QED BY <1>3, <1>4, <1>5

\* What a publication adds keeps the history sound, and repeats what is told.
LEMMA FittingKeepsSound ==
    ASSUME ClaimInv, HistoryInv, NEW w \in Workers, Publishes(w), NEW e \in Comment, Fits(w, e)
    PROVE  /\ e.attempt = ckpt[w].attempt
           /\ KeepsSound(comments[ckpt[w].issue], e)
           /\ e.kind = "automatic" => ckpt[w].kind = "ordinary" /\ ckpt[w].source = "automatic"
           /\ \/ e.kind # "automatic"
              \/ ToldAs(comments[ckpt[w].issue], e.attempt, e.kind)
              \/ \A j \in 1..Len(comments[ckpt[w].issue]) :
                    comments[ckpt[w].issue][j].attempt < e.attempt
<1> DEFINE c == ckpt[w]
           h == comments[ckpt[w].issue]
<1>1. /\ c \in Checkpoint /\ c.attempt \in Nat /\ attempts \in Nat
      /\ h \in Seq(Comment) /\ Bounded(h, attempts) /\ Sound(h) /\ AttemptFits(h, c)
    BY PublishFrom
<1>2. /\ e.attempt = c.attempt
      /\ c.kind = "ordinary" => e.kind = c.source
      /\ c.kind # "ordinary" => ~e.shared /\ e.kind \notin {"human", "automatic"}
      /\ ~e.shared => \A j \in 1..Len(h) : h[j].attempt = c.attempt => h[j].shared
      /\ e.shared => SharedRecord(h).attempt < c.attempt /\ e.standing = StandingOf(w)
    BY DEF Fits, StandingOf
<1>3. c.kind = "ordinary" => c.source \in {"human", "automatic"}
    BY <1>1, PublishFrom DEF ClaimInv, JobLinked, Linked, Checkpoint
<1>4. ASSUME c.kind = "ordinary", Told(h, c.attempt) PROVE ToldAs(h, e.attempt, e.kind)
    <2>1. PICK j \in 1..Len(h) : h[j].attempt = c.attempt
        BY <1>4 DEF Told
    <2>2. h[j].kind = c.source
        BY <1>1, <1>4, <2>1 DEF AttemptFits, TellsRightly
    <2> QED BY <1>2, <1>4, <2>1, <2>2 DEF ToldAs
<1>5. ASSUME ~Told(h, c.attempt) PROVE \A j \in 1..Len(h) : h[j].attempt < e.attempt
    BY <1>1, <1>2, <1>5 DEF AttemptFits, TellsInOrder
<1>6. ASSUME ~e.shared, Told(h, c.attempt) PROVE e.attempt <= SharedRecord(h).attempt
    <2>1. PICK j \in 1..Len(h) : h[j].attempt = c.attempt
        BY <1>6 DEF Told
    <2>2. j \in Versions(h)
        BY <1>2, <1>6, <2>1 DEF Versions
    <2> QED BY <1>1, <1>2, <2>1, <2>2 DEF Sound, RecordNewest
<1>7. ASSUME e.shared, e.kind = "automatic" PROVE CoversOwn(h, e.attempt, e.standing)
    <2>1. c.source = "automatic"
        BY <1>2, <1>7
    <2> QED BY <1>2, <1>7, <2>1, StandingCovers
<1>8. KeepsSound(h, e)
    <2>1. ASSUME e.shared
          PROVE  /\ SharedRecord(h).attempt < e.attempt /\ e.kind \in {"human", "automatic"}
                 /\ e.kind = "automatic" => CoversOwn(h, e.attempt, e.standing)
        BY <1>2, <1>3, <1>7, <2>1
    <2>2. ASSUME ~e.shared, e.kind \in {"human", "automatic"}
          PROVE  \/ \A j \in 1..Len(h) : h[j].attempt < e.attempt
                 \/ e.attempt <= SharedRecord(h).attempt /\ ToldAs(h, e.attempt, e.kind)
        <3>1. c.kind = "ordinary"
            BY <1>2, <2>2
        <3> QED BY <1>4, <1>5, <1>6, <2>2, <3>1
    <2> QED BY <2>1, <2>2 DEF KeepsSound
<1>9. e.kind = "automatic" => c.kind = "ordinary" /\ c.source = "automatic"
    BY <1>2
<1> QED BY <1>2, <1>4, <1>5, <1>8, <1>9

\* What a new entry tells.
LEMMA ToldGrows ==
    ASSUME NEW h \in Seq(Comment), NEW e \in Comment
    PROVE  /\ Told(Append(h, e), e.attempt)
           /\ \A n : Told(h, n) => Told(Append(h, e), n)
           /\ \A j \in 1..Len(Append(h, e)) : \/ j \in 1..Len(h) /\ Append(h, e)[j] = h[j]
                                              \/ Append(h, e)[j] = e
<1>1. /\ Len(h) \in Nat /\ Len(Append(h, e)) = Len(h) + 1
      /\ \A j \in 1..Len(h) : Append(h, e)[j] = h[j]
      /\ Append(h, e)[Len(h) + 1] = e
    BY EntryLast
<1>2. \A j \in 1..Len(h) : j \in 1..Len(Append(h, e))
    BY <1>1
<1>3. \A j \in 1..Len(Append(h, e)) : j \in 1..Len(h) \/ j = Len(h) + 1
    BY <1>1
<1>4. Len(h) + 1 \in 1..Len(Append(h, e))
    BY <1>1
<1>5. \A n : Told(h, n) => Told(Append(h, e), n)
    BY <1>1, <1>2, Zenon DEF Told
<1>6. Told(Append(h, e), e.attempt)
    BY <1>1, <1>4 DEF Told
<1> QED BY <1>1, <1>3, <1>5, <1>6

\* The entry e of one attempt leaves the history in order for another one.
Undisturbed(h, e, c) ==
    /\ e.attempt # c.attempt
    /\ ~Told(h, c.attempt) => Told(h, e.attempt)
    /\ Told(h, c.attempt) => \/ e.kind # "automatic" \/ ToldAs(h, e.attempt, e.kind)
                             \/ \A j \in 1..Len(h) : h[j].attempt < e.attempt

\* What another attempt tells keeps a standing above the attempts in its row.
LEMMA OtherCovered ==
    ASSUME NEW h \in Seq(Comment), NEW e \in Comment, NEW b \in Nat, Bounded(h, b),
           NEW c \in Checkpoint, Undisturbed(h, e, c), Told(h, c.attempt),
           NEW s \in Nat, CoversOwn(h, c.attempt, s)
    PROVE  CoversOwn(Append(h, e), c.attempt, s)
<1>1. c.attempt \in Nat /\ e.attempt \in Nat
    BY DEF Checkpoint, Comment
<1>2. \/ e.kind # "automatic" \/ ToldAs(h, e.attempt, e.kind)
      \/ e.attempt >= c.attempt
    BY <1>1 DEF Undisturbed, Told
<1> QED BY <1>1, <1>2, CoversOwnKept

\* What another attempt tells keeps the number of a running attempt in place.
LEMMA OtherFits ==
    ASSUME NEW h \in Seq(Comment), NEW e \in Comment, NEW b \in Nat, Bounded(h, b),
           NEW c \in Checkpoint, AttemptFits(h, c), Undisturbed(h, e, c)
    PROVE  AttemptFits(Append(h, e), c)
<1> DEFINE g == Append(h, e)
<1>1. /\ \A n : Told(h, n) => Told(g, n)
      /\ \A j \in 1..Len(g) : (j \in 1..Len(h) /\ g[j] = h[j]) \/ g[j] = e
    BY ToldGrows
<1> HIDE DEF g
<1>2. TellsRightly(g, c)
    BY <1>1 DEF TellsRightly, AttemptFits, Undisturbed
<1>3. TellsInOrder(g, c)
    <2>1. CASE Told(h, c.attempt)
        BY <1>1, <2>1 DEF TellsInOrder
    <2>2. CASE ~Told(h, c.attempt)
        <3>1. \A j \in 1..Len(h) : h[j].attempt < c.attempt
            BY <2>2 DEF AttemptFits, TellsInOrder
        <3>2. e.attempt < c.attempt
            BY <2>2, <3>1 DEF Undisturbed, Told
        <3> QED BY <1>1, <3>1, <3>2 DEF TellsInOrder
    <2> QED BY <2>1, <2>2
<1>4. IntentCovers(g, c)
    <2> SUFFICES ASSUME c.source = "automatic", c.intent # None
                 PROVE  Told(g, c.attempt) /\ CoversOwn(g, c.attempt, c.intent)
        BY DEF IntentCovers
    <2>1. Told(h, c.attempt) /\ CoversOwn(h, c.attempt, c.intent) /\ c.intent \in Nat
        BY DEF AttemptFits, IntentCovers, Checkpoint
    <2> QED BY <1>1, <2>1, OtherCovered DEF g
<1> QED BY <1>2, <1>3, <1>4 DEF AttemptFits, g

\* The two outcomes of a publication: h is the history after it.
TellsOwn(w, h) ==
    \/ h = comments[ckpt[w].issue] /\ Told(h, ckpt[w].attempt)
    \/ \E e \in Comment : Fits(w, e) /\ h = Append(comments[ckpt[w].issue], e)

\* A standing that covers the attempt goes on to do so, and the attempt is told.
LEMMA OwnCovered ==
    ASSUME ClaimInv, HistoryInv, NEW w \in Workers, Publishes(w), NEW h, TellsOwn(w, h)
    PROVE  /\ Told(h, ckpt[w].attempt)
           /\ TellsRightly(h, ckpt[w])
           /\ \A s \in Nat : CoversOwn(comments[ckpt[w].issue], ckpt[w].attempt, s) =>
                                CoversOwn(h, ckpt[w].attempt, s)
<1> DEFINE c == ckpt[w]
           h0 == comments[ckpt[w].issue]
<1>1. /\ c \in Checkpoint /\ c.attempt \in Nat /\ attempts \in Nat
      /\ h0 \in Seq(Comment) /\ Bounded(h0, attempts) /\ Sound(h0) /\ AttemptFits(h0, c)
    BY PublishFrom
<1>2. CASE h = h0 /\ Told(h, c.attempt)
    BY <1>1, <1>2 DEF AttemptFits
<1>3. ASSUME NEW e \in Comment, Fits(w, e), h = Append(h0, e)
      PROVE  /\ Told(h, c.attempt) /\ TellsRightly(h, c)
             /\ \A s \in Nat : CoversOwn(h0, c.attempt, s) => CoversOwn(h, c.attempt, s)
    <2>1. e.attempt = c.attempt /\ (c.kind = "ordinary" => e.kind = c.source)
        BY <1>3 DEF Fits
    <2>2. /\ Told(h, e.attempt)
          /\ \A j \in 1..Len(h) : (j \in 1..Len(h0) /\ h[j] = h0[j]) \/ h[j] = e
        BY <1>1, <1>3, ToldGrows
    <2>3. TellsRightly(h, c)
        BY <1>1, <2>1, <2>2 DEF TellsRightly, AttemptFits
    <2>4. e.attempt >= c.attempt
        BY <1>1, <2>1
    <2>5. \A s \in Nat : CoversOwn(h0, c.attempt, s) => CoversOwn(h, c.attempt, s)
        BY <1>1, <1>3, <2>4, CoversOwnKept
    <2> QED BY <2>1, <2>2, <2>3, <2>5
<1> QED BY <1>2, <1>3 DEF TellsOwn

\* A publication writes one history, as TellsOwn says.
LEMMA PublishOutcome ==
    ASSUME ClaimInv, HistoryInv, NEW w \in Workers, Publishes(w)
    PROVE  /\ TellsOwn(w, comments'[ckpt[w].issue])
           /\ \A i \in Issues : i # ckpt[w].issue => comments'[i] = comments[i]
<1>1. ckpt[w].issue \in Issues /\ comments \in [Issues -> Seq(Comment)]
    BY PublishFrom DEF ClaimInv, ClaimTypeOK
<1>2. CASE comments' = comments /\ Posted(ckpt[w].issue, ckpt[w].attempt)
    BY <1>2 DEF TellsOwn, Told, Posted
<1>3. ASSUME NEW e \in Comment, Fits(w, e), AddsFitting(w, e)
      PROVE  /\ TellsOwn(w, comments'[ckpt[w].issue])
             /\ \A i \in Issues : i # ckpt[w].issue => comments'[i] = comments[i]
    <2>1. comments'[ckpt[w].issue] = Append(comments[ckpt[w].issue], e)
        BY <1>1, <1>3 DEF AddsFitting
    <2>2. \A i \in Issues : i # ckpt[w].issue => comments'[i] = comments[i]
        BY <1>1, <1>3 DEF AddsFitting
    <2> QED BY <1>3, <2>1, <2>2 DEF TellsOwn
<1> QED BY <1>2, <1>3, PublishFits DEF ClaimInv

\* What a publication does to its worker and to the others.
LEMMA PublishMoves ==
    ASSUME ClaimInv, HistoryInv, NEW w \in Workers, Publishes(w)
    PROVE  /\ wpc'[w] = "recording" =>
                ckpt'[w] = ckpt[w] /\ job'[w].standing = StandingOf(w)
           /\ \/ ckpt'[w] = ckpt[w]
              \/ ckpt'[w] = [ckpt[w] EXCEPT !.intent = StandingOf(w)]
           /\ attempts' = attempts /\ stalled' = stalled
           /\ wpc'[w] \notin Claiming \union Won
           /\ OthersKept(w)
<1>1. OthersKept(w)
    BY StepMovesOne DEF ClaimInv, WorkerStep, Publishes
<1>2. attempts' = attempts /\ stalled' = stalled /\ wpc'[w] \notin Claiming \union Won
    BY DEF Publishes, PublishResult, RecordHandoff, NotifyHandoff, Goto, ClaimInv, ClaimTypeOK,
           Claiming, Won
<1>3. CASE PublishResult(w)
    <2>1. ckpt' = ckpt /\ wpc[w] = "working"
        BY <1>3 DEF PublishResult
    <2>2. PICK k \in ResultKinds(ckpt[w], job[w].recovered), r \in {"handoff", "other"},
               record \in BOOLEAN :
            /\ job' = [job EXCEPT ![w].result = r, ![w].recovered = FALSE,
                                  ![w].standing = IF record THEN Standing(ckpt[w]) ELSE 0]
            /\ Goto(w, IF k = "escalation" THEN "escalating"
                       ELSE IF record THEN "recording" ELSE "posted")
        BY <1>3, Zenon DEF PublishResult
    <2>3. wpc'[w] = "recording" => record = TRUE
        BY <2>2 DEF Goto, ClaimInv, ClaimTypeOK
    <2>4. job' = [job EXCEPT ![w] = [job[w] EXCEPT !.result = r, !.recovered = FALSE,
                                      !.standing = IF record THEN Standing(ckpt[w]) ELSE 0]]
        BY <2>2
    <2>5. job[w] \in Job /\ job \in [Workers -> Job]
        BY DEF ClaimInv, ClaimTypeOK
    <2>6. job'[w].standing = IF record THEN Standing(ckpt[w]) ELSE 0
        BY <2>4, <2>5 DEF Job
    <2> QED BY <1>1, <1>2, <2>1, <2>3, <2>6 DEF StandingOf
<1>4. CASE RecordHandoff(w)
    <2>1. ckpt' = [ckpt EXCEPT ![w] = [ckpt[w] EXCEPT !.intent = StandingOf(w)]]
        BY <1>4 DEF RecordHandoff, StandingOf
    <2>2. wpc'[w] # "recording"
        BY <1>4 DEF RecordHandoff, Goto, ClaimInv, ClaimTypeOK
    <2>3. ckpt'[w] = [ckpt[w] EXCEPT !.intent = StandingOf(w)]
        BY <2>1 DEF ClaimInv, ClaimTypeOK
    <2> QED BY <1>1, <1>2, <2>2, <2>3
<1>5. CASE NotifyHandoff(w)
    BY <1>1, <1>2, <1>5 DEF NotifyHandoff, Goto, ClaimInv, ClaimTypeOK
<1> QED BY <1>3, <1>4, <1>5 DEF Publishes

\* A publication keeps the numbers and the histories.
LEMMA PublishKeepsHistory ==
    ASSUME ClaimInv, HistoryInv, NEW w \in Workers, Publishes(w)
    PROVE  HistoryInv'
<1> DEFINE c == ckpt[w]
           i0 == ckpt[w].issue
           h == comments[ckpt[w].issue]
           g == comments'[ckpt[w].issue]
<1>1. /\ c \in Checkpoint /\ c # None /\ i0 \in Issues /\ c.attempt \in Nat /\ attempts \in Nat
      /\ c.attempt <= attempts
      /\ h \in Seq(Comment) /\ Bounded(h, attempts) /\ Sound(h) /\ AttemptFits(h, c)
    BY PublishFrom
<1>2. TellsOwn(w, g) /\ \A i \in Issues : i # i0 => comments'[i] = comments[i]
    BY PublishOutcome
<1>3. /\ wpc'[w] = "recording" => ckpt'[w] = c /\ job'[w].standing = StandingOf(w)
      /\ ckpt'[w] = c \/ ckpt'[w] = [c EXCEPT !.intent = StandingOf(w)]
      /\ attempts' = attempts /\ OthersKept(w)
    BY PublishMoves
<1>4. /\ Told(g, c.attempt) /\ TellsRightly(g, c)
      /\ \A s \in Nat : CoversOwn(h, c.attempt, s) => CoversOwn(g, c.attempt, s)
    BY <1>2, OwnCovered
<1>5. /\ ckpt'[w] \in Checkpoint /\ ckpt'[w] # None
      /\ ckpt'[w].issue = i0 /\ ckpt'[w].attempt = c.attempt
      /\ ckpt'[w].kind = c.kind /\ ckpt'[w].source = c.source
    BY PublishKeepsCheckpoint, ClaimNoneAssumption DEF ClaimInv
<1>6. Bounded(g, attempts) /\ Sound(g)
    <2>1. CASE g = h
        BY <1>1, <2>1
    <2>2. ASSUME NEW e \in Comment, Fits(w, e), g = Append(h, e)
          PROVE  Bounded(g, attempts) /\ Sound(g)
        <3>1. e.attempt = c.attempt /\ KeepsSound(h, e)
            BY <2>2, FittingKeepsSound
        <3> QED BY <1>1, <2>2, <3>1, SoundAfter, BoundedAfter
    <2> QED BY <1>2, <2>1, <2>2 DEF TellsOwn
<1>7. Numbered'
    <2>1. \A i \in Issues : Bounded(comments'[i], attempts')
        <3> SUFFICES ASSUME NEW i \in Issues PROVE Bounded(comments'[i], attempts)
            BY <1>3
        <3>1. CASE i = i0
            BY <1>6, <3>1
        <3>2. CASE i # i0
            BY <1>2, <3>2 DEF HistoryInv, Numbered
        <3> QED BY <3>1, <3>2
    <2>2. \A v \in Workers : ckpt'[v] # None =>
            ckpt[v] # None /\ ckpt'[v].attempt = ckpt[v].attempt
        BY <1>1, <1>3, <1>5 DEF OthersKept
    <2>3. \A v \in Workers : ckpt'[v] # None => ckpt'[v].attempt <= attempts'
        BY <1>3, <2>2 DEF HistoryInv, Numbered
    <2>4. \A u, v \in Workers : ckpt'[u] # None /\ ckpt'[v] # None
                                    /\ ckpt'[u].attempt = ckpt'[v].attempt => u = v
        BY <2>2 DEF HistoryInv, Numbered
    <2> QED BY <2>1, <2>3, <2>4 DEF Numbered
<1>8. \A i \in Issues : Sound(comments'[i])
    <2> SUFFICES ASSUME NEW i \in Issues PROVE Sound(comments'[i])
        OBVIOUS
    <2>1. CASE i = i0
        BY <1>6, <2>1
    <2>2. CASE i # i0
        BY <1>2, <2>2 DEF HistoryInv
    <2> QED BY <2>1, <2>2
<1>9. ASSUME NEW v \in Workers, v # w, ckpt[v] # None, ckpt[v].issue = i0
      PROVE  /\ ckpt[v] \in Checkpoint /\ AttemptFits(g, ckpt[v])
             /\ \A s \in Nat : Told(h, ckpt[v].attempt) /\ CoversOwn(h, ckpt[v].attempt, s) =>
                    CoversOwn(g, ckpt[v].attempt, s)
    <2>1. ckpt[v] \in Checkpoint /\ AttemptFits(h, ckpt[v]) /\ ckpt[v].attempt # c.attempt
        BY <1>1, <1>9 DEF HistoryInv, Numbered, ClaimInv, ClaimTypeOK
    <2>2. CASE g = h
        BY <2>1, <2>2
    <2>3. ASSUME NEW e \in Comment, Fits(w, e), g = Append(h, e)
          PROVE  /\ AttemptFits(g, ckpt[v])
                 /\ \A s \in Nat : Told(h, ckpt[v].attempt) /\ CoversOwn(h, ckpt[v].attempt, s) =>
                        CoversOwn(g, ckpt[v].attempt, s)
        <3>1. /\ e.attempt = c.attempt
              /\ \/ e.kind # "automatic" \/ ToldAs(h, e.attempt, e.kind)
                 \/ \A j \in 1..Len(h) : h[j].attempt < e.attempt
            BY <2>3, FittingKeepsSound
        <3>2. ~Told(h, ckpt[v].attempt) => Told(h, c.attempt)
            <4> SUFFICES ASSUME ~Told(h, ckpt[v].attempt), ~Told(h, c.attempt) PROVE FALSE
                OBVIOUS
            <4>1. Holds(v, i0) /\ Holds(w, i0)
                BY <1>1, <1>9 DEF Holds, Posted, Told
            <4> QED BY <1>1, <1>9, <4>1 DEF ClaimInv, OneWorkerPerIssue
        <3>3. Undisturbed(h, e, ckpt[v])
            BY <2>1, <3>1, <3>2 DEF Undisturbed
        <3> QED BY <1>1, <2>1, <2>3, <3>3, OtherFits, OtherCovered
    <2> QED BY <1>2, <2>1, <2>2, <2>3 DEF TellsOwn
<1>10. ASSUME NEW v \in Workers, ckpt'[v] # None
       PROVE  AttemptFits(comments'[ckpt'[v].issue], ckpt'[v])
    <2>1. CASE v # w
        <3>1. ckpt'[v] = ckpt[v] /\ ckpt[v] # None /\ ckpt[v].issue \in Issues
            BY <1>3, <1>10, <2>1 DEF OthersKept, ClaimInv, ClaimTypeOK, Checkpoint
        <3>2. CASE ckpt[v].issue = i0
            BY <1>9, <2>1, <3>1, <3>2
        <3>3. CASE ckpt[v].issue # i0
            BY <1>2, <3>1, <3>3 DEF HistoryInv
        <3> QED BY <3>2, <3>3
    <2>2. CASE v = w
        <3> DEFINE d == ckpt'[w]
        <3>1. TellsRightly(g, d) /\ TellsInOrder(g, d)
            BY <1>4, <1>5 DEF TellsRightly, TellsInOrder
        <3>2. IntentCovers(g, d)
            <4> SUFFICES ASSUME d.source = "automatic", d.intent # None
                         PROVE  CoversOwn(g, d.attempt, d.intent)
                BY <1>4, <1>5 DEF IntentCovers
            <4>1. CASE d = c
                BY <1>1, <1>4, <4>1 DEF AttemptFits, IntentCovers, Checkpoint
            <4>2. CASE d = [c EXCEPT !.intent = StandingOf(w)]
                <5>1. d.intent = StandingOf(w)
                    BY <1>1, <4>2 DEF Checkpoint
                <5>2. StandingOf(w) \in Nat /\ CoversOwn(h, c.attempt, StandingOf(w))
                    BY <1>5, StandingCovers
                <5> QED BY <1>4, <1>5, <5>1, <5>2
            <4> QED BY <1>3, <4>1, <4>2
        <3> QED BY <1>5, <2>2, <3>1, <3>2 DEF AttemptFits
    <2> QED BY <2>1, <2>2
<1>11. ASSUME NEW v \in Workers, wpc'[v] = "recording", ckpt'[v].source = "automatic"
       PROVE  CoversOwn(comments'[ckpt'[v].issue], ckpt'[v].attempt, job'[v].standing)
    <2>1. CASE v # w
        <3>1. /\ ckpt'[v] = ckpt[v] /\ wpc[v] = "recording" /\ job'[v] = job[v]
              /\ job[v].standing \in Nat
            BY <1>3, <1>11, <2>1 DEF OthersKept, ClaimInv, ClaimTypeOK, Job
        <3>2. /\ ckpt[v] \in Checkpoint /\ ckpt[v].issue \in Issues /\ ckpt[v] # None
              /\ Posted(ckpt[v].issue, ckpt[v].attempt)
            BY <3>1, ClaimNoneAssumption
               DEF ClaimInv, JobLinked, Linked, Publishing, Checkpoint
        <3>3. CoversOwn(comments[ckpt[v].issue], ckpt[v].attempt, job[v].standing)
            BY <1>11, <3>1 DEF HistoryInv, Recorded
        <3>4. CASE ckpt[v].issue = i0
            <4>1. Told(h, ckpt[v].attempt)
                BY <3>2, <3>4 DEF Posted, Told
            <4> QED BY <1>9, <2>1, <3>1, <3>2, <3>3, <3>4, <4>1
        <3>5. CASE ckpt[v].issue # i0
            BY <1>2, <3>1, <3>2, <3>3, <3>5
        <3> QED BY <3>4, <3>5
    <2>2. CASE v = w
        <3>1. StandingOf(w) \in Nat /\ CoversOwn(h, c.attempt, StandingOf(w))
            BY <1>5, <1>11, <2>2, StandingCovers
        <3> QED BY <1>3, <1>4, <1>5, <1>11, <2>2, <3>1
    <2> QED BY <2>1, <2>2
<1> HIDE DEF c, i0, h, g
<1> QED BY <1>7, <1>8, <1>10, <1>11 DEF HistoryInv, Recorded

\* The other steps of a worker write no comment; only the first and the last one
\* of an attempt touch its checkpoint.
LEMMA QuietSteps ==
    ASSUME ClaimInv, NEW w \in Workers, WorkerStep(w) \/ Crash(w) \/ Restart(w), ~Publishes(w)
    PROVE  /\ comments' = comments /\ wpc'[w] # "recording"
           /\ UNCHANGED <<ckpt, attempts>> \/ StartAttempt(w) \/ FinalizeAttempt(w)
    BY DEF Publishes, WorkerStep, AssignIssue, AddMarker, VerifyClaim, YieldClaim, YieldRead,
           YieldUnassign, ClearFinished, ClearConflict, StartAttempt, EscalateToHuman,
           ReleaseLabel, HandOff, ReleaseMarker, ReleaseRead, ReleaseAssignee, FinalizeAttempt,
           LabelConflict, Crash, Restart, SelectIssue, DetectConflict, github, Goto,
           ClaimInv, ClaimTypeOK

\* They keep the numbers and the histories.
LEMMA QuietKeepsHistory ==
    ASSUME ClaimInv, HistoryInv, NEW w \in Workers, WorkerStep(w) \/ Crash(w) \/ Restart(w),
           ~Publishes(w)
    PROVE  HistoryInv'
<1>1. /\ comments' = comments /\ wpc'[w] # "recording" /\ OthersKept(w)
      /\ UNCHANGED <<ckpt, attempts>> \/ StartAttempt(w) \/ FinalizeAttempt(w)
    BY QuietSteps, StepMovesOne DEF ClaimInv
<1>2. attempts \in Nat
    BY BoundAssumption DEF ClaimInv, ClaimTypeOK
<1>3. ASSUME NEW n \in Nat, attempts <= n, NEW i \in Issues
      PROVE  Bounded(comments[i], n)
    <2> SUFFICES ASSUME NEW j \in 1..Len(comments[i]) PROVE comments[i][j].attempt <= n
        BY DEF Bounded
    <2>1. comments[i] \in Seq(Comment)
        BY DEF ClaimInv, ClaimTypeOK
    <2>2. comments[i][j].attempt \in Nat /\ comments[i][j].attempt <= attempts
        BY <2>1, EntryTyped DEF HistoryInv, Numbered, Bounded
    <2> QED BY <1>2, <1>3, <2>2
<1>4. ASSUME NEW v \in Workers PROVE Recorded(v)'
    <2>1. CASE v = w
        BY <1>1, <2>1 DEF Recorded
    <2>2. CASE v # w
        <3>1. wpc'[v] = wpc[v] /\ job'[v] = job[v] /\ ckpt'[v] = ckpt[v]
            BY <1>1, <2>2 DEF OthersKept
        <3> QED BY <1>1, <3>1 DEF Recorded, HistoryInv
    <2> QED BY <2>1, <2>2
<1>5. CASE UNCHANGED <<ckpt, attempts>>
    <2>1. Numbered'
        BY <1>1, <1>5 DEF HistoryInv, Numbered
    <2> QED BY <1>1, <1>4, <1>5, <2>1 DEF HistoryInv
<1>6. CASE FinalizeAttempt(w)
    <2>1. ckpt'[w] = None /\ attempts' = attempts
        BY <1>6 DEF FinalizeAttempt, ClaimInv, ClaimTypeOK
    <2>2. \A v \in Workers : ckpt'[v] # None => ckpt'[v] = ckpt[v]
        BY <1>1, <2>1 DEF OthersKept
    <2>3. Numbered'
        BY <1>1, <2>1, <2>2 DEF HistoryInv, Numbered
    <2> QED BY <1>1, <1>4, <2>2, <2>3 DEF HistoryInv
<1>7. CASE StartAttempt(w)
    <2>1. /\ attempts' = attempts + 1 /\ job[w].issue \in Issues
          /\ ckpt'[w] = [issue |-> job[w].issue, attempt |-> attempts + 1,
                  kind |-> IF IsConflictClaim(job[w].claim) THEN "conflict" ELSE "ordinary",
                  source |-> SourceOf(job[w].claim), intent |-> None]
        BY <1>7 DEF StartAttempt, ClaimInv, ClaimTypeOK, JobLinked, Linked, Won
    <2>2. \A v \in Workers : v # w => ckpt'[v] = ckpt[v]
        BY <1>1 DEF OthersKept
    <2>3. /\ ckpt'[w].issue = job[w].issue /\ ckpt'[w].attempt = attempts + 1
          /\ ckpt'[w].intent = None
        BY <2>1
    <2>4. \A v \in Workers : ckpt[v] # None => ckpt[v].attempt \in Nat /\ ckpt[v].attempt <= attempts
        BY DEF HistoryInv, Numbered, ClaimInv, ClaimTypeOK, Checkpoint
    <2>5. Numbered'
        <3>1. \A i \in Issues : Bounded(comments'[i], attempts')
            BY <1>1, <1>2, <1>3, <2>1
        <3>2. \A v \in Workers : ckpt'[v] # None => ckpt'[v].attempt <= attempts'
            BY <1>2, <2>1, <2>2, <2>3, <2>4
        <3>3. ASSUME NEW u \in Workers, NEW v \in Workers, ckpt'[u] # None, ckpt'[v] # None,
                     ckpt'[u].attempt = ckpt'[v].attempt
              PROVE  u = v
            <4>1. CASE u # w /\ v # w
                BY <2>2, <3>3, <4>1 DEF HistoryInv, Numbered
            <4>2. CASE u = w /\ v # w
                BY <1>2, <2>2, <2>3, <2>4, <3>3, <4>2
            <4>3. CASE u # w /\ v = w
                BY <1>2, <2>2, <2>3, <2>4, <3>3, <4>3
            <4> QED BY <4>1, <4>2, <4>3
        <3> QED BY <3>1, <3>2, <3>3 DEF Numbered
    <2>6. AttemptFits(comments[job[w].issue], ckpt'[w])
        <3> DEFINE h == comments[job[w].issue]
        <3>1. \A j \in 1..Len(h) : h[j].attempt \in Nat /\ h[j].attempt <= attempts
            BY <2>1, EntryTyped DEF HistoryInv, Numbered, Bounded, ClaimInv, ClaimTypeOK
        <3>2. \A j \in 1..Len(h) : h[j].attempt < ckpt'[w].attempt
                                    /\ h[j].attempt # ckpt'[w].attempt
            BY <1>2, <2>3, <3>1
        <3> QED BY <2>3, <3>2 DEF AttemptFits, TellsRightly, TellsInOrder, IntentCovers
    <2>7. \A v \in Workers : ckpt'[v] # None => AttemptFits(comments'[ckpt'[v].issue], ckpt'[v])
        BY <1>1, <2>2, <2>3, <2>6 DEF HistoryInv
    <2> QED BY <1>1, <1>4, <2>5, <2>7 DEF HistoryInv
<1> QED BY <1>1, <1>5, <1>6, <1>7

\* The histories are in order from the start and stay so, over late results,
\* overwritten records, crashes and stalled peers.
THEOREM HistoriesInOrder == ClaimSpec => []HistoryInv
<1>1. ClaimInit => HistoryInv
    <2> SUFFICES ASSUME ClaimInit PROVE HistoryInv
        OBVIOUS
    <2>1. ASSUME NEW i \in Issues
          PROVE  Bounded(comments[i], attempts) /\ Sound(comments[i])
        <3>1. comments[i] = <<>> /\ Versions(<<>>) = {} /\ Newer(<<>>) = {}
            BY DEF ClaimInit, Versions, Newer, Results
        <3>2. <<>> \in Seq(Comment) /\ Upto(<<>>, 0) = {}
            BY DEF Upto, AutomaticRow
        <3>3. SharedRecord(<<>>).attempt = 0 /\ SharedRecord(<<>>).standing = 0
            BY <3>1, <3>2, RecordShown
        <3>4. Cardinality(Upto(<<>>, 0)) <= 0
            <4>1. Cardinality({}) = 0
                BY FS_EmptySet
            <4>2. Cardinality(Upto(<<>>, 0)) = 0
                BY <3>2, <4>1, Zenon
            <4> QED BY <4>2
        <3>5. RecordCovers(<<>>)
            BY <3>3, <3>4 DEF RecordCovers, Covers
        <3>6. Sound(<<>>)
            BY <3>1, <3>5 DEF Sound, RecordNewest, ResultsInOrder
        <3> QED BY <3>1, <3>6 DEF Bounded
    <2>2. \A w \in Workers : ckpt[w] = None /\ wpc[w] = "idle"
        BY DEF ClaimInit
    <2> QED BY <2>1, <2>2 DEF HistoryInv, Numbered, Recorded
<1>2. ClaimInv /\ HistoryInv /\ [ClaimNext]_claimVars => HistoryInv'
    <2> SUFFICES ASSUME ClaimInv, HistoryInv, [ClaimNext]_claimVars PROVE HistoryInv'
        OBVIOUS
    <2>1. CASE UNCHANGED <<comments, wpc, job, ckpt, attempts>>
        <3>1. Numbered' /\ \A w \in Workers : Recorded(w)'
            BY <2>1 DEF HistoryInv, Numbered, Recorded
        <3> QED BY <2>1, <3>1 DEF HistoryInv
    <2>2. ASSUME NEW w \in Workers, WorkerStep(w) \/ Crash(w) \/ Restart(w) PROVE HistoryInv'
        BY <2>2, PublishKeepsHistory, QuietKeepsHistory
    <2>3. ASSUME NEW i \in Issues, PersonActs(i) PROVE UNCHANGED <<comments, wpc, job, ckpt, attempts>>
        BY <2>3 DEF PersonActs
    <2>4. CASE UNCHANGED claimVars
        BY <2>1, <2>4 DEF claimVars
    <2> QED BY <2>1, <2>2, <2>3, <2>4 DEF ClaimNext
<1> QED BY <1>1, <1>2, ClaimInvariant, PTL DEF ClaimSpec

-----------------------------------------------------------------------------
(* The continuation budget.                                                *)

\* While w claims an issue, nobody else has it.
Alone ==
    \A v, w \in Workers, i \in Issues :
        v # w /\ wpc[w] \in Claiming /\ job[w].issue = i => ~Holds(v, i)

\* w is about to continue issue i on its own account: it claims or has it for an
\* automatic attempt, or its automatic attempt is not told yet.
Continues(w, i) ==
    \/ wpc[w] \in Claiming \union Won /\ job[w].issue = i /\ SourceOf(job[w].claim) = "automatic"
    \/ /\ ckpt[w] # None /\ ckpt[w].issue = i /\ ckpt[w].source = "automatic"
       /\ ~Posted(i, ckpt[w].attempt)

\* Then the budget still has room: what w read when it selected i is still true.
Fresh ==
    \A w \in Workers, i \in Issues :
        Continues(w, i) => Cardinality(AutomaticRow(comments[i])) < MaxCont

WithinBudget == \A i \in Issues : Cardinality(AutomaticRow(comments[i])) <= MaxCont

RoomInv == stalled \/ (Alone /\ Fresh /\ WithinBudget)

\* How a worker comes to claim an issue: it selects it, or it already did.
LEMMA StepClaims ==
    ASSUME ClaimInv, NEW w \in Workers, WorkerStep(w) \/ Crash(w) \/ Restart(w),
           NEW i \in Issues, wpc'[w] \in Claiming \union Won, job'[w].issue = i
    PROVE  \/ SelectIssue(w, i) /\ job'[w].claim = labels[i]
           \/ /\ wpc[w] \in Claiming \union Won /\ job[w].issue = i
              /\ job'[w].claim = job[w].claim
              /\ wpc'[w] \in Claiming => wpc[w] \in Claiming
<1> USE DEF ClaimInv, ClaimTypeOK, Claiming, Won, Goto
<1>1. CASE AssignIssue(w) \/ AddMarker(w) \/ ClearFinished(w) \/ ClearConflict(w)
    <2>1. job'[w].issue = job[w].issue /\ job'[w].claim = job[w].claim
        BY <1>1 DEF AssignIssue, AddMarker, ClearFinished, ClearConflict, Job
    <2> QED BY <1>1, <2>1 DEF AssignIssue, AddMarker, ClearFinished, ClearConflict
<1>2. CASE VerifyClaim(w)
    <2>1. job'[w] = [job[w] EXCEPT !.seen = labels[job[w].issue]]
        BY <1>2 DEF VerifyClaim
    <2>2. job[w] \in Job
        OBVIOUS
    <2>3. job'[w].issue = job[w].issue /\ job'[w].claim = job[w].claim
        BY <2>1, <2>2 DEF Job
    <2>4. wpc[w] \in Claiming /\ wpc'[w] \notin Claiming
        BY <1>2 DEF VerifyClaim
    <2> QED BY <2>3, <2>4
<1>3. ASSUME NEW j \in Issues, SelectIssue(w, j)
      PROVE  SelectIssue(w, i) /\ job'[w].claim = labels[i]
    <2>1. job'[w] = [NoJob EXCEPT !.issue = j, !.claim = labels[j]]
        BY <1>3 DEF SelectIssue
    <2>2. job'[w].issue = j /\ job'[w].claim = labels[j]
        BY <2>1 DEF NoJob
    <2> QED BY <1>3, <2>2
<1>4. \/ AssignIssue(w) \/ AddMarker(w) \/ ClearFinished(w) \/ ClearConflict(w) \/ VerifyClaim(w)
      \/ \E j \in Issues : SelectIssue(w, j)
    BY ZenonT(40) DEF WorkerStep, YieldClaim, YieldRead, YieldUnassign, StartAttempt, EscalateToHuman,
           ReleaseLabel, HandOff, ReleaseMarker, ReleaseRead, ReleaseAssignee, FinalizeAttempt,
           LabelConflict, Crash, Restart, DetectConflict, PublishResult, RecordHandoff,
           NotifyHandoff
<1> QED BY <1>1, <1>2, <1>3, <1>4

\* A verification that wins while another worker claims the issue: the other one
\* had not marked it within the settle delay.
LEMMA WinsStalled ==
    ASSUME ClaimInv, NEW v \in Workers, NEW w \in Workers, v # w, NEW i \in Issues,
           wpc[w] \in Claiming, job[w].issue = i,
           VerifyClaim(v), job[v].issue = i, ~Contested(v, i)
    PROVE  stalled' = TRUE
<1>1. wpc[w] # "settling"
    <2> SUFFICES ASSUME wpc[w] = "settling" PROVE FALSE
        OBVIOUS
    <2>1. Seen(w, i)
        BY DEF ClaimInv, Visible, Claims
    <2> QED BY <2>1 DEF Seen, Contested, HasMarker, LoginOf
<1>2. wpc[w] \in {"selected", "assigned"}
    BY <1>1 DEF Claiming
<1> QED BY <1>2 DEF VerifyClaim

\* Nobody joins a claim unless a peer outlasts the settle delay.
LEMMA StepAlone ==
    ASSUME ClaimInv, Alone, NEW u \in Workers, WorkerStep(u) \/ Crash(u) \/ Restart(u), ~stalled'
    PROVE  Alone'
<1> SUFFICES ASSUME NEW v \in Workers, NEW w \in Workers, NEW i \in Issues, v # w,
                    wpc'[w] \in Claiming, job'[w].issue = i, Holds(v, i)'
             PROVE  FALSE
    BY DEF Alone
<1>1. OthersKept(u) /\ PostsKept
    BY StepMovesOne, StepKeepsPosts DEF ClaimInv
<1>2. ASSUME v # u PROVE Holds(v, i)
    <2>1. wpc'[v] = wpc[v] /\ job'[v] = job[v] /\ ckpt'[v] = ckpt[v]
        BY <1>1, <1>2 DEF OthersKept
    <2>2. ckpt[v] # None => ckpt[v].attempt \in Nat
        BY DEF ClaimInv, ClaimTypeOK, Checkpoint
    <2>3. Posted(i, ckpt[v].attempt) /\ ckpt[v] # None => Posted(i, ckpt[v].attempt)'
        BY <1>1, <2>1, <2>2 DEF PostsKept, Posted
    <2> QED BY <2>1, <2>3 DEF Holds, Posted
<1>3. ASSUME w # u PROVE wpc[w] \in Claiming /\ job[w].issue = i
    BY <1>1, <1>3 DEF OthersKept
<1>4. CASE w = u
    <2>1. Holds(v, i)
        BY <1>2, <1>4
    <2>2. CASE SelectIssue(w, i)
        <3>1. Seen(v, i)
            BY <2>1 DEF ClaimInv, Visible, Claims
        <3> QED BY <2>2, <3>1 DEF SelectIssue, Eligible, BaseRules, Seen
    <2>3. CASE wpc[w] \in Claiming /\ job[w].issue = i
        BY <2>1, <2>3 DEF Alone
    <2> QED BY <1>4, <2>2, <2>3, StepClaims
<1>5. CASE v = u
    <2>1. wpc[w] \in Claiming /\ job[w].issue = i
        BY <1>3, <1>5
    <2>2. ~Holds(v, i)
        BY <2>1 DEF Alone
    <2>3. VerifyClaim(v) /\ job[v].issue = i /\ ~Contested(v, i)
        BY <1>5, <2>2, StepHolds DEF ClaimInv
    <2> QED BY <2>1, <2>3, WinsStalled
<1>6. CASE v # u /\ w # u
    BY <1>2, <1>3, <1>6 DEF Alone
<1> QED BY <1>4, <1>5, <1>6

\* The length of the row.
RowLength(h) == Cardinality(AutomaticRow(h))

\* A publication makes the row of an issue longer only by an automatic attempt
\* that was not told before, and then by one.
LEMMA RowStep ==
    ASSUME ClaimInv, HistoryInv, NEW u \in Workers, Publishes(u), NEW i \in Issues
    PROVE  /\ RowLength(comments[i]) \in Nat /\ RowLength(comments'[i]) \in Nat
           /\ \/ RowLength(comments'[i]) <= RowLength(comments[i])
              \/ /\ Continues(u, i) /\ Holds(u, i)
                 /\ RowLength(comments'[i]) <= RowLength(comments[i]) + 1
<1> DEFINE c == ckpt[u]
           h == comments[i]
           g == comments'[i]
<1>1. /\ c \in Checkpoint /\ c # None /\ c.attempt \in Nat /\ attempts \in Nat
      /\ c.attempt <= attempts
      /\ c.issue = i => AttemptFits(h, c)
      /\ h \in Seq(Comment) /\ Bounded(h, attempts)
    BY PublishFrom DEF ClaimInv, ClaimTypeOK, HistoryInv, Numbered
<1>2. IsFiniteSet(AutomaticRow(h)) /\ Cardinality(AutomaticRow(h)) \in Nat
    BY <1>1, RowFinite
<1>3. CASE g = h
    BY <1>2, <1>3 DEF RowLength
<1>4. ASSUME NEW e \in Comment, Fits(u, e), g = Append(h, e), c.issue = i
      PROVE  /\ RowLength(g) \in Nat
             /\ \/ RowLength(g) <= RowLength(h)
                \/ Continues(u, i) /\ Holds(u, i) /\ RowLength(g) <= RowLength(h) + 1
    <2> DEFINE A == AutomaticRow(h)
               B == AutomaticRow(g)
    <2>1. /\ e.attempt = c.attempt
          /\ e.kind = "automatic" => c.source = "automatic"
          /\ \/ e.kind # "automatic" \/ ToldAs(h, e.attempt, e.kind)
             \/ \A j \in 1..Len(h) : h[j].attempt < e.attempt
        BY <1>4, FittingKeepsSound
    <2>2. B \subseteq A \union {e.attempt}
        BY <1>1, <1>4, RowAfter
    <2>3. IsFiniteSet(A \union {e.attempt})
          /\ Cardinality(A \union {e.attempt}) =
                IF e.attempt \in A THEN Cardinality(A) ELSE Cardinality(A) + 1
        BY <1>2, FS_AddElement
    <2>4. IsFiniteSet(B)
        BY <2>2, <2>3, FS_Subset
    <2>5. Cardinality(B) \in Nat
        BY <2>4, FS_CardinalityType
    <2>6. CASE e.kind # "automatic" \/ ToldAs(h, e.attempt, e.kind)
        <3>1. B \subseteq A
            BY <1>1, <1>4, <2>6, RowAfter
        <3>2. Cardinality(B) <= Cardinality(A)
            BY <1>2, <3>1, FS_Subset
        <3> QED BY <2>5, <3>2 DEF RowLength
    <2>7. CASE e.kind = "automatic" /\ \A j \in 1..Len(h) : h[j].attempt < e.attempt
        <3>1. ~Posted(i, c.attempt)
            <4> SUFFICES ASSUME NEW j \in 1..Len(h), h[j].attempt = c.attempt PROVE FALSE
                BY DEF Posted
            <4> QED BY <1>1, <2>1, <2>7
        <3>2. Continues(u, i) /\ Holds(u, i)
            BY <1>1, <1>4, <2>1, <2>7, <3>1 DEF Continues, Holds
        <3>3. Cardinality(B) <= Cardinality(A \union {e.attempt})
            BY <2>2, <2>3, FS_Subset
        <3> HIDE DEF A, B
        <3>4. Cardinality(B) <= Cardinality(A) + 1
            BY <1>2, <2>3, <2>5, <3>3 DEF A
        <3> QED BY <2>5, <3>2, <3>4 DEF RowLength, A, B
    <2> QED BY <2>1, <2>6, <2>7
<1>5. g = h \/ \E e \in Comment : Fits(u, e) /\ g = Append(h, e) /\ c.issue = i
    BY PublishOutcome DEF TellsOwn
<1> QED BY <1>2, <1>3, <1>4, <1>5 DEF RowLength

\* What a worker continues after its step it continued before, or it has just
\* found room for it; a publication leaves it nothing to continue.
LEMMA StepContinues ==
    ASSUME ClaimInv, HistoryInv, NEW u \in Workers, WorkerStep(u) \/ Crash(u) \/ Restart(u),
           NEW i \in Issues, Continues(u, i)'
    PROVE  /\ ~Publishes(u)
           /\ Continues(u, i) \/ AutomaticCount(comments[i]) < MaxCont
<1>1. ~Publishes(u)
    <2> SUFFICES ASSUME Publishes(u) PROVE FALSE
        OBVIOUS
    <2>1. /\ ckpt'[u].issue = ckpt[u].issue /\ ckpt'[u].attempt = ckpt[u].attempt
          /\ wpc'[u] \notin Claiming \union Won
        BY PublishMoves, PublishKeepsCheckpoint DEF ClaimInv
    <2>2. Told(comments'[ckpt[u].issue], ckpt[u].attempt)
        BY PublishOutcome, OwnCovered
    <2> QED BY <2>1, <2>2 DEF Continues, Told, Posted
<1>2. comments' = comments /\ (UNCHANGED <<ckpt, attempts>> \/ StartAttempt(u) \/ FinalizeAttempt(u))
    BY <1>1, QuietSteps
<1>3. CASE wpc'[u] \in Claiming \union Won /\ job'[u].issue = i
            /\ SourceOf(job'[u].claim) = "automatic"
    <2>1. CASE SelectIssue(u, i) /\ job'[u].claim = labels[i]
        <3>1. SourceOf(labels[i]) = "automatic"
            BY <1>3, <2>1
        <3>2. ~IsConflictClaim(labels[i]) /\ Ready \notin labels[i]
            BY <3>1 DEF SourceOf
        <3>3. Eligible(i)
            BY <2>1 DEF SelectIssue
        <3> QED BY <1>1, <3>2, <3>3 DEF Eligible, WithinContinuations
    <2>2. CASE /\ wpc[u] \in Claiming \union Won /\ job[u].issue = i
               /\ job'[u].claim = job[u].claim
        <3>1. SourceOf(job[u].claim) = "automatic"
            BY <1>3, <2>2
        <3> QED BY <1>1, <2>2, <3>1 DEF Continues
    <2> QED BY <1>3, <2>1, <2>2, StepClaims
<1>4. CASE /\ ckpt'[u] # None /\ ckpt'[u].issue = i /\ ckpt'[u].source = "automatic"
           /\ ~Told(comments'[i], ckpt'[u].attempt)
    <2>1. CASE UNCHANGED <<ckpt, attempts>>
        BY <1>1, <1>2, <1>4, <2>1 DEF Continues, Posted, Told
    <2>2. CASE FinalizeAttempt(u)
        BY <1>4, <2>2 DEF FinalizeAttempt, ClaimInv, ClaimTypeOK
    <2>3. CASE StartAttempt(u)
        <3>1. /\ ckpt'[u].issue = job[u].issue /\ ckpt'[u].source = SourceOf(job[u].claim)
              /\ wpc[u] \in Won
            BY <2>3 DEF StartAttempt, ClaimInv, ClaimTypeOK, Won
        <3>2. job[u].issue = i /\ SourceOf(job[u].claim) = "automatic"
            BY <1>4, <3>1
        <3> QED BY <1>1, <3>1, <3>2 DEF Continues
    <2> QED BY <1>2, <2>1, <2>2, <2>3
<1> QED BY <1>3, <1>4 DEF Continues, Posted, Told

\* The workers that do not move continue what they continued.
LEMMA OthersContinue ==
    ASSUME ClaimInv, NEW u \in Workers, WorkerStep(u) \/ Crash(u) \/ Restart(u),
           NEW w \in Workers, w # u, NEW i \in Issues, Continues(w, i)'
    PROVE  Continues(w, i)
<1>1. OthersKept(u) /\ PostsKept
    BY StepMovesOne, StepKeepsPosts DEF ClaimInv
<1>2. wpc'[w] = wpc[w] /\ job'[w] = job[w] /\ ckpt'[w] = ckpt[w]
    BY <1>1 DEF OthersKept
<1>3. ckpt[w] # None => ckpt[w].attempt \in Nat
    BY DEF ClaimInv, ClaimTypeOK, Checkpoint
<1>4. Posted(i, ckpt[w].attempt) /\ ckpt[w] # None => Posted(i, ckpt[w].attempt)'
    BY <1>1, <1>2, <1>3 DEF PostsKept, Posted
<1> QED BY <1>2, <1>4 DEF Continues, Posted

\* A worker that moves keeps the room and the budget.
LEMMA WorkerKeepsRoom ==
    ASSUME ClaimInv, HistoryInv, RoomInv,
           NEW u \in Workers, WorkerStep(u) \/ Crash(u) \/ Restart(u)
    PROVE  RoomInv'
<1> SUFFICES ASSUME ~stalled' PROVE (Alone /\ Fresh /\ WithinBudget)'
    BY DEF RoomInv
<1>1. ~stalled
    <2>1. stalled' = stalled \/ VerifyClaim(u)
        BY DEF WorkerStep, AssignIssue, AddMarker, YieldClaim, YieldRead, YieldUnassign,
               ClearFinished, ClearConflict, StartAttempt, EscalateToHuman, ReleaseLabel, HandOff,
               ReleaseMarker, ReleaseRead, ReleaseAssignee, FinalizeAttempt, LabelConflict, Crash,
               Restart, SelectIssue, DetectConflict, PublishResult, RecordHandoff, NotifyHandoff
    <2> QED BY <2>1 DEF VerifyClaim
<1>2. Alone /\ Fresh /\ WithinBudget
    BY <1>1 DEF RoomInv
<1>3. Alone'
    BY <1>2, StepAlone
<1>4. \A i \in Issues : RowLength(comments[i]) <= MaxCont
    BY <1>2 DEF WithinBudget, RowLength
<1>5. \A w \in Workers, i \in Issues : Continues(w, i) => RowLength(comments[i]) < MaxCont
    BY <1>2 DEF Fresh, RowLength
<1>6. ASSUME NEW i \in Issues PROVE RowLength(comments'[i]) <= MaxCont
    <2>1. CASE comments' = comments
        BY <1>4, <2>1
    <2>2. CASE Publishes(u)
        <3>1. RowLength(comments[i]) \in Nat /\ RowLength(comments'[i]) \in Nat
            BY <2>2, RowStep
        <3>2. CASE RowLength(comments'[i]) <= RowLength(comments[i])
            BY <1>4, <3>1, <3>2, BudgetAssumption
        <3>3. CASE Continues(u, i) /\ RowLength(comments'[i]) <= RowLength(comments[i]) + 1
            <4>1. RowLength(comments[i]) < MaxCont
                BY <1>5, <3>3
            <4> QED BY <3>1, <3>3, <4>1, BudgetAssumption
        <3> QED BY <2>2, <3>2, <3>3, RowStep
    <2> QED BY <2>1, <2>2, OnlyPublicationsWrite
<1>7. ASSUME NEW w \in Workers, NEW i \in Issues, Continues(w, i)'
      PROVE  RowLength(comments'[i]) < MaxCont
    <2>1. CASE w = u
        <3>1. ~Publishes(u) /\ (Continues(u, i) \/ AutomaticCount(comments[i]) < MaxCont)
            BY <1>7, <2>1, StepContinues
        <3>2. comments' = comments
            BY <3>1, OnlyPublicationsWrite
        <3>3. CASE Continues(u, i)
            BY <1>5, <3>2, <3>3
        <3>4. CASE AutomaticCount(comments[i]) < MaxCont
            <4>1. /\ comments[i] \in Seq(Comment) /\ attempts \in Nat
                  /\ Bounded(comments[i], attempts) /\ Sound(comments[i])
                BY BoundAssumption DEF ClaimInv, ClaimTypeOK, HistoryInv, Numbered
            <4>2. /\ RowLength(comments[i]) \in Nat /\ AutomaticCount(comments[i]) \in Nat
                  /\ RowLength(comments[i]) <= AutomaticCount(comments[i])
                BY <4>1, CountCovers, CountIsNatural, RowFinite DEF RowLength
            <4>3. RowLength(comments[i]) < MaxCont
                BY <3>4, <4>2, BudgetAssumption
            <4> QED BY <3>2, <4>3
        <3> QED BY <3>1, <3>3, <3>4
    <2>2. CASE w # u
        <3>1. Continues(w, i)
            BY <1>7, <2>2, OthersContinue
        <3>2. RowLength(comments[i]) < MaxCont
            BY <1>5, <3>1
        <3>3. CASE comments' = comments
            BY <3>2, <3>3
        <3>4. CASE Publishes(u)
            <4>1. ~Holds(u, i)
                <5>1. wpc[w] \in Claiming /\ job[w].issue = i => ~Holds(u, i)
                    BY <1>2, <2>2 DEF Alone
                <5>2. (wpc[w] \in Claiming /\ job[w].issue = i) \/ Holds(w, i)
                    BY <3>1 DEF Continues, Holds
                <5>3. Holds(w, i) => ~Holds(u, i)
                    BY <2>2 DEF ClaimInv, OneWorkerPerIssue
                <5> QED BY <5>1, <5>2, <5>3
            <4>2. /\ RowLength(comments[i]) \in Nat /\ RowLength(comments'[i]) \in Nat
                  /\ RowLength(comments'[i]) <= RowLength(comments[i])
                BY <3>4, <4>1, RowStep
            <4> QED BY <3>2, <4>2, BudgetAssumption
        <3> QED BY <3>3, <3>4, OnlyPublicationsWrite
    <2> QED BY <2>1, <2>2
<1> QED BY <1>3, <1>6, <1>7 DEF Fresh, WithinBudget, RowLength

\* is_auto_continuation_eligible: as long as the settle delay covers the time
\* from a peer's eligibility read to its marker, no issue has more automatic
\* attempts in a row than MAX_AUTO_CONTINUATIONS, for any number of workers,
\* crashes and attempts, in link mode and in verbose mode.
THEOREM ContinuationBudgetHolds == ClaimSpec => []ContinuationBudget
<1>1. ClaimInit => RoomInv
    <2> SUFFICES ASSUME ClaimInit PROVE Alone /\ Fresh /\ WithinBudget
        BY DEF RoomInv
    <2>1. \A w \in Workers : wpc[w] = "idle" /\ ckpt[w] = None
        BY DEF ClaimInit
    <2>2. Alone /\ Fresh
        BY <2>1 DEF Alone, Fresh, Continues, Claiming, Won
    <2>3. ASSUME NEW i \in Issues PROVE Cardinality(AutomaticRow(comments[i])) <= MaxCont
        <3>1. AutomaticRow(comments[i]) = {}
            BY DEF ClaimInit, AutomaticRow
        <3>2. Cardinality({}) = 0
            BY FS_EmptySet
        <3>3. Cardinality(AutomaticRow(comments[i])) = 0
            BY <3>1, <3>2, Zenon
        <3> QED BY <3>3, BudgetAssumption
    <2> QED BY <2>2, <2>3 DEF WithinBudget
<1>2. ClaimInv /\ HistoryInv /\ RoomInv /\ [ClaimNext]_claimVars => RoomInv'
    <2> SUFFICES ASSUME ClaimInv, HistoryInv, RoomInv, [ClaimNext]_claimVars PROVE RoomInv'
        OBVIOUS
    <2>1. CASE UNCHANGED <<comments, wpc, job, ckpt, stalled>>
        <3>1. Alone => Alone'
            BY <2>1 DEF Alone, Holds, Posted
        <3>2. Fresh => Fresh'
            BY <2>1 DEF Fresh, Continues, Posted
        <3>3. WithinBudget => WithinBudget'
            BY <2>1 DEF WithinBudget
        <3> QED BY <2>1, <3>1, <3>2, <3>3 DEF RoomInv
    <2>2. ASSUME NEW i \in Issues, PersonActs(i) PROVE UNCHANGED <<comments, wpc, job, ckpt, stalled>>
        BY <2>2 DEF PersonActs
    <2>3. CASE UNCHANGED claimVars
        BY <2>1, <2>3 DEF claimVars
    <2> QED BY <2>1, <2>2, <2>3, WorkerKeepsRoom DEF ClaimNext
<1>3. RoomInv => ContinuationBudget
    BY DEF RoomInv, WithinBudget, ContinuationBudget
<1> QED BY <1>1, <1>2, <1>3, ClaimInvariant, HistoriesInOrder, PTL DEF ClaimSpec
=============================================================================
