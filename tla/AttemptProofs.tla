--------------------------- MODULE AttemptProofs ---------------------------
(***************************************************************************)
(* Theorems about one attempt, its publication and its recovery, for any   *)
(* scenes and any number of crashes, failing calls, moves of the base and  *)
(* publications of other Workers.                                          *)
(***************************************************************************)
EXTENDS AttemptRun, SequenceTheorems, TLAPS

-----------------------------------------------------------------------------
(* Where the process may be *)

OrdinarySteps == {"setup", "preparation", "dispatch", "model", "verify", "seal", "note",
                  "check", "checking", "decide"}
ConflictSteps == {"rebased", "first_check", "session", "resolve", "second_check"}
PublishSteps == {"publish", "push", "advance", "mark", "pushed", "find_pr", "create_pr",
                 "merge", "report", "record", "result", "intent", "find_record", "write_record"}
AllSteps == OrdinarySteps \cup ConflictSteps \cup PublishSteps \cup
            {"entry", "prepare", "lease", "infer", "release", "finish", "held", "down", "done"}

\* The steps of the attempt's own first run, before it publishes
FirstRun == actor = "runner" /\ pc \in OrdinarySteps \cup ConflictSteps \cup {"entry", "prepare", "lease"}

RealRevision == [work : SUBSET Commits, note : {"none", "written", "bad"},
                 cites : 0 .. MaxBase, base : 0 .. MaxBase]

RequestType ==
    [outcome : Outcomes, eligible : BOOLEAN, partial : BOOLEAN, push : BOOLEAN,
     result : Results, head : Revisions, shared : BOOLEAN, notify : BOOLEAN,
     raised : Raised]

PubType ==
    [outcome : Outcomes, result : Results, pushed : Revisions, claimed : Revisions,
     verify : BOOLEAN, last : BOOLEAN, posted : BOOLEAN, recorded : BOOLEAN]

PrepType == [pre : Revisions, restored : BOOLEAN, seen : Revisions]

RunType ==
    [deferred : BOOLEAN, continuation : BOOLEAN, baseline : {"none", "red", "green"},
     status : Statuses \cup {"none"}, check : {"none", "red", "green"}, residue : BOOLEAN,
     head : Revisions]

CommentType == [outcome : Outcomes, result : Results]

\* What the attempt works on
SurroundingsOK ==
    /\ kind \in {"ordinary", "conflict"} /\ mode \in {"verbose", "link"}
    /\ clashes \subseteq Commits /\ base \in 0 .. MaxBase
    /\ remote \in Revisions /\ local \in Revisions /\ intent \in Revisions
    /\ own \subseteq Revisions /\ checked \subseteq Revisions
    /\ record \in [by : {"none", "earlier", "this", "newer"}, rev : Revisions]
    /\ pr \in {"none", "open", "merged"}
    /\ tree \in {"clean", "dirty", "conflict", "markers"}

\* What it remembers
MemoryOK ==
    /\ comments \in Seq(CommentType)
    /\ ckpt \in [phase : Phases, lease : Revisions, known : BOOLEAN]
    /\ req \in RequestType /\ pub \in PubType /\ prep \in PrepType /\ run \in RunType
    /\ mark \in {"none", "started", "finished"}
    /\ actor \in {"runner", "startup", "retry", "release"}
    /\ wrote \in BOOLEAN

\* Where it is: a workspace that is worked on has its branch.
PlaceOK ==
    /\ pc \in AllSteps
    /\ pc \in OrdinarySteps => actor = "runner" /\ kind = "ordinary"
    /\ pc \in ConflictSteps \cup {"entry"} => actor = "runner" /\ kind = "conflict"
    /\ pc = "infer" => actor \in {"startup", "retry"}
    /\ pc = "lease" => actor # "release"
    /\ pc = "release" => actor = "release"
    /\ pc \in OrdinarySteps \cup ConflictSteps \cup {"lease", "infer", "release"} => local # Absent
    /\ pc \in PublishSteps /\ NeedsPush(req) => local # Absent

AttemptShapes == SurroundingsOK /\ MemoryOK /\ PlaceOK

-----------------------------------------------------------------------------
(* The operators *)

\* No branch is not a branch, and either is a revision.
LEMMA RevisionFacts ==
    /\ Absent \in Revisions /\ Absent \notin RealRevision
    /\ \A r : r \in Revisions <=> r = Absent \/ r \in RealRevision
    /\ Absent.note = "none" /\ Absent.base = 0 /\ Absent.cites = 0 /\ "other" \notin Absent.work
    /\ 0 \in 0 .. MaxBase /\ MaxBase \in Nat /\ MaxFaults \in Nat /\ MaxCrashes \in Nat
  <1>1. 0 \in 0 .. MaxBase /\ MaxBase \in Nat /\ MaxFaults \in Nat /\ MaxCrashes \in Nat
    BY PublicationAssumption, AttemptAssumption
  <1>2. "absent" \in Absent.work /\ "absent" \notin Commits
    BY DEF Absent, Branch, Commits
  <1>3. Absent \notin RealRevision
    BY <1>2 DEF RealRevision
  <1> QED BY <1>1, <1>3 DEF Revisions, RealRevision, Absent, Branch

\* One more commit, and a note on the revision beneath it
AddCommit(r, c) == [r EXCEPT !.work = @ \cup {c}]
PutNote(r, n) == [r EXCEPT !.note = n, !.cites = r.base]

\* s is r with what this attempt may do to a branch on the base b.
Carries(r, s, b) ==
    /\ s \in RealRevision
    /\ "other" \in s.work <=> "other" \in r.work
    /\ "work" \in r.work => "work" \in s.work
    /\ s.base = r.base \/ s.base = b
    /\ (s.note = r.note /\ s.cites = r.cites) \/ s.cites = s.base

\* Changes of a branch make branches.
LEMMA BranchFacts ==
    ASSUME NEW r \in RealRevision, NEW b \in 0 .. MaxBase
    PROVE  /\ Carries(r, r, b)
           /\ Carries(r, Rebase(r, b), b) /\ Rebase(r, b).base = b
           /\ Rebase(r, b).note = r.note /\ Rebase(r, b).cites = r.cites /\ Rebase(r, b).work = r.work
           /\ \A c \in {"work", "fix"} :
                 /\ Carries(r, AddCommit(r, c), b) /\ AddCommit(r, c).work = r.work \cup {c}
                 /\ AddCommit(r, c).note = r.note /\ AddCommit(r, c).base = r.base
                 /\ AddCommit(r, c).cites = r.cites
           /\ \A n \in {"written", "bad"} :
                 Carries(r, PutNote(r, n), b) /\ PutNote(r, n).work = r.work
           /\ AddCommit(r, "other") \in RealRevision
           /\ AddCommit(r, "other").work = r.work \cup {"other"}
           /\ AddCommit(r, "other").note = r.note /\ AddCommit(r, "other").base = r.base
           /\ AddCommit(r, "other").cites = r.cites
  <1>1. /\ r.work \subseteq Commits /\ r.base \in 0 .. MaxBase /\ r.cites \in 0 .. MaxBase
        /\ r.note \in {"none", "written", "bad"}
    BY DEF RealRevision
  <1>2. /\ Rebase(r, b) \in RealRevision /\ Rebase(r, b).work = r.work
        /\ Rebase(r, b).note = r.note /\ Rebase(r, b).cites = r.cites /\ Rebase(r, b).base = b
    BY DEF Rebase, RealRevision
  <1>3. \A c \in Commits :
           /\ AddCommit(r, c) \in RealRevision /\ AddCommit(r, c).work = r.work \cup {c}
           /\ AddCommit(r, c).note = r.note /\ AddCommit(r, c).cites = r.cites
           /\ AddCommit(r, c).base = r.base
    BY <1>1 DEF AddCommit, RealRevision
  <1>4. \A n \in {"written", "bad"} :
           /\ PutNote(r, n) \in RealRevision /\ PutNote(r, n).work = r.work
           /\ PutNote(r, n).note = n /\ PutNote(r, n).cites = r.base /\ PutNote(r, n).base = r.base
    BY <1>1 DEF PutNote, RealRevision
  <1>5. "work" \in Commits /\ "fix" \in Commits /\ "other" \in Commits
    BY DEF Commits
  <1>6. Carries(r, r, b)
    BY DEF Carries
  <1>7. Carries(r, Rebase(r, b), b)
    BY <1>2 DEF Carries
  <1>8. \A c \in {"work", "fix"} : Carries(r, AddCommit(r, c), b)
    BY <1>3, <1>5 DEF Carries
  <1>9. \A n \in {"written", "bad"} : Carries(r, PutNote(r, n), b)
    BY <1>4 DEF Carries
  <1> QED BY <1>2, <1>3, <1>4, <1>5, <1>6, <1>7, <1>8, <1>9

\* A new branch.
LEMMA NewBranch ==
    ASSUME NEW w \in SUBSET Commits, NEW b \in 0 .. MaxBase
    PROVE  /\ Branch(w, b) \in RealRevision /\ Branch(w, b).note = "none"
           /\ Branch(w, b).work = w /\ Branch(w, b).base = b
  BY RevisionFacts DEF Branch, RealRevision

\* A handoff with the standing that was read for it.
Standing(r, n, s) == [r EXCEPT !.notify = n, !.shared = s]

\* The requests a handoff may become, and any other one stays.
LEMMA StandingFacts ==
    ASSUME NEW q
    PROVE  \A r \in HandoffRequests(q) :
              r = q \/ \E n, s \in BOOLEAN : r = [q EXCEPT !.notify = n, !.shared = s]
  <1>1. q.outcome = "handoff" => HandoffRequests(q) = {Standing(q, n, s) : n, s \in BOOLEAN}
    BY DEF HandoffRequests, Standing
  <1>2. q.outcome # "handoff" => HandoffRequests(q) = {q}
    BY DEF HandoffRequests
  <1>3. \A r \in HandoffRequests(q) : r = q \/ \E n, s \in BOOLEAN : r = Standing(q, n, s)
    BY <1>1, <1>2
  <1> QED BY <1>3 DEF Standing

\* The outcome a request names.
LEMMA RequestOutcome == \A o, e, p : Request(o, e, p).outcome = o
  BY DEF Request

\* A request of an ordinary result, and one of a conflict attempt
OrdinaryFields(r, o, e, p) ==
    /\ r \in RequestType /\ r.outcome = o /\ r.eligible = e /\ r.partial = p
    /\ r.push = FALSE /\ r.result = "ordinary" /\ r.raised = "no"

ConflictFields(r, x, p, h) ==
    /\ r \in RequestType /\ r.push = p /\ r.result = x /\ r.head = h
    /\ r.eligible = FALSE /\ r.partial = FALSE /\ r.raised = "no"
    /\ r.outcome \in {"complete", "no_changes", "incomplete", "infra"}
    /\ r.outcome = "complete" <=> x = "success"

\* The requests of an ordinary result.
LEMMA RequestFacts ==
    ASSUME NEW o \in Outcomes, NEW e \in BOOLEAN, NEW p \in BOOLEAN
    PROVE  /\ OrdinaryFields(Request(o, e, p), o, e, p)
           /\ \A r \in HandoffRequests(Request(o, e, p)) : OrdinaryFields(r, o, e, p)
  <1>1. OrdinaryFields(Request(o, e, p), o, e, p)
    BY RevisionFacts DEF Request, RequestType, Results, Raised, OrdinaryFields
  <1> DEFINE q == Request(o, e, p)
  <1>2. \A r \in HandoffRequests(q) :
           r = q \/ \E n, s \in BOOLEAN : r = [q EXCEPT !.notify = n, !.shared = s]
    BY StandingFacts
  <1>3. OrdinaryFields(q, o, e, p)
    BY <1>1
  <1> HIDE DEF q
  <1>4. ASSUME NEW r, NEW n \in BOOLEAN, NEW s \in BOOLEAN, r = [q EXCEPT !.notify = n, !.shared = s]
        PROVE  OrdinaryFields(r, o, e, p)
    BY <1>3, <1>4 DEF OrdinaryFields, RequestType
  <1>5. \A r \in HandoffRequests(q) : OrdinaryFields(r, o, e, p)
    BY <1>2, <1>3, <1>4
  <1> QED BY <1>1, <1>5 DEF q

\* The requests of a conflict attempt.
LEMMA ConflictRequestFacts ==
    ASSUME NEW x \in Results, NEW p \in BOOLEAN, NEW h \in Revisions
    PROVE  ConflictFields(ConflictRequest(x, p, h), x, p, h)
  <1>1. /\ LifecycleOutcome(x) \in {"complete", "no_changes", "incomplete", "infra"}
        /\ LifecycleOutcome(x) = "complete" <=> x = "success"
    <2>1. CASE x = "success"
      BY <2>1 DEF LifecycleOutcome
    <2>2. CASE x = "skipped"
      BY <2>2 DEF LifecycleOutcome
    <2>3. CASE x \in {"rebase_conflict", "check_failed", "model_limit",
                      "resolution_failed", "no_change"}
      BY <2>3 DEF LifecycleOutcome
    <2>4. CASE x \in {"ordinary", "setup_failed", "error", "push_failed"}
      BY <2>4 DEF LifecycleOutcome
    <2> QED BY <2>1, <2>2, <2>3, <2>4 DEF Results
  <1>2. LifecycleOutcome(x) \in Outcomes
    BY <1>1 DEF Outcomes
  <1> DEFINE q == Request(LifecycleOutcome(x), FALSE, FALSE)
  <1>3. OrdinaryFields(q, LifecycleOutcome(x), FALSE, FALSE)
    BY <1>2, RequestFacts
  <1>4. ConflictRequest(x, p, h) = [q EXCEPT !.push = p, !.result = x, !.head = h]
    BY DEF ConflictRequest
  <1> HIDE DEF q
  <1> QED BY <1>1, <1>3, <1>4 DEF RequestType, OrdinaryFields, ConflictFields

\* The decision after the session is an ordinary request; success wants a
\* green check that left nothing behind, and a handoff a note.
LEMMA DecisionFacts ==
    ASSUME NEW accepted \in BOOLEAN
    PROVE  LET d == Evaluate(accepted)
               v == IF d.outcome = "handoff" /\ ~NoteValid(local) THEN Decision("incomplete") ELSE d
           IN  \E o \in Outcomes, e \in BOOLEAN, p \in BOOLEAN :
                  /\ v = Request(o, e, p) /\ o # "complete"
                  /\ e => run.check = "green" /\ ~run.residue
                  /\ o = "handoff" => p /\ NoteValid(local)
  <1> DEFINE d == Evaluate(accepted)
             Good(r) == \E o \in Outcomes, e \in BOOLEAN, p \in BOOLEAN :
                           /\ r = Request(o, e, p) /\ o # "complete"
                           /\ e => run.check = "green" /\ ~run.residue
                           /\ o = "handoff" => p
  <1>1. \A o \in {"infra", "no_changes", "incomplete"} : Good(Decision(o)) /\ Decision(o).outcome # "handoff"
    <2> SUFFICES ASSUME NEW o \in {"infra", "no_changes", "incomplete"}
                 PROVE  Good(Decision(o)) /\ Decision(o).outcome # "handoff"
      OBVIOUS
    <2>1. o \in Outcomes /\ o # "handoff" /\ o # "complete"
      BY DEF Outcomes
    <2>2. Decision(o) = Request(o, FALSE, o = "incomplete" /\ HasCommits(local))
      BY DEF Decision
    <2>3. (o = "incomplete" /\ HasCommits(local)) \in BOOLEAN
      OBVIOUS
    <2>4. Decision(o).outcome = o
      BY ZenonT(40), <2>2, RequestOutcome
    <2> QED BY <2>1, <2>2, <2>3, <2>4
  <1>2. Good(Request("handoff", FALSE, TRUE)) /\ Good(Request("incomplete", FALSE, TRUE))
    BY DEF Outcomes
  <1>3. run.check = "green" /\ ~run.residue => Good(Request("none", TRUE, FALSE))
    BY DEF Outcomes
  <1> HIDE DEF Good
  <1>4. Good(d)
    BY <1>1, <1>2, <1>3 DEF Evaluate
  <1>5. CASE d.outcome = "handoff" /\ ~NoteValid(local)
    <2>1. Good(Decision("incomplete")) /\ Decision("incomplete").outcome # "handoff"
      BY <1>1
    <2> QED BY <1>5, <2>1, RequestOutcome DEF Good
  <1>6. CASE ~(d.outcome = "handoff" /\ ~NoteValid(local))
    <2>1. PICK o \in Outcomes, e \in BOOLEAN, p \in BOOLEAN :
                  /\ d = Request(o, e, p) /\ o # "complete"
                  /\ e => run.check = "green" /\ ~run.residue
                  /\ o = "handoff" => p
      BY <1>4 DEF Good
    <2>2. d.outcome = o
      BY <2>1, RequestOutcome
    <2> QED BY <1>6, <2>1, <2>2
  <1> QED BY <1>5, <1>6

\* So is the decision a recovery infers.
LEMMA InferredFacts ==
    ASSUME NEW readable \in BOOLEAN
    PROVE  \E o \in Outcomes, e \in BOOLEAN, p \in BOOLEAN :
              /\ Inferred(readable) = Request(o, e, p) /\ o # "complete"
              /\ o = "handoff" => p /\ NoteValid(local)
  <1> DEFINE Good(r) == \E o \in Outcomes, e \in BOOLEAN, p \in BOOLEAN :
                           /\ r = Request(o, e, p) /\ o # "complete"
                           /\ o = "handoff" => p /\ NoteValid(local)
  <1>1. /\ Good(Request("infra", FALSE, TRUE)) /\ Good(Request("infra", FALSE, FALSE))
        /\ Good(Request("incomplete", FALSE, TRUE)) /\ Good(Request("none", TRUE, FALSE))
        /\ NoteValid(local) => Good(Request("handoff", FALSE, TRUE))
    BY DEF Outcomes
  <1> HIDE DEF Good
  <1>2. Good(Inferred(readable))
    BY <1>1 DEF Inferred
  <1> QED BY <1>2 DEF Good

-----------------------------------------------------------------------------
(* The branch of the clone *)

\* The steps of a session and of what follows it change the branch that is
\* there, or abort back to the one from before the rebase.
LEMMA SessionLocal ==
    ASSUME AttemptShapes,
           \/ ModelCommits \/ ModelWritesNote \/ ModelRebases \/ ModelRaises \/ VerifyResolution
           \/ SealWork \/ EmergencyNote \/ FinishFinalCheck \/ ConflictUnresolved \/ ConflictResolved
    PROVE  \/ local' = prep.pre /\ prep.pre # Absent /\ (VerifyResolution \/ ConflictUnresolved)
           \/ Carries(local, local', base)
  <1>0. local \in RealRevision /\ base \in 0 .. MaxBase
    <2>1. pc \in OrdinarySteps \cup ConflictSteps
      BY DEF ModelCommits, ModelWritesNote, ModelRebases, ModelRaises, VerifyResolution, SealWork,
             EmergencyNote, FinishFinalCheck, ConflictUnresolved, ConflictResolved,
             OrdinarySteps, ConflictSteps
    <2> QED BY <2>1, RevisionFacts DEF AttemptShapes, PlaceOK, SurroundingsOK
  <1> DEFINE Goal == \/ local' = prep.pre /\ prep.pre # Absent /\ (VerifyResolution \/ ConflictUnresolved)
                     \/ Carries(local, local', base)
  <1>k. Carries(local, local, base)
    BY <1>0, BranchFacts
  <1>s. Carries(local, Sealed(local), base)
    <2>1. Sealed(local) = local \/ Sealed(local) = AddCommit(local, "work")
      BY DEF Sealed, AddCommit
    <2> QED BY <1>0, <1>k, <2>1, BranchFacts
  <1>1. CASE ModelCommits
    <2>1. local' = AddCommit(local, "work")
      BY <1>1 DEF ModelCommits, AddCommit
    <2> QED BY <1>0, <2>1, BranchFacts
  <1>2. CASE ModelWritesNote
    <2>1. \E n \in {"written", "bad"} : local' = PutNote(local, n)
      BY <1>2 DEF ModelWritesNote, PutNote
    <2> QED BY <1>0, <2>1, BranchFacts
  <1>3. CASE ModelRebases
    <2>1. local' = Rebase(local, base) \/ local' = local
      BY <1>3 DEF ModelRebases
    <2> QED BY <1>0, <1>k, <2>1, BranchFacts
  <1>4. CASE ModelRaises
    <2>1. local' = Sealed(local) \/ local' = local
      BY <1>4 DEF ModelRaises
    <2> QED BY <1>k, <1>s, <2>1
  <1>5. CASE VerifyResolution
    <2>1. local' = Restored \/ local' = local
      BY <1>5 DEF VerifyResolution
    <2> QED BY <1>5, <1>k, <2>1 DEF Restored
  <1>6. CASE SealWork
    <2>1. local' = Sealed(local) \/ local' = local
      BY <1>6 DEF SealWork
    <2> QED BY <1>k, <1>s, <2>1
  <1>7. CASE EmergencyNote
    <2>1. local' = PutNote(local, "written") \/ local' = local
      BY <1>7 DEF EmergencyNote, WithNote, PutNote
    <2> QED BY <1>0, <1>k, <2>1, BranchFacts
  <1>8. CASE FinishFinalCheck
    <2>1. local' = AddCommit(local, "fix") \/ local' = local
      BY <1>8 DEF FinishFinalCheck, AddCommit
    <2> QED BY <1>0, <1>k, <2>1, BranchFacts
  <1>9. CASE ConflictUnresolved
    <2>1. local' = Restored \/ local' = Sealed(local) \/ local' = local
      BY <1>9 DEF ConflictUnresolved, AbortAndSeal
    <2> QED BY <1>9, <1>k, <1>s, <2>1 DEF Restored
  <1>10. CASE ConflictResolved
    <2>1. local' = Sealed(local) \/ local' = local
      BY <1>10 DEF ConflictResolved
    <2> QED BY <1>k, <1>s, <2>1
  <1> QED BY <1>1, <1>2, <1>3, <1>4, <1>5, <1>6, <1>7, <1>8, <1>9, <1>10

\* Preparing an attempt takes the branch of origin, the one of the clone or a
\* new one, as it is or rebased onto the base.
LEMMA PrepareLocal ==
    ASSUME AttemptShapes, PrepareAttempt
    PROVE  \E start \in RealRevision :
              /\ \/ start = remote
                 \/ start = local
                 \/ start = Branch({}, base) /\ local = Absent
              /\ prep'.seen = Absent \/ (prep'.seen = remote /\ start = remote)
              /\ \/ local' = start /\ prep'.pre = start /\ tree' = "conflict"
                 \/ local' = Rebase(start, base) /\ prep'.pre = Absent /\ tree' = "clean"
              /\ Carries(start, local', base) /\ local' # Absent
              /\ local'.note = start.note /\ local'.cites = start.cites /\ local'.work = start.work
              /\ prep' \in PrepType
  <1>0. remote \in Revisions /\ local \in Revisions /\ base \in 0 .. MaxBase
    BY DEF AttemptShapes, SurroundingsOK
  <1>1. PICK seen \in {remote, Absent} :
            LET start == StartingPoint(seen)
                clash == start.base # base /\ start.work \cap clashes # {}
            IN /\ prep' = [pre |-> IF clash THEN start ELSE Absent,
                           restored |-> seen # Absent, seen |-> seen]
               /\ local' = IF clash THEN start ELSE Rebase(start, base)
               /\ tree' = IF clash THEN "conflict" ELSE "clean"
    BY DEF PrepareAttempt
  <1> DEFINE start == StartingPoint(seen)
  <1>2. /\ start \in RealRevision
        /\ \/ start = remote
           \/ start = local
           \/ start = Branch({}, base) /\ local = Absent
        /\ seen = Absent \/ (seen = remote /\ start = remote)
    BY <1>0, RevisionFacts, NewBranch DEF StartingPoint
  <1>3. /\ prep'.seen = seen
        /\ \/ local' = start /\ prep'.pre = start /\ tree' = "conflict"
           \/ local' = Rebase(start, base) /\ prep'.pre = Absent /\ tree' = "clean"
    BY <1>1
  <1> DEFINE clash == start.base # base /\ start.work \cap clashes # {}
             pre == IF clash THEN start ELSE Absent
             restored == seen # Absent
  <1>4. prep' \in PrepType
    <2>1. prep' = [pre |-> pre, restored |-> restored, seen |-> seen]
      BY <1>1
    <2>2. pre \in Revisions /\ restored \in BOOLEAN /\ seen \in Revisions
      BY <1>0, <1>2, RevisionFacts
    <2> HIDE DEF pre, restored
    <2> QED BY <2>1, <2>2 DEF PrepType
  <1> HIDE DEF start, clash, pre, restored
  <1>5. /\ Carries(start, local', base)
        /\ local'.note = start.note /\ local'.cites = start.cites /\ local'.work = start.work
    <2>1. start \in RealRevision /\ base \in 0 .. MaxBase
      BY <1>0, <1>2
    <2>2. Carries(start, start, base) /\ Carries(start, Rebase(start, base), base)
      BY <2>1, BranchFacts
    <2>3. /\ Rebase(start, base).note = start.note /\ Rebase(start, base).cites = start.cites
          /\ Rebase(start, base).work = start.work
      BY <2>1, BranchFacts
    <2> QED BY <1>3, <2>2, <2>3
  <1>6. local' # Absent
    BY <1>5, RevisionFacts DEF Carries
  <1> QED BY <1>2, <1>3, <1>4, <1>5, <1>6

-----------------------------------------------------------------------------
(* The shapes *)

\* What a step may do to the branch of the clone.
LEMMA LocalType ==
    ASSUME AttemptShapes, [AttemptNext]_vars
    PROVE  /\ local' \in Revisions
           /\ local # Absent => local' # Absent
           /\ \/ local' = local
              \/ PrepareAttempt
              \/ ModelCommits \/ ModelWritesNote \/ ModelRebases \/ ModelRaises \/ VerifyResolution
              \/ SealWork \/ EmergencyNote \/ FinishFinalCheck \/ ConflictUnresolved \/ ConflictResolved
  <1>1. CASE PrepareAttempt
    <2>1. local' \in RealRevision
      BY <1>1, PrepareLocal DEF Carries
    <2> QED BY <1>1, <2>1, RevisionFacts
  <1>2. CASE \/ ModelCommits \/ ModelWritesNote \/ ModelRebases \/ ModelRaises \/ VerifyResolution
             \/ SealWork \/ EmergencyNote \/ FinishFinalCheck \/ ConflictUnresolved \/ ConflictResolved
    <2>1. (local' = prep.pre /\ prep.pre # Absent) \/ local' \in RealRevision
      BY <1>2, SessionLocal DEF Carries
    <2>2. prep.pre \in Revisions
      BY DEF AttemptShapes, MemoryOK, PrepType
    <2> QED BY <1>2, <2>1, <2>2, RevisionFacts
  <1>3. CASE UNCHANGED local
    BY <1>3 DEF AttemptShapes, SurroundingsOK
  <1>4. UNCHANGED local \/ PrepareAttempt \/ ModelCommits \/ ModelWritesNote \/ ModelRebases \/
        ModelRaises \/ VerifyResolution \/ SealWork \/ EmergencyNote \/ FinishFinalCheck
        \/ ConflictUnresolved \/ ConflictResolved
    BY DEF AttemptNext, Worker, Model, Publishes, PublishStep, vars, Elsewhere, RunnerStep,
           Forgotten, Quiet, Untouched, HoldWorkspace, PrepareFails, RecordLease, EnterSetup,
           RunPreparation, DispatchModel, StartFinalCheck, Decide, ConflictEntry,
           ConflictRebased, ConflictFirstCheck, ConflictSession, ConflictSecondCheck,
           InferDecision, RetryDecision, ReleaseComment, Restart, FinishAttempt,
           ModelEdits, ModelEnds, Crash, BaseMoves, OtherPublishes, OperatorRepairs,
           OperatorRecovers, BeginPublish, StampRaises, PushAccepted, PushReconciled, BranchMoved,
           PushBroken, AdvanceLease, MarkPublishing, AfterPush, FindPullRequest,
           CreatePullRequest, AutoMerge, Report, PostResult, RecordHandoff, SaveIntent,
           FindRecord, WriteRecord
  <1> QED BY <1>1, <1>2, <1>3, <1>4

\* Each step changes the surroundings in few ways.
LEMMA SurroundingSteps ==
    ASSUME [AttemptNext]_vars
    PROVE  /\ UNCHANGED <<kind, mode, clashes>>
           /\ base' = base \/ BaseMoves
           /\ remote' = remote \/ remote' = local \/ OtherPublishes
           /\ intent' = intent \/ intent' = pub.pushed
           /\ own' = own \/ own' = own \cup {local}
           /\ checked' = checked \/ checked' = checked \cup {local}
           /\ record' = record \/ record' = [by |-> "this", rev |-> intent] \/ OtherPublishes
           /\ pr' = pr \/ pr' \in {"open", "merged"}
           /\ tree' = tree \/ tree' \in {"clean", "dirty", "conflict", "markers"}
  <1> USE DEF AttemptNext, Worker, Model, Publishes, PublishStep, vars, AttemptIdle, Elsewhere,
           RunnerStep, Returns, Terminal, ConflictEnds, ConflictRaises, Forgotten, Fails, Quiet, Untouched,
           Pushed, PublicationFails, RecordDone, PushFails, HoldWorkspace,
           PrepareAttempt, PrepareFails, RecordLease, EnterSetup, RunPreparation,
           DispatchModel, VerifyResolution, SealWork, EmergencyNote, StartFinalCheck,
           FinishFinalCheck, Decide, ConflictEntry, ConflictRebased,
           ConflictFirstCheck, ConflictSession, ConflictResolved, ConflictSecondCheck,
           InferDecision, RetryDecision, ReleaseComment, Restart, FinishAttempt,
           ModelCommits, ModelEdits, ModelWritesNote, ModelRebases, ModelEnds,
           ModelRaises, ConflictUnresolved, Crash, OperatorRepairs,
           OperatorRecovers, BeginPublish, StampRaises, PushAccepted, PushReconciled, BranchMoved,
           PushBroken, AdvanceLease, MarkPublishing, AfterPush, FindPullRequest,
           CreatePullRequest, AutoMerge, Report, PostResult, RecordHandoff,
           SaveIntent, FindRecord, WriteRecord
  <1>1. UNCHANGED <<kind, mode, clashes>>
    BY DEF OtherPublishes, BaseMoves
  <1>2. base' = base \/ BaseMoves
    BY DEF OtherPublishes
  <1>3. remote' = remote \/ remote' = local \/ OtherPublishes
    BY DEF BaseMoves
  <1>4. intent' = intent \/ intent' = pub.pushed
    BY DEF OtherPublishes, BaseMoves
  <1>5. own' = own \/ own' = own \cup {local}
    BY DEF OtherPublishes, BaseMoves
  <1>6. checked' = checked \/ checked' = checked \cup {local}
    BY DEF OtherPublishes, BaseMoves
  <1>7. record' = record \/ record' = [by |-> "this", rev |-> intent] \/ OtherPublishes
    BY DEF BaseMoves
  <1>8. pr' = pr \/ pr' \in {"open", "merged"}
    BY DEF OtherPublishes, BaseMoves
  <1>9. tree' = tree \/ tree' \in {"clean", "dirty", "conflict", "markers"}
    BY DEF OtherPublishes, BaseMoves, CleanedUp, SealedTree, AbortAndSeal
  <1> QED BY <1>1, <1>2, <1>3, <1>4, <1>5, <1>6, <1>7, <1>8, <1>9

\* Another Worker's publication is a branch with its work on it.
LEMMA OthersBranch ==
    ASSUME AttemptShapes, OtherPublishes
    PROVE  /\ remote' \in RealRevision /\ "other" \in remote'.work
           /\ remote'.note = remote.note /\ remote'.cites = remote.cites
           /\ remote # Absent => remote'.base = remote.base
           /\ remote'.base = remote.base \/ remote'.base = base
           /\ record' = record \/ record' = [by |-> "newer", rev |-> remote']
  <1> DEFINE r == IF remote = Absent THEN Branch({}, base) ELSE remote
  <1>0. remote \in Revisions /\ base \in 0 .. MaxBase /\ {} \in SUBSET Commits
    BY DEF AttemptShapes, SurroundingsOK
  <1>1. /\ r \in RealRevision /\ r.note = remote.note /\ r.cites = remote.cites
        /\ remote # Absent => r.base = remote.base
        /\ r.base = remote.base \/ r.base = base
    <2>1. CASE remote = Absent
      BY <1>0, <2>1, NewBranch, RevisionFacts DEF Branch
    <2>2. CASE remote # Absent
      BY <1>0, <2>2, RevisionFacts
    <2> QED BY <2>1, <2>2
  <1>2. remote' = AddCommit(r, "other") /\ record' \in {record, [by |-> "newer", rev |-> remote']}
    BY DEF OtherPublishes, AddCommit
  <1> HIDE DEF r
  <1>3. /\ remote' \in RealRevision /\ remote'.work = r.work \cup {"other"}
        /\ remote'.note = r.note /\ remote'.base = r.base /\ remote'.cites = r.cites
    BY <1>0, <1>1, <1>2, BranchFacts
  <1> QED BY <1>1, <1>2, <1>3

\* The surroundings keep their shapes.
LEMMA SurroundingsKept ==
    ASSUME AttemptShapes, [AttemptNext]_vars
    PROVE  SurroundingsOK'
  <1>0. SurroundingsOK /\ MemoryOK
    BY DEF AttemptShapes
  <1>1. local' \in Revisions
    BY LocalType
  <1>2. base' \in 0 .. MaxBase
    BY <1>0, SurroundingSteps, RevisionFacts DEF SurroundingsOK, BaseMoves
  <1>3. remote' \in Revisions
    BY <1>0, SurroundingSteps, OthersBranch, RevisionFacts DEF SurroundingsOK
  <1>4. intent' \in Revisions
    BY <1>0, SurroundingSteps DEF SurroundingsOK, MemoryOK, PubType
  <1>5. own' \subseteq Revisions /\ checked' \subseteq Revisions
    BY <1>0, SurroundingSteps DEF SurroundingsOK
  <1>6. record' \in [by : {"none", "earlier", "this", "newer"}, rev : Revisions]
    <2>1. intent \in Revisions /\ record \in [by : {"none", "earlier", "this", "newer"}, rev : Revisions]
      BY <1>0 DEF SurroundingsOK
    <2> QED BY <1>3, <2>1, SurroundingSteps, OthersBranch
  <1>7. /\ kind' \in {"ordinary", "conflict"} /\ mode' \in {"verbose", "link"}
        /\ clashes' \subseteq Commits /\ pr' \in {"none", "open", "merged"}
        /\ tree' \in {"clean", "dirty", "conflict", "markers"}
    BY <1>0, SurroundingSteps DEF SurroundingsOK
  <1> QED BY <1>1, <1>2, <1>3, <1>4, <1>5, <1>6, <1>7 DEF SurroundingsOK

-----------------------------------------------------------------------------
(* The requests *)

\* A request that publishes nothing but a comment
Plain(r) ==
    /\ r \in RequestType /\ ~NeedsPush(r)
    /\ r.outcome \notin {"handoff", "complete"} /\ r.result # "success"

\* The request of an ordinary result, with a note where it hands off
Ordinary(r) ==
    /\ r \in RequestType /\ r.push = FALSE /\ r.result = "ordinary" /\ r.outcome # "complete"
    /\ r.raised = "no"
    /\ r.outcome = "handoff" => r.partial /\ NoteValid(local)

\* The request of a conflict attempt whose check was green
Green(r) ==
    /\ r \in RequestType /\ r.push /\ r.result = "success" /\ r.outcome = "complete"
    /\ ~r.eligible /\ r.head = run.head

\* Most ends of an attempt only tell.
LEMMA PlainRequests ==
    /\ \A o \in {"infra", "incomplete", "no_changes"} : Plain(Request(o, FALSE, FALSE))
    /\ \A x \in Results \ {"success"}, h \in Revisions : Plain(ConflictRequest(x, FALSE, h))
  <1>1. ASSUME NEW o \in {"infra", "incomplete", "no_changes"}
        PROVE  Plain(Request(o, FALSE, FALSE))
    <2>1. o \in Outcomes
      BY DEF Outcomes
    <2> DEFINE r == Request(o, FALSE, FALSE)
    <2>2. OrdinaryFields(r, o, FALSE, FALSE)
      BY <2>1, RequestFacts
    <2> HIDE DEF r
    <2>3. Plain(r)
      BY <2>2 DEF Plain, NeedsPush, OrdinaryFields
    <2> QED BY <2>3 DEF r
  <1>2. ASSUME NEW x \in Results \ {"success"}, NEW h \in Revisions
        PROVE  Plain(ConflictRequest(x, FALSE, h))
    <2> DEFINE r == ConflictRequest(x, FALSE, h)
    <2>1. ConflictFields(r, x, FALSE, h)
      BY ConflictRequestFacts
    <2> HIDE DEF r
    <2>2. Plain(r)
      BY <2>1 DEF Plain, NeedsPush, ConflictFields
    <2> QED BY <2>2 DEF r
  <1> QED BY <1>1, <1>2

\* So does what an except clause publishes.
LEMMA RaisedPlain ==
    ASSUME NEW how \in Raised
    PROVE  /\ Plain(RaisedRequest(how)) /\ RaisedRequest(how).raised = how
           /\ RaisedRequest(how).result = "error"
  <1> DEFINE q == ConflictRequest("error", FALSE, Absent)
             r == RaisedRequest(how)
  <1>1. "error" \in Results /\ "error" # "success" /\ Absent \in Revisions
    BY RevisionFacts DEF Results
  <1>2. ConflictFields(q, "error", FALSE, Absent)
    BY <1>1, ConflictRequestFacts
  <1>3. r = [q EXCEPT !.raised = how]
    BY DEF RaisedRequest
  <1> HIDE DEF q, r
  <1>4. /\ r \in RequestType /\ r.push = FALSE /\ r.result = "error" /\ r.eligible = FALSE
        /\ r.partial = FALSE /\ r.raised = how
        /\ r.outcome \in {"complete", "no_changes", "incomplete", "infra"} /\ r.outcome # "complete"
    BY <1>2, <1>3 DEF ConflictFields, RequestType
  <1>5. Plain(r)
    BY <1>4 DEF Plain, NeedsPush
  <1> QED BY <1>4, <1>5 DEF r

\* The attempt ends without a push.
LEMMA TerminalPlain ==
    ASSUME NEW o \in {"infra", "incomplete", "no_changes"}, Terminal(o)
    PROVE  Plain(req') /\ pc' = "publish" /\ run' = NoRun /\ prep' = NoPrep
  <1>1. req' = RaisedRequest("unprepared") \/ req' = Request(o, FALSE, FALSE)
    BY DEF Terminal, Returns
  <1> QED BY <1>1, PlainRequests, RaisedPlain DEF Terminal, Returns, Raised

\* So it does when a conflict attempt raises.
LEMMA ConflictRaisesPlain ==
    ASSUME ConflictRaises
    PROVE  Plain(req') /\ pc' = "publish" /\ run' = NoRun /\ prep' = NoPrep
  BY RaisedPlain DEF ConflictRaises, Returns, Raised

\* The ends of a conflict attempt that push nothing.
LEMMA ConflictEndsPlain ==
    ASSUME run \in RunType, NEW x \in Results \ {"success"}, ConflictEnds(x, FALSE)
    PROVE  Plain(req') /\ pc' = "publish" /\ run' = NoRun /\ prep' = NoPrep
  <1>1. req' = ConflictRequest(x, FALSE, run.head) /\ run.head \in Revisions
    BY DEF ConflictEnds, ConflictRaises, Returns, RunType
  <1> QED BY <1>1, PlainRequests DEF ConflictEnds, ConflictRaises, Returns

\* A request read for a handoff is as good as the one it came from.
LEMMA StandingOrdinary ==
    ASSUME NEW o \in Outcomes, NEW e \in BOOLEAN, NEW p \in BOOLEAN, o # "complete",
           o = "handoff" => p /\ NoteValid(local),
           NEW r \in HandoffRequests(Request(o, e, p))
    PROVE  Ordinary(r) /\ r.eligible = e
  <1>1. OrdinaryFields(r, o, e, p)
    BY RequestFacts
  <1> QED BY <1>1 DEF Ordinary, OrdinaryFields

\* Every request comes from one of these ends.
LEMMA Returned ==
    ASSUME AttemptShapes, [AttemptNext]_vars
    PROVE  \/ req' = req /\ (pc' \in PublishSteps => pc \in PublishSteps)
           \/ req' = NoRequest /\ pc' \notin PublishSteps
           \/ pc' = "publish" /\ Plain(req') /\ UNCHANGED own
           \/ /\ pc' = "publish" /\ Decide /\ Ordinary(req')
              /\ req'.eligible => run.check = "green" /\ ~run.residue
           \/ pc' = "publish" /\ InferDecision /\ kind = "ordinary" /\ Ordinary(req')
           \/ pc' = "publish" /\ RetryDecision /\ Ordinary(req')
           \/ /\ pc' = "publish" /\ Green(req') /\ (ConflictFirstCheck \/ ConflictSecondCheck)
              /\ checked' = checked \cup {local} /\ ckpt'.phase = "pushing"
  <1> DEFINE PlainEnd == pc' = "publish" /\ Plain(req') /\ UNCHANGED own
             Quietly == req' = req /\ (pc' \in PublishSteps => pc \in PublishSteps)
  <1> USE DEF PublishSteps
  <1>0. run \in RunType /\ kind \in {"ordinary", "conflict"} /\ ckpt \in [phase : Phases, lease : Revisions, known : BOOLEAN]
    BY DEF AttemptShapes, MemoryOK, SurroundingsOK
  <1>1. CASE PrepareFails
    BY <1>1, TerminalPlain DEF PrepareFails, Elsewhere
  <1>2. CASE EnterSetup
    BY <1>2, TerminalPlain DEF EnterSetup, RunnerStep, Elsewhere
  <1>3. CASE RunPreparation
    <2>1. PICK ok \in BOOLEAN, baseline \in {"none", "red", "green"} :
            LET early == EarlyDecision(ok, baseline, run.continuation \/ run.deferred)
            IN IF early = "none"
               THEN /\ pc' = IF run.deferred THEN "note" ELSE "dispatch"
                    /\ UNCHANGED <<req, prep>>
               ELSE Terminal(early)
      BY <1>3 DEF RunPreparation
    <2> DEFINE early == EarlyDecision(ok, baseline, run.continuation \/ run.deferred)
    <2>2. early \in {"none", "infra", "incomplete"}
      BY DEF EarlyDecision
    <2>3. CASE early = "none"
      BY <1>3, <2>1, <2>3 DEF RunPreparation
    <2>4. CASE early # "none"
      <3>1. Terminal(early)
        BY <2>1, <2>4
      <3> HIDE DEF early
      <3> QED BY <1>3, <2>2, <2>4, <3>1, TerminalPlain DEF RunPreparation, RunnerStep, Elsewhere
    <2> QED BY <2>3, <2>4
  <1>4. CASE ModelRaises \/ VerifyResolution \/ SealWork \/ EmergencyNote
    BY <1>4, TerminalPlain DEF ModelRaises, VerifyResolution, SealWork, EmergencyNote, RunnerStep, Elsewhere
  <1>5. CASE Decide
    <2>1. PICK accepted \in BOOLEAN :
            LET d == Evaluate(accepted)
                v == IF d.outcome = "handoff" /\ ~NoteValid(local) THEN Decision("incomplete") ELSE d
            IN \E r \in HandoffRequests(v) : Returns(r)
      BY <1>5 DEF Decide
    <2>2. PICK o \in Outcomes, e \in BOOLEAN, p \in BOOLEAN :
             /\ o # "complete" /\ (e => run.check = "green" /\ ~run.residue)
             /\ o = "handoff" => p /\ NoteValid(local)
             /\ \E r \in HandoffRequests(Request(o, e, p)) : Returns(r)
      BY <2>1, DecisionFacts
    <2>3. PICK r \in HandoffRequests(Request(o, e, p)) : Returns(r)
      BY <2>2
    <2>4. Ordinary(r) /\ r.eligible = e
      BY <2>2, StandingOrdinary
    <2>5. req' = r /\ pc' = "publish"
      BY <2>3 DEF Returns
    <2> QED BY <1>5, <2>2, <2>4, <2>5
  <1>6. CASE ConflictEntry
    BY <1>0, <1>6, ConflictEndsPlain, ConflictRaisesPlain DEF ConflictEntry, RunnerStep, Elsewhere, Results
  <1>7. CASE ConflictRebased \/ ConflictSession
    BY <1>0, <1>7, ConflictEndsPlain, ConflictRaisesPlain DEF ConflictRebased, ConflictSession, RunnerStep, Elsewhere, Results
  <1>8. CASE ConflictUnresolved
    <2>1. PICK x \in {"error", "model_limit", "rebase_conflict"} : ConflictEnds(x, FALSE)
      BY <1>8 DEF ConflictUnresolved
    <2>2. x \in Results \ {"success"}
      BY DEF Results
    <2> QED BY <1>0, <1>8, <2>1, <2>2, ConflictEndsPlain DEF ConflictUnresolved, RunnerStep, Elsewhere
  <1>9. CASE ConflictResolved
    BY <1>0, <1>9, ConflictEndsPlain DEF ConflictResolved, RunnerStep, Elsewhere, Results
  <1>10. CASE ConflictFirstCheck \/ ConflictSecondCheck
    <2>1. \/ /\ ConflictEnds("success", TRUE) /\ checked' = checked \cup {local}
             /\ ckpt' = [ckpt EXCEPT !.phase = "pushing"]
          \/ ConflictEnds("check_failed", FALSE)
          \/ ConflictRaises
          \/ pc' = "session" /\ UNCHANGED req
      BY <1>10 DEF ConflictFirstCheck, ConflictSecondCheck
    <2>2. UNCHANGED own
      BY <1>10 DEF ConflictFirstCheck, ConflictSecondCheck, RunnerStep, Elsewhere
    <2>3. CASE ConflictEnds("check_failed", FALSE)
      BY <1>0, <2>2, <2>3, ConflictEndsPlain DEF Results
    <2>4. CASE /\ ConflictEnds("success", TRUE) /\ checked' = checked \cup {local}
               /\ ckpt' = [ckpt EXCEPT !.phase = "pushing"]
      <3>1. req' = ConflictRequest("success", TRUE, run.head) /\ pc' = "publish"
        BY <2>4 DEF ConflictEnds, Returns
      <3>2. "success" \in Results /\ run.head \in Revisions
        BY <1>0 DEF Results, RunType
      <3>3. Green(req')
        <4>1. ConflictFields(req', "success", TRUE, run.head)
          BY <3>1, <3>2, ConflictRequestFacts
        <4> QED BY <4>1 DEF Green, ConflictFields
      <3>4. ckpt'.phase = "pushing"
        BY <1>0, <2>4
      <3> QED BY <1>10, <2>4, <3>1, <3>3, <3>4
    <2>5. CASE pc' = "session" /\ UNCHANGED req
      BY <2>5
    <2>6. CASE ConflictRaises
      BY <2>2, <2>6, ConflictRaisesPlain
    <2> QED BY <2>1, <2>3, <2>4, <2>5, <2>6
  <1>11. CASE InferDecision
    <2>1. PICK readable \in BOOLEAN :
            \E q \in IF kind = "conflict" THEN {ConflictRequest("error", FALSE, Absent)}
                     ELSE HandoffRequests(Inferred(readable)) : Returns(q)
      BY <1>11 DEF InferDecision
    <2>2. CASE kind = "conflict"
      <3>1. Returns(ConflictRequest("error", FALSE, Absent))
        BY <2>1, <2>2
      <3>2. req' = ConflictRequest("error", FALSE, Absent) /\ pc' = "publish"
        BY <3>1 DEF Returns
      <3>3. "error" \in Results \ {"success"} /\ Absent \in Revisions
        BY RevisionFacts DEF Results
      <3> QED BY <1>11, <3>2, <3>3, PlainRequests DEF InferDecision, RunnerStep, Elsewhere
    <2>3. CASE kind # "conflict"
      <3>1. PICK q \in HandoffRequests(Inferred(readable)) : Returns(q)
        BY <2>1, <2>3
      <3>2. Ordinary(q)
        BY InferredFacts, StandingOrdinary
      <3>3. req' = q /\ pc' = "publish"
        BY <3>1 DEF Returns
      <3> QED BY <1>0, <1>11, <2>3, <3>2, <3>3
    <2> QED BY <2>2, <2>3
  <1>12. CASE RetryDecision
    <2>1. \/ \E q \in HandoffRequests(Inferred(TRUE)) : Returns(q)
          \/ pc' = "held" /\ req' = NoRequest
      BY <1>12 DEF RetryDecision
    <2>2. CASE pc' = "held" /\ req' = NoRequest
      BY <2>2
    <2>3. ASSUME NEW q \in HandoffRequests(Inferred(TRUE)), Returns(q)
          PROVE  pc' = "publish" /\ RetryDecision /\ Ordinary(req')
      <3>1. Ordinary(q)
        BY InferredFacts, StandingOrdinary
      <3>2. req' = q /\ pc' = "publish"
        BY <2>3 DEF Returns
      <3> QED BY <1>12, <3>1, <3>2
    <2> QED BY <2>1, <2>2, <2>3
  <1>13. CASE Publishes
    <2>1. CASE StampRaises
      <3>1. \/ req' = RaisedRequest("prepared") /\ pc' = "publish" /\ UNCHANGED own
            \/ req' = req /\ pc' = "finish"
        BY <2>1 DEF StampRaises
      <3> QED BY <3>1, RaisedPlain DEF Raised
    <2>2. CASE ~StampRaises
      BY <1>13, <2>2 DEF Publishes, PublishStep, Quiet, Untouched, BeginPublish, PushAccepted, PushReconciled,
           BranchMoved, PushBroken, AdvanceLease, MarkPublishing, AfterPush,
           FindPullRequest, CreatePullRequest, AutoMerge, Report, PostResult,
           RecordHandoff, SaveIntent, FindRecord, WriteRecord
    <2> QED BY <2>1, <2>2
  <1>14. CASE HoldWorkspace \/ PrepareAttempt \/ RecordLease \/ DispatchModel
              \/ StartFinalCheck \/ FinishFinalCheck \/ ReleaseComment \/
              Restart \/ FinishAttempt \/ ModelCommits \/ ModelEdits \/
              ModelWritesNote \/ ModelRebases \/ ModelEnds \/ Crash \/ BaseMoves
              \/ OtherPublishes \/ OperatorRepairs \/ OperatorRecovers
    BY ZenonT(40), <1>14 DEF Elsewhere, RunnerStep, Forgotten, AttemptIdle, HoldWorkspace, PrepareAttempt,
           RecordLease, DispatchModel, StartFinalCheck,
           FinishFinalCheck, ReleaseComment, Restart, FinishAttempt, ModelCommits,
           ModelEdits, ModelWritesNote, ModelRebases, ModelEnds, Crash, BaseMoves,
           OtherPublishes, OperatorRepairs, OperatorRecovers
  <1>15. CASE UNCHANGED vars
    BY <1>15 DEF vars
  <1> QED BY <1>1, <1>2, <1>3, <1>4, <1>5, <1>6, <1>7, <1>8, <1>9, <1>10, <1>11, <1>12, <1>13, <1>14, <1>15
      DEF AttemptNext, Worker, Model

-----------------------------------------------------------------------------
(* What the attempt remembers keeps its shape. *)

\* Each step changes the memory in few ways.
LEMMA MemorySteps ==
    ASSUME [AttemptNext]_vars
    PROVE  /\ comments' = comments \/ PostResult \/ ReleaseComment
           /\ \/ ckpt' = ckpt
              \/ \E p \in Phases : ckpt' = [ckpt EXCEPT !.phase = p]
              \/ RecordLease \/ AdvanceLease
           /\ \/ pub' = pub \/ pub' = Fresh \/ ReleaseComment
              \/ PublishStep
           /\ prep' = prep \/ prep' = NoPrep \/ PrepareAttempt
           /\ \/ run' = run \/ run' = NoRun
              \/ EnterSetup \/ RunPreparation \/ ModelEnds \/ EmergencyNote \/ FinishFinalCheck
              \/ ConflictEntry \/ ConflictRebased
           /\ mark' = mark \/ mark' \in {"started", "finished"}
           /\ actor' = actor \/ Restart \/ OperatorRecovers
           /\ wrote' = wrote \/ wrote' = TRUE \/ OperatorRepairs
  <1>1. comments' = comments \/ PostResult \/ ReleaseComment
    BY DEF AttemptNext, Worker, Model, Publishes, PublishStep, vars, AttemptIdle, Elsewhere,
           RunnerStep, Returns, Terminal, ConflictEnds, ConflictRaises, Forgotten, Fails, Quiet, Untouched,
           Pushed, PublicationFails, RecordDone, PushFails, HoldWorkspace,
           PrepareAttempt, PrepareFails, RecordLease, EnterSetup, RunPreparation,
           DispatchModel, VerifyResolution, SealWork, EmergencyNote, StartFinalCheck,
           FinishFinalCheck, Decide, ConflictEntry, ConflictRebased,
           ConflictFirstCheck, ConflictSession, ConflictResolved, ConflictSecondCheck,
           InferDecision, RetryDecision, Restart, FinishAttempt, ModelCommits,
           ModelEdits, ModelWritesNote, ModelRebases, ModelEnds, ModelRaises,
           ConflictUnresolved, Crash, BaseMoves, OperatorRepairs, OperatorRecovers,
           BeginPublish, StampRaises, PushAccepted, PushReconciled, BranchMoved, PushBroken,
           AdvanceLease, MarkPublishing, AfterPush, FindPullRequest,
           CreatePullRequest, AutoMerge, Report, RecordHandoff, SaveIntent,
           FindRecord, WriteRecord, OtherPublishes
  <1>2. \/ ckpt' = ckpt
        \/ \E p \in Phases : ckpt' = [ckpt EXCEPT !.phase = p]
        \/ RecordLease \/ AdvanceLease
    BY DEF AttemptNext, Worker, Model, Publishes, PublishStep, vars, AttemptIdle, Elsewhere,
           RunnerStep, Returns, Terminal, ConflictEnds, ConflictRaises, Forgotten, Fails, Quiet, Untouched,
           Pushed, PublicationFails, RecordDone, PushFails, HoldWorkspace,
           PrepareAttempt, PrepareFails, EnterSetup, RunPreparation, DispatchModel,
           VerifyResolution, SealWork, EmergencyNote, StartFinalCheck,
           FinishFinalCheck, Decide, ConflictEntry, ConflictRebased,
           ConflictFirstCheck, ConflictSession, ConflictResolved, ConflictSecondCheck,
           InferDecision, RetryDecision, ReleaseComment, Restart, FinishAttempt,
           ModelCommits, ModelEdits, ModelWritesNote, ModelRebases, ModelEnds,
           ModelRaises, ConflictUnresolved, Crash, BaseMoves, OtherPublishes,
           OperatorRepairs, OperatorRecovers, BeginPublish, StampRaises, PushAccepted,
           PushReconciled, BranchMoved, PushBroken, MarkPublishing, AfterPush,
           FindPullRequest, CreatePullRequest, AutoMerge, Report, PostResult,
           RecordHandoff, SaveIntent, FindRecord, WriteRecord, Recovered, Phases
  <1>3. pub' = pub \/ pub' = Fresh \/ ReleaseComment \/ PublishStep
    BY DEF AttemptNext, Worker, Model, Publishes, PublishStep, vars, AttemptIdle, Elsewhere,
           RunnerStep, Returns, Terminal, ConflictEnds, ConflictRaises, Forgotten, Fails, Quiet, Untouched,
           Pushed, PublicationFails, RecordDone, PushFails, HoldWorkspace,
           PrepareAttempt, PrepareFails, RecordLease, EnterSetup, RunPreparation,
           DispatchModel, VerifyResolution, SealWork, EmergencyNote, StartFinalCheck,
           FinishFinalCheck, Decide, ConflictEntry, ConflictRebased,
           ConflictFirstCheck, ConflictSession, ConflictResolved, ConflictSecondCheck,
           InferDecision, RetryDecision, Restart, FinishAttempt, ModelCommits,
           ModelEdits, ModelWritesNote, ModelRebases, ModelEnds, ModelRaises,
           ConflictUnresolved, Crash, BaseMoves, OtherPublishes, OperatorRepairs,
           OperatorRecovers
  <1>4. prep' = prep \/ prep' = NoPrep \/ PrepareAttempt
    BY DEF AttemptNext, Worker, Model, Publishes, PublishStep, vars, AttemptIdle, Elsewhere,
           RunnerStep, Returns, Terminal, ConflictEnds, ConflictRaises, Forgotten, Fails, Quiet, Untouched,
           Pushed, PublicationFails, RecordDone, PushFails, HoldWorkspace,
           PrepareFails, RecordLease, EnterSetup, RunPreparation, DispatchModel,
           VerifyResolution, SealWork, EmergencyNote, StartFinalCheck,
           FinishFinalCheck, Decide, ConflictEntry, ConflictRebased,
           ConflictFirstCheck, ConflictSession, ConflictResolved, ConflictSecondCheck,
           InferDecision, RetryDecision, ReleaseComment, Restart, FinishAttempt,
           ModelCommits, ModelEdits, ModelWritesNote, ModelRebases, ModelEnds,
           ModelRaises, ConflictUnresolved, Crash, BaseMoves, OtherPublishes,
           OperatorRepairs, OperatorRecovers, BeginPublish, StampRaises, PushAccepted,
           PushReconciled, BranchMoved, PushBroken, AdvanceLease, MarkPublishing,
           AfterPush, FindPullRequest, CreatePullRequest, AutoMerge, Report,
           PostResult, RecordHandoff, SaveIntent, FindRecord, WriteRecord
  <1>5. \/ run' = run \/ run' = NoRun
        \/ EnterSetup \/ RunPreparation \/ ModelEnds \/ EmergencyNote \/ FinishFinalCheck
        \/ ConflictEntry \/ ConflictRebased
    BY DEF AttemptNext, Worker, Model, Publishes, PublishStep, vars, AttemptIdle, Elsewhere,
           RunnerStep, Returns, Terminal, ConflictEnds, ConflictRaises, Forgotten, Fails, Quiet, Untouched,
           Pushed, PublicationFails, RecordDone, PushFails, HoldWorkspace,
           PrepareAttempt, PrepareFails, RecordLease, DispatchModel, VerifyResolution,
           SealWork, StartFinalCheck, Decide, ConflictFirstCheck, ConflictSession,
           ConflictResolved, ConflictSecondCheck, InferDecision, RetryDecision,
           ReleaseComment, Restart, FinishAttempt, ModelCommits, ModelEdits,
           ModelWritesNote, ModelRebases, ModelRaises, ConflictUnresolved, Crash,
           BaseMoves, OtherPublishes, OperatorRepairs, OperatorRecovers, BeginPublish, StampRaises,
           PushAccepted, PushReconciled, BranchMoved, PushBroken, AdvanceLease,
           MarkPublishing, AfterPush, FindPullRequest, CreatePullRequest, AutoMerge,
           Report, PostResult, RecordHandoff, SaveIntent, FindRecord, WriteRecord
  <1>6. mark' = mark \/ mark' \in {"started", "finished"}
    BY DEF AttemptNext, Worker, Model, Publishes, PublishStep, vars, AttemptIdle, Elsewhere,
           RunnerStep, Returns, Terminal, ConflictEnds, ConflictRaises, Forgotten, Fails, Quiet, Untouched,
           Pushed, PublicationFails, RecordDone, PushFails, HoldWorkspace,
           PrepareAttempt, PrepareFails, RecordLease, EnterSetup, RunPreparation,
           DispatchModel, VerifyResolution, SealWork, EmergencyNote, StartFinalCheck,
           FinishFinalCheck, Decide, ConflictEntry, ConflictRebased,
           ConflictFirstCheck, ConflictSession, ConflictResolved, ConflictSecondCheck,
           InferDecision, RetryDecision, ReleaseComment, Restart, FinishAttempt,
           ModelCommits, ModelEdits, ModelWritesNote, ModelRebases, ModelEnds,
           ModelRaises, ConflictUnresolved, Crash, BaseMoves, OtherPublishes,
           OperatorRepairs, OperatorRecovers, BeginPublish, StampRaises, PushAccepted,
           PushReconciled, BranchMoved, PushBroken, AdvanceLease, MarkPublishing,
           AfterPush, FindPullRequest, CreatePullRequest, AutoMerge, Report,
           PostResult, RecordHandoff, SaveIntent, FindRecord, WriteRecord
  <1>7. actor' = actor \/ Restart \/ OperatorRecovers
    BY DEF AttemptNext, Worker, Model, Publishes, PublishStep, vars, AttemptIdle, Elsewhere,
           RunnerStep, Returns, Terminal, ConflictEnds, ConflictRaises, Forgotten, Fails, Quiet, Untouched,
           Pushed, PublicationFails, RecordDone, PushFails, HoldWorkspace,
           PrepareAttempt, PrepareFails, RecordLease, EnterSetup, RunPreparation,
           DispatchModel, VerifyResolution, SealWork, EmergencyNote, StartFinalCheck,
           FinishFinalCheck, Decide, ConflictEntry, ConflictRebased,
           ConflictFirstCheck, ConflictSession, ConflictResolved, ConflictSecondCheck,
           InferDecision, RetryDecision, ReleaseComment, FinishAttempt, ModelCommits,
           ModelEdits, ModelWritesNote, ModelRebases, ModelEnds, ModelRaises,
           ConflictUnresolved, Crash, BaseMoves, OtherPublishes, OperatorRepairs,
           BeginPublish, StampRaises, PushAccepted, PushReconciled, BranchMoved, PushBroken,
           AdvanceLease, MarkPublishing, AfterPush, FindPullRequest,
           CreatePullRequest, AutoMerge, Report, PostResult, RecordHandoff,
           SaveIntent, FindRecord, WriteRecord
  <1>8. wrote' = wrote \/ wrote' = TRUE \/ OperatorRepairs
    BY DEF AttemptNext, Worker, Model, Publishes, PublishStep, vars, AttemptIdle, Elsewhere,
           RunnerStep, Returns, Terminal, ConflictEnds, ConflictRaises, Forgotten, Fails, Quiet, Untouched,
           Pushed, PublicationFails, RecordDone, PushFails, HoldWorkspace,
           PrepareAttempt, PrepareFails, RecordLease, EnterSetup, RunPreparation,
           DispatchModel, VerifyResolution, SealWork, EmergencyNote, StartFinalCheck,
           FinishFinalCheck, Decide, ConflictEntry, ConflictRebased,
           ConflictFirstCheck, ConflictSession, ConflictResolved, ConflictSecondCheck,
           InferDecision, RetryDecision, ReleaseComment, Restart, FinishAttempt,
           ModelCommits, ModelEdits, ModelWritesNote, ModelRebases, ModelEnds,
           ModelRaises, ConflictUnresolved, Crash, BaseMoves, OtherPublishes,
           OperatorRecovers, BeginPublish, StampRaises, PushAccepted, PushReconciled, BranchMoved,
           PushBroken, AdvanceLease, MarkPublishing, AfterPush, FindPullRequest,
           CreatePullRequest, AutoMerge, Report, PostResult, RecordHandoff,
           SaveIntent, FindRecord, WriteRecord
  <1> QED BY <1>1, <1>2, <1>3, <1>4, <1>5, <1>6, <1>7, <1>8

\* A publication keeps the shape of what it has observed.
LEMMA PubKept ==
    ASSUME AttemptShapes, [AttemptNext]_vars
    PROVE  pub' \in PubType
  <1>0. pub \in PubType /\ req \in RequestType /\ local \in Revisions
        /\ ckpt \in [phase : Phases, lease : Revisions, known : BOOLEAN]
    BY DEF AttemptShapes, MemoryOK, SurroundingsOK
  <1>1. Fresh \in PubType
    BY RevisionFacts DEF Fresh, PubType, Outcomes, Results
  <1>2. CASE BeginPublish
    <2> DEFINE c == IF ckpt.known THEN ckpt.lease ELSE Absent
    <2>1. c \in Revisions /\ req.outcome \in Outcomes /\ req.result \in Results
      BY <1>0, RevisionFacts DEF RequestType
    <2>2. pub' = [Fresh EXCEPT !.outcome = req.outcome, !.result = req.result, !.claimed = c]
      BY <1>2 DEF BeginPublish
    <2> HIDE DEF c
    <2> QED BY <1>1, <2>1, <2>2 DEF PubType
  <1>r. CASE StampRaises
    <2>1. pub' = pub \/ pub' = [Fresh EXCEPT !.posted = TRUE]
      BY <1>r DEF StampRaises
    <2> QED BY <1>0, <1>1, <2>1 DEF PubType
  <1>3. CASE PushAccepted \/ PushReconciled \/ AfterPush \/ AutoMerge \/ Report
    BY <1>0, <1>3 DEF PushAccepted, PushReconciled, Pushed, AfterPush, AutoMerge, Report, PubType
  <1>4. ASSUME NEW ok \in BOOLEAN, RecordDone(ok)
        PROVE  pub' \in PubType
    <2> DEFINE q == mode = "link" /\ ok /\ ~req.notify /\ req.shared
               p == q \/ pub.posted
    <2>1. p \in BOOLEAN
      BY <1>0 DEF PubType
    <2>2. pub' = [pub EXCEPT !.recorded = ok, !.verify = FALSE, !.last = TRUE, !.posted = p]
      BY <1>4 DEF RecordDone
    <2> HIDE DEF p
    <2> QED BY <1>0, <2>1, <2>2 DEF PubType
  <1>5. ASSUME NEW moved \in BOOLEAN, PublicationFails(moved)
        PROVE  pub' \in PubType
    <2> DEFINE o == FailedOutcome(moved)
               r == IF IsConflict THEN "push_failed" ELSE pub.result
    <2>1. o \in Outcomes
      BY DEF FailedOutcome, Outcomes
    <2>2. r \in Results
      BY <1>0 DEF Results, PubType
    <2>3. pub' = [pub EXCEPT !.outcome = o, !.last = TRUE, !.result = r]
      BY <1>5 DEF PublicationFails
    <2> HIDE DEF o, r
    <2> QED BY <1>0, <2>1, <2>2, <2>3 DEF PubType
  <1>6. PushFails => pub' \in PubType
    BY <1>4, <1>5 DEF PushFails
  <1>7. CASE BranchMoved \/ PushBroken \/ AdvanceLease
    BY <1>0, <1>5, <1>6, <1>7 DEF BranchMoved, PushBroken, AdvanceLease
  <1>8. CASE MarkPublishing
    <2> DEFINE r == NoChangeResult(pub.result)
    <2>1. r \in Results
      BY <1>0 DEF NoChangeResult, PubType, Results
    <2>2. pub' = [pub EXCEPT !.result = r] \/ PushFails
      BY <1>8 DEF MarkPublishing
    <2> HIDE DEF r
    <2> QED BY <1>0, <1>6, <2>1, <2>2 DEF PubType
  <1>9. CASE FindPullRequest \/ CreatePullRequest
    <2>1. "complete" \in Outcomes /\ "infra" \in Outcomes
      BY DEF Outcomes
    <2>2. \/ pub' = pub \/ pub' = [pub EXCEPT !.outcome = "complete"]
          \/ pub' = [pub EXCEPT !.outcome = "infra", !.last = TRUE]
      BY <1>9 DEF FindPullRequest, CreatePullRequest
    <2> QED BY <1>0, <2>1, <2>2 DEF PubType
  <1>10. CASE PostResult
    <2>1. \E p \in BOOLEAN : pub' = [pub EXCEPT !.posted = p]
      BY <1>10 DEF PostResult
    <2> QED BY <1>0, <2>1 DEF PubType
  <1>11. CASE RecordHandoff
    <2>1. pub' = pub \/ RecordDone(TRUE) \/ pub' = [pub EXCEPT !.verify = TRUE]
      BY <1>11 DEF RecordHandoff
    <2> QED BY <1>0, <1>4, <2>1 DEF PubType
  <1>12. CASE SaveIntent \/ FindRecord \/ WriteRecord
    BY <1>0, <1>4, <1>12 DEF SaveIntent, FindRecord, WriteRecord
  <1>13. CASE ReleaseComment
    <2>1. pub' = Fresh \/ pub' = [Fresh EXCEPT !.posted = TRUE]
      BY <1>13 DEF ReleaseComment
    <2> QED BY <1>1, <2>1 DEF PubType
  <1> QED BY <1>0, <1>1, <1>2, <1>r, <1>3, <1>7, <1>8, <1>9, <1>10, <1>11, <1>12, <1>13, MemorySteps
      DEF PublishStep

\* So does what the runner has observed.
LEMMA RunKept ==
    ASSUME AttemptShapes, [AttemptNext]_vars
    PROVE  run' \in RunType
  <1>0. run \in RunType /\ remote \in Revisions
    BY DEF AttemptShapes, MemoryOK, SurroundingsOK
  <1>1. NoRun \in RunType
    BY RevisionFacts DEF NoRun, RunType
  <1>2. CASE EnterSetup
    <2> DEFINE c == HasCommits(local)
               d == tree = "conflict"
    <2>1. c \in BOOLEAN /\ d \in BOOLEAN
      BY DEF HasCommits
    <2>2. run' = NoRun \/ run' = [NoRun EXCEPT !.continuation = c, !.deferred = d]
      BY <1>2 DEF EnterSetup, Terminal, Returns
    <2> HIDE DEF c, d
    <2> QED BY <1>1, <2>1, <2>2 DEF RunType
  <1>3. CASE RunPreparation
    <2>1. run' = NoRun \/ \E b \in {"none", "red", "green"} : run' = [run EXCEPT !.baseline = b]
      BY <1>3 DEF RunPreparation, Terminal, Returns
    <2> QED BY <1>0, <1>1, <2>1 DEF RunType
  <1>4. CASE ModelEnds
    <2>1. \E s \in Statuses : run' = [run EXCEPT !.status = s]
      BY <1>4 DEF ModelEnds
    <2> QED BY <1>0, <2>1 DEF RunType
  <1>5. CASE EmergencyNote
    <2> DEFINE s == IF run.status = "limit" THEN "handoff" ELSE run.status
    <2>1. s \in Statuses \cup {"none"}
      BY <1>0 DEF RunType, Statuses
    <2>2. run' = [run EXCEPT !.status = s] \/ run' = NoRun
      BY <1>5 DEF EmergencyNote, Terminal, Returns
    <2> HIDE DEF s
    <2> QED BY <1>0, <1>1, <2>1, <2>2 DEF RunType
  <1>6. CASE FinishFinalCheck
    <2>1. \E c \in {"red", "green"}, n \in BOOLEAN : run' = [run EXCEPT !.check = c, !.residue = n]
      BY <1>6 DEF FinishFinalCheck
    <2> QED BY <1>0, <2>1 DEF RunType
  <1>7. CASE ConflictEntry
    <2>1. run' = NoRun \/ run' = [NoRun EXCEPT !.head = remote]
      BY <1>7 DEF ConflictEntry, ConflictEnds, ConflictRaises, Returns
    <2> QED BY <1>0, <1>1, <2>1 DEF RunType
  <1>8. CASE ConflictRebased
    <2>1. run' = NoRun \/ run' = run \/ run' = [run EXCEPT !.deferred = TRUE]
      BY <1>8 DEF ConflictRebased, ConflictEnds, ConflictRaises, Returns
    <2> QED BY <1>0, <1>1, <2>1 DEF RunType
  <1> QED BY <1>0, <1>1, <1>2, <1>3, <1>4, <1>5, <1>6, <1>7, <1>8, MemorySteps

\* A comment is only ever posted where there is none.
LEMMA CommentsKept ==
    ASSUME AttemptShapes, [AttemptNext]_vars
    PROVE  /\ comments' \in Seq(CommentType)
           /\ \/ comments' = comments
              \/ /\ comments = <<>> /\ ReleaseComment
                 /\ comments' = <<[outcome |-> "released", result |-> "ordinary"]>>
              \/ /\ comments = <<>> /\ PostResult
                 /\ comments' = <<[outcome |-> pub.outcome, result |-> pub.result]>>
  <1>0. pub \in PubType /\ comments \in Seq(CommentType)
    BY DEF AttemptShapes, MemoryOK
  <1>1. CASE PostResult
    <2> DEFINE c == [outcome |-> pub.outcome, result |-> pub.result]
    <2>1. c \in CommentType
      BY <1>0 DEF PubType, CommentType
    <2>7. \/ comments' = IF ToPost THEN Append(comments, c) ELSE comments
          \/ comments' = comments
          \/ ToPost /\ comments' = Append(comments, c)
      BY <1>1, Zenon DEF PostResult
    <2> HIDE DEF c
    <2>2. comments' = comments \/ (comments = <<>> /\ comments' = Append(comments, c))
      BY <2>7 DEF ToPost
    <2>3. comments = <<>> => Append(comments, c) = <<c>>
      OBVIOUS
    <2>4. <<c>> \in Seq(CommentType)
      BY <2>1
    <2>5. comments' = comments \/ (comments = <<>> /\ comments' = <<c>>)
      BY <2>2, <2>3
    <2>6. comments' \in Seq(CommentType)
      BY <1>0, <2>4, <2>5
    <2> QED BY <1>1, <2>5, <2>6 DEF c
  <1>2. CASE ReleaseComment
    <2> DEFINE c == [outcome |-> "released", result |-> "ordinary"]
    <2>1. c \in CommentType
      BY DEF CommentType, Outcomes, Results
    <2>7. \/ comments' = IF ToPost THEN Append(comments, c) ELSE comments
          \/ comments' = comments
          \/ ToPost /\ comments' = Append(comments, c)
      BY <1>2, Zenon DEF ReleaseComment
    <2> HIDE DEF c
    <2>2. comments' = comments \/ (comments = <<>> /\ comments' = Append(comments, c))
      BY <2>7 DEF ToPost
    <2>3. comments = <<>> => Append(comments, c) = <<c>>
      OBVIOUS
    <2>4. <<c>> \in Seq(CommentType)
      BY <2>1
    <2>5. comments' = comments \/ (comments = <<>> /\ comments' = <<c>>)
      BY <2>2, <2>3
    <2>6. comments' \in Seq(CommentType)
      BY <1>0, <2>4, <2>5
    <2> QED BY <1>2, <2>5, <2>6 DEF c
  <1> QED BY <1>0, <1>1, <1>2, MemorySteps

\* What the attempt remembers keeps its shape.
LEMMA MemoryKept ==
    ASSUME AttemptShapes, [AttemptNext]_vars
    PROVE  MemoryOK'
  <1>0. MemoryOK
    BY DEF AttemptShapes
  <1>1. ckpt' \in [phase : Phases, lease : Revisions, known : BOOLEAN]
    <2>0. /\ ckpt \in [phase : Phases, lease : Revisions, known : BOOLEAN]
          /\ prep.seen \in Revisions /\ pub.pushed \in Revisions
      BY <1>0 DEF MemoryOK, PrepType, PubType
    <2>1. CASE RecordLease
      <3>1. ckpt' = ckpt \/ ckpt' = [ckpt EXCEPT !.lease = prep.seen, !.known = TRUE]
        BY <2>1 DEF RecordLease
      <3> QED BY <2>0, <3>1
    <2>2. CASE AdvanceLease
      <3>1. ckpt' = ckpt \/ ckpt' = [ckpt EXCEPT !.lease = pub.pushed, !.known = TRUE]
        BY <2>2 DEF AdvanceLease
      <3> QED BY <2>0, <3>1
    <2>3. ASSUME NEW p \in Phases, ckpt' = [ckpt EXCEPT !.phase = p]
          PROVE  ckpt' \in [phase : Phases, lease : Revisions, known : BOOLEAN]
      BY <2>0, <2>3
    <2> QED BY <2>0, <2>1, <2>2, <2>3, MemorySteps
  <1>2. req' \in RequestType
    <2>1. NoRequest \in RequestType
      <3>1. "none" \in Outcomes
        BY DEF Outcomes
      <3>2. OrdinaryFields(Request("none", FALSE, FALSE), "none", FALSE, FALSE)
        BY <3>1, RequestFacts
      <3> QED BY <3>2 DEF NoRequest, OrdinaryFields
    <2> QED BY <1>0, <2>1, Returned DEF MemoryOK, Plain, Ordinary, Green
  <1>3. prep' \in PrepType
    <2>1. NoPrep \in PrepType
      BY RevisionFacts DEF NoPrep, PrepType
    <2> QED BY <1>0, <2>1, MemorySteps, PrepareLocal DEF MemoryOK
  <1>4. mark' \in {"none", "started", "finished"} /\ actor' \in {"runner", "startup", "retry", "release"}
    BY <1>0, MemorySteps DEF MemoryOK, Restart, OperatorRecovers
  <1>5. wrote' \in BOOLEAN
    <2>1. OperatorRepairs => wrote' \in BOOLEAN
      BY DEF OperatorRepairs
    <2> QED BY <1>0, <2>1, MemorySteps DEF MemoryOK
  <1> QED BY <1>1, <1>2, <1>3, <1>4, <1>5, PubKept, RunKept, CommentsKept DEF MemoryOK

\* Where a step leads.
LEMMA PlaceSteps ==
    ASSUME [AttemptNext]_vars
    PROVE  /\ pc \in AllSteps => pc' \in AllSteps
           /\ pc' \in OrdinarySteps => (pc \in OrdinarySteps /\ actor' = actor) \/ RecordLease
           /\ pc' \in ConflictSteps => (pc \in ConflictSteps /\ actor' = actor) \/ RecordLease
           /\ pc' = "entry" => pc = "entry" /\ actor' = actor
           /\ pc' = "infer" => (pc = "infer" /\ actor' = actor) \/ RecordLease
           /\ pc' \in {"lease", "release"} =>
                 (pc = pc' /\ actor' = actor) \/ (PrepareAttempt /\ pc' = IF actor = "release" THEN "release" ELSE "lease")
  <1> USE DEF OrdinarySteps, ConflictSteps
  <1>1. pc \in AllSteps => pc' \in AllSteps
    <2> USE DEF AllSteps, PublishSteps
    <2> QED BY DEF AttemptNext, Worker, Model, Publishes, PublishStep, vars, AttemptIdle, Elsewhere,
           RunnerStep, Returns, Terminal, ConflictEnds, ConflictRaises, Forgotten, Fails, Quiet, Untouched,
           Pushed, PublicationFails, RecordDone, PushFails, HoldWorkspace,
           PrepareAttempt, PrepareFails, RecordLease, EnterSetup, RunPreparation,
           DispatchModel, VerifyResolution, SealWork, EmergencyNote, StartFinalCheck,
           FinishFinalCheck, Decide, ConflictEntry, ConflictRebased,
           ConflictFirstCheck, ConflictSession, ConflictResolved, ConflictSecondCheck,
           InferDecision, RetryDecision, ReleaseComment, Restart, FinishAttempt,
           ModelCommits, ModelEdits, ModelWritesNote, ModelRebases, ModelEnds,
           ModelRaises, ConflictUnresolved, Crash, BaseMoves, OtherPublishes,
           OperatorRepairs, OperatorRecovers, BeginPublish, StampRaises, PushAccepted,
           PushReconciled, BranchMoved, PushBroken, AdvanceLease, MarkPublishing,
           AfterPush, FindPullRequest, CreatePullRequest, AutoMerge, Report,
           PostResult, RecordHandoff, SaveIntent, FindRecord, WriteRecord
  <1>2. pc' \in OrdinarySteps => (pc \in OrdinarySteps /\ actor' = actor) \/ RecordLease
    BY ZenonT(40) DEF AttemptNext, Worker, Model, Publishes, PublishStep, vars, AttemptIdle, Elsewhere,
           RunnerStep, Returns, Terminal, ConflictEnds, ConflictRaises, Forgotten, Fails, Quiet, Untouched,
           Pushed, PublicationFails, RecordDone, PushFails, HoldWorkspace,
           PrepareAttempt, PrepareFails, EnterSetup, RunPreparation, DispatchModel,
           VerifyResolution, SealWork, EmergencyNote, StartFinalCheck,
           FinishFinalCheck, Decide, ConflictEntry, ConflictRebased,
           ConflictFirstCheck, ConflictSession, ConflictResolved, ConflictSecondCheck,
           InferDecision, RetryDecision, ReleaseComment, Restart, FinishAttempt,
           ModelCommits, ModelEdits, ModelWritesNote, ModelRebases, ModelEnds,
           ModelRaises, ConflictUnresolved, Crash, BaseMoves, OtherPublishes,
           OperatorRepairs, OperatorRecovers, BeginPublish, StampRaises, PushAccepted,
           PushReconciled, BranchMoved, PushBroken, AdvanceLease, MarkPublishing,
           AfterPush, FindPullRequest, CreatePullRequest, AutoMerge, Report,
           PostResult, RecordHandoff, SaveIntent, FindRecord, WriteRecord
  <1>3. pc' \in ConflictSteps => (pc \in ConflictSteps /\ actor' = actor) \/ RecordLease
    BY ZenonT(40) DEF AttemptNext, Worker, Model, Publishes, PublishStep, vars, AttemptIdle, Elsewhere,
           RunnerStep, Returns, Terminal, ConflictEnds, ConflictRaises, Forgotten, Fails, Quiet, Untouched,
           Pushed, PublicationFails, RecordDone, PushFails, HoldWorkspace,
           PrepareAttempt, PrepareFails, EnterSetup, RunPreparation, DispatchModel,
           VerifyResolution, SealWork, EmergencyNote, StartFinalCheck,
           FinishFinalCheck, Decide, ConflictEntry, ConflictRebased,
           ConflictFirstCheck, ConflictSession, ConflictResolved, ConflictSecondCheck,
           InferDecision, RetryDecision, ReleaseComment, Restart, FinishAttempt,
           ModelCommits, ModelEdits, ModelWritesNote, ModelRebases, ModelEnds,
           ModelRaises, ConflictUnresolved, Crash, BaseMoves, OtherPublishes,
           OperatorRepairs, OperatorRecovers, BeginPublish, StampRaises, PushAccepted,
           PushReconciled, BranchMoved, PushBroken, AdvanceLease, MarkPublishing,
           AfterPush, FindPullRequest, CreatePullRequest, AutoMerge, Report,
           PostResult, RecordHandoff, SaveIntent, FindRecord, WriteRecord
  <1>4. pc' = "entry" => pc = "entry" /\ actor' = actor
    BY DEF AttemptNext, Worker, Model, Publishes, PublishStep, vars, AttemptIdle, Elsewhere,
           RunnerStep, Returns, Terminal, ConflictEnds, ConflictRaises, Forgotten, Fails, Quiet, Untouched,
           Pushed, PublicationFails, RecordDone, PushFails, HoldWorkspace,
           PrepareAttempt, PrepareFails, RecordLease, EnterSetup, RunPreparation,
           DispatchModel, VerifyResolution, SealWork, EmergencyNote, StartFinalCheck,
           FinishFinalCheck, Decide, ConflictEntry, ConflictRebased,
           ConflictFirstCheck, ConflictSession, ConflictResolved, ConflictSecondCheck,
           InferDecision, RetryDecision, ReleaseComment, Restart, FinishAttempt,
           ModelCommits, ModelEdits, ModelWritesNote, ModelRebases, ModelEnds,
           ModelRaises, ConflictUnresolved, Crash, BaseMoves, OtherPublishes,
           OperatorRepairs, OperatorRecovers, BeginPublish, StampRaises, PushAccepted,
           PushReconciled, BranchMoved, PushBroken, AdvanceLease, MarkPublishing,
           AfterPush, FindPullRequest, CreatePullRequest, AutoMerge, Report,
           PostResult, RecordHandoff, SaveIntent, FindRecord, WriteRecord
  <1>5. pc' = "infer" => (pc = "infer" /\ actor' = actor) \/ RecordLease
    BY DEF AttemptNext, Worker, Model, Publishes, PublishStep, vars, AttemptIdle, Elsewhere,
           RunnerStep, Returns, Terminal, ConflictEnds, ConflictRaises, Forgotten, Fails, Quiet, Untouched,
           Pushed, PublicationFails, RecordDone, PushFails, HoldWorkspace,
           PrepareAttempt, PrepareFails, EnterSetup, RunPreparation, DispatchModel,
           VerifyResolution, SealWork, EmergencyNote, StartFinalCheck,
           FinishFinalCheck, Decide, ConflictEntry, ConflictRebased,
           ConflictFirstCheck, ConflictSession, ConflictResolved, ConflictSecondCheck,
           InferDecision, RetryDecision, ReleaseComment, Restart, FinishAttempt,
           ModelCommits, ModelEdits, ModelWritesNote, ModelRebases, ModelEnds,
           ModelRaises, ConflictUnresolved, Crash, BaseMoves, OtherPublishes,
           OperatorRepairs, OperatorRecovers, BeginPublish, StampRaises, PushAccepted,
           PushReconciled, BranchMoved, PushBroken, AdvanceLease, MarkPublishing,
           AfterPush, FindPullRequest, CreatePullRequest, AutoMerge, Report,
           PostResult, RecordHandoff, SaveIntent, FindRecord, WriteRecord
  <1>6. pc' \in {"lease", "release"} => (pc = pc' /\ actor' = actor) \/ PrepareAttempt
    BY DEF AttemptNext, Worker, Model, Publishes, PublishStep, vars, AttemptIdle, Elsewhere,
           RunnerStep, Returns, Terminal, ConflictEnds, ConflictRaises, Forgotten, Fails, Quiet, Untouched,
           Pushed, PublicationFails, RecordDone, PushFails, HoldWorkspace,
           PrepareFails, RecordLease, EnterSetup, RunPreparation, DispatchModel,
           VerifyResolution, SealWork, EmergencyNote, StartFinalCheck,
           FinishFinalCheck, Decide, ConflictEntry, ConflictRebased,
           ConflictFirstCheck, ConflictSession, ConflictResolved, ConflictSecondCheck,
           InferDecision, RetryDecision, ReleaseComment, Restart, FinishAttempt,
           ModelCommits, ModelEdits, ModelWritesNote, ModelRebases, ModelEnds,
           ModelRaises, ConflictUnresolved, Crash, BaseMoves, OtherPublishes,
           OperatorRepairs, OperatorRecovers, BeginPublish, StampRaises, PushAccepted,
           PushReconciled, BranchMoved, PushBroken, AdvanceLease, MarkPublishing,
           AfterPush, FindPullRequest, CreatePullRequest, AutoMerge, Report,
           PostResult, RecordHandoff, SaveIntent, FindRecord, WriteRecord
  <1>7. PrepareAttempt => pc' = IF actor = "release" THEN "release" ELSE "lease"
    BY DEF PrepareAttempt
  <1> QED BY <1>1, <1>2, <1>3, <1>4, <1>5, <1>6, <1>7

\* The process is where its kind and its actor may be, and works on a branch.
LEMMA PlaceKept ==
    ASSUME AttemptShapes, [AttemptNext]_vars
    PROVE  PlaceOK'
  <1>0. PlaceOK /\ kind \in {"ordinary", "conflict"} /\ actor \in {"runner", "startup", "retry", "release"}
    BY DEF AttemptShapes, SurroundingsOK, MemoryOK
  <1>1. kind' = kind /\ (local # Absent => local' # Absent)
    BY SurroundingSteps, LocalType
  <1>2. RecordLease => /\ pc = "lease" /\ actor' = actor
                       /\ pc' = IF actor # "runner" THEN "infer"
                                ELSE IF kind = "conflict" THEN "rebased" ELSE "setup"
    BY DEF RecordLease
  <1>3. PrepareAttempt => actor' = actor /\ local' # Absent
    <2>1. PrepareAttempt => actor' = actor
      BY DEF PrepareAttempt
    <2>2. PrepareAttempt => local' # Absent
      BY PrepareLocal
    <2> QED BY <2>1, <2>2
  <1>4. pc' \in AllSteps
    BY <1>0, PlaceSteps DEF PlaceOK
  <1>5. pc' \in OrdinarySteps => actor' = "runner" /\ kind' = "ordinary"
    BY <1>0, <1>1, <1>2, PlaceSteps DEF PlaceOK, OrdinarySteps
  <1>6. pc' \in ConflictSteps \cup {"entry"} => actor' = "runner" /\ kind' = "conflict"
    BY <1>0, <1>1, <1>2, PlaceSteps DEF PlaceOK, ConflictSteps
  <1>7. /\ pc' = "infer" => actor' \in {"startup", "retry"}
        /\ pc' = "lease" => actor' # "release"
        /\ pc' = "release" => actor' = "release"
    BY <1>0, <1>2, <1>3, PlaceSteps DEF PlaceOK
  <1>8. pc' \in OrdinarySteps \cup ConflictSteps \cup {"lease", "infer", "release"} => local' # Absent
    BY <1>0, <1>1, <1>2, <1>3, PlaceSteps DEF PlaceOK
  <1>9. pc' \in PublishSteps /\ NeedsPush(req') => local' # Absent
    <2>1. Decide \/ InferDecision \/ RetryDecision \/ ConflictFirstCheck \/ ConflictSecondCheck =>
             local # Absent
      BY <1>0 DEF PlaceOK, Decide, InferDecision, RetryDecision, ConflictFirstCheck, ConflictSecondCheck,
             OrdinarySteps, ConflictSteps
    <2> QED BY <1>0, <1>1, <2>1, Returned DEF PlaceOK, Plain
  <1> QED BY <1>4, <1>5, <1>6, <1>7, <1>8, <1>9 DEF PlaceOK, NeedsPush

\* The shapes are kept.
LEMMA ShapesInductive ==
    ASSUME AttemptShapes, [AttemptNext]_vars
    PROVE  AttemptShapes'
  BY SurroundingsKept, MemoryKept, PlaceKept DEF AttemptShapes

\* An attempt starts with a claimed issue and, when it has one, its branch.
LEMMA ShapesInitial == AttemptInit => AttemptShapes
  <1> SUFFICES ASSUME AttemptInit PROVE AttemptShapes
    OBVIOUS
  <1>1. PICK s \in Scenes : /\ kind = s.kind /\ mode = s.mode /\ base = s.base
                            /\ remote = s.remote /\ local = s.local /\ clashes = s.clashes
    BY DEF AttemptInit
  <1>2. Branch({"old"}, 0) \in RealRevision
    BY NewBranch, RevisionFacts DEF Commits
  <1>3. /\ s.kind \in {"ordinary", "conflict"} /\ s.mode \in {"verbose", "link"}
        /\ s.base \in 0 .. MaxBase /\ s.clashes \subseteq Commits
        /\ s.remote \in {Absent, Branch({"old"}, 0)} /\ s.local \in {Absent, Branch({"old"}, 0)}
    BY AttemptAssumption
  <1>4. SurroundingsOK
    <2>1. remote \in Revisions /\ local \in Revisions /\ Absent \in Revisions
      BY <1>1, <1>2, <1>3, RevisionFacts
    <2>2. record \in [by : {"none", "earlier", "this", "newer"}, rev : Revisions]
      BY <2>1 DEF AttemptInit
    <2> QED BY <1>1, <1>3, <2>1, <2>2 DEF AttemptInit, SurroundingsOK
  <1>5. MemoryOK
    <2>1. NoRequest \in RequestType
      <3>1. "none" \in Outcomes
        BY DEF Outcomes
      <3>2. OrdinaryFields(Request("none", FALSE, FALSE), "none", FALSE, FALSE)
        BY <3>1, RequestFacts
      <3> QED BY <3>2 DEF NoRequest, OrdinaryFields
    <2>2. Fresh \in PubType
      BY RevisionFacts DEF Fresh, PubType, Outcomes, Results
    <2>3. NoPrep \in PrepType /\ NoRun \in RunType
      BY RevisionFacts DEF NoPrep, PrepType, NoRun, RunType
    <2>4. <<>> \in Seq(CommentType)
      OBVIOUS
    <2>5. ckpt \in [phase : Phases, lease : Revisions, known : BOOLEAN]
      BY RevisionFacts DEF AttemptInit, Phases
    <2> QED BY <2>1, <2>2, <2>3, <2>4, <2>5 DEF AttemptInit, MemoryOK
  <1>6. PlaceOK
    BY <1>1, <1>3 DEF AttemptInit, PlaceOK, AllSteps, OrdinarySteps, ConflictSteps, PublishSteps
  <1> QED BY <1>4, <1>5, <1>6 DEF AttemptShapes

\* The variables of an attempt keep their types, and a workspace that is worked
\* on has a branch, through every crash, restart and recovery
\* (ModelAttemptRunner, Publisher, _reconcile_startup).
THEOREM AttemptTypeHolds == AttemptSpec => []AttemptTypeOK
  <1>1. AttemptInit => AttemptShapes
    BY ShapesInitial
  <1>2. AttemptShapes /\ [AttemptNext]_vars => AttemptShapes'
    BY ShapesInductive
  <1>3. AttemptShapes => AttemptTypeOK
    <2> SUFFICES ASSUME AttemptShapes PROVE AttemptTypeOK
      OBVIOUS
    <2>1. \A i \in 1 .. Len(comments) : comments[i].outcome \in Outcomes /\ comments[i].result \in Results
      <3>1. comments \in Seq(CommentType)
        BY DEF AttemptShapes, MemoryOK
      <3>2. \A i \in 1 .. Len(comments) : comments[i] \in CommentType
        BY <3>1
      <3> QED BY <3>2 DEF CommentType
    <2>2. /\ ckpt \in [phase : Phases, lease : Revisions, known : BOOLEAN]
          /\ req.outcome \in Outcomes /\ req.result \in Results
          /\ mark \in {"none", "started", "finished"} /\ run.status \in Statuses \cup {"none"}
      BY DEF AttemptShapes, MemoryOK, RequestType, RunType
    <2>3. SurroundingsOK
      BY DEF AttemptShapes
    <2> QED BY <2>1, <2>2, <2>3 DEF AttemptTypeOK, SurroundingsOK
  <1> QED BY <1>1, <1>2, <1>3, PTL DEF AttemptSpec

-----------------------------------------------------------------------------
(* What the properties rest on *)

\* The first run has pushed and told nothing yet.
Untold == FirstRun => own = {} /\ comments = <<>>

\* The base only moves forward, and a note names no later one than its branch.
Ordered(r) == r.cites <= r.base /\ r.base <= base
Bases == \A r \in {remote, local, prep.pre} \cup own : Ordered(r)

\* s has the note of r, on the same base or a later one.
Earlier(r, s) == r.note = s.note /\ r.cites = s.cites /\ r.base <= s.base

SomeNote == \E r \in own : NoteValid(r)

\* Every note on origin, or in a clone whose attempt has pushed, was pushed by
\* this attempt.
Notes ==
    /\ ckpt.phase = "publishing" => own # {}
    /\ remote.note # "none" => \E r \in own : Earlier(r, remote)
    /\ own # {} /\ local.note # "none" => \E r \in own : Earlier(r, local)

\* What may be told of the branch: a shared record of this attempt, and comments
Records == record.by = "this" => record.rev \in own /\ NoteValid(record.rev) /\ intent # Absent

TwoRevisions == \E r, s \in history : r # s

\* The ghosts: what the attempt pushed itself, and where it started
Ghosts ==
    /\ remote \in history /\ (kind = "conflict" => pr # "none")
    /\ actor = "runner" => own \subseteq {local}
    /\ FirstRun /\ kind = "conflict" /\ pc # "entry" => run.head \in history
    /\ FirstRun /\ pc # "decide" => run.check = "none"
    /\ pc = "decide" /\ run.check = "green" /\ ~run.residue => local \in checked

\* A request is published as it was decided.
Requests ==
    pc \in PublishSteps =>
        /\ req.outcome = "handoff" => NoteValid(local) /\ req.partial /\ req.result = "ordinary"
        /\ req.outcome = "complete" => req.result = "success"
        /\ req.push <=> req.result = "success"
        /\ req.result = "success" => /\ kind = "conflict" /\ req.head \in history /\ local \in checked
                                     /\ pc = "publish" => ckpt.phase = "pushing"
        /\ req.eligible => (actor = "runner" => local \in checked) /\ req.result = "ordinary"
        /\ kind = "conflict" /\ actor # "retry" /\ NeedsPush(req) => local \in checked

Publishing == pc \in PublishSteps \ {"publish"}

\* What the publication has observed is so.
Observed ==
    Publishing =>
        /\ pub.pushed # Absent => pub.pushed = local /\ local \in own /\ local \in history
        /\ pub.outcome = "handoff" => req.outcome = "handoff"
        /\ pub.result = "success" => req.result = "success"
        /\ pub.outcome = "complete" => pr # "none" /\ (actor = "runner" => local \in checked)

\* Each step of a publication has what it needs.
StepsReady ==
    /\ pc \in {"push", "advance", "mark"} => NeedsPush(req) /\ (pub.verify => pub.outcome = "handoff")
    /\ pc \in {"advance", "mark", "intent", "find_record", "write_record"} => pub.pushed # Absent
    /\ pc \in {"record", "intent", "find_record", "write_record"} => pub.outcome = "handoff"
    /\ pc \in {"find_record", "write_record"} => intent = pub.pushed
    /\ pc \in {"find_pr", "create_pr"} => req.eligible
    /\ pc \in {"pushed", "find_pr", "create_pr", "merge"} => own # {}

\* What is to be told is so, once the push is behind.
ToTell ==
    Publishing =>
        /\ pub.outcome = "complete" /\ pc # "push" => own # {}
        /\ pub.outcome = "handoff" /\ (pc # "push" \/ pub.verify) => SomeNote
        /\ pub.result = "success" /\ pc \notin {"push", "advance", "mark"} => TwoRevisions

\* What was told is so.
WasTold ==
    /\ Posted("handoff") => SomeNote
    /\ Posted("complete") => /\ own # {} /\ pr # "none"
                             /\ actor = "runner" => own \subseteq checked
    /\ (\E i \in 1 .. Len(comments) : comments[i].result = "success") => TwoRevisions

Told == comments # <<>> \/ (intent # Absent /\ record.by \in {"this", "newer"})

\* An except clause could not begin its publication.
Unbegun == kind = "conflict" /\ actor \in {"runner", "startup"} /\ NeverBegun

\* Somebody was told, where the attempt takes it for told.
Telling ==
    /\ Publishing /\ pub.posted => Told
    /\ pc = "finish" /\ pub.posted => Told \/ Unbegun
    /\ pc = "done" => Told \/ Unbegun

\* A conflict attempt is published by itself or by its recovery; where nothing
\* was prepared, nothing of the model's is left to clean up.
Handlers ==
    /\ pc = "publish" => /\ req.result # "ordinary" => kind = "conflict" /\ actor \in {"runner", "startup"}
                         /\ req.raised # "no" => req.result # "ordinary"
    /\ pc \in PublishSteps \cup {"finish"} /\ actor = "runner" /\ NothingPrepared /\ wrote
          => "work" \in local.work

\* The model's changes are on the branch or in the tree.
Changes ==
    actor = "runner" =>
        /\ wrote => "work" \in local.work \/ tree = "dirty"
        /\ pc \in {"entry", "prepare", "lease", "setup", "rebased", "dispatch", "first_check",
                   "session"} => ~wrote
        /\ pc \in {"lease", "setup", "rebased"} =>
              tree \in {"clean", "conflict"} /\ (prep.pre # Absent => tree = "conflict")
        /\ pc \in {"preparation", "note", "check", "checking", "first_check", "second_check"} =>
              tree = "clean"
        /\ pc = "preparation" /\ ~run.deferred => ~wrote
        /\ pc \in {"preparation", "dispatch", "model", "verify", "first_check", "session", "resolve"} =>
              /\ prep.pre # Absent => run.deferred
              /\ run.deferred /\ tree \in {"conflict", "markers"} => ~wrote

\* The end of the attempt itself has them on the branch.
Ended == pc = "done" /\ actor = "runner" /\ wrote => "work" \in local.work

Other(r) == "other" \in r.work

\* Another Worker's work in the lease is in the clone and on origin.
Leases ==
    /\ ckpt.known /\ Other(ckpt.lease) => Other(local) /\ Other(remote)
    /\ pc = "lease" /\ Other(prep.seen) => Other(local) /\ Other(remote)
    /\ prep.pre # Absent /\ Other(local) => Other(prep.pre)
    /\ pc = "advance" /\ Other(pub.pushed) => Other(remote)


AttemptInv ==
    /\ AttemptShapes /\ Untold /\ Bases /\ Notes /\ Records /\ Ghosts
    /\ Requests /\ Observed /\ StepsReady /\ ToTell /\ WasTold /\ Telling
    /\ Handlers /\ Changes /\ Ended /\ Leases


-----------------------------------------------------------------------------
(* The branch, its bases and its notes *)

\* Only a push and another Worker change what is on origin.
LEMMA OriginSteps ==
    ASSUME [AttemptNext]_vars
    PROVE  \/ UNCHANGED <<remote, history, own>>
           \/ OtherPublishes /\ own' = own /\ history' = history \cup {remote'}
           \/ /\ PublishStep /\ pc = "push" /\ own' = own \cup {local} /\ local' = local
              /\ \/ UNCHANGED <<remote, history>> /\ remote = local
                 \/ remote' = local /\ history' = history \cup {local} /\ Permitted
  <1>1. \/ UNCHANGED <<remote, history, own>> \/ OtherPublishes \/ PublishStep
    BY DEF AttemptNext, Worker, Model, Publishes, PublishStep, vars, AttemptIdle, Elsewhere,
           RunnerStep, Returns, Terminal, ConflictEnds, ConflictRaises, Forgotten, Fails, Quiet, Untouched,
           Pushed, PublicationFails, RecordDone, PushFails, HoldWorkspace,
           PrepareAttempt, PrepareFails, RecordLease, EnterSetup, RunPreparation,
           DispatchModel, VerifyResolution, SealWork, EmergencyNote, StartFinalCheck,
           FinishFinalCheck, Decide, ConflictEntry, ConflictRebased,
           ConflictFirstCheck, ConflictSession, ConflictResolved, ConflictSecondCheck,
           InferDecision, RetryDecision, ReleaseComment, Restart, FinishAttempt,
           ModelCommits, ModelEdits, ModelWritesNote, ModelRebases, ModelEnds,
           ModelRaises, ConflictUnresolved, Crash, BaseMoves, OperatorRepairs,
           OperatorRecovers
  <1>2. OtherPublishes => own' = own /\ history' = history \cup {remote'}
    BY DEF OtherPublishes
  <1>3. PublishStep =>
           \/ UNCHANGED <<remote, history, own>>
           \/ /\ PublishStep /\ pc = "push" /\ own' = own \cup {local} /\ local' = local
              /\ \/ UNCHANGED <<remote, history>> /\ remote = local
                 \/ remote' = local /\ history' = history \cup {local} /\ Permitted
    BY DEF PublishStep, Pushed, Quiet, Untouched, BeginPublish, StampRaises, PushAccepted, PushReconciled, BranchMoved, PushBroken, AdvanceLease, MarkPublishing, AfterPush, FindPullRequest, CreatePullRequest, AutoMerge, Report, PostResult, RecordHandoff, SaveIntent, FindRecord, WriteRecord
  <1> QED BY <1>1, <1>2, <1>3

\* The branch of the clone changes in the first run or while preparing.
LEMMA FirstRunSteps ==
    ASSUME AttemptShapes, [AttemptNext]_vars
    PROVE  /\ FirstRun' => FirstRun /\ UNCHANGED <<own, comments>>
           /\ local' # local => /\ FirstRun \/ PrepareAttempt
                               /\ UNCHANGED <<own, comments, remote, history, base, actor>>
           /\ actor' = "runner" => actor = "runner"
  <1>0. PlaceOK
    BY DEF AttemptShapes
  <1>1. FirstRun' => FirstRun /\ UNCHANGED <<own, comments>>
    <2>1. pc' = "prepare" => \/ pc \in {"prepare", "entry"} /\ actor' = actor
                            \/ Restart \/ OperatorRecovers
      BY DEF AttemptNext, Worker, Model, Publishes, PublishStep, vars, AttemptIdle, Elsewhere,
           RunnerStep, Returns, Terminal, ConflictEnds, ConflictRaises, Forgotten, Fails, Quiet, Untouched,
           Pushed, PublicationFails, RecordDone, PushFails, HoldWorkspace,
           PrepareAttempt, PrepareFails, RecordLease, EnterSetup, RunPreparation,
           DispatchModel, VerifyResolution, SealWork, EmergencyNote, StartFinalCheck,
           FinishFinalCheck, Decide, ConflictEntry, ConflictRebased,
           ConflictFirstCheck, ConflictSession, ConflictResolved, ConflictSecondCheck,
           InferDecision, RetryDecision, ReleaseComment, FinishAttempt, ModelCommits,
           ModelEdits, ModelWritesNote, ModelRebases, ModelEnds, ModelRaises,
           ConflictUnresolved, Crash, BaseMoves, OtherPublishes, OperatorRepairs,
           BeginPublish, StampRaises, PushAccepted, PushReconciled, BranchMoved, PushBroken,
           AdvanceLease, MarkPublishing, AfterPush, FindPullRequest,
           CreatePullRequest, AutoMerge, Report, PostResult, RecordHandoff,
           SaveIntent, FindRecord, WriteRecord
    <2>2. Restart \/ OperatorRecovers => actor' # "runner"
      BY DEF Restart, OperatorRecovers
    <2>3. RecordLease => pc = "lease" /\ actor' = actor
      BY DEF RecordLease
    <2>4. PrepareAttempt => pc = "prepare" /\ actor' = actor
      BY DEF PrepareAttempt
    <2>5. FirstRun' => FirstRun
      BY <2>1, <2>2, <2>3, <2>4, PlaceSteps DEF FirstRun
    <2>6. FirstRun => pc \notin {"push", "result", "release"}
      BY DEF FirstRun, OrdinarySteps, ConflictSteps
    <2>7. FirstRun => own' = own
      BY <2>6, OriginSteps
    <2>8. FirstRun => comments' = comments
      BY <2>6, MemorySteps DEF PostResult, ReleaseComment
    <2> QED BY <2>5, <2>7, <2>8
  <1>2. actor' = "runner" => actor = "runner"
    BY MemorySteps DEF Restart, OperatorRecovers
  <1>3. ModelCommits \/ ModelWritesNote \/ ModelRebases \/ ModelRaises \/ VerifyResolution
        \/ SealWork \/ EmergencyNote \/ FinishFinalCheck \/ ConflictUnresolved \/ ConflictResolved
        => FirstRun /\ UNCHANGED <<own, comments, remote, history, base, actor>>
    BY <1>0 DEF FirstRun, PlaceOK, ModelCommits, ModelWritesNote, ModelRebases, ModelRaises,
           VerifyResolution, SealWork, EmergencyNote, FinishFinalCheck, ConflictUnresolved,
           ConflictResolved, RunnerStep, Elsewhere, OrdinarySteps, ConflictSteps
  <1>4. PrepareAttempt => UNCHANGED <<own, comments, remote, history, base, actor>>
    BY DEF PrepareAttempt, Elsewhere
  <1> QED BY <1>1, <1>2, <1>3, <1>4, LocalType

\* Bases and citations stay in order.
LEMMA BasesKept ==
    ASSUME AttemptShapes, Bases, [AttemptNext]_vars
    PROVE  Bases' /\ base <= base'
  <1>0. /\ remote \in Revisions /\ local \in Revisions /\ prep.pre \in Revisions
        /\ own \subseteq Revisions /\ base \in 0 .. MaxBase
    BY DEF AttemptShapes, SurroundingsOK, MemoryOK, PrepType
  <1>1. \A r \in Revisions : r.cites \in Nat /\ r.base \in Nat
    BY RevisionFacts DEF RealRevision
  <1>2. base' \in Nat /\ base \in Nat /\ base <= base'
    <2>1. BaseMoves => base' = base + 1
      BY DEF BaseMoves
    <2> QED BY <1>0, <2>1, SurroundingSteps
  <1>3. Ordered(remote) /\ Ordered(local) /\ Ordered(prep.pre) /\ \A r \in own : Ordered(r)
    BY DEF Bases
  <1>4. ASSUME NEW r, r.cites \in Nat, r.base \in Nat, Ordered(r) PROVE r.cites <= r.base /\ r.base <= base'
    BY <1>2, <1>4 DEF Ordered
  <1>5. remote'.cites <= remote'.base /\ remote'.base <= base'
    <2>1. CASE OtherPublishes
      <3>1. remote'.cites = remote.cites /\ (remote'.base = remote.base \/ remote'.base = base)
        BY <2>1, OthersBranch
      <3>2. remote.cites \in Nat /\ remote.base \in Nat
        BY <1>0, <1>1
      <3> QED BY <1>2, <1>3, <3>1, <3>2 DEF Ordered
    <2> QED BY <1>0, <1>1, <1>3, <1>4, <2>1, SurroundingSteps
  <1>6. ASSUME NEW r \in RealRevision, NEW s, Ordered(r), Carries(r, s, base)
        PROVE  s.cites <= s.base /\ s.base <= base'
    <2>1. r.cites \in Nat /\ r.base \in Nat /\ s.cites \in Nat /\ s.base \in Nat
      BY <1>6 DEF Carries, RealRevision
    <2> QED BY <1>2, <1>6, <2>1 DEF Ordered, Carries
  <1>7. /\ local'.cites <= local'.base /\ local'.base <= base'
        /\ PrepareAttempt => prep'.pre.cites <= prep'.pre.base /\ prep'.pre.base <= base'
    <2>1. CASE PrepareAttempt
      <3>1. PICK start \in RealRevision :
              /\ start = remote \/ start = local \/ (start = Branch({}, base) /\ local = Absent)
              /\ Carries(start, local', base)
              /\ prep'.pre = start \/ prep'.pre = Absent
        BY <2>1, PrepareLocal
      <3>2. Branch({}, base).cites = 0 /\ Branch({}, base).base = base
        BY DEF Branch
      <3>3. Ordered(start)
        BY <1>2, <1>3, <3>1, <3>2 DEF Ordered
      <3>4. start.cites \in Nat /\ start.base \in Nat
        BY DEF RealRevision
      <3> QED BY <1>2, <1>4, <1>6, <3>1, <3>3, <3>4, RevisionFacts
    <2>2. CASE \/ ModelCommits \/ ModelWritesNote \/ ModelRebases \/ ModelRaises \/ VerifyResolution
               \/ SealWork \/ EmergencyNote \/ FinishFinalCheck \/ ConflictUnresolved \/ ConflictResolved
      <3>1. (local' = prep.pre /\ prep.pre # Absent) \/ Carries(local, local', base)
        BY <2>2, SessionLocal
      <3>2. local \in RealRevision
        <4>1. pc \in OrdinarySteps \cup ConflictSteps
          BY <2>2 DEF ModelCommits, ModelWritesNote, ModelRebases, ModelRaises, VerifyResolution, SealWork,
                 EmergencyNote, FinishFinalCheck, ConflictUnresolved, ConflictResolved,
                 OrdinarySteps, ConflictSteps
        <4> QED BY <1>0, <4>1, RevisionFacts DEF AttemptShapes, PlaceOK
      <3>3. ~PrepareAttempt
        BY <2>2 DEF ModelCommits, ModelWritesNote, ModelRebases, ModelRaises, VerifyResolution, SealWork,
               EmergencyNote, FinishFinalCheck, ConflictUnresolved, ConflictResolved, PrepareAttempt
      <3> QED BY <1>0, <1>1, <1>3, <1>4, <1>6, <3>1, <3>2, <3>3
    <2>3. CASE local' = local /\ ~PrepareAttempt
      BY <1>0, <1>1, <1>3, <1>4, <2>3
    <2> QED BY <2>1, <2>2, <2>3, LocalType
  <1>8. prep'.pre.cites <= prep'.pre.base /\ prep'.pre.base <= base'
    <2>1. NoPrep.pre = Absent
      BY DEF NoPrep
    <2>2. Absent.cites <= Absent.base /\ Absent.base <= base'
      BY <1>2, RevisionFacts
    <2>3. prep.pre.cites <= prep.pre.base /\ prep.pre.base <= base'
      BY <1>0, <1>1, <1>3, <1>4
    <2>4. prep' = prep \/ prep' = NoPrep \/ PrepareAttempt
      BY MemorySteps
    <2> QED BY <1>7, <2>1, <2>2, <2>3, <2>4
  <1>9. \A r \in own' : r.cites <= r.base /\ r.base <= base'
    <2> SUFFICES ASSUME NEW r \in own' PROVE r.cites <= r.base /\ r.base <= base'
      OBVIOUS
    <2>1. r \in own \/ r = local
      BY SurroundingSteps
    <2> QED BY <1>0, <1>1, <1>3, <1>4, <2>1
  <1> QED BY <1>2, <1>5, <1>7, <1>8, <1>9 DEF Bases, Ordered

\* What origin had, what was pushed and what was checked is not forgotten.
LEMMA NothingForgotten ==
    ASSUME [AttemptNext]_vars
    PROVE  /\ history \subseteq history' /\ own \subseteq own' /\ checked \subseteq checked'
           /\ (SomeNote => SomeNote') /\ (TwoRevisions => TwoRevisions')
           /\ pr # "none" => pr' # "none"
           /\ intent # Absent => intent' # Absent
           /\ record.by \in {"this", "newer"} => record'.by \in {"this", "newer"}
           /\ comments # <<>> => comments' = comments
  <1>1. history \subseteq history' /\ own \subseteq own'
    BY OriginSteps
  <1>2. checked \subseteq checked' /\ (pr # "none" => pr' # "none")
    BY SurroundingSteps
  <1>3. (SomeNote => SomeNote') /\ (TwoRevisions => TwoRevisions')
    BY <1>1 DEF SomeNote, TwoRevisions, NoteValid
  <1>4. intent # Absent => intent' = intent
    BY DEF AttemptNext, Worker, Model, Publishes, PublishStep, vars, AttemptIdle, Elsewhere,
           RunnerStep, Returns, Terminal, ConflictEnds, ConflictRaises, Forgotten, Fails, Quiet, Untouched,
           Pushed, PublicationFails, RecordDone, PushFails, HoldWorkspace,
           PrepareAttempt, PrepareFails, RecordLease, EnterSetup, RunPreparation,
           DispatchModel, VerifyResolution, SealWork, EmergencyNote, StartFinalCheck,
           FinishFinalCheck, Decide, ConflictEntry, ConflictRebased,
           ConflictFirstCheck, ConflictSession, ConflictResolved, ConflictSecondCheck,
           InferDecision, RetryDecision, ReleaseComment, Restart, FinishAttempt,
           ModelCommits, ModelEdits, ModelWritesNote, ModelRebases, ModelEnds,
           ModelRaises, ConflictUnresolved, Crash, BaseMoves, OtherPublishes,
           OperatorRepairs, OperatorRecovers, BeginPublish, StampRaises, PushAccepted,
           PushReconciled, BranchMoved, PushBroken, AdvanceLease, MarkPublishing,
           AfterPush, FindPullRequest, CreatePullRequest, AutoMerge, Report,
           PostResult, RecordHandoff, SaveIntent, FindRecord, WriteRecord
  <1>5. record' = record \/ record'.by \in {"this", "newer"}
    <2>1. OtherPublishes => record' = record \/ record'.by = "newer"
      BY DEF OtherPublishes
    <2> QED BY <2>1, SurroundingSteps
  <1>6. comments # <<>> => comments' = comments
    BY MemorySteps DEF PostResult, ReleaseComment, ToPost
  <1> QED BY <1>1, <1>2, <1>3, <1>4, <1>5, <1>6

\* Every note comes from this attempt's pushes.
LEMMA NotesKept ==
    ASSUME AttemptShapes, Untold, Bases, Notes, Observed, StepsReady, [AttemptNext]_vars
    PROVE  Notes'
  <1>0. /\ remote \in Revisions /\ local \in Revisions /\ own \subseteq Revisions /\ base \in Nat
        /\ ckpt \in [phase : Phases, lease : Revisions, known : BOOLEAN]
        /\ \A r \in Revisions : r.cites \in Nat /\ r.base \in Nat
    BY RevisionFacts DEF AttemptShapes, SurroundingsOK, MemoryOK, RealRevision
  <1>1. ckpt'.phase = "publishing" => own' # {}
    <2>1. ckpt'.phase = "publishing" => ckpt.phase = "publishing" \/ MarkPublishing
      <3>1. \/ ckpt' = ckpt \/ MarkPublishing \/ RecordLease \/ AdvanceLease
            \/ \E p \in Phases \ {"publishing"} : ckpt' = [ckpt EXCEPT !.phase = p]
        BY DEF AttemptNext, Worker, Model, Publishes, PublishStep, vars, AttemptIdle, Elsewhere,
           RunnerStep, Returns, Terminal, ConflictEnds, ConflictRaises, Forgotten, Fails, Quiet, Untouched,
           Pushed, PublicationFails, RecordDone, PushFails, HoldWorkspace,
           PrepareAttempt, PrepareFails, EnterSetup, RunPreparation, DispatchModel,
           VerifyResolution, SealWork, EmergencyNote, StartFinalCheck,
           FinishFinalCheck, Decide, ConflictEntry, ConflictRebased,
           ConflictFirstCheck, ConflictSession, ConflictResolved, ConflictSecondCheck,
           InferDecision, RetryDecision, ReleaseComment, Restart, FinishAttempt,
           ModelCommits, ModelEdits, ModelWritesNote, ModelRebases, ModelEnds,
           ModelRaises, ConflictUnresolved, Crash, BaseMoves, OtherPublishes,
           OperatorRepairs, OperatorRecovers, BeginPublish, StampRaises, PushAccepted,
           PushReconciled, BranchMoved, PushBroken, AfterPush, FindPullRequest,
           CreatePullRequest, AutoMerge, Report, PostResult, RecordHandoff,
           SaveIntent, FindRecord, WriteRecord, Recovered, Phases
      <3>2. RecordLease \/ AdvanceLease => ckpt'.phase = ckpt.phase
        BY <1>0 DEF RecordLease, AdvanceLease
      <3> QED BY <1>0, <3>1, <3>2
    <2>2. MarkPublishing => own # {}
      BY DEF MarkPublishing, Observed, StepsReady, Publishing, PublishSteps
    <2> QED BY <2>1, <2>2, NothingForgotten DEF Notes
  <1>2. \A r, s \in Revisions : Earlier(r, s) => r.note = s.note /\ r.cites = s.cites /\ r.base <= s.base
    BY DEF Earlier
  <1>3. Earlier(local, local)
    BY <1>0 DEF Earlier
  <1>4. remote'.note # "none" => \E r \in own' : Earlier(r, remote')
    <2>1. CASE UNCHANGED <<remote, own>>
      BY <2>1 DEF Notes
    <2>2. CASE OtherPublishes /\ own' = own
      <3>1. remote # Absent => remote'.note = remote.note /\ remote'.cites = remote.cites /\ remote'.base = remote.base
        BY <2>2, OthersBranch
      <3>2. remote = Absent => remote'.note = "none"
        BY <2>2, OthersBranch, RevisionFacts
      <3> QED BY <2>2, <3>1, <3>2 DEF Notes, Earlier
    <2>3. CASE own' = own \cup {local} /\ remote' = local
      BY <1>3, <2>3
    <2> QED BY <2>1, <2>2, <2>3, OriginSteps
  <1>5. own' # {} /\ local'.note # "none" => \E r \in own' : Earlier(r, local')
    <2>1. CASE local' = local
      <3>1. own' = own \/ own' = own \cup {local}
        BY SurroundingSteps
      <3> QED BY <1>3, <2>1, <3>1 DEF Notes
    <2>2. CASE local' # local /\ own # {}
      <3>1. PrepareAttempt /\ own' = own
        BY <2>2, FirstRunSteps DEF Untold
      <3>2. PICK start \in RealRevision :
              /\ start = remote \/ start = local \/ (start = Branch({}, base) /\ local = Absent)
              /\ Carries(start, local', base)
              /\ local'.note = start.note /\ local'.cites = start.cites
        BY <3>1, PrepareLocal
      <3>3. Branch({}, base).note = "none"
        BY DEF Branch
      <3>4. start.base \in Nat /\ local'.base \in Nat /\ (start = remote \/ start = local => start.base <= local'.base)
        <4>1. local' \in RealRevision /\ (local'.base = start.base \/ local'.base = base)
          BY <3>2 DEF Carries
        <4>2. start.base \in Nat /\ local'.base \in Nat
          BY <4>1 DEF RealRevision
        <4>3. start = remote \/ start = local => start.base <= base
          BY DEF Bases, Ordered
        <4> QED BY <4>1, <4>2, <4>3
      <3>5. ASSUME local'.note # "none"
            PROVE  \E r \in own : Earlier(r, local')
        <4>1. PICK r \in own : Earlier(r, start)
          BY <2>2, <3>2, <3>3, <3>5 DEF Notes
        <4>2. r.base \in Nat /\ r.base <= start.base /\ r.note = start.note /\ r.cites = start.cites
          BY <1>0, <4>1 DEF Earlier
        <4>3. start.base <= local'.base
          BY <3>2, <3>3, <3>4, <3>5
        <4>4. Earlier(r, local')
          BY <3>2, <3>4, <4>2, <4>3 DEF Earlier
        <4> QED BY <4>4
      <3> QED BY <3>1, <3>5
    <2>3. CASE local' # local /\ own = {}
      BY <2>3, FirstRunSteps
    <2> QED BY <2>1, <2>2, <2>3
  <1> QED BY <1>1, <1>4, <1>5 DEF Notes, Earlier

\* Of the first run, and of where it started
LEMMA GhostsKept ==
    ASSUME AttemptShapes, Untold, Ghosts, [AttemptNext]_vars
    PROVE  Ghosts' /\ Untold'
  <1>0. /\ kind \in {"ordinary", "conflict"} /\ PlaceOK /\ run \in RunType
    BY DEF AttemptShapes, SurroundingsOK, MemoryOK
  <1>1. remote' \in history'
    BY OriginSteps DEF Ghosts
  <1>2. kind' = "conflict" => pr' # "none"
    BY SurroundingSteps DEF Ghosts
  <1>3. actor' = "runner" => own' \subseteq {local'}
    <2>1. PrepareAttempt /\ actor = "runner" => FirstRun
      BY DEF PrepareAttempt, FirstRun
    <2> QED BY <2>1, FirstRunSteps, SurroundingSteps DEF Ghosts, Untold
  <1>4. FirstRun' /\ kind' = "conflict" /\ pc' # "entry" => run'.head \in history'
    <2>1. pc = "entry" /\ pc' # "entry" => ConflictEntry \/ Crash
      BY DEF AttemptNext, Worker, Model, Publishes, PublishStep, vars, AttemptIdle, Elsewhere,
           RunnerStep, Returns, Terminal, ConflictEnds, ConflictRaises, Forgotten, Fails, Quiet, Untouched,
           Pushed, PublicationFails, RecordDone, PushFails, HoldWorkspace,
           PrepareAttempt, PrepareFails, RecordLease, EnterSetup, RunPreparation,
           DispatchModel, VerifyResolution, SealWork, EmergencyNote, StartFinalCheck,
           FinishFinalCheck, Decide, ConflictRebased, ConflictFirstCheck,
           ConflictSession, ConflictResolved, ConflictSecondCheck, InferDecision,
           RetryDecision, ReleaseComment, Restart, FinishAttempt, ModelCommits,
           ModelEdits, ModelWritesNote, ModelRebases, ModelEnds, ModelRaises,
           ConflictUnresolved, BaseMoves, OtherPublishes, OperatorRepairs,
           OperatorRecovers, BeginPublish, StampRaises, PushAccepted, PushReconciled, BranchMoved,
           PushBroken, AdvanceLease, MarkPublishing, AfterPush, FindPullRequest,
           CreatePullRequest, AutoMerge, Report, PostResult, RecordHandoff,
           SaveIntent, FindRecord, WriteRecord
    <2>2. Crash => ~FirstRun'
      BY DEF Crash, FirstRun, OrdinarySteps, ConflictSteps
    <2>3. ConflictEntry /\ FirstRun' => run'.head = remote
      BY DEF ConflictEntry, ConflictEnds, ConflictRaises, Returns, FirstRun, OrdinarySteps, ConflictSteps, NoRun
    <2>4. FirstRun' => \/ run' = run
                       \/ EnterSetup \/ RunPreparation \/ ModelEnds \/ EmergencyNote \/ FinishFinalCheck
                       \/ ConflictEntry \/ ConflictRebased
      BY ZenonT(40) DEF AttemptNext, Worker, Model, Publishes, PublishStep, vars, AttemptIdle, Elsewhere,
           RunnerStep, Returns, Terminal, ConflictEnds, ConflictRaises, Forgotten, Fails, Quiet, Untouched,
           Pushed, PublicationFails, RecordDone, PushFails, HoldWorkspace,
           PrepareAttempt, PrepareFails, RecordLease, DispatchModel, VerifyResolution,
           SealWork, StartFinalCheck, Decide, ConflictFirstCheck, ConflictSession,
           ConflictResolved, ConflictSecondCheck, InferDecision, RetryDecision,
           ReleaseComment, Restart, FinishAttempt, ModelCommits, ModelEdits,
           ModelWritesNote, ModelRebases, ModelRaises, ConflictUnresolved, Crash,
           BaseMoves, OtherPublishes, OperatorRepairs, OperatorRecovers, BeginPublish, StampRaises,
           PushAccepted, PushReconciled, BranchMoved, PushBroken, AdvanceLease,
           MarkPublishing, AfterPush, FindPullRequest, CreatePullRequest, AutoMerge,
           Report, PostResult, RecordHandoff, SaveIntent, FindRecord, WriteRecord,
           FirstRun, OrdinarySteps, ConflictSteps
    <2>5. EnterSetup \/ RunPreparation \/ ModelEnds \/ EmergencyNote \/ FinishFinalCheck => kind = "ordinary"
      BY <1>0 DEF PlaceOK, OrdinarySteps, EnterSetup, RunPreparation, ModelEnds, EmergencyNote, FinishFinalCheck
    <2>6. ConflictRebased /\ FirstRun' => run'.head = run.head
      BY <1>0 DEF ConflictRebased, ConflictEnds, ConflictRaises, Returns, FirstRun, OrdinarySteps, ConflictSteps, RunType
    <2>7. kind' = kind /\ (FirstRun' => FirstRun) /\ history \subseteq history' /\ remote \in history
      BY SurroundingSteps, FirstRunSteps, NothingForgotten DEF Ghosts
    <2>8. ConflictEntry => pc = "entry"
      BY DEF ConflictEntry
    <2> QED BY <2>1, <2>2, <2>3, <2>4, <2>5, <2>6, <2>7, <2>8 DEF Ghosts
  <1>5. pc' = "decide" /\ run'.check = "green" /\ ~run'.residue => local' \in checked'
    <2>1. pc' = "decide" =>
             FinishFinalCheck \/ StartFinalCheck \/ (pc = "decide" /\ UNCHANGED <<run, local>>)
      <3>1. pc' = "decide" => FinishFinalCheck \/ StartFinalCheck \/ pc = "decide"
        BY DEF AttemptNext, Worker, Model, Publishes, PublishStep, vars, AttemptIdle, Elsewhere,
           RunnerStep, Returns, Terminal, ConflictEnds, ConflictRaises, Forgotten, Fails, Quiet, Untouched,
           Pushed, PublicationFails, RecordDone, PushFails, HoldWorkspace,
           PrepareAttempt, PrepareFails, RecordLease, EnterSetup, RunPreparation,
           DispatchModel, VerifyResolution, SealWork, EmergencyNote, Decide,
           ConflictEntry, ConflictRebased, ConflictFirstCheck, ConflictSession,
           ConflictResolved, ConflictSecondCheck, InferDecision, RetryDecision,
           ReleaseComment, Restart, FinishAttempt, ModelCommits, ModelEdits,
           ModelWritesNote, ModelRebases, ModelEnds, ModelRaises, ConflictUnresolved,
           Crash, BaseMoves, OtherPublishes, OperatorRepairs, OperatorRecovers,
           BeginPublish, StampRaises, PushAccepted, PushReconciled, BranchMoved, PushBroken,
           AdvanceLease, MarkPublishing, AfterPush, FindPullRequest,
           CreatePullRequest, AutoMerge, Report, PostResult, RecordHandoff,
           SaveIntent, FindRecord, WriteRecord
      <3>2. pc = "decide" /\ pc' = "decide" => BaseMoves \/ OtherPublishes \/ UNCHANGED vars
        BY DEF AttemptNext, Worker, Model, Publishes, PublishStep, vars, AttemptIdle, Elsewhere,
           RunnerStep, Returns, Terminal, ConflictEnds, ConflictRaises, Forgotten, Fails, Quiet, Untouched,
           Pushed, PublicationFails, RecordDone, PushFails, HoldWorkspace,
           PrepareAttempt, PrepareFails, RecordLease, EnterSetup, RunPreparation,
           DispatchModel, VerifyResolution, SealWork, EmergencyNote, StartFinalCheck,
           FinishFinalCheck, Decide, ConflictEntry, ConflictRebased,
           ConflictFirstCheck, ConflictSession, ConflictResolved, ConflictSecondCheck,
           InferDecision, RetryDecision, ReleaseComment, Restart, FinishAttempt,
           ModelCommits, ModelEdits, ModelWritesNote, ModelRebases, ModelEnds,
           ModelRaises, ConflictUnresolved, Crash, OperatorRepairs, OperatorRecovers,
           BeginPublish, StampRaises, PushAccepted, PushReconciled, BranchMoved, PushBroken,
           AdvanceLease, MarkPublishing, AfterPush, FindPullRequest,
           CreatePullRequest, AutoMerge, Report, PostResult, RecordHandoff,
           SaveIntent, FindRecord, WriteRecord
      <3>3. BaseMoves \/ OtherPublishes \/ UNCHANGED vars => UNCHANGED <<run, local>>
        BY DEF BaseMoves, OtherPublishes, AttemptIdle, vars
      <3> QED BY <3>1, <3>2, <3>3
    <2>3. StartFinalCheck => run'.check = "none"
      BY <1>0 DEF StartFinalCheck, Ghosts, FirstRun, PlaceOK, OrdinarySteps
    <2>2. FinishFinalCheck /\ run'.check = "green" /\ ~run'.residue => local' \in checked'
      <3> SUFFICES ASSUME FinishFinalCheck, run'.check = "green", ~run'.residue
                   PROVE  local' \in checked'
        OBVIOUS
      <3>1. PICK green \in BOOLEAN, dirties \in BOOLEAN, noticed \in BOOLEAN :
              /\ run' = [run EXCEPT !.check = IF green THEN "green" ELSE "red", !.residue = noticed]
              /\ checked' = IF green THEN checked \cup {local} ELSE checked
              /\ noticed \/ local' = local
        BY DEF FinishFinalCheck
      <3>2. run'.check = (IF green THEN "green" ELSE "red") /\ run'.residue = noticed
        BY <1>0, <3>1 DEF RunType
      <3> QED BY <3>1, <3>2
    <2> QED BY <2>1, <2>2, <2>3, NothingForgotten DEF Ghosts
  <1>6. Untold'
    BY FirstRunSteps DEF Untold
  <1>7. FirstRun' /\ pc' # "decide" => run'.check = "none"
    <2>1. pc = "decide" /\ pc' # "decide" => Decide \/ Crash
      BY DEF AttemptNext, Worker, Model, Publishes, PublishStep, vars, AttemptIdle, Elsewhere,
           RunnerStep, Returns, Terminal, ConflictEnds, ConflictRaises, Forgotten, Fails, Quiet, Untouched,
           Pushed, PublicationFails, RecordDone, PushFails, HoldWorkspace,
           PrepareAttempt, PrepareFails, RecordLease, EnterSetup, RunPreparation,
           DispatchModel, VerifyResolution, SealWork, EmergencyNote, StartFinalCheck,
           FinishFinalCheck, ConflictEntry, ConflictRebased, ConflictFirstCheck,
           ConflictSession, ConflictResolved, ConflictSecondCheck, InferDecision,
           RetryDecision, ReleaseComment, Restart, FinishAttempt, ModelCommits,
           ModelEdits, ModelWritesNote, ModelRebases, ModelEnds, ModelRaises,
           ConflictUnresolved, BaseMoves, OtherPublishes, OperatorRepairs,
           OperatorRecovers, BeginPublish, StampRaises, PushAccepted, PushReconciled, BranchMoved,
           PushBroken, AdvanceLease, MarkPublishing, AfterPush, FindPullRequest,
           CreatePullRequest, AutoMerge, Report, PostResult, RecordHandoff,
           SaveIntent, FindRecord, WriteRecord
    <2>2. Decide \/ Crash => ~FirstRun'
      BY DEF Decide, Crash, Returns, FirstRun, OrdinarySteps, ConflictSteps
    <2>3. FinishFinalCheck => pc' = "decide"
      BY DEF FinishFinalCheck
    <2>4. RunPreparation \/ ModelEnds \/ EmergencyNote \/ ConflictRebased => run'.check = run.check \/ run' = NoRun
      <3>1. RunPreparation => run' = NoRun \/ \E b : run' = [run EXCEPT !.baseline = b]
        BY DEF RunPreparation, Terminal, Returns
      <3>2. ModelEnds \/ EmergencyNote => run' = NoRun \/ \E t : run' = [run EXCEPT !.status = t]
        BY DEF ModelEnds, EmergencyNote, Terminal, Returns
      <3>3. ConflictRebased => run' = NoRun \/ run' = run \/ run' = [run EXCEPT !.deferred = TRUE]
        BY DEF ConflictRebased, ConflictEnds, ConflictRaises, Returns
      <3> QED BY <1>0, <3>1, <3>2, <3>3 DEF RunType
    <2>5. EnterSetup \/ ConflictEntry => run'.check = "none"
      <3>1. EnterSetup => run' = NoRun \/ \E c, d : run' = [NoRun EXCEPT !.continuation = c, !.deferred = d]
        BY DEF EnterSetup, Terminal, Returns
      <3>2. ConflictEntry => run' = NoRun \/ run' = [NoRun EXCEPT !.head = remote]
        BY DEF ConflictEntry, ConflictEnds, ConflictRaises, Returns
      <3>3. NoRun \in RunType /\ NoRun.check = "none"
        BY RevisionFacts DEF NoRun, RunType
      <3>4. ASSUME NEW c, NEW d, run' = [NoRun EXCEPT !.continuation = c, !.deferred = d]
            PROVE  run'.check = "none"
        BY <3>3, <3>4 DEF RunType
      <3>5. run' = [NoRun EXCEPT !.head = remote] => run'.check = "none"
        BY <3>3 DEF RunType
      <3> QED BY <3>1, <3>2, <3>3, <3>4, <3>5
    <2>6. NoRun.check = "none"
      BY DEF NoRun
    <2> QED BY <2>1, <2>2, <2>3, <2>4, <2>5, <2>6, MemorySteps, FirstRunSteps DEF Ghosts
  <1> QED BY <1>1, <1>2, <1>3, <1>4, <1>5, <1>6, <1>7 DEF Ghosts

-----------------------------------------------------------------------------
(* The publication *)

\* A publication leaves alone what it publishes, unless it cannot begin.
LEMMA WhilePublishing ==
    ASSUME [AttemptNext]_vars, pc \in PublishSteps, pc' \in PublishSteps \cup {"finish"}
    PROVE  /\ UNCHANGED <<local, kind, mode, actor, wrote>>
           /\ req' = req \/ (StampRaises /\ req' = RaisedRequest("prepared") /\ pc' = "publish")
           /\ pc' = "publish" => pc = "publish" /\ UNCHANGED ckpt
           /\ PublishStep \/ UNCHANGED <<pc, pub, ckpt, own, intent, pr, comments>>
  <1>0. Publishes \/ BaseMoves \/ OtherPublishes \/ UNCHANGED vars
    BY DEF AttemptNext, Worker, Model, vars, AttemptIdle, Elsewhere,
           RunnerStep, Returns, Terminal, ConflictEnds, ConflictRaises, Forgotten, Fails, Quiet, Untouched,
           Pushed, PublicationFails, RecordDone, PushFails, HoldWorkspace,
           PrepareAttempt, PrepareFails, RecordLease, EnterSetup, RunPreparation,
           DispatchModel, VerifyResolution, SealWork, EmergencyNote, StartFinalCheck,
           FinishFinalCheck, Decide, ConflictEntry, ConflictRebased,
           ConflictFirstCheck, ConflictSession, ConflictResolved, ConflictSecondCheck,
           InferDecision, RetryDecision, ReleaseComment, Restart, FinishAttempt,
           ModelCommits, ModelEdits, ModelWritesNote, ModelRebases, ModelEnds,
           ModelRaises, ConflictUnresolved, Crash, OperatorRepairs, OperatorRecovers,
           PublishSteps
  <1>1. CASE Publishes
    <2>1. UNCHANGED actor
      BY <1>1, MemorySteps DEF Restart, OperatorRecovers, Publishes, PublishStep, BeginPublish, StampRaises, PushAccepted, PushReconciled, BranchMoved, PushBroken, AdvanceLease, MarkPublishing, AfterPush, FindPullRequest, CreatePullRequest, AutoMerge, Report, PostResult, RecordHandoff, SaveIntent, FindRecord, WriteRecord
    <2>2. UNCHANGED wrote
      BY <1>1 DEF Publishes, AttemptIdle
    <2>3. CASE StampRaises
      <3>1. /\ UNCHANGED <<local, kind, mode>> /\ pc = "publish"
            /\ \/ req' = RaisedRequest("prepared") /\ pc' = "publish" /\ UNCHANGED ckpt
               \/ req' = req /\ pc' = "finish"
        BY <2>3 DEF StampRaises, Untouched
      <3> QED BY <1>1, <2>1, <2>2, <2>3, <3>1 DEF Publishes
    <2>4. CASE ~StampRaises
      <3>1. UNCHANGED <<local, req, kind, mode>>
        BY <1>1, <2>4 DEF Publishes, PublishStep, Quiet, Untouched,
             BeginPublish, PushAccepted, PushReconciled, BranchMoved, PushBroken, AdvanceLease, MarkPublishing, AfterPush, FindPullRequest, CreatePullRequest, AutoMerge, Report, PostResult, RecordHandoff, SaveIntent, FindRecord, WriteRecord
      <3>2. pc' # "publish"
        BY <1>1, <2>4 DEF Publishes, PublishStep, Pushed, PublicationFails, RecordDone, PushFails,
             BeginPublish, PushAccepted, PushReconciled, BranchMoved, PushBroken, AdvanceLease, MarkPublishing, AfterPush, FindPullRequest, CreatePullRequest, AutoMerge, Report, PostResult, RecordHandoff, SaveIntent, FindRecord, WriteRecord
      <3> QED BY <1>1, <2>1, <2>2, <3>1, <3>2 DEF Publishes
    <2> QED BY <2>3, <2>4
  <1>2. CASE BaseMoves \/ OtherPublishes \/ UNCHANGED vars
    BY <1>2 DEF BaseMoves, OtherPublishes, AttemptIdle, vars
  <1> QED BY <1>0, <1>1, <1>2

\* Requests are published as decided.
LEMMA RequestsKept ==
    ASSUME AttemptShapes, Ghosts, Requests, [AttemptNext]_vars
    PROVE  Requests'
  <1> SUFFICES ASSUME pc' \in PublishSteps
               PROVE  /\ req'.outcome = "handoff" =>
                            NoteValid(local)' /\ req'.partial /\ req'.result = "ordinary"
                      /\ req'.outcome = "complete" => req'.result = "success"
                      /\ req'.push <=> req'.result = "success"
                      /\ req'.result = "success" =>
                            /\ kind' = "conflict" /\ req'.head \in history' /\ local' \in checked'
                            /\ pc' = "publish" => ckpt'.phase = "pushing"
                      /\ req'.eligible => (actor' = "runner" => local' \in checked') /\ req'.result = "ordinary"
                      /\ kind' = "conflict" /\ actor' # "retry" /\ NeedsPush(req') => local' \in checked'
    BY DEF Requests, NeedsPush
  <1>0. PlaceOK /\ kind \in {"ordinary", "conflict"}
    BY DEF AttemptShapes, SurroundingsOK
  <1>1. CASE req' = req /\ pc \in PublishSteps
    <2>1. UNCHANGED <<local, kind, actor>> /\ (pc' = "publish" => pc = "publish" /\ UNCHANGED ckpt)
      BY <1>1, WhilePublishing
    <2>2. history \subseteq history' /\ checked \subseteq checked'
      BY NothingForgotten
    <2> QED BY <1>1, <2>1, <2>2 DEF Requests, NoteValid
  <1>2. CASE Plain(req')
    BY <1>2 DEF Plain, NeedsPush, RequestType
  <1>3. CASE Decide /\ Ordinary(req') /\ (req'.eligible => run.check = "green" /\ ~run.residue)
    <2>1. UNCHANGED <<local, kind, actor, checked>> /\ kind = "ordinary" /\ pc = "decide"
      BY <1>0, <1>3 DEF Decide, RunnerStep, Elsewhere, PlaceOK, OrdinarySteps
    <2> QED BY <1>3, <2>1 DEF Ordinary, Ghosts, NoteValid
  <1>4. CASE InferDecision /\ kind = "ordinary" /\ Ordinary(req')
    <2>1. UNCHANGED <<local, kind, actor>> /\ actor = "startup"
      BY <1>4 DEF InferDecision, RunnerStep, Elsewhere
    <2> QED BY <1>4, <2>1 DEF Ordinary, NoteValid
  <1>5. CASE RetryDecision /\ Ordinary(req')
    <2>1. UNCHANGED <<local, kind, actor>> /\ actor = "retry"
      BY <1>5 DEF RetryDecision, RunnerStep, Elsewhere
    <2> QED BY <1>5, <2>1 DEF Ordinary, NoteValid
  <1>6. CASE /\ Green(req') /\ (ConflictFirstCheck \/ ConflictSecondCheck)
             /\ checked' = checked \cup {local} /\ ckpt'.phase = "pushing"
    <2>1. UNCHANGED <<local, kind, actor, history>> /\ kind = "conflict" /\ FirstRun /\ pc # "entry"
      BY <1>0, <1>6 DEF ConflictFirstCheck, ConflictSecondCheck, RunnerStep, Elsewhere, PlaceOK,
             ConflictSteps, FirstRun
    <2> QED BY <1>6, <2>1 DEF Green, Ghosts, RequestType
  <1> QED BY <1>1, <1>2, <1>3, <1>4, <1>5, <1>6, Returned

\* The end of a record, and the end of a publication that failed
RecordEnds(ok) ==
    /\ pub'.outcome = pub.outcome /\ pub'.result = pub.result /\ pub'.pushed = pub.pushed
    /\ pub'.verify = FALSE /\ pc' \in {"result", "finish"}
    /\ pub'.posted => pub.posted \/ (ok /\ req.shared)

FailureEnds ==
    /\ pub'.outcome \notin {"handoff", "complete"} /\ pub'.pushed = pub.pushed /\ pc' = "result"
    /\ pub'.result = "success" => pub.result = "success" /\ req.result = "ordinary"
    /\ pub'.posted = pub.posted

\* An attempt ends with its result told, or as a failure.
LEMMA EndFacts ==
    ASSUME AttemptShapes
    PROVE  /\ \A ok \in BOOLEAN : RecordDone(ok) => RecordEnds(ok)
           /\ \A moved \in BOOLEAN : PublicationFails(moved) => FailureEnds
           /\ PushFails => IF pub.verify THEN RecordEnds(FALSE) ELSE FailureEnds
  <1>0. pub \in PubType
    BY DEF AttemptShapes, MemoryOK
  <1>1. ASSUME NEW ok \in BOOLEAN, RecordDone(ok)
        PROVE  RecordEnds(ok)
    <2> DEFINE q == mode = "link" /\ ok /\ ~req.notify /\ req.shared
               p == q \/ pub.posted
    <2>1. pub' = [pub EXCEPT !.recorded = ok, !.verify = FALSE, !.last = TRUE, !.posted = p]
      BY <1>1 DEF RecordDone
    <2>2. pc' \in {"result", "finish"}
      BY <1>1 DEF RecordDone
    <2>3. p => pub.posted \/ (ok /\ req.shared)
      OBVIOUS
    <2> HIDE DEF p
    <2> QED BY <1>0, <2>1, <2>2, <2>3 DEF PubType, RecordEnds
  <1>2. ASSUME NEW moved \in BOOLEAN, PublicationFails(moved)
        PROVE  FailureEnds
    <2> DEFINE o == FailedOutcome(moved)
               r == IF IsConflict THEN "push_failed" ELSE pub.result
    <2>1. o \notin {"handoff", "complete"}
      BY DEF FailedOutcome
    <2>2. r = "success" => pub.result = "success" /\ req.result = "ordinary"
      BY DEF IsConflict
    <2>3. pub' = [pub EXCEPT !.outcome = o, !.last = TRUE, !.result = r] /\ pc' = "result"
      BY <1>2 DEF PublicationFails
    <2> HIDE DEF o, r
    <2> QED BY <1>0, <2>1, <2>2, <2>3 DEF PubType, FailureEnds
  <1>3. PushFails => IF pub.verify THEN RecordEnds(FALSE) ELSE FailureEnds
    BY <1>1, <1>2 DEF PushFails
  <1> QED BY <1>1, <1>2, <1>3

\* What is observed and told stays so through the steps of a publication.
LEMMA PublicationKept ==
    ASSUME AttemptShapes, Bases, Notes, Ghosts, Requests, Observed, StepsReady, ToTell,
           [AttemptNext]_vars
    PROVE  Observed' /\ StepsReady' /\ ToTell'
  <1>0. pub \in PubType /\ req \in RequestType /\ ckpt \in [phase : Phases, lease : Revisions, known : BOOLEAN]
        /\ local \in Revisions /\ own \subseteq Revisions
    BY DEF AttemptShapes, MemoryOK, SurroundingsOK
  <1>1. CASE pc' \notin PublishSteps \/ pc' = "publish"
    BY <1>1 DEF Observed, StepsReady, ToTell, Publishing, PublishSteps
  <1> SUFFICES ASSUME pc' \in PublishSteps, pc' # "publish"
               PROVE  Observed' /\ StepsReady' /\ ToTell'
    BY <1>1
  <1>2. pc \in PublishSteps
    BY Returned
  <1>3. UNCHANGED <<local, req, kind, mode, actor>>
    BY <1>2, WhilePublishing
  <1>4. /\ history \subseteq history' /\ own \subseteq own' /\ checked \subseteq checked'
        /\ (SomeNote => SomeNote') /\ (TwoRevisions => TwoRevisions')
        /\ pr # "none" => pr' # "none"
    BY NothingForgotten
  <1>5. NeedsPush(req)' <=> NeedsPush(req)
    BY <1>3 DEF NeedsPush
  <1>6. req.outcome = "handoff" => NeedsPush(req) /\ NoteValid(local)
    BY <1>2 DEF Requests, NeedsPush
  <1>7. local \in own /\ NoteValid(local) => SomeNote
    BY DEF SomeNote
  <1> USE DEF PublishSteps
  <1>8. CASE UNCHANGED <<pc, pub, ckpt, own, intent, pr>>
    BY <1>3, <1>4, <1>5, <1>8 DEF Observed, StepsReady, ToTell, Publishing
  <1>9. CASE BeginPublish
    <2> DEFINE c == IF ckpt.known THEN ckpt.lease ELSE Absent
    <2>1. pub' = [Fresh EXCEPT !.outcome = req.outcome, !.result = req.result, !.claimed = c]
      BY <1>9 DEF BeginPublish
    <2>2. /\ pub'.outcome = req.outcome /\ pub'.result = req.result /\ pub'.pushed = Absent /\ ~pub'.verify
      BY <2>1 DEF Fresh
    <2>3. /\ UNCHANGED <<own, pr, history>> /\ pc = "publish"
          /\ \/ pc' = "push" /\ NeedsPush(req)
             \/ pc' = "pushed" /\ NeedsPush(req) /\ ckpt.phase = "publishing"
             \/ pc' = "report" /\ ~NeedsPush(req)
      BY <1>9 DEF BeginPublish
    <2>4. ckpt.phase = "publishing" /\ req.outcome = "handoff" => SomeNote
      <3> SUFFICES ASSUME ckpt.phase = "publishing", req.outcome = "handoff" PROVE SomeNote
        OBVIOUS
      <3>1. local.note = "written" /\ local.cites = local.base
        BY <1>6 DEF NoteValid
      <3>2. PICK r \in own : Earlier(r, local)
        BY <3>1 DEF Notes
      <3>3. r.base \in Nat /\ r.cites \in Nat /\ local.base \in Nat
        BY <1>0, RevisionFacts DEF RealRevision
      <3>4. r.cites <= r.base
        BY DEF Bases, Ordered
      <3>5. NoteValid(r)
        BY <3>1, <3>2, <3>3, <3>4 DEF Earlier, NoteValid
      <3> QED BY <3>5 DEF SomeNote
    <2>5. ckpt.phase = "publishing" => own # {}
      BY DEF Notes
    <2>6. req.push => NeedsPush(req)
      BY DEF NeedsPush
    <2>7. Observed'
      BY <1>2, <1>3, <1>4, <2>2, <2>3 DEF Observed, Requests, Ghosts
    <2>8. StepsReady'
      BY <1>3, <1>5, <2>2, <2>3, <2>5 DEF StepsReady
    <2>9. ToTell'
      BY <1>2, <1>3, <1>4, <1>6, <2>2, <2>3, <2>4, <2>5, <2>6 DEF ToTell, Requests, Ghosts
    <2> QED BY <2>7, <2>8, <2>9
  <1>10. CASE PushAccepted \/ PushReconciled
    <2>1. /\ pc = "push" /\ pc' = "advance" /\ own' = own \cup {local} /\ UNCHANGED <<pr, intent>>
          /\ pub' = [pub EXCEPT !.pushed = local] /\ local \in history'
      BY <1>10 DEF PushAccepted, PushReconciled, Pushed, Ghosts
    <2>2. /\ pub'.outcome = pub.outcome /\ pub'.result = pub.result /\ pub'.pushed = local
          /\ pub'.verify = pub.verify
      BY <1>0, <2>1 DEF PubType
    <2>3. local # Absent
      BY <1>2, <2>1 DEF AttemptShapes, PlaceOK, StepsReady
    <2>4. local \in own'
      BY <2>1
    <2>5. NoteValid(local) => SomeNote'
      BY <1>3, <2>4 DEF SomeNote, NoteValid
    <2> QED BY <1>3, <1>4, <1>5, <1>6, <2>1, <2>2, <2>3, <2>4, <2>5 DEF Observed, StepsReady, ToTell, Publishing
  <1>11. CASE BranchMoved
    <2>1. pc = "push" /\ UNCHANGED <<pr, own>> /\ FailureEnds
      BY <1>11, EndFacts DEF BranchMoved
    <2> QED BY <1>2, <1>3, <1>4, <2>1 DEF Observed, StepsReady, ToTell, Publishing, FailureEnds, Requests
  <1>12. CASE PushBroken \/ (AdvanceLease /\ PushFails) \/ (MarkPublishing /\ PushFails)
    <2>1. /\ pc \in {"push", "advance", "mark"} /\ UNCHANGED pr
          /\ IF pub.verify THEN RecordEnds(FALSE) ELSE FailureEnds
      BY <1>12, EndFacts DEF PushBroken, AdvanceLease, MarkPublishing
    <2>2. CASE pub.verify
      BY <1>2, <1>3, <1>4, <2>1, <2>2 DEF Observed, StepsReady, ToTell, Publishing, RecordEnds, Requests
    <2>3. CASE ~pub.verify
      BY <1>2, <1>3, <1>4, <2>1, <2>3 DEF Observed, StepsReady, ToTell, Publishing, FailureEnds, Requests
    <2> QED BY <2>2, <2>3
  <1>13. CASE AdvanceLease /\ ~PushFails
    <2>1. pc = "advance" /\ pc' = "mark" /\ UNCHANGED <<pub, pr, intent, own>>
      BY <1>13 DEF AdvanceLease
    <2> QED BY <1>3, <1>4, <1>5, <2>1 DEF Observed, StepsReady, ToTell, Publishing
  <1>14. CASE MarkPublishing /\ ~PushFails
    <2>1. /\ pc = "mark" /\ pc' = IF pub.verify THEN "intent" ELSE "pushed"
          /\ pub' = [pub EXCEPT !.result = NoChangeResult(@)] /\ UNCHANGED <<pr, intent, own>>
      BY <1>14 DEF MarkPublishing
    <2>2. /\ pub'.outcome = pub.outcome /\ pub'.result = NoChangeResult(pub.result)
          /\ pub'.pushed = pub.pushed /\ pub'.verify = pub.verify
      BY <1>0, <2>1 DEF PubType
    <2>3. pub'.result = "success" => pub.result = "success" /\ pub.pushed # req.head
      BY <2>2 DEF NoChangeResult, Unchanged
    <2>4. pub.pushed \in history /\ own # {}
      BY <2>1 DEF Observed, StepsReady, Publishing
    <2>5. pub'.result = "success" => TwoRevisions
      BY <1>2, <2>1, <2>3, <2>4 DEF Observed, Publishing, Requests, TwoRevisions
    <2> QED BY <1>3, <1>4, <1>5, <2>1, <2>2, <2>3, <2>4, <2>5 DEF Observed, StepsReady, ToTell, Publishing
  <1>15. CASE AfterPush \/ AutoMerge \/ Report
    BY <1>3, <1>4, <1>5, <1>15 DEF AfterPush, AutoMerge, Report, Observed, StepsReady, ToTell, Publishing, RequestType
  <1>16. CASE FindPullRequest \/ CreatePullRequest
    <2>1. /\ pc \in {"find_pr", "create_pr"} /\ UNCHANGED <<own, intent>>
          /\ \/ pub' = [pub EXCEPT !.outcome = "complete"] /\ pc' = "merge" /\ pr' = "open"
             \/ pub' = pub /\ pc' = "create_pr"
             \/ pub' = [pub EXCEPT !.outcome = "infra", !.last = TRUE] /\ pc' = "result"
      BY <1>16 DEF FindPullRequest, CreatePullRequest
    <2>2. pub'.result = pub.result /\ pub'.pushed = pub.pushed /\ pub'.verify = pub.verify
      BY <1>0, <2>1 DEF PubType
    <2>3. \/ pub'.outcome = "complete" /\ pc' = "merge" /\ pr' = "open"
          \/ pub' = pub /\ pc' = "create_pr"
          \/ pub'.outcome = "infra" /\ pc' = "result"
      BY <1>0, <2>1 DEF PubType
    <2>4. req.eligible /\ own # {} /\ (actor = "runner" => local \in checked)
      BY <1>2, <2>1 DEF StepsReady, Requests
    <2> QED BY <1>3, <1>4, <1>5, <2>1, <2>2, <2>3, <2>4 DEF Observed, StepsReady, ToTell, Publishing
  <1>17. CASE PostResult
    <2>1. /\ pc = "result" /\ pc' \in {"record", "finish"} /\ UNCHANGED <<own, intent, pr>>
          /\ pc' = "record" => pub.outcome = "handoff"
          /\ \E p \in BOOLEAN : pub' = [pub EXCEPT !.posted = p]
      BY <1>17 DEF PostResult
    <2>2. /\ pub'.result = pub.result /\ pub'.pushed = pub.pushed /\ pub'.verify = pub.verify
          /\ pub'.outcome = pub.outcome
      BY <1>0, <2>1 DEF PubType
    <2> QED BY <1>3, <1>4, <1>5, <2>1, <2>2 DEF Observed, StepsReady, ToTell, Publishing
  <1>18. CASE RecordHandoff
    <2>1. /\ pc = "record" /\ UNCHANGED <<own, intent, pr>>
          /\ \/ RecordEnds(TRUE)
             \/ pub' = [pub EXCEPT !.verify = TRUE] /\ pc' = "push"
             \/ pub' = pub /\ pc' = "intent" /\ pub.pushed # Absent
      BY <1>18, EndFacts DEF RecordHandoff
    <2>2. CASE RecordEnds(TRUE)
      BY <1>3, <1>4, <1>5, <2>1, <2>2 DEF Observed, StepsReady, ToTell, Publishing, RecordEnds
    <2>3. CASE pub' = [pub EXCEPT !.verify = TRUE] /\ pc' = "push"
      <3>1. /\ pub'.result = pub.result /\ pub'.pushed = pub.pushed /\ pub'.outcome = pub.outcome
        BY <1>0, <2>3 DEF PubType
      <3> QED BY <1>3, <1>4, <1>5, <1>6, <2>1, <2>3, <3>1 DEF Observed, StepsReady, ToTell, Publishing
    <2>4. CASE pub' = pub /\ pc' = "intent" /\ pub.pushed # Absent
      BY <1>3, <1>4, <1>5, <2>1, <2>4 DEF Observed, StepsReady, ToTell, Publishing
    <2> QED BY <2>1, <2>2, <2>3, <2>4
  <1>19. CASE SaveIntent \/ FindRecord \/ WriteRecord
    <2>1. /\ pc \in {"intent", "find_record", "write_record"} /\ UNCHANGED <<own, pr>>
          /\ \/ \E ok \in BOOLEAN : RecordEnds(ok)
             \/ pub' = pub /\ pc' \in {"find_record", "write_record"} /\ intent' = pub.pushed
      <3>1. CASE SaveIntent
        BY <3>1, EndFacts DEF SaveIntent
      <3>2. CASE FindRecord
        BY <3>2, EndFacts DEF FindRecord, StepsReady
      <3>3. CASE WriteRecord
        BY <3>3, EndFacts DEF WriteRecord
      <3> QED BY <1>19, <3>1, <3>2, <3>3
    <2>2. ASSUME NEW ok \in BOOLEAN, RecordEnds(ok)
          PROVE  Observed' /\ StepsReady' /\ ToTell'
      BY <1>3, <1>4, <1>5, <2>1, <2>2 DEF Observed, StepsReady, ToTell, Publishing, RecordEnds
    <2>3. CASE pub' = pub /\ pc' \in {"find_record", "write_record"} /\ intent' = pub.pushed
      BY <1>3, <1>4, <1>5, <2>1, <2>3 DEF Observed, StepsReady, ToTell, Publishing
    <2> QED BY <2>1, <2>2, <2>3
  <1>20. PublishStep \/ UNCHANGED <<pc, pub, ckpt, own, intent, pr>>
    BY <1>2, WhilePublishing
  <1>21. ~StampRaises
    BY DEF StampRaises
  <1> QED BY <1>8, <1>9, <1>10, <1>11, <1>12, <1>13, <1>14, <1>15, <1>16, <1>17, <1>18, <1>19, <1>20, <1>21
      DEF PublishStep

-----------------------------------------------------------------------------
(* What is told *)

\* The shared record of this attempt names what it pushed.
LEMMA RecordsKept ==
    ASSUME AttemptShapes, Requests, Observed, StepsReady, Records, [AttemptNext]_vars
    PROVE  Records'
  <1>1. record' = record \/ OtherPublishes \/ (WriteRecord /\ record' = [by |-> "this", rev |-> intent])
    <2>1. record' = record \/ OtherPublishes \/ WriteRecord
      BY DEF AttemptNext, Worker, Model, Publishes, PublishStep, vars, AttemptIdle, Elsewhere,
           RunnerStep, Returns, Terminal, ConflictEnds, ConflictRaises, Forgotten, Fails, Quiet, Untouched,
           Pushed, PublicationFails, RecordDone, PushFails, HoldWorkspace,
           PrepareAttempt, PrepareFails, RecordLease, EnterSetup, RunPreparation,
           DispatchModel, VerifyResolution, SealWork, EmergencyNote, StartFinalCheck,
           FinishFinalCheck, Decide, ConflictEntry, ConflictRebased,
           ConflictFirstCheck, ConflictSession, ConflictResolved, ConflictSecondCheck,
           InferDecision, RetryDecision, ReleaseComment, Restart, FinishAttempt,
           ModelCommits, ModelEdits, ModelWritesNote, ModelRebases, ModelEnds,
           ModelRaises, ConflictUnresolved, Crash, BaseMoves, OperatorRepairs,
           OperatorRecovers, BeginPublish, StampRaises, PushAccepted, PushReconciled, BranchMoved,
           PushBroken, AdvanceLease, MarkPublishing, AfterPush, FindPullRequest,
           CreatePullRequest, AutoMerge, Report, PostResult, RecordHandoff,
           SaveIntent, FindRecord
    <2>2. WriteRecord => record' = record \/ record' = [by |-> "this", rev |-> intent]
      BY DEF WriteRecord
    <2> QED BY <2>1, <2>2
  <1>2. CASE record' = record
    BY <1>2, NothingForgotten DEF Records, NoteValid
  <1>3. CASE OtherPublishes
    <2>1. record' = record \/ record' = [by |-> "newer", rev |-> remote']
      BY <1>3, OthersBranch
    <2> QED BY <1>2, <2>1 DEF Records
  <1>4. CASE WriteRecord /\ record' = [by |-> "this", rev |-> intent]
    <2>1. pc = "write_record"
      BY <1>4 DEF WriteRecord
    <2>2. intent = pub.pushed /\ pub.pushed # Absent /\ pub.outcome = "handoff"
      BY <2>1 DEF StepsReady
    <2>3. intent = local /\ local \in own /\ NoteValid(local)
      BY <2>1, <2>2 DEF Observed, Publishing, PublishSteps, Requests
    <2>4. record'.rev = intent
      BY <1>4
    <2> QED BY <2>2, <2>3, <2>4, NothingForgotten DEF Records, NoteValid
  <1> QED BY <1>1, <1>2, <1>3, <1>4

\* Whoever takes the attempt for told finds it told.
LEMMA TellingKept ==
    ASSUME AttemptShapes, Requests, Observed, StepsReady, Records, Handlers, Telling, [AttemptNext]_vars
    PROVE  Telling'
  <1>0. pub \in PubType /\ comments \in Seq(CommentType) /\ req \in RequestType
    BY DEF AttemptShapes, MemoryOK
  <1>1. Told => Told'
    BY NothingForgotten DEF Told
  <1>2. ASSUME Publishing' \/ pc' = "finish", pub'.posted
        PROVE  Told' \/ (pc' = "finish" /\ Unbegun')
    <2>1. \/ pc \in PublishSteps
          \/ ReleaseComment
          \/ pc = "finish" /\ pc' = "finish" /\ UNCHANGED <<pub, req, kind, actor>>
      <3>1. pc' = "finish" => pc \in PublishSteps \cup {"finish"} \/ ReleaseComment
        BY DEF AttemptNext, Worker, Model, Publishes, PublishStep, vars, AttemptIdle, Elsewhere,
           RunnerStep, Returns, Terminal, ConflictEnds, ConflictRaises, Forgotten, Fails, Quiet, Untouched,
           Pushed, PublicationFails, RecordDone, PushFails, HoldWorkspace,
           PrepareAttempt, PrepareFails, RecordLease, EnterSetup, RunPreparation,
           DispatchModel, VerifyResolution, SealWork, EmergencyNote, StartFinalCheck,
           FinishFinalCheck, Decide, ConflictEntry, ConflictRebased,
           ConflictFirstCheck, ConflictSession, ConflictResolved, ConflictSecondCheck,
           InferDecision, RetryDecision, Restart, FinishAttempt, ModelCommits,
           ModelEdits, ModelWritesNote, ModelRebases, ModelEnds, ModelRaises,
           ConflictUnresolved, Crash, BaseMoves, OtherPublishes, OperatorRepairs,
           OperatorRecovers, BeginPublish, StampRaises, PushAccepted, PushReconciled, BranchMoved,
           PushBroken, AdvanceLease, MarkPublishing, AfterPush, FindPullRequest,
           CreatePullRequest, AutoMerge, Report, PostResult, RecordHandoff,
           SaveIntent, FindRecord, WriteRecord, PublishSteps
      <3>3. pc = "finish" /\ pc' = "finish" => UNCHANGED <<pub, req, kind, actor>>
        BY DEF AttemptNext, Worker, Model, Publishes, PublishStep, vars, AttemptIdle, Elsewhere,
           RunnerStep, Returns, Terminal, ConflictEnds, ConflictRaises, Forgotten, Fails, Quiet, Untouched,
           Pushed, PublicationFails, RecordDone, PushFails, HoldWorkspace,
           PrepareAttempt, PrepareFails, RecordLease, EnterSetup, RunPreparation,
           DispatchModel, VerifyResolution, SealWork, EmergencyNote, StartFinalCheck,
           FinishFinalCheck, Decide, ConflictEntry, ConflictRebased,
           ConflictFirstCheck, ConflictSession, ConflictResolved, ConflictSecondCheck,
           InferDecision, RetryDecision, ReleaseComment, Restart, FinishAttempt,
           ModelCommits, ModelEdits, ModelWritesNote, ModelRebases, ModelEnds,
           ModelRaises, ConflictUnresolved, Crash, BaseMoves, OtherPublishes,
           OperatorRepairs, OperatorRecovers, BeginPublish, StampRaises, PushAccepted,
           PushReconciled, BranchMoved, PushBroken, AdvanceLease, MarkPublishing,
           AfterPush, FindPullRequest, CreatePullRequest, AutoMerge, Report,
           PostResult, RecordHandoff, SaveIntent, FindRecord, WriteRecord
      <3>2. Publishing' => pc \in PublishSteps
        BY Returned DEF Publishing
      <3> QED BY <1>2, <3>1, <3>2, <3>3
    <2>2. CASE pc = "finish" /\ pc' = "finish" /\ UNCHANGED <<pub, req, kind, actor>>
      BY <1>1, <1>2, <2>2 DEF Telling, Unbegun, NeverBegun
    <2>3. CASE ReleaseComment
      <3>1. pub' # Fresh
        BY <1>2 DEF Fresh
      <3>2. comments' = IF ToPost THEN Append(comments, [outcome |-> "released", result |-> "ordinary"])
                        ELSE comments
        BY <2>3, <3>1 DEF ReleaseComment
      <3>4. [outcome |-> "released", result |-> "ordinary"] \in CommentType
        BY DEF CommentType, Outcomes, Results
      <3>3. Append(comments, [outcome |-> "released", result |-> "ordinary"]) # <<>>
        BY <1>0, <3>4, AppendProperties
      <3> QED BY <3>2, <3>3 DEF Told, ToPost
    <2>4. CASE pc \in PublishSteps
      <3>0. pc' \in PublishSteps \cup {"finish"}
        BY <1>2 DEF Publishing
      <3>1. PublishStep \/ UNCHANGED <<pc, pub>>
        BY <2>4, <3>0, WhilePublishing
      <3>2. CASE UNCHANGED <<pc, pub>>
        BY <1>1, <1>2, <2>4, <3>2 DEF Telling, Publishing, PublishSteps
      <3>3. CASE BeginPublish
        BY <1>2, <3>3 DEF BeginPublish, Fresh
      <3>14. CASE StampRaises
        <4>1. CASE pc' = "publish"
          BY <1>2, <4>1 DEF Publishing
        <4>2. CASE pc' # "publish"
          <5>1. /\ pc = "publish" /\ req.result # "ordinary" /\ req.raised # "no" /\ pc' = "finish"
                /\ pub' = [Fresh EXCEPT !.posted = TRUE] /\ UNCHANGED <<req, kind>>
            BY <3>14, <4>2 DEF StampRaises, IsConflict, Untouched
          <5>2. pub'.outcome = "none"
            BY <5>1 DEF Fresh
          <5>3. UNCHANGED actor
            BY <2>4, <3>0, WhilePublishing
          <5> QED BY <5>1, <5>2, <5>3 DEF Handlers, Unbegun, NeverBegun
        <4> QED BY <4>1, <4>2
      <3>4. CASE PostResult
        <4>1. pub' # [pub EXCEPT !.posted = FALSE]
          BY <1>0, <1>2 DEF PubType
        <4>2. comments' = IF ToPost THEN Append(comments, [outcome |-> pub.outcome, result |-> pub.result])
                          ELSE comments
          BY <3>4, <4>1 DEF PostResult
        <4>3. [outcome |-> pub.outcome, result |-> pub.result] \in CommentType
          BY <1>0 DEF PubType, CommentType
        <4>4. Append(comments, [outcome |-> pub.outcome, result |-> pub.result]) # <<>>
          BY <1>0, <4>3, AppendProperties
        <4> QED BY <4>2, <4>4 DEF Told, ToPost
      <3>5. pub.posted /\ pc # "publish" => Told'
        BY <1>1, <2>4 DEF Telling, Publishing
      <3>6. ASSUME NEW ok \in BOOLEAN, RecordEnds(ok), ok => ~req.shared, pc # "publish"
            PROVE  Told'
        BY <1>2, <3>5, <3>6 DEF RecordEnds
      <3>7. FailureEnds /\ pc # "publish" => Told'
        BY <1>2, <3>5 DEF FailureEnds
      <3>8. CASE BranchMoved \/ PushBroken \/ (AdvanceLease /\ PushFails) \/ (MarkPublishing /\ PushFails)
        <4>1. pc # "publish" /\ (FailureEnds \/ RecordEnds(FALSE))
          BY <3>8, EndFacts DEF BranchMoved, PushBroken, AdvanceLease, MarkPublishing
        <4> QED BY <3>6, <3>7, <4>1
      <3>9. CASE PushAccepted \/ PushReconciled \/ (AdvanceLease /\ ~PushFails) \/ (MarkPublishing /\ ~PushFails)
                 \/ AfterPush \/ FindPullRequest \/ CreatePullRequest \/ AutoMerge \/ Report
        <4>1. pc # "publish" /\ pub'.posted = pub.posted
          BY <1>0, <3>9 DEF PushAccepted, PushReconciled, Pushed, AdvanceLease, MarkPublishing, AfterPush,
                 FindPullRequest, CreatePullRequest, AutoMerge, Report, PubType
        <4> QED BY <1>2, <3>5, <4>1
      <3>10. CASE RecordHandoff
        <4>1. /\ pc = "record"
              /\ \/ RecordEnds(TRUE) /\ ~req.shared
                 \/ pub' = [pub EXCEPT !.verify = TRUE]
                 \/ pub' = pub
          BY <3>10, EndFacts DEF RecordHandoff
        <4>2. pub' = pub \/ pub' = [pub EXCEPT !.verify = TRUE] => pub'.posted = pub.posted
          BY <1>0 DEF PubType
        <4> QED BY <1>2, <3>5, <3>6, <4>1, <4>2
      <3>11. CASE SaveIntent
        <4>1. pc = "intent" /\ (RecordEnds(FALSE) \/ pub' = pub)
          BY <3>11, EndFacts DEF SaveIntent
        <4> QED BY <1>2, <3>5, <3>6, <4>1
      <3>12. CASE FindRecord
        <4>1. /\ pc = "find_record"
              /\ \/ RecordEnds(FALSE)
                 \/ pub' = pub
                 \/ record = [by |-> "this", rev |-> intent]
          BY <3>12, EndFacts DEF FindRecord
        <4>2. record = [by |-> "this", rev |-> intent] => Told
          BY DEF Records, Told
        <4> QED BY <1>1, <1>2, <3>5, <3>6, <4>1, <4>2
      <3>13. CASE WriteRecord
        <4>1. /\ pc = "write_record" /\ intent' = intent
              /\ \/ RecordEnds(FALSE)
                 \/ record' = [by |-> "this", rev |-> intent]
          BY <3>13, EndFacts DEF WriteRecord
        <4>2. intent # Absent
          BY <4>1 DEF StepsReady
        <4>3. record' = [by |-> "this", rev |-> intent] => Told'
          BY <4>1, <4>2 DEF Told
        <4> QED BY <1>1, <1>2, <3>5, <3>6, <4>1, <4>3
      <3> QED BY <3>1, <3>2, <3>3, <3>4, <3>8, <3>9, <3>10, <3>11, <3>12, <3>13, <3>14 DEF PublishStep
    <2> QED BY <2>1, <2>2, <2>3, <2>4
  <1>3. ASSUME pc' = "done"
        PROVE  Told' \/ Unbegun'
    <2>1. (pc = "done" /\ UNCHANGED <<pub, req, kind, actor>>) \/ FinishAttempt
      BY <1>3 DEF AttemptNext, Worker, Model, Publishes, PublishStep, vars, AttemptIdle, Elsewhere,
           RunnerStep, Returns, Terminal, ConflictEnds, ConflictRaises, Forgotten, Fails, Quiet, Untouched,
           Pushed, PublicationFails, RecordDone, PushFails, HoldWorkspace,
           PrepareAttempt, PrepareFails, RecordLease, EnterSetup, RunPreparation,
           DispatchModel, VerifyResolution, SealWork, EmergencyNote, StartFinalCheck,
           FinishFinalCheck, Decide, ConflictEntry, ConflictRebased,
           ConflictFirstCheck, ConflictSession, ConflictResolved, ConflictSecondCheck,
           InferDecision, RetryDecision, ReleaseComment, Restart, ModelCommits,
           ModelEdits, ModelWritesNote, ModelRebases, ModelEnds, ModelRaises,
           ConflictUnresolved, Crash, BaseMoves, OtherPublishes, OperatorRepairs,
           OperatorRecovers, BeginPublish, StampRaises, PushAccepted, PushReconciled, BranchMoved,
           PushBroken, AdvanceLease, MarkPublishing, AfterPush, FindPullRequest,
           CreatePullRequest, AutoMerge, Report, PostResult, RecordHandoff,
           SaveIntent, FindRecord, WriteRecord
    <2>2. CASE FinishAttempt
      <3>1. pc = "finish" /\ Confirmed
        BY <1>3, <2>2 DEF FinishAttempt
      <3>2. pub.posted \/ record.by = "this"
        BY <3>1 DEF Confirmed, RecordConfirms
      <3>3. record.by = "this" => Told
        BY DEF Records, Told
      <3>4. UNCHANGED <<pub, req, kind, actor>>
        BY <2>2 DEF FinishAttempt, Elsewhere
      <3> QED BY <1>1, <3>1, <3>2, <3>3, <3>4 DEF Telling, Unbegun, NeverBegun
    <2> QED BY <1>1, <2>1, <2>2 DEF Telling, Unbegun, NeverBegun
  <1>4. ~(Publishing' /\ pc' = "finish")
    BY DEF Publishing, PublishSteps
  <1> QED BY <1>2, <1>3, <1>4 DEF Telling

\* What one comment says
LEMMA OneComment ==
    ASSUME NEW c
    PROVE  Len(<<c>>) = 1 /\ <<c>>[1] = c /\ \A i \in 1 .. Len(<<c>>) : <<c>>[i] = c
  OBVIOUS

\* What was told stays so.
LEMMA WasToldKept ==
    ASSUME AttemptShapes, Untold, Ghosts, Requests, Observed, ToTell, WasTold, [AttemptNext]_vars
    PROVE  WasTold'
  <1> DEFINE Result(x) == \E i \in 1 .. Len(comments) : comments[i].result = x
  <1>1. /\ history \subseteq history' /\ own \subseteq own' /\ checked \subseteq checked'
        /\ (SomeNote => SomeNote') /\ (TwoRevisions => TwoRevisions')
        /\ pr # "none" => pr' # "none"
        /\ actor' = "runner" => actor = "runner"
        /\ own' \subseteq own \cup {local}
    BY NothingForgotten, FirstRunSteps, SurroundingSteps
  <1>2. ASSUME own # {}, actor' = "runner", actor = "runner" => own \subseteq checked
        PROVE  own' \subseteq checked'
    BY <1>1, <1>2 DEF Ghosts
  <1>3. CASE comments' = comments
    BY <1>1, <1>2, <1>3 DEF WasTold, Posted
  <1>4. ASSUME NEW c, comments' = <<c>>,
               c.outcome = "handoff" => SomeNote,
               c.outcome = "complete" => /\ own # {} /\ pr # "none"
                                         /\ actor = "runner" => own \subseteq checked,
               c.result = "success" => TwoRevisions
        PROVE  WasTold'
    <2>1. \A i \in 1 .. Len(comments') : comments'[i] = c
      BY <1>4, OneComment
    <2>2. \A o : Posted(o)' => c.outcome = o
      BY <2>1 DEF Posted
    <2>3. (\E i \in 1 .. Len(comments') : comments'[i].result = "success") => c.result = "success"
      BY <2>1
    <2>4. Posted("handoff")' => SomeNote'
      BY <1>1, <1>4, <2>2
    <2>5. Posted("complete")' => /\ own' # {} /\ pr' # "none"
                                 /\ actor' = "runner" => own' \subseteq checked'
      BY <1>1, <1>2, <1>4, <2>2
    <2>6. (\E i \in 1 .. Len(comments') : comments'[i].result = "success") => TwoRevisions'
      BY <1>1, <1>4, <2>3
    <2> QED BY <2>4, <2>5, <2>6 DEF WasTold
  <1>5. CASE comments' = <<[outcome |-> "released", result |-> "ordinary"]>>
    <2> DEFINE c == [outcome |-> "released", result |-> "ordinary"]
    <2>1. c.outcome = "released" /\ c.result = "ordinary" /\ comments' = <<c>>
      BY <1>5
    <2> HIDE DEF c
    <2> QED BY <1>4, <2>1
  <1>6. CASE PostResult /\ comments' = <<[outcome |-> pub.outcome, result |-> pub.result]>>
    <2> DEFINE c == [outcome |-> pub.outcome, result |-> pub.result]
    <2>1. c.outcome = pub.outcome /\ c.result = pub.result /\ comments' = <<c>>
      BY <1>6
    <2>2. pc = "result" /\ Publishing
      BY <1>6 DEF PostResult, Publishing, PublishSteps
    <2>3. actor = "runner" /\ local \in checked => own \subseteq checked
      BY DEF Ghosts
    <2> HIDE DEF c
    <2>4. pub.outcome = "handoff" => SomeNote
      BY <2>2 DEF ToTell
    <2>5. pub.outcome = "complete" => /\ own # {} /\ pr # "none"
                                      /\ actor = "runner" => own \subseteq checked
      BY <2>2, <2>3 DEF ToTell, Observed
    <2>6. pub.result = "success" => TwoRevisions
      BY <2>2 DEF ToTell
    <2> QED BY <1>4, <2>1, <2>4, <2>5, <2>6
  <1> QED BY <1>3, <1>5, <1>6, CommentsKept

-----------------------------------------------------------------------------
(* The model's changes *)

\* Sealing commits what is in the tree.
LEMMA SealedWork ==
    ASSUME local \in RealRevision
    PROVE  /\ "work" \in local.work => "work" \in Sealed(local).work
           /\ tree \in {"dirty", "markers"} => "work" \in Sealed(local).work
  <1>1. local.work \in SUBSET Commits
    BY DEF RealRevision
  <1>2. AddCommit(local, "work").work = local.work \cup {"work"}
    BY DEF AddCommit, RealRevision
  <1>3. Sealed(local) = IF tree \in {"dirty", "markers"} THEN AddCommit(local, "work") ELSE local
    BY DEF Sealed, AddCommit
  <1> QED BY <1>2, <1>3

\* Where a publication starts: with an ordinary result, or in a conflict attempt
\* or its recovery, and unprepared only before the model changes anything or
\* after it was sealed.
LEMMA PublicationStarts ==
    ASSUME AttemptShapes, [AttemptNext]_vars, pc' = "publish", pc # "publish"
    PROVE  \/ req'.result = "ordinary" /\ req'.raised = "no"
           \/ /\ kind = "conflict" /\ actor \in {"runner", "startup"} /\ UNCHANGED <<kind, actor>>
              /\ req'.result # "ordinary"
              /\ \/ req'.raised = "no"
                 \/ pc \in {"entry", "prepare", "session", "second_check"} /\ UNCHANGED <<local, wrote>>
  <1>0. PlaceOK /\ run \in RunType /\ kind \in {"ordinary", "conflict"}
    BY DEF AttemptShapes, MemoryOK, SurroundingsOK
  <1> DEFINE AsOrdinary == req'.result = "ordinary" /\ req'.raised = "no"
             AsConflict == req'.result # "ordinary" /\ req'.raised = "no"
             AsRaised == req'.result # "ordinary" /\ req'.raised = "unprepared"
  <1>1. ASSUME NEW o \in {"infra", "incomplete", "no_changes"}, Terminal(o)
        PROVE  IF kind = "conflict" THEN AsRaised ELSE AsOrdinary
    <2>1. CASE kind = "conflict"
      <3>1. req' = RaisedRequest("unprepared")
        BY <1>1, <2>1 DEF Terminal, Returns
      <3> QED BY <2>1, <3>1, RaisedPlain DEF Raised
    <2>2. CASE kind # "conflict"
      <3>1. req' = Request(o, FALSE, FALSE)
        BY <1>1, <2>2 DEF Terminal, Returns
      <3>2. o \in Outcomes
        BY DEF Outcomes
      <3>3. OrdinaryFields(Request(o, FALSE, FALSE), o, FALSE, FALSE)
        BY <3>2, RequestFacts
      <3> QED BY <2>2, <3>1, <3>3 DEF OrdinaryFields
    <2> QED BY <2>1, <2>2
  <1>2. ASSUME NEW x \in Results \ {"ordinary"}, NEW p \in BOOLEAN, ConflictEnds(x, p)
        PROVE  AsConflict
    <2>1. run.head \in Revisions
      BY <1>0 DEF RunType
    <2>2. req' = ConflictRequest(x, p, run.head)
      BY <1>2 DEF ConflictEnds, Returns
    <2>3. ConflictFields(ConflictRequest(x, p, run.head), x, p, run.head)
      BY <2>1, ConflictRequestFacts
    <2> QED BY <2>2, <2>3 DEF ConflictFields
  <1>3. ConflictRaises => AsRaised
    <2> SUFFICES ASSUME ConflictRaises PROVE AsRaised
      OBVIOUS
    <2>1. req' = RaisedRequest("unprepared")
      BY DEF ConflictRaises, Returns
    <2> QED BY <2>1, RaisedPlain DEF Raised
  <1>4. {"success", "skipped", "rebase_conflict", "check_failed", "model_limit", "resolution_failed",
         "no_change", "setup_failed", "error", "push_failed"} = Results \ {"ordinary"}
    BY DEF Results
  <1>5. CASE PrepareFails
    <2>1. Terminal("infra") /\ pc = "prepare" /\ actor \in {"runner", "startup"}
          /\ UNCHANGED <<kind, actor, local, wrote>>
      BY <1>5 DEF PrepareFails, Elsewhere
    <2> QED BY <1>1, <2>1
  <1>6. CASE EnterSetup \/ ModelRaises \/ VerifyResolution \/ SealWork \/ EmergencyNote \/ RunPreparation
    <2>1. kind # "conflict"
      BY <1>0, <1>6 DEF PlaceOK, OrdinarySteps, EnterSetup, ModelRaises, VerifyResolution, SealWork,
             EmergencyNote, RunPreparation
    <2>2. \E o \in {"infra", "incomplete", "no_changes"} : Terminal(o)
      <3>1. CASE RunPreparation
        <4>1. PICK ok \in BOOLEAN, baseline \in {"none", "red", "green"} :
            LET early == EarlyDecision(ok, baseline, run.continuation \/ run.deferred)
            IN IF early = "none"
               THEN /\ pc' = IF run.deferred THEN "note" ELSE "dispatch"
                    /\ UNCHANGED <<req, prep>>
               ELSE Terminal(early)
          BY <3>1 DEF RunPreparation
        <4> DEFINE early == EarlyDecision(ok, baseline, run.continuation \/ run.deferred)
        <4>2. early \in {"none", "infra", "incomplete"}
          BY DEF EarlyDecision
        <4>3. early # "none"
          BY <4>1
        <4>4. Terminal(early)
          BY <4>1, <4>3
        <4> HIDE DEF early
        <4> QED BY <4>2, <4>3, <4>4
      <3>2. CASE EnterSetup \/ ModelRaises \/ VerifyResolution \/ SealWork \/ EmergencyNote
        BY <3>2 DEF EnterSetup, ModelRaises, VerifyResolution, SealWork, EmergencyNote
      <3> QED BY <1>6, <3>1, <3>2
    <2> QED BY <1>1, <2>1, <2>2
  <1>7. CASE Decide \/ RetryDecision
    <2>1. CASE Decide
      <3>1. PICK accepted \in BOOLEAN :
              LET d == Evaluate(accepted)
                  v == IF d.outcome = "handoff" /\ ~NoteValid(local) THEN Decision("incomplete") ELSE d
              IN \E r \in HandoffRequests(v) : Returns(r)
        BY <2>1 DEF Decide
      <3>2. PICK o \in Outcomes, e \in BOOLEAN, p \in BOOLEAN :
               \E r \in HandoffRequests(Request(o, e, p)) : Returns(r)
        BY <3>1, DecisionFacts
      <3>3. PICK r \in HandoffRequests(Request(o, e, p)) : req' = r
        BY <3>2 DEF Returns
      <3>4. OrdinaryFields(r, o, e, p)
        BY RequestFacts
      <3> QED BY <3>3, <3>4 DEF OrdinaryFields
    <2>2. CASE RetryDecision
      <3>1. \E q \in HandoffRequests(Inferred(TRUE)) : Returns(q)
        BY <2>2 DEF RetryDecision
      <3>2. PICK q \in HandoffRequests(Inferred(TRUE)) : req' = q
        BY <3>1 DEF Returns
      <3>3. Ordinary(q)
        BY InferredFacts, StandingOrdinary
      <3> QED BY <3>2, <3>3 DEF Ordinary
    <2> QED BY <1>7, <2>1, <2>2
  <1>8. CASE InferDecision
    <2>1. actor = "startup" /\ UNCHANGED <<kind, actor>>
      BY <1>8 DEF InferDecision, RunnerStep, Elsewhere
    <2>2. CASE kind = "conflict"
      <3>1. req' = ConflictRequest("error", FALSE, Absent)
        BY <1>8, <2>2 DEF InferDecision, Returns
      <3>2. ConflictFields(ConflictRequest("error", FALSE, Absent), "error", FALSE, Absent)
        BY <1>4, RevisionFacts, ConflictRequestFacts
      <3> QED BY <2>1, <2>2, <3>1, <3>2 DEF ConflictFields
    <2>3. CASE kind # "conflict"
      <3>1. PICK readable \in BOOLEAN : \E q \in HandoffRequests(Inferred(readable)) : Returns(q)
        BY <1>8, <2>3 DEF InferDecision
      <3>2. PICK q \in HandoffRequests(Inferred(readable)) : req' = q
        BY <3>1 DEF Returns
      <3>3. Ordinary(q)
        BY InferredFacts, StandingOrdinary
      <3> QED BY <3>2, <3>3 DEF Ordinary
    <2> QED BY <2>2, <2>3
  <1>9. CASE ConflictEntry \/ ConflictSession \/ ConflictSecondCheck
    <2>1. /\ kind = "conflict" /\ actor = "runner" /\ UNCHANGED <<kind, actor, local, wrote>>
          /\ pc \in {"entry", "prepare", "session", "second_check"}
      BY <1>0, <1>9 DEF PlaceOK, ConflictSteps, ConflictEntry, ConflictSession, ConflictSecondCheck,
             RunnerStep, Elsewhere
    <2>2. (\E x \in Results \ {"ordinary"}, p \in BOOLEAN : ConflictEnds(x, p)) \/ ConflictRaises
      BY <1>4, <1>9 DEF ConflictEntry, ConflictSession, ConflictSecondCheck
    <2> QED BY <1>2, <1>3, <2>1, <2>2
  <1>10. CASE ConflictRebased \/ ConflictFirstCheck \/ ConflictResolved \/ ConflictUnresolved
    <2>1. kind = "conflict" /\ actor = "runner" /\ UNCHANGED <<kind, actor>>
      BY <1>0, <1>10 DEF PlaceOK, ConflictSteps, ConflictRebased, ConflictFirstCheck, ConflictResolved,
             ConflictUnresolved, RunnerStep, Elsewhere
    <2>2. \E x \in Results \ {"ordinary"}, p \in BOOLEAN : ConflictEnds(x, p)
      BY <1>4, <1>10 DEF ConflictRebased, ConflictFirstCheck, ConflictResolved, ConflictUnresolved
    <2> QED BY <1>2, <2>1, <2>2
  <1> QED BY <1>5, <1>6, <1>7, <1>8, <1>9, <1>10 DEF AttemptNext, Worker, Model, Publishes, PublishStep, vars,
           AttemptIdle, Elsewhere, RunnerStep, Forgotten, Pushed, PublicationFails, RecordDone, PushFails,
           HoldWorkspace, PrepareAttempt, RecordLease, DispatchModel, StartFinalCheck, FinishFinalCheck,
           ReleaseComment, Restart, FinishAttempt, ModelCommits, ModelEdits, ModelWritesNote, ModelRebases,
           ModelEnds, Crash, BaseMoves, OtherPublishes, OperatorRepairs, OperatorRecovers,
           BeginPublish, StampRaises, PushAccepted, PushReconciled, BranchMoved, PushBroken, AdvanceLease,
           MarkPublishing, AfterPush, FindPullRequest, CreatePullRequest, AutoMerge, Report, PostResult,
           RecordHandoff, SaveIntent, FindRecord, WriteRecord

\* Except clauses only publish conflict attempts, with nothing left behind.
LEMMA HandlersKept ==
    ASSUME AttemptShapes, Handlers, Changes, [AttemptNext]_vars
    PROVE  Handlers'
  <1>1. CASE pc' \notin PublishSteps \cup {"finish"}
    BY <1>1 DEF Handlers, PublishSteps
  <1>2. CASE pc \in PublishSteps /\ pc' \in PublishSteps \cup {"finish"}
    <2>1. UNCHANGED <<local, kind, actor, wrote>> /\ (pc' = "publish" => pc = "publish")
      BY <1>2, WhilePublishing
    <2>2. CASE req' = req
      BY <1>2, <2>1, <2>2 DEF Handlers, NothingPrepared
    <2>3. CASE StampRaises /\ req' = RaisedRequest("prepared") /\ pc' = "publish"
      <3>1. req.result # "ordinary" /\ pc = "publish"
        BY <2>3 DEF StampRaises, IsConflict
      <3>2. req'.result = "error" /\ req'.raised = "prepared"
        BY <2>3, RaisedPlain DEF Raised
      <3> QED BY <2>1, <2>3, <3>1, <3>2 DEF Handlers, NothingPrepared
    <2> QED BY <1>2, <2>2, <2>3, WhilePublishing
  <1>3. CASE pc \notin PublishSteps /\ pc' \in PublishSteps
    <2>1. pc' = "publish" /\ pc # "publish"
      BY <1>3, Returned DEF PublishSteps
    <2>2. CASE req'.result = "ordinary" /\ req'.raised = "no"
      BY <2>1, <2>2 DEF Handlers, NothingPrepared
    <2>3. CASE /\ kind = "conflict" /\ actor \in {"runner", "startup"} /\ UNCHANGED <<kind, actor>>
               /\ req'.result # "ordinary"
               /\ \/ req'.raised = "no"
                  \/ pc \in {"entry", "prepare", "session", "second_check"} /\ UNCHANGED <<local, wrote>>
      <3>1. pc \in {"entry", "prepare", "session", "second_check"} /\ actor = "runner" /\ wrote
               => "work" \in local.work
        BY DEF Changes
      <3> QED BY <2>1, <2>3, <3>1 DEF Handlers, NothingPrepared
    <2> QED BY <2>1, <2>2, <2>3, PublicationStarts
  <1>4. CASE pc \notin PublishSteps /\ pc' = "finish"
    <2>1. (UNCHANGED <<req, local, actor, wrote>> /\ pc = "finish") \/ ReleaseComment
      BY <1>4 DEF AttemptNext, Worker, Model, Publishes, PublishStep, vars, AttemptIdle, Elsewhere,
           RunnerStep, Returns, Terminal, ConflictEnds, ConflictRaises, Forgotten, Fails, Quiet, Untouched,
           Pushed, PublicationFails, RecordDone, PushFails, HoldWorkspace,
           PrepareAttempt, PrepareFails, RecordLease, EnterSetup, RunPreparation,
           DispatchModel, VerifyResolution, SealWork, EmergencyNote, StartFinalCheck,
           FinishFinalCheck, Decide, ConflictEntry, ConflictRebased,
           ConflictFirstCheck, ConflictSession, ConflictResolved, ConflictSecondCheck,
           InferDecision, RetryDecision, Restart, FinishAttempt, ModelCommits,
           ModelEdits, ModelWritesNote, ModelRebases, ModelEnds, ModelRaises,
           ConflictUnresolved, Crash, BaseMoves, OtherPublishes, OperatorRepairs,
           OperatorRecovers, BeginPublish, StampRaises, PushAccepted, PushReconciled, BranchMoved,
           PushBroken, AdvanceLease, MarkPublishing, AfterPush, FindPullRequest,
           CreatePullRequest, AutoMerge, Report, PostResult, RecordHandoff,
           SaveIntent, FindRecord, WriteRecord, PublishSteps
    <2>2. CASE UNCHANGED <<req, local, actor, wrote>> /\ pc = "finish"
      BY <1>4, <2>2 DEF Handlers, NothingPrepared, PublishSteps
    <2>3. CASE ReleaseComment
      <3>1. actor' # "runner"
        BY <2>3 DEF ReleaseComment, AttemptShapes, PlaceOK
      <3> QED BY <1>4, <3>1 DEF Handlers
    <2> QED BY <2>1, <2>2, <2>3
  <1> QED BY <1>1, <1>2, <1>3, <1>4

\* The model's changes stay on the branch or in the tree.
LEMMA ChangesKept ==
    ASSUME AttemptShapes, Handlers, Changes, Ended, [AttemptNext]_vars
    PROVE  Changes' /\ Ended'
  <1>0. /\ PlaceOK /\ run \in RunType /\ prep \in PrepType /\ base \in 0 .. MaxBase
        /\ tree \in {"clean", "dirty", "conflict", "markers"} /\ wrote \in BOOLEAN
    BY DEF AttemptShapes, SurroundingsOK, MemoryOK
  <1> SUFFICES ASSUME actor' = "runner" PROVE Changes' /\ Ended'
    BY DEF Changes, Ended
  <1>1. actor = "runner"
    BY FirstRunSteps
  <1>b. pc \in OrdinarySteps \cup ConflictSteps => local \in RealRevision
    BY RevisionFacts DEF AttemptShapes, PlaceOK, SurroundingsOK
  <1> DEFINE Watched == {"entry", "prepare", "lease", "setup", "rebased", "dispatch", "first_check",
                         "session", "preparation", "note", "check", "checking", "second_check",
                         "model", "verify", "resolve"}
             OnBranch == wrote' => "work" \in local'.work \/ tree' = "dirty"
  <1>2. ASSUME pc' \notin Watched \cup {"done"}, OnBranch
        PROVE  Changes' /\ Ended'
    BY <1>2 DEF Changes, Ended
  <1>3. ASSUME pc' \notin Watched \cup {"done"}, UNCHANGED <<local, tree, wrote>>
        PROVE  Changes' /\ Ended'
    BY <1>1, <1>3 DEF Changes, Ended
  <1>4. CASE HoldWorkspace \/ PrepareFails \/ Decide \/ Crash
    <2>1. pc' \in {"held", "publish", "down"} /\ UNCHANGED <<local, tree, wrote>>
      BY <1>4 DEF HoldWorkspace, PrepareFails, Decide, Crash, Terminal, Returns
    <2> QED BY <1>3, <2>1
  <1>5. CASE PrepareAttempt
    <2>1. /\ pc = "prepare" /\ pc' = "lease" /\ wrote' = wrote
      BY <1>1, <1>5 DEF PrepareAttempt
    <2>2. tree' \in {"clean", "conflict"} /\ (prep'.pre # Absent => tree' = "conflict")
      BY <1>5, PrepareLocal
    <2> QED BY <1>1, <2>1, <2>2 DEF Changes, Ended
  <1>6. CASE RecordLease
    BY <1>1, <1>6 DEF RecordLease, Changes, Ended
  <1>7. CASE EnterSetup
    <2> DEFINE c == HasCommits(local)
               d == tree = "conflict"
    <2>1. /\ pc = "setup" /\ UNCHANGED <<local, tree, wrote>>
          /\ \/ pc' = "publish"
             \/ /\ run' = [NoRun EXCEPT !.continuation = c, !.deferred = d] /\ UNCHANGED prep
                /\ pc' = IF tree = "conflict" THEN "dispatch" ELSE "preparation"
      BY <1>7 DEF EnterSetup, Terminal, Returns
    <2>2. CASE pc' = "publish"
      BY <1>3, <2>1, <2>2
    <2>3. CASE /\ run' = [NoRun EXCEPT !.continuation = c, !.deferred = d] /\ UNCHANGED prep
               /\ pc' = IF tree = "conflict" THEN "dispatch" ELSE "preparation"
      <3>1. NoRun \in RunType
        BY RevisionFacts DEF NoRun, RunType
      <3>2. run'.deferred = d
        <4> HIDE DEF c, d
        <4> QED BY <2>3, <3>1 DEF RunType
      <3>3. run'.deferred <=> tree = "conflict"
        BY <3>2
      <3> QED BY <1>1, <2>1, <2>3, <3>3 DEF Changes, Ended
    <2> QED BY <2>1, <2>2, <2>3
  <1>8. CASE RunPreparation
    <2>1. /\ pc = "preparation" /\ UNCHANGED <<local, tree, wrote>>
          /\ \/ pc' = "publish"
             \/ /\ \E b : run' = [run EXCEPT !.baseline = b]
                /\ pc' = (IF run.deferred THEN "note" ELSE "dispatch") /\ UNCHANGED prep
      BY <1>8 DEF RunPreparation, Terminal, Returns
    <2>2. CASE pc' = "publish"
      BY <1>3, <2>1, <2>2
    <2>3. CASE /\ \E b : run' = [run EXCEPT !.baseline = b]
               /\ pc' = (IF run.deferred THEN "note" ELSE "dispatch") /\ UNCHANGED prep
      <3>1. run'.deferred = run.deferred
        BY <1>0, <2>3 DEF RunType
      <3> QED BY <1>1, <2>1, <2>3, <3>1 DEF Changes, Ended
    <2> QED BY <2>1, <2>2, <2>3
  <1>9. CASE DispatchModel \/ StartFinalCheck
    BY <1>1, <1>9 DEF DispatchModel, StartFinalCheck, Changes, Ended
  <1>10. CASE VerifyResolution
    <2>1. /\ pc = "verify" /\ wrote' = wrote /\ pc' \in {"publish", "seal"}
          /\ (run.deferred /\ tree \in {"conflict", "markers"}) \/ UNCHANGED <<local, tree>>
      BY <1>10 DEF VerifyResolution, Unresolved, Terminal, Returns
    <2>2. OnBranch
      BY <1>1, <2>1 DEF Changes
    <2> QED BY <1>2, <2>1, <2>2
  <1>11. CASE SealWork
    <2>1. /\ pc = "seal" /\ wrote' = wrote
          /\ \/ /\ local' = Sealed(local) /\ tree' = "clean" /\ UNCHANGED <<prep, run>>
                /\ pc' = IF run.deferred THEN "preparation" ELSE "note"
             \/ pc' = "publish" /\ UNCHANGED <<local, tree>>
      BY <1>0, <1>11 DEF SealWork, SealedTree, Terminal, Returns
    <2>2. CASE pc' = "publish" /\ UNCHANGED <<local, tree>>
      BY <1>3, <2>1, <2>2
    <2>3. CASE /\ local' = Sealed(local) /\ tree' = "clean" /\ UNCHANGED <<prep, run>>
               /\ pc' = IF run.deferred THEN "preparation" ELSE "note"
      <3>1. wrote => "work" \in local'.work
        BY <1>1, <1>b, <2>1, <2>3, SealedWork DEF Changes, OrdinarySteps
      <3> QED BY <1>1, <2>1, <2>3, <3>1 DEF Changes, Ended
    <2> QED BY <2>1, <2>2, <2>3
  <1>12. CASE EmergencyNote
    <2>1. /\ pc = "note" /\ wrote' = wrote
          /\ \/ /\ pc' = "check" /\ UNCHANGED tree
                /\ local' = local \/ local' = PutNote(local, "written")
             \/ pc' = "publish" /\ UNCHANGED local /\ tree' \in {tree, "dirty"}
      BY <1>12 DEF EmergencyNote, WithNote, PutNote, Terminal, Returns
    <2>2. local'.work = local.work
      BY <1>0, <1>b, <2>1, BranchFacts DEF OrdinarySteps
    <2>3. OnBranch
      BY <1>1, <2>1, <2>2 DEF Changes
    <2>4. CASE pc' = "publish"
      BY <1>2, <2>3, <2>4
    <2>5. CASE pc' = "check" /\ UNCHANGED tree
      BY <1>1, <2>1, <2>2, <2>5 DEF Changes, Ended
    <2> QED BY <2>1, <2>4, <2>5
  <1>13. CASE FinishFinalCheck
    <2>1. /\ pc = "checking" /\ pc' = "decide" /\ wrote' = wrote
          /\ local' = local \/ local' = AddCommit(local, "fix")
      BY <1>13 DEF FinishFinalCheck, AddCommit
    <2>2. "work" \in local.work => "work" \in local'.work
      <3>1. local \in RealRevision
        BY <1>b, <2>1 DEF OrdinarySteps
      <3>2. AddCommit(local, "fix").work = local.work \cup {"fix"}
        BY <3>1 DEF AddCommit, RealRevision
      <3> QED BY <2>1, <3>2
    <2>3. OnBranch
      BY <1>1, <2>1, <2>2 DEF Changes
    <2> QED BY <1>2, <2>1, <2>3
  <1>14. CASE ConflictEntry
    <2>1. pc = "entry" /\ UNCHANGED <<local, tree, wrote>> /\ pc' \in {"prepare", "publish"}
      BY <1>14 DEF ConflictEntry, ConflictEnds, ConflictRaises, Returns
    <2> QED BY <1>1, <2>1 DEF Changes, Ended
  <1>15. CASE ConflictRebased
    <2>1. /\ pc = "rebased" /\ UNCHANGED <<local, tree, wrote>>
          /\ \/ pc' = "publish"
             \/ /\ tree = "conflict" /\ run' = [run EXCEPT !.deferred = TRUE]
                /\ pc' = "session" /\ UNCHANGED prep
             \/ tree = "clean" /\ pc' = "first_check" /\ UNCHANGED <<prep, run>>
      BY <1>15 DEF ConflictRebased, ConflictEnds, ConflictRaises, Returns
    <2>2. run' = [run EXCEPT !.deferred = TRUE] => run'.deferred
      BY <1>0 DEF RunType
    <2> QED BY <1>1, <1>3, <2>1, <2>2 DEF Changes, Ended
  <1>16. CASE ConflictFirstCheck
    <2>1. /\ pc = "first_check" /\ UNCHANGED <<local, wrote>> /\ tree' \in {"clean", "dirty"}
          /\ pc' = "publish" \/ (pc' = "session" /\ UNCHANGED <<prep, run>>)
      BY <1>16 DEF ConflictFirstCheck, ConflictEnds, ConflictRaises, Returns
    <2> QED BY <1>1, <2>1 DEF Changes, Ended
  <1>17. CASE ConflictSession
    <2>1. /\ pc = "session" /\ UNCHANGED <<local, tree, wrote>>
          /\ pc' = "publish" \/ (pc' = "resolve" /\ UNCHANGED <<prep, run>>)
      BY <1>17 DEF ConflictSession, ConflictEnds, ConflictRaises, Returns
    <2> QED BY <1>1, <2>1 DEF Changes, Ended
  <1>18. CASE ConflictResolved
    <2>1. /\ pc = "resolve" /\ wrote' = wrote /\ tree \in {"clean", "dirty"}
          /\ pc' = "publish" \/ (pc' = "second_check" /\ tree' = "clean")
          /\ (local' = Sealed(local) /\ tree' = "clean") \/ UNCHANGED <<local, tree>>
      BY <1>18 DEF ConflictResolved, ConflictEnds, ConflictRaises, Returns
    <2>2. OnBranch
      BY <1>1, <1>b, <2>1, SealedWork DEF Changes, ConflictSteps
    <2> QED BY <2>1, <2>2 DEF Changes, Ended
  <1>19. CASE ConflictSecondCheck
    <2>1. pc = "second_check" /\ pc' = "publish" /\ UNCHANGED <<local, wrote>>
      BY <1>19 DEF ConflictSecondCheck, ConflictEnds, ConflictRaises, Returns
    <2>2. OnBranch
      BY <1>1, <2>1 DEF Changes
    <2> QED BY <1>2, <2>1, <2>2
  <1>20. CASE FinishAttempt
    <2>1. /\ pc = "finish" /\ pc' \in {"done", "held"} /\ UNCHANGED <<local, wrote>>
          /\ tree' = tree \/ (tree = "conflict" /\ tree' = "clean")
          /\ pc' = "done" => tree' = "clean" \/ NothingPrepared
      BY <1>20 DEF FinishAttempt, CleanedUp
    <2>2. OnBranch
      BY <1>1, <2>1 DEF Changes
    <2>3. Changes'
      BY <2>1, <2>2 DEF Changes
    <2>4. Ended'
      BY <1>1, <2>1, <2>2 DEF Ended, Handlers
    <2> QED BY <2>3, <2>4
  <1>21. CASE ModelCommits
    <2>1. /\ pc \in {"model", "resolve"} /\ tree \in {"clean", "dirty"} /\ local' = AddCommit(local, "work")
          /\ UNCHANGED <<pc, tree, prep, run>>
      BY <1>21 DEF ModelCommits, AddCommit
    <2>2. "work" \in local'.work
      <3>1. local \in RealRevision
        BY <1>b, <2>1 DEF OrdinarySteps, ConflictSteps
      <3> QED BY <2>1, <3>1 DEF AddCommit, RealRevision
    <2> QED BY <1>1, <2>1, <2>2 DEF Changes, Ended
  <1>22. CASE ModelEdits
    BY <1>1, <1>22 DEF ModelEdits, Changes, Ended
  <1>23. CASE ModelWritesNote
    <2>1. /\ pc = "model" /\ \E n \in {"written", "bad"} : local' = PutNote(local, n)
          /\ UNCHANGED <<pc, tree, prep, run, wrote>>
      BY <1>23 DEF ModelWritesNote, PutNote
    <2>2. local'.work = local.work
      BY <1>0, <1>b, <2>1, BranchFacts DEF OrdinarySteps
    <2> QED BY <1>1, <2>1, <2>2 DEF Changes, Ended
  <1>24. CASE ModelRebases
    <2>1. /\ pc \in {"model", "resolve"} /\ UNCHANGED <<pc, prep, run, wrote>>
          /\ \/ tree = "conflict" /\ local' = Rebase(local, base) /\ tree' \in {"clean", "markers"}
             \/ tree = "clean" /\ ~run.deferred /\ tree' = "conflict" /\ UNCHANGED local
      BY <1>24 DEF ModelRebases
    <2>2. local'.work = local.work
      BY <1>0, <1>b, <2>1, BranchFacts DEF OrdinarySteps, ConflictSteps
    <2> QED BY <1>1, <2>1, <2>2 DEF Changes, Ended
  <1>25. CASE ModelEnds
    <2>1. /\ pc = "model" /\ pc' = "verify" /\ UNCHANGED <<local, tree, prep, wrote>>
          /\ \E s \in Statuses : run' = [run EXCEPT !.status = s]
      BY <1>25 DEF ModelEnds
    <2>2. run'.deferred = run.deferred
      BY <1>0, <2>1 DEF RunType
    <2> QED BY <1>1, <2>1, <2>2 DEF Changes, Ended
  <1>26. CASE ModelRaises
    <2>1. /\ pc = "model" /\ pc' = "publish" /\ wrote' = wrote
          /\ local' = Sealed(local) \/ UNCHANGED <<local, tree>>
      BY <1>26 DEF ModelRaises, Terminal, Returns
    <2>2. OnBranch
      BY <1>1, <1>b, <2>1, SealedWork DEF Changes, OrdinarySteps
    <2> QED BY <1>2, <2>1, <2>2
  <1>27. CASE ConflictUnresolved
    <2>1. /\ pc = "resolve" /\ pc' = "publish" /\ wrote' = wrote
          /\ \/ tree = "conflict" /\ (local' = local \/ prep.pre # Absent)
             \/ local' = Sealed(local) \/ UNCHANGED <<local, tree>>
      BY <1>27 DEF ConflictUnresolved, AbortAndSeal, Restored, ConflictEnds, ConflictRaises, Returns
    <2>2. OnBranch
      BY <1>1, <1>b, <2>1, SealedWork DEF Changes, ConflictSteps
    <2> QED BY <1>2, <2>1, <2>2
  <1>28. CASE BaseMoves \/ OtherPublishes \/ UNCHANGED vars
    BY <1>1, <1>28 DEF BaseMoves, OtherPublishes, AttemptIdle, vars, Changes, Ended
  <1>29. CASE OperatorRepairs
    <2>1. pc' \in {"down", "held"} /\ UNCHANGED local /\ wrote' = ("work" \in local.work)
      BY <1>29 DEF OperatorRepairs
    <2> QED BY <1>2, <2>1
  <1>30. CASE Restart \/ OperatorRecovers \/ InferDecision \/ RetryDecision \/ ReleaseComment
    BY <1>0, <1>1, <1>30 DEF Restart, OperatorRecovers, InferDecision, RetryDecision, ReleaseComment, PlaceOK
  <1>31. CASE Publishes
    <2>1. UNCHANGED <<local, tree, wrote>>
      BY <1>31 DEF Publishes, AttemptIdle, PublishStep, Quiet, Untouched, BeginPublish, StampRaises, PushAccepted, PushReconciled, BranchMoved, PushBroken, AdvanceLease, MarkPublishing, AfterPush, FindPullRequest, CreatePullRequest, AutoMerge, Report, PostResult, RecordHandoff, SaveIntent, FindRecord, WriteRecord
    <2>2. pc' \in PublishSteps \cup {"finish"}
      BY <1>31 DEF Publishes, PublishStep, PublishSteps, Pushed, PublicationFails, RecordDone, PushFails,
             BeginPublish, StampRaises, PushAccepted, PushReconciled, BranchMoved, PushBroken, AdvanceLease, MarkPublishing, AfterPush, FindPullRequest, CreatePullRequest, AutoMerge, Report, PostResult, RecordHandoff, SaveIntent, FindRecord, WriteRecord
    <2> QED BY <1>3, <2>1, <2>2 DEF PublishSteps
  <1> QED BY <1>4, <1>5, <1>6, <1>7, <1>8, <1>9, <1>10, <1>11, <1>12, <1>13, <1>14, <1>15, <1>16,
             <1>17, <1>18, <1>19, <1>20, <1>21, <1>22, <1>23, <1>24, <1>25, <1>26, <1>27, <1>28,
             <1>29, <1>30, <1>31 DEF AttemptNext, Worker, Model

-----------------------------------------------------------------------------
(* The lease *)

\* Another Worker's work that the clone or the lease knows is not lost.
LEMMA LeasesKept ==
    ASSUME AttemptShapes, Observed, StepsReady, Leases, [AttemptNext]_vars
    PROVE  /\ Leases'
           /\ ckpt.known /\ Other(remote) => Other(remote')
  <1>0. /\ ckpt \in [phase : Phases, lease : Revisions, known : BOOLEAN] /\ PlaceOK
        /\ local \in Revisions /\ remote \in Revisions /\ base \in 0 .. MaxBase
        /\ ~Other(Absent) /\ NoPrep.pre = Absent /\ pub \in PubType
    BY RevisionFacts DEF AttemptShapes, MemoryOK, SurroundingsOK, Other, NoPrep
  <1>1. Other(remote) /\ Other(local) => Other(remote')
    BY SurroundingSteps, OthersBranch DEF Other
  <1>2. remote' # remote /\ ~OtherPublishes => remote' = local /\ (ckpt.known => remote = ckpt.lease)
    BY OriginSteps DEF Permitted
  <1>3. ckpt.known /\ Other(remote) => Other(remote')
    BY <1>2, OthersBranch DEF Other, Leases
  <1>4. /\ Other(remote) /\ Other(local) => Other(local')
        /\ PrepareAttempt \/ (prep'.pre # Absent /\ Other(local') => Other(prep'.pre))
    <2>1. CASE PrepareAttempt
      <3>1. PICK start \in RealRevision :
              /\ start = remote \/ start = local \/ (start = Branch({}, base) /\ local = Absent)
              /\ local'.work = start.work
        BY <2>1, PrepareLocal
      <3> QED BY <1>0, <2>1, <3>1 DEF Other
    <2>2. CASE \/ ModelCommits \/ ModelWritesNote \/ ModelRebases \/ ModelRaises \/ VerifyResolution
               \/ SealWork \/ EmergencyNote \/ FinishFinalCheck \/ ConflictUnresolved \/ ConflictResolved
      <3>1. (local' = prep.pre /\ prep.pre # Absent) \/ Carries(local, local', base)
        BY <2>2, SessionLocal
      <3>2. Carries(local, local', base) => (Other(local') <=> Other(local))
        BY DEF Carries, Other
      <3>3. prep.pre # Absent /\ Other(local) => Other(prep.pre)
        BY DEF Leases
      <3>4. prep' = prep \/ prep'.pre = Absent \/ PrepareAttempt
        BY <1>0, MemorySteps
      <3> QED BY <3>1, <3>2, <3>3, <3>4
    <2>3. CASE local' = local
      BY <1>0, <2>3, MemorySteps DEF Leases
    <2> QED BY <2>1, <2>2, <2>3, LocalType
  <1>5. PrepareAttempt => /\ prep'.pre # Absent /\ Other(local') => Other(prep'.pre)
                          /\ Other(prep'.seen) => Other(local') /\ Other(remote')
    <2> SUFFICES ASSUME PrepareAttempt
                 PROVE  /\ prep'.pre # Absent /\ Other(local') => Other(prep'.pre)
                        /\ Other(prep'.seen) => Other(local') /\ Other(remote')
      OBVIOUS
    <2>1. PICK start \in RealRevision :
             /\ prep'.seen = Absent \/ (prep'.seen = remote /\ start = remote)
             /\ (local' = start /\ prep'.pre = start) \/ prep'.pre = Absent
             /\ local'.work = start.work
      BY PrepareLocal
    <2>2. remote' = remote
      BY DEF PrepareAttempt, Elsewhere
    <2> QED BY <1>0, <2>1, <2>2 DEF Other
  <1>6. prep'.pre # Absent /\ Other(local') => Other(prep'.pre)
    BY <1>4, <1>5
  <1>7. pc' = "lease" /\ Other(prep'.seen) => Other(local') /\ Other(remote')
    <2>1. pc' = "lease" => PrepareAttempt \/ (pc = "lease" /\ UNCHANGED <<prep, local>>)
      <3>1. pc' = "lease" => PrepareAttempt \/ pc = "lease"
        BY PlaceSteps
      <3>2. pc = "lease" /\ pc' = "lease" => BaseMoves \/ OtherPublishes \/ UNCHANGED vars
        BY DEF AttemptNext, Worker, Model, Publishes, PublishStep, vars, AttemptIdle, Elsewhere,
           RunnerStep, Returns, Terminal, ConflictEnds, ConflictRaises, Forgotten, Fails, Quiet, Untouched,
           Pushed, PublicationFails, RecordDone, PushFails, HoldWorkspace,
           PrepareAttempt, PrepareFails, RecordLease, EnterSetup, RunPreparation,
           DispatchModel, VerifyResolution, SealWork, EmergencyNote, StartFinalCheck,
           FinishFinalCheck, Decide, ConflictEntry, ConflictRebased,
           ConflictFirstCheck, ConflictSession, ConflictResolved, ConflictSecondCheck,
           InferDecision, RetryDecision, ReleaseComment, Restart, FinishAttempt,
           ModelCommits, ModelEdits, ModelWritesNote, ModelRebases, ModelEnds,
           ModelRaises, ConflictUnresolved, Crash, OperatorRepairs, OperatorRecovers,
           BeginPublish, StampRaises, PushAccepted, PushReconciled, BranchMoved, PushBroken,
           AdvanceLease, MarkPublishing, AfterPush, FindPullRequest,
           CreatePullRequest, AutoMerge, Report, PostResult, RecordHandoff,
           SaveIntent, FindRecord, WriteRecord
      <3>3. BaseMoves \/ OtherPublishes \/ UNCHANGED vars => UNCHANGED <<prep, local>>
        BY DEF BaseMoves, OtherPublishes, AttemptIdle, vars
      <3> QED BY <3>1, <3>2, <3>3
    <2>2. CASE pc = "lease" /\ UNCHANGED <<prep, local>>
      BY <1>1, <2>2 DEF Leases
    <2> QED BY <1>5, <2>1, <2>2
  <1>8. pc' = "advance" /\ Other(pub'.pushed) => Other(remote')
    <2>1. pc' = "advance" => PushAccepted \/ PushReconciled \/ (pc = "advance" /\ UNCHANGED pub)
      <3>1. pc' = "advance" => PushAccepted \/ PushReconciled \/ pc = "advance"
        BY DEF AttemptNext, Worker, Model, Publishes, PublishStep, vars, AttemptIdle, Elsewhere,
           RunnerStep, Returns, Terminal, ConflictEnds, ConflictRaises, Forgotten, Fails, Quiet, Untouched,
           Pushed, PublicationFails, RecordDone, PushFails, HoldWorkspace,
           PrepareAttempt, PrepareFails, RecordLease, EnterSetup, RunPreparation,
           DispatchModel, VerifyResolution, SealWork, EmergencyNote, StartFinalCheck,
           FinishFinalCheck, Decide, ConflictEntry, ConflictRebased,
           ConflictFirstCheck, ConflictSession, ConflictResolved, ConflictSecondCheck,
           InferDecision, RetryDecision, ReleaseComment, Restart, FinishAttempt,
           ModelCommits, ModelEdits, ModelWritesNote, ModelRebases, ModelEnds,
           ModelRaises, ConflictUnresolved, Crash, BaseMoves, OtherPublishes,
           OperatorRepairs, OperatorRecovers, BeginPublish, StampRaises, BranchMoved, PushBroken,
           AdvanceLease, MarkPublishing, AfterPush, FindPullRequest,
           CreatePullRequest, AutoMerge, Report, PostResult, RecordHandoff,
           SaveIntent, FindRecord, WriteRecord
      <3>2. pc = "advance" /\ pc' = "advance" => BaseMoves \/ OtherPublishes \/ UNCHANGED vars
        BY DEF AttemptNext, Worker, Model, Publishes, PublishStep, vars, AttemptIdle, Elsewhere,
           RunnerStep, Returns, Terminal, ConflictEnds, ConflictRaises, Forgotten, Fails, Quiet, Untouched,
           Pushed, PublicationFails, RecordDone, PushFails, HoldWorkspace,
           PrepareAttempt, PrepareFails, RecordLease, EnterSetup, RunPreparation,
           DispatchModel, VerifyResolution, SealWork, EmergencyNote, StartFinalCheck,
           FinishFinalCheck, Decide, ConflictEntry, ConflictRebased,
           ConflictFirstCheck, ConflictSession, ConflictResolved, ConflictSecondCheck,
           InferDecision, RetryDecision, ReleaseComment, Restart, FinishAttempt,
           ModelCommits, ModelEdits, ModelWritesNote, ModelRebases, ModelEnds,
           ModelRaises, ConflictUnresolved, Crash, OperatorRepairs, OperatorRecovers,
           BeginPublish, StampRaises, PushAccepted, PushReconciled, BranchMoved, PushBroken,
           AdvanceLease, MarkPublishing, AfterPush, FindPullRequest,
           CreatePullRequest, AutoMerge, Report, PostResult, RecordHandoff,
           SaveIntent, FindRecord, WriteRecord
      <3>3. BaseMoves \/ OtherPublishes \/ UNCHANGED vars => UNCHANGED pub
        BY DEF BaseMoves, OtherPublishes, AttemptIdle, vars
      <3> QED BY <3>1, <3>2, <3>3
    <2>2. CASE PushAccepted \/ PushReconciled
      <3>1. pub' = [pub EXCEPT !.pushed = local] /\ remote' = local
        BY <2>2 DEF PushAccepted, PushReconciled, Pushed
      <3>2. pub'.pushed = local
        BY <1>0, <3>1 DEF PubType
      <3> QED BY <3>1, <3>2
    <2>3. CASE pc = "advance" /\ UNCHANGED pub
      <3>1. pub.pushed = local
        BY <2>3 DEF StepsReady, Observed, Publishing, PublishSteps
      <3> QED BY <1>1, <2>3, <3>1 DEF Leases
    <2> QED BY <2>1, <2>2, <2>3
  <1>9. ckpt'.known /\ Other(ckpt'.lease) => Other(local') /\ Other(remote')
    <2>1. CASE RecordLease
      <3>1. /\ pc = "lease" /\ UNCHANGED <<local, remote>>
            /\ ckpt' = ckpt \/ ckpt' = [ckpt EXCEPT !.lease = prep.seen, !.known = TRUE]
        BY <2>1 DEF RecordLease, Elsewhere
      <3>2. ckpt' = ckpt \/ ckpt'.lease = prep.seen
        BY <1>0, <3>1
      <3> QED BY <3>1, <3>2 DEF Leases
    <2>2. CASE AdvanceLease
      <3>1. /\ pc = "advance" /\ UNCHANGED <<local, remote>>
            /\ ckpt' = ckpt \/ ckpt' = [ckpt EXCEPT !.lease = pub.pushed, !.known = TRUE]
        BY <2>2 DEF AdvanceLease, Quiet, Untouched
      <3>2. ckpt' = ckpt \/ ckpt'.lease = pub.pushed
        BY <1>0, <3>1
      <3>3. pub.pushed = local
        BY <3>1 DEF StepsReady, Observed, Publishing, PublishSteps
      <3> QED BY <3>1, <3>2, <3>3 DEF Leases
    <2>3. CASE ckpt' = ckpt \/ \E p \in Phases : ckpt' = [ckpt EXCEPT !.phase = p]
      <3>1. ckpt'.known = ckpt.known /\ ckpt'.lease = ckpt.lease
        BY <1>0, <2>3
      <3> QED BY <1>1, <1>4, <3>1 DEF Leases
    <2> QED BY <2>1, <2>2, <2>3, MemorySteps
  <1> QED BY <1>3, <1>6, <1>7, <1>8, <1>9 DEF Leases, Other

-----------------------------------------------------------------------------
(* The properties *)

\* The invariant holds at the claim.
LEMMA AttemptInvInitial == AttemptInit => AttemptInv
  <1> SUFFICES ASSUME AttemptInit PROVE AttemptInv
    OBVIOUS
  <1>0. AttemptShapes
    BY ShapesInitial
  <1>1. PICK s \in Scenes : /\ kind = s.kind /\ remote = s.remote /\ local = s.local
    BY DEF AttemptInit
  <1>2. /\ s.remote \in {Absent, Branch({"old"}, 0)} /\ s.local \in {Absent, Branch({"old"}, 0)}
    BY AttemptAssumption
  <1>3. /\ Absent.cites = 0 /\ Absent.base = 0 /\ Absent.note = "none"
        /\ Branch({"old"}, 0).cites = 0 /\ Branch({"old"}, 0).base = 0
        /\ Branch({"old"}, 0).note = "none"
    BY DEF Absent, Branch
  <1>4. /\ remote.cites = 0 /\ remote.base = 0 /\ remote.note = "none"
        /\ local.cites = 0 /\ local.base = 0 /\ local.note = "none"
    BY <1>1, <1>2, <1>3
  <1>5. /\ own = {} /\ comments = <<>> /\ prep.pre = Absent /\ pub.posted = FALSE /\ wrote = FALSE
        /\ ckpt.phase = "claimed" /\ ckpt.known = FALSE /\ record.by \in {"none", "earlier"}
        /\ remote \in history /\ run.check = "none" /\ pc \in {"entry", "prepare"}
        /\ kind = "conflict" => pc = "entry" /\ pr = "open"
    BY DEF AttemptInit, NoPrep, Fresh, NoRun
  <1>6. base \in Nat
    BY <1>0 DEF AttemptShapes, SurroundingsOK
  <1>7. Len(<<>>) = 0 /\ 1 .. 0 = {}
    OBVIOUS
  <1>8. Untold /\ Bases /\ Notes /\ Records
    <2>1. Bases
      BY <1>3, <1>4, <1>5, <1>6 DEF Bases, Ordered
    <2> QED BY <1>4, <1>5, <2>1 DEF Untold, Notes, Records
  <1>9. Ghosts /\ Requests /\ Observed /\ StepsReady /\ ToTell
    BY <1>5 DEF Ghosts, Requests, Observed, StepsReady, ToTell, Publishing, PublishSteps
  <1>10. WasTold
    BY <1>5, <1>7 DEF WasTold, Posted
  <1>11. Telling /\ Handlers /\ Changes /\ Ended
    BY <1>5 DEF Telling, Handlers, Changes, Ended, Publishing, PublishSteps
  <1>12. Leases
    BY <1>5 DEF Leases
  <1> QED BY <1>0, <1>8, <1>9, <1>10, <1>11, <1>12 DEF AttemptInv

\* And is kept by every step.
LEMMA AttemptInvInductive ==
    ASSUME AttemptInv, [AttemptNext]_vars
    PROVE  AttemptInv'
  <1>1. AttemptShapes'
    BY ShapesInductive DEF AttemptInv
  <1>2. Untold' /\ Ghosts'
    BY GhostsKept DEF AttemptInv
  <1>3. Bases' /\ Notes' /\ Records'
    BY BasesKept, NotesKept, RecordsKept DEF AttemptInv
  <1>4. Requests' /\ Observed' /\ StepsReady' /\ ToTell'
    BY RequestsKept, PublicationKept DEF AttemptInv
  <1>5. WasTold' /\ Telling'
    BY WasToldKept, TellingKept DEF AttemptInv
  <1>6. Handlers' /\ Changes' /\ Ended' /\ Leases'
    BY HandlersKept, ChangesKept, LeasesKept DEF AttemptInv
  <1> QED BY <1>1, <1>2, <1>3, <1>4, <1>5, <1>6 DEF AttemptInv

\* A handoff that is told, by a comment or by the shared record, stands for a
\* revision this attempt has on origin and a note there that names the commit
\* beneath it, for any number of crashes, failures, moves of the base and other
\* publications (_validate_handoff_note, _publish_handoff_record).
THEOREM HandoffHasNoteHolds == AttemptSpec => []HandoffHasNote
  <1>1. AttemptInv => HandoffHasNote
    BY DEF AttemptInv, HandoffHasNote, WasTold, Records, SomeNote
  <1> QED BY <1>1, AttemptInvInitial, AttemptInvInductive, PTL DEF AttemptSpec

\* What a result comment says is true: a "complete" has its push, its pull
\* request and, from the attempt itself, its green check; a "success" of a
\* conflict attempt changed the branch of origin (publish, publish_conflict,
\* CompletionEvaluator.evaluate).
THEOREM ResultsTruthfulHolds == AttemptSpec => []ResultsTruthful
  <1>1. AttemptInv => ResultsTruthful
    BY DEF AttemptInv, ResultsTruthful, WasTold, TwoRevisions
  <1> QED BY <1>1, AttemptInvInitial, AttemptInvInductive, PTL DEF AttemptSpec

\* An attempt ends only with its result told, unless it is a conflict attempt
\* whose except clause could not begin its publication either; and, when the
\* attempt itself gets there, with the model's changes on the branch of the
\* clone, after any number of faults and crashes (seal, cleanup, the durable
\* completion boundary of run_once and _reconcile_startup).
THEOREM EndIsSoundHolds == AttemptSpec => []EndIsSound
  <1>1. AttemptInv => EndIsSound
    BY DEF AttemptInv, EndIsSound, Telling, Told, Unbegun, Ended
  <1> QED BY <1>1, AttemptInvInitial, AttemptInvInductive, PTL DEF AttemptSpec

\* Once the claim's revision is recorded, no push of this attempt overwrites
\* what another Worker published (_push_with_claim_lease).
THEOREM OthersWorkKeptHolds == AttemptSpec => OthersWorkKept
  <1>1. AttemptInv /\ [AttemptNext]_vars =>
           [ckpt.known /\ "other" \in remote.work => "other" \in remote'.work]_vars
    BY LeasesKept DEF AttemptInv, Other
  <1> QED BY <1>1, AttemptInvInitial, AttemptInvInductive, PTL DEF AttemptSpec, OthersWorkKept

\* The attempt itself and startup recovery push, for a conflict attempt, only
\* revisions its check was green on (publish_conflict, _reconcile_startup).
THEOREM ConflictPushCheckedHolds == AttemptSpec => ConflictPushChecked
  <1>1. AttemptInv /\ [AttemptNext]_vars =>
           [kind = "conflict" /\ actor # "retry" => own' \ own \subseteq checked]_vars
    <2> SUFFICES ASSUME AttemptInv, [AttemptNext]_vars, kind = "conflict", actor # "retry"
                 PROVE  own' \ own \subseteq checked
      OBVIOUS
    <2>1. own' = own \/ (own' = own \cup {local} /\ pc = "push")
      BY OriginSteps
    <2>2. pc = "push" => local \in checked
      BY DEF AttemptInv, StepsReady, Requests, PublishSteps
    <2> QED BY <2>1, <2>2
  <1> QED BY <1>1, AttemptInvInitial, AttemptInvInductive, PTL DEF AttemptSpec, ConflictPushChecked
=============================================================================
