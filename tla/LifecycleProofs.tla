-------------------------- MODULE LifecycleProofs --------------------------
(***************************************************************************)
(* Theorems about the lifecycle of one agent, for any request ids, any     *)
(* finite set of attempts, any number of crashes and any error limit.      *)
(*                                                                         *)
(* Every step of the lifecycle is a step of the store or leaves it alone   *)
(* (LifecycleUsesStore), so that all theorems about the store hold here.   *)
(* The rest assumes that operators send recovery commands while the loop   *)
(* is idle (IdleRecovery): LifeInv ties the places of the loop and of the  *)
(* recovery thread to what is durable.                                     *)
(***************************************************************************)
EXTENDS Lifecycle, CountdownProofs

-----------------------------------------------------------------------------
(* What the store is called with                                           *)

\* The places of the loop without an attempt of its own.
Attemptless == {"down", "starting", "reconcile", "idle", "prioritized", "fifo"}

\* The arguments of the store's methods are what the store expects.
Named ==
    /\ pc \notin Attemptless => job.att \in Attempts
    /\ pc \in {"fail1", "fail2"} => job.req \in ReqIds
    /\ rpc # "none" => rjob.req \in ReqIds /\ rjob.att \in Attempts
    /\ nextIssue.req # None => nextIssue.number \in Issues

-----------------------------------------------------------------------------
(* Where the threads are                                                   *)

\* The loop works on the attempt of the checkpoint, before the ledger has it,
\* and after.
Opened == {"opened", "prepare", "model", "reprepare", "publish", "hold1", "fail1", "release",
           "cleanup", "hold2", "fail2", "errors", "ledger"}
Entered == {"count", "delete", "recount", "reresolve", "redelete"}

LoopPlaced ==
    /\ pc \in {"prioritized", "fifo"} => checkpoint = NoCheckpoint
    /\ pc \in Opened => checkpoint.att = job.att /\ ledger[job.att] = None
    /\ pc \in Entered => checkpoint.att = job.att
    /\ pc \in Entered \cup {"resolve"} => ledger[job.att] = job.outcome
    /\ pc = "resolve" => checkpoint = NoCheckpoint

\* The recovery thread works on the retained attempt while the loop is idle;
\* once the checkpoint is gone the loop may go on.
RecoveryOpened == {"prepare", "publish", "release", "cleanup", "errors", "ledger"}
RecoveryEntered == {"count", "delete"}

RecoveryPlaced ==
    /\ rpc \in RecoveryOpened \cup RecoveryEntered => pc = "idle" /\ checkpoint.att = rjob.att
    /\ rpc \in RecoveryOpened => ledger[rjob.att] = None
    /\ rpc \in RecoveryEntered \cup {"resolve"} => ledger[rjob.att] = rjob.outcome
    /\ rpc = "resolve" \/ rjob.done => checkpoint.att # rjob.att /\ ledger[rjob.att] # None
    /\ rjob.done => rpc \in {"unflag", "settle"}

\* Recovery commands name attempts, and the one the thread executes waits.
RecoveryAsked ==
    /\ \A r \in ReqIds :
          commands[r].kind \in RecoveryKinds => commands[r].payload \in Attempts
    /\ rpc # "none" => /\ commands[rjob.req].kind \in RecoveryKinds
                       /\ commands[rjob.req].payload = rjob.att
                       /\ commands[rjob.req].ack = "accepted"

-----------------------------------------------------------------------------
(* What is durable                                                         *)

\* An attempt is claimed, announced, released and recorded in this order.
InOrder ==
    /\ checkpoint # NoCheckpoint => checkpoint.att \in started
    /\ comments \subseteq started
    /\ released \subseteq comments
    /\ \A a \in Attempts : ledger[a] # None => a \in released

\* How far the loop and the recovery thread have come with theirs.
LoopAnnounced ==
    /\ pc \in {"hold1", "fail1", "release"} => job.att \in comments
    /\ pc = "cleanup" /\ job.ok /\ ~job.exit => job.att \in released
    /\ pc \in {"hold2", "fail2", "errors", "ledger"} => job.att \in released

RecoveryAnnounced ==
    /\ rpc = "release" => rjob.att \in comments
    /\ rpc \in {"cleanup", "errors", "ledger"} => rjob.att \in released

Announced == LoopAnnounced /\ RecoveryAnnounced

\* The attempts the guard may have counted.
Guardable == {a \in Attempts : ledger[a] # None \/ errors.last = a}

\* The guard counted no attempt twice: the last one it saw is the open one or is
\* finalized.
Guarded ==
    /\ errors.last # None => /\ errors.last \in released
                             /\ ledger[errors.last] # None \/ checkpoint.att = errors.last
    /\ errors.count <= Cardinality(Guardable)

LifeInv ==
    /\ LifeTypeOK /\ PlanInv /\ Named
    /\ LoopPlaced /\ RecoveryPlaced /\ RecoveryAsked
    /\ InOrder /\ Announced /\ Guarded
    /\ NoAttemptLost /\ FinalizedWorkOnly /\ RecoveryTruthful

-----------------------------------------------------------------------------
(* The calls of the store *)

\* The calls that complete no handoff and no recovery command, release no plain
\* stop without a handoff, and count nothing.
QuietCall ==
    \/ UNCHANGED storeVars
    \/ \E r \in ReqIds : \/ OperatorCall(r)
                         \/ MarkHandoffDelivering(r)
                         \/ MarkHandoffBegun(r)
                         \/ FailHandoff(r)
    \/ \E issue \in Issues : CompleteNextIssue(issue)
    \/ FailNextIssue
    \/ EnterStoppingForFinalClaim

\* The other calls, with the place that makes them.
StopCall == checkpoint = NoCheckpoint /\ CompletePendingStop

CountCall ==
    \E a \in Attempts : /\ CountAttempt(a)
                        /\ \/ pc \in {"count", "recount"} /\ a = job.att
                           \/ rpc = "count" /\ a = rjob.att

HandoffCall ==
    \E r \in ReqIds : /\ CompleteHandoff(r)
                      /\ \/ pc \in {"resolve", "reresolve"} /\ job.outcome = "handoff"
                         \/ rpc = "resolve" /\ rjob.outcome = "handoff"

SettleCall ==
    /\ rpc = "settle" /\ rpc' = "none"
    /\ SettleRecovery(rjob.req, IF rjob.done THEN "completed" ELSE "not_fulfilled")

StoreCall == QuietCall \/ StopCall \/ CountCall \/ HandoffCall \/ SettleCall

\* The outcome of _resolve_pending_handoff.
LEMMA ResolveCalls ==
    ASSUME LifeTypeOK, NEW a, NEW outcome, NEW prep, ResolvePendingHandoff(a, outcome, prep)
    PROVE  \/ QuietCall
           \/ outcome = "handoff" /\ \E r \in ReqIds : CompleteHandoff(r)
  <1>1. handoff.req # None => handoff.req \in ReqIds
    BY DEF LifeTypeOK, TypeOK
  <1>2. CASE ~AcceptedHandoff
    BY <1>2 DEF ResolvePendingHandoff, QuietCall
  <1>3. CASE AcceptedHandoff /\ HandoffCause(outcome, prep, FALSE)
    BY <1>1, <1>3 DEF ResolvePendingHandoff, AcceptedHandoff, QuietCall
  <1>4. CASE AcceptedHandoff /\ ~HandoffCause(outcome, prep, FALSE)
    BY <1>1, <1>4 DEF ResolvePendingHandoff, AcceptedHandoff, HandoffCause
  <1> QED BY <1>2, <1>3, <1>4

\* Every step of the lifecycle is one call of the store, or none.
LEMMA StoreCalls ==
    ASSUME LifeTypeOK, Named, [LifeNext]_vars
    PROVE  StoreCall
  <1>t. /\ handoff.req # None => handoff.req \in ReqIds
        /\ latched # None => latched \in ReqIds
        /\ checkpoint.att \in Attempts \cup {None}
    BY DEF LifeTypeOK, TypeOK, NoCheckpoint
  <1>n. /\ pc \in {"count", "recount", "resolve", "reresolve"} => job.att \in Attempts
        /\ pc \in {"fail1", "fail2"} => job.req \in ReqIds
        /\ rpc # "none" => rjob.req \in ReqIds /\ rjob.att \in Attempts
        /\ nextIssue.req # None => nextIssue.number \in Issues
    BY DEF Named, Attemptless
  <1>e. EnterStoppingIfDue => QuietCall
    BY DEF EnterStoppingIfDue, QuietCall
  <1>c. \A a \in Attempts : RecordAttemptFinalized(a) => UNCHANGED storeVars \/ CountAttempt(a)
    BY DEF RecordAttemptFinalized
  <1>1. ASSUME ClaimStep PROVE StoreCall
    <2>1. CASE ClaimPriority
      BY <1>n, <2>1 DEF ClaimPriority, CompleteNextIssue, SettleNextIssue, QuietCall, StoreCall
    <2>2. CASE LosePriority
      BY <2>2 DEF LosePriority, QuietCall, StoreCall
    <2>3. CASE AnnounceFinalClaim
      BY <1>e, <2>3 DEF AnnounceFinalClaim, StoreCall
    <2>4. CASE FinishStop
      <3>1. CASE AcceptedHandoff
        BY <1>t, <2>4, <3>1 DEF FinishStop, AcceptedHandoff, QuietCall, StoreCall
      <3>2. CASE ~AcceptedHandoff
        BY <2>4, <3>2 DEF FinishStop, StopCall, StoreCall
      <3> QED BY <3>1, <3>2
    <2>5. CASE EmptyQueue \/ \E a \in Attempts : StartPrioritized(a) \/ ClaimFifo(a)
      BY <2>5 DEF EmptyQueue, StartPrioritized, ClaimFifo, QuietCall, StoreCall
    <2> QED BY <1>1, <2>1, <2>2, <2>3, <2>4, <2>5 DEF ClaimStep
  <1>2. ASSUME ModelStep PROVE StoreCall
    <2>1. CASE DeliverHandoff
      BY <1>t, <2>1 DEF DeliverHandoff, AcceptedHandoff, QuietCall, StoreCall
    <2>2. CASE BeginHandoff
      BY <1>t, <2>2 DEF BeginHandoff, QuietCall, StoreCall
    <2>3. ASSUME NEW outcome \in Outcomes, NEW note \in Notes, EndModel(outcome, note)
          PROVE  StoreCall
      <3>1. SettleOperatorRequest(outcome, note)
        BY <2>3 DEF EndModel
      <3>2. \/ UNCHANGED storeVars
            \/ AcceptedHandoff /\ FailHandoff(handoff.req)
        BY <3>1 DEF SettleOperatorRequest
      <3> QED BY <1>t, <3>2 DEF AcceptedHandoff, QuietCall, StoreCall
    <2>4. CASE PrepareAttempt \/ PrepareRefused \/ PrepareRaises \/ ModelRaises
      BY <2>4 DEF PrepareAttempt, PrepareRefused, PrepareRaises, ModelRaises, QuietCall, StoreCall
    <2> QED BY <1>2, <2>1, <2>2, <2>3, <2>4 DEF ModelStep
  <1>3. ASSUME BoundaryStep PROVE StoreCall
    <2>1. CASE FailHeldHandoff
      BY <1>n, <2>1 DEF FailHeldHandoff, QuietCall, StoreCall
    <2>2. CASE CountFinalized
      BY <1>n, <1>c, <2>2 DEF CountFinalized, CountCall, QuietCall, StoreCall
    <2>3. CASE ResolveHandoff
      <3>1. pc = "resolve" /\ ResolvePendingHandoff(job.att, job.outcome, job.prep)
        BY <2>3 DEF ResolveHandoff
      <3> QED BY <3>1, ResolveCalls DEF HandoffCall, StoreCall
    <2>4. CASE \/ PublishConfirmed \/ PublishUnconfirmed \/ HoldBeforeRelease \/ ReleaseIssue
               \/ ReleaseRaises \/ Cleanup \/ HoldBeforeCommit \/ RecordErrors
               \/ RecordCompletion \/ RemoveCheckpoint \/ Finish
      BY <2>4 DEF PublishConfirmed, PublishUnconfirmed, HoldBeforeRelease, CheckHold,
                  ReleaseIssue, ReleaseRaises, Cleanup, HoldBeforeCommit, RecordErrors,
                  RecordCompletion, RemoveCheckpoint, Finish, QuietCall, StoreCall
    <2> QED BY <1>3, <2>1, <2>2, <2>3, <2>4 DEF BoundaryStep
  <1>4. ASSUME ReconcileStep PROVE StoreCall
    <2>1. CASE ResolveReplayed
      <3>1. pc = "reresolve" /\ ResolvePendingHandoff(job.att, job.outcome, FALSE)
        BY <2>1 DEF ResolveReplayed
      <3> QED BY <3>1, ResolveCalls DEF HandoffCall, StoreCall
    <2>2. CASE ReconcileInterrupted
      BY <1>e, <2>2 DEF ReconcileInterrupted, StoreCall
    <2>3. CASE ReconcileNothing \/ ReconcileFinalized \/ RemoveReplayed \/ ReprepareAttempt
      BY <2>3 DEF ReconcileNothing, ReconcileFinalized, RemoveReplayed, ReprepareAttempt,
                  QuietCall, StoreCall
    <2> QED BY <1>4, <2>1, <2>2, <2>3 DEF ReconcileStep
  <1>5. ASSUME RecoveryStep PROVE StoreCall
    <2>1. CASE RecoveryCount
      BY <1>n, <1>c, <2>1 DEF RecoveryCount, CountCall, QuietCall, StoreCall
    <2>2. CASE RecoveryResolve
      <3>1. rpc = "resolve" /\ ResolvePendingHandoff(rjob.att, rjob.outcome, TRUE)
        BY <2>2 DEF RecoveryResolve
      <3> QED BY <3>1, ResolveCalls DEF HandoffCall, StoreCall
    <2>3. CASE RecoverySettle
      BY <2>3 DEF RecoverySettle, SettleCall, StoreCall
    <2>4. CASE \/ RecoveryFails \/ RecoveryPrepare \/ RecoveryPublish \/ RecoveryRelease
               \/ RecoveryCleanup \/ RecoveryErrors \/ RecoveryLedger \/ RecoveryDelete
               \/ RecoveryUnflag
      BY <2>4 DEF RecoveryFails, RecoveryPrepare, RecoveryPublish, RecoveryRelease,
                  RecoveryCleanup, RecoveryErrors, RecoveryLedger, RecoveryDelete,
                  RecoveryUnflag, QuietCall, StoreCall
    <2> QED BY <1>5, <2>1, <2>2, <2>3, <2>4 DEF RecoveryStep
  <1>6. ASSUME NEW r \in ReqIds, NEW kind \in RecoveryKinds, NEW a \in Attempts,
               AcceptRecovery(r, kind, a)
        PROVE  StoreCall
    <2>1. SubmitRecovery(r, kind, a) \/ UNCHANGED storeVars
      BY <1>6 DEF AcceptRecovery
    <2> QED BY <2>1 DEF OperatorCall, QuietCall, StoreCall
  <1>7. ASSUME OperatorCommand PROVE StoreCall
    <2>1. PICK r \in ReqIds : \/ CommandStop(r)
                              \/ \E n \in Counts : CommandStopAfter(r, n)
                              \/ CommandResume(r)
                              \/ CommandHandoff(r)
                              \/ \E issue \in Issues : CommandNextIssue(r, issue)
                              \/ CommandErrorsReset(r)
      BY <1>7 DEF OperatorCommand
    <2>2. CASE CommandStop(r)
      BY <1>t, <2>2 DEF CommandStop, OperatorCall, QuietCall, StoreCall
    <2>3. CASE \E n \in Counts : CommandStopAfter(r, n)
      BY <1>t, <2>3 DEF CommandStopAfter, OperatorCall, QuietCall, StoreCall
    <2>4. CASE CommandResume(r)
      <3>1. SubmitResume(r, FALSE)
        BY <2>4 DEF CommandResume, SubmitResume
      <3> QED BY <3>1 DEF OperatorCall, QuietCall, StoreCall
    <2>5. CASE CommandHandoff(r)
      <3>1. SubmitHandoff(r, checkpoint.att, FALSE)
        BY <2>5 DEF CommandHandoff, SubmitHandoff
      <3> QED BY <1>t, <3>1 DEF OperatorCall, QuietCall, StoreCall
    <2>6. CASE \E issue \in Issues : CommandNextIssue(r, issue)
      BY <2>6 DEF CommandNextIssue, OperatorCall, QuietCall, StoreCall
    <2>7. CASE CommandErrorsReset(r)
      BY <2>7 DEF CommandErrorsReset, OperatorCall, QuietCall, StoreCall
    <2> QED BY <2>1, <2>2, <2>3, <2>4, <2>5, <2>6, <2>7
  <1>8. CASE Boot \/ MarkStarted \/ DeadlinePasses \/ RepairTree \/ Crash \/ UNCHANGED vars
    BY <1>8 DEF Boot, MarkStarted, DeadlinePasses, RepairTree, Crash, vars, QuietCall, StoreCall
  <1> QED BY <1>1, <1>2, <1>3, <1>4, <1>5, <1>6, <1>7, <1>8 DEF LifeNext, LoopStep

\* A call is a step of the store.
LEMMA CallsAreSteps ==
    ASSUME LifeTypeOK, Named, StoreCall
    PROVE  [StoreNext]_storeVars
  <1>1. ASSUME QuietCall PROVE [StoreNext]_storeVars
    BY <1>1 DEF QuietCall, StoreNext, LifecycleCall
  <1>2. ASSUME SettleCall PROVE [StoreNext]_storeVars
    <2>1. rjob.req \in ReqIds
      BY <1>2 DEF SettleCall, Named
    <2> QED BY <1>2, <2>1 DEF SettleCall, StoreNext, LifecycleCall
  <1>3. StopCall \/ CountCall \/ HandoffCall => [StoreNext]_storeVars
    BY DEF StopCall, CountCall, HandoffCall, StoreNext, LifecycleCall
  <1> QED BY <1>1, <1>2, <1>3 DEF StoreCall

-----------------------------------------------------------------------------
(* Types *)

CheckpointType == [att : Attempts, phase : CheckpointPhases] \cup {NoCheckpoint}

JobType == [att : Attempts \cup {None}, outcome : Outcomes, ok : BOOLEAN,
            prep : BOOLEAN, req : ReqIds \cup {None}, exit : BOOLEAN]

RecoveryType == [req : ReqIds \cup {None}, att : Attempts \cup {None},
                 outcome : Outcomes, done : BOOLEAN]

\* LifeTypeOK without the store, in three parts.
DurableType ==
    /\ started \subseteq Attempts
    /\ checkpoint \in CheckpointType
    /\ ledger \in [Attempts -> Outcomes \cup {None}]
    /\ comments \subseteq Attempts
    /\ released \subseteq Attempts
    /\ errors \in [count : Nat, last : Attempts \cup {None}]
    /\ tree \in [note : Notes, branch : BOOLEAN, dirty : BOOLEAN]
    /\ verdict \in Outcomes \cup {None}
    /\ owner \in Attempts \cup {None}
    /\ late \in BOOLEAN
    /\ exits \in 0 .. MaxExits

ThreadType ==
    /\ pc \in LoopSteps
    /\ job \in JobType
    /\ latched \in ReqIds \cup {None}
    /\ rpc \in RecoverySteps
    /\ rjob \in RecoveryType

FlagType == processing \in BOOLEAN /\ recovering \in BOOLEAN /\ executing \in BOOLEAN

\* The type invariant by the part of the state it is about.
LEMMA LifeTypeParts == LifeTypeOK <=> TypeOK /\ DurableType /\ ThreadType /\ FlagType
  BY DEF LifeTypeOK, DurableType, ThreadType, FlagType, CheckpointType, JobType, RecoveryType

\* What starts and ends a process is well formed.
LEMMA StartTyped ==
    /\ NoJob \in JobType
    /\ NoRecovery \in RecoveryType
    /\ NoCheckpoint \in CheckpointType
    /\ \A c \in CheckpointType : c = NoCheckpoint <=> c.att = None
  BY NoneAssumption DEF NoJob, JobType, NoRecovery, RecoveryType, NoCheckpoint, CheckpointType,
                        Outcomes

\* attempt_state.transition keeps the attempt.
LEMMA AdvanceKeeps ==
    ASSUME checkpoint \in CheckpointType, NEW p, p \in CheckpointPhases \/ p = checkpoint.phase,
           AdvanceTo(p)
    PROVE  /\ checkpoint' \in CheckpointType
           /\ checkpoint'.att = checkpoint.att
  <1>1. CASE p = checkpoint.phase
    <2>1. checkpoint' = checkpoint
      BY <1>1 DEF AdvanceTo, CheckpointType, NoCheckpoint
    <2> QED BY <2>1
  <1>2. CASE p \in CheckpointPhases /\ checkpoint # NoCheckpoint
    BY <1>2 DEF AdvanceTo, CheckpointType
  <1> QED BY <1>1, <1>2 DEF AdvanceTo

\* The decisions of reconciliation and of a recovery command are outcomes, with
\* a phase the checkpoint may have.
LEMMA DecisionsTyped ==
    /\ \A d \in InferredDecisions :
          d[1] \in Outcomes /\ (d[2] \in CheckpointPhases \/ d[2] = checkpoint.phase)
    /\ \A d \in RecoveryDecisions :
          d[1] \in Outcomes /\ (d[2] \in CheckpointPhases \/ d[2] = checkpoint.phase)
  <1>1. \A d \in InferredDecisions :
           d[1] \in Outcomes /\ (d[2] \in CheckpointPhases \/ d[2] = checkpoint.phase)
    <2>1. CASE checkpoint.phase = "model_running"
      BY <2>1 DEF InferredDecisions, Outcomes, CheckpointPhases
    <2>2. CASE checkpoint.phase = "pushing"
      BY <2>2 DEF InferredDecisions, Outcomes, CheckpointPhases
    <2>3. CASE checkpoint.phase \notin {"model_running", "pushing"}
      BY <2>3 DEF InferredDecisions, Outcomes
    <2> QED BY <2>1, <2>2, <2>3
  <1>2. ASSUME NEW d \in RecoveryDecisions
        PROVE  d[1] \in Outcomes /\ (d[2] \in CheckpointPhases \/ d[2] = checkpoint.phase)
    <2>1. CASE commands[rjob.req].kind = "recovery_retry"
      BY <1>1, <2>1 DEF RecoveryDecisions
    <2>2. CASE commands[rjob.req].kind # "recovery_retry"
      BY <2>2 DEF RecoveryDecisions, Outcomes
    <2> QED BY <2>1, <2>2
  <1> QED BY <1>1, <1>2

\* The guard stays a count and an attempt.
LEMMA GuardTyped ==
    ASSUME DurableType, NEW a \in Attempts, NEW outcome
    PROVE  GuardAfter(a, outcome) \in [count : Nat, last : Attempts \cup {None}]
  <1>1. errors.count + 1 \in Nat /\ 0 \in Nat
    BY DEF DurableType
  <1> QED BY <1>1 DEF GuardAfter, DurableType

LocalType == DurableType /\ ThreadType /\ FlagType

\* Recording an outcome keeps the ledger well formed.
LEMMA LedgerTyped ==
    ASSUME DurableType, NEW a \in Attempts, NEW o \in Outcomes, RecordLedger(a, o)
    PROVE  ledger' \in [Attempts -> Outcomes \cup {None}]
  BY DEF DurableType, RecordLedger

\* The end of a process resets what it alone knew.
LEMMA EndTyped == ProcessEnds => ThreadType' /\ FlagType'
  BY StartTyped DEF ProcessEnds, ThreadType, FlagType, LoopSteps, RecoverySteps

\* Claims.
LEMMA ClaimTyped == LocalType /\ ClaimStep => LocalType'
  <1> SUFFICES ASSUME LocalType, ClaimStep PROVE LocalType'
    OBVIOUS
  <1> USE DEF LocalType, DurableType, ThreadType, FlagType, attemptVars, loopVars, flagVars,
              recoveryVars
  <1>1. ASSUME NEW a \in Attempts, OpenAttempt(a)
        PROVE  /\ started' \subseteq Attempts
               /\ checkpoint' \in CheckpointType
               /\ tree' \in [note : Notes, branch : BOOLEAN, dirty : BOOLEAN]
               /\ verdict' = None
               /\ job' \in JobType
               /\ processing'
               /\ UNCHANGED <<ledger, comments, released, errors>>
    <2>1. [NoJob EXCEPT !.att = a] \in JobType
      BY StartTyped DEF JobType
    <2> QED BY <1>1, <2>1 DEF OpenAttempt, CheckpointType, CheckpointPhases, Notes
  <1>2. ASSUME NEW a \in Attempts, StartPrioritized(a) \/ ClaimFifo(a)
        PROVE  LocalType'
    BY <1>1, <1>2 DEF StartPrioritized, ClaimFifo, LoopSteps
  <1>3. CASE ClaimPriority \/ LosePriority \/ EmptyQueue \/ AnnounceFinalClaim \/ FinishStop
    BY <1>3 DEF ClaimPriority, LosePriority, EmptyQueue, AnnounceFinalClaim, FinishStop, LoopSteps
  <1> QED BY <1>2, <1>3 DEF ClaimStep

\* Preparation and model execution.
LEMMA ModelTyped == TypeOK /\ LocalType /\ ModelStep => LocalType'
  <1> SUFFICES ASSUME TypeOK, LocalType, ModelStep PROVE LocalType'
    OBVIOUS
  <1>t. handoff.req # None => handoff.req \in ReqIds
    BY DEF TypeOK
  <1> USE DEF LocalType, DurableType, ThreadType, FlagType, attemptVars, loopVars, flagVars,
              recoveryVars
  <1>1. CASE PrepareAttempt
    <2>1. checkpoint' \in CheckpointType
      BY <1>1, AdvanceKeeps DEF PrepareAttempt, CheckpointPhases
    <2> QED BY <1>1, <2>1 DEF PrepareAttempt, JobType, LoopSteps
  <1>2. CASE PrepareRefused
    <2>1. job' \in JobType
      BY <1>2 DEF PrepareRefused, JobType
    <2> QED BY <1>2, <2>1 DEF PrepareRefused, LoopSteps
  <1>3. CASE PrepareRaises
    <2>1. PICK p \in {FALSE, ~tree.dirty} :
             /\ tree' = [tree EXCEPT !.branch = p \/ @]
             /\ job' = [job EXCEPT !.prep = p, !.outcome = "error"]
      BY <1>3 DEF PrepareRaises
    <2>2. p \in BOOLEAN
      OBVIOUS
    <2>3. job' \in JobType
      BY <2>1, <2>2 DEF JobType, Outcomes
    <2>4. tree' \in [note : Notes, branch : BOOLEAN, dirty : BOOLEAN]
      BY <2>1, <2>2
    <2> QED BY <1>3, <2>3, <2>4 DEF PrepareRaises, LoopSteps
  <1>4. CASE DeliverHandoff \/ BeginHandoff
    <2>1. latched' \in ReqIds \cup {None}
      BY <1>4, <1>t DEF DeliverHandoff, BeginHandoff, AcceptedHandoff
    <2> QED BY <1>4, <2>1 DEF DeliverHandoff, BeginHandoff
  <1>5. ASSUME NEW outcome \in Outcomes, NEW note \in Notes, EndModel(outcome, note)
        PROVE  LocalType'
    <2>1. PICK p \in PhasesFor(outcome, note) : AdvanceTo(p)
      BY <1>5 DEF EndModel
    <2>2. p \in CheckpointPhases \/ p = checkpoint.phase
      <3>1. CASE outcome \in {"success", "handoff"}
        BY <3>1 DEF PhasesFor, CheckpointPhases
      <3>2. CASE outcome = "incomplete"
        BY <3>2 DEF PhasesFor, CheckpointPhases
      <3>3. CASE outcome = "error"
        BY <3>3 DEF PhasesFor
      <3> QED BY <3>1, <3>2, <3>3 DEF Outcomes
    <2>3. checkpoint' \in CheckpointType
      BY <2>1, <2>2, AdvanceKeeps
    <2> QED BY <1>5, <2>3 DEF EndModel, JobType, LoopSteps
  <1>6. CASE ModelRaises
    BY <1>6 DEF ModelRaises, JobType, LoopSteps, Outcomes
  <1> QED BY <1>1, <1>2, <1>3, <1>4, <1>5, <1>6 DEF ModelStep

\* The completion boundary.
LEMMA BoundaryTyped == TypeOK /\ LocalType /\ Named /\ BoundaryStep => LocalType'
  <1> SUFFICES ASSUME TypeOK, LocalType, Named, BoundaryStep PROVE LocalType'
    OBVIOUS
  <1> USE DEF LocalType, DurableType, ThreadType, FlagType, attemptVars, loopVars, flagVars,
              recoveryVars
  <1>n. pc \notin Attemptless => job.att \in Attempts
    BY DEF Named
  <1>1. CASE PublishConfirmed
    <2>1. PICK o \in PublishedOutcomes(job.outcome) : job' = [job EXCEPT !.outcome = o]
      BY <1>1 DEF PublishConfirmed
    <2>2. o \in Outcomes
      BY DEF PublishedOutcomes, JobType, Outcomes
    <2>3. job' \in JobType
      BY <2>1, <2>2 DEF JobType
    <2> QED BY <1>1, <1>n, <2>3 DEF PublishConfirmed, PostComment, Attemptless, LoopSteps
  <1>2. CASE PublishUnconfirmed
    <2>1. job' \in JobType
      BY <1>2 DEF PublishUnconfirmed, JobType
    <2> QED BY <1>2, <1>n, <2>1 DEF PublishUnconfirmed, PostComment, Attemptless, LoopSteps
  <1>3. CASE HoldBeforeRelease \/ HoldBeforeCommit
    <2>1. pc' \in LoopSteps
      BY <1>3 DEF HoldBeforeRelease, HoldBeforeCommit, CheckHold, LoopSteps
    <2>2. \E r \in {handoff.req, None} : job' = [job EXCEPT !.req = r]
      BY <1>3 DEF HoldBeforeRelease, HoldBeforeCommit, CheckHold
    <2>3. job' \in JobType
      BY <2>2 DEF JobType, TypeOK
    <2> QED BY <1>3, <2>1, <2>3 DEF HoldBeforeRelease, HoldBeforeCommit, CheckHold
  <1>4. CASE FailHeldHandoff
    <2>1. owner' \in Attempts \cup {None}
      BY <1>4 DEF FailHeldHandoff, JobType
    <2> QED BY <1>4, <2>1 DEF FailHeldHandoff, LoopSteps
  <1>5. CASE ReleaseIssue
    BY <1>5, <1>n DEF ReleaseIssue, Attemptless, LoopSteps
  <1>6. CASE ReleaseRaises
    <2>1. job' \in JobType
      BY <1>6 DEF ReleaseRaises, JobType
    <2>2. exits' \in 0 .. MaxExits
      BY <1>6, BoundAssumption DEF ReleaseRaises
    <2> QED BY <1>6, <1>n, <2>1, <2>2 DEF ReleaseRaises, Attemptless, LoopSteps
  <1>7. CASE Cleanup
    <2>1. tree' \in [note : Notes, branch : BOOLEAN, dirty : BOOLEAN]
      BY <1>7 DEF Cleanup, LeaveBranch
    <2>2. pc' \in LoopSteps
      BY <1>7 DEF Cleanup, LoopSteps
    <2> QED BY <1>7, <2>1, <2>2 DEF Cleanup
  <1>8. CASE RecordErrors
    <2>1. job.att \in Attempts
      BY <1>8, <1>n DEF RecordErrors, Attemptless
    <2>2. errors' \in [count : Nat, last : Attempts \cup {None}]
      BY <1>8, <2>1, GuardTyped DEF RecordErrors
    <2>3. ThreadType' /\ FlagType'
      <3>1. CASE ProcessEnds
        BY <3>1, EndTyped
      <3>2. CASE pc' = "ledger" /\ UNCHANGED <<job, latched, flagVars, recoveryVars>>
        BY <3>2 DEF LoopSteps
      <3> QED BY <1>8, <3>1, <3>2 DEF RecordErrors
    <2> QED BY <1>8, <2>2, <2>3 DEF RecordErrors
  <1>9. CASE RecordCompletion
    <2>1. job.att \in Attempts /\ job.outcome \in Outcomes
      BY <1>9, <1>n DEF RecordCompletion, Attemptless, JobType
    <2>2. ledger' \in [Attempts -> Outcomes \cup {None}]
      BY <1>9, <2>1, LedgerTyped DEF RecordCompletion
    <2> QED BY <1>9, <2>2 DEF RecordCompletion, LoopSteps
  <1>10. CASE CountFinalized \/ RemoveCheckpoint
    BY <1>10, StartTyped DEF CountFinalized, RemoveCheckpoint, DeleteCheckpoint, LoopSteps
  <1>11. CASE ResolveHandoff
    <2>1. owner' \in {owner, job.att}
      BY <1>11 DEF ResolveHandoff, ResolvePendingHandoff
    <2> QED BY <1>11, <2>1 DEF ResolveHandoff, LoopSteps, JobType
  <1>12. CASE Finish
    <2>1. ThreadType' /\ FlagType'
      <3>1. CASE job.exit
        BY <1>12, <3>1, EndTyped DEF Finish
      <3>2. CASE ~job.exit
        BY <1>12, <3>2, StartTyped DEF Finish, LoopSteps
      <3> QED BY <3>1, <3>2
    <2> QED BY <1>12, <2>1 DEF Finish
  <1> QED BY <1>1, <1>2, <1>3, <1>4, <1>5, <1>6, <1>7, <1>8, <1>9, <1>10, <1>11, <1>12
          DEF BoundaryStep

\* Startup reconciliation.
LEMMA ReconcileTyped == LocalType /\ ReconcileStep => LocalType'
  <1> SUFFICES ASSUME LocalType, ReconcileStep PROVE LocalType'
    OBVIOUS
  <1> USE DEF LocalType, DurableType, ThreadType, FlagType, attemptVars, loopVars, flagVars,
              recoveryVars
  <1>1. CASE ReconcileNothing
    BY <1>1 DEF ReconcileNothing, LoopSteps
  <1>2. CASE ReconcileFinalized
    <2>1. checkpoint.att \in Attempts
      BY <1>2 DEF ReconcileFinalized, CheckpointType
    <2>2. ledger[checkpoint.att] \in Outcomes
      BY <1>2, <2>1 DEF ReconcileFinalized
    <2>3. job' \in JobType
      BY <1>2, <2>1, <2>2, StartTyped DEF ReconcileFinalized, JobType
    <2> QED BY <1>2, <2>3 DEF ReconcileFinalized, LoopSteps
  <1>3. CASE ResolveReplayed
    <2>1. owner' \in Attempts \cup {None}
      BY <1>3 DEF ResolveReplayed, ResolvePendingHandoff, JobType
    <2>2. /\ pc' \in {"idle", "redelete"}
          /\ job' \in {NoJob, job}
          /\ recovering' = FALSE \/ recovering' = recovering
      BY <1>3 DEF ResolveReplayed
    <2>3. pc' \in LoopSteps /\ job' \in JobType
      BY <2>2, StartTyped DEF LoopSteps
    <2>4. recovering' \in BOOLEAN
      BY <2>2
    <2> QED BY <1>3, <2>1, <2>3, <2>4 DEF ResolveReplayed
  <1>4. CASE RemoveReplayed
    BY <1>4, StartTyped DEF RemoveReplayed, DeleteCheckpoint, LoopSteps
  <1>5. CASE ReconcileInterrupted
    <2>1. checkpoint.att \in Attempts
      BY <1>5 DEF ReconcileInterrupted, CheckpointType
    <2>2. job' \in JobType
      BY <1>5, <2>1, StartTyped DEF ReconcileInterrupted, JobType
    <2> QED BY <1>5, <2>2 DEF ReconcileInterrupted, LoopSteps
  <1>6. CASE ReprepareAttempt
    <2>1. PICK d \in InferredDecisions :
             /\ AdvanceTo(d[2])
             /\ job' = [job EXCEPT !.prep = TRUE, !.outcome = d[1]]
      BY <1>6 DEF ReprepareAttempt
    <2>2. d[1] \in Outcomes /\ checkpoint' \in CheckpointType
      BY <2>1, DecisionsTyped, AdvanceKeeps
    <2>3. job' \in JobType
      BY <2>1, <2>2 DEF JobType
    <2> QED BY <1>6, <2>2, <2>3 DEF ReprepareAttempt, LoopSteps
  <1> QED BY <1>1, <1>2, <1>3, <1>4, <1>5, <1>6 DEF ReconcileStep

\* Recovery commands.
LEMMA RecoveryTyped == LocalType /\ Named /\ RecoveryStep => LocalType'
  <1> SUFFICES ASSUME LocalType, Named, RecoveryStep PROVE LocalType'
    OBVIOUS
  <1> USE DEF LocalType, DurableType, ThreadType, FlagType, attemptVars, loopVars, flagVars,
              recoveryVars
  <1>n. rpc # "none" => rjob.att \in Attempts
    BY DEF Named
  <1>1. CASE RecoveryFails
    <2>1. comments' \subseteq Attempts /\ released' \subseteq Attempts
      BY <1>1, <1>n DEF RecoveryFails, PostComment
    <2> QED BY <1>1, <2>1 DEF RecoveryFails, RecoverySteps
  <1>2. CASE RecoveryPrepare
    <2>1. PICK d \in RecoveryDecisions :
             /\ AdvanceTo(d[2])
             /\ rjob' = [rjob EXCEPT !.outcome = d[1]]
      BY <1>2 DEF RecoveryPrepare
    <2>2. d[1] \in Outcomes /\ checkpoint' \in CheckpointType
      BY <2>1, DecisionsTyped, AdvanceKeeps
    <2>3. rjob' \in RecoveryType
      BY <2>1, <2>2 DEF RecoveryType
    <2> QED BY <1>2, <2>2, <2>3 DEF RecoveryPrepare, RecoverySteps
  <1>3. CASE RecoveryPublish
    <2>1. PICK o \in Outcomes : rjob' = [rjob EXCEPT !.outcome = o]
      BY <1>3 DEF RecoveryPublish, PublishedOutcomes, RecoveryType, Outcomes
    <2>2. rjob' \in RecoveryType
      BY <2>1 DEF RecoveryType
    <2> QED BY <1>3, <1>n, <2>2 DEF RecoveryPublish, PostComment, RecoverySteps
  <1>4. CASE RecoveryRelease
    BY <1>4, <1>n DEF RecoveryRelease, RecoverySteps
  <1>5. CASE RecoveryCleanup
    <2>1. tree' \in [note : Notes, branch : BOOLEAN, dirty : BOOLEAN]
      BY <1>5 DEF RecoveryCleanup, LeaveBranch
    <2> QED BY <1>5, <2>1 DEF RecoveryCleanup, RecoverySteps
  <1>6. CASE RecoveryErrors
    <2>1. errors' \in [count : Nat, last : Attempts \cup {None}]
      BY <1>6, <1>n, GuardTyped DEF RecoveryErrors
    <2>2. rpc' \in RecoverySteps
      BY <1>6 DEF RecoveryErrors, RecoverySteps
    <2> QED BY <1>6, <2>1, <2>2 DEF RecoveryErrors
  <1>7. CASE RecoveryLedger
    <2>1. rjob.outcome \in Outcomes
      BY DEF RecoveryType
    <2>2. ledger' \in [Attempts -> Outcomes \cup {None}]
      BY <1>7, <1>n, <2>1, LedgerTyped DEF RecoveryLedger
    <2> QED BY <1>7, <2>2 DEF RecoveryLedger, RecoverySteps
  <1>8. CASE RecoveryCount \/ RecoveryDelete \/ RecoveryUnflag
    BY <1>8, StartTyped DEF RecoveryCount, RecoveryDelete, DeleteCheckpoint, RecoveryUnflag,
                            RecoverySteps
  <1>9. CASE RecoveryResolve
    <2>1. owner' \in Attempts \cup {None}
      BY <1>9 DEF RecoveryResolve, ResolvePendingHandoff, RecoveryType
    <2>2. rjob' \in RecoveryType
      BY <1>9 DEF RecoveryResolve, RecoveryType
    <2> QED BY <1>9, <2>1, <2>2 DEF RecoveryResolve, RecoverySteps
  <1>10. CASE RecoverySettle
    BY <1>10, StartTyped DEF RecoverySettle, RecoverySteps
  <1> QED BY <1>1, <1>2, <1>3, <1>4, <1>5, <1>6, <1>7, <1>8, <1>9, <1>10 DEF RecoveryStep

\* Processes, commands and the environment.
LEMMA OtherTyped ==
    /\ LocalType /\ (Boot \/ MarkStarted \/ DeadlinePasses \/ RepairTree \/ Crash) => LocalType'
    /\ \A r \in ReqIds, kind \in RecoveryKinds, a \in Attempts :
          LocalType /\ AcceptRecovery(r, kind, a) => LocalType'
    /\ LocalType /\ OperatorCommand => LocalType'
  <1> USE DEF LocalType, DurableType, ThreadType, FlagType, attemptVars, loopVars, flagVars,
              recoveryVars
  <1>1. ASSUME LocalType, Boot \/ MarkStarted \/ DeadlinePasses \/ RepairTree PROVE LocalType'
    <2>1. CASE Boot
      BY <1>1, <2>1 DEF Boot, LoopSteps
    <2>2. CASE MarkStarted
      BY <1>1, <2>2 DEF MarkStarted, LoopSteps
    <2>3. CASE DeadlinePasses
      BY <1>1, <2>3 DEF DeadlinePasses
    <2>4. CASE RepairTree
      BY <1>1, <2>4 DEF RepairTree
    <2> QED BY <1>1, <2>1, <2>2, <2>3, <2>4
  <1>2. ASSUME LocalType, Crash PROVE LocalType'
    <2>1. tree' \in [note : Notes, branch : BOOLEAN, dirty : BOOLEAN]
      BY <1>2 DEF Crash
    <2>2. exits' \in 0 .. MaxExits
      BY <1>2, BoundAssumption DEF Crash
    <2>3. ThreadType' /\ FlagType'
      BY <1>2, EndTyped DEF Crash
    <2> QED BY <1>2, <2>1, <2>2, <2>3 DEF Crash
  <1>3. ASSUME NEW r \in ReqIds, NEW kind \in RecoveryKinds, NEW a \in Attempts,
               LocalType, AcceptRecovery(r, kind, a)
        PROVE  LocalType'
    <2>1. rjob' \in RecoveryType
      BY <1>3, StartTyped DEF AcceptRecovery, RecoveryType
    <2> QED BY <1>3, <2>1 DEF AcceptRecovery, RecoverySteps
  <1>4. ASSUME LocalType, OperatorCommand PROVE LocalType'
    <2>1. /\ errors' \in {errors, [errors EXCEPT !.count = 0]}
          /\ owner' \in {owner, None}
          /\ late' = late \/ late' = FALSE
      BY <1>4 DEF OperatorCommand, CommandStop, CommandStopAfter, CommandResume, CommandHandoff,
                  CommandNextIssue, CommandErrorsReset
    <2>2. errors' \in [count : Nat, last : Attempts \cup {None}]
      BY <1>4, <2>1
    <2> QED BY <1>4, <2>1, <2>2 DEF OperatorCommand
  <1> QED BY <1>1, <1>2, <1>3, <1>4

\* The inductive step of the types.
LEMMA LifeTypeStep ==
    ASSUME LifeTypeOK, Named, [LifeNext]_vars
    PROVE  LifeTypeOK'
  <1>1. TypeOK'
    BY StoreCalls, CallsAreSteps, TypeStep DEF LifeTypeOK
  <1>2. TypeOK /\ LocalType
    BY LifeTypeParts DEF LocalType
  <1>3. ASSUME UNCHANGED vars PROVE LocalType'
    <2>1. DurableType'
      BY <1>2, <1>3 DEF vars, LocalType, DurableType, attemptVars
    <2>2. ThreadType'
      BY <1>2, <1>3 DEF vars, LocalType, ThreadType, loopVars, recoveryVars
    <2>3. FlagType'
      <3>1. flagVars' = flagVars
        BY <1>3 DEF vars
      <3>2. processing' = processing /\ recovering' = recovering /\ executing' = executing
        BY <3>1 DEF flagVars
      <3> QED BY <1>2, <3>2 DEF LocalType, FlagType
    <2> QED BY <2>1, <2>2, <2>3 DEF LocalType
  <1>4. ASSUME LifeNext PROVE LocalType'
    <2>1. LoopStep => LocalType'
      BY <1>2, ClaimTyped, ModelTyped, BoundaryTyped, ReconcileTyped, OtherTyped, Zenon
         DEF LoopStep
    <2>2. RecoveryStep => LocalType'
      BY <1>2, RecoveryTyped
    <2>3. (\E r \in ReqIds, kind \in RecoveryKinds, a \in Attempts : AcceptRecovery(r, kind, a))
             => LocalType'
      BY <1>2, OtherTyped
    <2>4. OperatorCommand \/ DeadlinePasses \/ RepairTree \/ Crash => LocalType'
      BY <1>2, OtherTyped
    <2> QED BY <1>4, <2>1, <2>2, <2>3, <2>4 DEF LifeNext
  <1>5. (TypeOK /\ LocalType)' => LifeTypeOK'
    BY LifeTypeParts, PTL DEF LocalType
  <1> QED BY <1>1, <1>2, <1>3, <1>4, <1>5

-----------------------------------------------------------------------------
(* The lifecycle uses the store as the store expects *)

\* Named, one part at a time.
JobNamed ==
    /\ pc \notin Attemptless => job.att \in Attempts
    /\ pc \in {"fail1", "fail2"} => job.req \in ReqIds

RecoveryNamed == rpc # "none" => rjob.req \in ReqIds /\ rjob.att \in Attempts

PriorityNamed == nextIssue.req # None => nextIssue.number \in Issues

\* Only the loop, and the end of the process, move the loop.
LEMMA LoopKept ==
    ASSUME \/ RecoveryStep \/ OperatorCommand \/ DeadlinePasses \/ RepairTree \/ UNCHANGED vars
           \/ \E r \in ReqIds, kind \in RecoveryKinds, a \in Attempts : AcceptRecovery(r, kind, a)
    PROVE  UNCHANGED <<pc, job>>
  BY DEF RecoveryStep, RecoveryFails, RecoveryPrepare, RecoveryPublish, RecoveryRelease,
         RecoveryCleanup, RecoveryErrors, RecoveryLedger, RecoveryCount, RecoveryDelete,
         RecoveryResolve, RecoveryUnflag, RecoverySettle, OperatorCommand, DeadlinePasses,
         RepairTree, AcceptRecovery, vars, loopVars

\* The loop takes its attempt from the claim or from the checkpoint.
LEMMA JobNamedStep ==
    ASSUME LifeTypeOK, JobNamed, [LifeNext]_vars
    PROVE  JobNamed'
  <1> USE DEF JobNamed, Attemptless
  <1>t. /\ checkpoint \in CheckpointType /\ job \in JobType
        /\ handoff.req # None => handoff.req \in ReqIds
    BY DEF LifeTypeOK, TypeOK, CheckpointType, JobType
  <1>1. ASSUME ClaimStep PROVE JobNamed'
    <2>1. ASSUME NEW a \in Attempts, StartPrioritized(a) \/ ClaimFifo(a)
          PROVE  JobNamed'
      BY <2>1 DEF StartPrioritized, ClaimFifo, OpenAttempt, NoJob
    <2>2. CASE ClaimPriority \/ LosePriority \/ EmptyQueue \/ AnnounceFinalClaim \/ FinishStop
      BY <2>2 DEF ClaimPriority, LosePriority, EmptyQueue, AnnounceFinalClaim, FinishStop, loopVars
    <2> QED BY <1>1, <2>1, <2>2 DEF ClaimStep
  <1>2. ASSUME ModelStep PROVE JobNamed'
    <2>1. pc \in {"prepare", "model", "reprepare"}
      BY <1>2 DEF ModelStep, PrepareAttempt, PrepareRefused, PrepareRaises, DeliverHandoff,
                  BeginHandoff, EndModel, ModelRaises
    <2>2. job'.att = job.att
      BY <1>2, <1>t DEF ModelStep, PrepareAttempt, PrepareRefused, PrepareRaises, DeliverHandoff,
                  BeginHandoff, EndModel, ModelRaises, loopVars, JobType
    <2>3. pc' \notin {"fail1", "fail2"}
      BY <1>2, <2>1 DEF ModelStep, PrepareAttempt, PrepareRefused, PrepareRaises, DeliverHandoff,
                  BeginHandoff, EndModel, ModelRaises, loopVars
    <2> QED BY <2>1, <2>2, <2>3
  <1>3. ASSUME BoundaryStep PROVE JobNamed'
    <2>1. CASE HoldBeforeRelease \/ HoldBeforeCommit
      <3>1. /\ job.att \in Attempts
            /\ job'.att = job.att
            /\ pc' \in {"fail1", "fail2"} => AcceptedHandoff /\ job'.req = handoff.req
        BY <1>t, <2>1 DEF HoldBeforeRelease, HoldBeforeCommit, CheckHold, JobType
      <3> QED BY <1>t, <3>1 DEF AcceptedHandoff
    <2>2. CASE Finish \/ RecordErrors
      BY <2>2 DEF Finish, RecordErrors, ProcessEnds
    <2>3. CASE \/ PublishConfirmed \/ PublishUnconfirmed \/ ReleaseIssue \/ ReleaseRaises
               \/ Cleanup \/ RecordCompletion \/ CountFinalized \/ RemoveCheckpoint
               \/ ResolveHandoff \/ FailHeldHandoff
      <3>1. job.att \in Attempts
        BY <2>3 DEF PublishConfirmed, PublishUnconfirmed, ReleaseIssue, ReleaseRaises, Cleanup,
                    RecordCompletion, CountFinalized, RemoveCheckpoint, ResolveHandoff,
                    FailHeldHandoff
      <3>2. job'.att = job.att
        BY <1>t, <2>3 DEF PublishConfirmed, PublishUnconfirmed, ReleaseIssue, ReleaseRaises,
                    Cleanup, RecordCompletion, CountFinalized, RemoveCheckpoint, ResolveHandoff,
                    FailHeldHandoff, JobType
      <3>3. pc' \notin {"fail1", "fail2"}
        BY <2>3 DEF PublishConfirmed, PublishUnconfirmed, ReleaseIssue, ReleaseRaises, Cleanup,
                    RecordCompletion, CountFinalized, RemoveCheckpoint, ResolveHandoff,
                    FailHeldHandoff
      <3> QED BY <3>1, <3>2, <3>3
    <2> QED BY <1>3, <2>1, <2>2, <2>3 DEF BoundaryStep
  <1>4. ASSUME ReconcileStep PROVE JobNamed'
    <2>1. CASE ReconcileFinalized \/ ReconcileInterrupted
      <3>1. checkpoint.att \in Attempts
        BY <1>t, <2>1 DEF ReconcileFinalized, ReconcileInterrupted, CheckpointType
      <3>2. job'.att = checkpoint.att /\ pc' \in {"recount", "reprepare"}
        BY <2>1 DEF ReconcileFinalized, ReconcileInterrupted, NoJob
      <3> QED BY <3>1, <3>2
    <2>2. CASE ReconcileNothing \/ RemoveReplayed
      BY <2>2 DEF ReconcileNothing, RemoveReplayed
    <2>3. CASE ReprepareAttempt \/ ResolveReplayed
      <3>1. job.att \in Attempts
        BY <2>3 DEF ReprepareAttempt, ResolveReplayed
      <3>2. pc' \in {"publish", "redelete", "idle"} /\ (pc' = "idle" \/ job'.att = job.att)
        BY <1>t, <2>3 DEF ReprepareAttempt, ResolveReplayed, JobType
      <3> QED BY <3>1, <3>2
    <2> QED BY <1>4, <2>1, <2>2, <2>3 DEF ReconcileStep
  <1>5. CASE Boot \/ MarkStarted \/ Crash
    BY <1>5 DEF Boot, MarkStarted, Crash, ProcessEnds
  <1>6. CASE UNCHANGED <<pc, job>>
    BY <1>6
  <1> QED BY <1>1, <1>2, <1>3, <1>4, <1>5, <1>6, LoopKept DEF LifeNext, LoopStep

\* What the loop does leaves the recovery thread alone, unless the process ends.
LEMMA LoopAlone ==
    ASSUME LoopStep
    PROVE  ProcessEnds \/ UNCHANGED recoveryVars
  <1>1. ASSUME ClaimStep PROVE UNCHANGED recoveryVars
    BY <1>1 DEF ClaimStep, ClaimPriority, LosePriority, EmptyQueue, AnnounceFinalClaim, FinishStop,
                StartPrioritized, ClaimFifo
  <1>2. ASSUME ModelStep PROVE UNCHANGED recoveryVars
    BY <1>2 DEF ModelStep, PrepareAttempt, PrepareRefused, PrepareRaises, DeliverHandoff,
                BeginHandoff, EndModel, ModelRaises
  <1>3. ASSUME BoundaryStep PROVE ProcessEnds \/ UNCHANGED recoveryVars
    BY <1>3 DEF BoundaryStep, PublishConfirmed, PublishUnconfirmed, HoldBeforeRelease, CheckHold,
                FailHeldHandoff, ReleaseIssue, ReleaseRaises, Cleanup, HoldBeforeCommit,
                RecordErrors, RecordCompletion, CountFinalized, RemoveCheckpoint, ResolveHandoff,
                Finish
  <1>4. ASSUME ReconcileStep PROVE UNCHANGED recoveryVars
    BY <1>4 DEF ReconcileStep, ReconcileNothing, ReconcileFinalized, ResolveReplayed,
                RemoveReplayed, ReconcileInterrupted, ReprepareAttempt
  <1>5. CASE Boot \/ MarkStarted
    BY <1>5 DEF Boot, MarkStarted
  <1> QED BY <1>1, <1>2, <1>3, <1>4, <1>5 DEF LoopStep

\* Everything else but the recovery thread and its start leaves it alone, too.
LEMMA OthersAlone ==
    /\ OperatorCommand \/ DeadlinePasses \/ RepairTree \/ UNCHANGED vars => UNCHANGED recoveryVars
    /\ Crash => ProcessEnds
  BY DEF OperatorCommand, DeadlinePasses, RepairTree, Crash, vars

\* The recovery thread keeps its request and its attempt to its end.
LEMMA RecoveryKeeps ==
    ASSUME rjob \in RecoveryType, RecoveryStep
    PROVE  /\ rpc # "none"
           /\ \/ rpc = "settle" /\ rpc' = "none" /\ rjob' = NoRecovery
              \/ rpc' # "none" /\ rjob'.req = rjob.req /\ rjob'.att = rjob.att
  <1>1. CASE RecoveryPrepare \/ RecoveryPublish \/ RecoveryResolve
    BY <1>1 DEF RecoveryPrepare, RecoveryPublish, RecoveryResolve, RecoveryType
  <1>2. CASE RecoveryErrors
    BY <1>2 DEF RecoveryErrors
  <1>3. CASE RecoverySettle
    BY <1>3 DEF RecoverySettle
  <1>4. CASE \/ RecoveryFails \/ RecoveryRelease \/ RecoveryCleanup \/ RecoveryLedger
             \/ RecoveryCount \/ RecoveryDelete \/ RecoveryUnflag
    BY <1>4 DEF RecoveryFails, RecoveryRelease, RecoveryCleanup, RecoveryLedger, RecoveryCount,
                RecoveryDelete, RecoveryUnflag
  <1> QED BY <1>1, <1>2, <1>3, <1>4 DEF RecoveryStep

\* The recovery thread has a request and an attempt while it runs.
LEMMA RecoveryNamedStep ==
    ASSUME LifeTypeOK, RecoveryNamed, [LifeNext]_vars
    PROVE  RecoveryNamed'
  <1> USE DEF RecoveryNamed
  <1>1. CASE ProcessEnds \/ UNCHANGED recoveryVars
    BY <1>1 DEF ProcessEnds, recoveryVars
  <1>2. CASE RecoveryStep
    <2>1. rjob \in RecoveryType
      BY DEF LifeTypeOK, RecoveryType
    <2> QED BY <1>2, <2>1, RecoveryKeeps
  <1>3. ASSUME NEW r \in ReqIds, NEW kind \in RecoveryKinds, NEW a \in Attempts,
               AcceptRecovery(r, kind, a)
        PROVE  RecoveryNamed'
    BY <1>3 DEF AcceptRecovery, NoRecovery
  <1> QED BY <1>1, <1>2, <1>3, LoopAlone, OthersAlone DEF LifeNext

\* A priority names an issue.
LEMMA PriorityNamedStep ==
    ASSUME TypeOK, PlanFacts, PriorityNamed, [StoreNext]_storeVars
    PROVE  PriorityNamed'
  <1>1. CASE nextIssue' = nextIssue
    BY <1>1 DEF PriorityNamed
  <1>2. CASE \E r \in ReqIds, issue \in Issues : SubmitNextIssue(r, issue)
    BY <1>2 DEF SubmitNextIssue, PriorityNamed
  <1>3. CASE \E ack \in Acks \ {"accepted"} : SettleNextIssue(ack)
    BY <1>3 DEF SettleNextIssue, NoNextIssue, PriorityNamed
  <1> QED BY <1>1, <1>2, <1>3, PriorityAlone

\* The invariant of every lifecycle, with recovery commands at any time.
CallInv == LifeTypeOK /\ PlanInv /\ Named

\* No call is under way when the process has not started.
LEMMA CallInvInit == LifeInit => CallInv
  <1> SUFFICES ASSUME LifeInit PROVE CallInv
    OBVIOUS
  <1>1. TypeOK
    BY SizeAssumption DEF LifeInit, StoreInit, TypeOK, NoPlan, NoNextIssue, NoHandoff, Intakes
  <1>2. PlanFacts
    BY NoneAssumption DEF LifeInit, StoreInit, PlanFacts, NoPlan, NoNextIssue, NoHandoff, NoCommand
  <1>3. DurableType /\ ThreadType /\ FlagType
    <2>1. 0 \in 0 .. MaxExits
      BY BoundAssumption
    <2>2. DurableType
      BY <2>1, StartTyped DEF LifeInit, DurableType, Notes
    <2>3. ThreadType
      BY StartTyped DEF LifeInit, ThreadType, LoopSteps, RecoverySteps
    <2>4. FlagType
      BY DEF LifeInit, FlagType
    <2> QED BY <2>2, <2>3, <2>4
  <1>4. Named
    BY DEF LifeInit, StoreInit, Named, Attemptless, NoNextIssue
  <1> QED BY <1>1, <1>2, <1>3, <1>4, PlanFactsEquiv, LifeTypeParts DEF CallInv

\* Every step keeps the types and is a step of the store, or leaves it alone.
LEMMA CallInvStep == CallInv /\ [LifeNext]_vars => CallInv' /\ [StoreNext]_storeVars
  <1> SUFFICES ASSUME CallInv, [LifeNext]_vars PROVE CallInv' /\ [StoreNext]_storeVars
    OBVIOUS
  <1>1. LifeTypeOK /\ TypeOK /\ PlanFacts /\ Named
    BY PlanFactsEquiv DEF CallInv, LifeTypeOK
  <1>2. [StoreNext]_storeVars
    BY <1>1, StoreCalls, CallsAreSteps
  <1>3. LifeTypeOK'
    BY <1>1, LifeTypeStep
  <1>4. TypeOK' /\ PlanFacts'
    BY <1>1, <1>2, TypeStep, PlanStep
  <1>5. PlanInv'
    BY <1>4, PlanFactsEquiv, PTL
  <1>6. JobNamed' /\ RecoveryNamed' /\ PriorityNamed'
    BY <1>1, <1>2, JobNamedStep, RecoveryNamedStep, PriorityNamedStep
       DEF Named, JobNamed, RecoveryNamed, PriorityNamed
  <1> QED BY <1>2, <1>3, <1>5, <1>6 DEF CallInv, Named, JobNamed, RecoveryNamed, PriorityNamed

\* The types, the plan and the arguments of the calls, in every reachable state.
LEMMA CallInvariant == LifeSpec => []CallInv
  BY CallInvInit, CallInvStep, PTL DEF LifeSpec

\* Type correctness of the lifecycle with its store, whenever operators send
\* their commands.
THEOREM LifeTypeHolds == LifeSpec => []LifeTypeOK
  <1>1. CallInv => LifeTypeOK
    BY DEF CallInv
  <1> QED BY <1>1, CallInvariant, PTL

\* Composed with the loop, the recovery thread and crashes, the store behaves
\* like the store with free callers: what is proved of it holds here.
THEOREM LifecycleUsesStore == LifeSpec => StoreSpec
  <1>1. LifeInit => StoreInit
    BY DEF LifeInit
  <1>2. CallInv /\ [LifeNext]_vars => [StoreNext]_storeVars
    BY CallInvStep
  <1> QED BY <1>1, <1>2, CallInvariant, PTL DEF LifeSpec, StoreSpec

-----------------------------------------------------------------------------
(* What a step does to the attempts *)

\* Nothing, or the phase of the checkpoint.
AttemptsKept ==
    /\ checkpoint'.att = checkpoint.att
    /\ UNCHANGED <<started, ledger, comments, released, errors>>

Opens(a) ==
    /\ checkpoint.att = None
    /\ a \notin started
    /\ started' = started \cup {a}
    /\ checkpoint'.att = a
    /\ UNCHANGED <<ledger, comments, released, errors>>

\* The step is about the open attempt, not finalized yet.
WorksOn(a) == checkpoint.att = a /\ checkpoint'.att = a /\ ledger[a] = None

Posts(a) ==
    /\ WorksOn(a)
    /\ comments' = comments \cup {a}
    /\ UNCHANGED <<started, ledger, released, errors>>

Frees(a) ==
    /\ WorksOn(a)
    /\ a \in comments
    /\ released' = released \cup {a}
    /\ UNCHANGED <<started, ledger, comments, errors>>

Guards(a, o) ==
    /\ WorksOn(a)
    /\ a \in released
    /\ errors' = GuardAfter(a, o)
    /\ UNCHANGED <<started, ledger, comments, released>>

Finalizes(a, o) ==
    /\ WorksOn(a)
    /\ a \in released
    /\ ledger' = [ledger EXCEPT ![a] = o]
    /\ UNCHANGED <<started, comments, released, errors>>

Closes(a) ==
    /\ checkpoint.att = a
    /\ ledger[a] # None
    /\ checkpoint'.att = None
    /\ UNCHANGED <<started, ledger, comments, released, errors>>

Resets ==
    /\ errors' = [errors EXCEPT !.count = 0]
    /\ checkpoint'.att = checkpoint.att
    /\ UNCHANGED <<started, ledger, comments, released>>

AttemptEffect ==
    \/ AttemptsKept
    \/ Resets
    \/ \E a \in Attempts : \/ Opens(a) \/ Posts(a) \/ Frees(a) \/ Closes(a)
                           \/ \E o \in Outcomes : Guards(a, o) \/ Finalizes(a, o)

\* Each step of either thread is one such step, or none.
LEMMA LifeEffects ==
    ASSUME LifeTypeOK, Named, LoopPlaced, RecoveryPlaced, Announced, [LifeNext]_vars
    PROVE  AttemptEffect
  <1>t. /\ checkpoint \in CheckpointType /\ job \in JobType /\ rjob \in RecoveryType
        /\ ledger \in [Attempts -> Outcomes \cup {None}]
    BY DEF LifeTypeOK, CheckpointType, JobType, RecoveryType
  <1>c. NoCheckpoint.att = None /\ (checkpoint = NoCheckpoint <=> checkpoint.att = None)
    BY <1>t, StartTyped DEF NoCheckpoint
  <1>o. job.outcome \in Outcomes /\ rjob.outcome \in Outcomes /\ None \notin Outcomes
    BY <1>t, OutcomeAssumption DEF JobType, RecoveryType
  <1>j. pc \notin Attemptless => job.att \in Attempts
    BY DEF Named
  <1>l. /\ pc \in {"publish", "release", "errors", "ledger"} =>
              job.att \in Attempts /\ checkpoint.att = job.att /\ ledger[job.att] = None
        /\ pc \in {"delete", "redelete"} =>
              job.att \in Attempts /\ checkpoint.att = job.att /\ ledger[job.att] # None
        /\ pc = "release" => job.att \in comments
        /\ pc \in {"errors", "ledger"} => job.att \in released
        /\ pc \in {"prioritized", "fifo"} => checkpoint = NoCheckpoint
    BY <1>o, <1>j DEF LoopPlaced, Opened, Entered, Announced, LoopAnnounced, Attemptless
  <1>r. /\ rpc \in {"publish", "release", "errors", "ledger"} =>
              rjob.att \in Attempts /\ checkpoint.att = rjob.att /\ ledger[rjob.att] = None
        /\ rpc = "delete" =>
              rjob.att \in Attempts /\ checkpoint.att = rjob.att /\ ledger[rjob.att] # None
        /\ rpc = "release" => rjob.att \in comments
        /\ rpc \in {"errors", "ledger"} => rjob.att \in released
    BY <1>o DEF RecoveryPlaced, RecoveryOpened, RecoveryEntered, Announced, RecoveryAnnounced,
                 Named
  <1>k. UNCHANGED attemptVars => AttemptEffect
    BY DEF attemptVars, AttemptsKept, AttemptEffect
  <1>p. ASSUME NEW a \in Attempts, WorksOn(a), PostComment(a) \/ UNCHANGED comments,
               UNCHANGED <<started, ledger, released, errors>>
        PROVE  AttemptEffect
    BY <1>p DEF PostComment, WorksOn, Posts, AttemptsKept, AttemptEffect
  <1>f. ASSUME NEW a \in Attempts, WorksOn(a), a \in comments,
               released' \in {released, released \cup {a}},
               UNCHANGED <<started, ledger, comments, errors>>
        PROVE  AttemptEffect
    BY <1>f DEF WorksOn, Frees, AttemptsKept, AttemptEffect
  <1>d. ASSUME NEW a \in Attempts, checkpoint.att = a, ledger[a] # None, DeleteCheckpoint,
               UNCHANGED <<started, ledger, comments, released, errors>>
        PROVE  AttemptEffect
    BY <1>c, <1>d DEF DeleteCheckpoint, Closes, AttemptEffect
  <1>g. ASSUME NEW a \in Attempts, NEW o \in Outcomes, WorksOn(a), a \in released,
               RecordLedger(a, o), UNCHANGED <<started, comments, released, errors>>
        PROVE  AttemptEffect
    <2>1. ledger' = [ledger EXCEPT ![a] = o]
      BY <1>g DEF RecordLedger, WorksOn
    <2> QED BY <1>g, <2>1 DEF Finalizes, AttemptEffect
  <1>1. ASSUME ClaimStep PROVE AttemptEffect
    <2>1. ASSUME NEW a \in Attempts, StartPrioritized(a) \/ ClaimFifo(a)
          PROVE  AttemptEffect
      <3>1. checkpoint = NoCheckpoint
        BY <1>l, <2>1 DEF StartPrioritized, ClaimFifo, GateOpen
      <3>2. Opens(a)
        BY <1>c, <2>1, <3>1 DEF StartPrioritized, ClaimFifo, OpenAttempt, Opens
      <3> QED BY <3>2 DEF AttemptEffect
    <2>2. ASSUME ClaimPriority \/ LosePriority \/ EmptyQueue \/ AnnounceFinalClaim \/ FinishStop
          PROVE  UNCHANGED attemptVars
      BY <2>2 DEF ClaimPriority, LosePriority, EmptyQueue, AnnounceFinalClaim, FinishStop
    <2> QED BY <1>1, <1>k, <2>1, <2>2 DEF ClaimStep
  <1>2. ASSUME ModelStep PROVE AttemptEffect
    <2>1. /\ UNCHANGED <<started, ledger, comments, released, errors>>
          /\ checkpoint' = checkpoint \/ \E p : AdvanceTo(p)
      BY <1>2 DEF ModelStep, PrepareAttempt, PrepareRefused, PrepareRaises, DeliverHandoff,
                  BeginHandoff, EndModel, ModelRaises, attemptVars
    <2>2. checkpoint'.att = checkpoint.att
      BY <1>t, <2>1 DEF AdvanceTo, CheckpointType, NoCheckpoint
    <2> QED BY <2>1, <2>2 DEF AttemptsKept, AttemptEffect
  <1>3. ASSUME BoundaryStep PROVE AttemptEffect
    <2>1. CASE PublishConfirmed \/ PublishUnconfirmed
      <3>1. /\ pc = "publish"
            /\ PostComment(job.att) \/ UNCHANGED comments
            /\ UNCHANGED <<started, checkpoint, ledger, released, errors>>
        BY <2>1 DEF PublishConfirmed, PublishUnconfirmed
      <3> QED BY <1>l, <1>p, <2>1, <3>1 DEF PublishConfirmed, PublishUnconfirmed, WorksOn
    <2>2. CASE ReleaseIssue \/ ReleaseRaises
      <3>1. /\ pc = "release" /\ released' \in {released, released \cup {job.att}}
            /\ UNCHANGED <<started, checkpoint, ledger, comments, errors>>
        BY <2>2 DEF ReleaseIssue, ReleaseRaises
      <3> QED BY <1>l, <1>f, <3>1 DEF WorksOn
    <2>3. CASE RecordErrors
      <3>1. Guards(job.att, job.outcome)
        BY <1>l, <2>3 DEF RecordErrors, Guards, WorksOn
      <3> QED BY <1>l, <1>o, <2>3, <3>1 DEF RecordErrors, AttemptEffect
    <2>4. CASE RecordCompletion
      BY <1>l, <1>o, <1>g, <2>4 DEF RecordCompletion, WorksOn
    <2>5. CASE RemoveCheckpoint
      BY <1>l, <1>d, <2>5 DEF RemoveCheckpoint
    <2>6. CASE Cleanup
      BY <2>6 DEF Cleanup, AttemptsKept, AttemptEffect
    <2>7. ASSUME \/ HoldBeforeRelease \/ HoldBeforeCommit \/ FailHeldHandoff \/ CountFinalized
                 \/ ResolveHandoff \/ Finish
          PROVE  UNCHANGED attemptVars
      BY <2>7 DEF HoldBeforeRelease, HoldBeforeCommit, CheckHold, FailHeldHandoff, CountFinalized,
                  ResolveHandoff, Finish
    <2> QED BY <1>3, <1>k, <2>1, <2>2, <2>3, <2>4, <2>5, <2>6, <2>7 DEF BoundaryStep
  <1>4. ASSUME ReconcileStep PROVE AttemptEffect
    <2>1. CASE RemoveReplayed
      BY <1>l, <1>d, <2>1 DEF RemoveReplayed
    <2>2. CASE ReprepareAttempt
      <3>1. /\ UNCHANGED <<started, ledger, comments, released, errors>>
            /\ \E p : AdvanceTo(p)
        BY <2>2 DEF ReprepareAttempt
      <3>2. checkpoint'.att = checkpoint.att
        BY <1>t, <3>1 DEF AdvanceTo, CheckpointType, NoCheckpoint
      <3> QED BY <3>1, <3>2 DEF AttemptsKept, AttemptEffect
    <2>3. ASSUME ReconcileNothing \/ ReconcileFinalized \/ ResolveReplayed \/ ReconcileInterrupted
          PROVE  UNCHANGED attemptVars
      BY <2>3 DEF ReconcileNothing, ReconcileFinalized, ResolveReplayed, ReconcileInterrupted
    <2> QED BY <1>4, <1>k, <2>1, <2>2, <2>3 DEF ReconcileStep
  <1>5. ASSUME RecoveryStep PROVE AttemptEffect
    <2>1. CASE RecoveryFails
      <3>1. UNCHANGED <<started, checkpoint, ledger, errors>>
        BY <2>1 DEF RecoveryFails
      <3>2. CASE rpc = "publish" /\ PostComment(rjob.att) /\ UNCHANGED released
        BY <1>r, <1>p, <3>1, <3>2 DEF WorksOn
      <3>3. CASE rpc = "release" /\ released' = released \cup {rjob.att} /\ UNCHANGED comments
        BY <1>r, <1>f, <3>1, <3>3 DEF WorksOn
      <3>4. CASE UNCHANGED <<comments, released>>
        BY <3>1, <3>4 DEF AttemptsKept, AttemptEffect
      <3> QED BY <2>1, <3>2, <3>3, <3>4 DEF RecoveryFails
    <2>2. CASE RecoveryPrepare
      <3>1. /\ UNCHANGED <<started, ledger, comments, released, errors>>
            /\ \E p : AdvanceTo(p)
        BY <2>2 DEF RecoveryPrepare
      <3>2. checkpoint'.att = checkpoint.att
        BY <1>t, <3>1 DEF AdvanceTo, CheckpointType, NoCheckpoint
      <3> QED BY <3>1, <3>2 DEF AttemptsKept, AttemptEffect
    <2>3. CASE RecoveryPublish
      BY <1>r, <1>p, <2>3 DEF RecoveryPublish, WorksOn
    <2>4. CASE RecoveryRelease
      BY <1>r, <1>f, <2>4 DEF RecoveryRelease, WorksOn
    <2>5. CASE RecoveryErrors
      <3>1. Guards(rjob.att, rjob.outcome)
        BY <1>r, <2>5 DEF RecoveryErrors, Guards, WorksOn
      <3> QED BY <1>r, <1>o, <2>5, <3>1 DEF RecoveryErrors, AttemptEffect
    <2>6. CASE RecoveryLedger
      BY <1>r, <1>o, <1>g, <2>6 DEF RecoveryLedger, WorksOn
    <2>7. CASE RecoveryDelete
      BY <1>r, <1>d, <2>7 DEF RecoveryDelete
    <2>8. CASE RecoveryCleanup
      BY <2>8 DEF RecoveryCleanup, AttemptsKept, AttemptEffect
    <2>9. ASSUME RecoveryCount \/ RecoveryResolve \/ RecoveryUnflag \/ RecoverySettle
          PROVE  UNCHANGED attemptVars
      BY <2>9 DEF RecoveryCount, RecoveryResolve, RecoveryUnflag, RecoverySettle
    <2> QED BY <1>5, <1>k, <2>1, <2>2, <2>3, <2>4, <2>5, <2>6, <2>7, <2>8, <2>9 DEF RecoveryStep
  <1>6. ASSUME OperatorCommand PROVE AttemptEffect
    <2>1. /\ UNCHANGED <<started, checkpoint, ledger, comments, released>>
          /\ errors' = errors \/ errors' = [errors EXCEPT !.count = 0]
      BY <1>6 DEF OperatorCommand, CommandStop, CommandStopAfter, CommandResume, CommandHandoff,
                  CommandNextIssue, CommandErrorsReset
    <2> QED BY <2>1 DEF AttemptsKept, Resets, AttemptEffect
  <1>7. ASSUME \/ Boot \/ MarkStarted \/ DeadlinePasses \/ UNCHANGED vars
               \/ \E r \in ReqIds, kind \in RecoveryKinds, a \in Attempts : AcceptRecovery(r, kind, a)
        PROVE  UNCHANGED attemptVars
    BY <1>7 DEF Boot, MarkStarted, DeadlinePasses, vars, AcceptRecovery
  <1>8. CASE RepairTree \/ Crash
    BY <1>8 DEF RepairTree, Crash, AttemptsKept, AttemptEffect
  <1> QED BY <1>k, <1>1, <1>2, <1>3, <1>4, <1>5, <1>6, <1>7, <1>8 DEF LifeNext, LoopStep

\* The order of an attempt's durable steps, and that none is lost.
LEMMA OrderStep ==
    ASSUME LifeTypeOK, LifeTypeOK', InOrder, NoAttemptLost, AttemptEffect
    PROVE  InOrder' /\ NoAttemptLost'
  <1>t. /\ ledger \in [Attempts -> Outcomes \cup {None}]
        /\ ledger' \in [Attempts -> Outcomes \cup {None}]
        /\ started \subseteq Attempts
        /\ checkpoint \in CheckpointType /\ checkpoint' \in CheckpointType
    BY DEF LifeTypeOK, CheckpointType
  <1>c. /\ checkpoint = NoCheckpoint <=> checkpoint.att = None
        /\ checkpoint' = NoCheckpoint <=> checkpoint'.att = None
    BY <1>t, StartTyped
  <1>o. None \notin Outcomes
    BY OutcomeAssumption
  <1> USE DEF InOrder, NoAttemptLost
  <1>1. CASE AttemptsKept \/ Resets
    BY <1>c, <1>1 DEF AttemptsKept, Resets
  <1>2. ASSUME NEW a \in Attempts, Opens(a)
        PROVE  InOrder' /\ NoAttemptLost'
    BY <1>t, <1>c, <1>2, NoneAssumption DEF Opens
  <1>3. ASSUME NEW a \in Attempts, Posts(a) \/ Frees(a)
        PROVE  InOrder' /\ NoAttemptLost'
    BY <1>c, <1>3, NoneAssumption DEF Posts, Frees, WorksOn
  <1>4. ASSUME NEW a \in Attempts, Closes(a)
        PROVE  InOrder' /\ NoAttemptLost'
    BY <1>c, <1>4, NoneAssumption DEF Closes
  <1>5. ASSUME NEW a \in Attempts, NEW o \in Outcomes, Guards(a, o)
        PROVE  InOrder' /\ NoAttemptLost'
    BY <1>c, <1>5, NoneAssumption DEF Guards, WorksOn
  <1>6. ASSUME NEW a \in Attempts, NEW o \in Outcomes, Finalizes(a, o)
        PROVE  InOrder' /\ NoAttemptLost'
    BY <1>t, <1>c, <1>o, <1>6, NoneAssumption DEF Finalizes, WorksOn
  <1> QED BY <1>1, <1>2, <1>3, <1>4, <1>5, <1>6 DEF AttemptEffect

\* The attempts the guard may have counted are finitely many.
LEMMA GuardableFinite == IsFiniteSet(Guardable) /\ Cardinality(Guardable) \in Nat
  <1>1. Guardable \subseteq Attempts
    BY DEF Guardable
  <1>2. IsFiniteSet(Guardable)
    BY <1>1, SizeAssumption, FS_Subset
  <1> QED BY <1>2, FS_CardinalityType

\* More attempts that may be counted never lower the allowance.
LEMMA GuardableGrows ==
    ASSUME Guardable \subseteq Guardable'
    PROVE  Cardinality(Guardable) <= Cardinality(Guardable')
  <1>1. Guardable' \subseteq Attempts
    BY DEF Guardable
  <1>2. IsFiniteSet(Guardable')
    BY <1>1, SizeAssumption, FS_Subset
  <1> QED BY <1>2, FS_Subset

\* A new attempt is one more that may be counted.
LEMMA GuardableAdds ==
    ASSUME NEW a, a \notin Guardable, Guardable' = Guardable \cup {a}
    PROVE  Cardinality(Guardable') = Cardinality(Guardable) + 1
  BY GuardableFinite, FS_AddElement

\* The guard counts each attempt at most once.
LEMMA GuardStep ==
    ASSUME LifeTypeOK, LifeTypeOK', InOrder, Guarded, AttemptEffect
    PROVE  Guarded'
  <1>t. /\ ledger \in [Attempts -> Outcomes \cup {None}]
        /\ errors \in [count : Nat, last : Attempts \cup {None}]
        /\ errors' \in [count : Nat, last : Attempts \cup {None}]
    BY DEF LifeTypeOK
  <1>o. None \notin Outcomes
    BY OutcomeAssumption
  <1>n. Cardinality(Guardable) \in Nat /\ Cardinality(Guardable') \in Nat
    <2>1. Guardable' \subseteq Attempts
      BY DEF Guardable
    <2>2. IsFiniteSet(Guardable')
      BY <2>1, SizeAssumption, FS_Subset
    <2> QED BY <2>2, GuardableFinite, FS_CardinalityType
  <1>1. CASE AttemptsKept
    <2>1. Guardable' = Guardable
      BY <1>1 DEF AttemptsKept, Guardable
    <2> QED BY <1>1, <2>1 DEF AttemptsKept, Guarded
  <1>2. CASE Resets
    <2>1. errors'.last = errors.last /\ errors'.count = 0
      BY <1>t, <1>2 DEF Resets
    <2> QED BY <1>n, <1>2, <2>1 DEF Resets, Guarded
  <1>3. ASSUME NEW a \in Attempts, Opens(a) \/ Posts(a) \/ Frees(a) \/ Closes(a)
        PROVE  Guarded'
    <2>1. UNCHANGED <<errors, ledger>>
      BY <1>3 DEF Opens, Posts, Frees, Closes
    <2>2. Guardable' = Guardable
      BY <2>1 DEF Guardable
    <2>3. errors.last # None =>
             /\ errors.last \in released'
             /\ ledger[errors.last] # None \/ checkpoint'.att = errors.last
      BY <1>3 DEF Guarded, Opens, Posts, Frees, Closes, WorksOn
    <2> QED BY <2>1, <2>2, <2>3 DEF Guarded
  <1>4. ASSUME NEW a \in Attempts, NEW o \in Outcomes, Finalizes(a, o)
        PROVE  Guarded'
    <2>1. \A b \in Attempts : ledger[b] # None => ledger'[b] # None
      BY <1>t, <1>o, <1>4 DEF Finalizes, WorksOn
    <2>2. Guardable \subseteq Guardable'
      BY <1>4, <2>1 DEF Guardable, Finalizes
    <2>3. Cardinality(Guardable) <= Cardinality(Guardable')
      BY <2>2, GuardableGrows
    <2>4. errors.count <= Cardinality(Guardable')
      BY <1>n, <1>t, <2>3 DEF Guarded
    <2> QED BY <1>t, <1>4, <2>1, <2>4 DEF Finalizes, WorksOn, Guarded
  <1>5. ASSUME NEW a \in Attempts, NEW o \in Outcomes, Guards(a, o)
        PROVE  Guarded'
    <2>1. CASE errors.last = a
      <3>1. errors' = errors
        BY <1>5, <2>1 DEF Guards, GuardAfter
      <3>2. Guardable' = Guardable
        BY <1>5, <3>1 DEF Guards, Guardable
      <3> QED BY <1>5, <3>1, <3>2 DEF Guards, WorksOn, Guarded
    <2>2. CASE errors.last # a
      <3>1. errors'.last = a /\ errors'.count \in {0, errors.count + 1}
        BY <1>5, <2>2 DEF Guards, GuardAfter
      <3>2. errors.last # None => ledger[errors.last] # None
        BY <1>5, <2>2 DEF Guards, WorksOn, Guarded
      <3>3. a \notin Guardable
        BY <1>5, <2>2 DEF Guards, WorksOn, Guardable
      <3>4. Guardable' = Guardable \cup {a}
        BY <1>5, <3>1, <3>2, NoneAssumption DEF Guards, Guardable
      <3>5. Cardinality(Guardable') = Cardinality(Guardable) + 1
        BY <3>3, <3>4, GuardableAdds
      <3>6. errors'.count <= Cardinality(Guardable')
        BY <1>n, <1>t, <3>1, <3>5 DEF Guarded
      <3> QED BY <1>5, <3>1, <3>6 DEF Guards, WorksOn, Guarded
    <2> QED BY <2>1, <2>2
  <1> QED BY <1>1, <1>2, <1>3, <1>4, <1>5 DEF AttemptEffect

-----------------------------------------------------------------------------
(* Where the threads are, step by step *)

\* The places of the loop, when the loop moves.
LEMMA LoopPlacedStep ==
    ASSUME LifeTypeOK, LifeTypeOK', Named, LoopPlaced, LoopAnnounced, InOrder, LoopStep
    PROVE  LoopPlaced' /\ LoopAnnounced'
  <1> USE DEF LoopPlaced, LoopAnnounced, Opened, Entered
  <1>t. /\ checkpoint \in CheckpointType /\ job \in JobType
        /\ ledger \in [Attempts -> Outcomes \cup {None}]
        /\ started \subseteq Attempts
    BY DEF LifeTypeOK, CheckpointType, JobType
  <1>c. NoCheckpoint.att = None /\ (checkpoint = NoCheckpoint <=> checkpoint.att = None)
    BY <1>t, StartTyped DEF NoCheckpoint
  <1>j. pc \notin Attemptless => job.att \in Attempts
    BY DEF Named
  <1>v. \A p : AdvanceTo(p) => checkpoint'.att = checkpoint.att
    BY <1>t DEF AdvanceTo, CheckpointType, NoCheckpoint
  <1>1. ASSUME ClaimStep PROVE LoopPlaced' /\ LoopAnnounced'
    <2>1. CASE ClaimPriority \/ LosePriority
      BY <2>1 DEF ClaimPriority, LosePriority, GateOpen, attemptVars
    <2>2. CASE EmptyQueue \/ FinishStop
      BY <2>2 DEF EmptyQueue, FinishStop, loopVars
    <2>3. CASE AnnounceFinalClaim
      BY <2>3 DEF AnnounceFinalClaim, attemptVars
    <2>4. ASSUME NEW a \in Attempts, StartPrioritized(a) \/ ClaimFifo(a)
          PROVE  LoopPlaced' /\ LoopAnnounced'
      <3>1. a \notin started /\ ledger' = ledger /\ checkpoint'.att = a /\ job'.att = a
        BY <2>4 DEF StartPrioritized, ClaimFifo, OpenAttempt, NoJob
      <3>2. ledger[a] = None
        BY <3>1 DEF InOrder
      <3>3. pc' \in {"prepare", "opened"}
        BY <2>4 DEF StartPrioritized, ClaimFifo
      <3> QED BY <3>1, <3>2, <3>3
    <2> QED BY <1>1, <2>1, <2>2, <2>3, <2>4 DEF ClaimStep
  <1>2. ASSUME ModelStep PROVE LoopPlaced' /\ LoopAnnounced'
    <2>1. /\ pc \in {"prepare", "model", "reprepare"}
          /\ pc' \in {"prepare", "model", "reprepare", "publish", "finish"}
      BY <1>2 DEF ModelStep, PrepareAttempt, PrepareRefused, PrepareRaises, DeliverHandoff,
                  BeginHandoff, EndModel, ModelRaises, loopVars
    <2>2. job'.att = job.att
      BY <1>2, <1>t DEF ModelStep, PrepareAttempt, PrepareRefused, PrepareRaises, DeliverHandoff,
                  BeginHandoff, EndModel, ModelRaises, loopVars, JobType
    <2>3. /\ ledger' = ledger
          /\ checkpoint' = checkpoint \/ \E p : AdvanceTo(p)
      BY <1>2 DEF ModelStep, PrepareAttempt, PrepareRefused, PrepareRaises, DeliverHandoff,
                  BeginHandoff, EndModel, ModelRaises, attemptVars
    <2> QED BY <1>v, <2>1, <2>2, <2>3
  <1>3. ASSUME BoundaryStep PROVE LoopPlaced' /\ LoopAnnounced'
    <2>1. CASE PublishConfirmed
      <3>1. job'.att = job.att
        BY <1>t, <2>1 DEF PublishConfirmed, JobType
      <3> QED BY <2>1, <3>1 DEF PublishConfirmed, PostComment
    <2>2. CASE PublishUnconfirmed
      <3>1. job'.att = job.att /\ ~job'.ok
        BY <1>t, <2>2 DEF PublishUnconfirmed, JobType
      <3> QED BY <2>2, <3>1 DEF PublishUnconfirmed
    <2>3. CASE HoldBeforeRelease
      <3>1. job'.att = job.att
        BY <1>t, <2>3 DEF HoldBeforeRelease, CheckHold, JobType
      <3>2. pc = "hold1" /\ pc' \in {"fail1", "release", "finish"} /\ UNCHANGED attemptVars
        BY <2>3 DEF HoldBeforeRelease, CheckHold
      <3> QED BY <3>1, <3>2 DEF attemptVars
    <2>4. CASE HoldBeforeCommit
      <3>1. job'.att = job.att
        BY <1>t, <2>4 DEF HoldBeforeCommit, CheckHold, JobType
      <3>2. pc = "hold2" /\ pc' \in {"fail2", "errors", "finish"} /\ UNCHANGED attemptVars
        BY <2>4 DEF HoldBeforeCommit, CheckHold
      <3> QED BY <3>1, <3>2 DEF attemptVars
    <2>5. CASE FailHeldHandoff
      BY <2>5 DEF FailHeldHandoff
    <2>6. CASE ReleaseIssue
      BY <2>6 DEF ReleaseIssue
    <2>7. CASE ReleaseRaises
      <3>1. job'.att = job.att /\ job'.exit
        BY <1>t, <2>7 DEF ReleaseRaises, JobType
      <3> QED BY <2>7, <3>1 DEF ReleaseRaises
    <2>8. CASE Cleanup
      <3>1. pc = "cleanup" /\ UNCHANGED <<checkpoint, ledger, released, job>>
        BY <2>8 DEF Cleanup
      <3>2. CASE job.ok /\ ~job.exit
        <4>1. pc' \in {"finish", "hold2"}
          BY <2>8 DEF Cleanup
        <4> QED BY <3>1, <3>2, <4>1
      <3>3. CASE ~(job.ok /\ ~job.exit)
        <4>1. pc' = "finish"
          BY <2>8, <3>3 DEF Cleanup
        <4> QED BY <4>1
      <3> QED BY <3>2, <3>3
    <2>9. CASE RecordErrors
      BY <2>9 DEF RecordErrors, ProcessEnds
    <2>10. CASE RecordCompletion
      <3>1. ledger'[job.att] = job.outcome
        <4>1. job.att \in Attempts /\ ledger[job.att] = None
          BY <1>j, <2>10 DEF RecordCompletion, Attemptless
        <4>2. ledger' = [ledger EXCEPT ![job.att] = job.outcome]
          BY <2>10, <4>1 DEF RecordCompletion, RecordLedger
        <4> QED BY <1>t, <4>1, <4>2
      <3> QED BY <2>10, <3>1 DEF RecordCompletion
    <2>11. CASE CountFinalized
      BY <2>11 DEF CountFinalized, attemptVars
    <2>12. CASE RemoveCheckpoint
      BY <2>12 DEF RemoveCheckpoint, DeleteCheckpoint
    <2>13. CASE ResolveHandoff
      BY <2>13 DEF ResolveHandoff
    <2>14. CASE Finish
      BY <2>14 DEF Finish, ProcessEnds
    <2> QED BY <1>3, <2>1, <2>2, <2>3, <2>4, <2>5, <2>6, <2>7, <2>8, <2>9, <2>10, <2>11, <2>12,
               <2>13, <2>14 DEF BoundaryStep
  <1>4. ASSUME ReconcileStep PROVE LoopPlaced' /\ LoopAnnounced'
    <2>1. CASE ReconcileNothing \/ RemoveReplayed
      BY <2>1 DEF ReconcileNothing, RemoveReplayed
    <2>2. CASE ReconcileFinalized
      <3>1. job'.att = checkpoint.att /\ job'.outcome = ledger[checkpoint.att]
        BY <2>2 DEF ReconcileFinalized, NoJob
      <3> QED BY <2>2, <3>1 DEF ReconcileFinalized, attemptVars
    <2>3. CASE ResolveReplayed
      <3>1. pc = "reresolve" /\ UNCHANGED attemptVars
        BY <2>3 DEF ResolveReplayed
      <3>2. \/ pc' = "idle" /\ job' = NoJob /\ recovering' = FALSE
            \/ pc' = "redelete" /\ UNCHANGED <<job, recovering>>
        BY <2>3, Zenon DEF ResolveReplayed
      <3> QED BY <3>1, <3>2 DEF attemptVars
    <2>4. CASE ReconcileInterrupted
      <3>1. job'.att = checkpoint.att
        BY <2>4 DEF ReconcileInterrupted, NoJob
      <3> QED BY <2>4, <3>1 DEF ReconcileInterrupted, attemptVars
    <2>5. CASE ReprepareAttempt
      <3>1. job'.att = job.att /\ checkpoint'.att = checkpoint.att
        <4>1. PICK d \in InferredDecisions :
                 /\ AdvanceTo(d[2])
                 /\ job' = [job EXCEPT !.prep = TRUE, !.outcome = d[1]]
          BY <2>5 DEF ReprepareAttempt
        <4> QED BY <1>t, <1>v, <4>1 DEF JobType
      <3> QED BY <2>5, <3>1 DEF ReprepareAttempt
    <2> QED BY <1>4, <2>1, <2>2, <2>3, <2>4, <2>5 DEF ReconcileStep
  <1>5. CASE Boot \/ MarkStarted
    BY <1>5 DEF Boot, MarkStarted
  <1> QED BY <1>1, <1>2, <1>3, <1>4, <1>5 DEF LoopStep

\* The thread at work on an attempt: the loop does not move.
RecoveryWorks == rpc \in RecoveryOpened \cup RecoveryEntered

\* The gate is shut by the attempt the thread works on, so that the loop stays
\* idle.
LEMMA LoopWaits ==
    ASSUME LifeTypeOK, Named, RecoveryPlaced, RecoveryWorks, LoopStep
    PROVE  FALSE
  <1>1. rjob.att \in Attempts /\ pc = "idle" /\ checkpoint.att = rjob.att
    BY DEF RecoveryWorks, RecoveryPlaced, Named, RecoveryOpened, RecoveryEntered
  <1>2. checkpoint # NoCheckpoint
    BY <1>1, NoneAssumption DEF NoCheckpoint
  <1>3. ~ClaimStep
    BY <1>1, <1>2 DEF ClaimStep, ClaimPriority, LosePriority, EmptyQueue, AnnounceFinalClaim,
                      FinishStop, StartPrioritized, ClaimFifo, GateOpen
  <1>4. ~ModelStep /\ ~BoundaryStep
    BY <1>1 DEF ModelStep, PrepareAttempt, PrepareRefused, PrepareRaises, DeliverHandoff,
                BeginHandoff, EndModel, ModelRaises, BoundaryStep, PublishConfirmed,
                PublishUnconfirmed, HoldBeforeRelease, CheckHold, FailHeldHandoff, ReleaseIssue,
                ReleaseRaises, Cleanup, HoldBeforeCommit, RecordErrors, RecordCompletion,
                CountFinalized, RemoveCheckpoint, ResolveHandoff, Finish
  <1>5. ~ReconcileStep /\ ~Boot /\ ~MarkStarted
    BY <1>1 DEF ReconcileStep, ReconcileNothing, ReconcileFinalized, ResolveReplayed,
                RemoveReplayed, ReconcileInterrupted, ReprepareAttempt, Boot, MarkStarted
  <1> QED BY <1>3, <1>4, <1>5 DEF LoopStep

\* The places of the recovery thread, when it moves.
LEMMA RecoveryMoves ==
    ASSUME LifeTypeOK, Named, RecoveryPlaced, RecoveryAnnounced, RecoveryStep
    PROVE  RecoveryPlaced' /\ RecoveryAnnounced'
  <1> USE DEF RecoveryPlaced, RecoveryAnnounced, RecoveryOpened, RecoveryEntered
  <1>t. /\ checkpoint \in CheckpointType /\ rjob \in RecoveryType
        /\ ledger \in [Attempts -> Outcomes \cup {None}]
    BY DEF LifeTypeOK, CheckpointType, RecoveryType
  <1>j. rpc # "none" => rjob.att \in Attempts
    BY DEF Named
  <1>o. None \notin Outcomes /\ None \notin Attempts /\ rjob.outcome \in Outcomes
    BY <1>t, OutcomeAssumption, NoneAssumption DEF RecoveryType
  <1>p. UNCHANGED <<pc, job>>
    BY LoopKept
  <1>1. CASE RecoveryFails
    BY <1>p, <1>1 DEF RecoveryFails
  <1>2. CASE RecoveryPrepare
    <2>1. PICK d \in RecoveryDecisions :
             /\ AdvanceTo(d[2])
             /\ rjob' = [rjob EXCEPT !.outcome = d[1]]
      BY <1>2 DEF RecoveryPrepare
    <2>2. rjob'.att = rjob.att /\ rjob'.done = rjob.done
      BY <1>t, <2>1 DEF RecoveryType
    <2>3. checkpoint'.att = checkpoint.att
      BY <1>t, <2>1 DEF AdvanceTo, CheckpointType, NoCheckpoint
    <2>4. rpc = "prepare" /\ rpc' = "publish" /\ ledger' = ledger
      BY <1>2 DEF RecoveryPrepare
    <2>5. ~rjob.done
      BY <2>4
    <2> QED BY <1>p, <2>2, <2>3, <2>4, <2>5
  <1>3. CASE RecoveryPublish
    <2>1. PICK o : rjob' = [rjob EXCEPT !.outcome = o]
      BY <1>3 DEF RecoveryPublish
    <2>2. rjob'.att = rjob.att /\ rjob'.done = rjob.done
      BY <1>t, <2>1 DEF RecoveryType
    <2>3. /\ rpc = "publish" /\ rpc' = "release" /\ comments' = comments \cup {rjob.att}
          /\ UNCHANGED <<checkpoint, ledger>>
      BY <1>3 DEF RecoveryPublish, PostComment
    <2>4. ~rjob.done
      BY <2>3
    <2> QED BY <1>p, <2>2, <2>3, <2>4
  <1>4. CASE RecoveryRelease
    BY <1>p, <1>4 DEF RecoveryRelease
  <1>5. CASE RecoveryCleanup
    BY <1>p, <1>5 DEF RecoveryCleanup
  <1>6. CASE RecoveryErrors
    <2>1. rpc = "errors" /\ rpc' \in {"unflag", "ledger"} /\ UNCHANGED <<checkpoint, ledger, released, rjob>>
      BY <1>6 DEF RecoveryErrors
    <2> QED BY <1>p, <2>1
  <1>7. CASE RecoveryLedger
    <2>1. /\ rpc = "ledger" /\ rpc' = "count" /\ UNCHANGED <<checkpoint, rjob>>
          /\ RecordLedger(rjob.att, rjob.outcome)
      BY <1>7 DEF RecoveryLedger
    <2>2. rjob.att \in Attempts /\ ledger[rjob.att] = None /\ ~rjob.done
      BY <1>j, <2>1
    <2>3. ledger' = [ledger EXCEPT ![rjob.att] = rjob.outcome]
      BY <2>1, <2>2 DEF RecordLedger
    <2>4. ledger'[rjob.att] = rjob.outcome
      BY <1>t, <2>2, <2>3
    <2> QED BY <1>p, <2>1, <2>2, <2>4
  <1>8. CASE RecoveryCount
    BY <1>p, <1>8 DEF RecoveryCount, attemptVars
  <1>9. CASE RecoveryDelete
    <2>1. /\ rpc = "delete" /\ rpc' = "resolve" /\ UNCHANGED <<ledger, rjob>>
          /\ checkpoint'.att = None
      BY <1>9 DEF RecoveryDelete, DeleteCheckpoint, NoCheckpoint
    <2> QED BY <1>j, <1>o, <2>1
  <1>10. CASE RecoveryResolve
    <2>1. /\ rpc = "resolve" /\ rpc' = "unflag" /\ UNCHANGED attemptVars
          /\ rjob' = [rjob EXCEPT !.done = TRUE]
      BY <1>10 DEF RecoveryResolve
    <2>2. rjob'.att = rjob.att
      BY <1>t, <2>1 DEF RecoveryType
    <2> QED BY <2>1, <2>2 DEF attemptVars
  <1>11. CASE RecoveryUnflag
    BY <1>11 DEF RecoveryUnflag, attemptVars
  <1>12. CASE RecoverySettle
    BY <1>12 DEF RecoverySettle, NoRecovery
  <1> QED BY <1>1, <1>2, <1>3, <1>4, <1>5, <1>6, <1>7, <1>8, <1>9, <1>10, <1>11, <1>12
          DEF RecoveryStep

\* What is finalized and closed stays so.
LEMMA FinalizedStays ==
    ASSUME LifeTypeOK, InOrder, AttemptEffect, NEW a \in Attempts, ledger[a] # None
    PROVE  /\ ledger'[a] = ledger[a]
           /\ checkpoint.att # a => checkpoint'.att # a
  <1>t. ledger \in [Attempts -> Outcomes \cup {None}]
    BY DEF LifeTypeOK
  <1>s. a \in started
    BY DEF InOrder
  <1>1. CASE AttemptsKept \/ Resets
    BY <1>1 DEF AttemptsKept, Resets
  <1>2. ASSUME NEW b \in Attempts, Opens(b) \/ Posts(b) \/ Frees(b) \/ Closes(b)
        PROVE  /\ ledger'[a] = ledger[a]
               /\ checkpoint.att # a => checkpoint'.att # a
    BY <1>s, <1>2, NoneAssumption DEF Opens, Posts, Frees, Closes, WorksOn
  <1>3. ASSUME NEW b \in Attempts, NEW o \in Outcomes, Guards(b, o) \/ Finalizes(b, o)
        PROVE  /\ ledger'[a] = ledger[a]
               /\ checkpoint.att # a => checkpoint'.att # a
    BY <1>t, <1>3 DEF Guards, Finalizes, WorksOn
  <1> QED BY <1>1, <1>2, <1>3 DEF AttemptEffect

\* The end of the process leaves both threads nowhere.
LEMMA EndPlaced ==
    ProcessEnds => LoopPlaced' /\ RecoveryPlaced' /\ LoopAnnounced' /\ RecoveryAnnounced'
  BY DEF ProcessEnds, NoRecovery, LoopPlaced, RecoveryPlaced, LoopAnnounced, RecoveryAnnounced,
         Opened, Entered, RecoveryOpened, RecoveryEntered

\* The places of both threads, whoever moves.
LEMMA PlacedStep ==
    ASSUME LifeTypeOK, LifeTypeOK', Named, LoopPlaced, RecoveryPlaced, Announced, InOrder,
           IdleRecovery, [LifeNext]_vars
    PROVE  LoopPlaced' /\ RecoveryPlaced' /\ LoopAnnounced' /\ RecoveryAnnounced'
  <1>e. AttemptEffect
    BY LifeEffects
  <1>a. LoopAnnounced /\ RecoveryAnnounced
    BY DEF Announced
  <1>k. ASSUME UNCHANGED <<checkpoint, ledger, comments, released, pc, job>>
        PROVE  LoopPlaced' /\ LoopAnnounced'
    BY <1>a, <1>k DEF LoopPlaced, LoopAnnounced, Opened, Entered
  <1>r. ASSUME UNCHANGED <<checkpoint, ledger, comments, released, pc, rpc, rjob>>
        PROVE  RecoveryPlaced' /\ RecoveryAnnounced'
    BY <1>a, <1>r DEF RecoveryPlaced, RecoveryAnnounced, RecoveryOpened, RecoveryEntered
  <1>1. CASE LoopStep /\ ~ProcessEnds
    <2>1. LoopPlaced' /\ LoopAnnounced'
      BY <1>a, <1>1, LoopPlacedStep
    <2>2. UNCHANGED <<rpc, rjob>>
      BY <1>1, LoopAlone DEF recoveryVars
    <2>3. ~RecoveryWorks
      BY <1>1, LoopWaits
    <2>4. rpc = "resolve" \/ rjob.done =>
             /\ ledger'[rjob.att] = ledger[rjob.att]
             /\ checkpoint'.att # rjob.att
      <3>1. rpc = "resolve" \/ rjob.done =>
               /\ rjob.att \in Attempts /\ checkpoint.att # rjob.att /\ ledger[rjob.att] # None
        BY DEF RecoveryPlaced, Named
      <3> QED BY <1>e, <3>1, FinalizedStays
    <2>5. RecoveryPlaced' /\ RecoveryAnnounced'
      BY <2>2, <2>3, <2>4 DEF RecoveryPlaced, RecoveryAnnounced, RecoveryWorks, RecoveryOpened,
                             RecoveryEntered
    <2> QED BY <2>1, <2>5
  <1>2. CASE RecoveryStep
    <2>1. RecoveryPlaced' /\ RecoveryAnnounced'
      BY <1>a, <1>2, RecoveryMoves
    <2>2. UNCHANGED <<pc, job>>
      BY <1>2, LoopKept
    <2>3. CASE pc = "idle"
      BY <2>1, <2>2, <2>3 DEF LoopPlaced, LoopAnnounced, Opened, Entered
    <2>4. CASE pc # "idle"
      <3>1. ~RecoveryWorks
        BY <2>4 DEF RecoveryWorks, RecoveryPlaced
      <3>2. RecoveryResolve \/ RecoveryUnflag \/ RecoverySettle
        BY <1>2, <3>1 DEF RecoveryWorks, RecoveryOpened, RecoveryEntered, RecoveryStep,
                          RecoveryFails, RecoveryPrepare, RecoveryPublish, RecoveryRelease,
                          RecoveryCleanup, RecoveryErrors, RecoveryLedger, RecoveryCount,
                          RecoveryDelete
      <3>3. UNCHANGED attemptVars
        BY <3>2 DEF RecoveryResolve, RecoveryUnflag, RecoverySettle
      <3> QED BY <1>k, <2>1, <2>2, <3>3 DEF attemptVars
    <2> QED BY <2>3, <2>4
  <1>3. ASSUME NEW r \in ReqIds, NEW kind \in RecoveryKinds, NEW a \in Attempts,
               AcceptRecovery(r, kind, a)
        PROVE  LoopPlaced' /\ RecoveryPlaced' /\ LoopAnnounced' /\ RecoveryAnnounced'
    <2>1. /\ pc = "idle" /\ checkpoint.att = a /\ ledger[a] = None
          /\ rpc' = "prepare" /\ rjob'.att = a /\ rjob'.done = FALSE
      BY <1>3 DEF AcceptRecovery, Recoverable, NoRecovery
    <2>2. UNCHANGED <<checkpoint, ledger, comments, released, pc, job>>
      BY <1>3 DEF AcceptRecovery, attemptVars, loopVars
    <2>3. RecoveryPlaced' /\ RecoveryAnnounced'
      BY <2>1, <2>2 DEF RecoveryPlaced, RecoveryAnnounced, RecoveryOpened, RecoveryEntered
    <2> QED BY <1>k, <2>2, <2>3
  <1>4. CASE OperatorCommand \/ DeadlinePasses \/ RepairTree \/ UNCHANGED vars
    <2>1. UNCHANGED <<checkpoint, ledger, comments, released, pc, job, rpc, rjob>>
      BY <1>4 DEF OperatorCommand, DeadlinePasses, RepairTree, vars, attemptVars, loopVars,
                  recoveryVars
    <2> QED BY <1>k, <1>r, <2>1
  <1>5. CASE ProcessEnds
    BY <1>5, EndPlaced
  <1> QED BY <1>1, <1>2, <1>3, <1>4, <1>5, OthersAlone DEF LifeNext

-----------------------------------------------------------------------------
(* What a call does to handoffs, recovery commands and stops *)

\* Outside of R no handoff completes, and no recovery command changes: a new
\* one names an attempt and waits.
QuietRows(R) ==
    \A s \in ReqIds \ R :
       /\ commands'[s].kind = "handoff" /\ commands'[s].ack = "completed" =>
             commands[s].kind = "handoff" /\ commands[s].ack = "completed"
       /\ commands[s].kind \in RecoveryKinds =>
             /\ commands'[s].kind = commands[s].kind
             /\ commands'[s].payload = commands[s].payload
             /\ commands'[s].ack = commands[s].ack
       /\ commands'[s].kind \in RecoveryKinds /\ commands[s].kind \notin RecoveryKinds =>
             commands'[s].payload \in Attempts /\ commands'[s].ack = "accepted"

\* No plain stop that waits completes.
StopsKept ==
    \A s \in ReqIds :
       commands[s].kind = "stop" /\ commands[s].ack = "accepted" => commands'[s].ack # "completed"

\* A new command, with what it supersedes.
LEMMA RecordsQuiet ==
    ASSUME NEW S, NEW r \in ReqIds, NEW kind, NEW payload, NEW ack,
           Fresh(r), Records(S, r, kind, payload, ack),
           \A s \in S : commands[s].kind \notin RecoveryKinds,
           kind = "handoff" => ack = "accepted",
           kind \in RecoveryKinds => ack = "accepted" /\ payload \in Attempts
    PROVE  QuietRows({}) /\ StopsKept
  <1>1. commands[r].kind = "none"
    BY DEF Fresh, NoCommand
  <1>2. ASSUME NEW s \in ReqIds, s # r
        PROVE  /\ commands'[s].kind = commands[s].kind
               /\ commands'[s].payload = commands[s].payload
               /\ s \notin S => commands'[s].ack = commands[s].ack
               /\ s \in S => commands'[s].ack = "superseded"
    BY <1>2 DEF Records
  <1>3. commands'[r].kind = kind /\ commands'[r].payload = payload /\ commands'[r].ack = ack
    BY DEF Records
  <1>4. QuietRows({})
    BY <1>1, <1>2, <1>3 DEF QuietRows, RecoveryKinds
  <1>5. StopsKept
    BY <1>1, <1>2 DEF StopsKept
  <1> QED BY <1>4, <1>5

\* A settlement of other commands.
LEMMA SettlesQuiet ==
    ASSUME NEW S, NEW a, Settles(S, a),
           \A s \in S : /\ commands[s].kind \notin RecoveryKinds
                        /\ a = "completed" => commands[s].kind # "handoff"
    PROVE  /\ QuietRows({})
           /\ (\A s \in S : commands[s].kind # "stop") => StopsKept
  BY DEF Settles, QuietRows, StopsKept

\* The commands themselves unchanged.
LEMMA SameQuiet == commands' = commands => QuietRows({}) /\ StopsKept
  BY DEF QuietRows, StopsKept

\* What an operator sends completes no handoff, no recovery and no stop.
LEMMA OperatorQuiet ==
    ASSUME TypeOK, PriorityLinked, NEW r \in ReqIds, OperatorCall(r)
    PROVE  QuietRows({}) /\ StopsKept /\ counted' = counted
  <1>a. \A kinds \in SUBSET PlanKinds : \A s \in Accepted(kinds) : commands[s].kind \notin RecoveryKinds
    BY DEF Accepted, PlanKinds, RecoveryKinds
  <1>k. "stop" \notin RecoveryKinds /\ "resume" \notin RecoveryKinds /\ "stop_after" \notin RecoveryKinds
        /\ "handoff" \notin RecoveryKinds /\ "next_issue" \notin RecoveryKinds
        /\ "errors_reset" \notin RecoveryKinds
    BY DEF RecoveryKinds
  <1>1. ASSUME NEW active \in Attempts \cup {None}, SubmitStop(r, active)
        PROVE  QuietRows({}) /\ StopsKept /\ counted' = counted
    <2>0. Fresh(r) /\ counted' = counted
      BY <1>1 DEF SubmitStop, StopWhileStopped, StopWhileStopping, StopWhileRunning
    <2>1. CASE StopWhileStopped(r)
      BY <1>k, <2>0, <2>1, StopRows, RecordsQuiet
    <2>2. CASE StopWhileStopping(r)
      <3>1. \A s \in Joined : commands[s].kind \notin RecoveryKinds
        BY DEF Joined, Accepted, RecoveryKinds
      <3>2. Records(Joined, r, "stop", None, "accepted")
        BY <2>2, StopRows
      <3> QED BY <1>k, <2>0, <3>1, <3>2, RecordsQuiet
    <2>3. CASE StopWhileRunning(r, active)
      <3> DEFINE gone == Accepted({"stop_after"} \cup IF HandoffBegun THEN {} ELSE {"handoff"})
                 ack == IF active # None THEN "accepted" ELSE "completed"
      <3>1. Records(gone, r, "stop", None, ack)
        BY <2>3, StopRows
      <3>2. \A s \in gone : commands[s].kind \notin RecoveryKinds
        BY <1>a DEF PlanKinds
      <3> HIDE DEF gone, ack
      <3> QED BY <1>k, <2>0, <3>1, <3>2, RecordsQuiet
    <2> QED BY <1>1, <2>1, <2>2, <2>3 DEF SubmitStop
  <1>2. ASSUME NEW hold \in BOOLEAN, SubmitResume(r, hold)
        PROVE  QuietRows({}) /\ StopsKept /\ counted' = counted
    <2>0. Fresh(r) /\ counted' = counted
      BY <1>2 DEF SubmitResume, ResumeUnderBegunHandoff, ResumeIntake
    <2>1. CASE ResumeUnderBegunHandoff(r)
      BY <1>k, <2>0, <2>1, ResumeRows, RecordsQuiet
    <2>2. CASE ResumeIntake(r)
      <3>1. Records(Accepted(PlanKinds), r, "resume", None, "completed")
        BY <2>2, ResumeRows
      <3> QED BY <1>a, <1>k, <2>0, <3>1, RecordsQuiet
    <2> QED BY <1>2, <2>1, <2>2 DEF SubmitResume
  <1>3. ASSUME NEW n \in Counts, NEW active \in Attempts \cup {None}, SubmitStopAfter(r, n, active)
        PROVE  QuietRows({}) /\ StopsKept /\ counted' = counted
    <2>1. /\ Fresh(r) /\ counted' = counted
          /\ Records(Accepted(PlanKinds), r, "stop_after", n, "accepted")
      BY <1>3, StopAfterRows DEF SubmitStopAfter
    <2> QED BY <1>a, <1>k, <2>1, RecordsQuiet
  <1>4. ASSUME NEW active, NEW hold, SubmitHandoff(r, active, hold)
        PROVE  QuietRows({}) /\ StopsKept /\ counted' = counted
    <2>1. /\ Fresh(r) /\ counted' = counted
          /\ Records(Accepted(PlanKinds), r, "handoff", None, "accepted")
      BY <1>4, HandoffRows DEF SubmitHandoff
    <2> QED BY <1>a, <1>k, <2>1, RecordsQuiet
  <1>5. ASSUME NEW kind \in RecoveryKinds, NEW a \in Attempts, SubmitRecovery(r, kind, a)
        PROVE  QuietRows({}) /\ StopsKept /\ counted' = counted
    <2>1. /\ Fresh(r) /\ counted' = counted /\ Records({}, r, kind, a, "accepted")
      BY <1>5, RecoveryRows DEF SubmitRecovery
    <2> QED BY <2>1, RecordsQuiet
  <1>6. ASSUME NEW issue \in Issues, SubmitNextIssue(r, issue)
        PROVE  QuietRows({}) /\ StopsKept /\ counted' = counted
    <2>1. /\ Fresh(r) /\ counted' = counted
          /\ Records(OldPriority, r, "next_issue", issue, "accepted")
      BY <1>6, NextIssueRows DEF SubmitNextIssue
    <2>2. \A s \in OldPriority : commands[s].kind \notin RecoveryKinds
      BY NoneAssumption DEF OldPriority, PriorityLinked, RecoveryKinds
    <2> QED BY <1>k, <2>1, <2>2, RecordsQuiet
  <1>7. ASSUME SubmitErrorsReset(r)
        PROVE  QuietRows({}) /\ StopsKept /\ counted' = counted
    <2>1. /\ Fresh(r) /\ counted' = counted /\ Records({}, r, "errors_reset", None, "completed")
      BY <1>7, RecoveryRows DEF SubmitErrorsReset
    <2> QED BY <1>k, <2>1, RecordsQuiet
  <1> QED BY <1>1, <1>2, <1>3, <1>4, <1>5, <1>6, <1>7 DEF OperatorCall

\* Some handoff that waits is settled.
HandoffSettles ==
    \E h \in ReqIds : /\ commands[h].kind = "handoff" /\ commands[h].ack = "accepted"
                      /\ commands'[h].ack # "accepted"

\* Settling a handoff takes the stops that wait with it along.
LEMMA HandoffQuiet ==
    ASSUME TypeOK, NEW r \in ReqIds, NEW ack \in {"completed", "not_fulfilled"},
           SettleHandoff(r, ack)
    PROVE  /\ ack = "not_fulfilled" => QuietRows({})
           /\ QuietRows({r})
           /\ HandoffSettles
           /\ commands[r].kind = "handoff" /\ commands'[r].kind = "handoff"
           /\ counted' = counted
  <1>1. commands[r].kind = "handoff" /\ commands[r].ack = "accepted" /\ counted' = counted
    BY DEF SettleHandoff
  <1>2. \A s \in ReqIds :
           /\ commands'[s].kind = commands[s].kind
           /\ commands'[s].payload = commands[s].payload
           /\ commands'[s].ack = IF s = r THEN ack
                                 ELSE IF pending = r /\ s \in Accepted({"stop"})
                                      THEN "completed" ELSE commands[s].ack
    BY SettleHandoffRows DEF Acks
  <1>3. QuietRows({r})
    BY <1>2 DEF QuietRows, Accepted, RecoveryKinds
  <1>4. ack = "not_fulfilled" => QuietRows({})
    BY <1>1, <1>2 DEF QuietRows, Accepted, RecoveryKinds
  <1>5. HandoffSettles
    BY <1>1, <1>2 DEF HandoffSettles
  <1> QED BY <1>1, <1>2, <1>3, <1>4, <1>5

\* A quiet call releases a waiting stop only with the handoff it waits for.
LEMMA QuietCalls ==
    ASSUME TypeOK, PlanInv, QuietCall
    PROVE  QuietRows({}) /\ (StopsKept \/ HandoffSettles) /\ counted' = counted
  <1>p. PriorityLinked
    BY DEF PlanInv
  <1>1. CASE UNCHANGED storeVars \/ EnterStoppingForFinalClaim
    BY <1>1, SameQuiet DEF EnterStoppingForFinalClaim, storeVars
  <1>2. ASSUME NEW r \in ReqIds, OperatorCall(r)
        PROVE  QuietRows({}) /\ StopsKept /\ counted' = counted
    BY <1>p, <1>2, OperatorQuiet
  <1>3. ASSUME NEW r \in ReqIds, MarkHandoffDelivering(r) \/ MarkHandoffBegun(r)
        PROVE  QuietRows({}) /\ StopsKept /\ counted' = counted
    BY <1>3, SameQuiet DEF MarkHandoffDelivering, MarkHandoffBegun
  <1>4. ASSUME NEW r \in ReqIds, FailHandoff(r)
        PROVE  QuietRows({}) /\ HandoffSettles /\ counted' = counted
    BY <1>4, HandoffQuiet DEF FailHandoff
  <1>5. ASSUME NEW ack \in {"completed", "not_fulfilled"}, SettleNextIssue(ack)
        PROVE  QuietRows({}) /\ StopsKept /\ counted' = counted
    <2>1. Settles(OldPriority, ack) /\ counted' = counted
      BY <1>5, SettleNextIssueRows DEF SettleNextIssue, Acks
    <2>2. \A s \in OldPriority : commands[s].kind = "next_issue"
      BY <1>p, NoneAssumption DEF OldPriority, PriorityLinked
    <2> QED BY <2>1, <2>2, SettlesQuiet DEF RecoveryKinds
  <1> QED BY <1>1, <1>2, <1>3, <1>4, <1>5 DEF QuietCall, CompleteNextIssue, FailNextIssue

\* Completing the plain stops.
LEMMA StopsQuiet ==
    ASSUME TypeOK, CompletePendingStop
    PROVE  QuietRows({}) /\ counted' = counted
  <1>1. Settles(Accepted({"stop"}), "completed") /\ counted' = counted
    BY PlainStopRows DEF CompletePendingStop, CompletePlainStops
  <1>2. \A s \in Accepted({"stop"}) : commands[s].kind = "stop"
    BY DEF Accepted
  <1> QED BY <1>1, <1>2, SettlesQuiet DEF RecoveryKinds

\* Counting an attempt changes its own count only.
LEMMA CountQuiet ==
    ASSUME TypeOK, PlanFacts, NEW a \in Attempts, CountAttempt(a)
    PROVE  /\ QuietRows({})
           /\ \A b \in Attempts \ {a} : counted'[b] = counted[b]
  <1>1. CASE CountDown(a)
    <2>1. \A b \in Attempts \ {a} : counted'[b] = counted[b]
      BY <1>1 DEF CountDown, TypeOK
    <2>2. commands[pending].kind = "stop_after"
      BY <1>1 DEF CountDown, HasPlan, PlanFacts
    <2>3. CASE plan.remaining - 1 <= 0
      <3> DEFINE S == {s \in ReqIds : s = pending /\ commands[s].ack = "accepted"}
      <3>1. Settles(S, "completed")
        BY <1>1, <2>3, CountDownRows
      <3>2. \A s \in S : commands[s].kind = "stop_after"
        BY <2>2
      <3> HIDE DEF S
      <3>3. QuietRows({})
        BY <3>1, <3>2, SettlesQuiet DEF RecoveryKinds
      <3> QED BY <2>1, <3>3
    <2>4. CASE ~(plan.remaining - 1 <= 0)
      BY <1>1, <2>1, <2>4, CountDownRows, SameQuiet
    <2> QED BY <2>3, <2>4
  <1>2. CASE CompletePendingStop
    BY <1>2, StopsQuiet
  <1> QED BY <1>1, <1>2 DEF CountAttempt

\* Settling a recovery command changes that command only.
LEMMA SettleQuiet ==
    ASSUME TypeOK, NEW r \in ReqIds, NEW ack \in {"completed", "not_fulfilled"},
           SettleRecovery(r, ack)
    PROVE  /\ QuietRows({r}) /\ StopsKept /\ counted' = counted
           /\ commands'[r].kind = commands[r].kind /\ commands'[r].payload = commands[r].payload
           /\ commands'[r].ack = ack
           /\ commands[r].kind \in RecoveryKinds
  <1>1. Settles({r}, ack)
    BY RecoveryRows DEF Acks
  <1>2. counted' = counted /\ commands[r].kind \in RecoveryKinds
    BY DEF SettleRecovery
  <1>3. QuietRows({r}) /\ StopsKept
    BY <1>1, <1>2 DEF Settles, QuietRows, StopsKept, RecoveryKinds
  <1> QED BY <1>1, <1>2, <1>3 DEF Settles

\* The acknowledgement a settled recovery command gets.
SettledAck == IF rjob.done THEN "completed" ELSE "not_fulfilled"

\* What any call does to the rows of handoffs and recovery commands.
LEMMA CallRows ==
    ASSUME LifeTypeOK, PlanInv, Named, StoreCall
    PROVE  \/ QuietRows({})
           \/ HandoffCall /\ \E r \in ReqIds : QuietRows({r}) /\ commands[r].kind = "handoff"
                                               /\ commands'[r].kind = "handoff"
           \/ /\ rpc = "settle" /\ rpc' = "none" /\ QuietRows({rjob.req})
              /\ commands'[rjob.req].kind = commands[rjob.req].kind
              /\ commands'[rjob.req].payload = commands[rjob.req].payload
              /\ commands'[rjob.req].ack = SettledAck
              /\ commands[rjob.req].kind \in RecoveryKinds
  <1>t. TypeOK /\ PlanFacts
    BY PlanFactsEquiv DEF LifeTypeOK
  <1>1. CASE QuietCall
    BY <1>t, <1>1, QuietCalls
  <1>2. CASE StopCall
    BY <1>t, <1>2, StopsQuiet DEF StopCall
  <1>3. CASE CountCall
    BY <1>t, <1>3, CountQuiet DEF CountCall
  <1>4. CASE HandoffCall
    <2>1. PICK r \in ReqIds : CompleteHandoff(r)
      BY <1>4 DEF HandoffCall
    <2>2. QuietRows({r}) /\ commands[r].kind = "handoff" /\ commands'[r].kind = "handoff"
      BY <1>t, <2>1, HandoffQuiet DEF CompleteHandoff
    <2> QED BY <1>4, <2>2
  <1>5. CASE SettleCall
    <2>1. /\ rpc = "settle" /\ rpc' = "none" /\ SettleRecovery(rjob.req, SettledAck)
          /\ rjob.req \in ReqIds
      BY <1>5 DEF SettleCall, SettledAck, Named
    <2>2. SettledAck \in {"completed", "not_fulfilled"}
      BY DEF SettledAck
    <2> QED BY <1>t, <2>1, <2>2, SettleQuiet
  <1> QED BY <1>1, <1>2, <1>3, <1>4, <1>5 DEF StoreCall

\* The command of the recovery thread waits for it.
LEMMA AskedStep ==
    ASSUME LifeTypeOK, PlanInv, Named, RecoveryAsked, [LifeNext]_vars
    PROVE  RecoveryAsked'
  <1>s. StoreCall
    BY StoreCalls
  <1>1. \A r \in ReqIds : commands'[r].kind \in RecoveryKinds => commands'[r].payload \in Attempts
    BY <1>s, CallRows DEF QuietRows, RecoveryAsked, RecoveryKinds
  <1>2. ASSUME rpc # "none", rpc' # "none", rjob'.req = rjob.req, rjob'.att = rjob.att
        PROVE  RecoveryAsked'
    <2>1. rjob.req \in ReqIds /\ commands[rjob.req].kind \in RecoveryKinds
      BY <1>2 DEF Named, RecoveryAsked
    <2>2. /\ commands'[rjob.req].kind = commands[rjob.req].kind
          /\ commands'[rjob.req].payload = commands[rjob.req].payload
          /\ commands'[rjob.req].ack = commands[rjob.req].ack
      BY <1>s, <1>2, <2>1, CallRows DEF QuietRows, RecoveryKinds
    <2> QED BY <1>1, <1>2, <2>2 DEF RecoveryAsked
  <1>3. CASE rpc' = "none"
    BY <1>1, <1>3 DEF RecoveryAsked
  <1>4. CASE UNCHANGED recoveryVars
    BY <1>2, <1>3, <1>4 DEF recoveryVars
  <1>5. CASE ProcessEnds
    BY <1>3, <1>5 DEF ProcessEnds
  <1>6. CASE RecoveryStep
    <2>1. rjob \in RecoveryType
      BY DEF LifeTypeOK, RecoveryType
    <2> QED BY <1>2, <1>3, <1>6, <2>1, RecoveryKeeps
  <1>7. ASSUME NEW r \in ReqIds, NEW kind \in RecoveryKinds, NEW a \in Attempts,
               AcceptRecovery(r, kind, a)
        PROVE  RecoveryAsked'
    <2>1. /\ rjob'.req = r /\ rjob'.att = a
          /\ \/ SubmitRecovery(r, kind, a)
             \/ /\ commands[r] = [kind |-> kind, payload |-> a, ack |-> "accepted"]
                /\ UNCHANGED storeVars
      BY <1>7 DEF AcceptRecovery, NoRecovery
    <2>2. commands'[r].kind = kind /\ commands'[r].payload = a /\ commands'[r].ack = "accepted"
      <3>1. CASE SubmitRecovery(r, kind, a)
        BY <3>1, RecoveryRows DEF LifeTypeOK, Records
      <3>2. CASE /\ commands[r] = [kind |-> kind, payload |-> a, ack |-> "accepted"]
                 /\ UNCHANGED storeVars
        BY <3>2 DEF storeVars
      <3> QED BY <2>1, <3>1, <3>2
    <2> QED BY <1>1, <2>1, <2>2 DEF RecoveryAsked
  <1> QED BY <1>4, <1>5, <1>6, <1>7, LoopAlone, OthersAlone DEF LifeNext

\* Releases are never taken back.
LEMMA ReleasedStays ==
    ASSUME AttemptEffect
    PROVE  released \subseteq released'
  BY DEF AttemptEffect, AttemptsKept, Resets, Opens, Posts, Frees, Closes, Guards, Finalizes

\* Only finalized work is counted or completes a handoff.
LEMMA WorkStep ==
    ASSUME LifeTypeOK, PlanInv, Named, LoopPlaced, RecoveryPlaced, Announced, InOrder,
           FinalizedWorkOnly, [LifeNext]_vars
    PROVE  FinalizedWorkOnly'
  <1>s. StoreCall
    BY StoreCalls
  <1>e. AttemptEffect
    BY LifeEffects
  <1>o. None \notin Outcomes /\ job.outcome \in Outcomes /\ rjob.outcome \in Outcomes
    BY OutcomeAssumption DEF LifeTypeOK
  <1>t. TypeOK /\ PlanFacts
    BY PlanFactsEquiv DEF LifeTypeOK
  <1>1. ASSUME NEW a \in Attempts, counted'[a] # None PROVE ledger'[a] # None
    <2>1. ledger[a] # None
      <3>1. CASE counted[a] # None
        BY <3>1 DEF FinalizedWorkOnly
      <3>2. CASE counted[a] = None
        <4>1. counted'[a] # counted[a]
          BY <1>1, <3>2
        <4>2. CASE CountCall
          <5>1. PICK b \in Attempts : /\ CountAttempt(b)
                                      /\ \/ pc \in {"count", "recount"} /\ b = job.att
                                         \/ rpc = "count" /\ b = rjob.att
            BY <4>2 DEF CountCall
          <5>2. a = b
            BY <1>t, <4>1, <5>1, CountQuiet
          <5> QED BY <1>o, <5>1, <5>2 DEF LoopPlaced, Entered, RecoveryPlaced, RecoveryEntered
        <4>3. CASE ~CountCall
          <5>1. QuietCall \/ StopCall => counted' = counted
            BY <1>t, QuietCalls, StopsQuiet DEF StopCall
          <5>2. HandoffCall \/ SettleCall => counted' = counted
            BY DEF HandoffCall, CompleteHandoff, SettleHandoff, SettleCall, SettleRecovery
          <5> QED BY <1>s, <4>1, <4>3, <5>1, <5>2 DEF StoreCall
        <4> QED BY <4>2, <4>3
      <3> QED BY <3>1, <3>2
    <2> QED BY <1>e, <2>1, FinalizedStays
  <1>2. ASSUME NEW a \in Attempts, ledger[a] = "handoff", a \in released
        PROVE  ledger'[a] = "handoff" /\ a \in released'
    <2>1. ledger[a] # None
      BY <1>2, OutcomeAssumption DEF Outcomes
    <2> QED BY <1>e, <1>2, <2>1, FinalizedStays, ReleasedStays
  <1>3. ASSUME NEW r \in ReqIds, commands'[r].kind = "handoff", commands'[r].ack = "completed"
        PROVE  \E a \in Attempts : ledger'[a] = "handoff" /\ a \in released'
    <2>1. CASE commands[r].kind = "handoff" /\ commands[r].ack = "completed"
      BY <1>2, <2>1 DEF FinalizedWorkOnly
    <2>2. CASE HandoffCall
      <3>1. PICK a \in Attempts : ledger[a] = "handoff"
        BY <2>2 DEF HandoffCall, LoopPlaced, Entered, RecoveryPlaced, RecoveryEntered, Named,
                    Attemptless
      <3>2. a \in released
        BY <3>1, OutcomeAssumption DEF InOrder, Outcomes
      <3> QED BY <1>2, <3>1, <3>2
    <2> QED BY <1>s, <1>3, <2>1, <2>2, CallRows DEF QuietRows, RecoveryKinds
  <1> QED BY <1>1, <1>3 DEF FinalizedWorkOnly

\* A completed recovery stays true.
LEMMA TruthStep ==
    ASSUME LifeTypeOK, PlanInv, Named, LoopPlaced, RecoveryPlaced, RecoveryAsked, Announced, InOrder,
           RecoveryTruthful, [LifeNext]_vars
    PROVE  RecoveryTruthful'
  <1>s. StoreCall
    BY StoreCalls
  <1>e. AttemptEffect
    BY LifeEffects
  <1>1. ASSUME NEW a \in Attempts, ledger[a] # None, checkpoint.att # a
        PROVE  ledger'[a] # None /\ checkpoint'.att # a
    BY <1>e, <1>1, FinalizedStays
  <1>2. ASSUME NEW r \in ReqIds, commands'[r].kind \in RecoveryKinds, commands'[r].ack = "completed"
        PROVE  ledger'[commands'[r].payload] # None /\ checkpoint'.att # commands'[r].payload
    <2>1. CASE /\ commands[r].kind \in RecoveryKinds /\ commands[r].ack = "completed"
               /\ commands'[r].payload = commands[r].payload
      BY <1>1, <2>1 DEF RecoveryTruthful, RecoveryAsked
    <2>2. CASE /\ rpc = "settle" /\ r = rjob.req /\ commands'[r].ack = SettledAck
               /\ commands'[r].payload = commands[r].payload
      <3>1. rjob.done
        BY <1>2, <2>2 DEF SettledAck
      <3>2. rjob.att \in Attempts /\ checkpoint.att # rjob.att /\ ledger[rjob.att] # None
        BY <2>2, <3>1 DEF RecoveryPlaced, Named
      <3>3. commands'[r].payload = rjob.att
        BY <2>2 DEF RecoveryAsked
      <3> QED BY <1>1, <3>2, <3>3
    <2> QED BY <1>s, <1>2, <2>1, <2>2, CallRows DEF QuietRows, RecoveryKinds
  <1> QED BY <1>2 DEF RecoveryTruthful

-----------------------------------------------------------------------------
(* The invariant                                                           *)

\* Nothing is claimed and nobody works at first.
LEMMA LifeInvInit == LifeInit => LifeInv
  <1> SUFFICES ASSUME LifeInit PROVE LifeInv
    OBVIOUS
  <1>1. LifeTypeOK /\ PlanInv /\ Named
    BY CallInvInit DEF CallInv
  <1>2. LoopPlaced /\ RecoveryPlaced /\ Announced
    BY DEF LifeInit, LoopPlaced, Opened, Entered, RecoveryPlaced, RecoveryOpened, RecoveryEntered,
           Announced, LoopAnnounced, RecoveryAnnounced, NoJob, NoRecovery
  <1>3. RecoveryAsked /\ RecoveryTruthful
    BY DEF LifeInit, StoreInit, RecoveryAsked, RecoveryTruthful, NoCommand, RecoveryKinds
  <1>4. InOrder /\ NoAttemptLost
    BY DEF LifeInit, InOrder, NoAttemptLost
  <1>5. errors.last = None /\ errors.count = 0
    BY DEF LifeInit
  <1>6. Guarded
    BY <1>5, GuardableFinite DEF Guarded
  <1>7. FinalizedWorkOnly
    BY DEF LifeInit, StoreInit, FinalizedWorkOnly, NoCommand
  <1> QED BY <1>1, <1>2, <1>3, <1>4, <1>6, <1>7 DEF LifeInv

\* Every step keeps the invariant, calls the store from the place it may be
\* called from, and does one thing to the attempts.
LEMMA LifeInvStep ==
    IdleRecovery /\ LifeInv /\ [LifeNext]_vars => LifeInv' /\ StoreCall /\ AttemptEffect
  <1> SUFFICES ASSUME IdleRecovery, LifeInv, [LifeNext]_vars
               PROVE  LifeInv' /\ StoreCall /\ AttemptEffect
    OBVIOUS
  <1>i. /\ LifeTypeOK /\ PlanInv /\ Named
        /\ LoopPlaced /\ RecoveryPlaced /\ RecoveryAsked
        /\ InOrder /\ Announced /\ Guarded
        /\ NoAttemptLost /\ FinalizedWorkOnly /\ RecoveryTruthful
    BY DEF LifeInv
  <1>1. LifeTypeOK' /\ PlanInv' /\ Named'
    BY <1>i, CallInvStep DEF CallInv
  <1>2. StoreCall /\ AttemptEffect
    BY <1>i, StoreCalls, LifeEffects
  <1>3. LoopPlaced' /\ RecoveryPlaced' /\ Announced'
    BY <1>i, <1>1, PlacedStep DEF Announced
  <1>4. RecoveryAsked'
    BY <1>i, AskedStep
  <1>5. InOrder' /\ NoAttemptLost'
    BY <1>i, <1>1, <1>2, OrderStep
  <1>6. Guarded'
    BY <1>i, <1>1, <1>2, GuardStep
  <1>7. FinalizedWorkOnly' /\ RecoveryTruthful'
    BY <1>i, WorkStep, TruthStep
  <1> QED BY <1>1, <1>2, <1>3, <1>4, <1>5, <1>6, <1>7 DEF LifeInv

\* The invariant of the lifecycle whose recovery commands find the loop idle.
LEMMA LifeInvariant ==
    ASSUME IdleRecovery
    PROVE  LifeSpec => []LifeInv
  <1>1. LifeInv /\ [LifeNext]_vars => LifeInv'
    BY LifeInvStep
  <1> QED BY <1>1, LifeInvInit, PTL DEF LifeSpec

\* A claimed attempt keeps its checkpoint until the ledger has it, through every
\* crash, hold, replay and recovery command (attempt_state.start, the completion
\* boundary of run_once, _reconcile_startup).
THEOREM NoAttemptLostHolds ==
    ASSUME IdleRecovery
    PROVE  LifeSpec => []NoAttemptLost
  <1>1. LifeInv => NoAttemptLost
    BY DEF LifeInv
  <1> QED BY <1>1, LifeInvariant, PTL

\* Only finalized attempts count against a stop --after, and only one published
\* as a handoff and released completes a handoff (record_attempt_finalized,
\* _resolve_pending_handoff).
THEOREM FinalizedWorkOnlyHolds ==
    ASSUME IdleRecovery
    PROVE  LifeSpec => []FinalizedWorkOnly
  <1>1. LifeInv => FinalizedWorkOnly
    BY DEF LifeInv
  <1> QED BY <1>1, LifeInvariant, PTL

\* A recovery command reported as completed finalized its attempt and removed
\* its hold (submit_recovery_retry, submit_recovery_release).
THEOREM RecoveryTruthfulHolds ==
    ASSUME IdleRecovery
    PROVE  LifeSpec => []RecoveryTruthful
  <1>1. LifeInv => RecoveryTruthful
    BY DEF LifeInv
  <1> QED BY <1>1, LifeInvariant, PTL

\* The guard counts an attempt at most once, and only after its release,
\* whatever is replayed between guard, ledger and checkpoint
\* (ConsecutiveErrorStore.record, _record_terminal_outcome).
THEOREM ErrorsCountedOnceHolds ==
    ASSUME IdleRecovery
    PROVE  LifeSpec => []ErrorsCountedOnce
  <1>1. LifeInv => ErrorsCountedOnce
    <2> SUFFICES ASSUME LifeInv PROVE ErrorsCountedOnce
      OBVIOUS
    <2>1. /\ InOrder /\ Guarded
          /\ released \subseteq Attempts
          /\ errors.count \in Nat /\ errors.last \in Attempts \cup {None}
      BY DEF LifeInv, LifeTypeOK
    <2>2. Guardable \subseteq released
      BY <2>1, NoneAssumption DEF Guardable, InOrder, Guarded
    <2>3. IsFiniteSet(released)
      BY <2>1, SizeAssumption, FS_Subset
    <2>4. Cardinality(Guardable) <= Cardinality(released)
      BY <2>2, <2>3, FS_Subset
    <2>5. Cardinality(Guardable) \in Nat /\ Cardinality(released) \in Nat
      BY <2>3, GuardableFinite, FS_CardinalityType
    <2>6. errors.count <= Cardinality(Guardable)
      BY <2>1 DEF Guarded
    <2> QED BY <2>1, <2>4, <2>5, <2>6 DEF ErrorsCountedOnce
  <1> QED BY <1>1, LifeInvariant, PTL

-----------------------------------------------------------------------------
(* Steps                                                                   *)

\* The step of StopsWait.
StopWaits ==
    \A r \in ReqIds :
       /\ commands[r].kind = "stop" /\ commands[r].ack = "accepted"
       /\ commands'[r].ack = "completed"
       => Unfinished = None \/ HandoffSettles

\* Each call that releases a waiting stop is made with no attempt open, or
\* settles the handoff the stop waits with.
LEMMA StopWaitsStep == LifeInv /\ StoreCall => StopWaits
  <1> SUFFICES ASSUME LifeInv, StoreCall PROVE StopWaits
    OBVIOUS
  <1>i. LifeTypeOK /\ TypeOK /\ PlanInv /\ Named /\ LoopPlaced /\ RecoveryPlaced
    BY DEF LifeInv, LifeTypeOK
  <1>o. None \notin Outcomes /\ job.outcome \in Outcomes /\ rjob.outcome \in Outcomes
    BY <1>i, OutcomeAssumption DEF LifeTypeOK
  <1>k. StopsKept => StopWaits
    BY DEF StopsKept, StopWaits
  <1>h. HandoffSettles => StopWaits
    BY DEF StopWaits
  <1>u. Unfinished = None => StopWaits
    BY DEF StopWaits
  <1>1. CASE QuietCall
    BY <1>i, <1>1, <1>k, <1>h, QuietCalls
  <1>2. CASE StopCall
    BY <1>2, <1>u DEF StopCall, Unfinished
  <1>3. CASE CountCall
    <2>1. ledger[checkpoint.att] # None
      BY <1>i, <1>o, <1>3 DEF CountCall, LoopPlaced, RecoveryPlaced, Entered, RecoveryEntered
    <2> QED BY <2>1, <1>u DEF Unfinished
  <1>4. CASE HandoffCall
    <2>1. PICK r \in ReqIds : CompleteHandoff(r)
      BY <1>4 DEF HandoffCall
    <2> QED BY <1>i, <2>1, <1>h, HandoffQuiet DEF CompleteHandoff
  <1>5. CASE SettleCall
    <2>1. rjob.req \in ReqIds /\ SettleRecovery(rjob.req, SettledAck)
      BY <1>i, <1>5 DEF SettleCall, SettledAck, Named
    <2>2. SettledAck \in {"completed", "not_fulfilled"}
      BY DEF SettledAck
    <2> QED BY <1>i, <2>1, <2>2, <1>k, SettleQuiet
  <1> QED BY <1>1, <1>2, <1>3, <1>4, <1>5 DEF StoreCall

\* A plain stop waits for the attempt that was open when it was accepted, or for
\* its handoff (complete_pending_stop, record_attempt_finalized, fail_handoff).
THEOREM StopsWaitHolds ==
    ASSUME IdleRecovery
    PROVE  LifeSpec => StopsWait
  <1>1. LifeInv /\ [LifeNext]_vars => StopWaits
    BY LifeInvStep, StopWaitsStep
  <1>2. LifeSpec => [][StopWaits]_vars
    BY <1>1, LifeInvariant, PTL DEF LifeSpec
  <1>3. StopWaits => \A r \in ReqIds :
          /\ commands[r].kind = "stop" /\ commands[r].ack = "accepted"
          /\ commands'[r].ack = "completed"
          => \/ Unfinished = None
             \/ \E h \in ReqIds : /\ commands[h].kind = "handoff"
                                  /\ commands[h].ack = "accepted"
                                  /\ commands'[h].ack # "accepted"
    BY DEF StopWaits, HandoffSettles
  <1> QED BY <1>2, <1>3, PTL DEF StopsWait

-----------------------------------------------------------------------------
(* The lifecycle implements AttemptLife                                    *)

\* Which step of AttemptLife a step of the lifecycle is.
LEMMA LifeMaps ==
    LifeInv /\ LifeTypeOK' /\ AttemptEffect => [Life!Next]_(Life!lifeVars)
  <1> SUFFICES ASSUME LifeInv, LifeTypeOK', AttemptEffect
               PROVE  Life!Next \/ UNCHANGED Life!lifeVars
    OBVIOUS
  <1> USE DEF Unfinished
  <1>t. /\ checkpoint \in CheckpointType /\ checkpoint' \in CheckpointType
        /\ ledger \in [Attempts -> Outcomes \cup {None}]
        /\ InOrder
    BY DEF LifeInv, LifeTypeOK, CheckpointType
  <1>c. /\ checkpoint = NoCheckpoint <=> checkpoint.att = None
        /\ checkpoint' = NoCheckpoint <=> checkpoint'.att = None
    BY <1>t, StartTyped DEF NoCheckpoint, CheckpointType
  <1>o. None \notin Outcomes /\ None \notin Attempts
    BY OutcomeAssumption, NoneAssumption
  <1>1. CASE AttemptsKept \/ Resets
    BY <1>1, <1>c DEF AttemptsKept, Resets, Life!lifeVars
  <1>2. ASSUME NEW a \in Attempts, Opens(a) PROVE Life!Claim(a)
    <2>1. a \notin started /\ checkpoint = NoCheckpoint
      BY <1>2, <1>c DEF Opens
    <2>2. ledger[a] = None
      BY <1>t, <2>1 DEF InOrder
    <2> QED BY <1>2, <1>c, <1>o, <2>1, <2>2 DEF Opens, Life!Claim
  <1>3. ASSUME NEW a \in Attempts, Posts(a) PROVE Life!Announce(a)
    BY <1>3, <1>c, <1>o DEF Posts, WorksOn, Life!Announce
  <1>4. ASSUME NEW a \in Attempts, Frees(a) PROVE Life!Free(a)
    BY <1>4, <1>c, <1>o DEF Frees, WorksOn, Life!Free
  <1>5. ASSUME NEW a \in Attempts, NEW o \in Outcomes, Guards(a, o)
        PROVE  UNCHANGED Life!lifeVars
    BY <1>5, <1>c DEF Guards, WorksOn, Life!lifeVars
  <1>6. ASSUME NEW a \in Attempts, NEW o \in Outcomes, Finalizes(a, o)
        PROVE  Life!Finalize(a)
    <2>1. /\ ledger[a] = None /\ ledger' = [ledger EXCEPT ![a] = o] /\ o # None
          /\ checkpoint.att = a /\ checkpoint'.att = a /\ a \in released
          /\ UNCHANGED <<started, comments, released>>
      BY <1>6, <1>o DEF Finalizes, WorksOn
    <2>2. {b \in Attempts : ledger'[b] # None} = {b \in Attempts : ledger[b] # None} \cup {a}
      BY <1>t, <2>1
    <2>3. ledger'[a] # None
      BY <1>t, <2>1
    <2> QED BY <1>c, <1>o, <2>1, <2>2, <2>3 DEF Life!Finalize
  <1>7. ASSUME NEW a \in Attempts, Closes(a) PROVE UNCHANGED Life!lifeVars
    BY <1>7, <1>c DEF Closes, Life!lifeVars
  <1> QED BY <1>1, <1>2, <1>3, <1>4, <1>5, <1>6, <1>7 DEF AttemptEffect, Life!Next

\* One attempt at a time, announced, released and finalized once, in this order:
\* by the loop, by reconciliation after any crash or by a recovery command.
THEOREM LifeImplementsAttemptLife ==
    ASSUME IdleRecovery
    PROVE  LifeSpec => ImplementsAttemptLife
  <1>1. LifeInit => Life!Init
    BY DEF LifeInit, Life!Init, Unfinished
  <1>2. LifeInv /\ LifeInv' /\ [LifeNext]_vars => [Life!Next]_(Life!lifeVars)
    BY LifeInvStep, LifeMaps DEF LifeInv
  <1> QED BY <1>1, <1>2, LifeInvariant, PTL DEF LifeSpec, ImplementsAttemptLife, Life!Spec
=============================================================================
