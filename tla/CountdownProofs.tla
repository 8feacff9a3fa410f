-------------------------- MODULE CountdownProofs --------------------------
(***************************************************************************)
(* More theorems about the control store: the stop --after countdown, the  *)
(* one-shot priority and the begun handoff.  They rest on the plan         *)
(* invariant and the row lemmas of ControlStoreProofs.                     *)
(***************************************************************************)
EXTENDS ControlStoreProofs, FiniteSetTheorems

-----------------------------------------------------------------------------
(* What a step does to the commands of one kind *)

\* The rows of some kinds stay as they are and no row of those kinds is new.
KeepsKinds(kinds) ==
    \A s \in ReqIds :
       /\ commands'[s].kind \in kinds => commands[s].kind \in kinds
       /\ commands[s].kind \in kinds =>
             /\ commands'[s].kind = commands[s].kind
             /\ commands'[s].payload = commands[s].payload
             /\ commands'[s].ack = commands[s].ack

\* A transaction that records a fresh command of another kind, and supersedes
\* commands of other kinds, keeps the rows of these kinds.
LEMMA RecordsKeeps ==
    ASSUME TypeOK, NEW kinds, "none" \notin kinds,
           NEW S, NEW r \in ReqIds, NEW kind, NEW payload, NEW ack,
           Fresh(r), Records(S, r, kind, payload, ack), kind \notin kinds,
           \A s \in S : commands[s].kind \notin kinds
    PROVE  KeepsKinds(kinds)
  <1>1. commands[r].kind = "none"
    BY DEF Fresh, NoCommand
  <1> QED BY <1>1 DEF Records, KeepsKinds

\* The same for a transaction that only settles commands of other kinds.
LEMMA SettlesKeeps ==
    ASSUME NEW kinds, NEW S, NEW a, Settles(S, a),
           \A s \in S : commands[s].kind \notin kinds
    PROVE  KeepsKinds(kinds)
  BY DEF Settles, KeepsKinds

-----------------------------------------------------------------------------
(* The priority *)

\* PriorityTracked in terms of single fields.
PriorityRows ==
    \A s \in ReqIds :
       commands[s].kind = "next_issue" /\ commands[s].ack = "accepted" <=>
          nextIssue.number = commands[s].payload /\ nextIssue.req = s

\* Every step but the ones about the priority leaves its commands alone.
LEMMA PriorityAlone ==
    ASSUME TypeOK, PlanFacts, [StoreNext]_storeVars
    PROVE  \/ KeepsKinds({"next_issue"}) /\ nextIssue' = nextIssue
           \/ \E r \in ReqIds, issue \in Issues : SubmitNextIssue(r, issue)
           \/ \E ack \in Acks \ {"accepted"} : SettleNextIssue(ack)
  <1> DEFINE Alone == KeepsKinds({"next_issue"}) /\ nextIssue' = nextIssue
  <1>a. \A kinds \in SUBSET PlanKinds : \A s \in Accepted(kinds) : commands[s].kind \notin {"next_issue"}
    BY DEF Accepted, PlanKinds
  <1>k. "none" \notin {"next_issue"}
    OBVIOUS
  <1>c. commands' = commands => KeepsKinds({"next_issue"})
    BY DEF KeepsKinds
  <1>1. ASSUME NEW r \in ReqIds, NEW active \in Attempts \cup {None}, SubmitStop(r, active)
        PROVE  Alone
    <2>0. Fresh(r) /\ nextIssue' = nextIssue
      BY <1>1 DEF SubmitStop, StopWhileStopped, StopWhileStopping, StopWhileRunning
    <2>1. CASE StopWhileStopped(r)
      BY <1>k, <2>0, <2>1, StopRows, RecordsKeeps
    <2>2. CASE StopWhileStopping(r)
      <3>1. \A s \in Joined : commands[s].kind \notin {"next_issue"}
        BY DEF Joined, Accepted
      <3>2. Records(Joined, r, "stop", None, "accepted")
        BY <2>2, StopRows
      <3> QED BY <1>k, <2>0, <3>1, <3>2, RecordsKeeps
    <2>3. CASE StopWhileRunning(r, active)
      <3> DEFINE gone == Accepted({"stop_after"} \cup IF HandoffBegun THEN {} ELSE {"handoff"})
                 ack == IF active # None THEN "accepted" ELSE "completed"
      <3>1. Records(gone, r, "stop", None, ack)
        BY <2>3, StopRows
      <3>2. \A s \in gone : commands[s].kind \notin {"next_issue"}
        BY <1>a DEF PlanKinds
      <3> HIDE DEF gone, ack
      <3> QED BY <1>k, <2>0, <3>1, <3>2, RecordsKeeps
    <2> QED BY <1>1, <2>1, <2>2, <2>3 DEF SubmitStop
  <1>2. ASSUME NEW r \in ReqIds, NEW hold \in BOOLEAN, SubmitResume(r, hold)
        PROVE  Alone
    <2>0. Fresh(r) /\ nextIssue' = nextIssue
      BY <1>2 DEF SubmitResume, ResumeUnderBegunHandoff, ResumeIntake
    <2>1. CASE ResumeUnderBegunHandoff(r)
      BY <1>k, <2>0, <2>1, ResumeRows, RecordsKeeps
    <2>2. CASE ResumeIntake(r)
      <3>1. Records(Accepted(PlanKinds), r, "resume", None, "completed")
        BY <2>2, ResumeRows
      <3> QED BY <1>a, <1>k, <2>0, <3>1, RecordsKeeps
    <2> QED BY <1>2, <2>1, <2>2 DEF SubmitResume
  <1>3. ASSUME NEW r \in ReqIds, NEW n \in Counts, NEW active \in Attempts \cup {None},
               SubmitStopAfter(r, n, active)
        PROVE  Alone
    <2>1. /\ Fresh(r) /\ nextIssue' = nextIssue
          /\ Records(Accepted(PlanKinds), r, "stop_after", n, "accepted")
      BY <1>3, StopAfterRows DEF SubmitStopAfter
    <2> QED BY <1>a, <1>k, <2>1, RecordsKeeps
  <1>4. ASSUME NEW r \in ReqIds, NEW active, NEW hold, SubmitHandoff(r, active, hold)
        PROVE  Alone
    <2>1. /\ Fresh(r) /\ nextIssue' = nextIssue
          /\ Records(Accepted(PlanKinds), r, "handoff", None, "accepted")
      BY <1>4, HandoffRows DEF SubmitHandoff
    <2> QED BY <1>a, <1>k, <2>1, RecordsKeeps
  <1>5. ASSUME NEW r \in ReqIds, NEW ack \in Acks, SettleHandoff(r, ack)
        PROVE  Alone
    <2>1. \A s \in ReqIds :
             /\ commands'[s].kind = commands[s].kind
             /\ commands'[s].payload = commands[s].payload
             /\ commands'[s].ack = IF s = r THEN ack
                                   ELSE IF pending = r /\ s \in Accepted({"stop"})
                                        THEN "completed" ELSE commands[s].ack
      BY <1>5, SettleHandoffRows
    <2>2. commands[r].kind = "handoff" /\ nextIssue' = nextIssue
      BY <1>5 DEF SettleHandoff
    <2> QED BY <2>1, <2>2 DEF KeepsKinds, Accepted
  <1>6. ASSUME NEW r \in ReqIds, NEW kind \in RecoveryKinds, NEW a \in Attempts,
               SubmitRecovery(r, kind, a)
        PROVE  Alone
    <2>1. /\ Fresh(r) /\ nextIssue' = nextIssue /\ Records({}, r, kind, a, "accepted")
      BY <1>6, RecoveryRows DEF SubmitRecovery
    <2> QED BY <1>k, <2>1, RecordsKeeps DEF RecoveryKinds
  <1>7. ASSUME NEW r \in ReqIds, NEW ack \in Acks, SettleRecovery(r, ack)
        PROVE  Alone
    <2>1. /\ commands[r].kind \in RecoveryKinds /\ nextIssue' = nextIssue
          /\ Settles({r}, ack)
      BY <1>7, RecoveryRows DEF SettleRecovery
    <2> QED BY <2>1, SettlesKeeps DEF RecoveryKinds
  <1>8. ASSUME NEW r \in ReqIds, SubmitErrorsReset(r)
        PROVE  Alone
    <2>1. /\ Fresh(r) /\ nextIssue' = nextIssue
          /\ Records({}, r, "errors_reset", None, "completed")
      BY <1>8, RecoveryRows DEF SubmitErrorsReset
    <2> QED BY <1>k, <2>1, RecordsKeeps
  <1>9. ASSUME CompletePendingStop
        PROVE  Alone
    <2>1. Settles(Accepted({"stop"}), "completed") /\ nextIssue' = nextIssue
      BY <1>9, PlainStopRows DEF CompletePendingStop, CompletePlainStops
    <2> QED BY <1>a, <2>1, SettlesKeeps DEF PlanKinds
  <1>11. ASSUME UNCHANGED <<commands, nextIssue>>
         PROVE  Alone
    BY <1>11 DEF KeepsKinds
  <1>10. ASSUME NEW a \in Attempts, CountDown(a)
         PROVE  Alone
    <2> DEFINE S == {s \in ReqIds : s = pending /\ commands[s].ack = "accepted"}
    <2>1. \A s \in S : commands[s].kind \notin {"next_issue"}
      BY <1>10 DEF CountDown, HasPlan, PlanFacts
    <2>2. nextIssue' = nextIssue
      BY <1>10 DEF CountDown
    <2>3. CASE plan.remaining - 1 <= 0
      <3>1. Settles(S, "completed")
        BY <1>10, <2>3, CountDownRows
      <3> HIDE DEF S
      <3> QED BY <2>1, <2>2, <3>1, SettlesKeeps
    <2>4. CASE ~(plan.remaining - 1 <= 0)
      BY <1>10, <1>11, <2>2, <2>4, CountDownRows
    <2> QED BY <2>3, <2>4
  <1>12. \A ack \in {"completed", "not_fulfilled"} : ack \in Acks
    BY DEF Acks
  <1> HIDE DEF Alone
  <1>13. ASSUME NEW r \in ReqIds, OperatorCall(r)
         PROVE  Alone \/ \E issue \in Issues : SubmitNextIssue(r, issue)
    BY <1>13, <1>1, <1>2, <1>3, <1>4, <1>6, <1>8 DEF OperatorCall
  <1>14. ASSUME LifecycleCall
         PROVE  Alone \/ \E ack \in Acks \ {"accepted"} : SettleNextIssue(ack)
    <2>1. ASSUME NEW r \in ReqIds, MarkHandoffDelivering(r) \/ MarkHandoffBegun(r)
          PROVE  Alone
      BY <1>11, <2>1 DEF MarkHandoffDelivering, MarkHandoffBegun
    <2>2. EnterStoppingForFinalClaim => Alone
      BY <1>11 DEF EnterStoppingForFinalClaim
    <2> QED BY <1>14, <1>5, <1>7, <1>9, <1>10, <1>12, <2>1, <2>2
         DEF LifecycleCall, CompleteHandoff, FailHandoff, CompleteNextIssue, FailNextIssue,
             CountAttempt
  <1>15. UNCHANGED storeVars => Alone
    BY <1>11 DEF storeVars
  <1> QED BY <1>13, <1>14, <1>15 DEF StoreNext, Alone

\* Every step keeps the priority and its command together.
LEMMA PriorityStep ==
    ASSUME TypeOK, TypeOK', PlanFacts, PriorityRows, [StoreNext]_storeVars
    PROVE  PriorityRows'
  <1> USE NoneAssumption
  <1>t. /\ nextIssue.req # None => nextIssue.req \in ReqIds
        /\ \A s \in ReqIds : Fresh(s) => commands[s].ack = "none" /\ commands[s].kind = "none"
    BY DEF TypeOK, Fresh, NoCommand
  <1>1. CASE KeepsKinds({"next_issue"}) /\ nextIssue' = nextIssue
    BY <1>1, <1>t DEF KeepsKinds, PriorityRows, PlanFacts
  <1>2. ASSUME NEW r \in ReqIds, NEW issue \in Issues, SubmitNextIssue(r, issue)
        PROVE  PriorityRows'
    <2>1. Fresh(r) /\ nextIssue' = [number |-> issue, req |-> r]
      BY <1>2 DEF SubmitNextIssue
    <2>2. Records(OldPriority, r, "next_issue", issue, "accepted")
      BY <1>2, NextIssueRows
    <2> QED BY <1>t, <2>1, <2>2 DEF Records, OldPriority, PriorityRows
  <1>3. ASSUME NEW ack \in Acks \ {"accepted"}, SettleNextIssue(ack)
        PROVE  PriorityRows'
    <2>1. Settles(OldPriority, ack)
      BY <1>3, SettleNextIssueRows
    <2>2. nextIssue' = NoNextIssue
      BY <1>3 DEF SettleNextIssue
    <2> QED BY <1>t, <2>1, <2>2 DEF Settles, OldPriority, PriorityRows, NoNextIssue
  <1> QED BY <1>1, <1>2, <1>3, PriorityAlone

\* The pending priority is the one accepted next-issue command, whatever
\* replaces, consumes or fails it.
THEOREM PriorityTrackedHolds == StoreSpec => []PriorityTracked
  <1>1. StoreInit => PriorityRows
    BY NoneAssumption DEF StoreInit, PriorityRows, NoNextIssue, NoCommand
  <1>2. PlanInv => TypeOK /\ PlanFacts
    BY PlanFactsEquiv DEF PlanInv
  <1>3. TypeOK /\ PlanFacts /\ TypeOK' /\ PriorityRows /\ [StoreNext]_storeVars
           => PriorityRows'
    BY PriorityStep
  <1>4. TypeOK /\ PriorityRows => PriorityTracked
    BY DEF TypeOK, PriorityRows, PriorityTracked
  <1> QED BY <1>1, <1>2, <1>3, <1>4, PlanInvariant, PTL DEF StoreSpec

-----------------------------------------------------------------------------
(* The countdown *)

\* CountdownExact without what PlanFacts says already, and the fact that makes
\* it inductive: attempts are counted under stop --after commands only, so a
\* fresh request id starts with none.
CountFacts ==
    /\ \A a \in Attempts : counted[a] # None => commands[counted[a]].kind = "stop_after"
    /\ HasPlan => /\ plan.requested = commands[pending].payload
                  /\ plan.remaining + Cardinality(CountedUnder(pending)) = plan.requested
    /\ \A s \in ReqIds :
          commands[s].kind = "stop_after" /\ commands[s].ack = "completed" =>
             Cardinality(CountedUnder(s)) = commands[s].payload

\* No stop --after command is new, and none completes.
NoneCompletes ==
    \A s \in ReqIds :
       /\ commands'[s].kind = "stop_after" => commands[s].kind = "stop_after"
       /\ commands[s].kind = "stop_after" =>
             /\ commands'[s].kind = "stop_after"
             /\ commands'[s].payload = commands[s].payload
             /\ commands'[s].ack = "completed" => commands[s].ack = "completed"

CountAlone ==
    /\ NoneCompletes
    /\ counted' = counted
    /\ HasPlan' => HasPlan /\ plan' = plan /\ pending' = pending

\* Recording a fresh command of another kind completes no countdown.
LEMMA RecordsCompletesNone ==
    ASSUME NEW S, NEW r \in ReqIds, NEW kind, NEW payload, NEW ack,
           Fresh(r), Records(S, r, kind, payload, ack), kind # "stop_after"
    PROVE  NoneCompletes
  <1>1. commands[r].kind = "none"
    BY DEF Fresh, NoCommand
  <1> QED BY <1>1 DEF Records, NoneCompletes

\* Nor does settling commands of other kinds.
LEMMA SettlesCompletesNone ==
    ASSUME NEW S, NEW a, Settles(S, a), \A s \in S : commands[s].kind # "stop_after"
    PROVE  NoneCompletes
  BY DEF Settles, NoneCompletes

\* A step that replaces the pending command by one of another kind, or drops
\* it, leaves no countdown.
LEMMA CountdownLeft ==
    ASSUME PlanFacts', NEW r \in ReqIds, commands'[r].kind # "stop_after",
           pending' \in {pending, None, r}, plan' \in {plan, NoPlan}
    PROVE  HasPlan' => HasPlan /\ plan' = plan /\ pending' = pending
  <1>1. HasPlan' => pending' # None /\ commands'[pending'].kind = "stop_after"
    BY DEF PlanFacts, HasPlan
  <1>2. HasPlan' => plan' = plan
    BY DEF HasPlan, NoPlan
  <1> QED BY <1>1, <1>2 DEF HasPlan

\* A new countdown, a count, or a step that has nothing to do with either.
LEMMA CountCases ==
    ASSUME TypeOK, PlanFacts, PlanFacts', [StoreNext]_storeVars
    PROVE  \/ CountAlone
           \/ \E r \in ReqIds, n \in Counts, active \in Attempts \cup {None} :
                 SubmitStopAfter(r, n, active)
           \/ \E a \in Attempts : counted[a] = None /\ CountDown(a)
  <1>1. ASSUME NEW r \in ReqIds, NEW active \in Attempts \cup {None}, SubmitStop(r, active)
        PROVE  CountAlone
    <2>0. /\ Fresh(r) /\ counted' = counted /\ pending' \in {pending, None, r}
          /\ plan' \in {plan, NoPlan}
      BY <1>1 DEF SubmitStop, StopWhileStopped, StopWhileStopping, StopWhileRunning
    <2>1. \E S, ack : Records(S, r, "stop", None, ack)
      BY <1>1, StopRows DEF SubmitStop
    <2>2. NoneCompletes
      BY <2>0, <2>1, RecordsCompletesNone
    <2>3. commands'[r].kind = "stop"
      BY <2>1 DEF Records
    <2> QED BY <2>0, <2>2, <2>3, CountdownLeft DEF CountAlone
  <1>2. ASSUME NEW r \in ReqIds, NEW hold \in BOOLEAN, SubmitResume(r, hold)
        PROVE  CountAlone
    <2>0. /\ Fresh(r) /\ counted' = counted /\ pending' \in {pending, None, r}
          /\ plan' \in {plan, NoPlan}
      BY <1>2 DEF SubmitResume, ResumeUnderBegunHandoff, ResumeIntake
    <2>1. \E S, ack : Records(S, r, "resume", None, ack)
      BY <1>2, ResumeRows DEF SubmitResume
    <2>2. NoneCompletes
      BY <2>0, <2>1, RecordsCompletesNone
    <2>3. commands'[r].kind = "resume"
      BY <2>1 DEF Records
    <2> QED BY <2>0, <2>2, <2>3, CountdownLeft DEF CountAlone
  <1>3. ASSUME NEW r \in ReqIds, NEW issue \in Issues, SubmitNextIssue(r, issue)
        PROVE  CountAlone
    <2>1. Fresh(r) /\ Records(OldPriority, r, "next_issue", issue, "accepted")
      BY <1>3, NextIssueRows DEF SubmitNextIssue
    <2> QED BY <1>3, <2>1, RecordsCompletesNone DEF SubmitNextIssue, CountAlone, HasPlan
  <1>4. ASSUME NEW r \in ReqIds, NEW active, NEW hold, SubmitHandoff(r, active, hold)
        PROVE  CountAlone
    <2>1. Fresh(r) /\ Records(Accepted(PlanKinds), r, "handoff", None, "accepted")
      BY <1>4, HandoffRows DEF SubmitHandoff
    <2> QED BY <1>4, <2>1, RecordsCompletesNone DEF SubmitHandoff, CountAlone, HasPlan, NoPlan
  <1>5. ASSUME NEW r \in ReqIds, NEW kind \in RecoveryKinds, NEW a \in Attempts,
               SubmitRecovery(r, kind, a)
        PROVE  CountAlone
    <2>1. Fresh(r) /\ Records({}, r, kind, a, "accepted") /\ kind # "stop_after"
      BY <1>5, RecoveryRows DEF SubmitRecovery, RecoveryKinds
    <2>2. NoneCompletes
      BY <2>1, RecordsCompletesNone
    <2> QED BY <1>5, <2>2 DEF SubmitRecovery, CountAlone, HasPlan
  <1>6. ASSUME NEW r \in ReqIds, SubmitErrorsReset(r)
        PROVE  CountAlone
    <2>1. Fresh(r) /\ Records({}, r, "errors_reset", None, "completed")
      BY <1>6, RecoveryRows DEF SubmitErrorsReset
    <2>2. NoneCompletes
      BY <2>1, RecordsCompletesNone
    <2> QED BY <1>6, <2>2 DEF SubmitErrorsReset, CountAlone, HasPlan
  <1>7. ASSUME NEW r \in ReqIds, NEW ack \in Acks, SettleHandoff(r, ack)
        PROVE  CountAlone
    <2>1. \A s \in ReqIds :
             /\ commands'[s].kind = commands[s].kind
             /\ commands'[s].payload = commands[s].payload
             /\ commands'[s].ack = IF s = r THEN ack
                                   ELSE IF pending = r /\ s \in Accepted({"stop"})
                                        THEN "completed" ELSE commands[s].ack
      BY <1>7, SettleHandoffRows
    <2>2. commands[r].kind = "handoff" /\ counted' = counted /\ plan' = plan
      BY <1>7 DEF SettleHandoff
    <2>3. NoneCompletes
      BY <2>1, <2>2 DEF NoneCompletes, Accepted
    <2>4. pending' \in {pending, None}
      BY <1>7 DEF SettleHandoff
    <2>5. commands'[r].kind # "stop_after"
      BY <2>1, <2>2
    <2> QED BY <2>2, <2>3, <2>4, <2>5, CountdownLeft DEF CountAlone
  <1>8. ASSUME NEW r \in ReqIds, NEW ack \in Acks, SettleRecovery(r, ack)
        PROVE  CountAlone
    <2>1. commands[r].kind \in RecoveryKinds /\ Settles({r}, ack)
      BY <1>8, RecoveryRows DEF SettleRecovery
    <2>2. NoneCompletes
      BY <2>1, SettlesCompletesNone DEF RecoveryKinds
    <2> QED BY <1>8, <2>2 DEF SettleRecovery, CountAlone, HasPlan
  <1>9. ASSUME NEW ack \in Acks, SettleNextIssue(ack)
        PROVE  CountAlone
    <2>1. Settles(OldPriority, ack)
      BY <1>9, SettleNextIssueRows
    <2>2. \A s \in OldPriority : commands[s].kind # "stop_after"
      BY NoneAssumption DEF OldPriority, PlanFacts
    <2> QED BY <1>9, <2>1, <2>2, SettlesCompletesNone DEF SettleNextIssue, CountAlone, HasPlan
  <1>10. ASSUME CompletePendingStop
         PROVE  CountAlone
    <2>1. Settles(Accepted({"stop"}), "completed")
      BY <1>10, PlainStopRows DEF CompletePendingStop
    <2>2. \A s \in Accepted({"stop"}) : commands[s].kind # "stop_after"
      BY DEF Accepted
    <2>3. NoneCompletes
      BY <2>1, <2>2, SettlesCompletesNone
    <2>4. ~HasPlan'
      BY <1>10 DEF CompletePendingStop, CompletePlainStops, HasPlan, PlanFacts
    <2> QED BY <1>10, <2>3, <2>4 DEF CompletePendingStop, CompletePlainStops, CountAlone
  <1>11. ASSUME UNCHANGED <<commands, counted, plan, pending>>
         PROVE  CountAlone
    BY <1>11 DEF CountAlone, NoneCompletes, HasPlan
  <1>12. \A ack \in {"completed", "not_fulfilled"} : ack \in Acks
    BY DEF Acks
  <1>13. ASSUME NEW r \in ReqIds, OperatorCall(r)
         PROVE  \/ CountAlone
                \/ \E n \in Counts, active \in Attempts \cup {None} : SubmitStopAfter(r, n, active)
    BY <1>13, <1>1, <1>2, <1>3, <1>4, <1>5, <1>6 DEF OperatorCall
  <1>14. ASSUME LifecycleCall
         PROVE  CountAlone \/ \E a \in Attempts : counted[a] = None /\ CountDown(a)
    <2>1. ASSUME NEW r \in ReqIds, MarkHandoffDelivering(r) \/ MarkHandoffBegun(r)
          PROVE  CountAlone
      BY <1>11, <2>1 DEF MarkHandoffDelivering, MarkHandoffBegun
    <2>2. EnterStoppingForFinalClaim => CountAlone
      BY <1>11 DEF EnterStoppingForFinalClaim
    <2> QED BY <1>14, <1>7, <1>8, <1>9, <1>10, <1>12, <2>1, <2>2
         DEF LifecycleCall, CompleteHandoff, FailHandoff, CompleteNextIssue, FailNextIssue,
             CountAttempt
  <1>15. UNCHANGED storeVars => CountAlone
    BY <1>11 DEF storeVars
  <1> QED BY <1>13, <1>14, <1>15 DEF StoreNext

\* The attempts counted under a request are finitely many.
LEMMA CountedFinite ==
    ASSUME NEW r
    PROVE  IsFiniteSet(CountedUnder(r)) /\ Cardinality(CountedUnder(r)) \in Nat
  <1>1. CountedUnder(r) \subseteq Attempts
    BY DEF CountedUnder
  <1>2. IsFiniteSet(CountedUnder(r))
    BY <1>1, SizeAssumption, FS_Subset
  <1> QED BY <1>2, FS_CardinalityType

\* Every step keeps the countdown exact.
LEMMA CountStep ==
    ASSUME TypeOK, TypeOK', PlanFacts, PlanFacts', CountFacts, [StoreNext]_storeVars
    PROVE  CountFacts'
  <1> USE NoneAssumption
  <1>t. /\ pending # None => pending \in ReqIds
        /\ \A a \in Attempts : counted[a] # None => counted[a] \in ReqIds
        /\ \A s \in ReqIds : Fresh(s) => commands[s].ack = "none" /\ commands[s].kind = "none"
    BY DEF TypeOK, Fresh, NoCommand
  <1>f. \A r : Cardinality(CountedUnder(r)) \in Nat
    BY CountedFinite
  <1>1. CASE CountAlone
    <2>1. \A r : CountedUnder(r)' = CountedUnder(r)
      BY <1>1 DEF CountAlone, CountedUnder
    <2>2. HasPlan => pending \in ReqIds /\ commands[pending].kind = "stop_after"
      BY <1>t DEF HasPlan, PlanFacts
    <2>3. \A a \in Attempts : counted'[a] # None => commands'[counted'[a]].kind = "stop_after"
      BY <1>1, <1>t DEF CountAlone, NoneCompletes, CountFacts
    <2>4. HasPlan' => /\ plan'.requested = commands'[pending'].payload
                      /\ plan'.remaining + Cardinality(CountedUnder(pending)') = plan'.requested
      BY <1>1, <2>1, <2>2 DEF CountAlone, NoneCompletes, CountFacts
    <2>5. ASSUME NEW s \in ReqIds, commands'[s].kind = "stop_after", commands'[s].ack = "completed"
          PROVE  Cardinality(CountedUnder(s)') = commands'[s].payload
      BY <1>1, <2>1, <2>5 DEF CountAlone, NoneCompletes, CountFacts
    <2> QED BY <2>3, <2>4, <2>5 DEF CountFacts
  <1>2. ASSUME NEW r \in ReqIds, NEW n \in Counts, NEW active \in Attempts \cup {None},
               SubmitStopAfter(r, n, active)
        PROVE  CountFacts'
    <2>1. /\ Fresh(r) /\ counted' = counted /\ pending' = r
          /\ plan'.requested = n /\ plan'.remaining = n
      BY <1>2 DEF SubmitStopAfter
    <2>2. Records(Accepted(PlanKinds), r, "stop_after", n, "accepted")
      BY <1>2, StopAfterRows
    <2>3. \A a \in Attempts : counted[a] # r
      BY <1>t, <2>1 DEF CountFacts
    <2>4. CountedUnder(r)' = {}
      BY <2>1, <2>3 DEF CountedUnder
    <2>5. \A a \in Attempts : counted'[a] # None => commands'[counted'[a]].kind = "stop_after"
      BY <1>t, <2>1, <2>2, <2>3 DEF Records, CountFacts
    <2>6. /\ plan'.requested = commands'[pending'].payload
          /\ plan'.remaining + Cardinality(CountedUnder(r)') = plan'.requested
      BY <2>1, <2>2, <2>4, FS_EmptySet, SizeAssumption DEF Records, Counts
    <2>7. ASSUME NEW s \in ReqIds, commands'[s].kind = "stop_after", commands'[s].ack = "completed"
          PROVE  Cardinality(CountedUnder(s)') = commands'[s].payload
      <3>1. /\ commands[s].kind = "stop_after" /\ commands[s].ack = "completed"
            /\ commands'[s].payload = commands[s].payload
        BY <2>2, <2>7 DEF Records
      <3>2. CountedUnder(s)' = CountedUnder(s)
        BY <2>1 DEF CountedUnder
      <3> QED BY <3>1, <3>2 DEF CountFacts
    <2> QED BY <2>1, <2>5, <2>6, <2>7 DEF CountFacts
  <1>3. ASSUME NEW a \in Attempts, counted[a] = None, CountDown(a)
        PROVE  CountFacts'
    <2>1. /\ pending \in ReqIds /\ commands[pending].kind = "stop_after"
          /\ commands[pending].ack = "accepted" /\ HasPlan
          /\ plan.remaining >= 1 /\ plan.remaining \in Nat /\ plan.requested \in Nat
      BY <1>t, <1>3, SizeAssumption DEF CountDown, HasPlan, PlanFacts, TypeOK
    <2>2. /\ counted'[a] = pending
          /\ \A b \in Attempts \ {a} : counted'[b] = counted[b]
      BY <1>3 DEF CountDown, TypeOK
    <2>3. \A r : r # pending => CountedUnder(r)' = CountedUnder(r) \/ r = None
      BY <1>3, <2>2 DEF CountedUnder
    <2>4. {b \in Attempts : counted'[b] = pending} = CountedUnder(pending) \cup {a}
      <3>1. \A b \in Attempts : counted'[b] = pending <=> counted[b] = pending \/ b = a
        BY <2>2
      <3> QED BY <3>1 DEF CountedUnder
    <2>5. a \notin CountedUnder(pending)
      BY <1>3, <2>1 DEF CountedUnder
    <2>6. Cardinality({b \in Attempts : counted'[b] = pending}) = Cardinality(CountedUnder(pending)) + 1
      BY <2>4, <2>5, CountedFinite, FS_AddElement
    <2>7. \A s \in ReqIds : commands'[s].kind = commands[s].kind /\ commands'[s].payload = commands[s].payload
      BY <1>3, CountDownRows DEF Settles
    <2>8. \A b \in Attempts : counted'[b] # None => commands'[counted'[b]].kind = "stop_after"
      BY <1>t, <2>1, <2>2, <2>7 DEF CountFacts
    <2>9. plan.remaining + Cardinality(CountedUnder(pending)) = commands[pending].payload
      BY <2>1 DEF CountFacts
    <2>10. ASSUME NEW s \in ReqIds, s # pending, commands'[s].kind = "stop_after",
                  commands'[s].ack = "completed"
           PROVE  Cardinality(CountedUnder(s)') = commands'[s].payload
      <3>1. commands[s].ack = "completed"
        BY <1>3, <2>10, CountDownRows DEF Settles
      <3> QED BY <2>3, <2>7, <2>10, <3>1 DEF CountFacts
    <2>11. CASE plan.remaining = 1
      <3>1. plan' = NoPlan
        BY <1>3, <2>11 DEF CountDown
      <3>2. ~HasPlan'
        BY <3>1 DEF HasPlan, NoPlan
      <3>3. Cardinality({b \in Attempts : counted'[b] = pending}) = commands'[pending].payload
        BY <1>f, <2>1, <2>6, <2>7, <2>9, <2>11
      <3> QED BY <2>8, <2>10, <3>2, <3>3 DEF CountFacts, CountedUnder
    <2>12. CASE plan.remaining > 1
      <3>0. ~(plan.remaining - 1 <= 0)
        BY <2>1, <2>12
      <3>1. commands' = commands /\ pending' = pending /\ plan' = [plan EXCEPT !.remaining = plan.remaining - 1]
        BY <1>3, <3>0, CountDownRows DEF CountDown
      <3>2. plan'.requested = plan.requested /\ plan'.remaining = plan.remaining - 1
        BY <3>1 DEF TypeOK
      <3>3. plan'.remaining + Cardinality({b \in Attempts : counted'[b] = pending}) = plan'.requested
        BY <1>f, <2>1, <2>6, <3>2 DEF CountFacts
      <3>4. plan'.requested = commands'[pending'].payload
        BY <2>1, <3>1, <3>2 DEF CountFacts
      <3>5. \A s \in ReqIds : commands'[s].ack = "completed" => s # pending
        BY <2>1, <3>1
      <3> QED BY <2>8, <2>10, <3>1, <3>3, <3>4, <3>5 DEF CountFacts, CountedUnder
    <2> QED BY <2>1, <2>11, <2>12
  <1> QED BY <1>1, <1>2, <1>3, CountCases

\* The countdown of a stop --after is exact, for every N and however often the
\* finalization of an attempt is replayed.
THEOREM CountdownExactHolds == StoreSpec => []CountdownExact
  <1>1. StoreInit => CountFacts
    BY NoneAssumption DEF StoreInit, CountFacts, HasPlan, NoPlan, NoCommand
  <1>2. PlanInv => TypeOK /\ PlanFacts
    BY PlanFactsEquiv DEF PlanInv
  <1>3. TypeOK /\ PlanFacts /\ (TypeOK /\ PlanFacts)' /\ CountFacts /\ [StoreNext]_storeVars
           => CountFacts'
    BY CountStep
  <1>4. PlanFacts /\ CountFacts => CountdownExact
    BY DEF PlanFacts, CountFacts, CountdownExact, HasPlan
  <1> QED BY <1>1, <1>2, <1>3, <1>4, PlanInvariant, PTL DEF StoreSpec

-----------------------------------------------------------------------------
(* The begun handoff *)

\* The handoff keeps the pending slot and the stopping intake.
HandoffKept ==
    /\ handoff'.req = handoff.req
    /\ handoff'.begun
    /\ commands'[handoff.req].ack = "accepted"
    /\ pending' = handoff.req
    /\ intake' = "stopping"

\* The body of BegunHandoffKept.
BegunStep ==
    HandoffBegun =>
       \/ HandoffKept
       \/ /\ commands'[handoff.req].ack \in {"completed", "not_fulfilled"}
          /\ intake' = "stopped"

\* Every step keeps a begun handoff or settles it.
LEMMA StepBegun ==
    ASSUME TypeOK, PlanFacts, [StoreNext]_storeVars
    PROVE  BegunStep
  <1> SUFFICES ASSUME HandoffBegun
               PROVE  \/ HandoffKept
                      \/ /\ commands'[handoff.req].ack \in {"completed", "not_fulfilled"}
                         /\ intake' = "stopped"
    BY DEF BegunStep
  <1> DEFINE h == handoff.req
             Settled == commands'[h].ack \in {"completed", "not_fulfilled"} /\ intake' = "stopped"
  <1>1. /\ h \in ReqIds /\ h # None /\ handoff.begun
        /\ commands[h].ack = "accepted" /\ commands[h].kind = "handoff"
        /\ pending = h /\ intake = "stopping" /\ ~HasPlan
    BY DEF HandoffBegun, PlanFacts, TypeOK, Intakes, HasPlan
  <1>2. \A kinds : "handoff" \notin kinds => h \notin Accepted(kinds)
    BY <1>1 DEF Accepted
  <1>3. \A r \in ReqIds : Fresh(r) => r # h
    BY <1>1 DEF Fresh, NoCommand
  <1>4. ASSUME NEW S, NEW r \in ReqIds, NEW kind, NEW payload, NEW ack, Fresh(r),
               Records(S, r, kind, payload, ack), h \notin S
        PROVE  commands'[h].ack = "accepted"
    BY <1>1, <1>3, <1>4 DEF Records
  <1>5. ASSUME UNCHANGED <<handoff, pending, intake>>, commands'[h].ack = "accepted"
        PROVE  HandoffKept
    BY <1>1, <1>5 DEF HandoffKept
  <1>6. ASSUME NEW r \in ReqIds, NEW active \in Attempts \cup {None}, SubmitStop(r, active)
        PROVE  HandoffKept
    <2>1. Fresh(r) /\ StopWhileStopping(r)
      BY <1>1, <1>6 DEF SubmitStop, StopWhileStopped, StopWhileStopping, StopWhileRunning
    <2>2. Accepted({"stop_after"}) = {}
      BY <1>1 DEF Accepted, PlanFacts
    <2>3. Joined = {}
      BY <2>2, Zenon DEF Joined
    <2>4. Records({}, r, "stop", None, "accepted")
      BY <2>1, <2>3, StopRows
    <2>5. UNCHANGED <<handoff, pending, intake>>
      BY <2>1, <2>2 DEF StopWhileStopping
    <2> QED BY <1>4, <1>5, <2>1, <2>4, <2>5
  <1>7. ASSUME NEW r \in ReqIds, NEW hold \in BOOLEAN, SubmitResume(r, hold)
        PROVE  HandoffKept
    <2>1. Fresh(r) /\ ResumeUnderBegunHandoff(r)
      BY <1>7 DEF SubmitResume, ResumeIntake
    <2>2. Records({}, r, "resume", None, "completed") /\ UNCHANGED <<handoff, pending, intake>>
      BY <2>1, ResumeRows DEF ResumeUnderBegunHandoff
    <2> QED BY <1>4, <1>5, <2>1, <2>2
  <1>8. ASSUME NEW r \in ReqIds, NEW issue \in Issues, SubmitNextIssue(r, issue)
        PROVE  HandoffKept
    <2>1. /\ Fresh(r) /\ Records(OldPriority, r, "next_issue", issue, "accepted")
          /\ UNCHANGED <<handoff, pending, intake>>
      BY <1>8, NextIssueRows DEF SubmitNextIssue
    <2>2. h \notin OldPriority
      BY <1>1, NoneAssumption DEF OldPriority, PlanFacts
    <2> QED BY <1>4, <1>5, <2>1, <2>2
  <1>9. ASSUME NEW r \in ReqIds, NEW kind \in RecoveryKinds, NEW a \in Attempts,
               SubmitRecovery(r, kind, a)
        PROVE  HandoffKept
    <2>1. /\ Fresh(r) /\ Records({}, r, kind, a, "accepted")
          /\ UNCHANGED <<handoff, pending, intake>>
      BY <1>9, RecoveryRows DEF SubmitRecovery
    <2> QED BY <1>4, <1>5, <2>1
  <1>10. ASSUME NEW r \in ReqIds, SubmitErrorsReset(r)
         PROVE  HandoffKept
    <2>1. /\ Fresh(r) /\ Records({}, r, "errors_reset", None, "completed")
          /\ UNCHANGED <<handoff, pending, intake>>
      BY <1>10, RecoveryRows DEF SubmitErrorsReset
    <2> QED BY <1>4, <1>5, <2>1
  <1>11. ASSUME NEW r \in ReqIds, OperatorCall(r)
         PROVE  HandoffKept
    <2>1. /\ ~ \E active \in Attempts \cup {None}, n \in Counts : SubmitStopAfter(r, n, active)
          /\ ~ \E active \in Attempts \cup {None}, hold \in BOOLEAN : SubmitHandoff(r, active, hold)
      BY DEF SubmitStopAfter, SubmitHandoff
    <2> QED BY <1>11, <1>6, <1>7, <1>8, <1>9, <1>10, <2>1 DEF OperatorCall
  <1>12. ASSUME NEW r \in ReqIds, MarkHandoffDelivering(r) \/ MarkHandoffBegun(r)
         PROVE  HandoffKept
    <2>1. UNCHANGED <<commands, pending, intake>> /\ handoff'.req = h /\ handoff'.begun
      BY <1>1, <1>12 DEF MarkHandoffDelivering, MarkHandoffBegun, TypeOK
    <2> QED BY <1>1, <2>1 DEF HandoffKept
  <1>13. ASSUME NEW r \in ReqIds, NEW ack \in {"completed", "not_fulfilled"}, SettleHandoff(r, ack)
         PROVE  Settled
    <2>1. commands[r].kind = "handoff" /\ commands[r].ack = "accepted"
      BY <1>13 DEF SettleHandoff
    <2>2. r = h
      BY <1>1, <2>1 DEF PlanFacts
    <2>3. commands'[r].ack = ack
      BY <1>13, SettleHandoffRows DEF Acks
    <2>4. intake' = "stopped"
      BY <1>1, <1>13, <2>2 DEF SettleHandoff
    <2> QED BY <2>2, <2>3, <2>4
  <1>14. ASSUME NEW r \in ReqIds, NEW ack \in Acks, SettleRecovery(r, ack)
         PROVE  HandoffKept
    <2>1. /\ Settles({r}, ack) /\ commands[r].kind \in RecoveryKinds
          /\ UNCHANGED <<handoff, pending, intake>>
      BY <1>14, RecoveryRows DEF SettleRecovery
    <2>2. r # h
      BY <1>1, <2>1 DEF RecoveryKinds
    <2>3. commands'[h].ack = "accepted"
      BY <1>1, <2>1, <2>2 DEF Settles
    <2> QED BY <1>5, <2>1, <2>3
  <1>15. ASSUME NEW ack \in Acks, SettleNextIssue(ack)
         PROVE  HandoffKept
    <2>1. Settles(OldPriority, ack) /\ UNCHANGED <<handoff, pending, intake>>
      BY <1>15, SettleNextIssueRows DEF SettleNextIssue
    <2>2. h \notin OldPriority
      BY <1>1, NoneAssumption DEF OldPriority, PlanFacts
    <2>3. commands'[h].ack = "accepted"
      BY <1>1, <2>1, <2>2 DEF Settles
    <2> QED BY <1>5, <2>1, <2>3
  <1>16. /\ ~CompletePendingStop
         /\ ~ \E a \in Attempts : CountAttempt(a)
         /\ ~EnterStoppingForFinalClaim
    BY <1>1 DEF CompletePendingStop, CountAttempt, CountDown, EnterStoppingForFinalClaim,
                FinalClaimDue
  <1>17. \A ack \in {"completed", "not_fulfilled"} : ack \in Acks
    BY DEF Acks
  <1>18. ASSUME LifecycleCall
         PROVE  HandoffKept \/ Settled
    <2> HIDE DEF Settled
    <2> QED BY <1>18, <1>12, <1>13, <1>14, <1>15, <1>16, <1>17
         DEF LifecycleCall, CompleteHandoff, FailHandoff, CompleteNextIssue, FailNextIssue
  <1>19. UNCHANGED storeVars => HandoffKept
    BY <1>1, <1>5 DEF storeVars
  <1> QED BY <1>11, <1>18, <1>19 DEF StoreNext

\* Once the model has begun a handoff, no operator command and no call of the
\* lifecycle takes the pending slot or the intake from it before it settles.
THEOREM BegunHandoffKeptHolds == StoreSpec => BegunHandoffKept
  <1>1. TypeOK /\ PlanFacts /\ [StoreNext]_storeVars => [BegunStep]_storeVars
    BY StepBegun
  <1>2. [][BegunStep]_storeVars => BegunHandoffKept
    BY PTL DEF BegunHandoffKept, BegunStep, HandoffKept
  <1>3. PlanInv => TypeOK /\ PlanFacts
    BY PlanFactsEquiv DEF PlanInv
  <1> QED BY <1>1, <1>2, <1>3, PlanInvariant, PTL DEF StoreSpec
=============================================================================
