------------------------- MODULE ControlStoreProofs -------------------------
(***************************************************************************)
(* Theorems about the control store, for any request ids, attempts, issues *)
(* and countdowns.                                                         *)
(***************************************************************************)
EXTENDS ControlStore, TLAPS

-----------------------------------------------------------------------------
(* The command table *)

Table == [ReqIds -> CommandRecord \cup {NoCommand}]

\* The step settles the commands of S with acknowledgement a, and touches no
\* other row.
Settles(S, a) ==
    /\ commands' \in Table
    /\ \A s \in ReqIds :
          /\ commands'[s].kind = commands[s].kind
          /\ commands'[s].payload = commands[s].payload
          /\ commands'[s].ack = IF s \in S THEN a ELSE commands[s].ack

\* The step supersedes the commands of S and records the command r.
Records(S, r, kind, payload, ack) ==
    /\ commands' \in Table
    /\ commands'[r].kind = kind
    /\ commands'[r].payload = payload
    /\ commands'[r].ack = ack
    /\ \A s \in ReqIds \ {r} :
          /\ commands'[s].kind = commands[s].kind
          /\ commands'[s].payload = commands[s].payload
          /\ commands'[s].ack = IF s \in S THEN "superseded" ELSE commands[s].ack

\* A row that carries an acknowledgement is a recorded command.
LEMMA RecordedCommand ==
    ASSUME TypeOK, NEW r \in ReqIds, commands[r].ack # "none"
    PROVE  commands[r] \in CommandRecord
  BY DEF TypeOK, NoCommand

\* The commands an UPDATE ... WHERE acknowledgement = 'accepted' selects.
LEMMA AcceptedRecorded ==
    ASSUME TypeOK, NEW kinds
    PROVE  /\ Accepted(kinds) \subseteq ReqIds
           /\ \A r \in Accepted(kinds) : commands[r] \in CommandRecord
  BY RecordedCommand DEF Accepted

\* What WithAck does to one row.
LEMMA WithAckRow ==
    ASSUME TypeOK, NEW S, NEW a, NEW r \in ReqIds
    PROVE  /\ WithAck(S, a)[r].kind = commands[r].kind
           /\ WithAck(S, a)[r].payload = commands[r].payload
           /\ WithAck(S, a)[r].ack = IF r \in S THEN a ELSE commands[r].ack
           /\ r \notin S => WithAck(S, a)[r] = commands[r]
  <1>1. commands[r] \in CommandRecord \cup {NoCommand}
    BY DEF TypeOK
  <1>2. /\ [commands[r] EXCEPT !.ack = a].kind = commands[r].kind
        /\ [commands[r] EXCEPT !.ack = a].payload = commands[r].payload
        /\ [commands[r] EXCEPT !.ack = a].ack = a
    BY <1>1 DEF CommandRecord, NoCommand
  <1>3. WithAck(S, a)[r] = IF r \in S THEN [commands[r] EXCEPT !.ack = a] ELSE commands[r]
    BY Zenon DEF WithAck
  <1>4. CASE r \in S
    BY <1>2, <1>3, <1>4, Zenon
  <1>5. CASE r \notin S
    BY <1>3, <1>5, Zenon
  <1> QED BY <1>4, <1>5

\* Changing the acknowledgement of recorded commands keeps the table well formed.
LEMMA WithAckTyped ==
    ASSUME TypeOK, NEW S, NEW a \in Acks,
           \A r \in S \cap ReqIds : commands[r] \in CommandRecord
    PROVE  WithAck(S, a) \in Table
  <1>1. ASSUME NEW r \in ReqIds
        PROVE  (IF r \in S THEN [commands[r] EXCEPT !.ack = a] ELSE commands[r])
                  \in CommandRecord \cup {NoCommand}
    <2>1. CASE r \in S
      <3>1. commands[r] \in CommandRecord
        BY <2>1
      <3>2. [commands[r] EXCEPT !.ack = a] \in CommandRecord
        BY <3>1 DEF CommandRecord
      <3> QED BY <2>1, <3>2
    <2>2. CASE r \notin S
      BY <2>2 DEF TypeOK
    <2> QED BY <2>1, <2>2
  <1> QED BY <1>1 DEF WithAck, Table

\* What Insert does to the rows.
LEMMA InsertRow ==
    ASSUME NEW cmds \in Table, NEW r \in ReqIds, NEW kind, NEW payload, NEW ack,
           NEW s \in ReqIds
    PROVE  Insert(cmds, r, kind, payload, ack)[s] =
              IF s = r THEN [kind |-> kind, payload |-> payload, ack |-> ack] ELSE cmds[s]
  BY DEF Insert, Table

\* Inserting a well-formed command keeps the table well formed.
LEMMA InsertTyped ==
    ASSUME NEW cmds \in Table, NEW r \in ReqIds, NEW kind \in Kinds,
           NEW payload \in Payloads, NEW ack \in Acks
    PROVE  Insert(cmds, r, kind, payload, ack) \in Table
  <1>1. [kind |-> kind, payload |-> payload, ack |-> ack] \in CommandRecord
    BY DEF CommandRecord
  <1> QED BY <1>1 DEF Insert, Table

\* The transaction every operator command has in common: supersede a set S of
\* accepted commands, then insert the new one.  Given row by row.
LEMMA SupersedeInsert ==
    ASSUME TypeOK, NEW S \in SUBSET ReqIds, \A s \in S : commands[s].ack = "accepted",
           NEW r \in ReqIds, NEW kind \in Kinds, NEW payload \in Payloads, NEW ack \in Acks,
           commands' = Insert(WithAck(S, "superseded"), r, kind, payload, ack)
    PROVE  Records(S, r, kind, payload, ack)
  <1>1. WithAck(S, "superseded") \in Table
    <2>1. \A s \in S \cap ReqIds : commands[s] \in CommandRecord
      BY RecordedCommand
    <2> QED BY <2>1, WithAckTyped DEF Acks
  <1>2. commands' \in Table
    BY <1>1, InsertTyped
  <1>3. commands'[r] = [kind |-> kind, payload |-> payload, ack |-> ack]
    BY <1>1, InsertRow
  <1>4. ASSUME NEW q \in ReqIds, q # r
        PROVE  /\ commands'[q].kind = commands[q].kind
               /\ commands'[q].payload = commands[q].payload
               /\ commands'[q].ack = IF q \in S THEN "superseded" ELSE commands[q].ack
    <2>1. commands'[q] = WithAck(S, "superseded")[q]
      BY <1>1, <1>4 DEF Insert, Table
    <2>2. /\ WithAck(S, "superseded")[q].kind = commands[q].kind
          /\ WithAck(S, "superseded")[q].payload = commands[q].payload
          /\ WithAck(S, "superseded")[q].ack = IF q \in S THEN "superseded" ELSE commands[q].ack
      BY WithAckRow
    <2> QED BY <2>1, <2>2
  <1> QED BY <1>2, <1>3, <1>4 DEF Records

\* A transaction that only settles a set S of accepted commands, row by row.
LEMMA Settle ==
    ASSUME TypeOK, NEW S \in SUBSET ReqIds, \A s \in S : commands[s].ack = "accepted",
           NEW a \in Acks, commands' = WithAck(S, a)
    PROVE  Settles(S, a)
  <1>1. \A s \in S \cap ReqIds : commands[s] \in CommandRecord
    BY RecordedCommand
  <1>2. commands' \in Table
    BY <1>1, WithAckTyped
  <1>3. ASSUME NEW q \in ReqIds
        PROVE  /\ commands'[q].kind = commands[q].kind
               /\ commands'[q].payload = commands[q].payload
               /\ commands'[q].ack = IF q \in S THEN a ELSE commands[q].ack
    <2>1. /\ WithAck(S, a)[q].kind = commands[q].kind
          /\ WithAck(S, a)[q].payload = commands[q].payload
          /\ WithAck(S, a)[q].ack = IF q \in S THEN a ELSE commands[q].ack
      BY WithAckRow
    <2> QED BY <2>1
  <1> QED BY <1>2, <1>3 DEF Settles

\* SettleHandoff settles the handoff and the stops that wait alongside it.
LEMMA SettleHandoffRows ==
    ASSUME TypeOK, NEW r \in ReqIds, NEW ack \in Acks, SettleHandoff(r, ack)
    PROVE  /\ commands' \in Table
           /\ \A s \in ReqIds :
                 /\ commands'[s].kind = commands[s].kind
                 /\ commands'[s].payload = commands[s].payload
                 /\ commands'[s].ack = IF s = r THEN ack
                                       ELSE IF pending = r /\ s \in Accepted({"stop"})
                                            THEN "completed" ELSE commands[s].ack
  <1> DEFINE stops == IF pending = r THEN Accepted({"stop"}) ELSE {}
             Row(s) == IF s = r THEN [commands[s] EXCEPT !.ack = ack]
                       ELSE IF s \in stops THEN [commands[s] EXCEPT !.ack = "completed"]
                       ELSE commands[s]
  <1>1. commands' = [s \in ReqIds |-> Row(s)]
    BY DEF SettleHandoff
  <1>2. ASSUME NEW q \in ReqIds
        PROVE  /\ Row(q) \in CommandRecord \cup {NoCommand}
               /\ Row(q).kind = commands[q].kind
               /\ Row(q).payload = commands[q].payload
               /\ Row(q).ack = IF q = r THEN ack
                               ELSE IF q \in stops THEN "completed" ELSE commands[q].ack
    <2>1. CASE q = r
      <3>1. commands[q] \in CommandRecord
        BY <2>1, RecordedCommand DEF SettleHandoff
      <3>2. Row(q) = [commands[q] EXCEPT !.ack = ack]
        BY <2>1
      <3> HIDE DEF Row
      <3> QED BY <2>1, <3>1, <3>2 DEF CommandRecord
    <2>2. CASE q # r /\ q \in stops
      <3>1. commands[q] \in CommandRecord
        BY <2>2, AcceptedRecorded
      <3>2. Row(q) = [commands[q] EXCEPT !.ack = "completed"]
        BY <2>2
      <3> HIDE DEF Row
      <3> QED BY <2>2, <3>1, <3>2 DEF CommandRecord, Acks
    <2>3. CASE q # r /\ q \notin stops
      <3>1. Row(q) = commands[q]
        BY <2>3
      <3> HIDE DEF Row
      <3> QED BY <2>3, <3>1 DEF TypeOK
    <2> QED BY <2>1, <2>2, <2>3
  <1> HIDE DEF Row
  <1>3. \A q \in ReqIds : commands'[q] = Row(q)
    BY <1>1
  <1>4. commands' \in Table
    BY <1>1, <1>2 DEF Table
  <1>5. \A q \in ReqIds : q \in stops <=> pending = r /\ q \in Accepted({"stop"})
    OBVIOUS
  <1> HIDE DEF stops
  <1> QED BY <1>2, <1>3, <1>4, <1>5

\* The rows each operation leaves.
LEMMA InsertOnly ==
    ASSUME TypeOK, NEW r \in ReqIds, NEW kind \in Kinds, NEW payload \in Payloads,
           NEW ack \in Acks, commands' = Insert(commands, r, kind, payload, ack)
    PROVE  Records({}, r, kind, payload, ack)
  <1>1. commands \in Table
    BY DEF TypeOK, Table
  <1>2. commands' \in Table
    BY <1>1, InsertTyped
  <1>3. commands'[r] = [kind |-> kind, payload |-> payload, ack |-> ack]
    BY <1>1, InsertRow
  <1>4. ASSUME NEW q \in ReqIds, q # r
        PROVE  commands'[q] = commands[q]
    BY <1>1, <1>4 DEF Insert, Table
  <1> QED BY <1>2, <1>3, <1>4 DEF Records

\* What a joining stop supersedes: a countdown, else a handoff not yet begun.
Joined ==
    LET after == Accepted({"stop_after"})
    IN  after \cup (IF /\ after = {}
                       /\ pending # None
                       /\ IsTrackedHandoff(pending)
                       /\ ~HandoffBegun
                    THEN Accepted({"handoff"})
                    ELSE {})

\* submit_stop supersedes what it takes over and inserts itself.
LEMMA StopRows ==
    ASSUME TypeOK, NEW r \in ReqIds, NEW active
    PROVE  /\ StopWhileStopped(r) => Records({}, r, "stop", None, "completed")
           /\ StopWhileStopping(r) => Records(Joined, r, "stop", None, "accepted")
           /\ StopWhileRunning(r, active) =>
                 Records(Accepted({"stop_after"} \cup IF HandoffBegun THEN {} ELSE {"handoff"}),
                         r, "stop", None, IF active # None THEN "accepted" ELSE "completed")
  <1>1. /\ "stop" \in Kinds /\ None \in Payloads
        /\ "accepted" \in Acks /\ "completed" \in Acks
    BY DEF Kinds, PlanKinds, Payloads, Acks
  <1>2. StopWhileStopped(r) => Records({}, r, "stop", None, "completed")
    BY <1>1, InsertOnly DEF StopWhileStopped
  <1>3. StopWhileStopping(r) => Records(Joined, r, "stop", None, "accepted")
    <2>1. /\ Joined \subseteq ReqIds
          /\ \A s \in Joined : commands[s].ack = "accepted"
      BY DEF Joined, Accepted
    <2>2. StopWhileStopping(r) =>
             commands' = Insert(WithAck(Joined, "superseded"), r, "stop", None, "accepted")
      BY Zenon DEF StopWhileStopping, Joined
    <2> QED BY <1>1, <2>1, <2>2, SupersedeInsert
  <1>4. ASSUME StopWhileRunning(r, active)
        PROVE  Records(Accepted({"stop_after"} \cup IF HandoffBegun THEN {} ELSE {"handoff"}),
                       r, "stop", None, IF active # None THEN "accepted" ELSE "completed")
    <2> DEFINE gone == Accepted({"stop_after"} \cup IF HandoffBegun THEN {} ELSE {"handoff"})
               ack == IF active # None THEN "accepted" ELSE "completed"
    <2>1. gone \subseteq ReqIds /\ \A s \in gone : commands[s].ack = "accepted"
      BY DEF Accepted
    <2>2. commands' = Insert(WithAck(gone, "superseded"), r, "stop", None, ack)
      BY <1>4, Zenon DEF StopWhileRunning
    <2>3. ack \in Acks
      BY <1>1
    <2> HIDE DEF gone, ack
    <2>4. Records(gone, r, "stop", None, ack)
      BY <1>1, <2>1, <2>2, <2>3, SupersedeInsert
    <2> QED BY <2>4 DEF gone, ack
  <1> QED BY <1>2, <1>3, <1>4

\* submit_resume inserts itself; it supersedes every accepted plan unless a
\* begun handoff is in the way.
LEMMA ResumeRows ==
    ASSUME TypeOK, NEW r \in ReqIds
    PROVE  /\ ResumeUnderBegunHandoff(r) => Records({}, r, "resume", None, "completed")
           /\ ResumeIntake(r) => Records(Accepted(PlanKinds), r, "resume", None, "completed")
  <1>1. "resume" \in Kinds /\ None \in Payloads /\ "completed" \in Acks
    BY DEF Kinds, Payloads, Acks
  <1>2. ResumeUnderBegunHandoff(r) => Records({}, r, "resume", None, "completed")
    BY <1>1, InsertOnly DEF ResumeUnderBegunHandoff
  <1>3. ResumeIntake(r) => Records(Accepted(PlanKinds), r, "resume", None, "completed")
    <2>1. /\ Accepted(PlanKinds) \subseteq ReqIds
          /\ \A s \in Accepted(PlanKinds) : commands[s].ack = "accepted"
      BY DEF Accepted
    <2> QED BY <1>1, <2>1, SupersedeInsert DEF ResumeIntake
  <1> QED BY <1>2, <1>3

\* submit_stop_after supersedes every accepted plan and inserts itself.
LEMMA StopAfterRows ==
    ASSUME TypeOK, NEW r \in ReqIds, NEW n \in Counts, NEW active,
           SubmitStopAfter(r, n, active)
    PROVE  Records(Accepted(PlanKinds), r, "stop_after", n, "accepted")
  <1>1. "stop_after" \in Kinds /\ n \in Payloads /\ "accepted" \in Acks
    BY DEF Kinds, PlanKinds, Payloads, Acks
  <1>2. /\ Accepted(PlanKinds) \subseteq ReqIds
        /\ \A s \in Accepted(PlanKinds) : commands[s].ack = "accepted"
    BY DEF Accepted
  <1> QED BY <1>1, <1>2, SupersedeInsert DEF SubmitStopAfter

\* submit_handoff supersedes every accepted plan and inserts itself.
LEMMA HandoffRows ==
    ASSUME TypeOK, NEW r \in ReqIds, NEW active, NEW hold, SubmitHandoff(r, active, hold)
    PROVE  Records(Accepted(PlanKinds), r, "handoff", None, "accepted")
  <1>1. "handoff" \in Kinds /\ None \in Payloads /\ "accepted" \in Acks
    BY DEF Kinds, PlanKinds, Payloads, Acks
  <1>2. /\ Accepted(PlanKinds) \subseteq ReqIds
        /\ \A s \in Accepted(PlanKinds) : commands[s].ack = "accepted"
    BY DEF Accepted
  <1> QED BY <1>1, <1>2, SupersedeInsert DEF SubmitHandoff

\* The accepted command that holds the priority, if any.
OldPriority == {s \in ReqIds : s = nextIssue.req /\ commands[s].ack = "accepted"}

\* submit_next_issue supersedes the priority it replaces and inserts itself.
LEMMA NextIssueRows ==
    ASSUME TypeOK, NEW r \in ReqIds, NEW issue \in Issues, SubmitNextIssue(r, issue)
    PROVE  Records(OldPriority, r, "next_issue", issue, "accepted")
  <1>1. "next_issue" \in Kinds /\ issue \in Payloads /\ "accepted" \in Acks
    BY DEF Kinds, Payloads, Acks
  <1>2. OldPriority \subseteq ReqIds /\ \A s \in OldPriority : commands[s].ack = "accepted"
    BY DEF OldPriority
  <1>3. commands' = Insert(WithAck(OldPriority, "superseded"),
                           r, "next_issue", issue, "accepted")
    BY Zenon DEF SubmitNextIssue, OldPriority
  <1> QED BY <1>1, <1>2, <1>3, SupersedeInsert

\* Settling the priority changes only the row of the tracked one.
LEMMA SettleNextIssueRows ==
    ASSUME TypeOK, NEW ack \in Acks, SettleNextIssue(ack)
    PROVE  Settles(OldPriority, ack)
  <1>1. OldPriority \subseteq ReqIds /\ \A s \in OldPriority : commands[s].ack = "accepted"
    BY DEF OldPriority
  <1>2. OldPriority = {nextIssue.req} \cap {s \in ReqIds : commands[s].ack = "accepted"}
    BY DEF OldPriority
  <1>3. commands' = WithAck(OldPriority, ack)
    BY <1>2, Zenon DEF SettleNextIssue
  <1> QED BY <1>1, <1>3, Settle

\* Recovery and reset commands insert one row or settle one row.
LEMMA RecoveryRows ==
    ASSUME TypeOK, NEW r \in ReqIds
    PROVE  /\ \A kind \in RecoveryKinds, a \in Attempts :
                 SubmitRecovery(r, kind, a) => Records({}, r, kind, a, "accepted")
           /\ \A ack \in Acks : SettleRecovery(r, ack) => Settles({r}, ack)
           /\ SubmitErrorsReset(r) => Records({}, r, "errors_reset", None, "completed")
  <1>1. /\ RecoveryKinds \subseteq Kinds /\ "errors_reset" \in Kinds
        /\ Attempts \subseteq Payloads /\ None \in Payloads
        /\ "accepted" \in Acks /\ "completed" \in Acks
    BY DEF Kinds, Payloads, Acks
  <1>2. ASSUME NEW kind \in RecoveryKinds, NEW a \in Attempts, SubmitRecovery(r, kind, a)
        PROVE  Records({}, r, kind, a, "accepted")
    <2>1. kind \in Kinds /\ a \in Payloads
      BY <1>1
    <2> QED BY <1>1, <1>2, <2>1, InsertOnly DEF SubmitRecovery
  <1>3. ASSUME NEW ack \in Acks, SettleRecovery(r, ack)
        PROVE  Settles({r}, ack)
    <2>1. /\ {r} \in SUBSET ReqIds
          /\ \A s \in {r} : commands[s].ack = "accepted"
          /\ commands' = WithAck({r}, ack)
      BY <1>3 DEF SettleRecovery
    <2> QED BY <2>1, Settle
  <1>4. SubmitErrorsReset(r) => Records({}, r, "errors_reset", None, "completed")
    BY <1>1, InsertOnly DEF SubmitErrorsReset
  <1> QED BY <1>2, <1>3, <1>4

\* complete_pending_stop settles accepted plain stops only.
LEMMA PlainStopRows ==
    ASSUME TypeOK, CompletePlainStops
    PROVE  Settles(Accepted({"stop"}), "completed")
  <1>1. /\ Accepted({"stop"}) \subseteq ReqIds
        /\ \A s \in Accepted({"stop"}) : commands[s].ack = "accepted"
        /\ "completed" \in Acks
    BY DEF Accepted, Acks
  <1> QED BY <1>1, Settle DEF CompletePlainStops

\* The transaction that counts an attempt settles accepted plans only.
LEMMA CountDownRows ==
    ASSUME TypeOK, NEW a \in Attempts, CountDown(a)
    PROVE  /\ plan.remaining - 1 <= 0 =>
                 Settles({s \in ReqIds : s = pending /\ commands[s].ack = "accepted"}, "completed")
           /\ ~(plan.remaining - 1 <= 0) => commands' = commands
  <1> DEFINE S == {s \in ReqIds : s = pending /\ commands[s].ack = "accepted"}
             last == plan.remaining - 1 <= 0
  <1>1. S = {pending} \cap {s \in ReqIds : commands[s].ack = "accepted"}
    OBVIOUS
  <1>2. ASSUME last
        PROVE  Settles(S, "completed")
    <2>1. S \subseteq ReqIds /\ \A s \in S : commands[s].ack = "accepted"
      OBVIOUS
    <2>2. commands' = WithAck({pending} \cap {s \in ReqIds : commands[s].ack = "accepted"},
                              "completed")
      BY <1>2, Zenon DEF CountDown
    <2>3. commands' = WithAck(S, "completed")
      BY <1>1, <2>2, Zenon
    <2> HIDE DEF S
    <2> QED BY <2>1, <2>3, Settle DEF Acks
  <1>3. ~last => commands' = commands
    BY Zenon DEF CountDown
  <1> QED BY <1>2, <1>3

-----------------------------------------------------------------------------
(* Type correctness *)

PlanType == [requested : 0 .. MaxAfter, remaining : 0 .. MaxAfter,
             active : Attempts \cup {None}]

HandoffType == [req : ReqIds \cup {None}, begun : BOOLEAN, phase : Phases \cup {None}]

\* The empty plan and the empty handoff have their types.
LEMMA EmptyTyped == NoPlan \in PlanType /\ NoHandoff \in HandoffType
  BY SizeAssumption DEF NoPlan, PlanType, NoHandoff, HandoffType

\* What a command that cancels plans leaves of control_state.
LEMMA CancelTyped ==
    ASSUME TypeOK, commands' \in Table, intake' \in Intakes,
           pending' \in ReqIds \cup {None},
           plan' = plan \/ plan' = NoPlan,
           handoff' = handoff \/ handoff' = NoHandoff,
           UNCHANGED <<nextIssue, counted>>
    PROVE  TypeOK'
  <1>1. plan' \in PlanType
    BY EmptyTyped DEF TypeOK, PlanType
  <1>2. handoff' \in HandoffType
    BY EmptyTyped DEF TypeOK, HandoffType
  <1> QED BY <1>1, <1>2 DEF TypeOK, Table, PlanType, HandoffType

\* The inductive step, one action at a time: the rows above give the command
\* table, the other rows of control_state follow from the action itself.
LEMMA TypeStep ==
    ASSUME TypeOK, [StoreNext]_storeVars
    PROVE  TypeOK'
  <1> USE DEF Table
  <1>1. ASSUME NEW r \in ReqIds, NEW active \in Attempts \cup {None}, SubmitStop(r, active)
        PROVE  TypeOK'
    <2>1. CASE StopWhileStopped(r)
      BY <2>1, StopRows DEF StopWhileStopped, Records, TypeOK
    <2>2. CASE StopWhileStopping(r)
      <3>1. Records(Joined, r, "stop", None, "accepted")
        BY <2>2, StopRows
      <3>2. /\ plan' = plan \/ plan' = NoPlan
            /\ handoff' = handoff \/ handoff' = NoHandoff
            /\ pending' = pending \/ pending' = r
            /\ UNCHANGED <<intake, nextIssue, counted>>
        BY <2>2, Zenon DEF StopWhileStopping
      <3> QED BY <3>1, <3>2, CancelTyped DEF Records, TypeOK
    <2>3. CASE StopWhileRunning(r, active)
      <3>1. commands' \in Table
        BY <2>3, StopRows DEF Records
      <3>2. /\ plan' = plan \/ plan' = NoPlan
            /\ handoff' = handoff \/ handoff' = NoHandoff
            /\ pending' = r \/ pending' = None
            /\ intake' = "stopping" \/ intake' = "stopped"
            /\ UNCHANGED <<nextIssue, counted>>
        BY <2>3, Zenon DEF StopWhileRunning
      <3> QED BY <3>1, <3>2, CancelTyped DEF Intakes
    <2> QED BY <1>1, <2>1, <2>2, <2>3 DEF SubmitStop
  <1>2. ASSUME NEW r \in ReqIds, NEW hold \in BOOLEAN, SubmitResume(r, hold)
        PROVE  TypeOK'
    <2>1. commands' \in Table
      BY <1>2, ResumeRows DEF SubmitResume, Records
    <2>2. /\ plan' = plan \/ plan' = NoPlan
          /\ handoff' = handoff \/ handoff' = NoHandoff
          /\ pending' = pending \/ pending' = None
          /\ intake' = intake \/ intake' = "running"
          /\ UNCHANGED <<nextIssue, counted>>
      BY <1>2, Zenon DEF SubmitResume, ResumeUnderBegunHandoff, ResumeIntake
    <2> QED BY <2>1, <2>2, CancelTyped DEF TypeOK, Intakes
  <1>3. ASSUME NEW r \in ReqIds, NEW n \in Counts, NEW active \in Attempts \cup {None},
               SubmitStopAfter(r, n, active)
        PROVE  TypeOK'
    <2>1. commands' \in Table
      BY <1>3, StopAfterRows DEF Records
    <2>2. n \in 0 .. MaxAfter
      BY SizeAssumption DEF Counts
    <2> QED BY <1>3, <2>1, <2>2 DEF SubmitStopAfter, TypeOK, Intakes, NoHandoff
  <1>4. ASSUME NEW r \in ReqIds, NEW issue \in Issues, SubmitNextIssue(r, issue)
        PROVE  TypeOK'
    <2>1. commands' \in Table
      BY <1>4, NextIssueRows DEF Records
    <2> QED BY <1>4, <2>1 DEF SubmitNextIssue, TypeOK
  <1>5. ASSUME NEW ack \in Acks, SettleNextIssue(ack)
        PROVE  TypeOK'
    <2>1. commands' \in Table
      BY <1>5, SettleNextIssueRows DEF Settles
    <2> QED BY <1>5, <2>1 DEF SettleNextIssue, TypeOK, NoNextIssue
  <1>6. ASSUME NEW r \in ReqIds, NEW active, NEW hold, SubmitHandoff(r, active, hold)
        PROVE  TypeOK'
    <2>1. commands' \in Table
      BY <1>6, HandoffRows DEF Records
    <2>2. handoff' = [req |-> r, begun |-> FALSE, phase |-> "accepted"] /\ plan' = NoPlan
      BY <1>6 DEF SubmitHandoff
    <2>3. handoff' \in HandoffType /\ plan' \in PlanType
      BY <2>2, EmptyTyped DEF HandoffType, Phases
    <2>4. intake' \in Intakes /\ pending' \in ReqIds /\ UNCHANGED <<nextIssue, counted>>
      BY <1>6 DEF SubmitHandoff, Intakes
    <2> QED BY <2>1, <2>3, <2>4 DEF TypeOK, HandoffType, PlanType
  <1>7. ASSUME NEW r \in ReqIds, MarkHandoffDelivering(r) \/ MarkHandoffBegun(r)
        PROVE  TypeOK'
    BY <1>7 DEF MarkHandoffDelivering, MarkHandoffBegun, TypeOK, Phases
  <1>8. ASSUME NEW r \in ReqIds, NEW ack \in {"completed", "not_fulfilled"},
               SettleHandoff(r, ack)
        PROVE  TypeOK'
    <2>1. ack \in Acks /\ ack \in Phases
      BY DEF Acks, Phases
    <2>2. commands' \in Table
      BY <1>8, <2>1, SettleHandoffRows
    <2> QED BY <1>8, <2>1, <2>2 DEF SettleHandoff, TypeOK, Intakes
  <1>9. ASSUME NEW r \in ReqIds, NEW kind \in RecoveryKinds, NEW a \in Attempts,
               SubmitRecovery(r, kind, a)
        PROVE  TypeOK'
    <2>1. commands' \in Table
      BY <1>9, RecoveryRows DEF Records
    <2> QED BY <1>9, <2>1 DEF SubmitRecovery, TypeOK
  <1>10. ASSUME NEW r \in ReqIds, NEW ack \in Acks, SettleRecovery(r, ack)
         PROVE  TypeOK'
    <2>1. commands' \in Table
      BY <1>10, RecoveryRows DEF Settles
    <2> QED BY <1>10, <2>1 DEF SettleRecovery, TypeOK
  <1>11. ASSUME NEW r \in ReqIds, SubmitErrorsReset(r)
         PROVE  TypeOK'
    <2>1. commands' \in Table
      BY <1>11, RecoveryRows DEF Records
    <2> QED BY <1>11, <2>1 DEF SubmitErrorsReset, TypeOK
  <1>12. ASSUME CompletePendingStop
         PROVE  TypeOK'
    <2>1. commands' \in Table
      BY <1>12, PlainStopRows DEF CompletePendingStop, Settles
    <2> QED BY <1>12, <2>1 DEF CompletePendingStop, CompletePlainStops, TypeOK, Intakes
  <1>13. ASSUME NEW a \in Attempts, CountDown(a)
         PROVE  TypeOK'
    <2>1. commands' \in Table
      BY <1>13, CountDownRows DEF Settles, TypeOK
    <2>2. plan' \in [requested : 0 .. MaxAfter, remaining : 0 .. MaxAfter,
                     active : Attempts \cup {None}]
      BY <1>13, SizeAssumption DEF CountDown, TypeOK, NoPlan
    <2> QED BY <1>13, <2>1, <2>2 DEF CountDown, TypeOK, Intakes
  <1>14. ASSUME EnterStoppingForFinalClaim
         PROVE  TypeOK'
    BY <1>14 DEF EnterStoppingForFinalClaim, TypeOK, Intakes
  <1>15. ASSUME UNCHANGED storeVars
         PROVE  TypeOK'
    BY <1>15 DEF storeVars, TypeOK
  <1>16. /\ "completed" \in Acks /\ "not_fulfilled" \in Acks
    BY DEF Acks
  <1>17. ASSUME NEW r \in ReqIds, OperatorCall(r)
         PROVE  TypeOK'
    BY <1>17, <1>1, <1>2, <1>3, <1>4, <1>6, <1>9, <1>11 DEF OperatorCall
  <1>18. ASSUME LifecycleCall
         PROVE  TypeOK'
    BY <1>18, <1>16, <1>5, <1>7, <1>8, <1>10, <1>12, <1>13, <1>14
       DEF LifecycleCall, CompleteHandoff, FailHandoff, CompleteNextIssue, FailNextIssue,
           CountAttempt
  <1> QED BY <1>15, <1>17, <1>18 DEF StoreNext

\* Every row of the control store is well formed in every reachable state,
\* whatever the callers of ControlStore do.
THEOREM TypeCorrect == StoreSpec => []TypeOK
  <1>1. StoreInit => TypeOK
    BY SizeAssumption DEF StoreInit, TypeOK, NoPlan, NoNextIssue, NoHandoff, Intakes
  <1>2. TypeOK /\ [StoreNext]_storeVars => TypeOK'
    BY TypeStep
  <1> QED BY <1>1, <1>2, PTL DEF StoreSpec

-----------------------------------------------------------------------------
(* One stop plan *)

\* The tracked request is a handoff command.
HandoffLinked == handoff.req # None => commands[handoff.req].kind = "handoff"

\* The tracked priority is a next-issue command.
PriorityLinked == nextIssue.req # None => commands[nextIssue.req].kind = "next_issue"

\* A countdown exists exactly while a stop --after is pending, has attempts
\* left to count, and stops the intake early only for the last one.
PlanLinked ==
    /\ HasPlan <=> pending # None /\ commands[pending].kind = "stop_after"
    /\ HasPlan => plan.remaining >= 1
    /\ HasPlan /\ intake = "stopping" => plan.remaining = 1

PlanInv ==
    /\ TypeOK
    /\ OneStopPlan
    /\ IntakeExplained
    /\ HandoffTracked
    /\ HandoffLinked
    /\ PriorityLinked
    /\ PlanLinked

\* The invariant in terms of single rows, the form the provers use.
PlanFacts ==
    /\ \A s \in ReqIds :
          /\ commands[s].ack = "accepted" /\ commands[s].kind \in {"stop_after", "handoff"}
                => pending = s
          /\ commands[s].ack = "accepted" /\ commands[s].kind = "stop"
                => /\ intake = "stopping"
                   /\ pending # None
                   /\ commands[pending].kind # "stop_after"
                   /\ commands[pending].kind = "handoff" =>
                         handoff.req = pending /\ handoff.begun
          /\ commands[s].ack = "accepted" /\ commands[s].kind = "handoff"
                => handoff.req = s /\ handoff.phase \in {"accepted", "delivering", "model_work"}
    /\ pending # None => /\ commands[pending].ack = "accepted"
                         /\ commands[pending].kind \in {"stop", "stop_after", "handoff"}
    /\ intake = "stopping" => pending # None
    /\ intake = "running" => pending = None \/ commands[pending].kind = "stop_after"
    /\ intake = "stopped" => pending = None
    /\ handoff.req # None => commands[handoff.req].kind = "handoff"
    /\ nextIssue.req # None => commands[nextIssue.req].kind = "next_issue"
    /\ plan.requested # 0 <=> pending # None /\ commands[pending].kind = "stop_after"
    /\ plan.requested # 0 => plan.remaining >= 1
    /\ plan.requested # 0 /\ intake = "stopping" => plan.remaining = 1

\* PlanInv in the row-by-row form in which the steps establish it.
LEMMA PlanFactsEquiv == TypeOK => (PlanInv <=> PlanFacts)
  <1> SUFFICES ASSUME TypeOK PROVE PlanInv <=> PlanFacts
    OBVIOUS
  <1>0. pending # None => pending \in ReqIds
    BY DEF TypeOK
  <1>1. ASSUME PlanInv PROVE PlanFacts
    <2>1. ASSUME NEW s \in ReqIds, commands[s].ack = "accepted",
                 commands[s].kind \in {"stop_after", "handoff"}
          PROVE  pending = s
      BY <1>1, <2>1 DEF PlanInv, OneStopPlan, Accepted
    <2>2. ASSUME NEW s \in ReqIds, commands[s].ack = "accepted", commands[s].kind = "stop"
          PROVE  /\ intake = "stopping"
                 /\ pending # None
                 /\ commands[pending].kind # "stop_after"
                 /\ commands[pending].kind = "handoff" => handoff.req = pending /\ handoff.begun
      <3>1. s \in Accepted({"stop"})
        BY <2>2 DEF Accepted
      <3>2. /\ intake = "stopping"
            /\ pending # None
            /\ \/ commands[pending].kind = "stop"
               \/ commands[pending].kind = "handoff" /\ HandoffBegun
        BY <1>1, <3>1 DEF PlanInv, OneStopPlan
      <3>3. ASSUME HandoffBegun PROVE handoff.req = pending /\ handoff.begun
        <4>1. handoff.req \in ReqIds /\ commands[handoff.req].kind = "handoff"
          BY <1>1, <3>3 DEF PlanInv, HandoffLinked, HandoffBegun, TypeOK
        <4> QED BY <3>3, <4>1, <2>1 DEF HandoffBegun
      <3> QED BY <3>2, <3>3
    <2>3. ASSUME NEW s \in ReqIds, commands[s].ack = "accepted", commands[s].kind = "handoff"
          PROVE  handoff.req = s /\ handoff.phase \in {"accepted", "delivering", "model_work"}
      BY <1>1, <2>3 DEF PlanInv, HandoffTracked, Accepted
    <2>4. /\ pending # None => /\ commands[pending].ack = "accepted"
                               /\ commands[pending].kind \in {"stop", "stop_after", "handoff"}
          /\ intake = "stopping" => pending # None
          /\ intake = "running" => pending = None \/ commands[pending].kind = "stop_after"
          /\ intake = "stopped" => pending = None
      BY <1>1 DEF PlanInv, IntakeExplained, PlanKinds
    <2> QED BY <1>1, <2>1, <2>2, <2>3, <2>4
          DEF PlanFacts, PlanInv, HandoffLinked, PriorityLinked, PlanLinked, HasPlan
  <1>2. ASSUME PlanFacts PROVE PlanInv
    <2>1. OneStopPlan
      BY <1>0, <1>2 DEF PlanFacts, OneStopPlan, Accepted, HandoffBegun
    <2>2. IntakeExplained
      BY <1>0, <1>2, NoneAssumption DEF PlanFacts, IntakeExplained, Accepted, PlanKinds
    <2>3. HandoffTracked
      BY <1>2 DEF PlanFacts, HandoffTracked, Accepted
    <2> QED BY <1>2, <2>1, <2>2, <2>3 DEF PlanFacts, PlanInv, HandoffLinked, PriorityLinked, PlanLinked, HasPlan
  <1> QED BY <1>1, <1>2

\* Each action keeps the plan consistent.
LEMMA PlanStep ==
    ASSUME TypeOK, TypeOK', PlanFacts, [StoreNext]_storeVars
    PROVE  PlanFacts'
  <1> USE NoneAssumption
  <1>t. /\ pending # None => pending \in ReqIds
        /\ handoff.req # None => handoff.req \in ReqIds
        /\ nextIssue.req # None => nextIssue.req \in ReqIds
        /\ \A s \in ReqIds : Fresh(s) => commands[s].ack = "none" /\ commands[s].kind = "none"
    BY DEF TypeOK, Fresh, NoCommand
  <1>1. ASSUME NEW r \in ReqIds, NEW active \in Attempts \cup {None}, SubmitStop(r, active)
        PROVE  PlanFacts'
    <2>0. Fresh(r)
      BY <1>1 DEF SubmitStop
    <2>1. CASE StopWhileStopped(r)
      <3>1. Records({}, r, "stop", None, "completed")
        BY <2>1, StopRows
      <3> QED BY <1>t, <2>0, <2>1, <3>1 DEF StopWhileStopped, Records, PlanFacts
    <2>2. CASE StopWhileStopping(r)
      <3>1. Records(Joined, r, "stop", None, "accepted")
        BY <2>2, StopRows
      <3>2. pending \in ReqIds /\ pending # r /\ commands[pending].ack = "accepted"
        BY <1>t, <2>0, <2>2 DEF StopWhileStopping, PlanFacts
      <3>3. \A s \in ReqIds :
               commands[s].ack = "accepted" /\ commands[s].kind \in {"stop_after", "handoff"}
                  => s = pending
        BY DEF PlanFacts
      <3>7. /\ commands'[r].kind = "stop" /\ commands'[r].ack = "accepted"
            /\ \A s \in ReqIds \ {r} : commands'[s].kind = commands[s].kind
            /\ intake = "stopping"
        BY <2>2, <3>1 DEF Records, StopWhileStopping
      <3>4. CASE commands[pending].kind = "stop_after"
        <4>1. Accepted({"stop_after"}) = {pending}
          BY <3>2, <3>3, <3>4 DEF Accepted
        <4>2. Joined = {pending}
          BY <4>1, Zenon DEF Joined
        <4>3. pending' = r /\ plan' = NoPlan /\ handoff' = handoff /\ UNCHANGED <<intake, nextIssue>>
          BY <2>2, <4>1 DEF StopWhileStopping
        <4>4. \A s \in ReqIds \ {r} : commands'[s].ack = "accepted" =>
                 commands'[s].kind \notin {"stop_after", "handoff", "stop"}
          BY <3>1, <3>3, <3>4, <4>2 DEF Records, PlanFacts
        <4> QED BY <1>t, <2>0, <3>7, <4>3, <4>4 DEF PlanFacts, NoPlan
      <3>5. CASE commands[pending].kind = "handoff" /\ ~handoff.begun
        <4>1. Accepted({"stop_after"}) = {} /\ Accepted({"handoff"}) = {pending}
          BY <3>2, <3>3, <3>5 DEF Accepted
        <4>2. IsTrackedHandoff(pending) /\ ~HandoffBegun /\ pending # None
          BY <3>2, <3>5 DEF PlanFacts, IsTrackedHandoff, HandoffBegun
        <4>3. Joined = {pending}
          BY <4>1, <4>2 DEF Joined
        <4>4. pending' = r /\ plan' = plan /\ handoff' = NoHandoff /\ UNCHANGED <<intake, nextIssue>>
          BY <2>2, <4>1, <4>2 DEF StopWhileStopping
        <4>5. \A s \in ReqIds \ {r} : commands'[s].ack = "accepted" =>
                 commands'[s].kind \notin {"stop_after", "handoff", "stop"}
          BY <3>1, <3>3, <3>5, <4>3 DEF Records, PlanFacts
        <4> QED BY <1>t, <2>0, <3>5, <3>7, <4>4, <4>5 DEF PlanFacts, NoHandoff
      <3>6. CASE \/ commands[pending].kind = "stop"
                 \/ commands[pending].kind = "handoff" /\ handoff.begun
        <4>1. Accepted({"stop_after"}) = {}
          BY <3>2, <3>3, <3>6 DEF Accepted
        <4>2. IsTrackedHandoff(pending) => HandoffBegun
          BY <3>2, <3>6 DEF PlanFacts, IsTrackedHandoff, HandoffBegun
        <4>3. Joined = {}
          BY <4>1, <4>2 DEF Joined
        <4>4. UNCHANGED <<pending, plan, handoff, intake, nextIssue>>
          BY <2>2, <4>1, <4>2 DEF StopWhileStopping
        <4>5. \A s \in ReqIds \ {r} : commands'[s].ack = commands[s].ack
          BY <3>1, <4>3 DEF Records
        <4> QED BY <1>t, <2>0, <3>2, <3>6, <3>7, <4>4, <4>5 DEF PlanFacts
      <3> QED BY <3>2, <3>4, <3>5, <3>6 DEF PlanFacts
    <2>3. CASE StopWhileRunning(r, active)
      <3>1. Records(Accepted({"stop_after"} \cup IF HandoffBegun THEN {} ELSE {"handoff"}),
                    r, "stop", None, IF active # None THEN "accepted" ELSE "completed")
        BY <2>3, StopRows
      <3>2. \A s \in ReqIds : commands[s].ack = "accepted" => commands[s].kind \notin {"stop", "handoff"}
        BY <2>3 DEF StopWhileRunning, PlanFacts
      <3>3. \A s \in ReqIds \ {r} : commands'[s].ack = "accepted" =>
               commands'[s].kind \notin {"stop", "stop_after", "handoff"}
        BY <3>1, <3>2 DEF Records, Accepted
      <3>4. plan' = NoPlan \/ (plan' = plan /\ plan.requested = 0)
        BY <1>t, <2>3 DEF StopWhileRunning, PlanFacts, Accepted
      <3>5. /\ handoff' = NoHandoff \/ handoff' = handoff
            /\ nextIssue' = nextIssue
            /\ \/ active # None /\ pending' = r /\ intake' = "stopping"
               \/ active = None /\ pending' = None /\ intake' = "stopped"
        BY <2>3 DEF StopWhileRunning
      <3>6. /\ commands'[r].kind = "stop"
            /\ active # None => commands'[r].ack = "accepted"
            /\ active = None => commands'[r].ack = "completed"
            /\ \A s \in ReqIds \ {r} : commands'[s].kind = commands[s].kind
        BY <3>1 DEF Records
      <3> QED BY <1>t, <2>0, <3>3, <3>4, <3>5, <3>6 DEF PlanFacts, NoPlan, NoHandoff
    <2> QED BY <1>1, <2>1, <2>2, <2>3 DEF SubmitStop
  <1>2. ASSUME NEW r \in ReqIds, NEW hold \in BOOLEAN, SubmitResume(r, hold)
        PROVE  PlanFacts'
    <2>0. Fresh(r)
      BY <1>2 DEF SubmitResume
    <2>1. CASE ResumeUnderBegunHandoff(r)
      <3>1. Records({}, r, "resume", None, "completed")
        BY <2>1, ResumeRows
      <3> QED BY <1>t, <2>0, <2>1, <3>1 DEF ResumeUnderBegunHandoff, Records, PlanFacts
    <2>2. CASE ResumeIntake(r)
      <3>1. Records(Accepted(PlanKinds), r, "resume", None, "completed")
        BY <2>2, ResumeRows
      <3>2. \A s \in ReqIds : commands'[s].ack = "accepted" =>
               commands'[s].kind \notin {"stop", "stop_after", "handoff"}
        BY <3>1 DEF Records, Accepted, PlanKinds
      <3>3. /\ commands'[r].kind = "resume"
            /\ \A s \in ReqIds \ {r} : commands'[s].kind = commands[s].kind
        BY <3>1 DEF Records
      <3>4. /\ intake' = "running" /\ pending' = None /\ plan' = NoPlan /\ nextIssue' = nextIssue
            /\ handoff' = NoHandoff \/ handoff' = handoff
        BY <2>2 DEF ResumeIntake
      <3> QED BY <1>t, <2>0, <3>2, <3>3, <3>4 DEF PlanFacts, NoPlan, NoHandoff
    <2> QED BY <1>2, <2>1, <2>2 DEF SubmitResume
  <1>3. ASSUME NEW r \in ReqIds, NEW n \in Counts, NEW active \in Attempts \cup {None},
               SubmitStopAfter(r, n, active)
        PROVE  PlanFacts'
    <2>1. Records(Accepted(PlanKinds), r, "stop_after", n, "accepted")
      BY <1>3, StopAfterRows
    <2>2. n # 0 /\ n >= 1
      BY SizeAssumption DEF Counts
    <2>3. \A s \in ReqIds \ {r} : commands'[s].ack = "accepted" =>
             commands'[s].kind \notin {"stop", "stop_after", "handoff"}
      BY <2>1 DEF Records, Accepted, PlanKinds
    <2>4. /\ commands'[r].kind = "stop_after" /\ commands'[r].ack = "accepted"
          /\ \A s \in ReqIds \ {r} : commands'[s].kind = commands[s].kind
      BY <2>1 DEF Records
    <2>5. /\ intake' = "running" \/ (intake' = "stopping" /\ n = 1)
          /\ pending' = r /\ nextIssue' = nextIssue
          /\ plan' = [requested |-> n, remaining |-> n, active |-> active]
          /\ handoff' = NoHandoff \/ handoff' = handoff
          /\ Fresh(r)
      BY <1>3 DEF SubmitStopAfter
    <2>6. plan'.requested = n /\ plan'.remaining = n
      BY <2>5
    <2> QED BY <1>t, <2>2, <2>3, <2>4, <2>5, <2>6 DEF PlanFacts, NoHandoff
  <1>4. ASSUME NEW r \in ReqIds, NEW issue \in Issues, SubmitNextIssue(r, issue)
        PROVE  PlanFacts'
    <2>1. Records(OldPriority, r, "next_issue", issue, "accepted")
      BY <1>4, NextIssueRows
    <2>2. \A s \in OldPriority : commands[s].kind = "next_issue"
      BY <1>t DEF OldPriority, PlanFacts
    <2>3. /\ \A s \in ReqIds \ {r} : /\ commands'[s].kind = commands[s].kind
                                     /\ commands[s].kind # "next_issue" =>
                                           commands'[s].ack = commands[s].ack
          /\ commands'[r].kind = "next_issue"
      BY <2>1, <2>2 DEF Records
    <2>4. /\ UNCHANGED <<intake, pending, plan, handoff>>
          /\ nextIssue'.req = r /\ Fresh(r)
      BY <1>4 DEF SubmitNextIssue
    <2> QED BY <1>t, <2>3, <2>4 DEF PlanFacts
  <1>5. ASSUME NEW ack \in Acks, SettleNextIssue(ack)
        PROVE  PlanFacts'
    <2>1. Settles(OldPriority, ack)
      BY <1>5, SettleNextIssueRows
    <2>2. \A s \in OldPriority : commands[s].kind = "next_issue"
      BY <1>t DEF OldPriority, PlanFacts
    <2>3. \A s \in ReqIds : /\ commands'[s].kind = commands[s].kind
                            /\ commands[s].kind # "next_issue" =>
                                  commands'[s].ack = commands[s].ack
      BY <2>1, <2>2 DEF Settles
    <2>4. UNCHANGED <<intake, pending, plan, handoff>> /\ nextIssue' = NoNextIssue
      BY <1>5 DEF SettleNextIssue
    <2> QED BY <1>t, <2>3, <2>4 DEF PlanFacts, NoNextIssue
  <1>6. ASSUME NEW r \in ReqIds, NEW active, NEW hold, SubmitHandoff(r, active, hold)
        PROVE  PlanFacts'
    <2>1. Records(Accepted(PlanKinds), r, "handoff", None, "accepted")
      BY <1>6, HandoffRows
    <2>2. \A s \in ReqIds \ {r} : commands'[s].ack = "accepted" =>
             commands'[s].kind \notin {"stop", "stop_after", "handoff"}
      BY <2>1 DEF Records, Accepted, PlanKinds
    <2>3. /\ commands'[r].kind = "handoff" /\ commands'[r].ack = "accepted"
          /\ \A s \in ReqIds \ {r} : commands'[s].kind = commands[s].kind
      BY <2>1 DEF Records
    <2>4. /\ intake' = "stopping" /\ pending' = r /\ plan' = NoPlan /\ nextIssue' = nextIssue
          /\ handoff'.req = r /\ handoff'.phase = "accepted"
          /\ Fresh(r)
      BY <1>6 DEF SubmitHandoff
    <2> QED BY <1>t, <2>2, <2>3, <2>4 DEF PlanFacts, NoPlan
  <1>7. ASSUME NEW r \in ReqIds, MarkHandoffDelivering(r) \/ MarkHandoffBegun(r)
        PROVE  PlanFacts'
    <2>1. /\ handoff'.req = handoff.req
          /\ handoff'.phase \in {"delivering", "model_work"}
          /\ handoff.begun => handoff'.begun
          /\ UNCHANGED <<commands, intake, pending, plan, nextIssue>>
      BY ZenonT(40), <1>7 DEF MarkHandoffDelivering, MarkHandoffBegun, TypeOK
    <2> QED BY <2>1 DEF PlanFacts
  <1>8. ASSUME NEW r \in ReqIds, NEW ack \in {"completed", "not_fulfilled"},
               SettleHandoff(r, ack)
        PROVE  PlanFacts'
    <2>1. pending = r
      BY <1>8 DEF SettleHandoff, PlanFacts
    <2>2. ack \in Acks
      BY DEF Acks
    <2>3. \A s \in ReqIds :
             /\ commands'[s].kind = commands[s].kind
             /\ commands'[s].ack = IF s = r THEN ack
                                   ELSE IF pending = r /\ s \in Accepted({"stop"})
                                        THEN "completed" ELSE commands[s].ack
      BY <1>8, <2>2, SettleHandoffRows
    <2>4. \A s \in ReqIds : commands'[s].ack = "accepted" =>
             commands'[s].kind \notin {"stop", "stop_after", "handoff"}
      BY <2>1, <2>3 DEF PlanFacts, Accepted
    <2>5. /\ intake' = "stopped" /\ pending' = None /\ UNCHANGED <<plan, nextIssue>>
          /\ handoff'.req = handoff.req
          /\ commands[r].kind = "handoff"
      BY <1>8, <2>1 DEF SettleHandoff, TypeOK
    <2> QED BY <1>t, <2>1, <2>3, <2>4, <2>5 DEF PlanFacts
  <1>9. ASSUME NEW r \in ReqIds, NEW kind \in RecoveryKinds, NEW a \in Attempts,
               SubmitRecovery(r, kind, a)
        PROVE  PlanFacts'
    <2>1. Records({}, r, kind, a, "accepted")
      BY <1>9, RecoveryRows
    <2> QED BY <1>t, <1>9, <2>1 DEF SubmitRecovery, Records, PlanFacts, RecoveryKinds
  <1>10. ASSUME NEW r \in ReqIds, NEW ack \in Acks, SettleRecovery(r, ack)
         PROVE  PlanFacts'
    <2>1. Settles({r}, ack)
      BY <1>10, RecoveryRows
    <2>2. commands[r].kind \notin {"stop", "stop_after", "handoff"}
      BY <1>10 DEF SettleRecovery, RecoveryKinds
    <2>3. \A s \in ReqIds :
             /\ commands'[s].kind = commands[s].kind
             /\ commands[s].kind \in {"stop", "stop_after", "handoff"} =>
                   commands'[s].ack = commands[s].ack
      BY <2>1, <2>2 DEF Settles
    <2>4. UNCHANGED <<intake, pending, plan, nextIssue, handoff>>
      BY <1>10 DEF SettleRecovery
    <2> QED BY <1>t, <2>3, <2>4 DEF PlanFacts
  <1>11. ASSUME NEW r \in ReqIds, SubmitErrorsReset(r)
         PROVE  PlanFacts'
    <2>1. Records({}, r, "errors_reset", None, "completed")
      BY <1>11, RecoveryRows
    <2> QED BY <1>t, <1>11, <2>1 DEF SubmitErrorsReset, Records, PlanFacts
  <1>12. ASSUME CompletePendingStop
         PROVE  PlanFacts'
    <2>1. Settles(Accepted({"stop"}), "completed")
      BY <1>12, PlainStopRows DEF CompletePendingStop
    <2>2. \A s \in ReqIds : commands'[s].ack = "accepted" =>
             commands'[s].kind \notin {"stop", "stop_after", "handoff"}
      BY <1>12, <2>1 DEF CompletePendingStop, Settles, Accepted, PlanFacts
    <2>3. \A s \in ReqIds : commands'[s].kind = commands[s].kind
      BY <2>1 DEF Settles
    <2>4. /\ intake' = "stopped" /\ pending' = None /\ UNCHANGED <<plan, nextIssue, handoff>>
          /\ pending # None /\ commands[pending].kind = "stop"
      BY <1>12 DEF CompletePendingStop, CompletePlainStops
    <2> QED BY <1>t, <2>2, <2>3, <2>4 DEF PlanFacts
  <1>13. ASSUME NEW a \in Attempts, CountDown(a)
         PROVE  PlanFacts'
    <2>1. /\ pending # None /\ commands[pending].kind = "stop_after"
          /\ commands[pending].ack = "accepted" /\ plan.requested # 0
          /\ plan.remaining >= 1 /\ plan.remaining \in Nat /\ pending \in ReqIds
          /\ intake # "stopped"
          /\ UNCHANGED <<nextIssue, handoff>>
      BY <1>t, <1>13, SizeAssumption DEF CountDown, HasPlan, PlanFacts, TypeOK
    <2>2. CASE plan.remaining = 1
      <3>1. Settles({s \in ReqIds : s = pending /\ commands[s].ack = "accepted"}, "completed")
        BY <1>13, <2>2, CountDownRows
      <3>2. \A s \in ReqIds : commands'[s].ack = "accepted" =>
               commands'[s].kind \notin {"stop", "stop_after", "handoff"}
        BY <2>1, <3>1 DEF Settles, PlanFacts
      <3>3. \A s \in ReqIds : commands'[s].kind = commands[s].kind
        BY <3>1 DEF Settles
      <3>4. intake' = "stopped" /\ pending' = None /\ plan' = NoPlan
        BY <1>13, <2>2 DEF CountDown
      <3> QED BY <1>t, <2>1, <3>2, <3>3, <3>4 DEF PlanFacts, NoPlan
    <2>3. CASE plan.remaining > 1
      <3>0. ~(plan.remaining - 1 <= 0)
        BY <2>1, <2>3
      <3>1. commands' = commands
        BY <1>13, <3>0, CountDownRows
      <3>2. intake = "running"
        BY <2>1, <2>3 DEF PlanFacts, TypeOK, Intakes
      <3>3. /\ intake' = "running" /\ pending' = pending
            /\ plan' = [plan EXCEPT !.remaining = plan.remaining - 1]
        BY <1>13, <2>1, <2>3, <3>2 DEF CountDown
      <3>4. plan'.requested = plan.requested /\ plan'.remaining >= 1
        BY <2>1, <2>3, <3>3 DEF TypeOK
      <3> QED BY <1>t, <2>1, <3>1, <3>2, <3>3, <3>4 DEF PlanFacts
    <2> QED BY <2>1, <2>2, <2>3
  <1>14. ASSUME EnterStoppingForFinalClaim
         PROVE  PlanFacts'
    BY <1>14 DEF EnterStoppingForFinalClaim, FinalClaimDue, HasPlan, PlanFacts
  <1>15. ASSUME UNCHANGED storeVars
         PROVE  PlanFacts'
    BY <1>15 DEF storeVars, PlanFacts
  <1>16. /\ "completed" \in Acks /\ "not_fulfilled" \in Acks
    BY DEF Acks
  <1>17. ASSUME NEW r \in ReqIds, OperatorCall(r)
         PROVE  PlanFacts'
    BY <1>17, <1>1, <1>2, <1>3, <1>4, <1>6, <1>9, <1>11 DEF OperatorCall
  <1>18. ASSUME LifecycleCall
         PROVE  PlanFacts'
    BY <1>18, <1>16, <1>5, <1>7, <1>8, <1>10, <1>12, <1>13, <1>14
       DEF LifecycleCall, CompleteHandoff, FailHandoff, CompleteNextIssue, FailNextIssue,
           CountAttempt
  <1> QED BY <1>15, <1>17, <1>18 DEF StoreNext

\* PlanInv is an inductive invariant of the store.
THEOREM PlanInvariant == StoreSpec => []PlanInv
  <1>1. StoreInit => TypeOK
    BY SizeAssumption DEF StoreInit, TypeOK, NoPlan, NoNextIssue, NoHandoff, Intakes
  <1>2. StoreInit => PlanFacts
    BY NoneAssumption DEF StoreInit, PlanFacts, NoPlan, NoNextIssue, NoHandoff, NoCommand
  <1>3. TypeOK /\ PlanFacts /\ [StoreNext]_storeVars => (TypeOK /\ PlanFacts)'
    BY TypeStep, PlanStep
  <1>4. TypeOK /\ PlanFacts => PlanInv
    BY PlanFactsEquiv
  <1> QED BY <1>1, <1>2, <1>3, <1>4, PTL DEF StoreSpec

\* One stop plan at a time, whatever the operator sends and however often the
\* lifecycle counts, completes or fails.
THEOREM OneStopPlanHolds == StoreSpec => []OneStopPlan
  <1>1. PlanInv => OneStopPlan
    BY DEF PlanInv
  <1> QED BY <1>1, PlanInvariant, PTL

\* The intake state always has the plan that explains it.
THEOREM IntakeExplainedHolds == StoreSpec => []IntakeExplained
  <1>1. PlanInv => IntakeExplained
    BY DEF PlanInv
  <1> QED BY <1>1, PlanInvariant, PTL

\* Every accepted handoff is the one the runner polls.
THEOREM HandoffTrackedHolds == StoreSpec => []HandoffTracked
  <1>1. PlanInv => HandoffTracked
    BY DEF PlanInv
  <1> QED BY <1>1, PlanInvariant, PTL

-----------------------------------------------------------------------------
(* What no step of the store does *)

\* The bodies of the action properties.
FinalStep ==
    \A r \in ReqIds : commands[r] # NoCommand =>
       /\ commands'[r].kind = commands[r].kind
       /\ commands'[r].payload = commands[r].payload
       /\ commands[r].ack # "accepted" => commands'[r].ack = commands[r].ack

ReopenStep ==
    intake # "running" /\ intake' = "running" =>
       \E r \in ReqIds : /\ commands[r] = NoCommand
                         /\ commands'[r].kind \in {"resume", "stop_after"}

\* Recording a fresh command, and settling accepted ones, changes no terminal
\* acknowledgement.
LEMMA RecordsFinal ==
    ASSUME NEW S, NEW r \in ReqIds, NEW kind, NEW payload, NEW ack,
           Fresh(r), Records(S, r, kind, payload, ack),
           \A s \in S : commands[s].ack = "accepted"
    PROVE  FinalStep
  BY DEF Records, FinalStep, Fresh

\* The same for a transaction that only settles accepted commands.
LEMMA SettlesFinal ==
    ASSUME NEW S, NEW a, Settles(S, a), \A s \in S : commands[s].ack = "accepted"
    PROVE  FinalStep
  BY DEF Settles, FinalStep

\* Every action of the store keeps settled commands as they are.
LEMMA StepFinal ==
    ASSUME TypeOK, [StoreNext]_storeVars
    PROVE  FinalStep
  <1>a. \A kinds : \A s \in Accepted(kinds) : commands[s].ack = "accepted"
    BY DEF Accepted
  <1>p. \A s \in OldPriority : commands[s].ack = "accepted"
    BY DEF OldPriority
  <1>1. ASSUME NEW r \in ReqIds, NEW active \in Attempts \cup {None}, SubmitStop(r, active)
        PROVE  FinalStep
    <2>0. Fresh(r)
      BY <1>1 DEF SubmitStop
    <2>1. CASE StopWhileStopped(r)
      BY <2>0, <2>1, StopRows, RecordsFinal
    <2>2. CASE StopWhileStopping(r)
      <3>1. \A s \in Joined : commands[s].ack = "accepted"
        BY DEF Joined, Accepted
      <3>2. Records(Joined, r, "stop", None, "accepted")
        BY <2>2, StopRows
      <3> QED BY <2>0, <3>1, <3>2, RecordsFinal
    <2>3. CASE StopWhileRunning(r, active)
      <3> DEFINE gone == Accepted({"stop_after"} \cup IF HandoffBegun THEN {} ELSE {"handoff"})
                 ack == IF active # None THEN "accepted" ELSE "completed"
      <3>1. Records(gone, r, "stop", None, ack)
        BY <2>3, StopRows
      <3>2. \A s \in gone : commands[s].ack = "accepted"
        BY <1>a
      <3> HIDE DEF gone, ack
      <3> QED BY <2>0, <3>1, <3>2, RecordsFinal
    <2> QED BY <1>1, <2>1, <2>2, <2>3 DEF SubmitStop
  <1>2. ASSUME NEW r \in ReqIds, NEW hold \in BOOLEAN, SubmitResume(r, hold)
        PROVE  FinalStep
    <2>1. Fresh(r) /\ (ResumeUnderBegunHandoff(r) \/ ResumeIntake(r))
      BY <1>2 DEF SubmitResume
    <2>2. CASE ResumeUnderBegunHandoff(r)
      BY <2>1, <2>2, ResumeRows, RecordsFinal
    <2>3. CASE ResumeIntake(r)
      BY <1>a, <2>1, <2>3, ResumeRows, RecordsFinal
    <2> QED BY <2>1, <2>2, <2>3
  <1>3. ASSUME NEW r \in ReqIds, NEW n \in Counts, NEW active \in Attempts \cup {None},
               SubmitStopAfter(r, n, active)
        PROVE  FinalStep
    <2>1. Fresh(r) /\ Records(Accepted(PlanKinds), r, "stop_after", n, "accepted")
      BY <1>3, StopAfterRows DEF SubmitStopAfter
    <2> QED BY <1>a, <2>1, RecordsFinal
  <1>4. ASSUME NEW r \in ReqIds, NEW issue \in Issues, SubmitNextIssue(r, issue)
        PROVE  FinalStep
    <2>1. Fresh(r) /\ Records(OldPriority, r, "next_issue", issue, "accepted")
      BY <1>4, NextIssueRows DEF SubmitNextIssue
    <2> QED BY <1>p, <2>1, RecordsFinal
  <1>5. ASSUME NEW ack \in Acks, SettleNextIssue(ack)
        PROVE  FinalStep
    BY <1>5, <1>p, SettleNextIssueRows, SettlesFinal
  <1>6. ASSUME NEW r \in ReqIds, NEW active, NEW hold, SubmitHandoff(r, active, hold)
        PROVE  FinalStep
    <2>1. Fresh(r) /\ Records(Accepted(PlanKinds), r, "handoff", None, "accepted")
      BY <1>6, HandoffRows DEF SubmitHandoff
    <2> QED BY <1>a, <2>1, RecordsFinal
  <1>7. ASSUME commands' = commands
        PROVE  FinalStep
    BY <1>7 DEF FinalStep
  <1>8. ASSUME NEW r \in ReqIds, NEW ack \in Acks, SettleHandoff(r, ack)
        PROVE  FinalStep
    <2>1. /\ commands[r].ack = "accepted"
          /\ \A s \in ReqIds :
                /\ commands'[s].kind = commands[s].kind
                /\ commands'[s].payload = commands[s].payload
                /\ commands'[s].ack = IF s = r THEN ack
                                      ELSE IF pending = r /\ s \in Accepted({"stop"})
                                           THEN "completed" ELSE commands[s].ack
      BY <1>8, SettleHandoffRows DEF SettleHandoff
    <2> QED BY <1>a, <2>1 DEF FinalStep
  <1>9. ASSUME NEW r \in ReqIds, NEW kind \in RecoveryKinds, NEW a \in Attempts,
               SubmitRecovery(r, kind, a)
        PROVE  FinalStep
    <2>1. Fresh(r) /\ Records({}, r, kind, a, "accepted")
      BY <1>9, RecoveryRows DEF SubmitRecovery
    <2> QED BY <2>1, RecordsFinal
  <1>10. ASSUME NEW r \in ReqIds, NEW ack \in Acks, SettleRecovery(r, ack)
         PROVE  FinalStep
    <2>1. commands[r].ack = "accepted" /\ Settles({r}, ack)
      BY <1>10, RecoveryRows DEF SettleRecovery
    <2> QED BY <2>1, SettlesFinal
  <1>11. ASSUME NEW r \in ReqIds, SubmitErrorsReset(r)
         PROVE  FinalStep
    <2>1. Fresh(r) /\ Records({}, r, "errors_reset", None, "completed")
      BY <1>11, RecoveryRows DEF SubmitErrorsReset
    <2> QED BY <2>1, RecordsFinal
  <1>12. ASSUME CompletePendingStop
         PROVE  FinalStep
    <2>1. Settles(Accepted({"stop"}), "completed")
      BY <1>12, PlainStopRows DEF CompletePendingStop
    <2> QED BY <1>a, <2>1, SettlesFinal
  <1>13. ASSUME NEW a \in Attempts, CountDown(a)
         PROVE  FinalStep
    <2> DEFINE S == {s \in ReqIds : s = pending /\ commands[s].ack = "accepted"}
    <2>1. \A s \in S : commands[s].ack = "accepted"
      OBVIOUS
    <2>2. CASE plan.remaining - 1 <= 0
      <3>1. Settles(S, "completed")
        BY <1>13, <2>2, CountDownRows
      <3> HIDE DEF S
      <3> QED BY <2>1, <3>1, SettlesFinal
    <2>3. CASE ~(plan.remaining - 1 <= 0)
      BY <1>7, <1>13, <2>3, CountDownRows
    <2> QED BY <2>2, <2>3
  <1>16. /\ "completed" \in Acks /\ "not_fulfilled" \in Acks
    BY DEF Acks
  <1>17. ASSUME NEW r \in ReqIds, OperatorCall(r)
         PROVE  FinalStep
    BY <1>17, <1>1, <1>2, <1>3, <1>4, <1>6, <1>9, <1>11 DEF OperatorCall
  <1>18. ASSUME LifecycleCall
         PROVE  FinalStep
    BY <1>18, <1>16, <1>5, <1>7, <1>8, <1>10, <1>12, <1>13
       DEF LifecycleCall, CompleteHandoff, FailHandoff, CompleteNextIssue, FailNextIssue,
           CountAttempt, MarkHandoffDelivering, MarkHandoffBegun, EnterStoppingForFinalClaim
  <1> QED BY <1>7, <1>17, <1>18 DEF StoreNext, storeVars

\* A terminal acknowledgement never changes and a recorded command keeps its
\* kind and payload, so a retried request id can rely on its stored record.
THEOREM AcksAreFinalHolds == StoreSpec => AcksAreFinal
  <1>1. TypeOK /\ [StoreNext]_storeVars => [FinalStep]_storeVars
    BY StepFinal
  <1>2. [][FinalStep]_storeVars => AcksAreFinal
    BY PTL DEF AcksAreFinal, FinalStep
  <1> QED BY <1>1, <1>2, TypeCorrect, PTL DEF StoreSpec

\* No step of the lifecycle reopens the intake.
LEMMA StepReopens ==
    ASSUME TypeOK, PlanFacts, [StoreNext]_storeVars
    PROVE  ReopenStep
  <1>1. ASSUME NEW r \in ReqIds, OperatorCall(r)
        PROVE  ReopenStep
    <2> SUFFICES ASSUME intake # "running", intake' = "running"
                 PROVE  /\ commands[r] = NoCommand
                        /\ commands'[r].kind \in {"resume", "stop_after"}
      BY DEF ReopenStep
    <2>1. CASE \E hold \in BOOLEAN : SubmitResume(r, hold)
      BY <2>1, ResumeRows DEF SubmitResume, Records, Fresh
    <2>2. CASE \E active \in Attempts \cup {None}, n \in Counts : SubmitStopAfter(r, n, active)
      BY <2>2, StopAfterRows DEF SubmitStopAfter, Records, Fresh
    <2>3. ~ \E active \in Attempts \cup {None} : SubmitStop(r, active)
      BY DEF SubmitStop, StopWhileStopped, StopWhileStopping, StopWhileRunning
    <2>4. ~ \E active \in Attempts \cup {None}, hold \in BOOLEAN : SubmitHandoff(r, active, hold)
      BY DEF SubmitHandoff
    <2>5. ~ \E issue \in Issues : SubmitNextIssue(r, issue)
      BY DEF SubmitNextIssue
    <2>6. /\ ~ \E kind \in RecoveryKinds, a \in Attempts : SubmitRecovery(r, kind, a)
          /\ ~ SubmitErrorsReset(r)
      BY DEF SubmitRecovery, SubmitErrorsReset
    <2> QED BY <1>1, <2>1, <2>2, <2>3, <2>4, <2>5, <2>6 DEF OperatorCall
  <1>2. ASSUME LifecycleCall, intake # "running"
        PROVE  intake' # "running"
    <2>1. ASSUME NEW r \in ReqIds, NEW ack, SettleHandoff(r, ack) \/ SettleRecovery(r, ack)
          PROVE  intake' # "running"
      BY <1>2, <2>1 DEF SettleHandoff, SettleRecovery
    <2>2. ASSUME NEW ack, SettleNextIssue(ack)
          PROVE  intake' # "running"
      BY <1>2, <2>2 DEF SettleNextIssue
    <2>3. ASSUME NEW a \in Attempts, CountDown(a)
          PROVE  intake' # "running"
      <3>1. plan.remaining - 1 <= 0
        BY <1>2, <2>3 DEF CountDown, HasPlan, PlanFacts, TypeOK, Intakes
      <3> QED BY <2>3, <3>1 DEF CountDown
    <2>4. CompletePendingStop => intake' # "running"
      BY DEF CompletePendingStop, CompletePlainStops
    <2> QED BY <1>2, <2>1, <2>2, <2>3, <2>4
          DEF LifecycleCall, CompleteHandoff, FailHandoff, CompleteNextIssue, FailNextIssue,
              CountAttempt, MarkHandoffDelivering, MarkHandoffBegun, EnterStoppingForFinalClaim
  <1> QED BY <1>1, <1>2 DEF StoreNext, storeVars, ReopenStep

\* Once the intake stops or is stopping, only a new resume or stop --after
\* command reopens it; counting an attempt never does.
THEOREM OnlyOperatorReopensHolds == StoreSpec => OnlyOperatorReopens
  <1>1. TypeOK /\ PlanFacts /\ [StoreNext]_storeVars => [ReopenStep]_storeVars
    BY StepReopens
  <1>2. [][ReopenStep]_storeVars => OnlyOperatorReopens
    BY PTL DEF OnlyOperatorReopens, ReopenStep
  <1>3. PlanInv => TypeOK /\ PlanFacts
    BY PlanFactsEquiv DEF PlanInv
  <1> QED BY <1>1, <1>2, <1>3, PlanInvariant, PTL DEF StoreSpec
=============================================================================
