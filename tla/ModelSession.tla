---------------------------- MODULE ModelSession ----------------------------
(***************************************************************************)
(* One model session (model_execution.ModelExecutor.execute).  The driver  *)
(* reads the SDK's message stream in _receive_terminal; the CLI calls the  *)
(* PreToolUse, PostToolUse and Stop hooks between any two of its steps;    *)
(* the operator may ask for a handoff, replace or withdraw the request; the *)
(* clock runs.  _receive_terminal calls itself for the operator's fallback *)
(* prompt and is called again for the one follow-up after a limit, so the  *)
(* driver's loops are a stack of frames.                                   *)
(*                                                                         *)
(* A tool call is its class, a result how _classify reads it, and the      *)
(* token ledger (module TokenLedger) only what its reading reaches:        *)
(* nothing, the soft threshold or the hard ceiling.  Prompts are counted   *)
(* by kind.  Logs, archives, telemetry, tool trails and the process reaper, *)
(* whose failures are swallowed, are left out, and so is the review gate: a *)
(* count of code-review calls and one nudge, which decide nothing else.    *)
(***************************************************************************)
EXTENDS Naturals, Sequences, FiniteSets

CONSTANTS
    Tasks,          \* subagents that run in the background (deferring tasks)
    MaxRequests,    \* bound: handoff requests of the operator
    Scenes          \* bound: what one behaviour may meet (see SceneType)

\* Terminal results by how _is_model_limit and _classify read them: "limit" is
\* turns, budget or a bare error; "failed" a timeout, an abort or another
\* model than the configured one.
Results == {"ok", "limit", "failed"}

\* The tasks that may start, the requests the operator may make, whether the
\* context may be compacted, what the ledger may read and how a turn may end.
\* Each behaviour plays in one scene.
SceneType == [tasks : SUBSET Tasks, requests : 0..MaxRequests,
              compaction : BOOLEAN, readings : SUBSET (0..2), results : SUBSET Results]

ASSUME SceneAssumption == MaxRequests \in Nat /\ Scenes \subseteq SceneType

VARIABLES
    scene,          \* fixed at the start
    pc,             \* where execute is
    frames,         \* the running calls of _receive_terminal, innermost last
    terminal,       \* the result the outermost loop returned
    followup,       \* why the one follow-up was sent
    status,         \* ModelExecutionStatus, once known
    model,          \* the CLI's main thread: "working" or "idle"
    inflight,       \* tool calls that run: <<thread, what its end does>>
    task,           \* background tasks: "new", "alive", "ended"
    crossed,        \* _soft_threshold_crossed
    ceiling,        \* _token_hard_ceiling_reached
    skill,          \* a main-thread handoff call is in skill_events
    noteSeen,       \* _handoff_note_committed
    told,           \* _handoff_context_delivered
    again,          \* armed re-injections: "token", "operator"
    informed,       \* ghost: the instruction is in the model's context
    compacted,      \* a compact_boundary message waits in the stream
    op,             \* the operator handoff as the executor sees it
    offer,          \* the accepted handoff in the control store, 0 for none
    asked, age,     \* requests so far, and the age of each
    reports,        \* what was reported to the store
    prompts         \* how many of each kind were sent after the first one

driver == <<pc, frames, terminal, followup, status>>
gates == <<crossed, ceiling, skill, noteSeen, told, again>>
operator == <<scene, offer, asked, age>>
sessionVars == <<scene, pc, frames, terminal, followup, status, model, inflight,
    task, crossed, ceiling, skill, noteSeen, told, again, informed,
    compacted, op, offer, asked, age, reports, prompts>>

Main == "main"
Threads == Tasks \cup {Main}
None == "none"

\* Classes of tool calls.  "note" writes under .agent/handoff; "commit" is a
\* shell command _is_handoff_command accepts and that does not delete the
\* note; "work" any other edit or command; "publish" what publication_guard
\* refuses; "launch" starts a subagent; "skill" is a skill other than handoff;
\* "read" has no gate of its own.
Commands == {"commit"}
Publishing == {"publish"}
Tools == {"handoff", "skill", "note", "work", "launch", "read"}
            \cup Commands \cup Publishing

\* What the end of a call can do: only a handoff and a command that may have
\* committed, of the main thread, are told apart.
EndOf(th, tool) ==
    CASE th = Main /\ tool = "handoff" -> "handoff"
      [] th = Main /\ tool \in {"commit", "work"} -> "command"
      [] OTHER -> "other"
Ends == {"handoff", "command", "other"}

Statuses == {"SUCCEEDED", "MODEL_LIMIT_REACHED", "INFRASTRUCTURE_ERROR",
             "HANDOFF_REQUESTED", "OPERATOR_HANDOFF_EXPIRED"}

Frame(kind) ==
    [kind |-> kind, open |-> TRUE, waiting |-> FALSE, pending |-> {},
     finished |-> {}, deferred |-> None, turn |-> FALSE, woken |-> FALSE,
     grace |-> "off"]

Alive == {t \in Tasks : task[t] = "alive"}

Top == frames[Len(frames)]
Base == frames[1].kind
WithTop(f) == [frames EXCEPT ![Len(frames)] = f]

SessionInit ==
    /\ scene \in Scenes
    /\ pc = "check" /\ frames = <<Frame("main")>>
    /\ terminal = None /\ followup = [why |-> None, result |-> None] /\ status = None
    /\ model = "working" /\ inflight = {} /\ task = [t \in Tasks |-> "new"]
    /\ crossed = FALSE /\ ceiling = FALSE /\ skill = FALSE /\ noteSeen = FALSE
    /\ told = FALSE /\ again = {} /\ informed = FALSE /\ compacted = FALSE
    /\ op = [latched |-> 0, delivered |-> FALSE, begun |-> FALSE,
             fallback |-> FALSE, expired |-> FALSE]
    /\ offer = 0 /\ asked = 0 /\ age = [r \in 1..MaxRequests |-> 0]
    /\ reports = {} /\ prompts = [followup |-> 0, fallback |-> 0, wakeup |-> 0]

-----------------------------------------------------------------------------
(* Outcomes *)

\* What the terminal result means, in the order the code asks.
Classify(result) ==
    CASE ceiling -> "MODEL_LIMIT_REACHED"
      [] ~ceiling /\ \/ op.delivered /\ skill
                     \/ crossed /\ (skill \/ noteSeen) -> "HANDOFF_REQUESTED"
      [] OTHER ->
         CASE result = "failed" -> "INFRASTRUCTURE_ERROR"
           [] result = "limit" \/ (crossed /\ result = "ok") -> "MODEL_LIMIT_REACHED"
           [] OTHER -> "SUCCEEDED"

\* A stream that ended without a result.
NoResult ==
    IF op.expired /\ op.latched # 0 THEN "OPERATOR_HANDOFF_EXPIRED"
    ELSE "INFRASTRUCTURE_ERROR"

TokenHandoffDone == crossed /\ (skill \/ noteSeen)

\* Of the conditions of the cost follow-up, whether one more response fits the
\* budget is left open.
NeedsCostFollowup(result) ==
    crossed /\ ~TokenHandoffDone /\ ~ceiling /\ result = "ok"

\* The client is disconnected and its processes are reaped on every way out.
Finish(s) ==
    /\ pc' = "done" /\ status' = s
    /\ frames' = <<>> /\ model' = "idle" /\ inflight' = {} /\ compacted' = FALSE

\* Leave the innermost loop with a result.  The fallback's result is passed on
\* by the loop below it.
Return(result) ==
    /\ pc' = "returned"
    /\ frames' = <<Frame(Base)>>
    /\ IF Base = "main" THEN terminal' = result /\ UNCHANGED followup
       ELSE followup' = [followup EXCEPT !.result = result] /\ UNCHANGED terminal

-----------------------------------------------------------------------------
(* The operator handoff *)

\* Mutant: only the delivery pins a request.
PolledUntilDelivered(o) ==
    IF offer = 0 \/ (o.latched # 0 /\ o.delivered) THEN o
    ELSE [o EXCEPT !.latched = offer]

\* _poll_operator_handoff: the request that is latched after a poll.
Polled(o) ==
    IF offer = 0 \/ (o.latched # 0 /\ (o.delivered \/ o.begun)) THEN o
    ELSE [o EXCEPT !.latched = offer]

\* _operator_due_action: 1 is the delivery window (60 s), 2 the model
\* deadline (240 s) after the acceptance.
Due(o) ==
    CASE o.latched = 0 \/ o.expired -> None
      [] o.latched # 0 /\ ~o.expired /\ age[o.latched] = 2 -> "expire"
      [] o.latched # 0 /\ ~o.expired /\ age[o.latched] = 1
            /\ ~o.fallback /\ ~o.delivered /\ ~o.begun -> "fallback"
      [] OTHER -> None

\* What a step that delivers or begins the handoff reports to the store.
Reported ==
    reports' = reports \cup {<<e, op'.latched>> :
                  e \in {x \in {"delivered", "begun"} : op'[x] /\ ~op[x]}}

\* Cancelling an outstanding read closes the generator.
Cancelled(f) == [f EXCEPT !.open = @ /\ ~f.waiting, !.waiting = FALSE]

\* _stop_background_tasks: a stop that fails never fails the attempt.
Stopped(ts) == [t \in Tasks |-> IF t \in ts THEN "ended" ELSE task[t]]

GraceOver(f) == f.grace = "over" /\ f.pending # {}

-----------------------------------------------------------------------------
(* The loop of _receive_terminal: first what is due, then a message *)

\* The deadline: interrupt and drain; nothing of the stream counts any more.
Expire ==
    /\ pc = "check" /\ Due(Polled(op)) = "expire"
    /\ op' = Polled(op)
    /\ pc' = "expire" /\ frames' = WithTop(Cancelled(Top))
    /\ model' = "idle" /\ compacted' = FALSE
    /\ UNCHANGED <<terminal, followup, status, inflight, task, gates,
                   informed, operator, reports, prompts>>

ExpireReturn ==
    /\ pc = "expire"
    /\ op' = [op EXCEPT !.expired = TRUE]
    /\ Return(None)
    /\ UNCHANGED <<status, model, inflight, task, gates, informed,
                   compacted, operator, reports, prompts>>

\* The delivery window has passed: the single fallback.  The gate closes and
\* the store is told before the interrupt and the drain.
Fallback ==
    /\ pc = "check" /\ Due(Polled(op)) = "fallback"
    /\ frames' = WithTop(Cancelled(Top))
    /\ IF ceiling
         THEN /\ op' = [Polled(op) EXCEPT !.fallback = TRUE]
              /\ UNCHANGED <<pc, reports, model, compacted>>
         ELSE /\ op' = [Polled(op) EXCEPT !.fallback = TRUE, !.delivered = TRUE]
              /\ Reported
              /\ pc' = "query" /\ model' = "idle" /\ compacted' = FALSE
    /\ UNCHANGED <<terminal, followup, status, inflight, task, gates,
                   informed, operator, prompts>>

FallbackQuery ==
    /\ pc = "query"
    /\ pc' = "check" /\ frames' = Append(frames, Frame("fallback"))
    /\ prompts' = [prompts EXCEPT !.fallback = @ + 1]
    /\ model' = "working" /\ informed' = TRUE
    /\ UNCHANGED <<terminal, followup, status, inflight, task, gates,
                   compacted, op, operator, reports>>

\* _maybe_background_followup: the tasks of a deferred result are settled and
\* no turn followed.
WakeUpDue(f) ==
    /\ ~f.woken /\ f.pending = {} /\ f.finished # {}
    /\ f.deferred # None /\ ~f.turn

\* Query and read on from a new stream.
WakeUp(f) ==
    /\ pc' = "check"
    /\ frames' = WithTop([f EXCEPT !.woken = TRUE, !.open = TRUE])
    /\ model' = "working"
    /\ prompts' = [prompts EXCEPT !.wakeup = @ + 1]
    /\ UNCHANGED <<terminal, followup>>

\* The grace of a deferred result is over: its tasks are stopped.
StopTasks ==
    /\ pc = "check" /\ Due(Polled(op)) = None /\ GraceOver(Top)
    /\ op' = Polled(op)
    /\ task' = Stopped(Top.pending)
    /\ LET f == [Cancelled(Top) EXCEPT !.pending = {}]
       IN  \/ WakeUpDue(f) /\ WakeUp(f)
           \/ ~WakeUpDue(f) /\ Return(f.deferred) /\ UNCHANGED <<model, prompts>>
    /\ UNCHANGED <<status, inflight, gates, informed, compacted,
                   operator, reports>>

\* Nothing is due: wait for a message or the next boundary.
Wait ==
    /\ pc = "check" /\ Due(Polled(op)) = None /\ ~GraceOver(Top)
    /\ op' = Polled(op)
    /\ pc' = "wait" /\ frames' = WithTop([Top EXCEPT !.waiting = TRUE])
    /\ UNCHANGED <<terminal, followup, status, model, inflight, task,
                   gates, informed, compacted, operator, reports, prompts>>

\* Mutant: the wait is not bounded while no request is latched.
BoundaryWhenLatched ==
    /\ pc = "wait" /\ op.latched # 0
    /\ Due(op) # None \/ GraceOver(Top)
    /\ pc' = "check"
    /\ UNCHANGED <<frames, terminal, followup, status, model, inflight, task,
                   gates, informed, compacted, op, operator, reports, prompts>>

\* The wait ends without a message; the read stays outstanding.
Boundary ==
    /\ pc = "wait"
    /\ \/ offer # 0 /\ Polled(op) # op
       \/ Due(op) # None
       \/ GraceOver(Top)
    /\ pc' = "check"
    /\ UNCHANGED <<frames, terminal, followup, status, model, inflight,
                   task, gates, informed, compacted, op, operator, reports,
                   prompts>>

Reading == pc = "wait" /\ Top.open
Got(f) == [f EXCEPT !.waiting = FALSE]

\* Where the loop goes after a message: the hard ceiling interrupts at once.
Onward(hard) == pc' = IF hard THEN "ceiling" ELSE "check"

\* An assistant message: the ledger counts it and the limits latch.
AssistantMessage(reading) ==
    /\ Reading
    /\ model = "working" \/ Alive # {}
    /\ crossed' = (crossed \/ reading >= 1)
    /\ ceiling' = (ceiling \/ reading = 2)
    /\ frames' = WithTop([Got(Top) EXCEPT !.turn = @ \/ Top.deferred # None])
    /\ Onward(ceiling \/ reading = 2)
    /\ UNCHANGED <<terminal, followup, status, model, inflight, task, skill,
                   noteSeen, told, again, informed, compacted, op, operator,
                   reports, prompts>>

TaskStarted(t) ==
    /\ Reading /\ t \in scene.tasks /\ task[t] = "new"
    /\ task' = [task EXCEPT ![t] = "alive"]
    /\ frames' = WithTop([Got(Top) EXCEPT !.pending = @ \cup {t}])
    /\ Onward(ceiling)
    /\ UNCHANGED <<terminal, followup, status, model, inflight, gates,
                   informed, compacted, op, operator, reports, prompts>>

\* The notification may wake an idle model.
TaskFinished(t) ==
    /\ Reading /\ task[t] = "alive"
    /\ model' \in {model} \cup (IF model = "idle" THEN {"working"} ELSE {})
    /\ task' = [task EXCEPT ![t] = "ended"]
    /\ frames' = WithTop([Got(Top) EXCEPT !.pending = @ \ {t}, !.finished = @ \cup {t}])
    /\ Onward(ceiling)
    /\ UNCHANGED <<terminal, followup, status, inflight, gates,
                   informed, compacted, op, operator, reports, prompts>>

\* Mutant: only the operator's instruction is sent again.
RearmedOperatorOnly ==
    again \cup (IF ~noteSeen /\ op.delivered /\ ~op.begun THEN {"operator"} ELSE {})

\* _arm_handoff_reinject_after_compaction
Rearmed ==
    again \cup (IF ~noteSeen /\ crossed /\ told THEN {"token"} ELSE {})
          \cup (IF ~noteSeen /\ op.delivered /\ ~op.begun THEN {"operator"} ELSE {})

CompactBoundary ==
    /\ Reading /\ compacted
    /\ compacted' = FALSE /\ again' = Rearmed
    /\ frames' = WithTop(Got(Top))
    /\ Onward(ceiling)
    /\ UNCHANGED <<terminal, followup, status, model, inflight, task,
                   crossed, ceiling, skill, noteSeen, told, informed, op,
                   operator, reports, prompts>>

\* Mutant: every result is terminal.
ResultNeverDeferred(result) ==
    /\ Reading /\ model = "working"
    /\ \A end \in Ends : <<Main, end>> \notin inflight
    /\ model' = "idle" /\ Return(result)
    /\ UNCHANGED <<status, inflight, task, gates, informed, compacted, op,
                   operator, reports, prompts>>

\* A result is deferred while background tasks run, unless the handoff note is
\* committed.  Tasks that still run behind a terminal result are stopped.
ResultMessage(result) ==
    /\ Reading /\ model = "working"
    /\ \A end \in Ends : <<Main, end>> \notin inflight
    /\ model' = "idle"
    /\ \/ /\ Top.pending # {} /\ ~noteSeen
          /\ frames' = WithTop([Got(Top) EXCEPT !.deferred = result,
                                  !.grace = IF @ = "off" THEN "on" ELSE @])
          /\ pc' = "check"
          /\ UNCHANGED <<terminal, followup, task>>
       \/ /\ Top.pending = {} \/ noteSeen
          /\ task' = Stopped(Top.pending)
          /\ Return(result)
    /\ UNCHANGED <<status, inflight, gates, informed, compacted, op,
                   operator, reports, prompts>>

\* The stream ends (or was closed by a cancelled read) without a result.
StreamEnds ==
    /\ pc = "wait"
    /\ ~Top.open \/ model = "idle"
    /\ \/ WakeUpDue(Top) /\ WakeUp(Got(Top))
       \/ ~WakeUpDue(Top) /\ Return(None) /\ UNCHANGED <<model, prompts>>
    /\ UNCHANGED <<status, inflight, task, gates, informed, compacted,
                   op, operator, reports>>

\* The hard ceiling: interrupt, drain, and return what the drain found.
CeilingReturn(drained) ==
    /\ pc = "ceiling"
    /\ Return(drained) /\ model' = "idle" /\ compacted' = FALSE
    /\ UNCHANGED <<status, inflight, task, gates, informed, op,
                   operator, reports, prompts>>

-----------------------------------------------------------------------------
(* execute around the loop *)

InLoop == pc \in {"check", "wait", "query", "expire", "ceiling"}

\* MODEL_TIMEOUT: it cancels the outermost loop with everything in it.
ModelTimeout ==
    /\ InLoop /\ Base = "main"
    /\ pc' = "timeout" /\ frames' = <<>>
    /\ model' = "idle" /\ compacted' = FALSE
    /\ UNCHANGED <<terminal, followup, status, inflight, task, gates,
                   informed, op, operator, reports, prompts>>

\* Mutant: the follow-up's loop is started inside the one that returned.
AskInside(why) ==
    /\ pc' = "check" /\ frames' = Append(frames, Frame("followup"))
    /\ followup' = [why |-> why, result |-> None]
    /\ prompts' = [prompts EXCEPT !.followup = @ + 1]
    /\ model' = "working" /\ informed' = TRUE
    /\ UNCHANGED <<terminal, status, inflight, compacted>>

\* The follow-up prompt, on the same client.
Ask(why) ==
    /\ pc' = "check" /\ frames' = <<Frame("followup")>>
    /\ followup' = [why |-> why, result |-> None]
    /\ prompts' = [prompts EXCEPT !.followup = @ + 1]
    /\ model' = "working" /\ informed' = TRUE
    /\ UNCHANGED <<terminal, status, inflight, compacted>>

AfterTimeout ==
    /\ pc = "timeout"
    /\ \/ ~ceiling /\ Ask("timeout")
       \/ /\ Finish(IF ceiling THEN "MODEL_LIMIT_REACHED" ELSE "INFRASTRUCTURE_ERROR")
          /\ UNCHANGED <<terminal, followup, prompts, informed>>
    /\ UNCHANGED <<task, gates, op, operator, reports>>

\* The outermost loop returned: a limit and an unanswered crossing get one
\* follow-up, everything else (and a follow-up whose query fails) is final.
AfterLoop ==
    /\ pc = "returned" /\ Base = "main"
    /\ \/ ~ceiling /\ terminal = "limit" /\ Ask("limit")
       \/ NeedsCostFollowup(terminal) /\ Ask("cost")
       \/ /\ Finish(IF terminal = None /\ ~ceiling THEN NoResult ELSE Classify(terminal))
          /\ UNCHANGED <<terminal, followup, prompts, informed>>
    /\ UNCHANGED <<task, gates, op, operator, reports>>

\* What is left when the follow-up brought no handoff.
WithoutFollowup ==
    IF followup.why = "timeout" THEN "INFRASTRUCTURE_ERROR" ELSE Classify(terminal)

\* Mutant: a follow-up that brought no result is sent once more.
AfterFollowupRetried ==
    /\ pc = "returned" /\ Base = "followup"
    /\ \/ followup.result = None /\ Ask(followup.why)
       \/ /\ Finish(IF followup.result # None
                       /\ (skill \/ (followup.why = "cost" /\ noteSeen))
                    THEN "HANDOFF_REQUESTED" ELSE WithoutFollowup)
          /\ UNCHANGED <<terminal, followup, prompts, informed>>
    /\ UNCHANGED <<task, gates, op, operator, reports>>

AfterFollowup ==
    /\ pc = "returned" /\ Base = "followup"
    /\ Finish(IF followup.result # None
                 /\ (skill \/ (followup.why = "cost" /\ noteSeen))
              THEN "HANDOFF_REQUESTED" ELSE WithoutFollowup)
    /\ UNCHANGED <<terminal, followup, task, gates, informed, op, operator,
                   reports, prompts>>

\* The follow-up's own time limit (300 s).
FollowupTimeout ==
    /\ InLoop /\ Base = "followup"
    /\ Finish(WithoutFollowup)
    /\ UNCHANGED <<terminal, followup, task, gates, informed, op, operator,
                   reports, prompts>>

\* A call of the client raises.  Inside the fallback it is caught there and the
\* loop below goes on; inside the follow-up it ends the follow-up; else it
\* ends the execution.
ClientFails ==
    /\ InLoop
    /\ IF pc = "query" \/ Top.kind = "fallback"
         THEN /\ pc' = "check"
              /\ frames' = IF Top.kind = "fallback" THEN SubSeq(frames, 1, Len(frames) - 1)
                           ELSE frames
              /\ UNCHANGED <<status, model, inflight, compacted>>
         ELSE Finish(IF Base = "followup" THEN WithoutFollowup
                     ELSE "INFRASTRUCTURE_ERROR")
    /\ UNCHANGED <<terminal, followup, task, gates, informed, op, operator,
                   reports, prompts>>

-----------------------------------------------------------------------------
(* The hooks *)

Begins(o) == o.latched # 0 /\ ~o.begun

\* _record_skill_event: a main-thread handoff call that runs counts, and begins
\* the latched request.
Counts(th, tool) == th = Main /\ tool = "handoff" /\ ~ceiling
AfterSkill(th, tool) == [op EXCEPT !.begun = @ \/ (Counts(th, tool) /\ Begins(op))]

CostGate(th, tool) ==
    crossed => th = Main /\ tool \in {"handoff", "skill", "note", "read"} \cup Commands

OperatorGate(th, tool) ==
    /\ op.delivered => tool \in {"handoff", "note", "launch", "read"} \cup Commands
    /\ tool = "handoff" /\ th # Main => ~Begins(op)

Allowed(th, tool) ==
    /\ ~ceiling
    /\ CostGate(th, tool)
    /\ OperatorGate(th, tool)
    /\ tool \notin Publishing

\* A call the gates refuse changes nothing.  Bound: one running call per thread.
PreToolUse(th, tool) ==
    /\ pc # "done" /\ Allowed(th, tool)
    /\ IF th = Main THEN model = "working" ELSE task[th] = "alive"
    /\ \A end \in Ends : <<th, end>> \notin inflight
    /\ inflight' = inflight \cup {<<th, EndOf(th, tool)>>}
    /\ skill' = (skill \/ Counts(th, tool))
    /\ op' = AfterSkill(th, tool) /\ Reported
    /\ UNCHANGED <<driver, model, task, crossed, ceiling, noteSeen, told, again,
                   informed, compacted, operator, prompts>>

\* A call has run.  `landed': a command that commits left a note commit newer
\* than the baseline on the branch.
PostToolUse(th, end, landed) ==
    LET o == Polled(AfterSkill(th, end))
        main == th = Main
        seen == /\ crossed \/ op.delivered
                /\ main /\ end = "command" /\ landed
        tokenDue == main /\ crossed /\ ~told
        operatorDue == main /\ o.latched # 0 /\ ~o.delivered
        armed == IF seen /\ ~noteSeen THEN {} ELSE again
        resent == {x \in armed : /\ main /\ ~noteSeen /\ ~seen
                                 /\ x = "token" => crossed
                                 /\ x = "operator" => ~o.begun}
    IN  /\ pc # "done"
        /\ <<th, end>> \in inflight
        /\ landed => end = "command"
        /\ inflight' = inflight \ {<<th, end>>}
        /\ skill' = (skill \/ Counts(th, end))
        /\ op' = [o EXCEPT !.delivered = @ \/ operatorDue] /\ Reported
        /\ noteSeen' = (noteSeen \/ seen)
        /\ told' = (told \/ tokenDue)
        /\ again' = armed \ resent
        /\ informed' = (informed \/ tokenDue \/ operatorDue \/ resent # {})
        /\ UNCHANGED <<driver, model, task, crossed, ceiling, compacted,
                       operator, prompts>>

-----------------------------------------------------------------------------
(* The surroundings *)

\* The CLI compacts the main context; the message about it comes later.
Compaction ==
    /\ pc # "done" /\ scene.compaction /\ model = "working"
    /\ compacted' = TRUE /\ informed' = FALSE
    /\ UNCHANGED <<driver, model, inflight, task, gates, op, operator,
                   reports, prompts>>

\* The store keeps a handoff that has begun; before that a newer request takes
\* its place and a resume or a stop withdraws it.
Replaceable == <<"begun", offer>> \notin reports

OperatorAsks ==
    /\ pc # "done" /\ asked < scene.requests /\ Replaceable
    /\ asked' = asked + 1 /\ offer' = asked + 1
    /\ UNCHANGED <<driver, model, inflight, task, gates, informed, compacted,
                   op, scene, age, reports, prompts>>

OperatorWithdraws ==
    /\ pc # "done" /\ offer # 0 /\ Replaceable
    /\ offer' = 0
    /\ UNCHANGED <<driver, model, inflight, task, gates, informed, compacted,
                   op, scene, asked, age, reports, prompts>>

ClockTick ==
    /\ pc # "done"
    /\ \/ \E r \in 1..asked :
            /\ age[r] < 2 /\ \A q \in 1..(r - 1) : age[q] > age[r]
            /\ age' = [age EXCEPT ![r] = @ + 1]
            /\ UNCHANGED frames
       \/ /\ InLoop /\ Top.grace = "on"
          /\ frames' = WithTop([Top EXCEPT !.grace = "over"])
          /\ UNCHANGED age
    /\ UNCHANGED <<pc, terminal, followup, status, model, inflight, task,
                   gates, informed, compacted, op, scene, offer, asked, reports, prompts>>

-----------------------------------------------------------------------------
DriverStep ==
    \/ Expire \/ ExpireReturn \/ Fallback \/ FallbackQuery \/ StopTasks
    \/ Wait \/ Boundary \/ AfterTimeout \/ AfterLoop \/ AfterFollowup
    \/ \E drained \in {None, "ok", "failed"} : CeilingReturn(drained)

MessageStep ==
    \/ \E reading \in scene.readings : AssistantMessage(reading)
    \/ \E t \in Tasks : TaskStarted(t) \/ TaskFinished(t)
    \/ CompactBoundary \/ StreamEnds
    \/ \E result \in scene.results : ResultMessage(result)

HookStep ==
    \/ \E th \in Threads, tool \in Tools : PreToolUse(th, tool)
    \/ \E th \in Threads, end \in Ends, landed \in BOOLEAN : PostToolUse(th, end, landed)

Done == pc = "done" /\ UNCHANGED sessionVars

SessionNext ==
    \/ DriverStep \/ MessageStep \/ HookStep
    \/ ModelTimeout \/ FollowupTimeout \/ ClientFails
    \/ Compaction \/ OperatorAsks \/ OperatorWithdraws \/ ClockTick
    \/ Done

\* The loop's steps are taken when they are due and the clock runs; nothing is
\* assumed of the model, the operator or MODEL_TIMEOUT.
SessionSpec ==
    /\ SessionInit /\ [][SessionNext]_sessionVars
    /\ WF_sessionVars(DriverStep) /\ WF_sessionVars(ClockTick)

-----------------------------------------------------------------------------
(* Properties *)

FrameType ==
    [kind : {"main", "followup", "fallback"}, open : BOOLEAN, waiting : BOOLEAN,
     pending : SUBSET Tasks, finished : SUBSET Tasks, deferred : Results \cup {None},
     turn : BOOLEAN, woken : BOOLEAN, grace : {"off", "on", "over"}]

\* The executor's fields have the shapes the code gives them; at most the
\* fallback's loop runs inside another one.
SessionTypeOK ==
    /\ pc \in {"check", "wait", "expire", "query", "ceiling", "timeout",
               "returned", "done"}
    /\ Len(frames) <= 2
    /\ \A i \in DOMAIN frames :
          frames[i] \in FrameType /\ (frames[i].kind = "fallback" <=> i = 2)
    /\ status \in Statuses \cup {None}
    /\ op \in [latched : 0..MaxRequests, delivered : BOOLEAN, begun : BOOLEAN,
               fallback : BOOLEAN, expired : BOOLEAN]
    /\ task \in [Tasks -> {"new", "alive", "ended"}]
    /\ again \subseteq {"token", "operator"}
    /\ prompts \in [followup : Nat, fallback : Nat, wakeup : Nat]

\* A model under a closed gate knows why: while its loop reads the stream and
\* the note is not committed, the instruction is in its context, or it will be
\* sent again at the next tool call of the main thread, or the message about
\* the compaction that erased it is still to be read.  Left out is a session
\* whose fallback could not be sent: the gate is closed and the store told by
\* then, and only the deadline ends it
\* (_arm_handoff_reinject_after_compaction, _record_post_tool_use).
InstructionSurvives ==
    (/\ pc \in {"check", "wait"} /\ Top.open /\ model = "working" /\ ~noteSeen
     /\ op.fallback => prompts.fallback > 0
     /\ (crossed /\ told) \/ (op.delivered /\ ~op.begun))
    => informed \/ again # {} \/ compacted

\* One execution serves one request: everything it reports to the store names
\* the same request, however often the operator replaces it meanwhile
\* (_poll_operator_handoff pins a delivered or begun request).
OneRequestServed == \A x, y \in reports : x[2] = y[2]

\* SUCCEEDED means that nothing stopped the work: no limit was latched, the
\* deadline of a handoff did not pass, and no background worker that the
\* session saw start still runs, unless the operator's fallback interrupted it
\* (_classify, _receive_terminal's deferred results).
CleanSuccess ==
    status = "SUCCEEDED" =>
        /\ ~crossed /\ ~ceiling /\ ~op.expired
        /\ Alive = {} \/ op.fallback

\* However often loops end, fail or time out, one execution sends at most one
\* follow-up, one fallback, and one wake-up per loop that reads the stream (the
\* outermost one, the fallback's and the follow-up's).  Past the hard ceiling it
\* sends none, but for a wake-up after the fallback: a client that fails inside
\* the fallback hands its closed stream to the loop below, which may send its
\* own (_attempt_handoff_followup, _run_operator_fallback,
\* _maybe_background_followup, _hard_ceiling_evidence).
PromptsBounded ==
    [][ /\ prompts'.followup <= 1 /\ prompts'.fallback <= 1
        /\ prompts'.wakeup <= 1 + prompts'.followup + prompts'.fallback
        /\ ceiling => /\ prompts'.followup = prompts.followup
                      /\ prompts'.fallback = prompts.fallback
                      /\ prompts'.wakeup = prompts.wakeup \/ op.fallback ]_sessionVars

\* A request the operator makes is answered while it stands: the loop finds it
\* even on an idle stream, and the session ends at the model deadline at the
\* latest (_operator_stream_wait, _operator_due_action).
RequestAnswered ==
    \A r \in 1..MaxRequests : (offer = r) ~> (pc = "done" \/ offer # r)

=============================================================================
