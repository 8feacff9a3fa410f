---------------------------- MODULE TokenLedger ----------------------------
(***************************************************************************)
(* The token ledger of one attempt (token_ledger.TokenLedger) and how the  *)
(* model session feeds it (ModelExecutor._observe_*, _check_limits).       *)
(*                                                                         *)
(* A response is counted as an estimate on its first AssistantMessage;     *)
(* usage reported by later messages or by message_delta events, which may  *)
(* come before that message, replaces it.  After every change the budget   *)
(* is compared with the soft threshold and the hard ceiling.               *)
(*                                                                         *)
(* A thread's responses are numbered in the order of its stream, and a     *)
(* number stands for the response id.  Characters per token, the thinking  *)
(* allowance and the framing are the two constants Output and Growth; the  *)
(* four usage categories are two, since they are merged and added alike.   *)
(* The peak context, the cache statistics and the live view only report.   *)
(***************************************************************************)
EXTENDS Integers, Sequences, FiniteSetsExt

CONSTANTS
    Subagents,      \* threads besides the main one
    MaxTokens,      \* max_budget_tokens
    ShareThreshold, \* max_budget_tokens * (1 - soft_threshold_percentage)
    ReserveTurns,   \* handoff_reserve_turns
    MainBase,       \* context of the main thread at its start
    SubagentBase,   \* context of a subagent at its start
    Output,         \* output estimate of a response
    Growth,         \* what a tool result or user message adds to a context
    Usages,         \* usage reports
    MaxResponses,   \* bound: responses of a thread
    MaxInputs       \* bound: tool results and user messages

Main == "main"
Threads == Subagents \cup {Main}
Categories == {"input", "output"}
Usage == [Categories -> Nat]

ASSUME LedgerAssumption ==
    /\ Main \notin Subagents /\ IsFiniteSet(Subagents)
    /\ {MaxTokens, ShareThreshold, ReserveTurns, MainBase, SubagentBase,
        Growth, MaxResponses, MaxInputs} \subseteq Nat
    /\ Output \in Nat \ {0}     \* the thinking allowance
    /\ Usages \subseteq Usage

VARIABLES
    started,        \* threads of the ledger
    context,        \* a thread's context in tokens
    responses,      \* a thread's counted responses
    streamId,       \* _stream_response_ids: response of the last message_start
    pendingUsage,   \* _pending_usage: usage of a response not yet counted
    crossed,        \* _soft_threshold_crossed
    ceiling,        \* _token_hard_ceiling_reached
    logged,         \* _limits_logged: responses with a limits_checked entry
    phase,          \* "open", "closed" (no more messages), "reconciled"
    mode,           \* of the reconciliation
    inputs,         \* bound
    reports         \* ghost: the usage reported for each response

ledgerVars == <<started, context, responses, streamId, pendingUsage, crossed,
                ceiling, logged, phase, mode, inputs, reports>>

-----------------------------------------------------------------------------
(* Usage.  A report of zeros is no report, so zeros stand for none. *)

NoUsage == [c \in Categories |-> 0]

Merge(u, v) == [c \in Categories |-> Max({u[c], v[c]})]

Total(u) == u["input"] + u["output"]

Response(estimate) ==
    [estimate |-> estimate, usage |-> NoUsage, settled |-> FALSE, interrupted |-> FALSE]

\* _Response.counted
Counted(r) == IF r.usage = NoUsage THEN r.estimate ELSE Total(r.usage)

\* _ensure_ledger_thread: every message starts the thread it is on.
ContextOf(th) == IF th \in started THEN context[th] ELSE SubagentBase
Start(th) == started' = started \cup {th}

All(rs) == UNION { {<<th, i>> : i \in DOMAIN rs[th]} : th \in Threads }

SumOf(rs, S) == SumFunctionOnSet([p \in All(rs) |-> Counted(rs[p[1]][p[2]])], S)

Unreported(rs) == {p \in All(rs) : rs[p[1]][p[2]].usage = NoUsage}
Interrupted(rs) == {p \in Unreported(rs) : rs[p[1]][p[2]].interrupted}

\* budget_tokens: measured and estimated.
Budget(rs) == SumOf(rs, All(rs))

Last(rs, th) == rs[th][Len(rs[th])]

InFlight(rs, th) == Len(rs[th]) > 0 /\ ~Last(rs, th).settled

\* _settle: the next event on the thread, or one of the explicit calls
Settle(rs, th) ==
    IF InFlight(rs, th) THEN [rs EXCEPT ![th][Len(rs[th])].settled = TRUE] ELSE rs

\* settle_thread leaves an interrupted response alone.
SettleThread(rs, th) ==
    IF InFlight(rs, th) /\ ~Last(rs, th).interrupted THEN Settle(rs, th) ELSE rs

\* All threads at once: settling changes no token count.
SettleEach(rs, op(_, _)) == [th \in Threads |-> op(rs, th)[th]]

SettledIn(rs, th) == {<<th, i>> : i \in {j \in DOMAIN rs[th] : rs[th][j].settled}}

\* Mutant: the previous response is not settled by the next one.
ObserveResponseUnsettled(rs, th) == [rs EXCEPT ![th] = Append(@, Response(ContextOf(th) + Output))]

\* observe_response of a new response
ObserveResponse(rs, th) ==
    [Settle(rs, th) EXCEPT ![th] = Append(@, Response(ContextOf(th) + Output))]

\* Mutant: the newest report replaces the others.
ObserveUsageNewest(rs, th, i, u) ==
    IF u = NoUsage THEN rs ELSE [rs EXCEPT ![th][i].usage = u]

\* observe_usage
ObserveUsage(rs, th, i, u) ==
    IF u = NoUsage THEN rs ELSE [rs EXCEPT ![th][i].usage = Merge(@, u)]

-----------------------------------------------------------------------------
(* The limits *)

\* Mutant: the crossing turn itself is not reserved.
EffectiveThresholdShort(mainContext) ==
    Min({ShareThreshold, MaxTokens - ReserveTurns * mainContext})

\* effective_soft_threshold_tokens
EffectiveThreshold(mainContext) ==
    Min({ShareThreshold, MaxTokens - (ReserveTurns + 1) * mainContext})

\* _check_limits, on the new state
CheckLimits ==
    /\ crossed' = (crossed \/ Budget(responses') >= EffectiveThreshold(context'[Main]))
    /\ ceiling' = (ceiling \/ Budget(responses') >= MaxTokens)

\* _after_ledger_update of a thread
AfterUpdate(th) ==
    /\ CheckLimits
    /\ logged' = logged \cup SettledIn(responses', th)

-----------------------------------------------------------------------------
LedgerInit ==
    /\ started = {Main}
    /\ context = [th \in Threads |-> IF th = Main THEN MainBase ELSE 0]
    /\ responses = [th \in Threads |-> <<>>]
    /\ streamId = [th \in Threads |-> 0]
    /\ pendingUsage = [th \in Threads |-> NoUsage]
    /\ crossed = FALSE /\ ceiling = FALSE /\ logged = {}
    /\ phase = "open" /\ mode = "none" /\ inputs = 0
    /\ reports = [th \in Threads |-> [i \in 1..MaxResponses |-> NoUsage]]

\* The loop stops at the first message after which the ceiling is latched.
Open == phase = "open" /\ ~ceiling

Next1(th) == Len(responses[th]) + 1

\* A launch in PreToolUse: _start_launch_thread, after the limits' own check
LaunchSubagent(th) ==
    /\ Open /\ th \in Subagents \ started
    /\ Start(th) /\ context' = [context EXCEPT ![th] = ContextOf(th)]
    /\ UNCHANGED responses /\ CheckLimits
    /\ UNCHANGED <<streamId, pendingUsage, logged, phase, mode, inputs, reports>>

\* message_start of the next response
MessageStart(th) ==
    /\ Open
    /\ Start(th) /\ context' = [context EXCEPT ![th] = ContextOf(th)]
    /\ Next1(th) <= MaxResponses /\ streamId[th] < Next1(th)
    /\ streamId' = [streamId EXCEPT ![th] = Next1(th)]
    /\ UNCHANGED <<responses, pendingUsage, crossed, ceiling,
                   logged, phase, mode, inputs, reports>>

\* message_delta: merged into a counted response, stashed for another.
MessageDelta(th, u) ==
    /\ Open /\ streamId[th] # 0
    /\ reports' = [reports EXCEPT ![th][streamId[th]] = Merge(@, u)]
    /\ IF streamId[th] \in DOMAIN responses[th]
         THEN /\ responses' = ObserveUsage(responses, th, streamId[th], u)
              /\ context' = IF u = NoUsage THEN context
                            ELSE [context EXCEPT ![th] =
                                    Total(responses'[th][streamId[th]].usage)]
              /\ UNCHANGED pendingUsage
         ELSE /\ pendingUsage' = [pendingUsage EXCEPT ![th] = Merge(@, u)]
              /\ UNCHANGED <<responses, context>>
    /\ AfterUpdate(th)
    /\ UNCHANGED <<started, streamId, phase, mode, inputs>>

\* An AssistantMessage of the next response or, one per content block, of the
\* same one; u is NoUsage when it carries none.
AssistantMessage(th, i, u) ==
    LET new == i = Next1(th)
        rs == IF new THEN ObserveResponse(responses, th) ELSE responses
        stash == IF new THEN pendingUsage[th] ELSE NoUsage
    IN  /\ Open /\ Start(th)
        /\ i \in {Len(responses[th]), Next1(th)} /\ i \in 1..MaxResponses
        /\ responses' = ObserveUsage(ObserveUsage(rs, th, i, u), th, i, stash)
        /\ context' = [context EXCEPT ![th] =
                         CASE u # NoUsage \/ stash # NoUsage -> Total(responses'[th][i].usage)
                           [] OTHER -> ContextOf(th) + (IF new THEN Output ELSE 0)]
        /\ pendingUsage' = [pendingUsage EXCEPT ![th] = IF new THEN NoUsage ELSE @]
        /\ reports' = [reports EXCEPT ![th][i] = Merge(@, u)]
        /\ AfterUpdate(th)
        /\ UNCHANGED <<streamId, phase, mode, inputs>>

\* Mutant: a tool result only grows the context.
UserMessageUnchecked(th, done) ==
    LET rs == Settle(IF done = th THEN responses ELSE SettleThread(responses, done), th)
    IN  /\ Open /\ Start(th) /\ done \in started \cup {th} /\ inputs < MaxInputs
        /\ inputs' = inputs + 1
        /\ responses' = rs
        /\ context' = [context EXCEPT ![th] = ContextOf(th) + Growth]
        /\ logged' = logged \cup SettledIn(rs, th) \cup SettledIn(rs, done)
        /\ UNCHANGED <<streamId, pendingUsage, crossed, ceiling, phase,
                       mode, reports>>

\* Mutant: the subagent's last response gets no entry.
UserMessageSilent(th, done) ==
    LET rs == Settle(IF done = th THEN responses ELSE SettleThread(responses, done), th)
    IN  /\ Open /\ Start(th) /\ done \in started \cup {th} /\ inputs < MaxInputs
        /\ inputs' = inputs + 1
        /\ responses' = rs
        /\ context' = [context EXCEPT ![th] = ContextOf(th) + Growth]
        /\ AfterUpdate(th)
        /\ UNCHANGED <<streamId, pendingUsage, phase, mode, reports>>

\* A tool result or user message on th; the result of a Task names the
\* subagent's thread `done', whose last response is settled first.
UserMessage(th, done) ==
    LET rs == Settle(IF done = th THEN responses ELSE SettleThread(responses, done), th)
    IN  /\ Open /\ Start(th) /\ done \in started \cup {th} /\ inputs < MaxInputs
        /\ inputs' = inputs + 1
        /\ responses' = rs
        /\ context' = [context EXCEPT ![th] = ContextOf(th) + Growth]
        /\ CheckLimits
        /\ logged' = logged \cup SettledIn(rs, th) \cup (SettledIn(rs, done) \ SettledIn(responses, done))
        /\ UNCHANGED <<streamId, pendingUsage, phase, mode, reports>>

\* mark_interrupted
Cut(rs) ==
    [th \in Threads |-> [i \in DOMAIN rs[th] |->
        [rs[th][i] EXCEPT !.interrupted = @ \/ (rs[th][i].usage = NoUsage /\ ~rs[th][i].settled)]]]

\* settle_all_threads and their entries
SettleAll(rs) ==
    /\ responses' = SettleEach(rs, SettleThread)
    /\ logged' = logged \cup
         UNION {SettledIn(responses', th) \ SettledIn(rs, th) : th \in Threads}

\* MODEL_TIMEOUT and the operator's deadline; a follow-up may come after.
Interrupt ==
    /\ Open
    /\ responses' = Cut(responses)
    /\ UNCHANGED <<started, context, streamId, pendingUsage, crossed, ceiling,
                   logged, phase, mode, inputs, reports>>

\* A ResultMessage, terminal or deferred.
ResultMessage ==
    /\ Open
    /\ SettleAll(responses)
    /\ UNCHANGED <<started, context, streamId, pendingUsage, crossed, ceiling,
                   phase, mode, inputs, reports>>

\* The ceiling: interrupt, drain, settle what was not cut off.
CeilingStop ==
    /\ phase = "open" /\ ceiling
    /\ SettleAll(Cut(responses))
    /\ phase' = "closed"
    /\ UNCHANGED <<started, context, streamId, pendingUsage, crossed, ceiling,
                   mode, inputs, reports>>

\* Mutant: the estimates of interrupted responses count as unreported.
ModeOfAll(rs) ==
    LET measured == SumOf(rs, All(rs) \ Unreported(rs))
        interrupted == SumOf(rs, Interrupted(rs))
        unreported == SumOf(rs, Unreported(rs))
    IN  CASE unreported > 0 -> IF measured > 0 THEN "mixed" ELSE "estimated"
          [] OTHER -> IF measured > 0 \/ interrupted = 0 THEN "measured" ELSE "estimated"

ModeOf(rs) ==
    LET measured == SumOf(rs, All(rs) \ Unreported(rs))
        interrupted == SumOf(rs, Interrupted(rs))
        unreported == SumOf(rs, Unreported(rs)) - interrupted
    IN  CASE unreported > 0 -> IF measured > 0 THEN "mixed" ELSE "estimated"
          [] OTHER -> IF measured > 0 \/ interrupted = 0 THEN "measured" ELSE "estimated"

\* _reconcile_token_budget, at every way out of the execution: it settles the
\* rest without an entry.
Reconcile ==
    /\ phase \in {"open", "closed"} /\ ceiling => phase = "closed"
    /\ responses' = SettleEach(responses, Settle)
    /\ mode' = ModeOf(responses)
    /\ phase' = "reconciled"
    /\ UNCHANGED <<started, context, streamId, pendingUsage, crossed, ceiling,
                   logged, inputs, reports>>

Reconciled == phase = "reconciled" /\ UNCHANGED ledgerVars

LedgerNext ==
    \/ \E th \in Threads :
          \/ LaunchSubagent(th) \/ MessageStart(th)
          \/ \E u \in Usages : MessageDelta(th, u)
          \/ \E i \in 1..MaxResponses, u \in Usages \cup {NoUsage} : AssistantMessage(th, i, u)
          \/ \E done \in Subagents \cup {th} : UserMessage(th, done)
    \/ Interrupt \/ ResultMessage \/ CeilingStop \/ Reconcile \/ Reconciled

LedgerSpec == LedgerInit /\ [][LedgerNext]_ledgerVars

-----------------------------------------------------------------------------
(* Properties *)

\* The fields have their shapes, and only the last response of a thread is in
\* flight: every other one was settled by the event after it
\* (observe_response, observe_input).
LedgerTypeOK ==
    /\ started \subseteq Threads
    /\ context \in [Threads -> Nat]
    /\ \A th \in Threads :
          /\ Len(responses[th]) <= MaxResponses
          /\ \A i \in DOMAIN responses[th] :
                /\ responses[th][i].estimate \in Nat /\ responses[th][i].usage \in Usage
                /\ i < Len(responses[th]) => responses[th][i].settled
    /\ pendingUsage \in [Threads -> Usage]

\* What is counted for a response is the greatest report of each category,
\* whichever messages brought them and in whatever order, before or after the
\* response was counted; a report for a response not yet counted waits for it
\* (_observe_assistant_message, _observe_stream_event, observe_usage).
ReportsMergedOnce ==
    \A th \in Threads :
        /\ \A i \in DOMAIN responses[th] : responses[th][i].usage = reports[th][i]
        /\ Next1(th) <= MaxResponses => pendingUsage[th] = reports[th][Next1(th)]

\* No response is counted beyond a limit that nobody noticed: whatever raised
\* the budget, or lowered the threshold by growing the main context, was
\* followed by a check (_after_ledger_update, _check_limits).
LimitsWatch ==
    Budget(responses) > 0 =>
        /\ Budget(responses) >= EffectiveThreshold(context[Main]) => crossed
        /\ Budget(responses) >= MaxTokens => ceiling

\* "a handoff reserve of handoff_reserve_turns turns after the crossing turn":
\* when the estimate of a main-thread response makes the crossing, the budget
\* still has room for that many turns at the context that response had read,
\* less its own output (effective_soft_threshold_tokens, _check_limits).
ReserveKept ==
    [][ (/\ ~crossed /\ crossed' /\ Budget(responses) > 0
         /\ Len(responses'[Main]) > Len(responses[Main])
         /\ Last(responses', Main).usage = NoUsage)
        => MaxTokens - Budget(responses') > ReserveTurns * context[Main] - Output ]_ledgerVars

\* Until the reconciliation there is one limits_checked entry for each settled
\* response, of every thread, and none for another
\* (_log_newly_settled, _settle_thread_and_log, _settle_all_threads_and_log).
EntriesMatchSettled ==
    phase # "reconciled" => logged = UNION {SettledIn(responses, th) : th \in Threads}

\* The mode, computed from differences of sums, keeps its promise: "measured" says that every
\* response that completed reported its usage, "estimated" that none did
\* (Reconciliation.mode, reconcile).
ModeTruthful ==
    phase = "reconciled" =>
        LET complete == All(responses) \ Interrupted(responses)
            reported == All(responses) \ Unreported(responses)
        IN  /\ mode = "measured" => complete \subseteq reported
            /\ mode = "estimated" => reported = {}
            /\ mode = "mixed" => reported # {} /\ ~(complete \subseteq reported)

=============================================================================
