---------------------------- MODULE SessionProofs ----------------------------
(***************************************************************************)
(* Theorems about SessionSpec (module ModelSession), for every set of      *)
(* background tasks, every number of operator requests and every set of    *)
(* scenes.                                                                 *)
(***************************************************************************)
EXTENDS ModelSession, SequenceTheorems, FiniteSetTheorems, TLAPS

Why == {None, "limit", "cost", "timeout"}
OpType == [latched : 0..MaxRequests, delivered : BOOLEAN, begun : BOOLEAN,
           fallback : BOOLEAN, expired : BOOLEAN]
PromptType == [followup : Nat, fallback : Nat, wakeup : Nat]

\* The types of the variables, and the running loops as a sequence of frames.
SessionShapes ==
    /\ scene \in SceneType
    /\ pc \in {"check", "wait", "expire", "query", "ceiling", "timeout",
               "returned", "done"}
    /\ frames \in Seq(FrameType)
    /\ terminal \in Results \cup {None}
    /\ followup \in [why : Why, result : Results \cup {None}]
    /\ status \in Statuses \cup {None}
    /\ task \in [Tasks -> {"new", "alive", "ended"}]
    /\ crossed \in BOOLEAN /\ ceiling \in BOOLEAN /\ skill \in BOOLEAN
    /\ noteSeen \in BOOLEAN /\ told \in BOOLEAN
    /\ again \subseteq {"token", "operator"}
    /\ op \in OpType
    /\ offer \in 0..MaxRequests /\ asked \in 0..MaxRequests
    /\ age \in [1..MaxRequests -> 0..2]
    /\ prompts \in PromptType

\* How deep the loops are nested: at most the operator's fallback runs inside
\* the outermost loop, and outside the loops there is none or a fresh one.
Stack ==
    /\ InLoop => Len(frames) \in {1, 2}
    /\ pc = "returned" => Len(frames) = 1
    /\ pc \in {"timeout", "done"} => Len(frames) = 0
    /\ pc = "query" => Len(frames) = 1 /\ op.fallback /\ op.delivered
    /\ Len(frames) >= 1 => frames[1].kind # "fallback"
    /\ Len(frames) = 2 => frames[2].kind = "fallback" /\ op.fallback /\ op.delivered

\* The request a session reports about is the latched one, and it is pinned.
Pinned ==
    /\ op.delivered \/ op.begun => op.latched # 0
    /\ reports # {} => op.delivered \/ op.begun
    /\ \A x \in reports : x[2] = op.latched

\* The fallback and the follow-up are sent at most once, the follow-up not
\* before the outermost loop is over, and neither after the hard ceiling.
Prompted ==
    /\ prompts.followup <= 1 /\ prompts.fallback <= 1
    /\ prompts.fallback > 0 => op.fallback
    /\ pc = "query" => ~ceiling /\ prompts.fallback = 0
    /\ pc = "timeout" \/ (Len(frames) >= 1 /\ Base = "main") => prompts.followup = 0
    /\ ceiling => pc \in {"ceiling", "timeout", "returned", "done"} \/ op.fallback
    /\ pc = "ceiling" => ceiling

\* Every prompt starts a loop of its own but the first one, and a running loop
\* that has not sent its wake-up may still do so.
WakesLeft(i) == IF InLoop /\ i <= Len(frames) /\ ~frames[i].woken THEN 1 ELSE 0
WakeUps ==
    prompts.wakeup + WakesLeft(1) + WakesLeft(2) <= 1 + prompts.followup + prompts.fallback

\* Only the tasks of the outermost loop run, unless the fallback took over.
Awaited ==
    /\ ~op.fallback /\ InLoop /\ Base = "main" => Alive \subseteq frames[1].pending
    /\ ~op.fallback /\ ~ceiling /\ pc = "returned" /\ Base = "main" /\ terminal = "ok"
          => Alive = {}

\* Why the outermost loop ended, and what the follow-up is for.
Reasons ==
    /\ op.expired => pc = "done" \/ (pc = "returned" /\ (Base = "main" => terminal = None))
    /\ followup.why = "limit" => terminal = "limit"
    /\ followup.why = "cost" => terminal = "ok" /\ crossed
    /\ Len(frames) >= 1 => (Base = "main" <=> followup.why = None)
    /\ pc = "timeout" => followup.why = None
    /\ status # None => pc = "done"

\* The instruction behind a closed gate (see InstructionSurvives), or the
\* deadline of the request has passed and the loop is about to end.
Knows == informed \/ again # {} \/ compacted
DeadlinePassed ==
    op.latched # 0 /\ age[op.latched] = 2 /\ op.delivered /\ model = "idle"
Gated ==
    /\ pc \in {"check", "wait", "ceiling"} /\ ~noteSeen
    /\ op.fallback => prompts.fallback > 0
    /\ (crossed /\ told) \/ (op.delivered /\ ~op.begun)
Instructed ==
    /\ told => crossed
    /\ pc = "expire" /\ Len(frames) = 2 => DeadlinePassed
    /\ Gated => Knows \/ (pc = "check" /\ DeadlinePassed)

SessionInv ==
    /\ SessionShapes /\ Stack /\ Pinned /\ Prompted /\ WakeUps /\ Awaited
    /\ Reasons /\ Instructed

-----------------------------------------------------------------------------
(* The stack of frames *)

\* A stack the loops can be in.
SoundStack(fs) ==
    /\ fs \in Seq(FrameType) /\ Len(fs) <= 2
    /\ Len(fs) >= 1 => fs[1].kind # "fallback"
    /\ Len(fs) = 2 => fs[2].kind = "fallback"

\* gs is fs with another innermost frame of the same kind.
TopReplaced(fs, gs, f) ==
    /\ SoundStack(gs) /\ Len(gs) = Len(fs) /\ gs[Len(fs)] = f
    /\ gs[1].kind = fs[1].kind
    /\ Len(fs) = 2 => gs[1] = fs[1]

\* A new frame of a loop waits for nothing.
LEMMA FrameFresh ==
  ASSUME NEW k \in {"main", "followup", "fallback"}
  PROVE  Frame(k) \in FrameType /\ Frame(k).kind = k /\ Frame(k).pending = {}
BY DEF Frame, FrameType, Results, None

\* Another innermost frame of the same kind leaves the stack sound.
LEMMA ReplaceTop ==
  ASSUME NEW fs, SoundStack(fs), Len(fs) \in {1, 2},
         NEW f \in FrameType, f.kind = fs[Len(fs)].kind,
         NEW gs, gs = [fs EXCEPT ![Len(fs)] = f]
  PROVE  TopReplaced(fs, gs, f)
<1>1. /\ gs \in Seq(FrameType) /\ Len(gs) = Len(fs) /\ gs[Len(fs)] = f
      /\ Len(fs) = 2 => gs[1] = fs[1]
  BY DEF SoundStack
<1> QED  BY <1>1 DEF SoundStack, TopReplaced

\* The outermost loop or the follow-up starts alone.
LEMMA FreshStack ==
  ASSUME NEW k \in {"main", "followup"}, NEW gs, gs = <<Frame(k)>>
  PROVE  SoundStack(gs) /\ Len(gs) = 1 /\ gs[1] = Frame(k) /\ gs[1].kind = k
BY FrameFresh DEF SoundStack

\* The empty stack is sound.
LEMMA NoStack ==
  ASSUME NEW gs, gs = <<>>
  PROVE  SoundStack(gs) /\ Len(gs) = 0
<1>1. gs \in Seq(FrameType) /\ Len(gs) = 0
  BY EmptySeq
<1> QED  BY <1>1 DEF SoundStack

\* The fallback runs inside the loop that started it.
LEMMA PushFallback ==
  ASSUME NEW fs, SoundStack(fs), Len(fs) = 1, NEW f \in FrameType, f.kind = "fallback",
         NEW gs, gs = Append(fs, f)
  PROVE  SoundStack(gs) /\ Len(gs) = 2 /\ gs[1] = fs[1]
<1>1. fs \in Seq(FrameType)
  BY DEF SoundStack
<1>2. gs \in Seq(FrameType)
  BY <1>1, AppendProperties
<1>3. Len(gs) = Len(fs) + 1
  BY <1>1, AppendProperties
<1>4. \A i \in 1..Len(fs) : gs[i] = fs[i]
  BY <1>1, AppendProperties
<1>5. gs[Len(fs) + 1] = f
  BY <1>1, AppendProperties
<1>6. gs[1] = fs[1] /\ gs[2] = f /\ Len(gs) = 2
  BY <1>3, <1>4, <1>5
<1> QED  BY <1>2, <1>6 DEF SoundStack

\* A fallback that returns leaves the outermost loop as it was.
LEMMA PopFallback ==
  ASSUME NEW fs, SoundStack(fs), Len(fs) = 2,
         NEW gs, gs = SubSeq(fs, 1, Len(fs) - 1)
  PROVE  SoundStack(gs) /\ Len(gs) = 1 /\ gs[1] = fs[1]
<1>1. gs \in Seq(FrameType) /\ Len(gs) = 1 /\ gs[1] = fs[1]
  BY SubSeqProperties DEF SoundStack
<1> QED  BY <1>1 DEF SoundStack

\* A loop that is not inside another one is the outermost.
LEMMA OneFrame ==
  ASSUME NEW fs, SoundStack(fs), Len(fs) >= 1, Len(fs) # 2
  PROVE  Len(fs) = 1
<1>1. fs \in Seq(FrameType) /\ Len(fs) <= 2
  BY DEF SoundStack
<1> DEFINE n == Len(fs)
<1>2. n \in Nat /\ n >= 1 /\ n <= 2 /\ n # 2
  BY <1>1, LenProperties
<1> HIDE DEF n
<1>3. n = 1
  BY <1>2
<1> QED  BY <1>3 DEF n

\* The stack of a session is one the loops can be in.
LEMMA StackSound ==
  ASSUME SessionShapes, Stack
  PROVE  SoundStack(frames)
<1>1. Len(frames) \in {0, 1, 2}
  <2>1. pc \in {"check", "wait", "expire", "query", "ceiling", "timeout",
               "returned", "done"}
    BY DEF SessionShapes
  <2> QED  BY <2>1 DEF Stack, InLoop
<1>2. frames \in Seq(FrameType)
  BY DEF SessionShapes
<1>3. Len(frames) <= 2
  BY <1>1, <1>2
<1>4. /\ Len(frames) >= 1 => frames[1].kind # "fallback"
      /\ Len(frames) = 2 => frames[2].kind = "fallback"
  BY DEF Stack
<1> QED  BY <1>2, <1>3, <1>4 DEF SoundStack

-----------------------------------------------------------------------------
(* What a step does to the stack *)

\* Within a loop there is an innermost frame, and a base.
LEMMA InsideLoop ==
  ASSUME SessionShapes, Stack, InLoop
  PROVE  /\ Len(frames) \in {1, 2} /\ Top \in FrameType /\ SoundStack(frames)
         /\ Base \in {"main", "followup"}
<1>1. SoundStack(frames) /\ Len(frames) \in {1, 2}
  BY StackSound DEF Stack
<1>2. frames[Len(frames)] \in FrameType /\ frames[1] \in FrameType
  BY <1>1 DEF SoundStack
<1>3. frames[1].kind \in {"main", "followup", "fallback"}
  BY <1>2 DEF FrameType
<1> QED  BY <1>1, <1>2, <1>3 DEF Top, Base, SoundStack

\* A cancelled frame is a frame of the same kind.
LEMMA CancelledFrame ==
  ASSUME NEW f \in FrameType
  PROVE  /\ Cancelled(f) \in FrameType /\ Cancelled(f).kind = f.kind
         /\ Cancelled(f).pending = f.pending /\ Cancelled(f).woken = f.woken
         /\ Cancelled(f).deferred = f.deferred
BY DEF Cancelled, FrameType

\* A frame that got its message is a frame of the same kind.
LEMMA GotFrame ==
  ASSUME NEW f \in FrameType
  PROVE  /\ Got(f) \in FrameType /\ Got(f).kind = f.kind
         /\ Got(f).pending = f.pending /\ Got(f).woken = f.woken
         /\ Got(f).deferred = f.deferred
BY DEF Got, FrameType

\* The ways a step moves the stack, and what it sends: not at all, another
\* innermost frame (which may be a wake-up), a loop that returns, the end, the
\* fallback's loop and its failure, the follow-up.
StackSame == frames' = frames /\ (pc' = pc \/ (InLoop /\ pc' = "check")) /\ prompts' = prompts
TopQuiet(f) == f.woken = Top.woken /\ prompts' = prompts
TopWakes(f) ==
    /\ pc \in {"check", "wait"} /\ ~Top.woken /\ f.woken
    /\ prompts' = [prompts EXCEPT !.wakeup = @ + 1]
StackTop(f) ==
    /\ InLoop /\ InLoop' /\ TopReplaced(frames, frames', f) /\ f \in FrameType
    /\ pc' = "query" => Len(frames) = 1
    /\ TopQuiet(f) \/ TopWakes(f)
StackReturn == InLoop /\ pc' = "returned" /\ frames' = <<Frame(Base)>> /\ prompts' = prompts
StackEnd == pc' \in {"timeout", "done"} /\ frames' = <<>> /\ prompts' = prompts
StackPush ==
    /\ pc = "query" /\ pc' = "check"
    /\ prompts' = [prompts EXCEPT !.fallback = @ + 1]
    /\ frames' = Append(frames, Frame("fallback"))
StackAsk ==
    /\ pc \in {"returned", "timeout"} /\ pc' = "check"
    /\ prompts' = [prompts EXCEPT !.followup = @ + 1]
    /\ frames' = <<Frame("followup")>>
StackPop ==
    /\ InLoop /\ Len(frames) = 2 /\ pc' = "check" /\ prompts' = prompts
    /\ frames' = SubSeq(frames, 1, Len(frames) - 1)
StackMove ==
    \/ StackSame \/ (\E f \in FrameType : StackTop(f)) \/ StackReturn \/ StackEnd
    \/ StackPush \/ StackAsk \/ StackPop

\* A step of the innermost loop replaces its frame only.
LEMMA TopStep ==
  ASSUME SessionShapes, Stack, InLoop, InLoop', pc' = "query" => Len(frames) = 1,
         NEW f, f \in FrameType, f.kind = Top.kind, frames' = WithTop(f),
         TopQuiet(f) \/ TopWakes(f)
  PROVE  StackTop(f)
<1>1. TopReplaced(frames, frames', f)
  <2>1. SoundStack(frames) /\ Len(frames) \in {1, 2}
    BY InsideLoop
  <2>2. f.kind = frames[Len(frames)].kind /\ frames' = [frames EXCEPT ![Len(frames)] = f]
    BY DEF Top, WithTop
  <2> QED  BY <2>1, <2>2, ReplaceTop
<1> QED  BY <1>1 DEF StackTop

\* A poll changes at most the latched request, and that only while it is
\* neither delivered nor begun.
PollKept(o) ==
    /\ o \in OpType
    /\ o.delivered = op.delivered /\ o.begun = op.begun
    /\ o.fallback = op.fallback /\ o.expired = op.expired
    /\ op.latched # 0 => o.latched # 0
    /\ op.latched # 0 /\ (op.delivered \/ op.begun) => o = op

\* The operator poll changes the latched request only.
LEMMA PollKeeps ==
  ASSUME SessionShapes
  PROVE  PollKept(Polled(op))
<1>1. op \in OpType /\ offer \in 0..MaxRequests
  BY DEF SessionShapes
<1>2. CASE offer = 0 \/ (op.latched # 0 /\ (op.delivered \/ op.begun))
  BY <1>1, <1>2 DEF Polled, PollKept
<1>3. CASE ~(offer = 0 \/ (op.latched # 0 /\ (op.delivered \/ op.begun)))
  <2>1. Polled(op) = [op EXCEPT !.latched = offer] /\ offer # 0
    BY <1>3 DEF Polled
  <2> QED  BY <1>1, <1>3, <2>1 DEF PollKept, OpType
<1> QED  BY <1>2, <1>3

\* What the step before a wake-up or a return leaves of the innermost frame.
LEMMA ReturnMoves ==
  ASSUME SessionShapes, Stack, InLoop, NEW result, Return(result), prompts' = prompts
  PROVE  StackMove
BY DEF StackMove, StackReturn, Return

\* A wake-up moves the innermost loop, which has sent none before.
LEMMA WakeUpMoves ==
  ASSUME SessionShapes, Stack, InLoop, pc \in {"check", "wait"},
         NEW f \in FrameType, f.kind = Top.kind, f.woken = Top.woken,
         WakeUpDue(f), WakeUp(f)
  PROVE  StackMove
<1> DEFINE g == [f EXCEPT !.woken = TRUE, !.open = TRUE]
<1>1. g \in FrameType /\ g.kind = Top.kind /\ g.woken
  BY DEF FrameType
<1>2. frames' = WithTop(g) /\ pc' = "check" /\ InLoop'
  BY DEF WakeUp, InLoop
<1>3. ~Top.woken /\ prompts' = [prompts EXCEPT !.wakeup = @ + 1]
  BY DEF WakeUp, WakeUpDue
<1> HIDE DEF g
<1>4. TopWakes(g)
  BY <1>1, <1>3 DEF TopWakes
<1>5. StackTop(g)
  BY <1>1, <1>2, <1>4, TopStep
<1> QED  BY <1>1, <1>5 DEF StackMove

\* A step within the innermost loop that sends nothing is one of the moves.
LEMMA TopMoves ==
  ASSUME SessionShapes, Stack, InLoop, InLoop', pc' = "query" => Len(frames) = 1,
         NEW f, f \in FrameType, f.kind = Top.kind, frames' = WithTop(f),
         f.woken = Top.woken, prompts' = prompts
  PROVE  StackMove
BY TopStep DEF StackMove, TopQuiet

\* Every step of the driver makes one of the moves.
LEMMA DriverMoves ==
  ASSUME SessionShapes, Stack, DriverStep
  PROVE  StackMove
<1> USE DEF InLoop
<1>1. CASE Expire
  <2>1. /\ pc = "check" /\ frames' = WithTop(Cancelled(Top)) /\ pc' = "expire"
        /\ prompts' = prompts
    BY <1>1 DEF Expire
  <2> QED  BY <2>1, InsideLoop, CancelledFrame, TopMoves
<1>2. CASE ExpireReturn
  BY <1>2, ReturnMoves DEF ExpireReturn
<1>3. CASE Fallback
  <2>1. /\ pc = "check" /\ frames' = WithTop(Cancelled(Top)) /\ pc' \in {"check", "query"}
        /\ prompts' = prompts
    BY <1>3 DEF Fallback
  <2>2. Len(frames) = 1
    <3>1. ~Polled(op).fallback
      BY <1>3 DEF Fallback, Due, None
    <3>2. ~op.fallback
      BY <3>1, PollKeeps DEF PollKept
    <3> QED  BY <2>1, <3>2, InsideLoop DEF Stack
  <2> QED  BY <2>1, <2>2, InsideLoop, CancelledFrame, TopMoves
<1>4. CASE FallbackQuery
  BY <1>4 DEF FallbackQuery, StackMove, StackPush
<1>5. CASE StopTasks
  <2> DEFINE f == [Cancelled(Top) EXCEPT !.pending = {}]
  <2>1. f \in FrameType /\ f.kind = Top.kind /\ f.woken = Top.woken /\ pc = "check"
    BY <1>5, InsideLoop, CancelledFrame DEF StopTasks, FrameType
  <2>2. (WakeUpDue(f) /\ WakeUp(f)) \/ (Return(f.deferred) /\ prompts' = prompts)
    BY <1>5 DEF StopTasks
  <2> HIDE DEF f
  <2> QED  BY <2>1, <2>2, WakeUpMoves, ReturnMoves
<1>6. CASE Wait
  <2>1. /\ pc = "check" /\ frames' = WithTop([Top EXCEPT !.waiting = TRUE]) /\ pc' = "wait"
        /\ prompts' = prompts
    BY <1>6 DEF Wait
  <2>2. /\ [Top EXCEPT !.waiting = TRUE] \in FrameType
        /\ [Top EXCEPT !.waiting = TRUE].kind = Top.kind
        /\ [Top EXCEPT !.waiting = TRUE].woken = Top.woken
    BY <2>1, InsideLoop DEF FrameType
  <2> QED  BY <2>1, <2>2, TopMoves
<1>7. CASE Boundary
  BY <1>7 DEF Boundary, StackMove, StackSame
<1>8. CASE AfterTimeout
  BY <1>8 DEF AfterTimeout, Ask, Finish, StackMove, StackAsk, StackEnd
<1>9. CASE AfterLoop
  BY <1>9 DEF AfterLoop, Ask, Finish, StackMove, StackAsk, StackEnd
<1>10. CASE AfterFollowup
  BY <1>10 DEF AfterFollowup, Finish, StackMove, StackEnd
<1>11. CASE \E drained \in {None, "ok", "failed"} : CeilingReturn(drained)
  BY <1>11, ReturnMoves DEF CeilingReturn
<1> QED  BY <1>1, <1>2, <1>3, <1>4, <1>5, <1>6, <1>7, <1>8, <1>9, <1>10, <1>11 DEF DriverStep

\* Every message makes one of the moves.
LEMMA MessageMoves ==
  ASSUME SessionShapes, Stack, MessageStep
  PROVE  StackMove
<1> USE DEF InLoop
<1>1. pc = "wait"
  BY DEF MessageStep, AssistantMessage, TaskStarted, TaskFinished, CompactBoundary,
         StreamEnds, ResultMessage, Reading
<1>2. /\ Top \in FrameType /\ Got(Top) \in FrameType /\ Got(Top).kind = Top.kind
      /\ Got(Top).pending = Top.pending /\ Got(Top).woken = Top.woken
  BY <1>1, InsideLoop, GotFrame
<1>3. ASSUME NEW reading, AssistantMessage(reading)  PROVE StackMove
  <2>1. /\ frames' = WithTop([Got(Top) EXCEPT !.turn = @ \/ Top.deferred # None])
        /\ pc' \in {"check", "ceiling"} /\ prompts' = prompts
    BY <1>3 DEF AssistantMessage, Onward
  <2>2. /\ [Got(Top) EXCEPT !.turn = @ \/ Top.deferred # None] \in FrameType
        /\ [Got(Top) EXCEPT !.turn = @ \/ Top.deferred # None].kind = Top.kind
        /\ [Got(Top) EXCEPT !.turn = @ \/ Top.deferred # None].woken = Top.woken
    BY <1>2 DEF FrameType
  <2> QED  BY <1>1, <2>1, <2>2, TopMoves
<1>4. ASSUME NEW t \in Tasks, TaskStarted(t)  PROVE StackMove
  <2>1. /\ frames' = WithTop([Got(Top) EXCEPT !.pending = @ \cup {t}])
        /\ pc' \in {"check", "ceiling"} /\ prompts' = prompts
    BY <1>4 DEF TaskStarted, Onward
  <2>2. /\ [Got(Top) EXCEPT !.pending = @ \cup {t}] \in FrameType
        /\ [Got(Top) EXCEPT !.pending = @ \cup {t}].kind = Top.kind
        /\ [Got(Top) EXCEPT !.pending = @ \cup {t}].woken = Top.woken
    BY <1>2 DEF FrameType
  <2> QED  BY <1>1, <2>1, <2>2, TopMoves
<1>5. ASSUME NEW t \in Tasks, TaskFinished(t)  PROVE StackMove
  <2>1. /\ frames' = WithTop([Got(Top) EXCEPT !.pending = @ \ {t}, !.finished = @ \cup {t}])
        /\ pc' \in {"check", "ceiling"} /\ prompts' = prompts
    BY <1>5 DEF TaskFinished, Onward
  <2>2. /\ [Got(Top) EXCEPT !.pending = @ \ {t}, !.finished = @ \cup {t}] \in FrameType
        /\ [Got(Top) EXCEPT !.pending = @ \ {t}, !.finished = @ \cup {t}].kind = Top.kind
        /\ [Got(Top) EXCEPT !.pending = @ \ {t}, !.finished = @ \cup {t}].woken = Top.woken
    BY <1>2 DEF FrameType
  <2> QED  BY <1>1, <2>1, <2>2, TopMoves
<1>6. CASE CompactBoundary
  <2>1. frames' = WithTop(Got(Top)) /\ pc' \in {"check", "ceiling"} /\ prompts' = prompts
    BY <1>6 DEF CompactBoundary, Onward
  <2> QED  BY <1>1, <1>2, <2>1, TopMoves
<1>7. CASE StreamEnds
  <2>1. \/ WakeUpDue(Got(Top)) /\ WakeUp(Got(Top))
        \/ Return(None) /\ prompts' = prompts
    BY <1>1, <1>2, <1>7 DEF StreamEnds, WakeUpDue, Got, FrameType
  <2> QED  BY <1>1, <1>2, <2>1, WakeUpMoves, ReturnMoves
<1>8. ASSUME NEW result \in scene.results, ResultMessage(result)  PROVE StackMove
  <2>0. prompts' = prompts
    BY <1>8 DEF ResultMessage
  <2>1. CASE Return(result)
    BY <1>1, <2>0, <2>1, ReturnMoves
  <2>2. CASE ~Return(result)
    <3> DEFINE f == [Got(Top) EXCEPT !.deferred = result, !.grace = IF @ = "off" THEN "on" ELSE @]
    <3>1. frames' = WithTop(f) /\ pc' = "check"
      BY <1>8, <2>2 DEF ResultMessage
    <3>2. result \in Results
      BY DEF SessionShapes, SceneType
    <3>3. f \in FrameType /\ f.kind = Top.kind /\ f.woken = Top.woken
      BY <1>2, <3>2 DEF FrameType
    <3> HIDE DEF f
    <3> QED  BY <1>1, <2>0, <3>1, <3>3, TopMoves
  <2> QED  BY <2>1, <2>2
<1> QED  BY <1>3, <1>4, <1>5, <1>6, <1>7, <1>8 DEF MessageStep

\* Every step of a session makes one of the moves.
LEMMA AnyMoves ==
  ASSUME SessionShapes, Stack, [SessionNext]_sessionVars
  PROVE  StackMove
<1>1. CASE DriverStep
  BY <1>1, DriverMoves
<1>2. CASE MessageStep
  BY <1>2, MessageMoves
<1>3. CASE HookStep \/ Compaction \/ OperatorAsks \/ OperatorWithdraws \/ UNCHANGED sessionVars
  <2>1. CASE \E th \in Threads, tool \in Tools : PreToolUse(th, tool)
    BY <2>1 DEF PreToolUse, driver, StackMove, StackSame
  <2>2. CASE \E th \in Threads, end \in Ends, landed \in BOOLEAN : PostToolUse(th, end, landed)
    BY <2>2 DEF PostToolUse, driver, StackMove, StackSame
  <2>3. CASE Compaction \/ OperatorAsks \/ OperatorWithdraws \/ UNCHANGED sessionVars
    BY <2>3 DEF Compaction, OperatorAsks, OperatorWithdraws, sessionVars, driver,
       StackMove, StackSame
  <2> QED  BY <1>3, <2>1, <2>2, <2>3 DEF HookStep
<1>4. CASE ModelTimeout \/ FollowupTimeout
  BY <1>4 DEF ModelTimeout, FollowupTimeout, Finish, StackMove, StackEnd
<1>5. CASE ClientFails
  <2>1. CASE Top.kind = "fallback"
    <3>1. Len(frames) = 2
      <4>1. Len(frames) \in {1, 2} /\ SoundStack(frames)
        BY <1>5, InsideLoop DEF ClientFails
      <4> QED  BY <2>1, <4>1 DEF Top, SoundStack
    <3> QED  BY <1>5, <2>1, <3>1 DEF ClientFails, StackMove, StackPop
  <2>2. CASE Top.kind # "fallback"
    BY <1>5, <2>2 DEF ClientFails, Finish, StackMove, StackSame, StackEnd
  <2> QED  BY <2>1, <2>2
<1>6. CASE ClockTick
  <2>1. CASE frames' = frames
    BY <1>6, <2>1 DEF ClockTick, StackMove, StackSame
  <2>2. CASE frames' # frames
    <3>1. /\ InLoop /\ frames' = WithTop([Top EXCEPT !.grace = "over"]) /\ pc' = pc
          /\ prompts' = prompts
      BY <1>6, <2>2 DEF ClockTick
    <3>2. /\ [Top EXCEPT !.grace = "over"] \in FrameType
          /\ [Top EXCEPT !.grace = "over"].kind = Top.kind
          /\ [Top EXCEPT !.grace = "over"].woken = Top.woken
      BY <3>1, InsideLoop DEF FrameType
    <3> QED  BY <3>1, <3>2, TopMoves DEF InLoop, Stack
  <2> QED  BY <2>1, <2>2
<1> QED  BY <1>1, <1>2, <1>3, <1>4, <1>5, <1>6 DEF SessionNext, Done

\* A step sends nothing or one prompt: a wake-up, the fallback or the follow-up.
LEMMA PromptMoves ==
  ASSUME SessionShapes, Stack, [SessionNext]_sessionVars
  PROVE  \/ prompts' = prompts
         \/ pc \in {"check", "wait"} /\ prompts' = [prompts EXCEPT !.wakeup = @ + 1]
         \/ prompts' = [prompts EXCEPT !.fallback = @ + 1]
         \/ prompts' = [prompts EXCEPT !.followup = @ + 1]
BY AnyMoves DEF StackMove, StackSame, StackTop, TopQuiet, TopWakes, StackReturn, StackEnd,
   StackPush, StackAsk, StackPop

-----------------------------------------------------------------------------
(* What a step does to the operator's handoff *)

OpMove ==
    /\ op' \in OpType
    /\ op.delivered => op'.delivered
    /\ op.begun => op'.begun
    /\ op.fallback => op'.fallback
    /\ op.expired => op'.expired
    /\ op.latched # 0 => op'.latched # 0
    /\ op.latched # 0 /\ (op.delivered \/ op.begun) => op'.latched = op.latched
    /\ op'.delivered /\ ~op.delivered => op'.latched # 0
    /\ op'.begun /\ ~op.begun => op'.latched # 0
    /\ reports' = reports \/ Reported

\* Where the flags of the handoff are set.
FlagsKept ==
    /\ op'.delivered = op.delivered /\ op'.begun = op.begun
    /\ op'.fallback = op.fallback /\ op'.expired = op.expired

\* A step that leaves the handoff alone keeps its flags.
LEMMA OpSame ==
  ASSUME SessionShapes, op' = op, reports' = reports
  PROVE  OpMove /\ FlagsKept
BY DEF SessionShapes, OpMove, OpType, FlagsKept

\* A poll keeps the flags of the handoff.
LEMMA OpPolled ==
  ASSUME SessionShapes, op' = Polled(op), reports' = reports
  PROVE  OpMove /\ FlagsKept
BY PollKeeps DEF PollKept, OpMove, FlagsKept

\* A deadline that passes keeps what was delivered and begun.
LEMMA OpExpired ==
  ASSUME SessionShapes, ExpireReturn
  PROVE  /\ OpMove /\ op'.fallback = op.fallback /\ op'.latched = op.latched
         /\ op'.delivered = op.delivered /\ op'.begun = op.begun
BY DEF SessionShapes, ExpireReturn, OpMove, OpType

\* The fallback is due for a latched request, once.
LEMMA FallbackDue ==
  ASSUME SessionShapes, NEW o, PollKept(o), Due(o) = "fallback"
  PROVE  o.latched # 0 /\ ~op.fallback /\ ~op.delivered /\ ~op.begun /\ ~op.expired
BY DEF Due, None, PollKept

\* The fallback delivers the instruction unless the ceiling is reached.
LEMMA OpFallback ==
  ASSUME SessionShapes, Fallback
  PROVE  /\ OpMove /\ op'.fallback /\ ~op.fallback /\ op'.begun = op.begun
         /\ op'.expired = op.expired
         /\ ~ceiling => op'.delivered
         /\ ceiling => op'.delivered = op.delivered
<1> DEFINE o == Polled(op)
<1>1. PollKept(o)
  BY PollKeeps
<1>2. o.latched # 0 /\ ~op.fallback /\ ~op.delivered /\ ~op.begun
  BY <1>1, FallbackDue DEF Fallback
<1>3. CASE ceiling
  <2>1. op' = [o EXCEPT !.fallback = TRUE] /\ reports' = reports
    BY <1>3 DEF Fallback
  <2> HIDE DEF o
  <2> QED  BY <1>1, <1>2, <1>3, <2>1 DEF PollKept, OpMove, OpType
<1>4. CASE ~ceiling
  <2>1. op' = [o EXCEPT !.fallback = TRUE, !.delivered = TRUE] /\ Reported
    BY <1>4 DEF Fallback
  <2> HIDE DEF o
  <2> QED  BY <1>1, <1>2, <1>4, <2>1 DEF PollKept, OpMove, OpType
<1> QED  BY <1>3, <1>4

\* The skill hook only lets a latched request begin.
LEMMA SkillKeeps ==
  ASSUME SessionShapes, NEW th, NEW tool, NEW o, o = AfterSkill(th, tool)
  PROVE  /\ o \in OpType /\ o.latched = op.latched /\ o.delivered = op.delivered
         /\ o.fallback = op.fallback /\ o.expired = op.expired
         /\ op.begun => o.begun
         /\ o.begun /\ ~op.begun => op.latched # 0
BY DEF SessionShapes, OpType, AfterSkill, Counts, Begins

\* A tool hook changes at most the begin of the request.
LEMMA OpHook ==
  ASSUME SessionShapes, NEW th \in Threads, NEW tool \in Tools, PreToolUse(th, tool)
  PROVE  /\ OpMove /\ op'.fallback = op.fallback /\ op'.expired = op.expired
         /\ op'.delivered = op.delivered /\ op'.latched = op.latched
<1>1. op' = AfterSkill(th, tool) /\ Reported
  BY DEF PreToolUse
<1> QED  BY <1>1, SkillKeeps DEF OpMove

\* A poll after the hook has recorded its own handoff call.
LEMMA PollAfter ==
  ASSUME SessionShapes, NEW o \in OpType, NEW p, p = Polled(o)
  PROVE  /\ p \in OpType /\ p.delivered = o.delivered /\ p.begun = o.begun
         /\ p.fallback = o.fallback /\ p.expired = o.expired
         /\ o.latched # 0 => p.latched # 0
         /\ o.latched # 0 /\ (o.delivered \/ o.begun) => p = o
<1>1. offer \in 0..MaxRequests
  BY DEF SessionShapes
<1>2. CASE offer = 0 \/ (o.latched # 0 /\ (o.delivered \/ o.begun))
  BY <1>2 DEF Polled
<1>3. CASE ~(offer = 0 \/ (o.latched # 0 /\ (o.delivered \/ o.begun)))
  <2>1. p = [o EXCEPT !.latched = offer] /\ offer # 0
    BY <1>3 DEF Polled
  <2> QED  BY <1>1, <1>3, <2>1 DEF OpType
<1> QED  BY <1>2, <1>3

\* A delivery through a tool result reaches the model.
LEMMA OpAfterHook ==
  ASSUME SessionShapes, NEW th \in Threads, NEW end \in Ends, NEW landed \in BOOLEAN,
         PostToolUse(th, end, landed)
  PROVE  /\ OpMove /\ op'.fallback = op.fallback /\ op'.expired = op.expired
         /\ op'.delivered /\ ~op.delivered => informed'
<1> DEFINE a == AfterSkill(th, end)
           o == Polled(a)
           due == th = Main /\ o.latched # 0 /\ ~o.delivered
<1>1. /\ op' = [o EXCEPT !.delivered = @ \/ due] /\ Reported
      /\ due => informed'
  BY DEF PostToolUse
<1>2. /\ a \in OpType /\ a.latched = op.latched /\ a.delivered = op.delivered
      /\ a.fallback = op.fallback /\ a.expired = op.expired
      /\ op.begun => a.begun
      /\ a.begun /\ ~op.begun => op.latched # 0
  BY SkillKeeps
<1> HIDE DEF a
<1>3. /\ o \in OpType /\ o.delivered = a.delivered /\ o.begun = a.begun
      /\ o.fallback = a.fallback /\ o.expired = a.expired
      /\ a.latched # 0 => o.latched # 0
      /\ a.latched # 0 /\ (a.delivered \/ a.begun) => o = a
  BY <1>2, PollAfter
<1>4. due => o.latched # 0
  OBVIOUS
<1>5. due \in BOOLEAN
  OBVIOUS
<1> HIDE DEF o, due
<1>6. /\ op' \in OpType /\ op'.latched = o.latched /\ op'.begun = o.begun
      /\ op'.fallback = o.fallback /\ op'.expired = o.expired
      /\ op'.delivered = (o.delivered \/ due)
  BY <1>1, <1>3, <1>5 DEF OpType
<1>7. /\ op'.delivered \in BOOLEAN /\ op'.begun \in BOOLEAN
      /\ op.delivered \in BOOLEAN /\ op.begun \in BOOLEAN
  BY <1>6 DEF OpType, SessionShapes
<1>8. /\ op.delivered => op'.delivered
      /\ op.begun => op'.begun
      /\ op.fallback => op'.fallback
      /\ op.expired => op'.expired
      /\ op.latched # 0 => op'.latched # 0
  BY <1>2, <1>3, <1>6
<1>9. op.latched # 0 /\ (op.delivered \/ op.begun) => op'.latched = op.latched
  BY <1>2, <1>3, <1>6
<1>10. /\ op'.delivered /\ ~op.delivered => op'.latched # 0
       /\ op'.begun /\ ~op.begun => op'.latched # 0
       /\ op'.delivered /\ ~op.delivered => informed'
  BY <1>1, <1>2, <1>3, <1>4, <1>6
<1> QED  BY <1>1, <1>2, <1>3, <1>6, <1>8, <1>9, <1>10 DEF OpMove

\* Every step, by what it does to the handoff: nothing, a poll, the deadline,
\* the fallback or a hook.
LEMMA OpSteps ==
  ASSUME [SessionNext]_sessionVars
  PROVE  \/ op' = op /\ reports' = reports
         \/ op' = Polled(op) /\ reports' = reports
         \/ ExpireReturn
         \/ Fallback
         \/ \E th \in Threads, tool \in Tools : PreToolUse(th, tool)
         \/ \E th \in Threads, end \in Ends, landed \in BOOLEAN : PostToolUse(th, end, landed)
<1>1. CASE DriverStep
  BY <1>1 DEF DriverStep, Expire, FallbackQuery, StopTasks, Wait, Boundary, AfterTimeout,
     AfterLoop, AfterFollowup, CeilingReturn
<1>2. CASE MessageStep
  BY <1>2 DEF MessageStep, AssistantMessage, TaskStarted, TaskFinished, CompactBoundary,
     StreamEnds, ResultMessage
<1>3. CASE HookStep
  BY <1>3 DEF HookStep
<1>4. CASE ModelTimeout \/ FollowupTimeout \/ ClientFails \/ Compaction \/ OperatorAsks
           \/ OperatorWithdraws \/ ClockTick \/ UNCHANGED sessionVars
  BY <1>4 DEF ModelTimeout, FollowupTimeout, ClientFails, Compaction, OperatorAsks,
     OperatorWithdraws, ClockTick, sessionVars
<1> QED  BY <1>1, <1>2, <1>3, <1>4 DEF SessionNext, Done

\* Flags of the handoff change only where they are set.
LEMMA OpMoves ==
  ASSUME SessionShapes, [SessionNext]_sessionVars
  PROVE  /\ OpMove
         /\ op'.fallback = op.fallback \/ Fallback
         /\ op'.expired = op.expired \/ ExpireReturn
         /\ op'.delivered = op.delivered \/ Fallback \/ (op'.delivered /\ informed')
<1>1. op' \in OpType => op'.delivered \in BOOLEAN /\ op'.begun \in BOOLEAN
  BY DEF OpType
<1>2. CASE op' = op /\ reports' = reports
  BY <1>2, OpSame DEF FlagsKept
<1>3. CASE op' = Polled(op) /\ reports' = reports
  BY <1>3, OpPolled DEF FlagsKept
<1>4. CASE ExpireReturn
  BY <1>4, OpExpired
<1>5. CASE Fallback
  BY <1>5, OpFallback
<1>6. CASE \E th \in Threads, tool \in Tools : PreToolUse(th, tool)
  <2>1. /\ OpMove /\ op'.fallback = op.fallback /\ op'.expired = op.expired
        /\ op'.delivered = op.delivered /\ op'.latched = op.latched
    BY <1>6, OpHook
  <2> QED  BY <2>1
<1>7. CASE \E th \in Threads, end \in Ends, landed \in BOOLEAN : PostToolUse(th, end, landed)
  <2>1. /\ OpMove /\ op'.fallback = op.fallback /\ op'.expired = op.expired
        /\ op'.delivered /\ ~op.delivered => informed'
    BY <1>7, OpAfterHook
  <2>2. op.delivered \in BOOLEAN /\ op.begun \in BOOLEAN /\ op' \in OpType
    BY <2>1 DEF OpMove, SessionShapes, OpType
  <2>3. op'.delivered = op.delivered \/ (op'.delivered /\ informed')
    BY <1>1, <2>1, <2>2 DEF OpMove
  <2> QED  BY <2>1, <2>3
<1> QED  BY <1>2, <1>3, <1>4, <1>5, <1>6, <1>7, OpSteps

\* What is reported stays about the pinned request.
LEMMA PinnedKept ==
  ASSUME SessionShapes, Pinned, [SessionNext]_sessionVars
  PROVE  Pinned'
<1>1. OpMove
  BY OpMoves
<1>2. (op'.delivered \/ op'.begun) => op'.latched # 0
  BY <1>1 DEF Pinned, OpMove
<1>3. CASE reports' = reports
  BY <1>1, <1>2, <1>3 DEF Pinned, OpMove
<1>4. CASE Reported
  <2>1. \A x \in reports' \ reports : x[2] = op'.latched /\ (op'.delivered \/ op'.begun)
    BY <1>4 DEF Reported
  <2>2. \A x \in reports : x[2] = op'.latched /\ (op'.delivered \/ op'.begun)
    BY <1>1 DEF Pinned, OpMove
  <2> QED  BY <1>2, <2>1, <2>2 DEF Pinned
<1> QED  BY <1>1, <1>3, <1>4 DEF OpMove

-----------------------------------------------------------------------------
(* The stack and the types are kept *)

\* A hook leaves the loops, the tasks and the prompts alone.
LEMMA HookFrame ==
  ASSUME HookStep
  PROVE  /\ pc' = pc /\ frames' = frames /\ terminal' = terminal /\ followup' = followup
         /\ status' = status /\ model' = model /\ task' = task /\ crossed' = crossed
         /\ ceiling' = ceiling /\ compacted' = compacted /\ scene' = scene
         /\ offer' = offer /\ asked' = asked /\ age' = age /\ prompts' = prompts
         /\ pc # "done"
<1>1. CASE \E th \in Threads, tool \in Tools : PreToolUse(th, tool)
  BY <1>1 DEF PreToolUse, driver, operator
<1>2. CASE \E th \in Threads, end \in Ends, landed \in BOOLEAN : PostToolUse(th, end, landed)
  BY <1>2 DEF PostToolUse, driver, operator
<1> QED  BY <1>1, <1>2 DEF HookStep

\* Only a fallback below the ceiling asks the model within a loop.
LEMMA QueryEntered ==
  ASSUME SessionShapes, [SessionNext]_sessionVars, pc' = "query", pc # "query"
  PROVE  Fallback /\ ~ceiling
<1>1. CASE DriverStep
  BY <1>1 DEF DriverStep, Expire, ExpireReturn, Fallback, FallbackQuery, StopTasks, WakeUp,
     Wait, Boundary, AfterTimeout, AfterLoop, AfterFollowup, CeilingReturn, Return, Ask, Finish
<1>2. CASE MessageStep
  BY <1>2 DEF MessageStep, AssistantMessage, TaskStarted, TaskFinished, CompactBoundary,
     StreamEnds, WakeUp, ResultMessage, Return, Onward
<1>3. CASE HookStep
  BY <1>3, HookFrame
<1>4. CASE ModelTimeout \/ FollowupTimeout \/ ClientFails \/ Compaction \/ OperatorAsks
           \/ OperatorWithdraws \/ ClockTick \/ UNCHANGED sessionVars
  BY <1>4 DEF ModelTimeout, FollowupTimeout, ClientFails, Compaction, OperatorAsks,
     OperatorWithdraws, ClockTick, sessionVars, Finish, driver
<1> QED  BY <1>1, <1>2, <1>3, <1>4 DEF SessionNext, Done

\* The stack after any step.
StackAfter ==
    /\ SoundStack(frames')
    /\ InLoop' => Len(frames') \in {1, 2}
    /\ pc' = "returned" => Len(frames') = 1
    /\ pc' \in {"timeout", "done"} => Len(frames') = 0
    /\ pc' = "query" => Len(frames') = 1
    /\ Len(frames') = 2 => Len(frames) = 2 \/ pc = "query"

\* Each step of a session keeps the nesting of the loops.
LEMMA StackStep ==
  ASSUME SessionShapes, Stack, [SessionNext]_sessionVars
  PROVE  StackAfter
<1>1. SoundStack(frames)
  BY StackSound
<1>2. CASE StackSame
  BY <1>1, <1>2 DEF StackSame, Stack, StackAfter, InLoop
<1>3. ASSUME NEW f \in FrameType, StackTop(f)  PROVE StackAfter
  <2>1. Len(frames) \in {1, 2}
    BY <1>3, InsideLoop DEF StackTop
  <2> QED  BY <1>3, <2>1 DEF StackTop, TopReplaced, StackAfter, InLoop
<1>4. CASE StackReturn
  <2>1. Base \in {"main", "followup"}
    BY <1>4, InsideLoop DEF StackReturn
  <2>2. SoundStack(frames') /\ Len(frames') = 1
    BY <1>4, <2>1, FreshStack DEF StackReturn
  <2> QED  BY <1>4, <2>2 DEF StackReturn, StackAfter, InLoop
<1>5. CASE StackEnd
  <2>1. SoundStack(frames') /\ Len(frames') = 0
    BY <1>5, NoStack DEF StackEnd
  <2> QED  BY <1>5, <2>1 DEF StackEnd, StackAfter, InLoop
<1>6. CASE StackPush
  <2>1. Len(frames) = 1 /\ frames' = Append(frames, Frame("fallback"))
    BY <1>6 DEF StackPush, Stack
  <2>2. Frame("fallback") \in FrameType /\ Frame("fallback").kind = "fallback"
    BY FrameFresh
  <2>3. SoundStack(frames') /\ Len(frames') = 2
    BY <1>1, <2>1, <2>2, PushFallback
  <2> QED  BY <1>6, <2>3 DEF StackPush, StackAfter, InLoop
<1>7. CASE StackAsk
  <2>1. SoundStack(frames') /\ Len(frames') = 1
    BY <1>7, FreshStack DEF StackAsk
  <2> QED  BY <1>7, <2>1 DEF StackAsk, StackAfter, InLoop
<1>8. CASE StackPop
  <2>1. SoundStack(frames') /\ Len(frames') = 1
    BY <1>1, <1>8, PopFallback DEF StackPop
  <2> QED  BY <1>8, <2>1 DEF StackPop, StackAfter, InLoop
<1> QED  BY <1>2, <1>3, <1>4, <1>5, <1>6, <1>7, <1>8, AnyMoves DEF StackMove

\* The nesting of the loops is inductive.
LEMMA StackKept ==
  ASSUME SessionShapes, Stack, [SessionNext]_sessionVars
  PROVE  Stack' /\ frames' \in Seq(FrameType)
<1>1. StackAfter /\ OpMove
  BY StackStep, OpMoves
<1>2. frames' \in Seq(FrameType)
  BY <1>1 DEF StackAfter, SoundStack
<1>3. pc' = "query" => op'.fallback /\ op'.delivered
  <2>1. CASE pc = "query"
    BY <1>1, <2>1 DEF Stack, OpMove
  <2>2. CASE pc' = "query" /\ pc # "query"
    BY <2>2, QueryEntered, OpFallback
  <2> QED  BY <2>1, <2>2
<1>4. Len(frames') = 2 => op'.fallback /\ op'.delivered
  BY <1>1 DEF StackAfter, Stack, OpMove
<1>5. /\ Len(frames') >= 1 => frames'[1].kind # "fallback"
      /\ Len(frames') = 2 => frames'[2].kind = "fallback"
  BY <1>1 DEF StackAfter, SoundStack
<1> QED  BY <1>1, <1>2, <1>3, <1>4, <1>5 DEF StackAfter, Stack, InLoop

\* The scene stays, and the driver is at one of its places.
LEMMA PlainTypes ==
  ASSUME SessionShapes, [SessionNext]_sessionVars
  PROVE  /\ scene' = scene
         /\ pc' \in {"check", "wait", "expire", "query", "ceiling", "timeout",
                   "returned", "done"}
<1>0. pc \in {"check", "wait", "expire", "query", "ceiling", "timeout", "returned", "done"}
  BY DEF SessionShapes
<1>1. CASE DriverStep
  BY <1>1, <1>0 DEF DriverStep, Expire, ExpireReturn, Fallback, FallbackQuery,
     StopTasks, WakeUp, Wait, Boundary, AfterTimeout, AfterLoop, AfterFollowup,
     CeilingReturn, Return, Ask, Finish, operator
<1>2. CASE MessageStep
  BY <1>2, <1>0 DEF MessageStep, AssistantMessage, TaskStarted, TaskFinished,
     CompactBoundary, StreamEnds, WakeUp, ResultMessage, Return, Onward, operator
<1>3. CASE HookStep
  BY <1>3, HookFrame, <1>0 DEF operator
<1>4. CASE ModelTimeout \/ FollowupTimeout \/ ClientFails \/ Compaction \/ OperatorAsks
           \/ OperatorWithdraws \/ ClockTick \/ UNCHANGED sessionVars
  BY <1>4, <1>0 DEF ModelTimeout, FollowupTimeout, ClientFails, Compaction,
     OperatorAsks, OperatorWithdraws, ClockTick, sessionVars, Finish, driver,
     operator
<1> QED  BY <1>1, <1>2, <1>3, <1>4 DEF SessionNext, Done

\* The operator never offers more requests than the scene has.
LEMMA OfferTypes ==
  ASSUME SessionShapes, [SessionNext]_sessionVars
  PROVE  offer' \in 0..MaxRequests /\ asked' \in 0..MaxRequests
<1>0. /\ offer \in 0..MaxRequests /\ asked \in 0..MaxRequests /\ MaxRequests \in Nat
      /\ scene.requests \in 0..MaxRequests
  BY SceneAssumption DEF SessionShapes, SceneType
<1>1. CASE OperatorAsks
  BY <1>0, <1>1 DEF OperatorAsks
<1>2. CASE OperatorWithdraws
  BY <1>0, <1>2 DEF OperatorWithdraws
<1>3. CASE ~OperatorAsks /\ ~OperatorWithdraws
  <2> offer' = offer /\ asked' = asked
    <3>1. CASE DriverStep
      BY <3>1, <1>3 DEF DriverStep, Expire, ExpireReturn, Fallback, FallbackQuery,
         StopTasks, WakeUp, Wait, Boundary, AfterTimeout, AfterLoop, AfterFollowup,
         CeilingReturn, Return, Ask, Finish, operator
    <3>2. CASE MessageStep
      BY <3>2, <1>3 DEF MessageStep, AssistantMessage, TaskStarted, TaskFinished,
         CompactBoundary, StreamEnds, WakeUp, ResultMessage, Return, Onward, operator
    <3>3. CASE HookStep
      BY <3>3, HookFrame, <1>3 DEF operator
    <3>4. CASE ModelTimeout \/ FollowupTimeout \/ ClientFails \/ Compaction \/ OperatorAsks
               \/ OperatorWithdraws \/ ClockTick \/ UNCHANGED sessionVars
      BY <3>4, <1>3 DEF ModelTimeout, FollowupTimeout, ClientFails, Compaction,
         ClockTick, sessionVars, Finish, operator
    <3> QED  BY <3>1, <3>2, <3>3, <3>4 DEF SessionNext, Done
  <2> QED  BY <1>0
<1> QED  BY <1>1, <1>2, <1>3

\* A loop returns a result or none.
LEMMA ReturnTypes ==
  ASSUME SessionShapes, NEW result \in Results \cup {None}, Return(result)
  PROVE  /\ terminal' \in Results \cup {None}
         /\ followup' \in [why : Why, result : Results \cup {None}]
         /\ followup'.why = followup.why
BY DEF SessionShapes, Return

\* A loop that stops its tasks has a frame that waits for none.
LEMMA StoppedTop ==
  ASSUME SessionShapes, Stack, StopTasks
  PROVE  /\ [Cancelled(Top) EXCEPT !.pending = {}] \in FrameType
         /\ [Cancelled(Top) EXCEPT !.pending = {}].kind = Top.kind
         /\ [Cancelled(Top) EXCEPT !.pending = {}].deferred \in Results \cup {None}
<1>1. InLoop /\ pc = "check"
  BY DEF StopTasks, InLoop
<1>2. Top \in FrameType
  BY <1>1, InsideLoop
<1>3. Cancelled(Top) \in FrameType /\ Cancelled(Top).kind = Top.kind
  BY <1>2, CancelledFrame
<1> QED  BY <1>3 DEF FrameType

\* Where a loop returns, and with what.
LEMMA ResultSteps ==
  ASSUME SessionShapes, Stack, [SessionNext]_sessionVars
  PROVE  \/ terminal' = terminal /\ followup' = followup
         \/ \E result \in Results \cup {None} : Return(result)
         \/ \E why \in Why \ {None} : Ask(why)
<1>1. CASE DriverStep
  <2>1. CASE StopTasks
    BY <2>1, StoppedTop DEF StopTasks, WakeUp
  <2>2. CASE ExpireReturn
    BY <2>2 DEF ExpireReturn
  <2>3. CASE \E drained \in {None, "ok", "failed"} : CeilingReturn(drained)
    BY <2>3 DEF CeilingReturn, Results
  <2>4. CASE AfterTimeout
    BY <2>4 DEF AfterTimeout, Why, None
  <2>5. CASE AfterLoop
    BY <2>5 DEF AfterLoop, Why, None
  <2> QED  BY <1>1, <2>1, <2>2, <2>3, <2>4, <2>5 DEF DriverStep, Expire, Fallback, FallbackQuery,
              Wait, Boundary, AfterFollowup
<1>2. CASE MessageStep
  <2>1. ASSUME NEW result \in scene.results, ResultMessage(result)
        PROVE  \/ terminal' = terminal /\ followup' = followup
               \/ \E r \in Results \cup {None} : Return(r)
    <3>1. result \in Results
      BY DEF SessionShapes, SceneType
    <3> QED  BY <2>1, <3>1 DEF ResultMessage
  <2>2. CASE StreamEnds
    BY <2>2 DEF StreamEnds, WakeUp
  <2> QED  BY <1>2, <2>1, <2>2 DEF MessageStep, AssistantMessage, TaskStarted, TaskFinished, CompactBoundary
<1>3. CASE HookStep
  BY <1>3, HookFrame
<1>4. CASE ModelTimeout \/ FollowupTimeout \/ ClientFails \/ Compaction \/ OperatorAsks
           \/ OperatorWithdraws \/ ClockTick \/ UNCHANGED sessionVars
  BY <1>4 DEF ModelTimeout, FollowupTimeout, ClientFails, Compaction, OperatorAsks,
     OperatorWithdraws, ClockTick, sessionVars, Finish, driver
<1> QED  BY <1>1, <1>2, <1>3, <1>4 DEF SessionNext, Done

\* The results of the loops keep their types.
LEMMA ResultTypes ==
  ASSUME SessionShapes, Stack, [SessionNext]_sessionVars
  PROVE  /\ terminal' \in Results \cup {None}
         /\ followup' \in [why : Why, result : Results \cup {None}]
<1>1. CASE terminal' = terminal /\ followup' = followup
  BY <1>1 DEF SessionShapes
<1>2. CASE \E result \in Results \cup {None} : Return(result)
  BY <1>2, ReturnTypes
<1>3. CASE \E why \in Why \ {None} : Ask(why)
  BY <1>3 DEF Ask, SessionShapes
<1> QED  BY <1>1, <1>2, <1>3, ResultSteps

\* Whatever the result, the session has a status.
LEMMA ClassifyType ==
  ASSUME NEW result
  PROVE  Classify(result) \in Statuses /\ WithoutFollowup \in Statuses /\ NoResult \in Statuses
<1>1. \A r : Classify(r) \in Statuses
  BY DEF Classify, Statuses
<1>2. NoResult \in Statuses
  BY DEF NoResult, Statuses
<1>3. WithoutFollowup \in Statuses
  BY <1>1 DEF WithoutFollowup, Statuses
<1> QED  BY <1>1, <1>2, <1>3

\* The status is decided once, at the end.
LEMMA StatusSteps ==
  ASSUME [SessionNext]_sessionVars
  PROVE  \/ status' = status
         \/ \E s \in Statuses : Finish(s)
<1>1. CASE DriverStep
  <2>1. CASE AfterTimeout
    BY <2>1 DEF AfterTimeout, Ask, Statuses
  <2>2. CASE AfterLoop
    <3>1. CASE Finish(IF terminal = None /\ ~ceiling THEN NoResult ELSE Classify(terminal))
      BY <3>1, ClassifyType
    <3> QED  BY <2>2, <3>1 DEF AfterLoop, Ask
  <2>3. CASE AfterFollowup
    <3>1. CASE Finish("HANDOFF_REQUESTED") \/ Finish(WithoutFollowup)
      BY <3>1, ClassifyType DEF Statuses
    <3> QED  BY <2>3, <3>1 DEF AfterFollowup
  <2> QED  BY <1>1, <2>1, <2>2, <2>3 DEF DriverStep, Expire, ExpireReturn, Fallback,
              FallbackQuery, StopTasks, WakeUp, Wait, Boundary, CeilingReturn, Return
<1>2. CASE MessageStep
  BY <1>2 DEF MessageStep, AssistantMessage, TaskStarted, TaskFinished,
     CompactBoundary, StreamEnds, WakeUp, ResultMessage, Return, Onward
<1>3. CASE HookStep
  BY <1>3, HookFrame
<1>4. CASE FollowupTimeout
  BY <1>4, ClassifyType DEF FollowupTimeout
<1>5. CASE ClientFails
  <2>1. CASE Finish(WithoutFollowup) \/ Finish("INFRASTRUCTURE_ERROR")
    BY <2>1, ClassifyType DEF Statuses
  <2> QED  BY <1>5, <2>1 DEF ClientFails
<1>6. CASE ModelTimeout \/ Compaction \/ OperatorAsks \/ OperatorWithdraws \/ ClockTick
           \/ UNCHANGED sessionVars
  BY <1>6 DEF ModelTimeout, Compaction, OperatorAsks, OperatorWithdraws, ClockTick,
     sessionVars, driver
<1> QED  BY <1>1, <1>2, <1>3, <1>4, <1>5, <1>6 DEF SessionNext, Done

\* Where background tasks start, finish or are stopped.
LEMMA TaskSteps ==
  ASSUME SessionShapes, [SessionNext]_sessionVars
  PROVE  \/ task' = task
         \/ StopTasks /\ task' = Stopped(Top.pending)
         \/ \E t \in Tasks : TaskStarted(t) \/ TaskFinished(t)
         \/ \E result \in scene.results : ResultMessage(result) /\ task' = Stopped(Top.pending)
<1>1. CASE DriverStep
  BY <1>1 DEF DriverStep, Expire, ExpireReturn, Fallback, FallbackQuery, StopTasks,
     WakeUp, Wait, Boundary, AfterTimeout, AfterLoop, AfterFollowup, CeilingReturn,
     Return, Ask, Finish
<1>2. CASE MessageStep
  BY <1>2 DEF MessageStep, AssistantMessage, CompactBoundary, StreamEnds, WakeUp,
     ResultMessage, Return, Onward
<1>3. CASE HookStep
  BY <1>3, HookFrame
<1>4. CASE ModelTimeout \/ FollowupTimeout \/ ClientFails \/ Compaction \/ OperatorAsks
           \/ OperatorWithdraws \/ ClockTick \/ UNCHANGED sessionVars
  BY <1>4 DEF ModelTimeout, FollowupTimeout, ClientFails, Compaction, OperatorAsks,
     OperatorWithdraws, ClockTick, sessionVars, Finish, driver
<1> QED  BY <1>1, <1>2, <1>3, <1>4 DEF SessionNext, Done

\* The tasks keep their types.
LEMMA TaskTypes ==
  ASSUME SessionShapes, [SessionNext]_sessionVars
  PROVE  task' \in [Tasks -> {"new", "alive", "ended"}]
<1>1. task \in [Tasks -> {"new", "alive", "ended"}]
  BY DEF SessionShapes
<1>2. Stopped(Top.pending) \in [Tasks -> {"new", "alive", "ended"}]
  BY <1>1 DEF Stopped
<1>3. ASSUME NEW t \in Tasks, TaskStarted(t) \/ TaskFinished(t)
      PROVE  task' \in [Tasks -> {"new", "alive", "ended"}]
  BY <1>1, <1>3 DEF TaskStarted, TaskFinished
<1> QED  BY <1>1, <1>2, <1>3, TaskSteps

GatesSame ==
    /\ crossed' = crossed /\ ceiling' = ceiling /\ skill' = skill
    /\ noteSeen' = noteSeen /\ told' = told /\ again' = again

\* The gates move with a message the ledger counts, with the message about a
\* compaction and with the hooks.
LEMMA GateSteps ==
  ASSUME [SessionNext]_sessionVars
  PROVE  \/ GatesSame
         \/ \E reading \in scene.readings : AssistantMessage(reading)
         \/ CompactBoundary
         \/ \E th \in Threads, tool \in Tools : PreToolUse(th, tool)
         \/ \E th \in Threads, end \in Ends, landed \in BOOLEAN : PostToolUse(th, end, landed)
<1>1. CASE DriverStep
  BY <1>1 DEF DriverStep, Expire, ExpireReturn, Fallback, FallbackQuery, StopTasks,
     WakeUp, Wait, Boundary, AfterTimeout, AfterLoop, AfterFollowup, CeilingReturn,
     Return, Ask, Finish, gates, GatesSame
<1>2. CASE MessageStep
  BY <1>2 DEF MessageStep, TaskStarted, TaskFinished, StreamEnds, WakeUp,
     ResultMessage, Return, Onward, gates, GatesSame
<1>3. CASE HookStep
  BY <1>3 DEF HookStep
<1>4. CASE ModelTimeout \/ FollowupTimeout \/ ClientFails \/ Compaction \/ OperatorAsks
           \/ OperatorWithdraws \/ ClockTick \/ UNCHANGED sessionVars
  BY <1>4 DEF ModelTimeout, FollowupTimeout, ClientFails, Compaction, OperatorAsks,
     OperatorWithdraws, ClockTick, sessionVars, Finish, driver, gates, GatesSame
<1> QED  BY <1>1, <1>2, <1>3, <1>4 DEF SessionNext, Done

\* What the gates remember is never forgotten.
GatesGrow ==
    /\ crossed => crossed'
    /\ ceiling => ceiling'
    /\ skill => skill'
    /\ noteSeen => noteSeen'
    /\ told => told'
    /\ crossed' \in BOOLEAN /\ ceiling' \in BOOLEAN /\ skill' \in BOOLEAN
    /\ noteSeen' \in BOOLEAN /\ told' \in BOOLEAN
    /\ again' \subseteq {"token", "operator"}

\* The gates remember what closed them.
LEMMA GatesMove ==
  ASSUME SessionShapes, [SessionNext]_sessionVars
  PROVE  GatesGrow
<1>0. /\ crossed \in BOOLEAN /\ ceiling \in BOOLEAN /\ skill \in BOOLEAN
      /\ noteSeen \in BOOLEAN /\ told \in BOOLEAN
      /\ again \subseteq {"token", "operator"}
  BY DEF SessionShapes
<1>1. CASE GatesSame
  BY <1>0, <1>1 DEF GatesSame, GatesGrow
<1>2. ASSUME NEW reading \in scene.readings, AssistantMessage(reading)  PROVE GatesGrow
  BY <1>0, <1>2 DEF AssistantMessage, GatesGrow
<1>3. CASE CompactBoundary
  BY <1>0, <1>3 DEF CompactBoundary, GatesGrow, Rearmed
<1>4. ASSUME NEW th \in Threads, NEW tool \in Tools, PreToolUse(th, tool)  PROVE GatesGrow
  BY <1>0, <1>4 DEF PreToolUse, GatesGrow, Counts
<1>5. ASSUME NEW th \in Threads, NEW end \in Ends, NEW landed \in BOOLEAN,
             PostToolUse(th, end, landed)
      PROVE  GatesGrow
  <2>1. /\ skill' = (skill \/ Counts(th, end))
        /\ noteSeen' = (noteSeen \/ (/\ crossed \/ op.delivered
                                     /\ th = Main /\ end = "command" /\ landed))
        /\ told' = (told \/ (th = Main /\ crossed /\ ~told))
        /\ crossed' = crossed /\ ceiling' = ceiling
    BY <1>5 DEF PostToolUse
  <2>2. again' \subseteq again
    BY <1>5 DEF PostToolUse
  <2> QED  BY <1>0, <2>1, <2>2 DEF GatesGrow
<1> QED  BY <1>1, <1>2, <1>3, <1>4, <1>5, GateSteps

\* A request whose deadline passed stays late.
LEMMA AgeSteps ==
  ASSUME SessionShapes, [SessionNext]_sessionVars
  PROVE  /\ age' \in [1..MaxRequests -> 0..2]
         /\ \A r \in 1..MaxRequests : age[r] = 2 => age'[r] = 2
<1>0. /\ age \in [1..MaxRequests -> 0..2] /\ asked \in 0..MaxRequests /\ MaxRequests \in Nat
  BY SceneAssumption DEF SessionShapes
<1>1. CASE age' = age
  BY <1>0, <1>1
<1>2. CASE age' # age
  <2>1. PICK r \in 1..asked : age[r] < 2 /\ age' = [age EXCEPT ![r] = @ + 1]
    <3>1. CASE DriverStep
      BY <3>1, <1>2 DEF DriverStep, Expire, ExpireReturn, Fallback, FallbackQuery,
         StopTasks, WakeUp, Wait, Boundary, AfterTimeout, AfterLoop, AfterFollowup,
         CeilingReturn, Return, Ask, Finish, operator
    <3>2. CASE MessageStep
      BY <3>2, <1>2 DEF MessageStep, AssistantMessage, TaskStarted, TaskFinished,
         CompactBoundary, StreamEnds, WakeUp, ResultMessage, Return, Onward, operator
    <3>3. CASE HookStep
      BY <3>3, HookFrame, <1>2 DEF operator
    <3>4. CASE ModelTimeout \/ FollowupTimeout \/ ClientFails \/ Compaction \/ OperatorAsks
               \/ OperatorWithdraws \/ ClockTick \/ UNCHANGED sessionVars
      BY <3>4, <1>2 DEF ModelTimeout, FollowupTimeout, ClientFails, Compaction,
         OperatorAsks, OperatorWithdraws, ClockTick, sessionVars, Finish, driver, operator
    <3> QED  BY <3>1, <3>2, <3>3, <3>4 DEF SessionNext, Done
  <2>2. r \in 1..MaxRequests /\ age[r] \in 0..2
    BY <1>0, <2>1
  <2>3. age[r] + 1 \in 0..2
    BY <2>1, <2>2
  <2> QED  BY <1>0, <2>1, <2>2, <2>3
<1> QED  BY <1>1, <1>2

\* All types of a session are inductive, given the nesting of the loops.
LEMMA ShapesKept ==
  ASSUME SessionShapes, Stack, [SessionNext]_sessionVars
  PROVE  SessionShapes'
<1>1. OpMove /\ GatesGrow
  BY OpMoves, GatesMove
<1>2. op' \in OpType
  BY <1>1 DEF OpMove
<1>3. frames' \in Seq(FrameType)
  BY StackKept
<1>4. status' \in Statuses \cup {None}
  BY StatusSteps DEF SessionShapes, Finish
<1>5. scene' \in SceneType
  BY PlainTypes DEF SessionShapes
<1>6. prompts' \in PromptType
  BY SMTT(30), PromptMoves DEF SessionShapes, PromptType
<1> QED
  BY <1>1, <1>2, <1>3, <1>4, <1>5, <1>6, PlainTypes, OfferTypes, ResultTypes, TaskTypes, AgeSteps
     DEF SessionShapes, GatesGrow

-----------------------------------------------------------------------------
(* Prompts *)

\* The outermost loop stays the same one unless the follow-up is asked.
LEMMA BaseMoves ==
  ASSUME SessionShapes, Stack, [SessionNext]_sessionVars, Len(frames') >= 1
  PROVE  (Len(frames) >= 1 /\ Base' = Base) \/ (StackAsk /\ Base' = "followup")
<1>1. SoundStack(frames)
  BY StackSound
<1>2. CASE StackSame
  BY <1>2 DEF StackSame, Base
<1>3. ASSUME NEW f \in FrameType, StackTop(f)  PROVE Len(frames) >= 1 /\ Base' = Base
  BY <1>3, InsideLoop DEF StackTop, TopReplaced, Base
<1>4. CASE StackReturn
  <2>1. Base \in {"main", "followup"} /\ Len(frames) \in {1, 2}
    BY <1>4, InsideLoop DEF StackReturn
  <2>2. frames'[1].kind = Base
    BY <1>4, <2>1, FreshStack DEF StackReturn
  <2> QED  BY <2>1, <2>2 DEF Base
<1>5. CASE StackEnd
  BY <1>5, NoStack DEF StackEnd
<1>6. CASE StackPush
  <2>1. Len(frames) = 1 /\ frames' = Append(frames, Frame("fallback"))
    BY <1>6 DEF StackPush, Stack
  <2>2. Frame("fallback") \in FrameType /\ Frame("fallback").kind = "fallback"
    BY FrameFresh
  <2>3. frames'[1] = frames[1]
    BY <1>1, <2>1, <2>2, PushFallback
  <2> QED  BY <2>1, <2>3 DEF Base
<1>7. CASE StackAsk
  <2>1. frames'[1].kind = "followup"
    BY <1>7, FreshStack DEF StackAsk
  <2> QED  BY <1>7, <2>1 DEF Base
<1>8. CASE StackPop
  <2>1. Len(frames) = 2 /\ frames'[1] = frames[1]
    BY <1>1, <1>8, PopFallback DEF StackPop
  <2> QED  BY <2>1 DEF Base
<1> QED  BY <1>2, <1>3, <1>4, <1>5, <1>6, <1>7, <1>8, AnyMoves DEF StackMove

\* When the follow-up is sent.
AskDue(why) ==
    /\ Ask(why) /\ ~ceiling /\ GatesSame /\ op' = op
    /\ \/ pc = "timeout" /\ why = "timeout"
       \/ pc = "returned" /\ Base = "main" /\ why = "limit" /\ terminal = "limit"
       \/ pc = "returned" /\ Base = "main" /\ why = "cost" /\ terminal = "ok" /\ crossed

\* A step that sends neither the fallback nor the follow-up.
NeitherAsked ==
    /\ prompts'.followup = prompts.followup /\ prompts'.fallback = prompts.fallback
    /\ followup'.why = followup.why

\* Only the fallback and the follow-up send a prompt that is not a wake-up.
LEMMA PromptSteps ==
  ASSUME SessionShapes, [SessionNext]_sessionVars
  PROVE  \/ NeitherAsked
         \/ FallbackQuery
         \/ \E why \in {"timeout", "limit", "cost"} : AskDue(why)
<1>0. ASSUME NEW result, Return(result)  PROVE followup'.why = followup.why
  BY <1>0 DEF SessionShapes, Return
<1>a. prompts \in PromptType
  BY DEF SessionShapes
<1>1. CASE DriverStep
  <2>1. CASE AfterTimeout
    BY <2>1 DEF AfterTimeout, AskDue, gates, GatesSame, NeitherAsked
  <2>2. CASE AfterLoop
    BY <2>2 DEF AfterLoop, AskDue, gates, GatesSame, NeedsCostFollowup, NeitherAsked
  <2>3. CASE StopTasks
    BY <1>0, <1>a, <2>3 DEF StopTasks, WakeUp, NeitherAsked, PromptType
  <2> QED  BY <1>0, <1>1, <2>1, <2>2, <2>3 DEF DriverStep, Expire, ExpireReturn, Fallback, Wait, Boundary,
              CeilingReturn, AfterFollowup, NeitherAsked
<1>2. CASE MessageStep
  BY <1>0, <1>a, <1>2 DEF MessageStep, AssistantMessage, TaskStarted, TaskFinished,
     CompactBoundary, StreamEnds, WakeUp, ResultMessage, NeitherAsked, PromptType
<1>3. CASE HookStep
  BY <1>3, HookFrame DEF NeitherAsked
<1>4. CASE ModelTimeout \/ FollowupTimeout \/ ClientFails \/ Compaction \/ OperatorAsks
           \/ OperatorWithdraws \/ ClockTick \/ UNCHANGED sessionVars
  BY <1>4 DEF ModelTimeout, FollowupTimeout, ClientFails, Compaction, OperatorAsks,
     OperatorWithdraws, ClockTick, sessionVars, Finish, driver, NeitherAsked
<1> QED  BY <1>1, <1>2, <1>3, <1>4 DEF SessionNext, Done

\* The hard ceiling is found while a message is read, and the loop goes there.
LEMMA CeilingSteps ==
  ASSUME SessionShapes, [SessionNext]_sessionVars, ceiling' # ceiling
  PROVE  pc = "wait" /\ pc' = "ceiling"
<1>1. ASSUME NEW reading \in scene.readings, AssistantMessage(reading)
      PROVE  pc = "wait" /\ pc' = "ceiling"
  BY <1>1 DEF AssistantMessage, Reading, Onward, SessionShapes
<1>2. ASSUME NEW th \in Threads, NEW end \in Ends, NEW landed \in BOOLEAN,
             PostToolUse(th, end, landed)
      PROVE  ceiling' = ceiling
  BY <1>2 DEF PostToolUse
<1>3. ASSUME NEW th \in Threads, NEW tool \in Tools, PreToolUse(th, tool)
      PROVE  ceiling' = ceiling
  BY <1>3 DEF PreToolUse
<1> QED  BY <1>1, <1>2, <1>3, GateSteps DEF GatesSame, CompactBoundary

\* Past the hard ceiling a loop goes on only where a fallback failed.
LEMMA CeilingStays ==
  ASSUME SessionShapes, Stack, Prompted, [SessionNext]_sessionVars, ceiling
  PROVE  pc' \in {"ceiling", "timeout", "returned", "done"} \/ op'.fallback
<1>0. CASE op.fallback
  BY <1>0, OpMoves DEF OpMove
<1>1. CASE ~op.fallback
  <2>0. pc \in {"ceiling", "timeout", "returned", "done"} /\ Len(frames) # 2
    BY <1>1 DEF Prompted, Stack
  <2>4. Top.kind # "fallback" \/ ~InLoop
    <3>1. ASSUME InLoop  PROVE Top.kind # "fallback"
      <4>1. Len(frames) = 1 /\ SoundStack(frames)
        BY <2>0, <3>1, InsideLoop
      <4>2. frames[1].kind # "fallback"
        BY <4>1 DEF SoundStack
      <4> QED  BY <4>1, <4>2 DEF Top
    <3> QED  BY <3>1
  <2>1. pc' \in {"ceiling", "timeout", "returned", "done"}
    <3>1. CASE DriverStep
      BY <3>1, <2>0, <2>4 DEF DriverStep, Expire, ExpireReturn, Fallback,
         FallbackQuery, StopTasks, WakeUp, Wait, Boundary, AfterTimeout, AfterLoop,
         AfterFollowup, CeilingReturn, Return, Ask, Finish, Reading, NeedsCostFollowup,
         InLoop
    <3>2. CASE MessageStep
      BY <3>2, <2>0, <2>4 DEF MessageStep, AssistantMessage, TaskStarted, TaskFinished,
         CompactBoundary, StreamEnds, WakeUp, ResultMessage, Return, Onward, Reading,
         NeedsCostFollowup, InLoop
    <3>3. CASE HookStep
      BY <3>3, HookFrame, <2>0, <2>4 DEF Reading, NeedsCostFollowup, InLoop
    <3>4. CASE ModelTimeout \/ FollowupTimeout \/ ClientFails \/ Compaction \/ OperatorAsks
               \/ OperatorWithdraws \/ ClockTick \/ UNCHANGED sessionVars
      BY <3>4, <2>0, <2>4 DEF ModelTimeout, FollowupTimeout, ClientFails, Compaction,
         OperatorAsks, OperatorWithdraws, ClockTick, sessionVars, Finish, driver, Reading,
         NeedsCostFollowup, InLoop
    <3> QED  BY <3>1, <3>2, <3>3, <3>4 DEF SessionNext, Done
  <2> QED  BY <2>1
<1> QED  BY <1>0, <1>1

\* The timeout place is reached by MODEL_TIMEOUT only.
LEMMA TimeoutEntered ==
  ASSUME SessionShapes, [SessionNext]_sessionVars, pc' = "timeout", pc # "timeout"
  PROVE  ModelTimeout
<1>1. CASE DriverStep
  BY <1>1 DEF DriverStep, Expire, ExpireReturn, Fallback, FallbackQuery, StopTasks,
     WakeUp, Wait, Boundary, AfterTimeout, AfterLoop, AfterFollowup, CeilingReturn,
     Return, Ask, Finish
<1>2. CASE MessageStep
  BY <1>2 DEF MessageStep, AssistantMessage, TaskStarted, TaskFinished,
     CompactBoundary, StreamEnds, WakeUp, ResultMessage, Return, Onward
<1>3. CASE HookStep
  BY <1>3, HookFrame
<1>4. CASE ModelTimeout \/ FollowupTimeout \/ ClientFails \/ Compaction \/ OperatorAsks
           \/ OperatorWithdraws \/ ClockTick \/ UNCHANGED sessionVars
  BY <1>4 DEF FollowupTimeout, ClientFails, Compaction, OperatorAsks,
     OperatorWithdraws, ClockTick, sessionVars, Finish, driver
<1> QED  BY <1>1, <1>2, <1>3, <1>4 DEF SessionNext, Done

\* That each is sent at most once is inductive.
LEMMA PromptedKept ==
  ASSUME SessionShapes, Stack, Prompted, [SessionNext]_sessionVars
  PROVE  Prompted'
<1>0. prompts \in PromptType
  BY DEF SessionShapes
<1>a. FallbackQuery =>
        /\ pc = "query" /\ pc' = "check" /\ op' = op /\ followup' = followup
        /\ prompts'.followup = prompts.followup /\ prompts'.fallback = prompts.fallback + 1
  BY <1>0 DEF FallbackQuery, PromptType
<1>b. ASSUME NEW why \in {"timeout", "limit", "cost"}, AskDue(why)
      PROVE  /\ pc' = "check" /\ op' = op /\ frames' = <<Frame("followup")>>
             /\ prompts.followup = 0 /\ prompts'.followup = 1
             /\ prompts'.fallback = prompts.fallback
  <2>1. pc = "returned" => Len(frames) = 1
    BY DEF Stack
  <2>2. prompts.followup = 0
    BY SMTT(30), <1>b, <2>1 DEF Prompted, AskDue
  <2> QED  BY <1>0, <1>b, <2>2 DEF AskDue, Ask, PromptType
<1>1. /\ prompts'.followup <= 1 /\ prompts'.fallback <= 1
      /\ prompts'.fallback > 0 => op'.fallback
  <2>1. CASE NeitherAsked
    BY <2>1, OpMoves DEF NeitherAsked, Prompted, OpMove
  <2>2. CASE FallbackQuery
    BY <1>a, <2>2 DEF Prompted, Stack
  <2>3. ASSUME NEW why \in {"timeout", "limit", "cost"}, AskDue(why)
        PROVE  /\ prompts'.followup <= 1 /\ prompts'.fallback <= 1
               /\ prompts'.fallback > 0 => op'.fallback
    BY <1>b, <2>3 DEF Prompted
  <2> QED  BY <2>1, <2>2, <2>3, PromptSteps
<1>2. pc' = "query" => ~ceiling' /\ prompts'.fallback = 0
  <2>1. CASE pc' = "query" /\ pc = "query"
    BY <1>a, <1>b, <2>1, PromptSteps, CeilingSteps DEF Prompted, NeitherAsked
  <2>2. CASE pc' = "query" /\ pc # "query"
    <3>1. Fallback /\ ~ceiling
      BY <2>2, QueryEntered
    <3>2. ~op.fallback /\ prompts' = prompts /\ ceiling' = ceiling
      BY <3>1, OpFallback DEF Fallback, gates
    <3>3. prompts.fallback = 0
      BY <1>0, <3>2 DEF Prompted, PromptType
    <3> QED  BY <3>1, <3>2, <3>3
  <2> QED  BY <2>1, <2>2
<1>3. pc' = "timeout" \/ (Len(frames') >= 1 /\ Base' = "main") => prompts'.followup = 0
  <2>1. CASE pc' = "timeout"
    <3>1. CASE pc = "timeout"
      BY <1>a, <1>b, <2>1, <3>1, PromptSteps DEF Prompted, NeitherAsked
    <3>2. CASE pc # "timeout"
      <4>1. ModelTimeout
        BY <2>1, <3>2, TimeoutEntered
      <4>2. Len(frames) \in {1, 2} /\ Base = "main" /\ prompts' = prompts
        BY <4>1, InsideLoop DEF ModelTimeout
      <4>3. Len(frames) >= 1
        BY <4>2
      <4> QED  BY <4>2, <4>3 DEF Prompted
    <3> QED  BY <3>1, <3>2
  <2>2. CASE Len(frames') >= 1 /\ Base' = "main"
    <3>1. Len(frames) >= 1 /\ Base = "main"
      BY <2>2, BaseMoves DEF StackAsk
    <3>2. prompts.followup = 0
      BY <3>1 DEF Prompted
    <3>3. ASSUME NEW why \in {"timeout", "limit", "cost"}, AskDue(why)  PROVE FALSE
      <4>1. frames' = <<Frame("followup")>>
        BY <1>b, <3>3
      <4>2. frames'[1].kind = "followup"
        BY <4>1, FreshStack
      <4> QED  BY <2>2, <4>2 DEF Base
    <3> QED  BY <1>a, <3>2, <3>3, PromptSteps DEF NeitherAsked
  <2> QED  BY <2>1, <2>2
<1>5. ceiling' => pc' \in {"ceiling", "timeout", "returned", "done"} \/ op'.fallback
  BY CeilingSteps, CeilingStays
<1>6. pc' = "ceiling" => ceiling'
  <2>1. CASE pc = "ceiling"
    BY <2>1, GatesMove DEF Prompted, GatesGrow
  <2>2. CASE pc' = "ceiling" /\ pc # "ceiling"
    <3>1. CASE DriverStep
      BY <3>1, <2>2 DEF DriverStep, Expire, ExpireReturn, Fallback, FallbackQuery,
         StopTasks, WakeUp, Wait, Boundary, AfterTimeout, AfterLoop, AfterFollowup,
         CeilingReturn, Return, Ask, Finish, gates
    <3>2. CASE MessageStep
      <4>1. ASSUME NEW reading, AssistantMessage(reading)  PROVE ceiling'
        BY <2>2, <4>1 DEF AssistantMessage, Onward
      <4>2. ASSUME NEW t \in Tasks, TaskStarted(t) \/ TaskFinished(t)  PROVE ceiling'
        BY <2>2, <4>2 DEF TaskStarted, TaskFinished, Onward, gates
      <4>3. CASE CompactBoundary
        BY <2>2, <4>3 DEF CompactBoundary, Onward
      <4>4. ASSUME NEW result, ResultMessage(result)  PROVE FALSE
        BY <2>2, <4>4 DEF ResultMessage, Return
      <4>5. CASE StreamEnds
        BY <2>2, <4>5 DEF StreamEnds, WakeUp, Return
      <4> QED  BY <3>2, <4>1, <4>2, <4>3, <4>4, <4>5 DEF MessageStep
    <3>3. CASE HookStep
      BY <3>3, HookFrame, <2>2 DEF gates
    <3>4. CASE ModelTimeout \/ FollowupTimeout \/ ClientFails \/ Compaction \/ OperatorAsks
               \/ OperatorWithdraws \/ ClockTick \/ UNCHANGED sessionVars
      BY <3>4, <2>2 DEF ModelTimeout, FollowupTimeout, ClientFails, Compaction,
         OperatorAsks, OperatorWithdraws, ClockTick, sessionVars, Finish, driver, gates
    <3> QED  BY <3>1, <3>2, <3>3, <3>4 DEF SessionNext, Done
  <2> QED  BY <2>1, <2>2
<1> QED  BY <1>1, <1>2, <1>3, <1>5, <1>6 DEF Prompted

\* No step lets the loops send more wake-ups than the prompts allow.
LEMMA WakeUpsKept ==
  ASSUME SessionShapes, Stack, WakeUps, [SessionNext]_sessionVars
  PROVE  WakeUps'
<1>0. prompts \in PromptType /\ SoundStack(frames) /\ Len(frames) \in {0, 1, 2}
  <2>1. pc \in {"check", "wait", "expire", "query", "ceiling", "timeout", "returned", "done"}
    BY DEF SessionShapes
  <2>2. Len(frames) \in {0, 1, 2}
    BY <2>1 DEF Stack, InLoop
  <2> QED  BY <2>2, StackSound DEF SessionShapes
<1>1. /\ WakesLeft(1) \in {0, 1} /\ WakesLeft(2) \in {0, 1}
      /\ WakesLeft(1)' \in {0, 1} /\ WakesLeft(2)' \in {0, 1}
  BY DEF WakesLeft
<1>2. ASSUME prompts' = prompts, WakesLeft(1)' <= WakesLeft(1), WakesLeft(2)' <= WakesLeft(2)
      PROVE  WakeUps'
  BY <1>0, <1>1, <1>2 DEF WakeUps, PromptType
<1>3. CASE StackSame
  <2>1. WakesLeft(1)' <= WakesLeft(1) /\ WakesLeft(2)' <= WakesLeft(2)
    BY <1>3 DEF StackSame, WakesLeft, InLoop
  <2> QED  BY <1>2, <1>3, <2>1 DEF StackSame
<1>4. ASSUME NEW f \in FrameType, StackTop(f)  PROVE WakeUps'
  <2>1. /\ Len(frames) \in {1, 2} /\ Top = frames[Len(frames)] /\ InLoop /\ InLoop'
        /\ Len(frames') = Len(frames) /\ frames'[Len(frames)] = f
        /\ Len(frames) = 2 => frames'[1] = frames[1]
    BY <1>4, InsideLoop DEF StackTop, TopReplaced, Top
  <2>2. CASE TopQuiet(f)
    <3>1. WakesLeft(1)' <= WakesLeft(1) /\ WakesLeft(2)' <= WakesLeft(2)
      BY <2>1, <2>2 DEF TopQuiet, WakesLeft
    <3> QED  BY <1>2, <2>2, <3>1 DEF TopQuiet
  <2>3. CASE TopWakes(f)
    <3>1. WakesLeft(1)' + WakesLeft(2)' + 1 <= WakesLeft(1) + WakesLeft(2)
      BY <2>1, <2>3 DEF TopWakes, WakesLeft
    <3> QED  BY <1>0, <1>1, <2>3, <3>1 DEF TopWakes, WakeUps, PromptType
  <2> QED  BY <1>4, <2>2, <2>3 DEF StackTop
<1>5. CASE StackReturn \/ StackEnd
  <2>1. WakesLeft(1)' = 0 /\ WakesLeft(2)' = 0
    BY <1>5 DEF StackReturn, StackEnd, WakesLeft, InLoop
  <2> QED  BY <1>1, <1>2, <1>5, <2>1 DEF StackReturn, StackEnd
<1>6. CASE StackPush
  <2>1. Len(frames) = 1 /\ InLoop /\ InLoop'
    BY <1>6 DEF StackPush, Stack, InLoop
  <2>2. Len(frames') = 2 /\ frames'[1] = frames[1]
    BY <1>0, <1>6, <2>1, FrameFresh, PushFallback DEF StackPush
  <2>3. WakesLeft(1)' = WakesLeft(1) /\ WakesLeft(2) = 0
    BY <2>1, <2>2 DEF WakesLeft
  <2> QED  BY <1>0, <1>1, <1>6, <2>3 DEF StackPush, WakeUps, PromptType
<1>7. CASE StackAsk
  <2>1. ~InLoop /\ Len(frames') = 1
    BY <1>7, FreshStack DEF StackAsk, InLoop
  <2>2. WakesLeft(2)' = 0 /\ WakesLeft(1) = 0 /\ WakesLeft(2) = 0
    BY <2>1 DEF WakesLeft
  <2> QED  BY <1>0, <1>1, <1>7, <2>2 DEF StackAsk, WakeUps, PromptType
<1>8. CASE StackPop
  <2>1. Len(frames') = 1 /\ frames'[1] = frames[1] /\ InLoop
    BY <1>0, <1>8, PopFallback DEF StackPop
  <2>2. WakesLeft(1)' <= WakesLeft(1) /\ WakesLeft(2)' <= WakesLeft(2)
    BY <1>0, <1>1, <1>8, <2>1 DEF StackPop, WakesLeft
  <2> QED  BY <1>2, <1>8, <2>2 DEF StackPop
<1> QED  BY <1>3, <1>4, <1>5, <1>6, <1>7, <1>8, AnyMoves DEF StackMove

-----------------------------------------------------------------------------
(* Why the loops end *)

\* A session that is done stays as it is.
LEMMA DoneStays ==
  ASSUME [SessionNext]_sessionVars, pc = "done"
  PROVE  UNCHANGED sessionVars
<1>1. CASE DriverStep
  BY <1>1 DEF DriverStep, Expire, ExpireReturn, Fallback, FallbackQuery, StopTasks,
     WakeUp, Wait, Boundary, AfterTimeout, AfterLoop, AfterFollowup, CeilingReturn,
     Return, Ask, Finish, InLoop, Reading
<1>2. CASE MessageStep
  BY <1>2 DEF MessageStep, AssistantMessage, TaskStarted, TaskFinished,
     CompactBoundary, StreamEnds, WakeUp, ResultMessage, Return, Onward, InLoop, Reading
<1>3. CASE HookStep
  BY <1>3, HookFrame DEF InLoop, Reading
<1>4. CASE ModelTimeout \/ FollowupTimeout \/ ClientFails \/ Compaction \/ OperatorAsks
           \/ OperatorWithdraws \/ ClockTick \/ UNCHANGED sessionVars
  BY <1>4 DEF ModelTimeout, FollowupTimeout, ClientFails, Compaction, OperatorAsks,
     OperatorWithdraws, ClockTick, sessionVars, Finish, driver, InLoop, Reading
<1> QED  BY <1>1, <1>2, <1>3, <1>4 DEF SessionNext, Done

\* After the outermost loop: nothing moves, the follow-up is asked or the end.
LEMMA ReturnedSteps ==
  ASSUME SessionShapes, [SessionNext]_sessionVars, pc = "returned"
  PROVE  \/ /\ pc' = pc /\ frames' = frames /\ terminal' = terminal /\ task' = task
            /\ model' = model
         \/ \E why \in {"timeout", "limit", "cost"} : AskDue(why)
         \/ pc' = "done"
<1>1. CASE DriverStep
  <2>1. CASE AfterLoop
    BY <2>1 DEF AfterLoop, AskDue, gates, GatesSame, NeedsCostFollowup, Finish
  <2> QED  BY <1>1, <2>1 DEF DriverStep, Expire, ExpireReturn, Fallback, FallbackQuery,
          StopTasks, WakeUp, Wait, Boundary, AfterTimeout, AfterFollowup, CeilingReturn,
          Return, Finish
<1>2. CASE MessageStep
  BY <1>2 DEF Reading, MessageStep, AssistantMessage, TaskStarted, TaskFinished,
     CompactBoundary, StreamEnds, WakeUp, ResultMessage, Return, Onward
<1>3. CASE HookStep
  BY <1>3, HookFrame
<1>4. CASE ModelTimeout \/ FollowupTimeout \/ ClientFails \/ Compaction \/ OperatorAsks
           \/ OperatorWithdraws \/ ClockTick \/ UNCHANGED sessionVars
  BY <1>4 DEF InLoop, ModelTimeout, FollowupTimeout, ClientFails, Compaction,
     OperatorAsks, OperatorWithdraws, ClockTick, sessionVars, Finish, driver
<1> QED  BY <1>1, <1>2, <1>3, <1>4 DEF SessionNext, Done

\* Why the outermost loop ended is inductive.
LEMMA ReasonsKept ==
  ASSUME SessionShapes, Stack, Reasons, [SessionNext]_sessionVars
  PROVE  Reasons'
<1>1. op'.expired => pc' = "done" \/ (pc' = "returned" /\ (Base' = "main" => terminal' = None))
  <2>1. CASE ExpireReturn
    <3>1. InLoop /\ pc' = "returned" /\ Return(None)
      BY <2>1 DEF ExpireReturn, InLoop, Return
    <3>2. Base' = "main" => Base = "main"
      <4>1. Base \in {"main", "followup"}
        BY <3>1, InsideLoop
      <4>2. frames'[1].kind = Base
        BY <3>1, <4>1, FreshStack DEF Return
      <4> QED  BY <4>2 DEF Base
    <3> QED  BY <3>1, <3>2 DEF Return
  <2>2. CASE op.expired
    <3>1. CASE pc = "done"
      BY <3>1, DoneStays DEF sessionVars
    <3>2. CASE pc = "returned"
      <4>1. ASSUME NEW why \in {"timeout", "limit", "cost"}, AskDue(why)  PROVE FALSE
        BY <2>2, <3>2, <4>1 DEF AskDue, Reasons, None
      <4> QED  BY <2>2, <3>2, <4>1, ReturnedSteps DEF Reasons, Base
    <3> QED  BY <2>2, <3>1, <3>2 DEF Reasons
  <2> QED  BY <2>1, <2>2, OpMoves
<1>2. (Len(frames') >= 1 => (Base' = "main" <=> followup'.why = None))
  <2>1. ASSUME NEW why \in {"timeout", "limit", "cost"}, AskDue(why)
        PROVE  Base' = "followup" /\ followup'.why # None
    <3>1. frames' = <<Frame("followup")>> /\ followup'.why = why
      BY <2>1 DEF AskDue, Ask
    <3>2. frames'[1].kind = "followup"
      BY <3>1, FreshStack
    <3> QED  BY <3>1, <3>2 DEF Base, None
  <2>2. ASSUME StackAsk, ~(\E why \in {"timeout", "limit", "cost"} : AskDue(why))  PROVE FALSE
    <3>1. pc \in {"returned", "timeout"} /\ pc' = "check"
      BY <2>2 DEF StackAsk
    <3>3. CASE DriverStep
      BY <3>3, <2>2, <3>1 DEF DriverStep, Expire, ExpireReturn, Fallback,
         FallbackQuery, StopTasks, WakeUp, Wait, Boundary, AfterTimeout, AfterLoop,
         AfterFollowup, CeilingReturn, Return, Ask, Finish, Reading, InLoop, AskDue,
         NeedsCostFollowup, gates, GatesSame
    <3>4. CASE MessageStep
      BY <3>4, <2>2, <3>1 DEF MessageStep, AssistantMessage, TaskStarted, TaskFinished,
         CompactBoundary, StreamEnds, WakeUp, ResultMessage, Return, Onward, Reading,
         InLoop, AskDue, NeedsCostFollowup, gates, GatesSame
    <3>5. CASE HookStep
      BY <3>5, HookFrame, <2>2, <3>1 DEF Reading, InLoop, AskDue, NeedsCostFollowup,
         gates, GatesSame
    <3>6. CASE ModelTimeout \/ FollowupTimeout \/ ClientFails \/ Compaction \/ OperatorAsks
               \/ OperatorWithdraws \/ ClockTick \/ UNCHANGED sessionVars
      BY <3>6, <2>2, <3>1 DEF ModelTimeout, FollowupTimeout, ClientFails, Compaction,
         OperatorAsks, OperatorWithdraws, ClockTick, sessionVars, Finish, driver, Reading,
         InLoop, AskDue, NeedsCostFollowup, gates, GatesSame
    <3> QED  BY <3>3, <3>4, <3>5, <3>6 DEF SessionNext, Done
  <2>3. FallbackQuery => followup' = followup
    BY DEF FallbackQuery
  <2>4. CASE Len(frames') >= 1
    <3>1. (Len(frames) >= 1 /\ Base' = Base) \/ (StackAsk /\ Base' = "followup")
      BY <2>4, BaseMoves
    <3> QED  BY <2>1, <2>2, <2>3, <3>1, PromptSteps DEF Reasons, NeitherAsked
  <2> QED  BY <2>4

<1>3. pc' = "timeout" => followup'.why = None
  <2>1. CASE pc' = "timeout" /\ pc = "timeout"
    BY <2>1, PromptSteps DEF FallbackQuery, AskDue, Ask, Reasons, NeitherAsked
  <2>2. CASE pc' = "timeout" /\ pc # "timeout"
    <3>1. ModelTimeout
      BY <2>2, TimeoutEntered
    <3>2. Len(frames) \in {1, 2} /\ Base = "main" /\ followup' = followup
      BY <3>1, InsideLoop DEF ModelTimeout
    <3> QED  BY <3>2 DEF Reasons
  <2> QED  BY <2>1, <2>2
<1>4. /\ followup'.why = "limit" => terminal' = "limit"
      /\ followup'.why = "cost" => terminal' = "ok" /\ crossed'
  <2>1. ASSUME NEW why \in {"timeout", "limit", "cost"}, AskDue(why)
        PROVE  /\ followup'.why = "limit" => terminal' = "limit"
               /\ followup'.why = "cost" => terminal' = "ok" /\ crossed'
    BY <2>1 DEF AskDue, Ask, GatesSame
  <2>2. CASE followup'.why = followup.why /\ terminal' = terminal
    BY <2>2, GatesMove DEF Reasons, GatesGrow
  <2>3. CASE followup'.why = followup.why /\ terminal' # terminal
    <3>1. ASSUME NEW result, Return(result)  PROVE followup.why = None
      <4>1. StackMove /\ Base = "main"
        BY <2>3, <3>1, AnyMoves DEF Return
      <4>2. pc' = "returned" /\ frames' = <<Frame(Base)>>
        BY <3>1 DEF Return
      <4>3. Len(frames') = 1
        BY <4>2, StackStep DEF StackAfter
      <4>4. Base' = "main"
        BY <4>1, <4>2, FreshStack DEF Base
      <4>5. Len(frames) >= 1
        BY <4>3, <4>4, BaseMoves
      <4> QED  BY <4>1, <4>5 DEF Reasons
    <3>2. ASSUME NEW why \in Why \ {None}, Ask(why)  PROVE FALSE
      BY <2>3, <3>2 DEF Ask
    <3> QED  BY <2>3, <3>1, <3>2, ResultSteps DEF None
  <2>4. FallbackQuery => followup' = followup
    BY DEF FallbackQuery
  <2> QED  BY <2>1, <2>2, <2>3, <2>4, PromptSteps DEF NeitherAsked
<1>5. status' # None => pc' = "done"
  <2>1. CASE status' = status /\ pc = "done"
    BY <2>1, DoneStays DEF sessionVars
  <2> QED  BY <2>1, StatusSteps DEF Reasons, Finish
<1> QED  BY <1>1, <1>2, <1>3, <1>4, <1>5 DEF Reasons

-----------------------------------------------------------------------------
(* Background tasks *)

\* A step of the only frame replaces the outermost.
LEMMA OnlyFrame ==
  ASSUME SessionShapes, Len(frames) = 1, NEW f, frames' = WithTop(f)
  PROVE  frames'[1] = f /\ Top = frames[1]
<1>1. frames \in Seq(FrameType)
  BY DEF SessionShapes
<1> QED  BY <1>1 DEF WithTop, Top

\* While the outermost loop runs alone, its frame knows every running task.
LEMMA PendingStep ==
  ASSUME SessionShapes, Stack, [SessionNext]_sessionVars, InLoop, InLoop',
         Len(frames) = 1, Alive \subseteq frames[1].pending, ~op'.fallback
  PROVE  Alive' \subseteq frames'[1].pending
<1>1. Top \in FrameType /\ Top = frames[1]
  BY InsideLoop DEF Top
<1>2. task \in [Tasks -> {"new", "alive", "ended"}] /\ Alive = {t \in Tasks : task[t] = "alive"}
  BY DEF SessionShapes, Alive
<1>3. Alive' = {t \in Tasks : task'[t] = "alive"}
  BY DEF Alive
<1>4. CASE task' = task /\ frames' = frames
  BY <1>2, <1>3, <1>4
<1>5. ASSUME NEW f, f.pending = Top.pending, frames' = WithTop(f), task' = task
      PROVE  Alive' \subseteq frames'[1].pending
  BY <1>1, <1>2, <1>3, <1>5, OnlyFrame
<1>6. /\ Cancelled(Top).pending = Top.pending /\ Got(Top).pending = Top.pending
      /\ Got(Top) \in FrameType /\ Cancelled(Top) \in FrameType
  BY <1>1, CancelledFrame, GotFrame
<1>7. CASE DriverStep
  <2>1. CASE Expire \/ Fallback
    BY <1>5, <1>6, <2>1 DEF Expire, Fallback
  <2>2. CASE ExpireReturn \/ AfterTimeout \/ AfterLoop \/ AfterFollowup
             \/ (\E drained \in {None, "ok", "failed"} : CeilingReturn(drained))
    BY <2>2 DEF ExpireReturn, AfterTimeout, AfterLoop, AfterFollowup, CeilingReturn, Return, InLoop
  <2>3. CASE FallbackQuery
    BY <2>3, OpMoves DEF FallbackQuery, Stack, OpMove
  <2>4. CASE StopTasks
    <3> DEFINE f == [Cancelled(Top) EXCEPT !.pending = {}]
    <3>1. task' = Stopped(Top.pending)
      BY <2>4 DEF StopTasks
    <3>2. Alive' = {}
      BY <1>1, <1>2, <1>3, <3>1 DEF Stopped
    <3> QED  BY <3>2
  <2>5. CASE Wait
    <3>1. [Top EXCEPT !.waiting = TRUE].pending = Top.pending
      BY <1>1 DEF FrameType
    <3> QED  BY <1>5, <2>5, <3>1 DEF Wait
  <2>6. CASE Boundary
    BY <1>4, <2>6 DEF Boundary
  <2> QED  BY <1>7, <2>1, <2>2, <2>3, <2>4, <2>5, <2>6 DEF DriverStep
<1>8. CASE MessageStep
  <2>1. ASSUME NEW reading, AssistantMessage(reading)  PROVE Alive' \subseteq frames'[1].pending
    <3>1. [Got(Top) EXCEPT !.turn = @ \/ Top.deferred # None].pending = Top.pending
      BY <1>6 DEF FrameType
    <3> QED  BY <1>5, <2>1, <3>1 DEF AssistantMessage
  <2>2. ASSUME NEW t \in Tasks, TaskStarted(t)  PROVE Alive' \subseteq frames'[1].pending
    <3> DEFINE f == [Got(Top) EXCEPT !.pending = @ \cup {t}]
    <3>1. f.pending = Top.pending \cup {t}
      BY <1>6 DEF FrameType
    <3>2. frames' = WithTop(f) /\ task' = [task EXCEPT ![t] = "alive"]
      BY <2>2 DEF TaskStarted
    <3> HIDE DEF f
    <3>3. frames'[1] = f
      BY <3>2, OnlyFrame
    <3> QED  BY <1>1, <1>2, <1>3, <3>1, <3>2, <3>3
  <2>3. ASSUME NEW t \in Tasks, TaskFinished(t)  PROVE Alive' \subseteq frames'[1].pending
    <3> DEFINE f == [Got(Top) EXCEPT !.pending = @ \ {t}, !.finished = @ \cup {t}]
    <3>1. f.pending = Top.pending \ {t}
      BY <1>6 DEF FrameType
    <3>2. frames' = WithTop(f) /\ task' = [task EXCEPT ![t] = "ended"]
      BY <2>3 DEF TaskFinished
    <3> HIDE DEF f
    <3>3. frames'[1] = f
      BY <3>2, OnlyFrame
    <3> QED  BY <1>1, <1>2, <1>3, <3>1, <3>2, <3>3
  <2>4. CASE CompactBoundary
    BY <1>5, <1>6, <2>4 DEF CompactBoundary
  <2>5. CASE StreamEnds
    <3>1. WakeUp(Got(Top)) /\ task' = task
      BY <2>5 DEF StreamEnds, Return, InLoop
    <3>2. [Got(Top) EXCEPT !.woken = TRUE, !.open = TRUE].pending = Top.pending
      BY <1>6 DEF FrameType
    <3> QED  BY <1>5, <3>1, <3>2 DEF WakeUp
  <2>6. ASSUME NEW result, ResultMessage(result)  PROVE Alive' \subseteq frames'[1].pending
    <3> DEFINE f == [Got(Top) EXCEPT !.deferred = result, !.grace = IF @ = "off" THEN "on" ELSE @]
    <3>1. frames' = WithTop(f) /\ task' = task
      BY <2>6 DEF ResultMessage, Return, InLoop
    <3>2. f.pending = Top.pending
      BY <1>6 DEF FrameType
    <3> HIDE DEF f
    <3> QED  BY <1>5, <3>1, <3>2
  <2> QED  BY <1>8, <2>1, <2>2, <2>3, <2>4, <2>5, <2>6 DEF MessageStep
<1>9. CASE HookStep
  BY <1>4, <1>9, HookFrame
<1>10. CASE ModelTimeout \/ FollowupTimeout
  BY <1>10 DEF ModelTimeout, FollowupTimeout, Finish, InLoop
<1>11. CASE ClientFails
  <2>1. Top.kind # "fallback"
    BY <1>1 DEF Stack
  <2> QED  BY <1>4, <1>11, <2>1 DEF ClientFails, Finish, InLoop
<1>12. CASE Compaction \/ OperatorAsks \/ OperatorWithdraws \/ UNCHANGED sessionVars
  BY <1>4, <1>12 DEF Compaction, OperatorAsks, OperatorWithdraws, sessionVars, driver
<1>13. CASE ClockTick
  <2>1. [Top EXCEPT !.grace = "over"].pending = Top.pending
    BY <1>1 DEF FrameType
  <2> QED  BY <1>4, <1>5, <1>13, <2>1 DEF ClockTick
<1> QED  BY <1>7, <1>8, <1>9, <1>10, <1>11, <1>12, <1>13 DEF SessionNext, Done

\* A loop that returns a good result leaves no task behind.
LEMMA ReturnedClean ==
  ASSUME SessionShapes, Stack, Prompted, [SessionNext]_sessionVars, InLoop, pc' = "returned",
         Base = "main", Len(frames) = 1, Alive \subseteq frames[1].pending,
         terminal' = "ok", ~ceiling'
  PROVE  Alive' = {}
<1>1. Top = frames[1]
  BY DEF Top
<1>2. task \in [Tasks -> {"new", "alive", "ended"}] /\ Alive = {t \in Tasks : task[t] = "alive"}
  BY DEF SessionShapes, Alive
<1>3. Alive' = {t \in Tasks : task'[t] = "alive"}
  BY DEF Alive
<1>4. ASSUME task' = Stopped(Top.pending)  PROVE Alive' = {}
  BY <1>1, <1>2, <1>3, <1>4 DEF Stopped
<1>5. ASSUME Return(None)  PROVE FALSE
  BY <1>5 DEF Return, None
<1>6. CASE DriverStep
  <2>1. CASE StopTasks
    BY <1>4, <2>1 DEF StopTasks
  <2>2. ASSUME NEW drained, CeilingReturn(drained)  PROVE FALSE
    BY <2>2, GatesMove DEF CeilingReturn, Prompted, GatesGrow
  <2> QED  BY <1>5, <1>6, <2>1, <2>2 DEF InLoop, DriverStep, Expire, ExpireReturn,
          Fallback, FallbackQuery, Wait, Boundary, AfterTimeout, AfterLoop, AfterFollowup,
          Ask, Finish
<1>7. CASE MessageStep
  <2>1. ASSUME NEW result, ResultMessage(result)  PROVE Alive' = {}
    BY <1>4, <2>1 DEF ResultMessage
  <2> QED  BY <1>5, <1>7, <2>1 DEF MessageStep, AssistantMessage, TaskStarted, TaskFinished,
              CompactBoundary, StreamEnds, WakeUp, Onward
<1>8. CASE HookStep
  BY <1>8, HookFrame DEF InLoop
<1>9. CASE ModelTimeout \/ FollowupTimeout \/ ClientFails \/ Compaction \/ OperatorAsks
           \/ OperatorWithdraws \/ ClockTick \/ UNCHANGED sessionVars
  BY <1>9 DEF InLoop, ModelTimeout, FollowupTimeout, ClientFails, Compaction,
     OperatorAsks, OperatorWithdraws, ClockTick, sessionVars, Finish, driver
<1> QED  BY <1>6, <1>7, <1>8, <1>9 DEF SessionNext, Done

\* That only awaited tasks run is inductive.
LEMMA AwaitedKept ==
  ASSUME SessionShapes, Stack, Prompted, Awaited, [SessionNext]_sessionVars
  PROVE  Awaited'
<1>0. Stack' /\ SessionShapes'
  BY StackKept, ShapesKept
<1>1. ~op'.fallback => ~op.fallback
  BY OpMoves DEF OpMove
<1>2. ASSUME ~op'.fallback, Len(frames') >= 1, Base' = "main"
      PROVE  Base = "main" /\ Len(frames) = 1
  <2>1. Len(frames) >= 1 /\ Base = "main"
    BY <1>2, BaseMoves
  <2>2. SoundStack(frames) /\ Len(frames) # 2
    BY <1>1, <1>2, StackSound DEF Stack
  <2> QED  BY <2>1, <2>2, OneFrame
<1>3. ASSUME pc # "returned", Len(frames) = 1  PROVE InLoop
  <2>1. pc \in {"check", "wait", "expire", "query", "ceiling", "timeout", "returned", "done"}
    BY DEF SessionShapes
  <2> QED  BY <1>3, <2>1 DEF Stack, InLoop
<1>4. ASSUME pc = "returned", NEW why \in {"timeout", "limit", "cost"}, AskDue(why)
      PROVE  Base' = "followup"
  <2>1. frames' = <<Frame("followup")>>
    BY <1>4 DEF AskDue, Ask
  <2>2. frames'[1].kind = "followup"
    BY <2>1, FreshStack
  <2> QED  BY <2>2 DEF Base
<1>5. ASSUME ~op'.fallback, InLoop', Base' = "main"
      PROVE  Alive' \subseteq frames'[1].pending
  <2>1. Len(frames') >= 1
    BY <1>0, <1>5 DEF Stack
  <2>2. Base = "main" /\ Len(frames) = 1
    BY <1>2, <1>5, <2>1
  <2>3. pc # "returned"
    <3>1. ASSUME pc = "returned"  PROVE FALSE
      <4>1. pc' # "returned" /\ pc' # "done"
        BY <1>5 DEF InLoop
      <4> QED  BY <1>4, <1>5, <3>1, <4>1, ReturnedSteps
    <3> QED  BY <3>1
  <2>4. InLoop
    BY <1>3, <2>2, <2>3
  <2>5. Alive \subseteq frames[1].pending
    BY <1>1, <1>5, <2>2, <2>4 DEF Awaited
  <2> QED  BY <1>5, <2>2, <2>4, <2>5, PendingStep
<1>6. ASSUME ~op'.fallback, ~ceiling', pc' = "returned", Base' = "main", terminal' = "ok"
      PROVE  Alive' = {}
  <2>1. Len(frames') >= 1
    BY <1>0, <1>6 DEF Stack
  <2>2. Base = "main" /\ Len(frames) = 1
    BY <1>2, <1>6, <2>1
  <2>3. CASE pc = "returned"
    <3>1. task' = task /\ terminal' = terminal
      BY <1>4, <1>6, <2>3, ReturnedSteps
    <3>2. ~ceiling
      BY <1>6, GatesMove DEF GatesGrow
    <3>3. Alive = {}
      BY <1>1, <1>6, <2>2, <2>3, <3>1, <3>2 DEF Awaited
    <3> QED  BY <3>1, <3>3 DEF Alive
  <2>4. CASE pc # "returned"
    <3>1. InLoop
      BY <1>3, <2>2, <2>4
    <3>2. Alive \subseteq frames[1].pending
      BY <1>1, <1>6, <2>2, <3>1 DEF Awaited
    <3> QED  BY <1>6, <2>2, <3>1, <3>2, ReturnedClean
  <2> QED  BY <2>3, <2>4
<1> QED  BY <1>5, <1>6 DEF Awaited

-----------------------------------------------------------------------------
(* The instruction *)

KnowsSame == informed' = informed /\ again' = again /\ compacted' = compacted

\* What the model knows changes when it is told, in a compaction or where a loop ends.
LEMMA KnowsSteps ==
  ASSUME [SessionNext]_sessionVars
  PROVE  \/ KnowsSame \/ informed' \/ Compaction
         \/ pc' \in {"expire", "query", "timeout", "returned", "done"}
         \/ CompactBoundary
         \/ \E th \in Threads, end \in Ends, landed \in BOOLEAN : PostToolUse(th, end, landed)
<1>1. CASE DriverStep
  BY <1>1 DEF DriverStep, KnowsSame, gates, Expire, ExpireReturn, Fallback,
     FallbackQuery, StopTasks, WakeUp, Wait, Boundary, AfterTimeout, AfterLoop,
     AfterFollowup, CeilingReturn, Return, Ask, Finish
<1>2. CASE MessageStep
  BY <1>2 DEF MessageStep, KnowsSame, gates, AssistantMessage, TaskStarted,
     TaskFinished, StreamEnds, WakeUp, ResultMessage, Return, Onward
<1>3. CASE HookStep
  BY <1>3 DEF HookStep, PreToolUse, KnowsSame
<1>4. CASE ModelTimeout \/ FollowupTimeout \/ ClientFails \/ Compaction \/ OperatorAsks
           \/ OperatorWithdraws \/ ClockTick \/ UNCHANGED sessionVars
  BY <1>4 DEF KnowsSame, gates, ModelTimeout, FollowupTimeout, ClientFails,
     OperatorAsks, OperatorWithdraws, ClockTick, sessionVars, Finish, driver
<1> QED  BY <1>1, <1>2, <1>3, <1>4 DEF SessionNext, Done

\* A loop goes on where it was, with a new prompt, or after a failed fallback.
LEMMA LoopSteps ==
  ASSUME [SessionNext]_sessionVars, pc' \in {"check", "wait", "ceiling"}
  PROVE  \/ pc \in {"check", "wait", "ceiling"}
         \/ informed'
         \/ ClientFails /\ pc \in {"query", "expire"}
<1>1. CASE DriverStep
  BY <1>1 DEF DriverStep, Expire, ExpireReturn, Fallback, FallbackQuery, StopTasks,
     WakeUp, Wait, Boundary, AfterTimeout, AfterLoop, AfterFollowup, CeilingReturn,
     Return, Ask, Finish
<1>2. CASE MessageStep
  BY <1>2 DEF MessageStep, Reading, AssistantMessage, TaskStarted, TaskFinished,
     CompactBoundary, StreamEnds, WakeUp, ResultMessage, Return, Onward
<1>3. CASE HookStep
  BY <1>3, HookFrame
<1>4. CASE ClientFails
  BY <1>4 DEF ClientFails, InLoop
<1>5. CASE ModelTimeout \/ FollowupTimeout \/ Compaction \/ OperatorAsks
           \/ OperatorWithdraws \/ ClockTick \/ UNCHANGED sessionVars
  BY <1>5 DEF ModelTimeout, FollowupTimeout, Compaction, OperatorAsks,
     OperatorWithdraws, ClockTick, sessionVars, Finish, driver
<1> QED  BY <1>1, <1>2, <1>3, <1>4, <1>5 DEF SessionNext, Done

\* A crossing is told to the gate and to the model at once.
LEMMA ToldSteps ==
  ASSUME SessionShapes, [SessionNext]_sessionVars, told' # told
  PROVE  informed' /\ crossed /\ crossed'
<1>1. ASSUME NEW th \in Threads, NEW end \in Ends, NEW landed \in BOOLEAN,
             PostToolUse(th, end, landed)
      PROVE  informed' /\ crossed /\ crossed'
  <2>1. /\ told' = (told \/ (th = Main /\ crossed /\ ~told)) /\ crossed' = crossed
        /\ th = Main /\ crossed /\ ~told => informed'
    BY <1>1 DEF PostToolUse
  <2> QED  BY <2>1 DEF SessionShapes
<1>2. ASSUME NEW th \in Threads, NEW tool \in Tools, PreToolUse(th, tool)
      PROVE  FALSE
  BY <1>2 DEF PreToolUse
<1> QED  BY <1>1, <1>2, GateSteps DEF GatesSame, CompactBoundary, AssistantMessage

\* A gate that is closed without a new instruction was closed before.
LEMMA GatedBack ==
  ASSUME SessionShapes, Stack, Prompted, Instructed, [SessionNext]_sessionVars,
         Gated', ~informed'
  PROVE  Gated \/ (ClientFails /\ pc = "expire" /\ Len(frames) = 2)
<1>1. prompts'.fallback = prompts.fallback
  BY PromptSteps DEF FallbackQuery, AskDue, Ask, NeitherAsked
<1>2. ~Fallback
  <2>1. ASSUME Fallback  PROVE FALSE
    <3>1. op'.fallback /\ ~op.fallback
      BY <2>1, OpFallback
    <3> QED  BY <1>1, <3>1 DEF Gated, Prompted
  <2> QED  BY <2>1
<1>3. /\ ~noteSeen
      /\ op.fallback => prompts.fallback > 0
  BY <1>1, GatesMove, OpMoves DEF Gated, GatesGrow, OpMove
<1>4. (crossed /\ told) \/ (op.delivered /\ ~op.begun)
  <2>1. told' => told /\ crossed
    BY ToldSteps DEF Instructed
  <2>2. op'.delivered /\ ~op'.begun => op.delivered /\ ~op.begun
    BY <1>2, OpMoves DEF OpMove
  <2> QED  BY <2>1, <2>2 DEF Gated
<1>5. CASE pc \in {"check", "wait", "ceiling"}
  BY <1>3, <1>4, <1>5 DEF Gated
<1>6. CASE ClientFails /\ pc \in {"query", "expire"}
  <2>1. pc # "query"
    BY <1>3 DEF Prompted, Stack
  <2>2. Top.kind = "fallback"
    BY <1>6, <2>1 DEF ClientFails, Finish, Gated
  <2>3. Len(frames) = 2
    <3>1. Len(frames) \in {1, 2} /\ SoundStack(frames)
      BY <1>6, InsideLoop DEF ClientFails
    <3> QED  BY <2>2, <3>1 DEF Top, SoundStack
  <2> QED  BY <1>6, <2>1, <2>3
<1>7. pc' \in {"check", "wait", "ceiling"}
  BY DEF Gated
<1> QED  BY <1>5, <1>6, <1>7, LoopSteps

\* Past the deadline a loop only ends.
LEMMA DeadlineDue ==
  ASSUME SessionShapes, Reasons, DeadlinePassed, pc = "check"
  PROVE  Due(Polled(op)) = "expire"
<1>1. Polled(op) = op
  BY PollKeeps DEF PollKept, DeadlinePassed
<1>2. ~op.expired
  BY DEF Reasons
<1> QED  BY <1>1, <1>2 DEF Due, DeadlinePassed

\* At its next check a loop past the deadline goes on to its end, with an idle model.
LEMMA DeadlineSteps ==
  ASSUME SessionShapes, Reasons, [SessionNext]_sessionVars, DeadlinePassed, pc = "check"
  PROVE  pc' \notin {"wait", "ceiling"} /\ model' = "idle"
<1>0. Due(Polled(op)) = "expire" /\ model = "idle"
  BY DeadlineDue DEF DeadlinePassed
<1>1. CASE DriverStep
  BY <1>1, <1>0 DEF DriverStep, Expire, ExpireReturn, Fallback, FallbackQuery,
     StopTasks, WakeUp, Wait, Boundary, AfterTimeout, AfterLoop, AfterFollowup,
     CeilingReturn, Return, Ask, Finish, Reading, None, gates
<1>2. CASE MessageStep
  BY <1>2, <1>0 DEF MessageStep, AssistantMessage, TaskStarted, TaskFinished,
     CompactBoundary, StreamEnds, WakeUp, ResultMessage, Return, Onward, Reading, None,
     gates
<1>3. CASE HookStep
  BY <1>3, HookFrame, <1>0 DEF Reading, None, gates
<1>4. CASE ModelTimeout \/ FollowupTimeout \/ ClientFails \/ Compaction \/ OperatorAsks
           \/ OperatorWithdraws \/ ClockTick \/ UNCHANGED sessionVars
  BY <1>4, <1>0 DEF ModelTimeout, FollowupTimeout, ClientFails, Compaction,
     OperatorAsks, OperatorWithdraws, ClockTick, sessionVars, Finish, driver, Reading,
     None, gates
<1> QED  BY <1>1, <1>2, <1>3, <1>4 DEF SessionNext, Done

\* A deadline that passed stays passed while the model is idle.
LEMMA DeadlineStays ==
  ASSUME SessionShapes, [SessionNext]_sessionVars, DeadlinePassed, model' = "idle"
  PROVE  DeadlinePassed'
<1>1. op.latched \in 1..MaxRequests
  BY SceneAssumption DEF SessionShapes, OpType, DeadlinePassed
<1>2. op'.latched = op.latched /\ op'.delivered
  BY OpMoves DEF OpMove, DeadlinePassed
<1>3. age'[op.latched] = 2
  BY <1>1, AgeSteps DEF DeadlinePassed
<1> QED  BY <1>2, <1>3 DEF DeadlinePassed

\* The expiry is entered by the check of the deadline alone.
LEMMA ExpireSteps ==
  ASSUME [SessionNext]_sessionVars, pc' = "expire"
  PROVE  Expire \/ (pc = "expire" /\ model' = model)
<1>1. CASE DriverStep
  BY <1>1 DEF DriverStep, ExpireReturn, Fallback, FallbackQuery, StopTasks, WakeUp,
     Wait, Boundary, AfterTimeout, AfterLoop, AfterFollowup, CeilingReturn, Return, Ask,
     Finish, Reading
<1>2. CASE MessageStep
  BY <1>2 DEF MessageStep, AssistantMessage, TaskStarted, TaskFinished,
     CompactBoundary, StreamEnds, WakeUp, ResultMessage, Return, Onward, Reading
<1>3. CASE HookStep
  BY <1>3, HookFrame DEF Reading
<1>4. CASE ModelTimeout \/ FollowupTimeout \/ ClientFails \/ Compaction \/ OperatorAsks
           \/ OperatorWithdraws \/ ClockTick \/ UNCHANGED sessionVars
  BY <1>4 DEF ModelTimeout, FollowupTimeout, ClientFails, Compaction, OperatorAsks,
     OperatorWithdraws, ClockTick, sessionVars, Finish, driver, Reading
<1> QED  BY <1>1, <1>2, <1>3, <1>4 DEF SessionNext, Done

\* Where the instruction behind a closed gate is, is inductive.
LEMMA InstructedKept ==
  ASSUME SessionShapes, Stack, Prompted, Reasons, Instructed, [SessionNext]_sessionVars
  PROVE  Instructed'
<1>1. told' => crossed'
  BY ToldSteps, GatesMove DEF Instructed, GatesGrow
<1>2. pc' = "expire" /\ Len(frames') = 2 => DeadlinePassed'
  <2>1. ASSUME pc' = "expire", Len(frames') = 2, pc = "expire", model' = model
        PROVE  DeadlinePassed'
    <3>1. DeadlinePassed
      BY <2>1, StackStep DEF StackAfter, Instructed
    <3> QED  BY <2>1, <3>1, DeadlineStays DEF DeadlinePassed
  <2>2. ASSUME Expire, Len(frames') = 2  PROVE DeadlinePassed'
    <3>1. op.delivered /\ op.fallback
      BY <2>2, StackStep DEF StackAfter, Stack, Expire
    <3>2. op' = Polled(op) /\ Due(op') = "expire" /\ age' = age /\ model' = "idle"
      BY <2>2 DEF Expire, operator
    <3>3. op'.latched # 0 /\ age[op'.latched] = 2
      BY <3>2 DEF Due, None
    <3>4. op'.delivered
      BY <3>1, OpMoves DEF OpMove
    <3> QED  BY <3>2, <3>3, <3>4 DEF DeadlinePassed
  <2> QED  BY <2>1, <2>2, ExpireSteps
<1>3. ASSUME Gated'  PROVE Knows' \/ (pc' = "check" /\ DeadlinePassed')
  <2>0. pc' \in {"check", "wait", "ceiling"}
    BY <1>3 DEF Gated
  <2>1. CASE informed'
    BY <2>1 DEF Knows
  <2>2. CASE ~informed' /\ ClientFails /\ pc = "expire" /\ Len(frames) = 2
    <3>1. DeadlinePassed
      BY <2>2 DEF Instructed
    <3>2. model' = model /\ pc' = "check"
      BY <2>0, <2>2 DEF ClientFails, Finish
    <3> QED  BY <3>1, <3>2, DeadlineStays DEF DeadlinePassed
  <2>3. CASE ~informed' /\ Gated /\ pc = "check" /\ DeadlinePassed
    <3>1. pc' = "check" /\ model' = "idle"
      BY <2>0, <2>3, DeadlineSteps
    <3> QED  BY <2>3, <3>1, DeadlineStays
  <2>4. CASE ~informed' /\ Gated /\ Knows
    <3>1. CASE KnowsSame
      BY <2>4, <3>1 DEF Knows, KnowsSame
    <3>2. CASE Compaction
      BY <3>2 DEF Compaction, Knows
    <3>3. CASE CompactBoundary
      BY <2>4, <3>3 DEF CompactBoundary, Rearmed, Gated, Knows
    <3>4. ASSUME NEW th \in Threads, NEW end \in Ends, NEW landed \in BOOLEAN,
                 PostToolUse(th, end, landed)
          PROVE  Knows'
      <4> DEFINE o == Polled(AfterSkill(th, end))
                 seen == /\ crossed \/ op.delivered
                         /\ th = Main /\ end = "command" /\ landed
                 armed == IF seen /\ ~noteSeen THEN {} ELSE again
                 resent == {x \in armed : /\ th = Main /\ ~noteSeen /\ ~seen
                                          /\ x = "token" => crossed
                                          /\ x = "operator" => ~o.begun}
      <4>1. /\ noteSeen' = (noteSeen \/ seen) /\ again' = armed \ resent
            /\ resent # {} => informed' /\ compacted' = compacted
        BY <3>4 DEF PostToolUse
      <4>2. informed => informed'
        BY <3>4 DEF PostToolUse
      <4>3. ~seen
        BY <1>3, <4>1 DEF Gated
      <4>4. armed = again
        BY <4>3
      <4>5. compacted' = compacted
        BY <3>4 DEF PostToolUse
      <4> HIDE DEF resent, armed, seen
      <4>6. again' = again
        BY <2>4, <4>1, <4>4
      <4> QED  BY <2>4, <4>2, <4>5, <4>6 DEF Knows
    <3> QED  BY <2>0, <2>4, <3>1, <3>2, <3>3, <3>4, KnowsSteps
  <2> QED  BY <1>3, <2>1, <2>2, <2>3, <2>4, GatedBack DEF Instructed
<1> QED  BY <1>1, <1>2, <1>3 DEF Instructed

-----------------------------------------------------------------------------
(* The theorems *)

\* A session starts with no instruction due.
LEMMA SessionInvInit == SessionInit => SessionInv
<1> SUFFICES ASSUME SessionInit  PROVE SessionInv
  OBVIOUS
<1>1. /\ frames = <<Frame("main")>> /\ Len(frames) = 1 /\ frames[1].kind = "main"
      /\ frames \in Seq(FrameType) /\ Base = "main"
  <2>1. frames = <<Frame("main")>>
    BY DEF SessionInit
  <2>2. SoundStack(frames) /\ Len(frames) = 1 /\ frames[1].kind = "main"
    BY <2>1, FreshStack
  <2> QED  BY <2>1, <2>2 DEF SoundStack, Base
<1>2. SessionShapes
  <2>1. scene \in SceneType
    BY SceneAssumption DEF SessionInit
  <2>2. op \in OpType /\ age \in [1..MaxRequests -> 0..2]
    BY SceneAssumption DEF SessionInit, OpType
  <2>3. followup \in [why : Why, result : Results \cup {None}]
    BY DEF SessionInit, Why
  <2>4. task \in [Tasks -> {"new", "alive", "ended"}]
    BY DEF SessionInit
  <2>5. offer \in 0..MaxRequests /\ asked \in 0..MaxRequests
    BY SceneAssumption DEF SessionInit
  <2>6. prompts \in PromptType
    BY DEF SessionInit, PromptType
  <2> QED  BY <1>1, <2>1, <2>2, <2>3, <2>4, <2>5, <2>6 DEF SessionInit, SessionShapes
<1>3. Stack
  BY <1>1 DEF SessionInit, Stack, InLoop
<1>4. Pinned
  BY DEF SessionInit, Pinned
<1>5. Prompted
  BY DEF SessionInit, Prompted
<1>a. WakeUps
  <2>1. WakesLeft(1) \in {0, 1} /\ WakesLeft(2) = 0
    BY <1>1 DEF WakesLeft
  <2>2. prompts.wakeup = 0 /\ prompts.followup = 0 /\ prompts.fallback = 0
    BY DEF SessionInit
  <2> QED  BY <2>1, <2>2 DEF WakeUps
<1>6. Alive = {}
  BY DEF SessionInit, Alive
<1>7. Awaited
  BY <1>6 DEF SessionInit, Awaited
<1>8. Reasons
  BY <1>1 DEF SessionInit, Reasons, None
<1>9. Instructed
  BY DEF SessionInit, Instructed, Gated
<1> QED  BY <1>2, <1>3, <1>4, <1>5, <1>a, <1>7, <1>8, <1>9 DEF SessionInv

\* The inductive invariant of a session: the stack of loops, the pinned
\* request, which prompts were sent and may still be, which tasks are awaited,
\* why a loop ended and where the instruction behind a closed gate is.
THEOREM SessionInvariant == SessionSpec => []SessionInv
<1>1. SessionInv /\ [SessionNext]_sessionVars => SessionInv'
  <2> SUFFICES ASSUME SessionInv, [SessionNext]_sessionVars  PROVE SessionInv'
    OBVIOUS
  <2>1. /\ SessionShapes /\ Stack /\ Pinned /\ Prompted /\ WakeUps /\ Awaited
        /\ Reasons /\ Instructed
    BY DEF SessionInv
  <2>2. SessionShapes' /\ Stack'
    BY <2>1, ShapesKept, StackKept
  <2>3. Pinned' /\ Prompted' /\ WakeUps' /\ Reasons'
    BY <2>1, PinnedKept, PromptedKept, WakeUpsKept, ReasonsKept
  <2>4. Awaited' /\ Instructed'
    BY <2>1, AwaitedKept, InstructedKept
  <2> QED  BY <2>2, <2>3, <2>4 DEF SessionInv
<1> QED  BY SessionInvInit, <1>1, PTL DEF SessionSpec

\* The stack of loops and the executor's fields keep their shapes for every
\* set of tasks, and at most the fallback runs inside another loop
\* (_receive_terminal).
THEOREM SessionTypeHolds == SessionSpec => []SessionTypeOK
<1>1. ASSUME SessionInv  PROVE SessionTypeOK
  <2>1. SessionShapes /\ Stack
    BY <1>1 DEF SessionInv
  <2>2. SoundStack(frames)
    BY <2>1, StackSound
  <2>3. frames \in Seq(FrameType) /\ Len(frames) <= 2 /\ Len(frames) \in Nat
    BY <2>2, LenProperties DEF SoundStack
  <2>4. ASSUME NEW i \in DOMAIN frames
        PROVE  frames[i] \in FrameType /\ (frames[i].kind = "fallback" <=> i = 2)
    <3>1. i \in 1..Len(frames)
      BY <2>3
    <3>2. frames[i] \in FrameType
      BY <2>3, <3>1
    <3>3. CASE i = 1
      BY <2>2, <3>1, <3>2, <3>3 DEF SoundStack
    <3>4. CASE i = 2
      <4>1. Len(frames) = 2
        <5> DEFINE n == Len(frames)
        <5>1. n \in Nat /\ n <= 2 /\ 2 \in 1..n
          BY <2>3, <3>1, <3>4
        <5> HIDE DEF n
        <5>2. n = 2
          BY <5>1
        <5> QED  BY <5>2 DEF n
      <4> QED  BY <2>2, <3>2, <3>4, <4>1 DEF SoundStack
    <3>5. i = 1 \/ i = 2
      <4> DEFINE n == Len(frames)
      <4>1. n \in Nat /\ n <= 2 /\ i \in 1..n
        BY <2>3, <3>1
      <4> HIDE DEF n
      <4> QED  BY <4>1
    <3> QED  BY <3>2, <3>3, <3>4, <3>5
  <2> QED  BY <2>1, <2>3, <2>4 DEF SessionShapes, SessionTypeOK, OpType, PromptType
<1> QED  BY SessionInvariant, <1>1, PTL

\* A model under a closed gate knows why, whatever compactions, replaced
\* requests, failing fallbacks and background tasks come in between
\* (_arm_handoff_reinject_after_compaction, _record_post_tool_use).
THEOREM InstructionSurvivesHolds == SessionSpec => []InstructionSurvives
<1>1. ASSUME SessionInv  PROVE InstructionSurvives
  BY <1>1 DEF SessionInv, Instructed, Gated, Knows, DeadlinePassed, InstructionSurvives
<1> QED  BY SessionInvariant, <1>1, PTL

\* One execution serves one request, for any number of replacements
\* (_poll_operator_handoff).
THEOREM OneRequestServedHolds == SessionSpec => []OneRequestServed
<1>1. SessionInv => OneRequestServed
  BY DEF SessionInv, Pinned, OneRequestServed
<1> QED  BY SessionInvariant, <1>1, PTL

\* A session that needed a follow-up is no success without one.
LEMMA FollowupFails ==
  ASSUME SessionShapes, Reasons, followup.why # None
  PROVE  WithoutFollowup # "SUCCEEDED"
<1>1. followup.why \in {"limit", "cost", "timeout"}
  BY DEF SessionShapes, Why
<1>2. CASE followup.why = "timeout"
  BY <1>2 DEF WithoutFollowup
<1>3. CASE followup.why = "limit"
  <2>1. terminal = "limit"
    BY <1>3 DEF Reasons
  <2> QED  BY <1>3, <2>1 DEF WithoutFollowup, Classify
<1>4. CASE followup.why = "cost"
  <2>1. terminal = "ok" /\ crossed
    BY <1>4 DEF Reasons
  <2> QED  BY <1>4, <2>1 DEF WithoutFollowup, Classify
<1> QED  BY <1>1, <1>2, <1>3, <1>4

\* Only the outermost loop ends in a success.
LEMMA SuccessSteps ==
  ASSUME SessionInv, [SessionNext]_sessionVars, status' = "SUCCEEDED", status' # status
  PROVE  AfterLoop /\ Classify(terminal) = "SUCCEEDED" /\ ~(terminal = None /\ ~ceiling)
<1>0. SessionShapes /\ Reasons /\ Stack
  BY DEF SessionInv
<1>1. ASSUME NEW s, Finish(s)  PROVE s = "SUCCEEDED"
  BY <1>1 DEF Finish
<1>2. ASSUME Base = "followup", Len(frames) >= 1  PROVE WithoutFollowup # "SUCCEEDED"
  BY <1>0, <1>2, FollowupFails DEF Reasons
<1>3. CASE DriverStep
  <2>1. CASE AfterTimeout
    <3>1. Finish(IF ceiling THEN "MODEL_LIMIT_REACHED" ELSE "INFRASTRUCTURE_ERROR")
      BY <2>1 DEF AfterTimeout, Ask
    <3> QED  BY <1>1, <3>1
  <2>2. CASE AfterLoop
    <3>1. Finish(IF terminal = None /\ ~ceiling THEN NoResult ELSE Classify(terminal))
      BY <2>2 DEF AfterLoop, Ask
    <3> QED  BY <1>1, <2>2, <3>1 DEF NoResult
  <2>3. CASE AfterFollowup
    <3>1. WithoutFollowup # "SUCCEEDED"
      BY <1>0, <1>2, <2>3 DEF AfterFollowup, Stack
    <3> QED  BY <1>1, <2>3, <3>1 DEF AfterFollowup
  <2> QED  BY <1>3, <2>1, <2>2, <2>3 DEF DriverStep, Expire, ExpireReturn, Fallback,
              FallbackQuery, StopTasks, WakeUp, Wait, Boundary, CeilingReturn, Return
<1>4. CASE MessageStep
  BY <1>4 DEF MessageStep, AssistantMessage, TaskStarted, TaskFinished,
     CompactBoundary, StreamEnds, WakeUp, ResultMessage, Return, Onward
<1>5. CASE HookStep
  BY <1>5, HookFrame
<1>6. CASE FollowupTimeout
  <2>1. WithoutFollowup # "SUCCEEDED"
    BY <1>0, <1>2, <1>6, InsideLoop DEF FollowupTimeout
  <2> QED  BY <1>1, <1>6, <2>1 DEF FollowupTimeout
<1>7. CASE ClientFails
  <2>1. Base = "followup" => WithoutFollowup # "SUCCEEDED"
    BY <1>0, <1>2, <1>7, InsideLoop DEF ClientFails
  <2> QED  BY <1>1, <1>7, <2>1 DEF ClientFails
<1>8. CASE ModelTimeout \/ Compaction \/ OperatorAsks \/ OperatorWithdraws \/ ClockTick
           \/ UNCHANGED sessionVars
  BY <1>8 DEF ModelTimeout, Compaction, OperatorAsks, OperatorWithdraws, ClockTick,
     sessionVars, driver
<1> QED  BY <1>3, <1>4, <1>5, <1>6, <1>7, <1>8 DEF SessionNext, Done

\* SUCCEEDED means that nothing stopped the work: no limit, no passed deadline
\* and no background worker left behind (_classify, _receive_terminal).
THEOREM CleanSuccessHolds == SessionSpec => []CleanSuccess
<1>1. ASSUME SessionInv, CleanSuccess, [SessionNext]_sessionVars, status' = "SUCCEEDED"
      PROVE  ~crossed' /\ ~ceiling' /\ ~op'.expired /\ (Alive' = {} \/ op'.fallback)
  <2>0. SessionShapes /\ Stack /\ Awaited /\ Reasons
    BY <1>1 DEF SessionInv
  <2>1. CASE status' = status
    <3>1. pc = "done"
      BY <1>1, <2>0, <2>1 DEF Reasons, None
    <3>2. UNCHANGED sessionVars
      BY <1>1, <3>1, DoneStays
    <3>3. Alive' = Alive
      BY <3>2 DEF sessionVars, Alive
    <3> QED  BY <1>1, <3>2, <3>3 DEF sessionVars, CleanSuccess
  <2>2. CASE status' # status
    <3>1. AfterLoop /\ Classify(terminal) = "SUCCEEDED" /\ ~(terminal = None /\ ~ceiling)
      BY <1>1, <2>2, SuccessSteps
    <3>2. /\ pc = "returned" /\ Base = "main"
          /\ op' = op /\ task' = task /\ crossed' = crossed /\ ceiling' = ceiling
      BY <3>1 DEF AfterLoop, gates
    <3>3. ~ceiling /\ terminal # "limit" /\ terminal # "failed" /\ ~(crossed /\ terminal = "ok")
      BY <3>1 DEF Classify
    <3>4. terminal = "ok"
      BY <2>0, <3>1, <3>3 DEF SessionShapes, Results
    <3>5. Alive = {} \/ op.fallback
      BY <2>0, <3>2, <3>3, <3>4 DEF Awaited
    <3>6. ~op.expired
      BY <2>0, <3>2, <3>4 DEF Reasons, None
    <3>7. Alive' = Alive
      BY <3>2 DEF Alive
    <3> QED  BY <3>2, <3>3, <3>4, <3>5, <3>6, <3>7
  <2> QED  BY <2>1, <2>2
<1>2. SessionInit => CleanSuccess
  BY DEF SessionInit, CleanSuccess, None
<1>3. SessionInv /\ CleanSuccess /\ [SessionNext]_sessionVars => CleanSuccess'
  BY <1>1 DEF CleanSuccess
<1> QED  BY SessionInvariant, <1>2, <1>3, PTL DEF SessionSpec

\* One execution sends at most one follow-up, one fallback and one wake-up per
\* loop, and past the hard ceiling none but a wake-up after the fallback
\* (_attempt_handoff_followup, _run_operator_fallback,
\* _maybe_background_followup, _hard_ceiling_evidence).
THEOREM PromptsBoundedHolds == SessionSpec => PromptsBounded
<1> DEFINE Bounded ==
             /\ prompts'.followup <= 1 /\ prompts'.fallback <= 1
             /\ prompts'.wakeup <= 1 + prompts'.followup + prompts'.fallback
             /\ ceiling => /\ prompts'.followup = prompts.followup
                           /\ prompts'.fallback = prompts.fallback
                           /\ prompts'.wakeup = prompts.wakeup \/ op.fallback
<1>1. ASSUME SessionInv, [SessionNext]_sessionVars  PROVE Bounded
  <2>0. SessionShapes /\ Stack /\ Prompted /\ WakeUps
    BY <1>1 DEF SessionInv
  <2>1. SessionShapes' /\ Prompted' /\ WakeUps'
    BY <1>1, <2>0, ShapesKept, PromptedKept, WakeUpsKept
  <2>2. prompts'.followup <= 1 /\ prompts'.fallback <= 1
    BY <2>1 DEF Prompted
  <2>3. prompts'.wakeup <= 1 + prompts'.followup + prompts'.fallback
    <3>1. WakesLeft(1)' \in {0, 1} /\ WakesLeft(2)' \in {0, 1}
      BY DEF WakesLeft
    <3>2. prompts' \in PromptType
      BY <2>1 DEF SessionShapes
    <3> QED  BY <2>1, <3>1, <3>2 DEF WakeUps, PromptType
  <2>4. ceiling => NeitherAsked
    BY <1>1, <2>0, PromptSteps DEF FallbackQuery, Prompted, AskDue
  <2>5. prompts'.wakeup = prompts.wakeup \/ pc \in {"check", "wait"}
    <3>1. prompts \in PromptType
      BY <2>0 DEF SessionShapes
    <3> QED
      BY <1>1, <2>0, <3>1, PromptMoves DEF PromptType
  <2> QED  BY <2>0, <2>2, <2>3, <2>4, <2>5 DEF NeitherAsked, Prompted
<1>2. SessionInv /\ [SessionNext]_sessionVars => [Bounded]_sessionVars
  BY <1>1
<1> QED  BY SessionInvariant, <1>2, PTL DEF SessionSpec, PromptsBounded
=============================================================================
