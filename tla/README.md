# A TLA+ verification project for simple-coding-agent

simple-coding-agent is a long-running Python process that takes issues from a
GitHub repository, lets a model work on one issue at a time, publishes the
result, and obeys an operator who talks to it over a Unix socket. Everything it
promises has to survive a container that may be killed at any point. This
directory models the parts that make those promises, checks them with TLC on
small instances, and proves the central ones with TLAPS.

## The system

| component | source (`src/simple_coding_agent/`) | state | operations |
|---|---|---|---|
| control store | `control.py` | SQLite: commands with acknowledgements, intake state, pending command, stop plan, priority, handoff, counted attempts | `submit_*`, `complete_*`, `fail_*`, `mark_handoff_*`, `record_attempt_finalized`, `enter_stopping_for_final_claim` |
| attempt lifecycle | `lifecycle.py`, `attempt_state.py`, `finalization.py`, `operating.py` | checkpoint file, completion ledger, error guard, in-process flags | `run_once`, `_gated_claim`, `_commit_finalization`, `_reconcile_startup`, `submit_recovery_*` |
| model session | `model_execution.py` | loops on the message stream, latched handoff, background workers, gates | `execute`, `_receive_terminal`, `_poll_operator_handoff`, `_classify`, the tool hooks |
| token ledger | `token_ledger.py`, `config.py` | responses per thread, estimates, reported usage, threshold | `observe_*`, `settle_*`, `_check_limits`, `reconcile` |
| result publication | `publication.py` | branch, pull request, result comment and shared handoff record on GitHub | `publish`, `publish_conflict` and the calls they make |
| claim protocol | `github_tracker.py`, `instance.py` | assignees and labels of the issues | claim, settle, back off, release |
| git workspace | `git_workspace.py`, `attempt_workspace.py` | working tree, branches | `prepare_attempt`, rebase, `seal`, abort, `cleanup`, `push_attempt_branch` |
| completion decision | `completion.py` | none | `evaluate` an outcome from evidence |
| conflict attempts | `conflict_attempt.py`, `lifecycle.py` | resolution budget | entry checks, rebase, check, one resolution session, publish |
| control socket and CLI | `control_server.py`, `agentctl.py`, `offline.py` | one thread per connection | parse a request, call the lifecycle, reply |
| contract adapter, telemetry, history | `contract_*.py`, `telemetry.py`, `attempt_history.py` | projections | read-only |
| process start | `__main__.py`, `halt.py`, `volume_lock.py`, `provenance.py` | halt record, lock file | boot order |

How they interact: the *engine loop* (`run_forever`) and the *threads of the
control socket* call the control store and read the checkpoint. They share one
re-entrant lock, which is held for a whole claim, for the acceptance of a
command and for each store transaction, and which is not held while the model
runs, while GitHub is called at the end of an attempt, or while a recovery
command executes. A running model polls the store for a handoff. One attempt is
a chain of separate programs' effects: the runner prepares a branch in the
clone, the model commits in it, the check runs in it, the publisher pushes it
and reports on GitHub, and after a crash startup recovery, or the operator's
`recovery retry` and `recovery release`, have to find out from branch,
checkpoint and note how far the chain got.

What is hard here:

* the durable state is spread over SQLite, three JSON files, a git tree and
  GitHub, and an attempt is finalized by about ten separate writes, with a
  possible crash between any two;
* commands arrive between any two steps and replace one another's plans;
* a decision is often read under the lock and applied after it was released
  (handoff checks, recovery commands);
* remote calls may take effect although their reply is lost, and the branch they
  change is shared with other Workers and rests on a base that moves;
* the model session is driven by three clocks and two conversations (operator
  and model) through a context that may be compacted at any time.

`PROJECT.json` lists these as hazards, each at its line.

## Modules

| module | role |
|---|---|
| `ControlStore` | the store: one action per transaction, with free callers (`StoreSpec`) |
| `MCControlStore` | its TLC instance |
| `ControlStoreProofs`, `CountdownProofs` | theorems about `StoreSpec` |
| `AttemptLife` | abstract specification: what the agent promises of its attempts |
| `Lifecycle` | extends `ControlStore` with the loop, the recovery thread, crashes and the operator |
| `MCLifecycle` | its TLC instances |
| `LifecycleProofs` | theorems about `LifeSpec`, on top of those about `StoreSpec` |
| `ClaimProtocol` | several workers and one GitHub repository: claims, results, releases, conflict requeues |
| `MCClaimProtocol` | its TLC instances |
| `ClaimProofs`, `ClaimBudgetProofs` | theorems about `ClaimSpec` |
| `ModelSession` | one model session: driver, hooks, operator, clock |
| `MCModelSession` | its TLC instance |
| `SessionProofs` | theorems about `SessionSpec` |
| `TokenLedger` | the token ledger and how the session feeds it |
| `MCTokenLedger` | its TLC instance |
| `TokenLedgerProofs` | theorems about `LedgerSpec` |
| `Publication` | the two publish paths, call by call |
| `AttemptRun` | extends `Publication` with the workspace, the runner, the conflict attempt, recovery, crashes and other Workers |
| `MCAttemptRun` | its TLC instances |
| `AttemptProofs` | theorems about `AttemptSpec` |

The modules meet where the code hands over: `Lifecycle` takes an attempt as a
few steps with a free outcome and looks at the order of the durable writes
around it; `AttemptRun` takes the end of an attempt as one step and looks at
what the attempt does to branch and GitHub; `ModelSession` is what happens
between `AttemptRun`'s `DispatchModel` and `ModelEnds`; `TokenLedger` decides
when `ModelSession`'s readings reach a limit; `ClaimProtocol` is the same end of
an attempt seen from several workers.

### ControlStore

`commands` is the command table; the rows of `control_state` are `intake`,
`pending`, `plan` (`stop_after_*`), `nextIssue`, `handoff`; `counted` is the
table of counted attempts. Every method of the class `ControlStore` that writes
is an action with the method's name in CamelCase. A method runs in one
`BEGIN IMMEDIATE` transaction, so an action is atomic. Calls that change
nothing (a repeated request id, a rejected command) are the stuttering steps of
the specification. `detail` texts, timestamps and sequence numbers are left out.
`active` and `hold` are what the caller knows: the attempt with a checkpoint,
and the recovery hold; `StoreSpec` leaves them free, so what holds of
`StoreSpec` holds for any caller.

### Lifecycle

`pc` is the loop's next durable step, `rpc` that of the recovery thread; `job`
and `rjob` hold their local variables (`prep`: the attempt is prepared, `ok`:
publication is confirmed, `exit`: an exception is on its way out). The
checkpoint, the ledger, the comments and releases on GitHub, the error guard
and the working tree are variables of their own, because each is written at a
different moment. `processing`, `recovering` and `executing` are
`_attempt_processing`, `_recovering` and `_recovery_executing`.

* `Crash` may happen between any two steps and keeps what is durable; `Boot`,
  `MarkStarted` and the `Reconcile*` actions are the way back up. An exception
  that leaves `run_once` (an ambiguous claim, an issue that is gone at startup)
  ends the process the same way.
* The working tree is abstracted to the attempt's committed note, whether its
  branch is checked out, and whether the tree is dirty.
* Outcomes are `success`, `incomplete`, `handoff`, `error`; `no_changes` is
  merged into `incomplete`. A session that raises is `ModelRaises`: its work is sealed, or
  stays in the tree when sealing fails too.
* `late` stands for the 360 s of a handoff; it may become true at any time
  after acceptance. The 120 s publication allowance is the free choice `slow`.
* One recovery thread at a time is modelled. `processing` forbids a second one
  to be accepted until the first has cleared its flags.
* `IdleRecovery = TRUE` is the operating procedure of the docs: recovery
  commands are sent when `status` shows a held attempt, so when the loop is
  idle. The run `startup_race` drops it.

### AttemptLife

At most one attempt is open; it is announced on its issue before the issue is
freed, freed before it is finished, and finished once. `Lifecycle` implements it
with `active` mapped to the attempt whose checkpoint exists and whose ledger
entry does not.

### ClaimProtocol

GitHub's fields of an issue are `assignees`, `markers` (the `claimed-by:*`
labels), `labels` (the four queue labels) and `comments` (the trusted results
and the versions of the shared handoff record, each with its attempt and how the
two budgets read it). `wpc` is the next call
of each worker, `job` its local variables, `ckpt` its checkpoint. Every read
that decides something and every write is an action, since nothing on GitHub is
atomic: `SelectIssue`, `AssignIssue`, `AddMarker`, `VerifyClaim` and the
`Yield*` actions are `claim_next`, `claim_verified`, `_verify_claim` and
`_yield_losing_claim`; `ClearFinished` to `StartAttempt` end the claim;
`PublishResult`, `RecordHandoff`, `NotifyHandoff`, `EscalateToHuman` and the
`Release*` actions are the end of an attempt; `DetectConflict` and `LabelConflict` are the conflict detector.
`Lifecycle` models one worker in depth and GitHub coarsely, this module the
reverse; they meet at the checkpoint.

* `pool` is the deployment: workers with one login and `WORKER_ID` markers, or
  workers with logins of their own listed in `PEER_LOGINS`. Pools that mix the
  two are not modelled.
* The worker may die between any two calls. A claim without a checkpoint is
  then left for a human (`abandoned`), as the docs say.
* Time is not modelled: a worker may be arbitrarily slow. `stalled` records
  that a peer's calls outlasted the settle delay of another claimant; only
  `ContinuationBudget` needs it, because the budget is read before the claim.
* The shared handoff record is one comment that is edited in place. Each edit is
  an entry with `shared` set, which carries the continuation count the writer
  found (`standing`); `SharedRecord` is the newest one. In verbose mode the
  result comment comes first and the record after it, in link mode the record
  first and a comment only if the budget is used up. The intent is in the
  checkpoint before the record is written, the write may fail, and a record of a
  newer attempt stays; in both cases the handoff is told by its comment and the
  attempt is held.
* `AutomaticCount` is what the code computes from the record and the results
  newer than it. `AutomaticRow`, the automatic attempts after the last human
  requeue, is the reference definition the budget is stated with.
* People add or remove `ready-for-agent` and `ready-for-human` and assign
  themselves; they do not touch the agent's markers or assignment.

### ModelSession

`frames` is the stack of running `_receive_terminal` calls: the main loop or the
one follow-up after a limit, and the operator's fallback prompt inside it. `op`
is the operator request as the executor latched it, `offer` the one the store
has now; `told`, `again`, `informed` and `compacted` follow the instruction to
hand off through the model's context (`informed` is a ghost). The driver's steps,
the messages it reads, the `PreToolUse` and `PostToolUse` hooks, the operator
and the clock are separate actions, because the hooks run between any two
messages.

* A tool call is its class (an ordinary command, a publication command, the
  handoff skill, the note's commit and so on), a result how `_classify` reads
  it, and the ledger only what its reading reaches.
* `prompts` counts what the session sent after its first prompt, by kind: a
  follow-up sent again after a failure counts twice, and `PromptsBounded` sees it.
* A scene fixes what one behaviour may meet: which workers start, how many
  requests come, whether the context is compacted, which limits are reached.
* The review gate of the stop hook is left out: it counts review calls and
  nudges once, and decides nothing else.

### TokenLedger

A response is counted as an estimate when its first message arrives; reports may
come before it, several times, or never. `reports` is a ghost with the greatest
report of each category. Four usage categories are two here because all four
are merged and added alike; characters per token are the constants `Output` and
`Growth`. Every change is followed by `CheckLimits`, as in
`_after_ledger_update`, unless the code has none there.

### Publication and AttemptRun

A revision is what a branch carries beyond the base: who committed (`old`,
`work`, `fix`, `other`), this attempt's note and the base the note cites, and
the base it rests on. Equal records are equal shas, so a rebase onto a moved
base changes the sha and leaves the note naming a commit that is gone.
`Publication` has one action per remote call, each of which may fail before it
is applied, or be applied without its reply; `faults` bounds these. `own` and
`history` are ghosts: the revisions this attempt put on origin, and all it had.

`AttemptRun` adds the runner's steps in the order of `ModelAttemptRunner.__call__`,
the conflict attempt in the order of `_execute_conflict_attempt` and
`_resolve_conflict_with_model`, and the ways back after a death:
`actor` says whether the attempt is with its runner, startup recovery, or the
operator's retry or release. The model commits, edits, writes a good or a bad
note, finishes a rebase well or with markers, leaves one unfinished, and ends as
it likes; checks and setup are free choices. `Evaluate` is
`CompletionEvaluator.evaluate`.

* A scene is the branch as the attempt finds it: new, published, or left in the
  clone; on its base or a moved one; and which commits clash with a moved base
  (`clashes`), so that the same rebase conflicts every time it is tried.
* Deadlines of a publication are failures of the next call.
* An exception of a conflict attempt makes the `except` clause of `run_once`
  publish an error (`RaisedRequest`); `req.raised` tells whether the attempt was
  prepared. That publication reads GitHub first, as every conflict publication
  does (`StampRaises`); when its reads raise too, the attempt goes on to cleanup
  with nothing told. Cleanup is skipped when nothing was prepared
  (`NothingPrepared`).
* `OtherPublishes` may come at any time, with or without a newer shared record.
* `OperatorRepairs` discards what holds the workspace, as the docs ask an
  operator to do before a restart.
* Release, accounting and settlement after the publication are one step
  (`FinishAttempt`); their order is the subject of `Lifecycle`.

## Runs

| run | checks | states |
|---|---|---|
| `store` | nine properties of the store, four commands, three attempts, N up to 2 | 83 thousand |
| `lifecycle` | counts, handoff completions and stop acknowledgements are backed by finalized work | 3.3 million |
| `recovery` | no attempt is lost, recovery acknowledgements are true, errors are counted once, `AttemptLife` is implemented | 2.6 million |
| `settle` | every accepted stop or handoff is settled, or its attempt is held, or the error guard halts on it | 0.4 million |
| `claims` | one worker per issue, nothing left behind on an issue, the continuation and the conflict budget | 4.3 million |
| `session` | a handoff instruction survives compactions, one request is served, prompts are bounded, a success is clean; every request is answered | 0.5 million |
| `ledger` | reports are merged once, limits are noticed, the handoff's reserve is kept, log entries and reconciliation are true | 0.9 million |
| `attempt` | results on GitHub are true, a told handoff has its note on the branch, nobody's work is overwritten, only checked revisions of a conflict attempt are pushed, an attempt ends told and with its work kept | 4.4 million |

The other runs refute statements of the code's own comments and docs; each is
described under "findings" in `PROJECT.json`:

| run | statement refuted |
|---|---|
| `work_lost` | committed work of an interrupted session is pushed by the restart |
| `retry_unchecked` | a conflict attempt never publishes an unverified resolution |
| `startup_race` | a checkpoint is removed only after its own attempt's cleanup |
| `false_success` | only verified work is published as complete |

Other places where the models reach something the code's comments or docs do not
say. They have no run of their own; the actions named take the path:

* `control.py:496` calls the attempt active at acceptance count one of a
  `stop --after`; one accepted after that attempt was counted and before its
  checkpoint is gone is never counted down, and the intake stays `stopping`
  (`SubmitStopAfter` between `Lifecycle`'s count and delete steps).
* `lifecycle.py:5080` says the final counted attempt enters `stopping` at claim;
  a prioritized claim returns before that.
* `operator-onboarding.md:650` says a handoff completes with publication, release
  and cleanup; the last check reads the note after cleanup left the branch.
* `lifecycle.py:6112` keeps a leftover checkpoint "for operator recovery"; both
  recovery commands refuse one whose attempt is finalized.
* `lifecycle.py:6139` reserves the fatal start for an issue that is gone; a
  worker with a `WORKER_ID` meets it after its own release (`ClaimProtocol`'s
  `Restart`).
* `control.py:399` says a resume under a begun handoff takes effect later;
  nothing reads it again. `operator-onboarding.md:655` says a failed handoff
  holds its attempt; one that fails at the end of the model session does not.
* `model_execution.py:1034` speaks of a request "that may still be served"; one
  withdrawn after it was latched is served all the same (`Polled`).
* `token_ledger.py:27` says an interrupted response stays an estimate; the next
  event of its thread settles it.
* `git_workspace.py:635` calls a branch that differs from the lease another
  Worker's; after a crash between push and lease, and a moved base, it is the
  attempt's own (`BranchMoved`).
* A restart's rebase can turn a published handoff into an incomplete result,
  while the comment, which is posted once, still says handoff; and a handoff
  record whose first intent names the revision before that rebase never
  confirms, so the attempt stays held until it is released.
* `lifecycle.py:4836` says an attempt is finalized only when its outcome is
  published. `_stamp_conflict_budget` (`lifecycle.py:3630`) reads GitHub before
  every conflict publication, the one of the `except` clause at `4791` included,
  and `comment_posted` is true until an assignment says otherwise (`4597`). When
  both reads raise, in one outage or in two, the issue is released, the
  workspace cleaned and the attempt finalized with no result told
  (`StampRaises`, `FinishAttempt`). A restart has the same path (`6161`).
  `EndIsSound` excepts exactly this case (`NeverBegun`), and it is proved that
  there is no other.
* A record replaced by another Worker between `find_handoff_record` and its
  update is overwritten; a pull request merged meanwhile reads as absent and its
  attempt ends as an infrastructure error; what the check of a conflict attempt
  leaves in the tree holds an attempt that was told as a success.
* `publication.py:1100` says that a retry never increments the continuation count
  again. In verbose mode the result comment is posted before the intent is
  persisted; a worker that dies between them counts its own comment at the retry
  and stores a standing one too high, so the budget is used up one attempt early
  (`PublishResult`, `Crash`, `Restart`, `RecordHandoff`).

Bounds. Two request ids are enough for one command to replace another; the
store alone gets four, so that a plan can be replaced, joined and resumed, and
N = 2 distinguishes the last count from an earlier one. Two attempts are needed
for a step of one to hit the other (stale deletes, counts and flags), and one
crash reaches every durable prefix; `MaxExits` bounds crashes and failing
releases together. `MaxErrors = 2` lets the guard of the safety runs be both
below and at its limit. `settle` has one attempt and `MaxErrors = 1`: the first
error halts, every restart halts at the same attempt again, before its ledger,
count and handoff (`Halting`), and a stop or handoff settles only after
`errors reset`, which that run sends too. The claim protocol gets two workers and one issue, three attempts (an
ordinary one, a continuation or two conflict attempts after it), one crash and
one act of a person; two acts, three workers, two issues, and four attempts under
a budget of two were also explored, each with the other bounds smaller, and what
the run checks is proved for every bound. A model session gets two background
workers and two requests, so that one can replace the other; its scenes pair the
surroundings rather than multiply them. The ledger gets two threads with two
responses each, reports that are incomparable and one below the estimate. An
attempt gets one crash, one failing call, one move of the base and one
publication of another Worker, in eight scenes: each pair of them can meet, and
the operator's retry or release can follow any of them. A fault is an outage: the
reads that the `except` clause repeats may fail in the one that raised
(`StampRaises`), so that an attempt whose result is lost twice is within one
fault. Request ids, attempts, workers and issues are interchangeable, so the safety runs
use symmetry; the liveness run does not.

Deadlock checking is off for the control store, the lifecycle, the claims and
the attempt: an instance that has been sent all its commands and
has claimed all its attempts rests, as an idle agent does.

Fairness. `FairLifeSpec` asks weak fairness of the loop (`run_forever` never
waits for an operator except in its idle poll) and of the recovery thread (it
runs to its end). Operators, crashes, clocks and repairs are not fair.
`SessionSpec` asks weak fairness of the driver's own steps (each is code between
two awaits) and of the clock that ages a request; nothing is assumed of the
model, the CLI, the operator or `MODEL_TIMEOUT`, so `RequestAnswered` rests on
the poll of the idle stream and on the request's own deadline alone.

## Proofs

`ControlStoreProofs` proves, for every set of request ids, attempts and issues
(of which the attempts are finite) and every `MaxAfter`, from the assumptions that `None` is not an
element of the other sets and `MaxAfter` is a natural number:

* `TypeCorrect`, `OneStopPlanHolds`, `IntakeExplainedHolds`,
  `HandoffTrackedHolds`: invariants that the run `store` also checks;
* `AcksAreFinalHolds`, `OnlyOperatorReopensHolds`: action properties;
* `PlanInvariant`: the inductive invariant behind the first group.

None of the invariants is inductive alone. A stop that joins a stopping intake
must know which command owns the pending slot; that needs `IntakeExplained`; it
may leave a handoff in place only if that handoff is begun, which needs the
tracked handoff to be the accepted one (`HandoffTracked`, `HandoffLinked`); and
the countdown completes the pending command, which must be its own
(`PlanLinked`). `PlanInv` is their conjunction. The proof goes by rows: every
transaction either *records* one command and supersedes a set of accepted ones
or *settles* a set of accepted ones; a lemma per method says which, and the
step lemmas argue from these facts without opening the table.

`ClaimProofs` proves, for every set of workers and issues, both deployments and
every budget and bound, from the assumptions that the bounds are naturals and
that `None` and the two reserved logins are no element of the other sets:

* `ClaimTypeCorrect` and `OneWorkerPerIssueHolds`, invariants of the run `claims`;
* `ClaimInvariant`, the inductive invariant behind them.

Mutual exclusion rests on visibility: a worker that waits for its verification
or has the issue shows its marker (or, in a pool of different logins, its
assignment) on it (`Visible`). The worker that verifies second therefore sees
the first. That the trace stays needs to know where a worker's local variables
point and that a release only starts after the result is posted (`JobLinked`).
No assumption on timing is used: the settle delay makes two claimants less
likely to yield to each other and keeps the budget reads fresh, it is not what
excludes two winners.

`NothingLeftBehindHolds` needs more than `ClaimInv`. That a worker may leave
without unassigning when it sees another marker is right only if somebody is
still to look: `TraceInv` says that every marker and every login on an issue is
answered for by a worker that has not made its last read (`Answers`), and the
lemmas `AnswersKept` and `StepHomes` that a worker stops answering only with the
step that takes its trace away, or in front of another worker's marker.

`CountdownProofs` adds to the store, from the same assumptions:

* `PriorityTrackedHolds`, `CountdownExactHolds`, `BegunHandoffKeptHolds`.

Exactness is about a cardinality: what remains plus the attempts counted under
the pending command is the number asked for, and a completed command has all of
its attempts (`CountFacts`, on top of `PlanInv`). Each call either leaves the
countdown alone or adds one attempt that was not counted before, so a replayed
finalization changes nothing. The attempts must be finite.

`ClaimBudgetProofs` adds to the claims:

* `ConflictBudgetHolds`, `ContinuationBudgetHolds`, invariants of `claims`;
* `HistoriesInOrder`, the invariant of the comment histories (`HistoryInv`).

The continuation budget needs two arguments. One is about a single history:
attempts are told in the order of their numbers (one worker at a time has an
issue), what is told twice is told with the same source, and a record, or the
standing a worker is about to write, is never below the attempts in the row up
to its own (`Sound`, `AttemptFits`, `Recorded`). From this `CountCovers`: the
count the code reads is never below the reference definition. Equality would be
wrong, see the last observation above. The other is about the workers: what a
claimant read when it selected an issue is still true when it starts (`Fresh`),
because nobody else has the issue meanwhile (`Alone`); a peer that outlasts the
settle delay breaks exactly this, hence `stalled`.

`TokenLedgerProofs` proves, for every finite set of threads, any number of
responses and every usage, threshold and reserve in the naturals:

* `LedgerTypeHolds`, `ReportsMergedOnceHolds`, `EntriesMatchSettledHolds`,
  `LimitsWatchHolds`, `ModeTruthfulHolds`: all invariants of the run `ledger`;
* `ReserveKeptHolds`: the action property.

`ReportsMergedOnce` becomes inductive with what the stream has pending
(`Merged`) and with the order of a thread's responses (`Order`). The limits are
about the sum of all responses, a fold; that a changed or a new response changes
the sum by its difference is shown without induction over data, by looking at
the smallest prefix on which it would fail.

`AttemptProofs` proves, for every set of commits that may clash, every set of
scenes the assumption `AttemptAssumption` admits, and any number of crashes,
failing calls, moves of the base and publications of others:

* `AttemptTypeHolds`, `HandoffHasNoteHolds`, `ResultsTruthfulHolds`,
  `EndIsSoundHolds`: all invariants of the run `attempt`;
* `OthersWorkKeptHolds`, `ConflictPushCheckedHolds`: its action properties.

The inductive invariant `AttemptInv` has a part per idea: where the attempt may
be with which local variables (`AttemptShapes`), that the note names the commit
beneath it (`Notes`, `Bases`), that a request says what was decided (`Requests`)
and a publication what it observed (`Observed`, `StepsReady`), that what is to
be told and what was told is so (`ToTell`, `WasTold`), where the model's changes
are (`Changes`), and that another Worker's work in the lease is in the clone and
on origin (`Leases`): the lease alone does not protect it, that what is pushed
contains it does. `Telling` leaves one way to end untold: the `except` clause of
a conflict attempt could not begin its publication (`Unbegun`); `Handlers` says
whose publications these are, and that the cleanup they skip had nothing to save.

`SessionProofs` proves, for every set of background tasks, every number of
requests and every scene:

* `SessionTypeHolds`, `InstructionSurvivesHolds`, `OneRequestServedHolds`,
  `CleanSuccessHolds`: all invariants of the run `session`;
* `PromptsBoundedHolds`: the action property;
* `SessionInvariant`, the inductive invariant.

Its parts are the nesting of the loops (`Stack`), the request that is pinned once
it was reported (`Pinned`), what each prompt leaves behind (`Prompted`), which
tasks are awaited (`Awaited`), why a loop ended (`Reasons`) and where the
instruction behind a closed gate is (`Instructed`).

`LifecycleProofs` proves of `LifeSpec`, for every set of request ids and issues,
every finite set of attempts, every menu of commands, any number of crashes and
any error limit, with recovery commands at any time:

* `LifeTypeHolds`, an invariant of the run `lifecycle`;
* `LifecycleUsesStore`: `LifeSpec => StoreSpec`. Each step of the loop, of the
  recovery thread and of the operator is one call of the store with arguments it
  expects (`Named`), or none, so all theorems about the store hold here.

With `IdleRecovery` (recovery commands find the loop idle) it proves

* `NoAttemptLostHolds`, `FinalizedWorkOnlyHolds`, `RecoveryTruthfulHolds`,
  `ErrorsCountedOnceHolds`: invariants of `lifecycle` and `recovery`;
* `StopsWaitHolds`, the action property of `lifecycle`;
* `LifeImplementsAttemptLife`, the refinement that `recovery` checks.

The hypothesis is needed: without it `NoAttemptLost` is false (`startup_race`).
The inductive invariant `LifeInv` says at which places of the code the loop and
the recovery thread work on the attempt of the checkpoint, and whether the ledger
has it there (`LoopPlaced`, `RecoveryPlaced`); how far the attempt they hold has
come on GitHub (`Announced`); that claims, comments, releases and ledger entries
come in this order (`InOrder`); that the last attempt the guard counted is open
or finalized (`Guarded`), so that its count never exceeds the attempts it may
have seen; and that the command the recovery thread executes still waits
(`RecoveryAsked`). The proof has three views of a step. `StoreCalls` says which
method of the store it calls and from which place; `LifeEffects` says which one
thing it does to the attempts (`Opens`, `Posts`, `Frees`, `Guards`,
`Finalizes`, `Closes`); `PlacedStep` follows the two threads, where the lock and
`processing` keep one of them still (`LoopWaits`). Each invariant, and the
refinement, follows from the view it is about. `OutcomeAssumption` (no outcome
is `None`) is what tells a ledger entry from its absence.

Only model-checked: liveness (`StopsSettle`, `RequestAnswered`), which is out of
reach of the prover (as are `ENABLED` and induction over data).

## Not modelled

Read-only projections (contract adapter, telemetry, history, status), argument
parsing and rendering, texts, archives and transcripts, subprocess plumbing. The
halt record and the volume lock: each is one file written and read at a fixed
place of the boot order, and the lock is the kernel's. In the modelled parts:
unreadable-state holds of the lifecycle, the review gate of the session, the
removal of ignored leftovers in the workspace, a store write that fails (like a
crash) at the `publishing` checkpoint, assignment changes that make
`recovery retry` keep its hold (a failing call here), retries inside one GitHub
call, and pools that mix the two deployments.

## Plan

Done: the control store, the lifecycle of one worker, the claim protocol, the
model session, the token ledger, the publication and the run of one attempt.

1. An abstract specification of a result ("told once, true, final") that
   `AttemptRun` implements.
2. The conflict streak over comment histories against a reference definition.
