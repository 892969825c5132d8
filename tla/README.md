# Arceus: a verification project in TLA+

Arceus runs companies of LLM agents. A heartbeat engine wakes agents; each wake
(a *beat*) claims a task from a shared Postgres table, works on it through MCP
routes and gives it up again. Beats of many agents run at once in one Node.js
process, tool calls are HTTP requests that outlive the beats that made them, and
the process is redeployed while beats run. This project models the parts where
that matters, checks them with TLC and proves the central results with TLAPS.

Paths below are relative to the repository root.

## 1. The system and what is modelled

| component | source | state | modelled in |
|---|---|---|---|
| task claims | `packages/db/src/repos/tasks/claim.ts`, `apps/api/src/routes/internal-mcp/tasks.routes.ts`, `apps/api/src/tasks/mutations.ts` | `tasks` rows: status, `checkout_run_id` | `TaskClaims` |
| beat lifecycle | `apps/api/src/orchestration/run-beat.ts`, `beat-lifecycle.ts`, `beat-scoring.ts` | session registry, `heartbeat_runs` rows | `TaskClaims`; its session and prompt in `PromptCompletion` |
| stranded-run sweeper | `apps/api/src/orchestration/stranded-run-sweeper.ts` | the sweep in progress | `TaskClaims` |
| heartbeat engine | `packages/company-runtime/src/heartbeat.ts` | locks, semaphores, event queue, `lastBeatAt` | `HeartbeatEngine` |
| heartbeat runtime | `apps/api/src/heartbeats/runtime.ts` | paused companies | `HeartbeatEngine` |
| idempotency cache | `apps/api/src/routes/internal-mcp/{idempotency,middleware}.ts`, `packages/db/src/repos/idempotency_keys.ts` | `idempotency_keys` rows | `Idempotency` |
| sprint lifecycle | `apps/api/src/sprints/{proposals,lifecycle}.ts`, `routes/internal-mcp/sprints.routes.ts`, `routes/sprints.routes.ts`, `packages/runtime-shared/src/gates.ts` | `sprints` rows, `companies.current_sprint_id`, the completion gate | `SprintCompletion` |
| prompt completion | `apps/api/src/prompts/llm.ts`, `heartbeats/event-bridge.ts` | pending completions, timers, nudge flags | `PromptCompletion` |
| session resume | `apps/api/src/orchestration/session-resume.ts` | the parked session of each agent | `PromptCompletion` |
| reset of a company | `apps/api/src/orchestration/company-runtime.ts`, `routes/company.routes.ts` | clears the state of others | `PromptCompletion` |
| task persistence barrier | `apps/api/src/routes/internal-mcp/task-persistence.ts`, `persistence/mutations/tasks.ts`, `packages/db/src/repos/tasks/hydration.ts` | the whole `tasks` row | `TaskRow` |
| the rest | see `PROJECT.json` | | not modelled |

How they interact. The engine's `triggerBeat` calls an executor that ends in
`runBeat`; `runBeat` inserts a `heartbeat_runs` row and registers a session; the
MCP middleware lets a tool call in while that session is registered, and looks
its idempotency key up before the handler runs; handlers read and write task
rows; when the prompt ends `runBeat` scores the beat from the event buffer,
releases the claims of a failed beat, unregisters the session and closes the
row. The sweeper reads rows still `running` and releases the claims of their
beats. Completing a task promotes its dependents and emits reactive events into
the engine.

What is hard here: every `await` is an interleaving point; a handler checks the
owner of a task and writes it in different statements; cleanup, sweeper and late
tool calls write the same rows; a crash falls between any two statements, and
so does a swallowed Postgres error; locks expire while their owner still runs;
replies are remembered after they were sent.

For each component, what makes it correct:

- *task claims*: no two agents work on one task; offered work can be claimed;
  blocked work can be claimed again; no failed or dead beat abandons a task in
  progress; dependents are promoted whatever order completions commit in.
- *heartbeat engine*: ceilings hold; slots, locks and queued events are never
  orphaned; every agent with work gets a beat.
- *idempotency cache*: an effect happens once however often the call is
  retried; a replayed reply is true; a stored reply is final.
- *sprint lifecycle*: a company has one active sprint, its current one, also when
  sprints are deleted; a sprint is closed once, with its tasks terminal, under its
  own number, and in the end.
- *prompt completion*: whoever waits for a prompt is in the map and has a timer,
  and its wait ends; no two beats speak in one session; a nudge's own idle
  report does not end the beat.
- *task rows*: an update that was committed stays, whoever else writes the row.

## 2. Modules

| module | what it is |
|---|---|
| `TaskClaims` | one action per SQL statement or row-locked transaction of beats, claim/complete/block handlers, cleanup, sweeper and crashes |
| `ClaimLock` | the abstract promise of the claim columns: a lock per task |
| `HeartbeatEngine` | one action per stretch of code between two awaits of the scheduler |
| `Idempotency` | the replay cache for one key, one action per statement |
| `OnceCall` | the abstract promise of the cache: one effect, and answers that are true when given |
| `PromptCompletion` | waiters, entries, timers, nudges and sessions; one action per stretch between two awaits |
| `SprintCompletion` | `sprint_create`, the checks, the finalize route and the finalization, one action per statement |
| `SprintTurns` | the abstract order of a company's sprints: one is completed before the next is current |
| `TaskRow` | row-locked updates, claims, and the two statements of `persistTask`, on one row |
| `SerialRow` | the abstract row of the routes: an update is one step on the row as it is |
| `MCTaskClaims`, `MCHeartbeatEngine`, `MCIdempotency`, `MCPromptCompletion`, `MCSprintCompletion`, `MCTaskRow` | small instances for TLC |
| `PromptCompletionDocs` | a statement quoted from a comment that the code does not keep |
| `TaskClaims_proofs`, `TaskClaimsLock_proofs`, `HeartbeatEngine_proofs`, `Idempotency_proofs`, `PromptCompletion_proofs`, `SprintCompletion_proofs`, `TaskRow_proofs` | theorems |

Every module also holds operators marked *Faulty*: the same action with a
plausible bug (a dropped guard, a forgotten reset). They are never part of
`Next`; swapped in for the real action they make the property break, which is
how each property is known to bite (`mutants` in `PROJECT.json`).

### TaskClaims

State: `status`, `checkout` (the two task columns that decide ownership),
`drafts` (dependencies with an artifact), `run` (the `heartbeat_runs` row),
`beat` (where `runBeat` is), `verdict` and `heard` (scoring), `mine` (what the
agent was told it holds), `call` (the handler running for the beat), `toRestate`
(the cleanup's loop), `sweep` (the sweeper's loop), `crashes`, and the ghost
`raced`.

| action | code |
|---|---|
| `BeginBeat`, `EndBeat`, `ReleaseClaims`, `Restate`, `FinishRun` | `run-beat.ts:116-185`, `252-354`, `456-472`, `beat-lifecycle.ts:102` |
| `RequestClaim`, `ClaimWins`, `ClaimLoses`, `MirrorClaim` | `tasks.routes.ts:568-667`, the CAS in `claim.ts:34-90` |
| `AttachArtifact` | `mutations.ts:199` |
| `RequestComplete`, `GateRejects`, `Complete`, `ReadDependents`, `Promote` | `tasks.routes.ts:328-394`, `mutations.ts:343-458` |
| `RequestBlock`, `Block`, `ClearClaim` | `tasks.routes.ts:397-422`, `claim.ts:107` |
| `FindStranded`, `MarkStranded`, `ReleaseStranded` | `stranded-run-sweeper.ts:53-85` |
| `ReleaseClaimsFails`, `ClearClaimFails`, `SweepFails` | the errors the code swallows, when `Faults` |
| `HandlerFails` | a statement of a call throws out of the handler, when `Faults`: the rest of the call is not done, as when `buildSnapshotView` or `updateTask` throws in the promotion (`mutations.ts:405`, `:411`, `:444`) |
| `Crash` | everything in memory is lost; the boot sweep has read the running rows |

A beat that has ended may still have a call in flight: `call` is not reset when
`beat` moves on, because nothing cancels a handler. Only a crash resets it.

**The ghost `raced`.** Several handlers write a task on the strength of a check
made in an earlier statement (`rejectIfNotOwner`, the dependents snapshot, the
cleanup's list of released ids), and some half-done pairs of writes are never
repeated. When such a write hits a task whose state no longer satisfies the
check, or a pair is cut short, the task joins `raced`, and the safety properties
exempt it from then on. A dependent joins it when the last call that was on its
way to promote it dies or throws. `raced` is not a way out of checking: it is exact (a
task joins only in the step that goes wrong), and the properties then say that
*those steps are the only way* to break a task. Section 7 lists what the steps
do. `raced` is never read by a guard.

A completion has two more reads to do after its promotions, and its agent is told
only when they succeed (`HearClosed`). A restate that throws is swallowed
(`Restate`).

Abstractions: task statuses `failed`, `cancelled` and `verifying` are written by
other routes only and are left out; so are tasks of kind `follow_up`. A beat id
is used once, as in the code. The owner check and the existence check are one
read. The evidence of a completion is attached in the same action as the status
write, because `AttachArtifact` already lets the artifact appear earlier.

### HeartbeatEngine

State: `flight` (which agent each running beat is for), `late` (older than
`beatTimeoutMs`), `lock`, `globalCount`, `companyCount`, `queue` (a length: all
events start the same beat), `due` (agents whose interval has passed, most
overdue first: the order `tick` sorts by), `tick`, `running`, `paused`, `work`,
`resets`.

Time is two facts, "the interval has passed" (`BecomeDue`) and "the beat is
late" (`GetLate`). `triggerBeat` runs without an await up to its executor, so
taking both slots and the lock is one step; its `finally`, with the drain of
the event queue and the beat the drain starts, is one step (`FinishBeat`). A
tick awaits the roster (`ReadRoster`) and the claimability query per agent
(`PreflightGo`, `PreflightSkip`); `GoOn` is the loop in between. `reset()`
(`Reset`) has no caller in the application today; it is public, documented as safe to
call repeatedly under beats in flight, and modelled as such.

### Idempotency

State: `row` (the key's row: body hash, and whose reply it stores), `stage`,
`answer` and `replayOf` of each request, `effects`, the ghost `blind`, `crashes`.
`cacheSuccessfulResponse` is not awaited, so `Remember` and `Release` happen
some time after the reply, possibly after other requests. `blind` collects the
requests whose SELECT found the row gone: the code runs their handler without a
reservation (section 7).

`OnceCall` is the same call without a row, a hash or a stage: who took effect
(`done`), what each request was told (`word`) and on whose behalf (`of`), and
whether the promise is broken. "Conflict", "in flight" and "refused" all map to
`denied`, which a request may be told only if it took no effect itself. That
nobody answered takes effect later is the guard `Silent` of `TakeEffect`.

### PromptCompletion

State: for each beat or call of `runPromptText`, `stage`, `session`, `resumes`,
`attempt` and `open` (prompt requests that have not answered); the maps of
`llm.ts` (`pending`, `timers`, `told`, `nudges`, `skips`, `agentSession`);
`contexts` (the session registry), `parked`, `gone`, `created`, `resetting`; and
the ghosts `dropped` (whose entry another registration replaced), `lost` and
`forgotten` (whose entry, or context, the reset of some company threw away).

| action | code |
|---|---|
| `TakeParked`, `Resume`, `CreateBeatSession`, `RegisterContext`, `NoWork`, `SetUpFails` | `run-beat.ts:130-240`, `session-resume.ts` |
| `Register`, `Unreachable`, `PromptReturns`, `PromptFails` | `llm.ts:401-431`, `797-805`, `run-beat.ts:252-312` |
| `UnregisterContext`, `Park`, `Retire` | `run-beat.ts:497-560` |
| `FindAgentSession`, `CreateAgentSession`, `CallEnds`, `RetryCall` | `llm.ts:32-82`, `807-860` |
| `ReportIdle`, `ReportError` | the poller and the SSE bridge |
| `WrapUp`, `NudgeStalled`, `GuardRejects`, `TimerFires` | the watchdogs, `llm.ts:520-669`, `409-412` |
| `CancelInFlightBeats`, `BeginReset`, `FinishReset` | `llm.ts:483-498`, `company-runtime.ts:205-229`, `company.routes.ts:85-115` |

OpenCode is an environment: it may report a session idle twice, never, or late,
and fail a prompt that has already settled. What a watchdog measures (elapsed
time, silence, token use) is left to chance; what it does is not.

### SprintCompletion

State: `stage` and `rest` of each `sprint_create`, `sprint`, `current`, `task`,
`lane` (the one finalization behind the gate, and those of the finalize route),
`erase` (the deletion of a sprint), `faults`, `crashes`, `stale`, and ghosts for
each way a property's exception comes about: `twins`, `doubled`, `reactivated`,
`strayed`, `outside`, `late`, `reopened`. `closed`,
`reclosed` and `mistagged` record what the properties forbid.

| action | code |
|---|---|
| `Guard`, `Record`, `Point`, `Persist`, `Insert`, `Inserted`, `Promote`, `Promoted`, `Activate`, `CreateFails` | `proposals.ts:96-231` |
| `Finish`, `Reopen`, `AddTask` | `mutations.ts:343-458`, `tasks.routes.ts:207-250` |
| `StartCheck`, `StartRoute`, `ReadRows`, `ReadTasks`, `GiveUp` | `lifecycle.ts:60-109`, `sprints.routes.ts:278-306` |
| `Gone`, `Tag`, `Close`, `Announce`, `FinalizeFails` | `lifecycle.ts:182-342`, `gates.ts:31-39` |
| `Delete`, `SeePointer`, `ClearPointer`, `DeleteFails` | `DELETE /api/sprints/:sprintId`, `routes/sprints.routes.ts:16-49`: the row, an unlocked read of the pointer, its clear |
| `RestoreCompany`, `RestoreSprint` | the rows that the retry after a missing foreign key writes back as it read them (`company-persistence.ts:28-44`, `domain-persistence.ts:100-107`, `task-persistence.ts:79-84`) |
| `Crash` | a restart: calls under way are gone |

Abstractions: of a task only whether its row exists and whether its status is
terminal; the company's pointer and the sprint rows of a snapshot are read
together, the tasks before or after them. The status `cancelled` of a sprint is
never written, and nothing enters its reviewing phase any more. A deletion
detaches the tasks of its sprint: for the sprint they no longer exist. A row that
is written back comes from a read of any earlier time; the model does not keep the
reads and lets it be any pointer, or any status, the row had before
(`strategy.ts:202` writes a company back in the same way). Left out: the reset of
a whole company, which deletes all its rows in one transaction
(`companies/reset.ts:48`), and the number of a sprint beside its pointer. The two
are written together, so a snapshot goes under the wrong number exactly when the
pointer is another one's; after a clear it goes under 1 (`lifecycle.ts:298`).

`SprintTurns` is what the company sees: its current sprint and the statuses. A
sprint is opened, becomes the current one when the one before it is completed or
deleted, begins, and is completed or deleted for good; the pointer may be taken
off a deleted one. A company is excused from that order by twins, by a pointer
that a deletion cleared too late or an old row moved, by a sprint that was written
back, finalized twice side by side or taken up when it was not the current one;
`SprintsTakeTurns` says that nothing else breaks it.

### TaskRow

State: `row` (its status, and as `marks` the calls whose update it shows),
`holder` (`checkout_run_id`), `lock`, `at` and `tx` (a handler and its
`updateTask`, which some handlers do not await), `base` and `seen` (the rows they
have in hand), and two ghosts. `overrun`: updates and claims that were committed
while a handler was between the read and the write of `persistTask`, or about to
insert the task, or before a creation whose look at the row failed. `exposed`:
claims that stayed on a task when an update planned it or the clear of a block
failed.

| action | code |
|---|---|
| `Start`, `Refuse`, `Awaited` | PATCH, verification, hydration, results, commands, heartbeat, preview-url, completion, block in `tasks.routes.ts`; the updates that plan a task: the cleanup's restate (`run-beat.ts:470`), the promotion (`mutations.ts:444`) |
| `Insert` | POST `/tasks` |
| `MissedCreate` | the same when `readTaskHybrid` swallowed the error of its read (`task-persistence.ts:47-54`): an existing task is taken for a free id |
| `Clear` | `clearClaimKeepStatus`, behind the status write of a block (`tasks.routes.ts:409-420`) |
| `Claim`, `Release` | `claim.ts:36-81`, `169-193`: statements of their own on the claim columns |
| `TxRead`, `TxCommit`, `TxFails` | `updateTask`, `persistence/mutations/tasks.ts:30-42` |
| `BarrierRead`, `BarrierWrite` | `persistTask`, `task-persistence.ts:64-111`, `hydration.ts:133-186` |
| `HandlerFails` | a statement of a handler throws: out of it, or swallowed by the barrier's write and by the clear |

`TaskRow` and `TaskClaims` look at the same rows from two sides. `TaskClaims` has
each status write as one atomic step with its owner check before it; `TaskRow`
opens that step, leaves out who may do it, and adds the handlers that
`TaskClaims` does not have. Left out: the cap of fifty results, the clearing of
progress, `updateTask` of a task without a row (rows are not deleted but with their
company), the backfill of a claim whose row is missing, and the updates that fail
or cancel a task (`workspace/watchdog.ts`, `heartbeats/event-bridge.ts`, meetings),
which are `updateTask` calls like those of a completion.

`SerialRow` is what the routes may rely on: no lock, no transaction, `Update` a
single step on the row as it is. `UpdatesSerialise` says that `TaskRow`
implements it (`TxCommit` is the step, `TxRead` and `TxFails` are none), which is
what lets `TaskClaims` treat each `updateTask` as one action. The insert and the
barrier are steps of `SerialRow` too: they are the writes that do not start from
the row as it is.

## 3. Runs

| run | bounds | shows |
|---|---|---|
| `claims_interleaved` | 2 tasks (one depends on the other), 2 beats of one role | `OfferedIsFree`, `OneWorkerPerTask`, `BeliefIsTrue`, `WorkingClaimsRespected` in all interleavings of handlers, cleanup and sweeper |
| `claims_crashes` | 1 task, 2 beats, 2 crashes, failing statements | `ClaimsAnsweredFor`, `BlockedIsReclaimable`, the refinement `ClaimsAreALock` |
| `claims_join` | 3 tasks, the third waits for the two others, 2 beats of different roles, failing statements | `DependentsPromoted`: two completions at the same time do not miss each other, and the one that is left makes up for the one that throws |
| `claims_return` | 2 tasks (one depends on the other), 1 beat, 2 crashes, failing statements, fairness | `AbandonedClaimsReturn`, `ReadyGetsOffered` |
| `engine_reset` | 2 agents of 2 companies, 3 beats, ceilings 3 and 2, 1 reset, 1 queued event | `CapacityHolds`, `NoSlotLeaks`, `LocksHaveBeats`, `QueueHasDrainer` |
| `engine_fair` | 2 agents, 1 slot, fairness | `WorkGetsABeat` |
| `idempotency_retries` | 1 call and 3 retries, one with another body, 1 crash, failing statements | `AtMostOnce`, `ReplaysAreTrue`, `StoredRepliesStay`, the refinement `CallTakesEffectOnce` |
| `prompts` | 2 beats of one agent with a resumable session, or 2 calls on a shared one with a retry; 3 sessions, 2 companies, 1 reset | `WaitersAreHeard`, `SessionHeldOnce`, `SkipImpliesNudge`, `WaitingBeatsAreKnown`, `BeatsKeepEntries`, `PromptsSettle` |
| `sprints` | 1 company, 2 sprints, 3 tasks (one of them late), the gate and 1 route call, 1 deletion, 1 old row | `ActiveIsCurrent`, `CompletedOnce`, `TagIsOwn`, `CompletedIsDone`, the refinement `SprintsTakeTurns` |
| `sprints_close` | 2 companies with a sprint of a task each, 1 throwing statement, 1 restart, 1 deletion, fairness | `DoneSprintsClose` |
| `task_row` | any 3 of a creation, a verification (unawaited update and barrier), a claim, a completion, a block and an update that plans, on one task, failing statements, fairness | `UpdatesStick`, `ClaimsStick`, `CallsReturn`, the refinement `UpdatesSerialise` |
| `docs_reset` | 2 beats, 2 companies, 1 reset | a counterexample to a comment, section 6 |

One run of each module checks its `TypeOK` too, but for `SprintCompletion`, whose
types are only proved. The invariants
`IInv` of the proofs were model-checked on these instances before they were
proved; no run repeats that.

Why the bounds are enough to be interesting: every claim conflict is between two
beats over one task; the second task is there for promotion and for the beat
that holds two; the third for the join. Two crashes let the second one fall into
the boot sweep of the first. Three beats exceed the per-company ceiling of two
once a lock expires. Three retries let one be refused and release late, one slip
into the gap and one reserve. Beats are symmetric where they have one role.
`claims_interleaved` stops at states in which every task is raced
(`SomeTaskInOrder`): a raced task stays raced and is exempt, so no violation
lies beyond. `claims_join` stops in the same way when its one dependent is raced
(`JoinInOrder`), and its two roles change places (`TeamSymmetry`). More
constraints are of that kind. `OneKind` (`prompts`): beats
and calls share no session, so states in which both have started are products of
those explored. `OneExemption` (`sprints`): what is exempt stays exempt, and one
exemption at a time is followed up. That includes the deletion: a sprint is deleted
before it is closed, and what follows is explored beside a check behind the gate,
not beside the finalize route. The two sprints differ in the late task only: the
first comes first, and the route is called for it. `sprints_close` does not follow
a deleted sprint that was written back (`NoRevival`). `SomeCalls` (`task_row`) bounds how many of the
six calls begin. The theorems hold of any number of exemptions, deletions, old rows
and calls.

Two beats are enough for a parked session to be handed over and held twice, two
calls for a registration to drop another. Two sprints of one company are needed
for twins and wrong tags, two companies for a check lost at the other's gate; a
late task, a reopened one and a route call are what makes a finalization stale.
In `task_row` the verification is the call whose barrier meets its own update;
`PATCH` and the appending routes run the same actions with less overlap. Three
calls are enough for a claim, an update or a block that exposes it, and a barrier
or a creation that overruns it; the theorems cover any number of calls of all
kinds. Nor are the dependencies among the tasks of one `sprint_create` exercised
by the instances of `SprintCompletion`: they order its inserts and say which tasks
it promotes, and the proofs hold of any. In `engine_reset` the global ceiling is as large as the number of
beats; it is the per-company one that is put to the test, and the theorem has
both for any ceilings.

Deadlock checking is off for all but the engine: beat ids, requests, prompts,
sprints and calls are used once and a run of the model ends when they are used up. It is
on for the engine, which never stops.

## 4. Fairness

- `TaskClaims`: a prompt ends, at the hard cap of `run-beat.ts:314-322` at the
  latest; handlers and cleanup proceed, because each Postgres call returns or
  throws; the sweep timer of `stranded-run-sweeper.ts:119` finds what is overdue.
  Strong fairness of `MarkStranded`: a sweep that was cut short by a failing
  statement is followed by another, and some sweep gets through.
  No beat has to start, no agent has to make a call, nothing has to crash.
- `HeartbeatEngine`: the interval timer fires while the engine runs, queries
  return, each beat ends, intervals pass. `WorkGetsABeat` is stated for runs in
  which events and triggers by hand stop at some point; with an endless stream
  of events for one agent it is false (section 7).
- `Idempotency`: queries return and handlers reply. No request has to be sent.

- `PromptCompletion`: timers fire. Nothing is assumed of OpenCode, the bridge or
  the poller.
- `SprintCompletion`: a finalization behind the gate goes on (`WF`). Checks of a
  company whose current sprint waits are let in some time (`SF` of `StartCheck`):
  the gate drops whom it cannot let in, and `sprintNeedsCeoAttention`
  (`lifecycle.ts:143`) makes the scheduler wake the CEO, whose beat asks again.
  Companies deploy now and then, not without a pause.
- `TaskRow`: statements return or throw, and whoever waits for a row lock that
  stays free gets it (`WF` per call).

Where it is not said otherwise, fairness is weak and per actor.

## 5. Theorems

For every choice of the constants (any tasks, dependencies, roles, beats, fault
switches and numbers of crashes; any agents, companies, ceilings and overlapping
ticks; any requests and bodies; any prompts, sessions and resets; any sprints,
tasks and route calls; any calls on a row):

- `TaskClaims_proofs`: `Inductive` (`Spec => []IInv`) and from it `TypeCorrect`,
  `OfferIsSafe`, `BlockIsSafe`, `ClaimsAreAnswered`, `BeliefsAreTrue`
  (`BeliefIsTrue`), `NoTwoWorkers` (`OneWorkerPerTask`), `PromotionIsComplete`
  (`DependentsPromoted`).
- `TaskClaimsLock_proofs`: `ClaimsImplementLock` (the model implements
  `ClaimLock` under the refinement mapping `Lock`) and `WorkersAreRespected`
  (`WorkingClaimsRespected`).
- `HeartbeatEngine_proofs`: `Inductive`, `TypeCorrect`, `CeilingsHold` (`CapacityHolds`),
  `SlotsReturn` (`NoSlotLeaks`), `LocksAreHeld` (`LocksHaveBeats`),
  `EventsAreDrained` (`QueueHasDrainer`).
- `Idempotency_proofs`: `Inductive`, `TypeCorrect`, `EffectHappensOnce`,
  `ReplaysTellTheTruth`, `StoredIsFinal`, `CacheKeepsPromise` (the model
  implements `OnceCall` under the mapping `Promise`).
- `PromptCompletion_proofs`: `Inductive`, `TypeCorrect`, `WaitersHeard`
  (`WaitersAreHeard`), `OneHolder` (`SessionHeldOnce`), `FlagsAgree`
  (`SkipImpliesNudge`), `BeatsAreKnown` (`WaitingBeatsAreKnown`), `BeatsNotReplaced`
  (`BeatsKeepEntries`), `BeatsAreHeard`.
- `SprintCompletion_proofs`: `Inductive`, `TypeCorrect`, `ActiveSprintIsCurrent`,
  `SprintCompletesOnce`, `SnapshotTaggedRight`, `CompletedSprintIsDone`,
  `SprintsAreInTurn` (the model implements `SprintTurns` under the mapping `Turns`).
- `TaskRow_proofs`: `Inductive`, `TypeCorrect`, `UpdatesAreKept` (`UpdatesStick`),
  `ClaimsAreKept` (`ClaimsStick`), `UpdatesAreSerial` (the model implements
  `SerialRow` under the mapping `Serial`).

The assumptions are the `ASSUME`s of the modules: types of the constant
functions, that the null values are not members, and that there are finitely
many beats at a time (so that they can be counted).

`ClaimsAnsweredFor` is about failed and dead beats. A beat that passed keeps its
claims on purpose (`run-beat.ts:433`), nobody frees them, and the statement says so:
it asks of such a task only that a beat holds it.

The inductive invariant of `TaskClaims`. `ClaimsAnsweredFor` is not inductive:
nothing in it says that a row whose beat is at work is still `running`, so the
sweeper could strand it. `IInv` adds: rows follow their beats
(`RowsFollowBeats`), the sweeper has only rows of beats that ended
(`SweptHaveEnded`), a task in progress is held by a beat that has passed, that
works on a running row, or whose release is still to come (`HoldersAccountable`),
and a block call that still has to clear its own claim finds the task blocked
(`ClearsBlocked`). `OfferedIsFree` and `BlockedIsReclaimable` are inductive
together with these. The proof has one lemma per action. The refinement uses
only `IInv`: each action that changes `checkout` is shown to be a lock step and
each other action a stutter, a new block call, the end of some, or the end of prompts.

`BeliefIsTrue` is inductive only with `OnlyWorkersBelieve`: a beat starts with an
empty mind, so what it believes it was told by its own claims. `OneWorkerPerTask`
then follows, for two believers would both be the holder. `DependentsPromoted`
had to be said more sharply to be inductive: the completion on its way to
promote `t` either has not read its dependents yet and completed a dependency of
`t`, or has `t` among those it read (`Unpromoted`). A call that dies or throws
takes its part of that away; what no other call has is raced.

The inductive invariant of `HeartbeatEngine`: `NoSlotLeaks` and `LocksHaveBeats`
are inductive with the types. `QueueHasDrainer` needs `PausedRolesRest`: the end
of a beat drains by triggering the next one, which a paused role is refused.
`CapacityHolds` is about beats, the guards are about counters: before the first
reset the two agree (`SlotsAreCounted`), whatever locks expire, because expiry
leaves the counters alone. A tick asks for beats of agents only (`TickTypes`).
The counting steps rest on the cardinality theorems of `FiniteSetTheorems`. That
`due` is a sequence of agents at all needs `DueOnce`, that each has one place in
it: taking an agent out (`Bump`) leaves no second one. Its proof uses
`RemoveAt` of the community modules and the theorems of `SequenceTheorems`.

The inductive invariant of `Idempotency`: as long as nobody runs blind, at most
one request holds or has used the key, and while it does the row is there with
its hash (`OneHolder`); effects match stages; a stored reply belongs to a request
that is through; nobody is told anything before its handler or the hook is
through (`SilentUntilTold`). The refinement maps `CommitEffect` to `TakeEffect`,
the answers to `Confirm`, `Replay`, `Deny` and `Shrug`, a SELECT that finds no row
to `Break`, and the writes behind a reply and a crash to stutters. A replay of a
row whose request has another body is impossible until somebody ran blind, a
denial of a request with an effect is impossible at all (`EffectsMatchStages`).

The inductive invariant of `PromptCompletion` ties the maps together: an entry's
waiter waits on that very session and has its timer, and a timer without an
entry is that of a waiter a reset threw out (`EntriesOfWaiters`); nobody has a
session that was not created yet (`SessionsExist`), which is what makes a new
session its creator's alone; a beat has its context from before it registers its
prompt until after it is settled (`ContextsOpen`).

`WaitersAreHeard` exempts whoever was dropped by another registration.
`BeatsNotReplaced` shows that only calls ever are: calls and beats have no
session in common (`SessionsApart`), and of two beats only one has a session
(`SessionHeldOnce`), so the entry a registration finds is a call's.
`BeatsAreHeard` draws the conclusion: a waiting beat can rely on its timer
without exception, and on its entry up to resets.

The inductive invariant of `SprintCompletion`: rows and pointers are as far as the
stage of their `sprint_create` (`RowsFollowStages`); behind the guard a call is
alone and the current sprint is over (`GuardStillHolds`); what a finalization has
in hand is open and current (`InHandIsFresh`), and what it saw through still is
(`RipeStaysThrough`), each up to the ghosts. A sprint whose deletion is under way is
deleted, or was written back (`ErasedStaysErased`): so a clear takes the pointer off
a deleted sprint, or strays. `TagIsOwn` then follows because until a sprint is
closed only its own deletion lets the pointer move on, up to the ghosts. The
refinement needs `CreationOrder` besides: only the last step of `sprint_create`
makes its sprint executing, and whoever completes it before the pointer is there
took it up out of turn. `GuardStillHolds` is what makes `Point` a step of
`SprintTurns`, `InHandIsFresh` what makes `Close` one, `ErasedStaysErased` what makes
`ClearPointer` one.

The inductive invariant of `TaskRow`: the lock's holder has the row as it is
(`LockHolds`); a row some barrier has in hand shows every update that is not
overrun (`StaleKnows`), which is why its write cannot lose others, and offers no
held task that is not exempt (`Offers`); a block is on its way to its clear while its
status is on the row; nothing happens to a task before it exists (`NothingYet`). The refinement rests on the
first: what a transaction writes at its commit was computed from the row it read,
and that is still the row, because every other write waits for the lock.

What stays with TLC is liveness: `AbandonedClaimsReturn`, `ReadyGetsOffered`,
`WorkGetsABeat`, `PromptsSettle`, `DoneSprintsClose` and `CallsReturn`. Proofs of
these need fairness and `ENABLED`, which the prover does not handle. Every other
property of the passing runs is a theorem.

## 6. Where comments and code disagree

- `docs_reset`: `company.routes.ts:68` promises that deleting one company leaves
  the others running. `CompanyRuntime.reset` (`company-runtime.ts:208`) clears
  `pendingPromptCompletions` of every company and leaves the timers armed: a beat
  of another company that waits for its prompt is deaf from then on, and ends as
  a failure after fifteen minutes. The same call empties `agentSessions` and, at
  its end, the contexts of every company, whose tool calls are then refused.

Seen in the models, without a run of their own:

- `stranded-run-sweeper.ts:64` promises that the claims of a stranded run are
  released. A crash between `markStranded` and the release (a second deploy
  during the boot sweep) leaves the task `in_progress` with a stranded row, and
  later sweeps look only for `running` rows.
- `heartbeat.ts:177` promises no overlapping beats of an agent. Beat 1 outlives
  its lock, beat 2 takes it, beat 1 ends: its `finally` deletes beat 2's lock and
  drains the event queue into beat 3, while beat 2 runs (`heartbeat.ts:460`).
- `idempotency_keys.ts:20` promises one winner. A refused call releases the key
  between a retry's INSERT and its SELECT; the SELECT's `null` reads as a
  reservation (`idempotency_keys.ts:46`), and the next retry reserves for real.
- `idempotency_keys.ts:8` promises that placeholders evict themselves. Neither
  statement of `reserveOrGetStored` looks at `expires_at`, and nothing calls
  `sweepExpired`: a request answered with a plain `reply.send` of an error leaves
  its placeholder, and retries are told `in_flight` for ever.

## 7. What the exempted steps do

Seen while checking the properties without their exemptions:

- A block call that outlives its beat's prompt passes the owner check, then the
  cleanup releases the task, another beat claims it, and the block call's two
  writes block it and clear the other beat's claim (`tasks.routes.ts:404-418`;
  the comment at `claim.ts:103` says there is no concurrent claim to protect).
- The cleanup's second write, `setTaskStatus(tid, "planned")`, hits a task that
  another beat claimed after the release (`run-beat.ts:464-470`): planned, with
  a live claim.
- A beat that claims two tasks and closes one passes, and keeps the other in
  progress (`run-beat.ts:433`, `:460`): on purpose, says the comment, but no code
  ever frees it. A claim whose mirror threw (`tasks.routes.ts:660`) stays in the
  same way when its beat passes: its agent was never told it has the task. A claim call in flight when the cleanup runs
  wins for a beat that is over.
- A crash between a completion and its promotions, or a read or write of the
  promotion that throws (`mutations.ts:405`, `:411`, `:444`), leaves dependents
  `created` for good: the completion is committed, its route answers 500, and
  nothing looks at the dependents again. Promotion from a stale snapshot overwrites a
  dependent that was claimed under the draft rule (`mutations.ts:444`).
- `claim.ts:22` lists the claimable statuses without `blocked`; line 49 has it.
- `approvals.routes.ts:123` says a 409 is cached for retries;
  `cacheSuccessfulResponse` drops the key for every status of 400 and above.
- Draining the event queue takes the slot before any tick can: with one slot
  and an event per beat, the other agents never run (`heartbeat.ts:496`). With a
  full company and free global slots, a tick that has passed over the most
  overdue agent can start a later one when a slot comes free under way.
- A tick that read the roster before a company was paused starts a beat of it
  (`runtime.ts:114`).

Prompts:

- A registration on a session that has an entry clears its timer and settles
  nothing (`llm.ts:402`). Calls of `runPromptText` that overlap on an agent's
  shared session do it (`meetings/runtime.ts:113`, `sprints/review.ts:300`): the
  first one waits for ever.
- The late failure of a call's first prompt rejects the entry of its retry
  (`llm.ts:797-805`), because the handler goes by the current session.
- A timer that fires leaves the session in `activeNudges` and `nudgeIdleSkips`
  (`llm.ts:409-412`), against the comment at line 322; the wrap-up and the stall
  nudge may both abort a turn within one poll and share one skip.
- A query that throws after the session was registered and before the `try`
  leaks context and session (`run-beat.ts:200`). A beat that registers just
  after a cancellation of its company runs on (`llm.ts:488`).
- Beats of one agent that overlap replace each other's parked session without
  destroying it (`session-resume.ts:51`).

Sprints:

- Two calls of `sprint_create` both pass the guard (`proposals.ts:103`): two
  active sprints, one of them no company's current.
- A sprint finalized while `sprint_create` is still promoting is written back to
  `executing` (`proposals.ts:209`) and closed, deployed and announced again.
- Promotion writes the tasks as they were built (`proposals.ts:202-206`): a task
  finished meanwhile is open again.
- The finalize route (`sprints.routes.ts:309`) runs beside a check, and accepts a
  sprint without tasks; the check does not, and nobody wakes the CEO for one
  (`lifecycle.ts:169`), so a sprint whose inserts were all swallowed stands still.
- The one gate drops the check of a company while another deploys; only the next
  CEO beat makes up for it.
- The deletion of a sprint (`routes/sprints.routes.ts:35-45`) drops the row, reads
  the company and clears its pointer, without a lock. When `sprint_create` moves the
  pointer between the read and the clear, the new sprint is active and nobody's
  current: the guard lets the next one in beside it, and no check looks at it. A
  sprint deleted while it deploys loses its pointer and number: its snapshot is
  tagged 1, or with the number of the sprint that came after it
  (`lifecycle.ts:298`), and the CEO announces it.
- A task whose parent or sprint has no row has its company and its sprint written
  back as they were read (`task-persistence.ts:79-84`; any POST `/tasks` may name a
  parent that does not exist, `tasks.routes.ts:235`): the company's pointer goes back
  to where it was, a completed sprint is active again, and a deleted one is back.

Task rows:

- Verification, hydration and the clearing of progress start `updateTask`
  unawaited and run `persistTask` at once (`tasks.routes.ts:435`, `562`, `832`):
  the barrier reads the row before the update commits, waits for its lock and
  writes the old row back. The call answers "verified"; the row is unchanged.
- A barrier that read before a claim and writes after it leaves the task on
  offer with `checkout_run_id` set: claims find it taken, and the release looks
  for `in_progress` only. So do the cleanup's restate (`run-beat.ts:470`) and a
  promotion (`mutations.ts:444`) that plan a task while it is held, and a block whose
  clear fails (`tasks.routes.ts:418`).
- The read with which POST `/tasks` looks whether its id is free answers null when
  the database errs (`task-persistence.ts:47-54`): the creation then upserts a new
  row over the existing task (`tasks.routes.ts:212-214`) and reports success. Its
  updates are gone; its claim columns stay.
- The result of an append that failed is still a 200 (`swallowAndReport`).
- `referenceArtifactIds` of a PATCH has no effect: `artifactIds` is not a column,
  and `taskToInsert` drops it.

## 8. Not modelled, and what could come next

Not modelled: everything whose correctness is the content of prompts, files or
external processes (workspace, preview, deployments, meetings, skills, memory),
clients (web, tui, MCP server) and read-only views. These are most of the
repository's lines, and a model of them would have nothing to check.
`PROJECT.json` names each with its reason. Of the modelled components, what is
left out is in the notes there: cancelled and failed tasks, follow-ups, the
reviewing phase of a sprint and the board's approval, the reset of a whole
company, streaming, the suppression of repeated prompts, what the foreign-key
backfill of `persistTask` does to the task's own row.

Next, in this order:

1. A composition of engine and claims: the claimability query of the tick
   against the task table, so that a released task is known to wake a beat.
2. The meeting scheduler's single flight, the workspace's async queue, and the
   circuit breaker and respawn of the OpenCode process.
