# Forge Conductor for Windows: a specification of its durable work

Forge Conductor keeps the work of chat and worker sessions going when a session ends, a
provider fails or a process dies. Three parts of it promise something that no single
test can show:

* *Continuity.* It checkpoints a project's work into a *canonical handoff*, creates a
  *successor* session, sends it the handoff, waits for its acknowledgement and only then
  moves the project's active session. That is a distributed protocol of several processes
  (the Manager and the `mcp-serve` processes of the clients) over a SQLite database per
  project, a ledger file shared by the processes and a model provider, any of which can
  fail or be restarted between any two steps.
* *Project memory.* All calls of a process share a bounded cache of open databases, which
  are opened, evicted, closed and shut down while others use them.
* *Scheduled work.* The Manager starts worker runs from persistent schedules, across
  crashes and failing writes, never two at a time for one owner and never an uncertain one
  again.

This directory specifies these parts as the code implements them, checks them with TLC and
proves with TLAPS the repository, the handover, the session host with its ledger, the
coordinator over these, the cache and the scheduler with its runs.

Paths below are relative to the repository root.

## 1. Inventory

| Component | State | Operations | Interacts with | What makes it correct |
|---|---|---|---|---|
| Continuity vocabulary, `src/Domain/ContinuityModels.cpp` | none | transition relation, validators of bindings and acknowledgements, context budget | used by all below | every edge belongs to the protocol |
| Continuity repository, `src/Persistence/Windows/WindowsProjectMemoryRepository.cpp` | `rollover_operations`, `continuity_handoffs`, `rollover_transitions`, `project_active_sessions` | `createOperation`, `storeHandoff`, `compareAndSet`, `acknowledge`, `recordRetry`, `resetContinuity`, reads | called by the coordinator; each call is one `BEGIN IMMEDIATE` transaction | one unfinished rollover per project; never backward; nothing sealed or published without an exact acknowledgement; readable at its transition bound |
| Native session host, `src/SessionHost/ForgeNativeSessionHostAdapter.cpp` | loaded ledger, cancellations, serialized ownership | `createSession`, `queryByIdempotencyKey`, `bootstrap`, `awaitAcknowledgement`, `cancel`, `recover`, `shutdown` | the ledger file; the provider, between two sections of its lock | one session per key, one handoff per session, ready only if acknowledged, intent before effect |
| Session ledger, `src/Infrastructure/Windows/WindowsNativeSessionLedger.cpp` | one JSON file and its backup | `load`, `commit` with expected revision | all processes with an adapter | no process overwrites another's records |
| Provider transports, `src/Infrastructure/Windows/LMStudioResponsesTransport.cpp`, `src/SessionHost/LocalLogicalSessionTransport.cpp` | provider sessions | create, bootstrap, query | the adapter | (external) |
| Coordinator, `src/Application/ContinuityCoordinator.cpp` | none but its call frames | `checkpoint`, `rollover`, `resume`, `recover`, `acknowledgeHandoff`, `reset`, `cancel`, `shutdown` | repository and host | progress after any failure; what is durable agrees with what the host did |
| Manager maintenance, `src/Composition/Windows/ManagerMaintenanceService.cpp` | admission flag | periodic recovery of every project | the coordinator | every rollover is tried again |
| Project repository cache, `src/Application/ProjectMemoryRepositoryCache.cpp` | open entries, openings under way | open, close, evict, shutdown | everything that opens a project | at most one open repository per project, a pinned one never closed |
| Memory service, `src/Application/ProjectMemoryService.cpp` | operations under way, admission | any operation of a project, reset, close, shutdown | the cache, which it shares with the coordinator | no operation loses its repository; a shutdown ends |
| Worker runs, `src/Application/ManagedRunService.cpp`, `src/Infrastructure/Windows/WindowsReviewerRunStore.cpp` | running threads, receipt files | start, status, cancel, shutdown; a run's turns and tool calls | provider, tools, scheduler | a receipt tells what the run may have done, and a final one is final |
| Scheduled tasks, `src/Application/ScheduledTaskService.cpp` | the schedule file and its copy | tick, create, cancel, run now, list, shutdown | worker runs | durable admission before a run; no overlap; nothing uncertain repeated |
| Continuity automation, visible chat | observations, checkpoint file | observe, transition, cancel | coordinator, LM Studio window | no uncertain effect repeated |
| Agent sessions, other kinds of managed run | rows, receipts | spawn, message, finish | provider, repository | single transactions |
| Client presence | one row for each `mcp-serve` process | insert, heartbeat, remove | Manager | a row is its process's |
| Manager process, its pipe and controller | status, leases, shutdown | dispatch, reset, restart | everything | one Manager; reset is a lifecycle |
| MCP server | invocations in flight | initialize, call, cancel | clients, tools | each request answered once |
| Project memory, policy, registry, databases | project tables | records, search, import, backup, quarantine | SQLite | single transactions |
| Native tools, Windows infrastructure, telemetry, dashboard, composition, desktop application | jobs, samples, connections | operating-system effects, encoding, drawing | Windows | bounded resources |

`PROJECT.json` lists the same components with the state of their models. The first ten rows
are modelled here; the others are left out for the reasons in section 8.

### What is hard

* **Stale rows.** A coordinator call keeps the row its last transaction returned. Other
  calls of the same or another process, a client, a reset or a recovery may have moved
  it before the call's next compare-and-set.
* **Crashes between two durable effects.** Row, ledger file and provider are three
  stores; a process can die between any two of them, and what it had asked for may or
  may not have happened.
* **Retries.** A failed host call leaves the row in its state or in `RetryWait` with a
  due time; everything is tried again with the same idempotency key.
* **A ledger with several writers.** A process reads the file once; afterwards a
  revision comparison tells it that it is stale, but a failed commit leaves its change
  in its memory, and nothing excludes another process between comparison and replacement.
* **Sections.** The adapter holds its lock for short sections and lets it go while the
  provider works; everything read in one section may have changed in the next.
* **Pointers shared across sections.** The cache hands out a repository, and evicts, closes
  or shuts down repositories, in different sections of its mutex; opening one and closing
  one happen outside of it.
* **Several answers about one run.** A run has a thread, a published record, a receipt and a
  line in its schedule. Each can be ahead of the others; a write can fail though it was made.
* **Bounds.** 4096 transitions per operation (three for every retry), 4096 ledger
  records, 128 waiting calls, 256 remembered cancellations.

## 2. Modules

| Module | Models | State | Actions |
|---|---|---|---|
| `ContinuityModels` | `Domain/ContinuityModels.cpp` | constants only | `AllowedTransition`, state sets |
| `SessionHandover` | what a project is promised, abstractly | `stage`, `successor`, `active` | `Begin`, `Introduce`, `Acknowledged`, `Publish`, `GiveUp`, `Forget` |
| `ContinuityRepository` | the repository's transactions | `operations`, `handoffs`, `activeSession` | one for each transaction, any caller with any arguments |
| `ContinuityRepository_proofs` | theorems about the former | | |
| `NativeSessionHost` | adapter, ledger file, provider | `durable`, `memory`, `view`, `committing`, `hostCalls`, `answered` | one for each section of the lock and each provider exchange, cancellation, orphans, restart |
| `NativeSessionHost_proofs` | theorems about the former | | |
| `ContinuityCoordinator` | coordinator calls over the two former | `tasks`, `faults` and theirs | one for each transaction or section a call makes, faults, time |
| `ContinuityCoordinator_proofs` | theorems about the three together | | |
| `SessionHandover_proofs` | theorems about the handover and the repository's steps | | |
| `RepositoryCache` | `ProjectMemoryRepositoryCache` and the opener | `entries`, `older`, `pending`, `calls`, `live`, `requested`, `stopping`, `taken`, `openerClosed` | one for each section of the mutex, each opening and each closing |
| `RepositoryCache_proofs` | theorems about the former | | |
| `ProjectMemory` | `ProjectMemoryService` over the cache, with the coordinator's calls | `accepting`, `work` and the cache's | admission, use, reset, close, return, the shutdown's steps |
| `ProjectMemory_proofs` | theorems about the former | | |
| `WorkerRuns` | `ManagedRunService`, the receipt store | `receipt`, `active`, `faults` | one for each boundary, turn, tool call and save of a run; operators for the service's operations |
| `WorkerRuns_proofs` | lemmas about the former's steps | | |
| `ScheduledTasks` | `ScheduledTaskService` over worker runs | `manager`, `disk`, `records`, `op`, `scheduleOf`, `used` and theirs | one for each commit and each call of the run service an operation makes; clients; start, exit, crash |
| `ScheduledTasks_proofs` | theorems about the two former | | |
| `MC...` | instances for TLC | | who runs where, who uses which operation, symmetry |

### Correspondence with the code

*Repository.* A row of `rollover_operations` is a record in `operations`; the handoff id
is made together with the operation id and is identified with it. A canonical document
is its content and the successor bound into it; that pair is its digest. Every operation
of the class is one transaction, hence one action; a transaction that fails rolls back
and is the `...Fails` predicate next to the action. Just before its commit a transaction
reads its row back and validates it against the whole transition log
(`validateContinuityTransitionLedger`). `LedgerConsistent` is what that check refuses
beyond the explicit guards: a successor that appears or changes anywhere but at
`SuccessorCreated`. Times are kept relative to now (`retryDue`).

*Host.* `durable` is the file; `memory[h]` the copy of process `h` with its uncommitted
changes; `view[h]` says whether the copy is unloaded, current or stale, which is all the
revision number is compared for. `commitOwned` is `Commits` or `FailsToCommit`: the
second keeps the change in memory, as the code does. `WindowsNativeSessionLedger::commit`
compares the file first and replaces it afterwards, and nothing excludes the commit of
another process in between: `Compares` is the first half on its own, and a commit whose
first half is done (`committing`) replaces whatever is there. `Overlapping` says whether
that is allowed to happen. A bootstrap, publication or cancellation of the same process
waits for the second half, because the adapter's ownership is held (`Section`); a first
file is created rather than replaced and cannot be overwritten this way. `recover` without
`cancelOrphans` is a query or, for a record the provider was never told of, another
`StartCreate`. A call's `phase` names the section
it enters next. `answered` is a history variable: what the provider has acknowledged.
The statuses `Sealed` and `Failed` are stored by no code and are left out.

*Coordinator.* `tasks[p].at` is where a call stands; `row`, `document` and `session` are
its copies. What a call decides from its own copy alone belongs to the action before.
`recover` rolls over what `activeOperation` returns (`StartRollover`), and without
resuming cancels it (`StartCancelRecovery`, `RecoveryCancels`). A rollover that finds an
unfinished checkpoint calls `checkpoint` with the durable handoff (`RolloverPrepares`,
then the checkpoint's actions). Faults are actions of their own: a host call fails
(`HostFalters`), a transaction fails whose failure is answered by a retry
(`DatabaseFalters`), a call ends anywhere (`Abandon`: cancellation, deadline, shutdown or
any other failed transaction), a session is cancelled, a process restarts.

*Cache.* `calls[c]` is a caller's stack: the phase names the section or the closing it
enters next, `repository` and `target` are its shared pointers, so that `Holders` is what
`use_count` counts beside the entry. A refused call leaves everything as it was and is no
step. A repository object that nobody points to any more may be the next one opened
(`Gone`). `older` is the order of `lastUse`. A publication that finds its context cancelled
closes what was opened and ends the reservation afterwards (`PublishRefused`, `Abandon`);
one that finds the shutdown requested ends the reservation first (`PublishTooLate`,
`Discard`).

*Memory service.* `work[c]` is the operation that a caller is counted for. A reset commits,
lets its pointer go and asks the cache to close the project, which another caller may have
opened again or pinned meanwhile. Continuity's calls (`ContinuityCalls`) use the same cache
without being counted; `ServiceDrained` therefore waits for the service's operations only.

*Worker runs.* `active[r]` is the thread of a run and what it has published; `receipt[r]` its
file. `awaitDispatchBoundary` is `StopsAtBoundary` or `Passes`. A save is saved, lost, or made
and reported as a failure (`SaveOutcomes`); a receipt that is loaded without a final outcome
is rewritten as interrupted, which is why `Status` looks at `active` first.

*Scheduled tasks.* One mutex serialises the scheduler, and `op` is the operation that holds
it: its kind, the record it is at and the step it takes next. Every commit of the file
(`Commits`) and every call of the run service is a step of its own, between which runs go on,
clients poll and cancel runs, and the process may die. `scheduleOf` and `used` are history:
the correlation id a run carries, and the ids given out.

## 3. Runs

| Run | Question | Properties | Distinct states |
|---|---|---|---|
| `repository` | Do the tables hold under arbitrary callers with arbitrary stale rows? | `TypeOK`, `OneActiveOperation`, `AttemptBound`, `SuccessorBound`, `SealedOnlyAcknowledged`, `PointerIsAcknowledged`, `NeverBackward`, `FinishedIsFinal`, `CanonicalHandoffStable`, `ImplementsHandover` | 54 thousand |
| `host_one_process` | Concurrent calls of one adapter meet a full ledger: what gives way? | `LedgerBounded`, `EvictsOnlyCancelled` | 350 thousand |
| `host_two_processes` | Do two processes over one file, whose commits overlap or take turns, ever disagree on a ready session, lose one or rebind one? | `HostTypeOK`, `LedgersValid`, `ReadyMeansAnswered`, `OneReadySession`, `IntentBeforeBootstrap`, `NoSessionLostInTurn`, `BoundOnce`, `RevivedOnlyInFlight` | 1.2 million |
| `coordinator_one_process` | Two callers with two documents, a reset, a host failure and a restart: is what the tables call acknowledged what the provider acknowledged? | `AcknowledgedMeansAnswered`, `AcknowledgementFits`, `IntroducedOnce` | 1.3 million |
| `coordinator_two_processes` | Two clients that disagree, in two processes, one of which also recovers, acknowledges and gives up: is the recorded successor the host's, is it found again, and do table and host mean one document? | `SuccessorIsHosts`, `SuccessorFound`, `BoundAsAcknowledged` | 960 thousand |
| `coordinator_liveness` | Does every rollover end? | `EveryRolloverEnds` | 18 thousand |
| `project_memory` | Do openings, evictions, closings, resets and two shutdowns ever close a repository in use, lose one, pass the limit or hang? | `CacheBounded`, `OpenedOnce`, `HeldIsOpen`, `NoneLeaks`, `OpenerQuiet`, `OperationKeepsRepository`, `ShutdownCloses` | 35 thousand |
| `scheduled_tasks` | Do ticks, clients, runs, a failing store and crashes ever overlap two runs, start one that is not admitted, or repeat an uncertain one? | `CallsAreRecorded`, `OutcomeIsFinal`, `NoOverlap`, `AdmittedBeforeStart`, `NoAutomaticRetry`, `CancelledStays` | 1.25 million |
| `reset_recreates` | finding 1 | `OnlyClientsBegin` (violated) | |
| `recovery_stuck_in_retry` | finding 2 | `RecoveryCanCancel` (violated) | |
| `successor_split` | finding 3 | `SuccessorFound` (violated) | |
| `ledger_lost_update` | finding 4 | `NoSessionLost` (violated) | |

Every property of a passing run has a mutant: a plausible mistake in one mapped
definition (a dropped guard, a missing reset, a changed order) with which TLC finds the
property violated under the same configuration. Mutants stand next to what they change
and are marked `Mutant:`.

### Bounds, and why they are enough

* `Operations`, `Keys`: two in `repository`, for a second rollover beside the first, key
  clashes and completed rows next to live ones; one in the coordinator's runs, because
  `OneActiveOperation` leaves only one to work on and a reset uses the same one again.
* `Sessions`: two successors are one more than the protocol should ever introduce. The
  coordinator's runs have a predecessor besides.
* `Contents`: two where clients can disagree. `Adapters`: one, the native host.
* `MaxTransitions` stands for 4096. In `repository` it is 12: one path to `Completed` is
  eight transitions, which leaves room for a retry (three) and for running into the
  bound. The coordinator's runs use 11 to 16 so that their faults fit in.
* `MaxRecords` is 1 in `host_one_process`, so that the second key meets a full ledger,
  and 2 elsewhere. `Responses`: one response id, which is fresh or is in use.
* `Overlapping` is the set of answers to whether the commits of two processes may overlap: both
  in `host_two_processes`, where every behaviour has one of them, TRUE in
  `ledger_lost_update`, and FALSE elsewhere.
* `project_memory`: three projects in a cache of two, so that an opening has to evict; two
  callers, one of the service and one of continuity, so that every section of one meets every
  section of the other; two stoppers, because a second shutdown waits for the first; four
  repositories, more than the entries and the callers can hold at a time.
* `scheduled_tasks`: two schedules of one owner, one with a single time and one with an
  interval, are what overlap takes. Three runs: the run starts when the first schedule's run
  has completed, which leaves one run for each schedule, or a run and its repetition.
  One fault, at any save or load of any file; crashes are not counted.
* `MaxFaults` bounds the faults of one behaviour (one or two), `FaultKinds` says which.
  `Offered` says which operations each caller uses; a caller may use them any number of
  times and in any order.
* Symmetry is used only over ids that no definition tells apart, and never in a run that
  checks liveness.

`CHECK_DEADLOCK FALSE` stands in two configurations: `ProjectMemory.cfg`, because after the
shutdown everything stops, and `ScheduledTasks.cfg`, where the run ids are used up at last.
In the other runs calls may always be begun, time passes or a reset is possible.

### Fairness

`FairSpec` of the coordinator assumes: a call that has started is run on (threads are
scheduled, provider calls have deadlines and return an answer or a failure); the Manager's
maintenance worker keeps calling `recoverIncompleteOperations` with resuming
(`ManagerMaintenanceService::reconcile`); a retry time passes. Nothing is assumed of
clients, and nothing of faults but that they are finitely many. The run has one host
process and a writable ledger file; without either the property does not hold, and
section 7 says why.

`MemorySpec` assumes that an operation of the service and a call in the cache run on and end
in their threads, and that a shutdown that has begun runs on. It does not assume that anybody
shuts the service down, nor that continuity ever lets a repository go: the shutdown closes
pinned ones too.

## 4. Properties worth a comment

* `SealedOnlyAcknowledged`: the transition relation lets a compare-and-set enter
  `Acknowledged` from `BootstrapSending` with no acknowledgement at all. Only the check
  before sealing keeps the pointer from moving; that check reads one table, the property
  relates two.
* `NeverBackward` compares stages across retries: a row in `RetryWait` stands at the state
  it resumes, so a retry resumed one state too early or too late is a step backward or a
  jump.
* `FinishedIsFinal`, `CanonicalHandoffStable`: late acknowledgements, late retries and
  repeated checkpoints with the same key must not touch what is finished or bound.
* `AcknowledgedMeansAnswered` and `ReadyMeansAnswered` tie the durable claims to the
  history of the provider.
* `IntroducedOnce`: one key introduces one session and tells it one document, also when
  the project is reset and the key is used again: the host's ledger outlives the reset.
* `RevivedOnlyInFlight` states precisely what the adapter guarantees about cancellation:
  a call that had passed its check before may still bring its session back; a call begun
  later, or a late acknowledgement, may not.
* `OneReadySession`, `IntentBeforeBootstrap`, `NoSessionLostInTurn` and `BoundOnce` are what the
  processes owe each other. They rest on the ledger's contract, that a commit succeeds
  only if the file has not changed; where commits overlap the code does not keep it
  (finding 4). `ReadyMeansAnswered` and `LedgersValid` do not rest on it: what a process
  claims ready has been acknowledged even when its record is overwritten.
* `SuccessorIsHosts`, `SuccessorFound`: after any crash the next call finds the recorded
  successor at its host; the error that ends a rollover for good never happens. Both hold
  while one process rolls over and the ledger file can be written; finding 3 is what
  happens otherwise. The runs of the coordinator have `Overlapping` FALSE: with finding 4
  no statement about the recorded successor and the shared file can hold. Section 6 proves
  both from exactly these conditions.
* `HeldIsOpen` is what a shared pointer does not give: it keeps the object, not the open
  database. It rests on the test of `use_count` and the removal of the entry being one
  section. `OperationKeepsRepository` adds that the one exception, the shutdown of the cache,
  never happens under an operation the memory service counts.
* `NoneLeaks` and `ShutdownCloses` go together: an opening that outlives its caller or the
  shutdown must still be closed by somebody, and the reservation it leaves must end.
* `NoOverlap` (`docs/HOST-CAPABILITIES.md:118-128`) is about the threads, not the records: a
  record may say `ended` or be forgotten by "run now" while the run's thread could still work.
  It needs that an observation is never older than the thread's end, across restarts.
* `AdmittedBeforeStart` and `NoAutomaticRetry` are the two halves of "at most once": nothing
  starts that a restart would not know of, and nothing that may have had an effect is started
  again unless the user has said so.
* `CallsAreRecorded` and `OutcomeIsFinal` are what the scheduler's conclusions from a receipt
  rest on.

## 5. Refinements

`ContinuityRepository` implements `SessionHandover`: `HandoverStage` maps a row to
*preparing*, *introduced*, *acknowledged*, *published*, *giving up* or *given up*, a
waiting row to the stage it will resume; `successor` and `active` are columns. TLC checks
`ImplementsHandover` in the run `repository`, and `RepositoryImplementsHandover` proves it:
every transaction of any caller is a step of the promise or invisible to it. The mapping
depends on the read-back of the transition log; without it (`LedgerUnread`) a caller can
replace a recorded successor.

`ProjectMemory` uses `RepositoryCache` by its actions, so that it refines it with the identity
(`MemoryUsesCache`): what is proved of the cache for any callers holds of the composition.

## 6. Proofs

Every theorem holds for all values of the constants that satisfy the named assumptions.

`ContinuityRepository_proofs` and `SessionHandover_proofs`: any sets of ids and every bound of
at least three transitions (`MaxTransitionsAssumption`; `NoneAssumption` says that the absent
value is none of the others and no state).

| Theorem | States |
|---|---|
| `RepositoryInvariant` | `RepositorySpec => []IInv` |
| `RepositoryTypeCorrect` | `[]TypeOK` |
| `OneActiveOperationAlways` | `[]OneActiveOperation` |
| `AttemptBoundAlways` | `[]AttemptBound` |
| `SuccessorBoundAlways` | `[]SuccessorBound` |
| `SealedOnlyAcknowledgedAlways` | `[]SealedOnlyAcknowledged` |
| `PointerIsAcknowledgedAlways` | `[]PointerIsAcknowledged` |
| `FinishedIsFinalAlways` | `FinishedIsFinal` |
| `NeverBackwardAlways` | `NeverBackward` |
| `CanonicalHandoffStableAlways` | `CanonicalHandoffStable` |
| `RepositoryImplementsHandover` | `RepositorySpec => ImplementsHandover` |

The checked invariants are not inductive by themselves. Sealing compares the two columns
of the row (`acknowledged_session_id` and `successor_session_id`) and never looks at the
handoff table, so what that table holds has to be carried along from the acknowledgement:
`AcknowledgementExact`. And the argument needs every row to have its handoff
(`HandoffWithOperation`), which `createOperation` and the reset establish in one
transaction each. `IInv` is the conjunction; there is one lemma for each transaction
(`CreateKeeps`, `StoreKeeps`, `SetKeeps`, `AcknowledgeKeeps`, `RetryKeeps`, `ResetKeeps`,
`TimeKeeps`), and within a lemma one step for each conjunct the transaction can disturb.
`FinishedIsFinalAlways` uses the invariant too: an acknowledgement of a completed row is
harmless only because of what `SealedOnlyAcknowledged` says of it.

The action properties and the refinement need one thing more, `EarlyUnbound`: before
`SuccessorCreated`, and while it waits for a retry of such a state, a row has no successor.
Only then is a row that is introduced introduced for the first time. `HInv` is `IInv` with it.
The refinement is proved transaction by transaction: `RowStage` and `RowSuccessor` say how one
row maps, `OnlyRow` that a transaction changes the map at its own row only, and each
transaction is then one of the abstract actions or leaves the mapped variables as they are.

`NativeSessionHost_proofs`, for any processes, callers, keys and sessions and every limit
(`HostNoneAssumption` and `PendingAssumption` say that the absent value is none of the others):

| Theorem | States |
|---|---|
| `HostInvariant` | `HostSpec => []HostInv` |
| `HostIsTyped` | `[]HostTypeOK` |
| `LedgersStayValid` | `[]LedgersValid` |
| `LedgersStayBounded` | `[]LedgerBounded` |
| `ReadinessIsAnswered` | `[]ReadyMeansAnswered` |
| `EvictionIsSafe` | `EvictsOnlyCancelled` |
| `RevivalIsInFlight` | `RevivedOnlyInFlight` |
| `BindingIsFinal` | `BoundOnce` |
| `ReadySessionIsOne` | `HasRoom`: `[]OneReadySession` |
| `IntentIsDurable` | `HasRoom`: `[]IntentBeforeBootstrap` |
| `SessionsAreKept` | `HasRoom`: `NoSessionLostInTurn` |

Calls hold copies of sessions while other calls change the ledgers, and `KeysOfSession` looks a
session up by id where the code then changes the record of its key. That this is one record is
`Coherent`: an id belongs to one key in every ledger and every call, since a creation takes an
id nobody holds. With it `LedgersOK` (what a record of each status has) and `CallsOK` (what a
call in each phase holds, and that the provider has acknowledged it) are inductive, whether or
not commits overlap. `InTurn` is what the revision comparison is worth without overlap: a
process that is not stale is bound to whatever the file is bound to. Every action but a few is
a section of the lock, and every section turns one ledger into another (`Develops`): it
continues the records, gives up at most a cancelled one and adds at most one nobody has. The
lemmas show that of each action (`PublishIsSection`, ...), `StepKinds` collects them, and the
rest of the argument speaks of sections only.

The last three theorems assume `HasRoom`, that the bound is not below the number of keys, as in
their run: a full ledger may give up a cancelled session whose bootstrap is still on its way,
or that another process still has ready. `RoomInv` adds that a current process has every
session of the file and that what is sent or ready is recorded there.

`ContinuityCoordinator_proofs`, for any callers, processes, operations, keys, sessions and
documents and every bound, faults included. Besides the assumptions of the repository and the
host, `DocumentNoneAssumption` and `KeyNoneAssumption` say that the absent value is no document
and no key.

| Theorem | Assumes | States |
|---|---|---|
| `CoordinatorInvariant` | | `Spec => []CoordinatorInv` |
| `CallsAreTyped` | | `[]TaskTypeOK` |
| `CoordinatorUsesRepository` | | `Spec => RepositorySpec` |
| `ProjectKeepsHandover` | | `Spec => ImplementsHandover` |
| `CoordinatedHostIsSound` | | `[](LedgersValid /\ ReadyMeansAnswered /\ LedgerBounded)` |
| `AcknowledgementsFit` | | `[]AcknowledgementFits` |
| `OnlyRetryRefusesCancel` | | `[]RecoveryCancelsRunning` |
| `KeyIntroducesOnce` | `HasRoom` | `[](~overlaps => IntroducedOnce)` |
| `AcknowledgedIsAnswered` | one key for each operation, no client acknowledges | `[]AcknowledgedMeansAnswered` |
| `BoundIsAcknowledged` | no resets | `[]BoundAsAcknowledged` |
| `OnlyResetsRecreate` | no resets | `OnlyClientsBegin` |
| `SuccessorIsFound` | `HasRoom`, `~FileFails`, one key for each operation, `[]NoStaleCreation` | `[](~overlaps => SuccessorIsHosts /\ SuccessorFound)` |
| `OneProcessFindsSuccessor` | `HasRoom`, `~FileFails`, one key for each operation, one process | the same |

*The invariant.* A call keeps copies of a row, a handoff and a session while others change
them. `CoordinatorInv` does not say that the copies are current, since nothing ensures that. It
says that they fit one another: `TaskOK` lists what a call has at each point, `ForItsRow` that
the session of a rollover was created for the row it holds, `WaitsFor` that the host call it
waits for is the one it made with these copies. So an acknowledgement that comes back is of that
session with that document. `OneKeyPerSession` extends the host's `Coherent` to
the sessions the calls hold: an answer may come back to a call after its record has left every
ledger, and a fresh id must not be the one it holds. It is also why the model's `KnownSessions`
counts the sessions of calls: an id of the provider is never used twice.
`AcknowledgedTogether` relates the two tables that `acknowledge` writes. With it the actions of
a call are shown, one lemma for each, to be transactions of the repository and sections of the
host (`CoordinatorStep`); the first gives `CoordinatorUsesRepository` and with it every theorem
about the repository, the second keeps the host's invariant.

*Where things come from.* The other theorems relate a table, a ledger and calls, each of which
gets what it holds from the others. Four lemmas state that once for all actions: what a changed
row has it had or got from a call (`RowsFrom`), what a call has it had or read from a row, a
request or a ledger (`CallsFrom`), what a ledger records it had or got from a host call
(`LedgersFrom`), and a host call's session and document are its coordinator call's or the
ledger's (`HostCallsFrom`). Each further invariant (`AnswersRecorded`, `KeysSubmitted`,
`AcknowledgedRows`, `CopiesOfRows`, `DocumentsBound`, `SessionsInFile`, `OneView`) is then kept
by an argument about origins that does not look at the actions again. TLC has found all of them
to hold in the instances of section 3 before they were proved.

*The hypotheses.* None is about the number of anything but `HasRoom`, for which see above.

* One key for each operation (`OneKeyPerOperation`): a request that names no key has its
  operation id for one (`src/Application/ContinuityCoordinator.cpp:94`), which is how the
  continuity automation calls it, and the table refuses a second key while the row exists. A
  tool call may name any key. If a reset removes an operation and a client creates it again
  with another key, a call from before the reset can record the session it created for the old
  key on the new row.
* That no client acknowledges: `continuity_acknowledge` writes what the client says; that
  it is true is then the client's word. `BoundIsAcknowledged` allows such clients, and what it
  gives up instead are resets: the host's ledger outlives them, so a key that is used again
  with another handoff finds the binding of the first.
* `~overlaps`: finding 4. `BoundIsAcknowledged` does not need it.
* `~FileFails` and `NoStaleCreation`: finding 3. `NoStaleCreation` says that no process with a
  stale copy of the ledger begins to create a session it does not know. The hypothesis is on
  the behaviour, since nothing in the code prevents it. It holds in the instance of
  `coordinator_two_processes`, where one process rolls over and the other does not, and fails
  in that of `successor_split`, where both do. With one process there is no stale copy, and `OneProcessFindsSuccessor`
  proves that it holds.

`RepositoryCache_proofs`, for every finite set of projects, any callers, stoppers and
repositories and every limit:

| Theorem | States |
|---|---|
| `CacheInvariant` | `CacheSpec => []CacheInv` |
| `CacheStaysBounded` | `[]CacheBounded` |
| `CacheOpensOnce` | `[]OpenedOnce` |
| `CacheKeepsHeld` | `[]HeldIsOpen` |
| `CacheLosesNone` | `[]NoneLeaks` |
| `CacheLeavesOpener` | `[]OpenerQuiet` |

`CacheInv` adds to the properties who refers to what: a call has the pointers its phase says,
an entry is open and belongs to one project, a reservation belongs to the one call that opens
its project, and nobody else points to what is being closed.

`ProjectMemory_proofs` proves `MemoryUsesCache` (`MemorySpec` implies the cache's steps),
hence `MemoryIsBounded`, and `MemoryKeepsRepository` (`[]OperationKeepsRepository`) with the
invariant `Drained`: once a stopper has begun, the service is not accepting and none of its
operations is under way, so none can be admitted either.

`ScheduledTasks_proofs`, for any number of schedules, runs and faults, any owners and any mix
of single and repeated schedules (`RunNoneAssumption` and `TaskNoneAssumption` say that the
absent value is none of the others):

| Theorem | States |
|---|---|
| `Invariance` | `Spec => []TInv` |
| `TasksAreTyped` | `[]TasksTypeOK` |
| `RunsNeverOverlap` | `[]NoOverlap` |
| `AdmissionPrecedesStart` | `AdmittedBeforeStart` |
| `NothingIsRetried` | `NoAutomaticRetry` |
| `CancellationsStay` | `CancelledStays` |
| `OutcomesAreFinal` | `[]OutcomeIsFinal` |
| `CallsRecorded` | `[]CallsAreRecorded` |

`TInv` has two halves. `StoredInv` relates what is stored: `Recorded` says of the file and of the
service's records what they know of the runs, above all that the last run of a schedule that has
a receipt is its `latest`, unless the user has authorized another; `LiveRecorded` that a run which
works is the open `latest` of its schedule and not taken for interrupted; `CancelsKept` that the
file is never behind the records. It has to be said of both lists, since a commit that is made
and reported as failed leaves them different, and a restart takes the file. `OpShaped` says what
an operation relies on between two of its steps: an answer is not overtaken while the operation
that asked holds the mutex (`Observing`), because no run comes to life but by the scheduler and
a final receipt is not rewritten. That is `Calm`, which `WorkerRuns_proofs` shows of every step of
the threads and every call of the run service but a start. There is one lemma for each action
(`ReconcileAsksKeeps`, `FireKeeps`, ...); what a commit stores is argued once, in `Stores` and
`Updates`. `StartsWhereAdmitted` is what two of the action properties rest on: a receipt appears
nowhere but at the step after a durable admission.

Only model-checked: liveness, `EveryRolloverEnds` and `ShutdownCloses` (fairness and ENABLED
are outside the proof system's reach). Every safety property of a passing run is stated by a
theorem, and the instances of the runs meet the hypotheses of the theorems.

## 7. Findings and known limits of the code

1. **A reset can be undone by a rollover in flight** (`reset_recreates`,
   `src/Application/ContinuityCoordinator.cpp:276`). A rollover that read an unfinished
   checkpoint before the reset inserts the operation and its handoff again. The reset
   closes the repository only after its commit and only if nobody holds it;
   `docs/ARCHITECTURE.md:82` says that the reset "closes the affected repository
   generation so a stale owner cannot continue writing after a committed reset".
   `OnlyResetsRecreate` proves that it takes a reset: otherwise only checkpoints of clients
   insert operations.
2. **Recovery cannot cancel an operation that waits for a retry**
   (`recovery_stuck_in_retry`,
   `src/Persistence/Windows/WindowsProjectMemoryRepository.cpp:5526`). The guard that binds
   `RetryWait` to its resume state also refuses `Cancelling`, which the transition relation
   allows. The Manager itself only recovers with resuming. `OnlyRetryRefusesCancel` proves
   that this is the only state in which it is refused, unless another caller has moved the row
   or its transitions are used up.
3. **A failed ledger commit splits the successor** (`successor_split`,
   `src/SessionHost/ForgeNativeSessionHostAdapter.cpp:327`). The uncommitted record stays in
   memory, is joined by the retry, published in memory and recorded by the coordinator as
   the durable successor. After a restart no call can finish that rollover.
4. **Two processes can both commit the ledger at one revision** (`ledger_lost_update`,
   `src/Infrastructure/Windows/WindowsNativeSessionLedger.cpp:736`). The comparison and the
   replacement are excluded against each other only within a process. The contract
   (`include/ForgeConductor/Contracts/INativeSessionHostServices.h:43`) promises a commit
   "only if expectedRevision still matches durable state"; two rollovers of different
   projects in two processes are enough for one to lose its session from the file.

The SessionHost keeps its ledger in the data root, Manager and `mcp-serve` keep theirs in
`memory/` below it and take the other over once, when they have none. Its
`recover --cancel-orphans` therefore never ends a session of theirs, and the coordinator's
model has no such fault.

Limits that bear on liveness, each listed as a hazard in `PROJECT.json`: a process whose
copy of the ledger is stale fails every commit until it is restarted; a successor that was
cancelled in the host, or lost by a provider that gives it another id, makes its rollover
retry until its transitions are used up; an operation that has used them up can only be
removed by a reset. Two callers that roll over one operation at once can set each other back:
when the provider reports a ready session as not ready, the one binds and sends again, and the
other, whose bootstrap had succeeded, finds the session not ready, or under a new provider id,
and records a retry. Each such meeting costs three transitions, and no fairness of threads
bounds how many there are: with two such callers (`RollingClientAndRecovery` instead of
`ClientAndRecovery`) TLC finds a rollover whose transitions are used up though no fault
happened. The code allows 4096 of them and its retries wait, so that this takes more than a
thousand meetings. `EveryRolloverEnds` is therefore checked with one process and one caller
that rolls over, a writable file and no cancellation of host sessions.

## 8. What is not modelled, and why

*Abstracted in what is modelled.* Wire formats, checksums, SQLite itself (a transaction is
atomic, a failed one has no effect), HTTP, the contents of handoffs, timestamps and their
order, the 32-step bound of a coordinator call (no path is that long), the queue of the
adapter's serialized ownership (a call it refuses is a `HostFalters`), adapters other than
the native one, other projects (nothing is shared between projects but the ledger, whose
records are told apart by key). What the atomic replacement of a file does inside the file
system, and the choice of a backup after a torn write. In the cache and in the ledger, running
out of memory: once the file is replaced, nothing else makes a commit report a failure
(`src/Infrastructure/Windows/WindowsNativeSessionLedger.cpp:785`).
In the memory service, what an operation does in its repository; `resetAllProjectMemory` is
the same resets one after another under one admission. In the worker runs, pausing and the
continuity of a run, which workers are not given, read-only reviewers and `agent_spawn`; a
cancelled run counts as failed and one being cancelled as running, between which nothing that
follows distinguishes; asking for the status of a run looks for its thread and loads its receipt
in one step (`src/Application/ManagedRunService.cpp:297`), between which only the start of that
run could come, whose id nobody is told before it has started. In the scheduler, the
notifications and the commits that record them, other commits that change no field of the
model, a tick that its deadline ends between two schedules (the next tick goes on where
nothing was begun), history, frozen scopes and revisions.

*Left to TLC.* Liveness of the scheduler is not checked: its state space under fairness
exceeds what TLC finishes, and its safety runs use the time better.

*Components left out.*

* Continuity automation and the visible chat act on a window of another program; a model
  would state assumptions about that program.
* Client presence, agent sessions, policy, the registry: one transaction per operation, with
  no state kept between them.
* The MCP server's protocol, the dashboard, telemetry and the desktop application decode,
  encode and draw.
* Native tools, Windows infrastructure: effects of the operating system.
* Composition: wiring.
