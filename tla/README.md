# MusicForge: specifications and proofs

TLA+ modules, TLC runs and TLAPS proofs for the parts of MusicForge (`song_agent`) whose
correctness depends on order: who writes when, what a crash leaves behind, and who still
holds what he read. Paths below are relative to `src/song_agent/`.

## The system

| # | component | code | state it keeps | operations | module |
|---|---|---|---|---|---|
| 1 | workspace write lock | `platform/persistence/locks.py` | lock file with pid, token and lease; a re-entrant mutex, depth and owner per process | acquire, release, recover, removal of a stale lock | `WorkspaceLock` |
| 2 | artifact transactions | `unit_of_work.py`, `file_artifacts.py`, `recovery.py` in `platform/persistence` | intents, staging directories, generation directories with a commit marker, `current.json` per namespace, generation rows | stage, commit, abort, recover | `ArtifactTransactions` |
| 3 | program documents | `program.py`, `database.py` | content-addressed authority objects, rows and events per document, pending projections, index, JSON files | write_projection, read_projection, recover_pending, adopt_legacy_document, aggregate | `ProgramDocuments`, `ProgramDisturbances` |
| 4 | legacy migration | `migrations.py` | backups, migration rows, import ledger | dry_run, execute, rollback | `ProgramMigration` |
| 5 | job store | `interfaces/api/runtime_parts/job_store_parts` | the job objects in memory, `job-state.json` per run directory, daemon threads | create, start, cancel, retry, node retry, hide, delete, watchdog tick, load at start | `JobStore`, `JobClients` |
| 6 | batch runner | `batch_runner_parts`, `domains/creation/batching.py` | batch documents, one driver thread per batch, render threads | launch, pause, resume, retry, render, delete, recover at start | `BatchRunner`, `BatchRender` |
| 7 | sign-off lifecycle | `platform/lifecycle`, `domains/program/*signoff.py` | sign-off, binding, change requests, hash-chained history, packages | sign, create and approve a change request, reset, export, build, verify | `SignoffLifecycle` |
| 8 | evidence migrations | `v13_migration.py`, `v14_migration.py` | plan, intent and report around component 4 | plan, apply, rollback | not modelled |
| 9 | workflow repository | `repository.py` | generation rows with optimistic versions | compare-and-swap updates | not modelled |
| 10 | node graph and graph runner | `domains/creation/node_graph.py`, `node_store.py`, `runtime.py`, `application/generation` | a record per pipeline node, song plan, MIDI file, report | run all, retry a node, invalidate downstream nodes, resume | `NodePipeline` |
| 11 | verification, evidence graph, policy, authentication | `platform/verification`, `platform/policy`, ... | none | pure functions | not modelled |
| 12 | business stores and verifiers | `domains/*` | JSON documents, through component 3 or plain files | read, check, write | not modelled |
| 13 | CLI, HTTP server, web pages | `interfaces` | none of their own | call the others | not modelled |
| 14 | generation, renderers, providers | `domains/creation`, ... | files of a run directory | produce music | not modelled but for their stage boundaries |

How they interact. Components 2 to 4 commit between `acquire` and `release` of component 1; only
staged files, the removal of a staging directory and authority objects are written outside it.
Recovery (`recovery.py:95`) finishes artifact transactions and then asks component 3 to replay
what is pending. The migration writes rows of component 3 in its own database transaction and lets
the repository project them. HTTP handlers, generation threads and the watchdog thread share the
job objects of component 5 by reference; the generation calls back into the store at every stage
boundary. The batch runner polls the job store and keeps its own document of what it started. A
generation thread of the job store runs the node graph on the job's run directory. The sign-off
lifecycle runs under the lock of 1. Components 2 to 4 may run in several processes at once (server
and command line); 5 and 6 are threads of one server.

What is hard:

- **Files as a lock.** Creating, reading and unlinking the lock file are separate calls; pids are
  reused; a crash may leave an empty file (1).
- **Several durable writes per operation** and a crash between any two, also of the recovery
  itself; no file is synced, so a power loss can take back writes of an operation that has long
  returned, and keep later ones (2, 3, 4, 7).
- **Checks outside the lock.** The job store's lock makes one update atomic, not the check that
  led to it, nor a document that is read under no lock and saved (5, 6).
- **Results reused by a later run**: a record that was right when it was made (7, 10).
- **Objects that outlive their entry.** A thread holds the job object after a delete (5).
- **Waiting for something that may never come**: a lock whose owner died, a generation that hangs
  (1, 5).

What makes each component correct:

1. At most one thread of one process has the workspace; a release removes only its own lock;
   every attempt ends.
2. `current.json` moves by compare-and-set from one complete generation to the next; a returned
   commit is durable, until its files are lost to a power loss; a recovery that says it passed leaves all-or-nothing transactions.
3. A document is an atomic register with a complete history, whatever stops where.
4. A migration is invisible to readers and a rollback takes back exactly what it brought.
5. The file follows the job, a cancel is obeyed, one thread works on a run directory, no job is
   shown as running for ever.
6. An item is made and rendered by one job or thread at a time; a pause holds; a running batch has a
   driver and ends; the project has one version per item.
7. The history is a chain; what the sign-off binds exists; a change request is used once; a
   package belongs to the sign-off in force and is recorded.
10. Recorded outputs fit together; a completed job has one whole plan, MIDI file and report.

## The models

### WorkspaceLock (`WorkspaceLock.tla`, `ExclusiveLock.tla`)

One action per file or mutex operation, so that every window of the code is one of the model.
`lockFile` is the file (its creator's pid, its token, and whether its JSON is written yet),
`mutex` and `holds` the `RLock`, `token` the owner the process remembers, `pc` the place of a
thread. `acquire` is `Call`, `EnterMutex`/`Reenter`, `Create`, `Write`, `WriteFails`, `Exists`,
`JudgeStale`, `Retry`, `GiveUp`, `Abandon`, `Discard`; `_remove_stale` is `Confirm`, `Changed`,
`OwnerIsBack`, `Unlink`; `release` is `ReleaseNested`, `Release`, `Drop`, `DropFails`; `recover`
is `CallRecover`, `RecoverRead` and the removal steps. The constant `Faults` chooses what may
happen: crash, pid reuse, failed write or unlink, `recover` and `recover --force`. Lease times
and the deadline are abstract: a live owner whose lease expired is not stale in the code, and
the deadline may pass at any time. The history variable `stolen` says that an unlink hit a lock
other than the one it judged.

`ExclusiveLock` is what the callers rely on: one holder, taken and given back atomically.

### ArtifactTransactions (`ArtifactTransactions.tla`, `ConditionalPublish.tla`)

A transaction is a number; per transaction the model keeps which of its five traces exist
(intent, staging directory, generation directory, row, marker) and per namespace the pointer.
`commit` is `WriteIntent`, `MoveGeneration`, `WritePointer`, `RecordRow`, `WriteMarker`,
`FinishIntent`, `Return`; any step may be the last (`Interrupt`), after which the caller may
commit again. `StartAbort`, `Abort` and `EndAbort` are `abort`, which looks at no state and takes no
lock: it removes the transaction directory entry by entry, also of a commit that returned, and can
stop halfway. `recover` walks the unfinished intents (`StartRecovery`,
`RecoverPointer`, `RecoverRow`, `RecoverMarker`, `RecoverIntent`, `RestorePointer`,
`RollBackIntent`, `ClearStaging`, `EndRecovery`), refuses where the code raises
(`RefuseMismatch` and the unreadable torn intent of `TearIntent`), and may itself stop
(`StopRecovery`). The code syncs no file. `LosePower` strikes one transaction at any time after its
intent was written, also long after its commit returned or was recovered: it takes back any of the
renames and writes made for it (intent, generation, marker, pointer, each by itself), and ends every
process. A loss that strikes several transactions is several such steps. Two things are taken as
given: a file has its contents when its rename is there (the order in which the usual journaling
file systems write a replaced file), and the row stays, since SQLite syncs its log before a commit
returns (`database.py:72`). Nothing in the repository calls `abort`, so that it may come at any time. The lock is taken as exclusive (component 1).

What the properties say of a transaction that a loss strikes, they say in the variable `lost`: its
row stays, and no other transaction is damaged.

`ConditionalPublish` is a compare-and-set register per namespace.

### ProgramDocuments, ProgramDisturbances, DocumentRegister

A write is `StoreObject` (outside the lock), `Enter` (take the lock), the replay of what others
left (`ReplayProjection`, `ReplayIndex`), `RecordEvent`, `WriteProjection`, `CommitIndex`,
`FinishWrite`; a read is `Ask`, `Enter`, the replay, `Read`. `Fail` stops a caller between any
two steps. Every check on which the repository raises is an action of its own (`RefuseVersion`,
`RefuseObject`, `RefuseIndex`, `RefuseRead`, ...). `ProgramDisturbances` adds what the code does
not do itself: a lock removed under its holder, a damaged object, an edited projection file.

`DocumentRegister` is the promise to the stores above: each document is an atomic register.

### ProgramMigration

Extends `ProgramDocuments` with migrators that `PlanMigration` (the id is the hash of the files,
computed before the lock), `BackUp`, `Import` and `RollBack`, with the refusals of `execute`
and `rollback` and a stop between any two. The workflow objects imported by the same
transaction are left out.

### JobStore, JobClients

One job, since jobs share only the lock. `job` is the `JobState` object that all threads hold,
`listed` whether `self.jobs` has it, `disk` its `job-state.json`. A handler that decides
without the lock is two actions: `Decide` reads the status, `CancelQueued`, `CancelRunning`,
`Retry`, `RetryNode` or `Hide` updates. `Update` is `_update_job`: the object, the list and the
file. A thread goes from `Begin` through `MarkRunning`, `Check`, `Beat`, the control callbacks
(`Control`, `Tick`), `FinalCheck`, `FinalBeat` to `Complete`, or ends in `Drop` or `FailJob`; a
node retry begins with `NodeBegin` and has no final check. `Silence` is the passing of the stall
timeout, `Notice` and `MarkStalled` the two halves of a watchdog tick, `Restart` the server's
stop at any moment and `load_existing_jobs`. Edit jobs live the same life with fewer checks;
provider mode, whose configuration may fail to load, is left out. `JobClients` has the history
`crossed`: a handler acted while another one was at work. Two retries at once then start two
threads and a hide that meets a delete lists the job again; `OneThreadPerStall`,
`ActiveIsWorkedOn` and `JobSettles` hold until this happens, the other properties in any case.

### BatchRunner, BatchRender

One batch: `stored` is `batch.json` and `items.json`, `jobs` what was created for its items
(component 5: what each job shows, and how many threads work on it), `attached` the versions of the
project. Every actor has a `copy`: the document it read and the one it will save, since reading,
changing and saving are three steps of the code. A handler is `Handle` (launch, pause, resume,
retry, hide, delete), then `Save`, the start of items under the runner's lock, and
`_ensure_thread`. The driver alternates the start of items with two syncs per round and ends
when nothing is left. The job store's part is `Settle` (a thread of a job ends and says how),
`Revive` (a thread that begins lists a cancelled or deleted job again), `Stall`, `RetryJob` and
`DeleteJob`, by the watchdog and by requests that know nothing of the batch. `Restart` kills all
threads (a save in progress may have written one of the two files) and runs
`recover_existing_batches`. `BatchRender` adds the renderings: `RequestRender`, the loop
thread per kind and one thread per item, which saves its result (`Rendered`) or dies of an
exception that nobody catches (`RenderDies`). Three histories record what does
go wrong in this code and what the properties except. A job is `plain` as long as nothing has
changed its status after it ended; one that is retried by itself, or that a thread of it takes up
again, is not, and the properties that count jobs count plain ones. `died` has the items whose
render thread died since the server started. `lapses` has `overwritten`, a save of a document
that had changed since it was read (handlers and the final save of the driver take no lock), and
`missed`, an `_ensure_thread` that saw the old thread still alive when it was past its last
look at the batch.

### SignoffLifecycle

The store of the Continuity Command Center; the other sign-off stores are built alike on
`platform/lifecycle`. A call that passes its checks takes the lock and puts its writes, in the
code's order, into `todo`; `Step` makes the next one, `Link` and `Step` are the two halves of
`HistoryChain.append`, `Cut` ends the call there, also in the middle of a row. `Verify` reads
without the lock and `WriteReport` writes under it. Files carry the number of their sign-off
where the code compares hashes. `Lose` deletes a file behind the store's back and `Rebuild`
builds the signed package anew.

### NodePipeline

The run directory of one multinode job. `record` has a node's status, the run that made its
output and the runs that made its inputs; `plan`, `midi` and `report` name what they were made
from. `RunAll` and `RetryNode` are the user's requests; `Normalize`, `Invalidate`, `Invalidated`,
`Reuse`, `Missing`, `Begin`, `Produce`, `NodeFails`, `WritePlan`, `Validate`, `OpenMidi`,
`CloseMidi`, `WriteReport` and `Complete` are a run; `Raise` and `Cancel` may end it anywhere and
at each control point, and `Interrupt` is the end of the server. Each run has a thread of its own
(`mode`, `at`, `next`): `Stall` only marks the job, whose thread goes on, and a request that finds
the job stalled, or meets another request (`Accepts`), starts a second run beside the first.

The history `crossed` says that, of the runs since the directory was last at rest, two were at
work at once. What they then write is not told apart any more (`Unclear` for its maker): which of two threads'
values is in which file is beyond what a property of this code could say. `mixed` says that runs crossed,
or that a run of all nodes began over finished records, and that no run of all nodes has gone
through by itself since. Handlers are atomic here (their halves are in `JobStore`); that two may meet is in `Accepts`.

## The runs

`MC*.tla` extend the modules with the maps and symmetry sets of the instances; the `.cfg` files give
the constants. Every module's type invariant is part of its first run.

| run | instance | checks |
|---|---|---|
| `lock_safety` | 3 threads in 2 processes, nesting depth 2, every fault | `ExclusionUnlessStolen`, `ProcessExclusion` and the inductive `LockInvariant` |
| `lock_pair` | 2 processes of one thread, no pid reuse | refinement of `ExclusiveLock`, `AttemptEnds` |
| `lock_stale_race` | 3 processes, one crash | `MutualExclusion` **fails** |
| `art_safety` | 3 transactions of one namespace (a second one stays empty), retries, recoveries, and an abort or a power loss at any time | `DoneIsDurable`, the inductive `ArtifactInvariant`, refinement of `ConditionalPublish`, `NeverRepublished`, `RecoveryIsComplete`, `RefusesOnlyOvertaken` |
| `job_life` | 2 clients, 2 threads, a retry, a restart, 1 callback per generation | `OneThreadPerStall`, `ActiveIsWorkedOn`, `FileFollowsJob`, `CancelStops`, `JobSettles`, `RunningEnds` |
| `job_deleted` | 1 client | `DeletedStaysDeleted` **fails** |
| `program_disturbances` | 2 writes, a reader, 1 document, disturbances without limit | `HistoriesStand`, `SoundUndisturbed`, refinement of `DocumentRegister` |
| `program_migration` | 2 migrators, a writer, a reader, 2 documents | `RepositoryIsSound`, `ImportsAreSound`, refinement of `DocumentRegister` |
| `migration_restart` | 1 migrator | `Restartable` **fails** |
| `batch` | 2 clients, 2 items, concurrency 1, 1 kind of rendering, 2 requests, a restart or a job stalled, retried or deleted by itself | `JobsFitItems`, `WithinConcurrency`, `StatusIsTrue`, `VersionsFitJobs`, `RenderingsFitThreads`, `PauseHolds`, `BatchEnds`, `RenderEnds` |
| `signoff` | 2 clients, 2 sign-offs, 2 change requests, 1 fault | `HistoryIsSound`, `SignoffsTakeTurns`, `ResetIsAuthorised`, `OutputsAreCurrent`, `PackagesFitHistory`, `ResetKeepsMaterial`, `NeverStuck` |
| `pipeline` | 10 nodes, 3 runs, the second of which may start beside the first; retries of 3 nodes | `FinishedAgree`, `DirectoryIsSound` |

Related statements are one conjunction of named parts, some with the module's type invariant among
them: `HistoriesStand` is `HistoryIsComplete` (the events of a document are its versions 1, 2, ...
and the row is the newest) and `AcknowledgedInHistory` (a write that returned is one of them);
`SoundUndisturbed` is `PendingIsLatest`, `ProjectionFollows` and `NeverRefuses` until the first
disturbance; `RepositoryIsSound` is these three and `HistoriesStand`, with migrators;
`ImportsAreSound` is `RowsHaveOrigin` and `ImportsAreKept`; the batch's and the sign-off's are
explained where they are defined.

Why the bounds are enough. The lock's races need a dead owner and two removers, hence three
processes; within a process two threads meet at the mutex, and a third one waits in the other. A
third transaction is needed for a commit that overtakes an interrupted one and is overtaken in
turn; namespaces share nothing but the lock. A document needs two payloads, to tell an old one
from a new one, and two writes, for a version that follows a version that was interrupted; two
documents, which share the lock and the replay, occur only with the migration, whose run has one
write, and the proofs hold for any numbers of documents, payloads, writes and migrators.
Two migrators race for one backup and one row. Two threads are the least that can disturb one
another on a run directory, and one control callback separates "a check is ahead" from "past the
last check". The batch needs two items and one place for a queue, and two requests for one that
meets the other's save; audio and stems are alike and never look at each other's status. A second
sign-off is needed for what the first one leaves behind, and a second change request for one that
is out of date. Three runs are the least for an interrupted retry between two others; all ten
nodes are in the model, since the graph is what is checked. `Retried` has two nodes from the
middle that do not depend on each other and one near the end, the proofs are for all; `Joining` lets the second run start beside
the first, and the third one follow what these have left. `MaxUpsets` counts the restarts of a batch's
server and what happens to one of its jobs by itself: one is enough for a second job beside the one
that lives again. `MaxDepth`, `MaxRetries`,
`MaxHits`, `MaxRestarts`, `MaxUpsets`, `MaxCalls`, `MaxSignoffs`, `MaxFaults`, `MaxRuns`, `Joining` and `Stages` are the only numeric
bounds; tokens, payloads and documents are finite sets.

What the failing runs show:

- `lock_stale_race`: `_remove_stale` reads the lock a second time before it unlinks, but unlinks
  by path (`locks.py:149-154`). Two waiters that both confirmed the dead owner's lock remove it
  one after the other, the second one removing the first one's new lock.
- `migration_restart`: a migration that stopped in its backup, or was rolled back, leaves a
  directory that refuses every later run on the same files (`migrations.py:69`).
- `job_deleted`: the thread of a job that was deleted while queued lists it again and writes its
  directory again (`node_retry.py:113`).

Disagreements met while modelling that have no run: a transaction interrupted before its pointer
and overtaken by another commit makes `recover` raise for ever and keeps it from what comes after
it (`recovery.py:55`; `RefusesOnlyOvertaken` says that nothing else does); `recovery.py:88`
rewrites an intent in place, so a crash there leaves a file no later recovery can read; a rerun on
unchanged files is not recognised when a write fell between `migrations.py:64` and the lock; two
clients that retry one job at once both succeed (`retry_job.py:21`); a watchdog tick can mark a
job stalled that completed meanwhile (`retry_job.py:120-127`); a queued job cancelled between
`job.py:84` and `:87` becomes running until its next check.

In the batch runner, handlers save what they read without the lock, so that a pause or a sync can
be lost (`recover_existing_batches.py`); a resume that sees the old thread alive may leave a
running batch without a driver until the next restart (`render_stems.py:1`), though the v0.8.0
document says that a batch does not hang; launch and resume do not look at renderings in
progress, though that document says renderings and generation exclude each other. A failed job of a
batch that is retried by itself (`retry_job.py:21`) is alive beside the one that the batch's own
retry starts for the same item, so that more than `max_concurrency` jobs work; an exception
other than `RendererError` or `ValueError` in a render thread (`sync_running_items.py:165`, which
has no `try`) leaves its item running, and its kind of rendering refused, until a restart.

In the sign-off lifecycle, a verification that runs before the first sign-off or between a
reset and the next sign-off writes a report that no later sign-off accepts and only a reset would
remove (`NeverStuck` names this exception); evidence that is rebuilt after signing makes change
requests impossible, though "evidence changed" is their default reason; a crash in `signoff` or
`reset_signoff` leaves documents that `_assert_signoff_transition_allowed` refuses for ever; one in
`_preserve_current_archive` leaves a partial copy that a later reset takes for whole; one
between a zip and its history row leaves a zip that is never recorded.

In the node pipeline, a job that is marked stalled may be retried while its thread goes on: both
threads write the same records, plan and MIDI file, and the old one marks the job completed
when it is through (`job.py:69`), while the new one is midway. A job retry runs all nodes over the old records without invalidating them,
so that when it is cut short a node retry completes with outputs of two runs in one plan (the
`~mixed` of `FinishedAgree`; TLC finds it in three runs without it); `--resume` in multinode mode
skips composing when the last node has a record of any status (`runtime.py:52`), so that a crash
before `song-plan.json` makes every resume fail; `render_midi` writes in place and resume skips a
half-written `song.mid`; a node retry neither rewrites `run-summary.json` nor applies asset
references again.

What the passing runs taught: the second read in `_remove_stale` is not what gives exclusion, the
existence of one possible remover is; the stale branch of `acquire` does not look at the
deadline; an empty lock file is never removed by anybody, so attempts end in a timeout; and
when the lock is taken from a live holder the histories of program documents still do not
branch, because the version is computed inside an immediate database transaction, and what has
become inconsistent is refused and not answered.

## Fairness

`WorkspaceLock!Fairness` is weak fairness of the steps of an attempt that a thread takes by
itself (the operating system schedules it) and strong fairness of giving up: the deadline is
checked in each round of the loop, and time passes. Nothing is assumed of a holder: it may keep
the lock for ever. Pid reuse is left out of this run: a lock file whose pid comes and goes can
keep a waiter in the stale branch, which has no deadline.

`JobClients!ClientsSpec` assumes only that time passes (`Silence`) and that the watchdog thread
ticks (`_start_watchdog` loops every five seconds). Threads and handlers may hang: this is what
`RunningEnds` is for. `JobSettles` is about the behaviours in which none of them does: its
premise `NothingHangs` is weak fairness of the clients' and the threads' own steps. Failures are
never fair: nothing relies on one happening.

`BatchRender!FairRenderSpec` has weak fairness of the driver thread and of each render loop,
which poll every second or so for as long as they live, and of `Work`: handlers, renderers and
jobs end, so that one of their steps is taken as long as there is one. That a running job ends is what
`JobClients`' `RunningEnds` shows; that a queued one does not stay queued is `JobSettles`, when its
thread does not hang. A render thread ends in a result or in its death. Requests are not fair. Weak fairness is enough for the loops that
wait for the runner's lock: whoever has it only has to save, and TLC finds no behaviour in which
the others take turns with it for ever.

The specifications without liveness have no fairness, and callers may stop anywhere.

## The proofs

Each holds for every value of the constants under the module's named assumption (finite
numbers of threads, positive bounds, a null value outside the other sets).

`WorkspaceLock_proofs`: `TypeCorrect`, `InvariantHolds`, `Exclusion`, `InProcess`,
`ReleaseFindsOwnFile`. Exclusion alone is not inductive: a step of `acquire` that writes the
document relies on the file being the one it created, and a step that unlinks on the document
it confirmed being nobody's. `LockInvariant` says this: the mutex is held by the thread that is
inside (`MutexHeld`, `DepthCounted`), a token belongs to a live process (`TokensLive`), until a
theft the file at the path is the token's (`FileOwned`), and a confirmed stale document belongs
to nobody at work (`StaleIsDead`). Exclusion follows since one file has one token
(`TokenIsAlone`). `RefinementUntilTheft`: as long as nothing is stolen, every step gives the lock to
one thread, takes it from its holder, or changes neither (`HoldersChange`), so that the protocol
implements `ExclusiveLock` for any processes and faults. `PairRefinement` has no such condition but
is about two processes without pid reuse and `--force`: there the file under a remover stays what it
judged, because the only other process is its dead owner (`RemoverIsAlone`), and `PairNeverSteals`.

`ArtifactTransactions_proofs`: `TypeCorrect`, `InvariantHolds`, `ReadersFindGeneration`,
`CommitIsDurable`, `Refinement`, and the action properties `SupersededStaysSuperseded`,
`PassedMeansComplete`, `RefusedWereOvertaken`. `ArtifactInvariant` adds to the property that one transaction
commits at a time (`OneCommitter`), what each of its steps may rely on (`StepsInOrder`), and that
the pointer it read is still there when it replaces it (`BaseIsCurrent`), each until a power loss
strikes that transaction. The refinement maps every step to a conditional publish, a withdrawal, or
a stutter. The action properties rest on `TransactionInvariant`: a transaction's records are there
only in the order of the commit (`FilesAreInPlace`), the bases lead from `current.json` back to the
start without a circle, and whatever became current and no power loss struck is among them (`OneLine`:
a generation that was replaced never comes back), what is complete can still be made current or was overtaken (`CurrentOrOvertaken`), and what a recovery has left
behind it is complete or undone (`RecoveredSoFar`).

`JobClients_proofs`: `TypeCorrect`, `FileFollows`, `CancelIsObeyed`, `ThreadsArePaidFor`,
`ActiveJobsAreWorkedOn`. `JobInvariant` adds that a thread asked to stop finds the flag set
(`FlagStands`), that nobody holds a job that was never created (`NoneBefore`: otherwise creating one
would take back a cancel), and that a control callback is counted only when one is ahead
(`CallbackAhead`, for the types). The last two theorems are about the time until handlers cross.
`ClientsInvariant` says what they then rely on: one handler is at work (`OneHandler`) and its job
stays listed (`HandlerKeeps`); every live thread but one is paid for by a mark of the watchdog, and
all of them are once the job has ended or a thread is about to start (`PaidFor`); a queued or running
job is in the hands of a thread or of the handler that will start one (`InHands`).

`ProgramDocuments_proofs` has the lemmas, one per action, and the
theorems `TypeCorrect`, `HistoryHolds`, `HistoriesHold`, `Undisturbed` and `Refinement`, for the
repository with disturbances, of which the undisturbed one is a special case. `HistoryInvariant`
holds under any disturbance: it adds to the completeness of histories that a writer past its
transaction finds its version at its place. `SoundInvariant` holds until the first disturbance: a
caller at work has the lock (`Excluded`), what it replays is all that is pending
(`ReplaysPending`), and a write between its record and its commit is the one that is pending
(`WritesPending`). The refinement holds under any disturbance: it rests on `HistoryInvariant` and
on `Fresh` (a writer has no version before it has recorded one), and on the checks of a read,
which answers with the newest row or not at all.

`ProgramMigration_proofs`: `SystemHolds`, `RepositoryHolds`, `ImportsHold` and `MigrationRefines`,
with the two invariants above and `MigrationInvariant`. A migrator between its backup and its import
has the lock, which shuts the calls out (`LockedOut`), so that the files are still those it copied
(`BackedUp`): an adopted row says what its file says. No other migration has its id (`Ledger`) or
one of its documents (`Disjoint`), and where an import is version 1 every write has a later one
(`ImportsFirst`): a document that is still at version 1 has no write that was acknowledged or is
pending (`GoneIsUntouched`), so that a rollback may delete it with its history.

`BatchRender_proofs`: `DocumentsStayTruthful`, `JobsStayLinked`, `ConcurrencyIsBounded`,
`StatusStaysTrue`, `VersionsStayFitting`, `PauseIsKept`, `RenderingsStayFitting`, for any numbers of
clients, items and kinds and any `max_concurrency`. What is stored cannot be reasoned about alone,
since every actor may replace it by a document of its own; the invariants are about all the documents
there are. `StepKinds` sorts the steps of both modules: an actor saves its document (`Saves`), reads
the stored one and changes it (`Keeps`), or only goes on (`Goes`); a job ends (`JobEnds`); the server
restarts (`Restarts`). Then, in this order:

- `DocumentsAreTruthful`, whatever overwrites what: of each item a document says only what its job
  and the project bear out, as long as the job is plain. Plain jobs only advance, so that an old
  document stays true; of a job that lives again it says nothing.
- `ChangesAreSmall`, about the documents an actor read and will save: it does not take its
  job from an item that is being made or has been made, and changes the status of the batch only as its step
  may. A save that does not overwrite saves over what it read, and a save that is cut short leaves the new
  status over the old items; hence `StatusIsTrue` and `PauseHolds`.
- `JobsFit`, until a save overwrites: live plain jobs are linked from the stored document or from the one
  that is about to be saved (`JobsLinked`), and so are versions. A linked live job belongs to an
  item that is being made, by the truth of the document, so live plain jobs map one to one into these
  (`LiveAreFew`), and the items that are started fit into the room (`FewComeFirst`: of a set of items
  ordered by number, those with fewer than n before them are at most n).
- `DrawsAreSmall` and, until a save overwrites, `ThreadsFit`: only who starts threads changes what is
  shown as running, and the renderer delivers what a thread has just made, or the thread has died.

`SignoffLifecycle_proofs`: `SignoffHistoryIsSound`, `SignoffTurns`, `SignoffResetsAreAuthorised`,
`SignoffResetsKeepMaterial`, `SignoffOutputsAreCurrent`, `SignoffPackagesFitHistory`,
`SignoffNeverStuck`, which are all the properties of its run. A call is a sequence of writes, and an invariant about it is
one about the writes that are still to come, as a set (`Pending`): a step takes one of them that
all others may follow (`Follows`; each call's plan is in this order), and a cut empties the set. `Sound`
has the types, the chain and the freshness of what `Link` read: while a call is in progress nobody
else appends, so that the hash it took is still that of the last row. On it rest five groups, each
with what its pending writes rely on: `Turns` counts the rows (a sign-off is due when as many were
withdrawn as recorded), `Authorised`, `Copied`, `Packed` (a package is recorded before it is
written, and once), and `Intact` (without faults each call ends in one of three situations, each of
which has a way on).

`NodePipeline_proofs`: `OutputsAgree`, `JobsAreWhole`. The lemmas on the graph compute the ancestors
of each node from the recursive definition and show that what is made from an affected node is
affected. Until runs cross, one at most is at work (`OneAtWork`), and of each run `OneRun` says what
makes `FinishedAgree` inductive: no affected node ahead of the run is
finished (`NoneAhead`: otherwise producing its input would outdate it), which invalidation
(`InvalidatedBefore`) or a directory without finished records (`FreshStart`) provides, and
a run of all nodes brings together those behind it (`AgreeBehind`), which ends `mixed`. `Progress`
says how far the files of a run are at each of its steps, whether the job is marked stalled or not. Where runs have crossed the theorems
say nothing, as the code promises nothing; a start on a directory at rest ends that, and so the
invariant has to be found again from whatever the crossed runs have left.

Every safety invariant, action property and refinement that a passing run checks is a theorem;
`ImplementsExclusiveLock` is one for two processes, as in its run, and for more until a theft. Only
model-checked are the liveness properties (`AttemptEnds`, `JobSettles`, `RunningEnds`, `BatchEnds`,
`RenderEnds`), since the prover has no rules for fairness and `ENABLED`, and the three runs that
fail.

What proving has taught: `RenderedIsCompleted` does not hold for ever, though the run finds no
counterexample: after a save has put an old document back, an item can be made again while a thread
renders it, and the result then comes to an item that is not completed. This takes a third request,
and the property is now stated until a save overwrites.

## Not modelled, and why

Components 11 to 14: functions without state, several hundred stores built alike on component 3 or
on plain files, routing and rendering, and musical content. Most of the code by size is of this
kind: the release checks, trust, quality and delivery verifiers read documents and compute a
report, with no state, no order and no concurrency of their own; what matters about them is what
they compute, which unit tests reach. Components 8 and 9 are database transactions around
component 4 and on rows of their own.

Within modelled components. Lease arithmetic, hashes (a payload stands for its hash), sanitising,
the metadata columns of rows, workflow objects in the migration, edit jobs and provider mode.
Batch: the stem-audio variant of a rendering, readiness checks,
`events.jsonl`, `update_item`, `export_batch`; a stalled job shows as failed; single JSON files
are replaced atomically and cannot be torn. Sign-off: gate, preflight and paths from the payload;
the state document's hash of the last archive event; the verification reads its files in one step.
Pipeline: `--resume` and `--force`, the deletion of the directory, asset references, stems and the run summary.

## Plan

Done, in this order, because everything that persists rests on the first and every user meets the
others: `WorkspaceLock`, `ArtifactTransactions`, `ProgramDocuments` with disturbances and
migration, `JobStore`, `BatchRunner` with renderings, `SignoffLifecycle`, `NodePipeline`.

1. Proofs: of the liveness properties, the safety half that they rest on (what a thread that waits
   may rely on), as far as it says more than the invariants.
2. The v13 and v14 migrations over `ProgramMigration`; `--resume` under `NodePipeline`; the
   workflow repository.
3. `domains/quality/review_tasks.py` and `domains/studio/song_editor.py`: read, change and save of
   one document, as the batch's handlers do.

New runs replace or merge with existing ones, so that each run still asks one question.
