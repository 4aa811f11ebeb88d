# A TLA+ model of bhf

bhf is a fuzzing tool chain of some sixty Rust crates: parsers and harness
generators, fuzz engines, a campaign runner, an in-process job scheduler, an
out-of-process extension protocol, and a results store.  This directory holds
TLA+ modules of the parts whose correctness depends on interleavings, failures
and restarts, TLC configurations that check them on small instances, and TLAPS
proofs of the main results for all instances.

## 1. Inventory

### The scheduler, `crates/continuous_daemon`

| Part | State | Operations | What is hard |
| --- | --- | --- | --- |
| Scheduler (`lib.rs`) | `InnerState` behind one mutex: `seen`, `queue`, `shutdown`, `next_id`, `snapshot_bytes_reserved`, `storage_fault`; worker threads; one child process per running job | `start_with_resource_limits`, `submit`, `list_jobs`, `Drop`; `worker_loop`, `run_one_job` | workers interleave with submissions, shutdown and each other; the mutex is released between claim, spawn, poll, finish and webhook |
| Persistence (`lib.rs`, `health.rs`) | `jobs.jsonl`: what the file system shows, and what survives a power loss | `persist_jobs`, `claim_job`, `finish_job`, `latch_storage_fault`, `health`, `request_shutdown` | a save can fail before or after the rename; a process can die at any point |
| Results refresh (`results_refresh.rs`, `lib.rs`) | per project `running`, `pending`, `last_rebuild`; a two-flag signal; the refresh thread | `job_started`, `job_finished`, `wait_for_work`, `has_pending`, `take_due`, `take_all` | three mutexes, a timed wait, debouncing by two intervals, shutdown ordering |
| Storage lease (`storage_lock.rs`) | an `flock` on `.bhf-scheduler.lock` | `acquire`, release on close | forked children briefly hold a copy of a released lock; bounded retry |
| Webhook client (`lib.rs`) | none | `post_webhook` | sent outside the mutex, best effort, may race a crash |

How they interact: `submit` and the workers share the state mutex and the
condition variable; every state change is saved before the mutex is released.
Workers call into the refresh state when they claim a job (with the scheduler
mutex held) and when a job ends (without it).  The refresh thread reads the
queue under the scheduler mutex and decides under its own.  `Drop` raises the
flag, joins the workers, then stops the refresh thread, then the lease goes.

What makes them correct: an acknowledged job survives and is eventually run to
an end; no job is held twice; nothing runs or is announced that is not durable;
a failed save stops the process from writing again; the history a scheduler
writes is one it can read; every finished job is covered by a results rebuild,
neither too soon nor too late.

### The extension host, `crates/extension_host`

| Part | State | Operations | What is hard |
| --- | --- | --- | --- |
| Client (`client.rs`, `restart.rs`, `limits.rs`, `handshake.rs`, `wire.rs`) | the held `Session` (child, stdin, channel of frames, reader thread), restart and loss counts, `lost`, negotiated capabilities | `spawn`, `call` with its retry loop, `restart_child`, `teardown_session`, `Drop` | the child may answer late, twice, never or nonsense, close its stdin or stdout, leave a grandchild on the pipes, or die; starting it may fail halfway |
| Session driver (`session.rs`, `lifecycle.rs`) | case, step, first fault, finding | `run`, `drive_scenario` | a fault or a restart in the middle of a case |

The driver calls the client, which may replace the child under it.  Correct
means: an answer is the answer to its call, no child is leaked (or one at most,
see below), a fault is never a verdict, and everything returns.

### The results directory, `crates/results`, `crates/corpus`, `crates/cli`

| Part | State | Operations | What is hard |
| --- | --- | --- | --- |
| Migration (`migrate.rs`) | `<work>/findings`, `<work>/results/findings` | `migrate_legacy` | several processes at once and no lock |
| Finding directories (`layout.rs`, `finding.rs`) | names under `results/findings` | `FamilyAllocator`, `emit` | two allocators with the same next ordinal; the last ordinal |
| Rebuild (`lock.rs`, `manifest.rs`, `rebuild.rs`) | `.lock`, `manifest.json`, four derived files, `attestation.json` | `ProducerRun::complete_with`, `rebuild` | a failure or crash between two files; the evidence of commands that died or deferred |

Every command runs prepare, its own work, and then the bracket.  Correct means:
no finding is lost or shared, `findings.json` lists nothing that is not in the
files beside it, no producer record is lost, and the attestation matches what the
lock protects.

### Multicore campaigns, `crates/multicore_fuzz`

| Part | State | Operations | What is hard |
| --- | --- | --- | --- |
| Campaign (`lib.rs`) | worker children, the deadline | `run_multicore` | an early return leaves workers running without a parent |
| Merge (`merge.rs`) | worker and parent finding directories, the intent in a worker record | `merge_worker_findings` | a kill or an I/O error between any two files, across devices too; resuming; duplicates |

Correct means: what the results loader can see is whole, nothing completely
emitted is lost, one crash is merged once, and a later merge finishes what an
earlier one left.  In the merge and in the migration some failed calls are taken
for an answer ("no such file"); what still holds after one is a question of its
own.

### The rest

* `cli/src/auto`: the campaign sweep, a pool with a deadline and resumable
  state on disk.
* `replay_min`: delta debugging, a pure algorithm.
* `fuzz_engine/builtin`: the power schedule; the rest is instrumentation.
* the corpus files, `event_log`, `protocol_session`, `relational`,
  `target_transport`, `daemon` (JSON-RPC over stdio): stores, formats and
  sequential drivers.
* Parsers, generators, analysers, licence and SBOM tools, reports: functions of
  their input text, with no interleaving and no persistent protocol.

`PROJECT.json` lists each with its status, and every hazard at its line.

## 2. Plan

1. `Scheduler`, with the abstract specification `JobLedger`.  *Done; proved.*
2. `ResultsRefresh`.  *Done; proved.*
3. `StorageLease`: discharges the assumption of `Scheduler` that one process
   owns the data directory.  *Done; proved.*
4. `ExtensionClient` and, on top of it, `ExtensionSession`.  *Done; proved.*
5. `LegacyMigration` and, composed with it, `ResultsStore`.  *Done; proved.*
6. `WorkerMerge` and, composed with it, `MulticoreFuzz`.  *Done; proved.*
7. Next: the campaign sweep of `cli/src/auto` (deadline, pool, resume), and the
   minimiser against a reference definition.
8. Proofs: every invariant and action property of the passing runs and the
   refinement of `JobLedger` are proved.  What could be added: abstract
   specifications of the results store (a set of findings and a published list)
   and of the merge, with their refinements.  "Proved" in this list means the
   safety part; liveness stays with TLC.

## 3. Modules

| Module | Role |
| --- | --- |
| `Scheduler` | the scheduler: state, actions, properties, refinement mapping |
| `JobLedger` | what clients may rely on: one durable ledger, no threads, no crashes |
| `SchedulerInvariant` | the inductive invariant, in named parts |
| `SchedulerProofs` | TLAPS: the invariant and what follows from it |
| `SnapshotProofs` | TLAPS: the byte accounting of the history |
| `SchedulerRefinement` | TLAPS: `Scheduler` implements `JobLedger` |
| `MCScheduler` | symmetry for TLC |
| `ResultsRefresh`, `MCResultsRefresh` | the refresh thread and its callers |
| `RefreshProofs` | TLAPS: bracketing, coverage, spacing and punctuality |
| `StorageLease`, `MCStorageLease` | the flock on the data directory, retries, forked descriptors |
| `StorageLeaseProofs` | TLAPS: exclusion, and no false refusal |
| `ExtensionClient` | the host of one extension, and an extension that does anything |
| `ExtensionSession`, `MCExtensionSession` | the session driver over the client |
| `ExtensionProofs` | TLAPS: answers, children and findings of a session |
| `LegacyMigration` | several processes that migrate one work directory |
| `ResultsStore`, `MCResultsStore` | whole commands: migration, findings, the rebuild under the lock |
| `StoreProofs` | TLAPS: what commands that share a directory leave in it |
| `WorkerMerge` | the merge of worker findings, with its faults |
| `MulticoreFuzz`, `MCMulticoreFuzz` | the campaign around it: children, deadline, orphans |
| `MulticoreProofs` | TLAPS: merged findings are whole, nothing is lost, one crash is merged once |

### Scheduler

State names are the code's: `seen`, `queue`, `shutdown`, `next_id`, `reserved`
(`snapshot_bytes_reserved`), `fault` (`storage_fault`).  `pc`, `held`, `child`
and `outcome` are each worker's position and locals.  `disk` is `jobs.jsonl` as
the file system shows it, `synced` what a power loss leaves of it.  `acked`,
`posted` and `launched` are history variables.  `phase` is the life of the
`Scheduler` value, from `down` through `recovering` and `starting` to `up` and
`dropping`, or `refused`.

Whatever a thread does while it holds the mutex is one action.

* *Start*: `Start` (lease taken), `RecoverLine` per line with every check of the
  loop (`Loadable`) and Running turned into Queued (`Requeued`), `RefuseStart`,
  `RecoveryDone`, `SpawnWorker`, `SpawnWorkerFails`, `StartReturns`.
* *Admission*: `Submit`; `SubmitFails` before the rename (row taken back) or
  after it (`DurabilityUncertain`: row and ID stay, not dispatched).
* *Worker*: `Claim`, `ClaimFails`, `WorkerExits`; `run_one_job` as
  `CheckBeforeSpawn`, `SpawnChild`, `SpawnChildFails`, `SeeShutdown`, `SeeExit`,
  `SeeDeadline`, `WaitFails`; then `Finish`, `FinishFails`, `FinishAfterFault`,
  `CheckBeforePost`, `Post`.
* *Ending*: `RequestShutdown`, `Drop`, `Joined`, `Crash`, `PowerLoss`.

A save is `persist_jobs(rows, result)`: `ok`, `before` (old file stays) or
`after` (new file installed, directory not synced).  `PowerLoss(kept)` may undo
a rename that was not synced.  A process that dies inside a save leaves what the
failed save followed by `Crash` leaves, so no separate action is needed; the
same holds for the I/O errors of start, which end as `Crash` from `recovering`.
On non-Unix builds the directory sync is a no-op; the model is the Unix build.

Abstracted: a job's text is its size in bytes without the state word; budgets
are 0 (none) or positive; `J-%06d` and its parsing are the number; the wall
budget check, `health` and `list_jobs` (which change nothing) are left out;
killing and reaping the child is part of the step that returns from
`run_one_job`; a child left behind by a dead scheduler is not tracked (the
repository documents it as the operator's to clean up).

### JobLedger

A sequence of rows that only grows, in which a row that ended never changes,
and the acknowledgements and announcements made from it.  The refinement maps
the ledger to `synced`, with Queued and Running both "open".

### ResultsRefresh

`running`, `pending`, `last` are `Project`'s fields (a project without an entry
is one with the default entry), `signalled` and `closing` the two flags of
`Signal`, `stage` the refresh thread's place in `refresh_loop`.  `job_finished`
is two actions because it takes two mutexes one after the other; `ReadQueue` and
`take_due` are two because the queue is read before the projects are locked.
`now` is a bounded clock.  With `Slow` the clock runs at any time, so every
thread may stall anywhere; without it time passes only when all threads wait,
which is what a statement about punctuality needs.

### StorageLease

A scheduler instance opens the lock file once; its open file description holds
the flock (`locked`) until the last descriptor is closed.  `Fork` copies the
descriptor of a process that has it open, `Exec` closes the copy; of several
copies the youngest counts.  Time is measured in sleeps of `acquire`:
`Expired` is its deadline, `ForkTime < Window` says that a fork reaches its exec
within the 500 ms.  Everything but sleeping takes no time, so an attempt that is
preempted between `flock` and the deadline check for longer than the window is
not covered.  Windows opens the file exclusively instead; the model is the Unix
build.

### ExtensionClient and ExtensionSession

`stage` is the host's place in `client.rs`: spawn, handshake, the head of
`call`'s loop, write, receive, reap, and the two halves of `Drop for Session`
(kill and wait; bounded join).  `call_inner` kills the child on a timeout or a
wire error before the Session is dropped; since the channel is dropped with it,
the kill is part of `KillAndWait`.  A request that fits the pipe buffer is
written at once (`write_frame`); a large one needs the child to read it
(`DrainFrame`).  The extension's moves are `Answer`, `Babble` (a frame nobody
asked for, in particular a second answer), `Oversize`, `CloseStdout`,
`CloseStdin`, `DoubleFork` and `Exit`.  A write fails when nobody has the stdin
open (`WriteFails`), which a live child can bring about; the host takes it for
dead and waits for it (`crash_from_child`).

`spawn_session` can fail before there is a process, and after: if the reader
thread cannot be started (`client.rs:1094`), the `Child` is dropped, which in
Rust neither kills nor waits.  `Strand` is that branch, in `spawn` and in
`restart_child`, and a child it leaves is `stray`.  `OnlyTheHeldChildLives` says
what is left of "no leak": every other child was reaped, there is at most one
stray, and only in a client that is unusable or lost and so spawns no more.  In
a session that was lost this way the stray ends on its own, when it reads the
end of its stdin, or not at all.

`ExtensionSession` takes the place of the caller: one move per call of
`SessionDriver::run` and `drive_scenario`, `Typed` for what the typed methods
make of an outcome, `Handle` for what the driver does with it.  Moves that a
missing capability or an option rules out are skipped.

Noticed while reading, and kept as the code has it: the host uses its own
limits and not the negotiated minimum; capabilities are those of the first
handshake whatever a restarted child provides; `setup` runs for every case;
`teardown` is skipped after a failed `setup` or `reset`; a finding followed by a
fault of `teardown` has both set.

### LegacyMigration and ResultsStore

A directory is `Absent` or a set of names.  `LegacyMigration` takes one step per
system call; `ResultsStore` continues each process through its work: `Scan`,
`create_dir_all`, `create_named`, `emit`, then `acquire` and the steps of
`rebuild_locked_with` in the code's order (`After`).  A document is the set of
findings it lists.  `Reporters` run `bhf report`, which records no producer;
`Deferred` processes may leave the rebuild to others.  `Faulty` bounds how many
processes end badly or are misled; each of them may do so at any step, by an I/O
error or by dying.  A power loss, which could undo renames, is not modelled.

Three questions of the migration have no error branch: `target.exists()`,
`is_nonempty_dir` and `legacy.exists()` in `peer_migrated` answer "no" when the
call fails.  The first two are harmless, because `rmdir` and `rename` refuse what
they should not touch; the third lets a command go on beside a legacy directory,
and `misled` remembers who did.  `PreparedMeansMigrated` excepts exactly these
commands, `EvidenceSurvives` does not: nothing is destroyed, but it is left where
no report reads it.

`Subjects` is what the attestation covers: the derived files, the manifest and
the findings that are complete when it is computed.  Findings are written, and
migrated, without the lock.  So `AttestationHolds` says that the derived files
and the manifest are attested as they are, and of the findings that those listed
in `findings.json` are subjects and every subject is still there; that all
findings are, as the docs have it, is false (see Findings).  A finding
is its name here: the bytes of its files, which `bhf replay` (`touch_last_seen`)
and the migration's removal of old `replay.py` files change without the lock,
and the static and SBOM files under `results/` are left out.

Noticed: an empty target may be removed by a migrating peer between another
command's `create_dir_all` and `create_dir`, which then fails; a migration's
removal of old `replay.py` files may meet those a peer's rebuild has just
generated; `static-report.sarif` is read later than `static-report.json`
(`rebuild.rs:236`, `:179`), so one rebuild may mix two scans.

### WorkerMerge and MulticoreFuzz

`worker[f]` is a finding's directory in its worker, `parent[i]` a directory of
the campaign; an intent is a worker record that names a parent ordinal.
`WorkerMerge` has the merge's own steps: `list`, `pass_over`, `duplicate`,
`merge_one`, `reserve`, `log_intent`, then for each file `rename`, or `copy`,
`land`, `drop` across devices, the record last.  Each may fail (`fail`), and
`kill` ends the process anywhere.  Four reads are not checked by the code, and
`Misread` is their failure: the records of the campaign (`begin`,
`merge.rs:116`), the reservation and its `finding.json` (`Resumes`,
`layout.rs:150` and `merge.rs:387`), and the look for a committed record whose
source could not be dropped (`drop`, `merge.rs:420`).  `misread` is a history
variable that records that one has happened.  `MulticoreFuzz` starts, polls and
kills the workers; every error that returns from `run_multicore`, and every
kill, turns the children into `orphans` that go on writing.  Campaigns repeat.

`MergeAssumption` has every finding carry a dedupe key, as each emitter writes a
signature.  Without one, a cross-device merge that is cut off after the record
has landed and before its source is dropped would be merged a second time, as a
directory with a record and no files, against the module comment of `merge.rs`.
With keys the same follows from a failed read (below).

`Settled` takes into account that a duplicate's keys count for the findings after
it (`merge.rs:150`), so that a finding may rest with one it shares no key with:
`SameCrash` is the transitive closure of sharing a key.

Noticed: with faults, one crash may be in the campaign twice, because a merge
that was interrupted is resumed whatever has been merged since (`merge.rs:150`),
or because the records there could not be read;
`CrashesAreMergedOnce` says so.  `run_multicore` documents that it waits for all
workers (`lib.rs:173`), and does not when it returns an error (`lib.rs:206`,
`:245`, `:291`).  The stderr of workers is a pipe nobody reads (`lib.rs:228`); a
worker that fills it stops, and with a time budget of zero nothing ends it.

## 4. Runs

| Run | Instance | Shows |
| --- | --- | --- |
| `scheduler_safety` | 2 workers, 3 jobs, queue of 2 | `NotifiedJobsAreFinal`, `DispatchIsCommitted`, `ClaimsAreExclusive`, `NoJobIsStranded`, `FailsClosed`, `OneLaunchPerStart` |
| `scheduler_liveness` | 2 workers, 2 timed jobs of 2 sizes at the byte limit | `SnapshotStaysReadable`, `AckedJobsSurvive`, `ImplementsLedger`, `ShutdownCompletes`, `AcknowledgedJobsSettle` |
| `scheduler_restart` | 1 worker, queue of 1 | *violated*: `RestartIsAccepted` |
| `refresh_slow` | 2 workers, 1 project, 3 jobs, intervals 2 and 3, time 5, stalls | `RunningJobsAreBracketed`, `EveryJobIsCoveredOnce`, `RebuildsAreSpaced`, `RefresherStops` |
| `refresh_prompt` | 2 workers, 2 projects, 3 jobs, intervals 2 and 4, time 6 | `RebuildsAreInTime` |
| `storage_lease` | 3 schedulers, window 2, forks of 1 | `OneOwner`, `RefusalsAreReal`, `AcquireReturns` |
| `extension_session` | 2 cases, 2 restarts, 1 scenario step, 1 waiting frame | `AnswersBelongToTheCall`, `OnlyTheHeldChildLives`, `FindingsFollowCleanSessions`, `SessionsEnd` |
| `extension_reset` | 1 case, 1 restart | *violated*: `VerdictsComeFromAResetChild` |
| `extension_blocked` | 1 case, 1 restart | *violated*: `CallsReturn` |
| `results_store` | 2 producers and 1 report, ordinals to 3, 1 failure | `PreparedMeansMigrated`, `EvidenceSurvives`, `FindingsAreExclusive`, `CommitPointIsLast`, `OkMeansIndexed`, `ProducersAreKept`, `AttestationHolds`, `CommandsEnd` |
| `migration_race` | 2 processes, no failures | *violated*: `PeersAreBenign` |
| `multicore_fuzz` | 2 workers, 3 findings of one crash with keys x, xz and z, 1 file each, 1 fault | `CommittedFindingsAreWhole`, `NothingIsLost`, `CrashesAreMergedOnce`, `FindingsSettle` |

Every passing run but three also checks `TypeOK`: that of `StorageLease` is
proved, and the liveness and promptness runs share a module with a run that has
it.

*Bounds.*  Crashes, power losses, restarts and failed saves are unbounded in
every scheduler run: the state space is finite because `MaxJobs` rows are
retained at most and nothing is pruned.  Two workers suffice for every race the
properties speak of, since a race is between a claim or save of one worker and
that of another; three jobs over a queue of two let one run while the queue is
full.  In `scheduler_liveness` a row of 10 + 8 bytes and one of 12 + 8 fill the
snapshot's 38 exactly, two of 12 + 8 do not fit, and a row of 12 + 8 is as long
as `MaxJobBytes` allows.  In the refresh runs 60 s and 300 s become
2 and 3 (2 and 4): what matters is that they differ and that several of each fit
before `MaxTime`.  Three jobs on two workers let a bracket be taken while a job
of it runs and another waits.

Three schedulers let one wait while a second takes the lease of a third that has
just gone.  Two restarts let a restarted child fail in turn; a second case shows
what is left of the first; one frame waiting is enough for a late answer to be
in the way of the next.  Three commands are two that race and one that reports;
ordinals up to 3 let the space run out, and a manifest of one producer drops the
oldest.  Three findings are the shortest chain whose ends share no key, and five
ordinals are what they, a stale reservation and a foreign finding can use.  One
fault leaves a merge anywhere, or misleads it once; that a merge which resumes
another is cut short in turn, and every other number of faults, is in the proofs
of the safety properties, and only `FindingsSettle` rests on the one.

*Deadlock* is checked for the scheduler, the extension, the results store and
the campaigns: the first and the last can always be started again, and the
others stutter only when the client is gone or all commands have ended.  The
refresh and lease models stop by design (bounded clock, thread returned, every
instance used).

*Fairness.*  `FairSpec` of `Scheduler` makes weakly fair: each worker's steps
(an idle worker polls with a timeout, `run_one_job` polls every 20 ms, a timed
job reaches its deadline because time passes, `post_webhook` has a deadline on
everything but DNS, which is assumed to return); the steps of a start that has
begun; and the end of `Drop`'s joins.  Children owe nothing, which is why the
liveness run has timed jobs only: an unlimited job may run until shutdown.
Submissions, shutdown, failures and crashes are the environment's.
`AcknowledgedJobsSettle` assumes that from some point on one scheduler stays up
without fault.  `FairSpec` of `ResultsRefresh` makes the refresh thread and the
second half of `job_finished` weakly fair.

`FairSpec` of `StorageLease`: time passes, children exec, and `acquire` gets to
make its call (strongly, since a signal may interrupt it any number of times but
not for ever).  `FairSpec` of `ExtensionSession`: the host's threads run;
`CooperativeSpec` adds an extension that reads its stdin and that exits once it
has closed its stdin or its stdout: what the host has no deadline for.
`FairSpec` of `ResultsStore`: every process runs until it ends or dies.
`FairSpec` of `MulticoreFuzz`: the parent runs, its deadline passes, and
campaigns are repeated; workers owe nothing.

Each property has a mutant, a definition marked so next to the one it replaces:
a dropped save, a forgotten sync, an early stop.  TLC finds each property
violated under its mutant.

### Findings

`scheduler_restart`: admission limits `queue.len()` (`lib.rs:388`), recovery
limits the same number after Running rows have been requeued (`lib.rs:293`).
With the queue full and a job running, a kill, a power loss or an ordinary
shutdown (interrupted jobs are saved as Queued) leaves more open rows than
`max_queued_jobs`, and the next start fails with `Capacity("queued jobs")`.
`docs/scheduler-reliability.md` says Running records are requeued on restart
and waiting or interrupted jobs are retained for it.  The history is not lost:
a start with a larger limit reads it.

`extension_blocked`: `limits.rs` calls the deadline that of a call, but it
covers only the wait for a frame.  `write_frame` waits for a child that does not
read a large request, and `crash_from_child` for one that has closed its stdout
and lives on, or has closed its stdin, so that the write fails (`client.rs:794`).
`SessionsEnd` shows that these three are the only ways to block.

`extension_reset`: a request that is repeated on a restarted child reaches one
that was not reset for the case, against `lifecycle.rs` and
`docs/extension-protocol.md`; its verdict is reported like any other.

`migration_race`: `migrate.rs` promises that the loser of a migration race sees
a no-op.  If both processes find an empty target, the second `remove_dir` fails
while the first has not renamed yet, and its command ends with an I/O error.
Nothing is lost (`EvidenceSurvives`), and running it again succeeds.

Three more disagreements are in the model without a run of their own, because the
properties state what does hold.

* `peer_migrated` is `!legacy.exists()` (`migrate.rs:33`), false for any error,
  where its comment says "`legacy` is gone".  One failed `stat` lets a command
  report success and start a new `results/findings` beside the old evidence; from
  then on every command is refused with `MigrationConflict`.  Hence the exception
  `misled` of `PreparedMeansMigrated`.
* `docs/finding-report-fields.md:19` has the attestation cover every file under
  `results/`.  A concurrent command may complete a finding after the attestation
  was computed (`rebuild.rs:301`), without any failure; it is covered when the
  next rebuild succeeds.  Hence the inclusions of `AttestationHolds`.
* `merge.rs:10` promises that no I/O error leaves a half-moved finding to be
  indexed.  If a cross-device merge lands a record and is stopped before it drops
  the source, and the next merge fails to read that record (`merge.rs:116`), it
  does not know the keys and merges the leftover record again: a second
  directory, with a record and no files.  The files themselves are safe
  (`NothingIsLost`).  Hence the premise `~misread` of `CommittedFindingsAreWhole`.
  It takes two faults, one more than the run has (with `MaxFaults = 2` TLC finds
  it for `IndexedFindingsAreWhole`).

## 5. Proofs

Each component has an inductive invariant in named parts, lemmas about its
operators, one lemma per action, and theorems that read the properties of the
runs off the invariant.  The constants are arbitrary: any number of workers,
jobs, projects, processes, findings, restarts and faults, any limits and
intervals.  The assumptions are those of the modules, which TLC evaluates on
every run.  Most say that limits are positive, or that a model value which
stands for "none" (`NoBracket`, `NoAnswer`, `Never`, `Corrupt`, `Absent`) is
none of the values it is told apart from.  The others are named below.

### The scheduler

Under `ConstantsAssumption`: positive limits, natural numbers, at least one
worker.

The properties are not inductive: that two workers hold different jobs depends
on the queue having no duplicates, which depends on recovery queueing each open
row once, which depends on IDs being unique in the file.  `SchedulerInv` closes
the circle.  Its idea is that memory, file and durable snapshot are three stages
of one history (`Continues`): each has the rows of the stage below, in place,
with the same requests, and rows that ended are equal.  Around that: row numbers
are IDs (`IdsAreDense`); the queue is a sorted selection of the Queued rows
(`QueueIsWaiting`); a busy worker pins its row to Running in all three stages
(`BusyPinsItsRow`); a worker about to announce has a durable result
(`ResultIsSaved`); what clients were told is durable (`PromisesAreSaved`);
faults and interruptions imply shutdown; nothing waiting was launched before;
and, while not shut down, open rows have a place.

`SchedulerProofs` has lemmas on rows (`WithStateFacts`, `AppendFacts`), on saves
(`SaveFacts`, `PromisesKept`, `HeldKept`, `ResultKept`), one per operation
(`ClaimKeeps`, `FinishKeeps`, `AdmitKeeps`, `RecoverLineKeeps`, `ForgetKeeps`,
...), and from them:

* `InvariantHolds`: `Spec => []SchedulerInv`;
* `TypeCorrect`, `ClaimsExclusive`, `DispatchCommitted`, `AckedSurvive`,
  `NotifiedFinal`, `NoneStranded`: the invariants of the runs;
* `LaunchedOnce`, `FailClosed`: the action properties.

`SnapshotProofs` adds the bytes.  The size of a file is the sum of the sizes of
its rows, a recursive function, and nothing about it follows by expanding a
definition.  What is needed (the partial sums exist and are determined by their
recursion; a sum grows with its terms; one more row adds its size) is proved by
the least counterexample: `WFMin` gives the first length at which a statement
fails, and the length before contradicts it.  `BytesInv` then says that memory,
file and durable snapshot are affordable even when all their rows reach their
longest state, and that the reservation is that sum: only so does a row that
goes from Queued to Running to Complete never make the file too large for the
next start.  `SnapshotReadable` follows.  It is about bytes; that the next start
also accepts the number of queued jobs is false (`scheduler_restart`).

`SchedulerRefinement` proves `LedgerImplemented`: `Spec => ImplementsLedger`.
A step that saves is a `Commit` because `persist_jobs` only installs later
stages of the history; a webhook is an `Announce` because of `ResultIsSaved`;
everything else stutters.

### The refresh thread

`RefreshProofs`, under `RefreshAssumption`: finitely many workers (the code
counts them), and an idle interval no longer than the busy one
(`REBUILD_INTERVAL` and `BUSY_REBUILD_INTERVAL`, 60 s and 300 s).
`RunningJobsAreBracketed` and `EveryJobIsCoveredOnce` are nearly inductive; they
need to know that a thread which drains has no worker beside it and that the
thread holds brackets only while it rebuilds (`ControlInv`).  Spacing and
punctuality need more.  `take_due` forgets a project that has rested, and with
it the time of its last rebuild; `SpacedInv` says that it does so only when the
interval has passed anyway, and that a bracket opened since is younger.
`TimelyInv` is the argument against a lost wake-up: for every project with a
finished job the thread will look again before its limit, by the timeout it
waits with or is about to compute, or it has been told to look at once (the
signal is up, or a worker is between the two halves of `job_finished`).
`Bracketed`, `CoveredOnce`, `InTimely` and `Spaced` follow.

### The storage lease

`StorageLeaseProofs`, under `LeaseAssumption` (`ForkTime < Window`): that a
refusal is real is not inductive, since it depends on how old the copy is that
keeps a dead owner's flock alive.  `LeaseInv` adds where the flock can be
(`LockIsAccounted`) and that, for a scheduler which has met no owner, the copy in
its way is at least as old as its attempt (`CopiesAgeWithTheAttempt`): it is then
gone before the window is over.  `LeaseIsExclusive` and `LeaseRefusals` follow.

### The extension host

`ExtensionProofs`, under `ClientAssumption` and `SessionAssumption`, for any
number of cases, steps and restarts, and any number of frames in the channel.
That an answer is the answer to its call depends on what is on the wire.
`WireInv`: from a child that sends nothing of its own accord at most one answer
is in the channel, it is to the request under way, and it is there only while
that call waits or its session is being torn down.  This holds because each
request is sent to a child that owes nothing, and because a call which gives up
ends the child and its channel (`ChildInv`: which child is held at which stage,
and how many restarts that took).  `ProcessInv` has every other child unborn,
reaped or stray, and by `StrayInv` a stray ends the client, which is why there is
one at most; `DriverInv` has the oracle asked only in sessions without a fault.
`AnswersBelong`, `NoChildLeaks` and `FindingsAreClean` follow.

### The results directory

`StoreProofs`, under `MigrationAssumption` and `StoreAssumption`, for any number
of commands and failures.  `StoreInv` has four parts beside the types.  `LockInv`:
whoever is in a step that the lock guards holds it, alone.  `TreeInv`: who has
left the migration has no legacy directory or was misled, what the legacy
directory held is there or in the target, and a finding directory, once made,
stays.  `DocInv`: how far the holder of the lock has come in the order of the
files.  What is to be published lies between what is published and the evidence
there is, so the files written before `findings.json` always have at least what
it lists, whichever rebuild wrote it and wherever a later one broke off.
`ManifestInv`: the manifest is the end of the list of all records ever saved,
and the holder's copy of it is current.  `Attested` needs that evidence only
grows, so that a subject, once there, is not gone when the lock is free again.

### Campaigns and merges

`MulticoreProofs`, under `MergeAssumption`, for any sets of workers, findings
and files and any number of faults.  `MergeInvariant` has two layers.  `KeptInv`
holds whatever is misread: emissions are ordered, an intent names a directory,
every file of a complete finding is in one of the two trees (`FilesAreKept`),
and a merge has established at each stage what it needs to keep it so
(`StagesAreReached`).  `MergeInv` holds as long as no failed read has been taken
for an absence; each action is shown to preserve it when it does not set
`misread`.  `MergeInv` has a part about the disk and one about the merge under
way.  The disk: a finding is written files first and untouched by merges until
its record is complete (`EmissionsAreOrdered`); an intent names the one
directory that holds what has moved, and no other record names it
(`IntentsNameTheirTarget`); a committed directory is whole and its source gone
or pointing at it (`CommitsAreWhole`, `RecordsAreUnique`).  The merge: what each
stage has established (`MergeIsOnItsWay`), and that `seen` has the keys of every
committed finding (`SeenIsUpToDate`), which is what keeps a landed record from
being merged again when its source could not be dropped. Lemmas about the disk
(`DiskCreate`, `DiskIntent`, `DiskFile`, `DiskRecord`, ...) say what each kind
of write preserves; one lemma per action applies them. `FindingsAreWhole`
follows from `MergeInv`, `NothingIsLostEver` from both layers.

`CampaignInvariant` adds `CampaignTypes`, in which the campaign and the merge
agree on where they are, and `OnceInv`: without a fault an intent is carried out
before the next finding is looked at, so every record that holds a finding has
its keys in `seen` and a finding under merge shares none of them.
`MulticoreTypes` and `MergedOnce` follow.  `OrdinalAssumption` says that there is
a last ordinal (they are machine integers), so that a set of them has a largest
element for the merge to continue from.

### Only model-checked

Liveness: `ShutdownCompletes`, `AcknowledgedJobsSettle`, `RefresherStops`,
`SessionsEnd`, `CommandsEnd`, `AcquireReturns` and `FindingsSettle` need
fairness, and with it `ENABLED`, which the prover does not handle.  The
properties of the violation runs are false of the code, so there is nothing to
prove.

## 6. Not modelled

See the components in `PROJECT.json`.  Of the crates above: the webhook's HTTP
exchange; orphaned children of a dead scheduler, which
`docs/scheduler-reliability.md` leaves to the operator; frame encoding, rlimits
and backoff times of the extension host; what the documents of a rebuild say
about each finding, and the static and SBOM reports in them; in a campaign the
corpus sync (a parent that dies during it may have a same-named input of a
worker overwritten by the next campaign's seeding), the summary, and campaigns
without a time budget; commands that rewrite a half-merged worker record
(`touch_last_seen`), which would hide its intent.  The condition variable of the
workers: an idle worker may look at the queue at any time, as its timed wait
lets it.  How one rebuild of the refresh thread fails: success, warning and
caught panic have the same effect on its state.

Of the repository: nearly all of its 440 000 lines are parsers, harness and stub
generators, static analysis, governance tables and reports, that is, sequential
functions of text with a test suite of their own.  They keep no state between
calls and meet no interleaving, crash or message; a model would restate the code
without a question to ask of it.  The map therefore covers a small share of the
lines.  The parts with such questions that are still open are in the plan: the
campaign sweep, and the minimiser as an algorithm.
