------------------------------ MODULE Scheduler ------------------------------
(***************************************************************************)
(* The job scheduler of crates/continuous_daemon: the state behind its one *)
(* mutex, the worker threads, the jobs.jsonl snapshot, start and recovery, *)
(* shutdown, and the failures the code handles: a failed save (before or   *)
(* after the rename that installs it), a killed process, a power loss.     *)
(*                                                                         *)
(* Everything a thread does while it holds the scheduler mutex is one      *)
(* action.  A process that dies inside a save leaves what the matching     *)
(* failed save followed by Crash or PowerLoss leaves: the volatile state   *)
(* is gone either way and the snapshot is the old or the new one.          *)
(***************************************************************************)
EXTENDS Integers, Sequences

CONSTANTS
  Workers,           \* the worker threads, max_concurrent_jobs.max(1) of them
  Projects,          \* project directories
  Sizes,             \* bytes of a job's line, newline included, state word not
  Budgets,           \* time budgets; 0 is "unlimited until shutdown"
  MaxJobs,           \* SchedulerLimits::max_jobs
  MaxQueued,         \* SchedulerLimits::max_queued_jobs
  MaxSnapshotBytes,  \* SchedulerLimits::max_snapshot_bytes
  MaxJobBytes,       \* SchedulerLimits::max_job_bytes
  MaxId,             \* u64::MAX, the end of the ID space
  Webhook,           \* is DaemonConfig::webhook_url set?
  NoJob,             \* a worker that holds no job
  NoFault            \* InnerState::storage_fault = None

ASSUME ConstantsAssumption ==
  /\ Workers # {}
  /\ Sizes \subseteq Nat
  /\ Budgets \subseteq Nat
  /\ MaxJobs \in Nat \ {0}
  /\ MaxQueued \in Nat \ {0}
  /\ MaxSnapshotBytes \in Nat \ {0}
  /\ MaxJobBytes \in Nat \ {0}
  /\ MaxId \in Nat
  /\ Webhook \in BOOLEAN

JobStates == {"queued", "running", "complete", "failed"}
Terminal == {"complete", "failed"}

FuzzJob == [job_id : Nat, project_dir : Projects, bytes : Sizes,
            time_budget : Budgets, state : JobStates]

(* What a submission asked for: the row without its changing state.        *)
Request(job) == [job_id |-> job.job_id, project_dir |-> job.project_dir,
                 bytes |-> job.bytes, time_budget |-> job.time_budget]

StorageFault == [phase : {"admission", "start", "completion"},
                 job_id : Nat, snapshot_installed : BOOLEAN]

VARIABLES
  phase,     \* life of the Scheduler value: see Phases
  seen,      \* InnerState::seen, every retained job in submission order
  queue,     \* InnerState::queue
  shutdown,  \* InnerState::shutdown
  next_id,   \* InnerState::next_id
  reserved,  \* InnerState::snapshot_bytes_reserved
  fault,     \* InnerState::storage_fault
  pc,        \* where each worker thread is: see Steps
  held,      \* the job each worker claimed
  child,     \* the worker's `bhf fuzz` child
  outcome,   \* what run_one_job returned
  disk,      \* jobs.jsonl as the file system shows it
  synced,    \* jobs.jsonl as it survives a power loss
  acked,     \* history: requests whose submit returned Ok
  posted,    \* history: webhook notifications that were sent
  launched   \* history: jobs spawned since this scheduler started

memory == <<seen, queue, shutdown, next_id, reserved, fault>>
threads == <<pc, held, child, outcome>>
storage == <<disk, synced>>
history == <<acked, posted>>
vars == <<phase, memory, threads, storage, history, launched>>

(* down: no process.  refused: start returned an error.  recovering: start *)
(* reads jobs.jsonl.  starting: start spawns the workers.  up: the handle  *)
(* is in use.  dropping: Drop (or a start that gave up) joins the workers. *)
Phases == {"down", "refused", "recovering", "starting", "up", "dropping"}
Live == phase \in {"starting", "up", "dropping"}

(* off: not spawned.  idle: waiting for a job.  claimed, launching,        *)
(* running: in run_one_job.  ran: run_one_job returned.  committed: the    *)
(* final state is saved.  posting: in post_webhook.  exited: returned.     *)
Steps == {"off", "idle", "claimed", "launching", "running", "ran",
          "committed", "posting", "exited"}
Busy(w) == pc[w] \in {"claimed", "launching", "running", "ran"}

Outcomes == {"none", "complete", "failed", "interrupted"}

-----------------------------------------------------------------------------
(* Byte accounting.                                                        *)

(* Length of the serialised state word ("queued", "running", ...).         *)
StateBytes(state) ==
  CASE state = "complete" -> 8 [] state = "running" -> 7 [] OTHER -> 6

JobBytes(job) == job.bytes + StateBytes(job.state)

(* Mutant: reserve what the row takes now, not what it may grow to.        *)
reserved_job_bytes_now(job) == JobBytes(job)

reserved_job_bytes(job) == job.bytes + StateBytes("complete")

(* The sum of a sequence of sizes, and of each of its beginnings.          *)
Sums(sizes) ==
  LET sum[n \in 0 .. Len(sizes)] == IF n = 0 THEN 0 ELSE sum[n - 1] + sizes[n]
  IN  sum

Total(sizes) == Sums(sizes)[Len(sizes)]

SnapshotBytes(rows) == Total([i \in DOMAIN rows |-> JobBytes(rows[i])])

(* What snapshot_bytes_reserved counts, line by line.                      *)
Reserves(rows) == [i \in DOMAIN rows |-> reserved_job_bytes(rows[i])]

-----------------------------------------------------------------------------
(* Saving the snapshot.                                                    *)

(* persist_jobs: write a temporary file, sync it, rename it over           *)
(* jobs.jsonl, sync the directory.  "before" fails up to the rename and    *)
(* leaves the old file; "after" fails in the directory sync: the new file  *)
(* is installed and a power loss may still bring back the old one.         *)
SaveFailures == {"before", "after"}

(* Mutant: forget the directory sync.                                      *)
persist_jobs_unsynced(rows, result) ==
  /\ disk' = IF result = "before" THEN disk ELSE rows
  /\ synced' = synced

persist_jobs(rows, result) ==
  /\ disk' = IF result = "before" THEN disk ELSE rows
  /\ synced' = IF result = "ok" THEN rows ELSE synced

(* The first fault is kept; admission and dispatch stop.                   *)
latch_storage_fault(at, id, result) ==
  /\ fault' = IF fault = NoFault
              THEN [phase |-> at, job_id |-> id,
                    snapshot_installed |-> result = "after"]
              ELSE fault
  /\ shutdown' = TRUE

WithState(rows, id, state) ==
  [i \in DOMAIN rows |->
     IF rows[i].job_id = id THEN [rows[i] EXCEPT !.state = state] ELSE rows[i]]

-----------------------------------------------------------------------------
(* Start and recovery.                                                     *)

(* The process holds nothing any more.                                     *)
Forget ==
  /\ seen' = <<>> /\ queue' = <<>>
  /\ shutdown' = FALSE /\ next_id' = 0 /\ reserved' = 0 /\ fault' = NoFault
  /\ pc' = [w \in Workers |-> "off"]
  /\ held' = [w \in Workers |-> NoJob]
  /\ child' = [w \in Workers |-> "none"]
  /\ outcome' = [w \in Workers |-> "none"]
  /\ launched' = {}

(* start: the lease is taken before the history is read.                   *)
Start ==
  /\ phase \in {"down", "refused"}
  /\ phase' = "recovering"
  /\ UNCHANGED <<memory, threads, storage, history, launched>>

(* Mutant: trust the state on disk.                                        *)
Requeued_as_is(job) == job

(* Mutant: give failed jobs another try.                                   *)
Requeued_retry(job) ==
  IF job.state # "complete" THEN [job EXCEPT !.state = "queued"] ELSE job

(* A job that was Running when the last process ended is Queued again.     *)
Requeued(job) ==
  IF job.state = "running" THEN [job EXCEPT !.state = "queued"] ELSE job

SnapshotFits == SnapshotBytes(disk) <= MaxSnapshotBytes

(* Every check start makes on one line of the snapshot.                    *)
Loadable(job) ==
  /\ JobBytes(job) - 1 <= MaxJobBytes
  /\ Len(seen) < MaxJobs
  /\ \A i \in DOMAIN seen : seen[i].job_id # job.job_id
  /\ job.job_id < MaxId
  /\ reserved_job_bytes(job) <= MaxJobBytes
  /\ reserved + reserved_job_bytes(job) <= MaxSnapshotBytes
  /\ Requeued(job).state = "queued" => Len(queue) < MaxQueued

(* Mutant: resume numbering at the number of rows that still need to run.  *)
NextIdAfter_pending(number) == Len(queue)

NextIdAfter(number) == IF next_id > number THEN next_id ELSE number + 1

RecoverLine ==
  /\ phase = "recovering"
  /\ SnapshotFits
  /\ Len(seen) < Len(disk)
  /\ LET line == disk[Len(seen) + 1]
         job == Requeued(line)
     IN /\ Loadable(line)
        /\ next_id' = NextIdAfter(job.job_id)
        /\ reserved' = reserved + reserved_job_bytes(job)
        /\ seen' = Append(seen, job)
        /\ queue' = IF job.state = "queued" THEN Append(queue, job) ELSE queue
  /\ UNCHANGED <<phase, shutdown, fault, threads, storage, history, launched>>

(* One line fails a check: start returns an error, the lease is released.  *)
RefuseStart ==
  /\ phase = "recovering"
  /\ ~ /\ SnapshotFits
       /\ Len(seen) < Len(disk) => Loadable(disk[Len(seen) + 1])
  /\ phase' = "refused"
  /\ Forget
  /\ UNCHANGED <<storage, history>>

RecoveryDone ==
  /\ phase = "recovering"
  /\ SnapshotFits
  /\ Len(seen) = Len(disk)
  /\ phase' = "starting"
  /\ UNCHANGED <<memory, threads, storage, history, launched>>

SpawnWorker(w) ==
  /\ phase = "starting"
  /\ pc[w] = "off"
  /\ pc' = [pc EXCEPT ![w] = "idle"]
  /\ UNCHANGED <<phase, memory, held, child, outcome, storage, history, launched>>

(* A thread cannot be created: stop the ones that run and give up.         *)
SpawnWorkerFails(w) ==
  /\ phase = "starting"
  /\ pc[w] = "off"
  /\ pc' = [v \in Workers |-> IF pc[v] = "off" THEN "exited" ELSE pc[v]]
  /\ shutdown' = TRUE
  /\ phase' = "dropping"
  /\ UNCHANGED <<seen, queue, next_id, reserved, fault, held, child, outcome,
                 storage, history, launched>>

StartReturns ==
  /\ phase = "starting"
  /\ \A w \in Workers : pc[w] # "off"
  /\ phase' = "up"
  /\ UNCHANGED <<memory, threads, storage, history, launched>>

-----------------------------------------------------------------------------
(* Admission.                                                              *)

(* The early returns of submit, all taken before anything changes.         *)
Admissible(job) ==
  /\ phase = "up"
  /\ ~shutdown
  /\ Len(seen) < MaxJobs
  /\ Len(queue) < MaxQueued
  /\ next_id < MaxId
  /\ reserved_job_bytes(job) <= MaxJobBytes
  /\ reserved + reserved_job_bytes(job) <= MaxSnapshotBytes

NewJob(project, size, budget) ==
  [job_id |-> next_id, project_dir |-> project, bytes |-> size,
   time_budget |-> budget, state |-> "queued"]

Submit(project, size, budget) ==
  LET job == NewJob(project, size, budget) IN
  /\ Admissible(job)
  /\ seen' = Append(seen, job)
  /\ persist_jobs(seen', "ok")
  /\ queue' = Append(queue, job)
  /\ next_id' = next_id + 1
  /\ reserved' = reserved + reserved_job_bytes(job)
  /\ acked' = acked \union {Request(job)}
  /\ UNCHANGED <<phase, shutdown, fault, threads, posted, launched>>

(* Not installed: the row is taken back and its ID is free.  Installed:    *)
(* DurabilityUncertain; the row and its ID stay and it is not dispatched.  *)
SubmitFails(project, size, budget, result) ==
  LET job == NewJob(project, size, budget)
      rows == Append(seen, job)
      installed == result = "after"
  IN
  /\ Admissible(job)
  /\ persist_jobs(rows, result)
  /\ latch_storage_fault("admission", job.job_id, result)
  /\ seen' = IF installed THEN rows ELSE seen
  /\ next_id' = IF installed THEN next_id + 1 ELSE next_id
  /\ reserved' = IF installed THEN reserved + reserved_job_bytes(job) ELSE reserved
  /\ UNCHANGED <<phase, queue, threads, history, launched>>

-----------------------------------------------------------------------------
(* A worker: claim a job.                                                  *)

(* Mutant: dequeue and dispatch, and leave Running to the next save.       *)
Claim_unsaved(w) ==
  LET job == Head(queue) IN
  /\ pc[w] = "idle" /\ ~shutdown /\ queue # <<>>
  /\ seen' = WithState(seen, job.job_id, "running")
  /\ queue' = Tail(queue)
  /\ pc' = [pc EXCEPT ![w] = "claimed"]
  /\ held' = [held EXCEPT ![w] = job]
  /\ UNCHANGED <<phase, shutdown, next_id, reserved, fault, child, outcome,
                 storage, history, launched>>

(* Mutant: peek at the front and leave it there.                           *)
Claim_peeks(w) ==
  LET job == Head(queue) IN
  /\ pc[w] = "idle" /\ ~shutdown /\ queue # <<>>
  /\ seen' = WithState(seen, job.job_id, "running")
  /\ persist_jobs(seen', "ok")
  /\ queue' = queue
  /\ pc' = [pc EXCEPT ![w] = "claimed"]
  /\ held' = [held EXCEPT ![w] = job]
  /\ UNCHANGED <<phase, shutdown, next_id, reserved, fault, child, outcome,
                 history, launched>>

(* Running is saved before the job leaves the queue.                       *)
Claim(w) ==
  LET job == Head(queue) IN
  /\ pc[w] = "idle" /\ ~shutdown /\ queue # <<>>
  /\ \E i \in DOMAIN seen : seen[i].job_id = job.job_id
  /\ seen' = WithState(seen, job.job_id, "running")
  /\ persist_jobs(seen', "ok")
  /\ queue' = Tail(queue)
  /\ pc' = [pc EXCEPT ![w] = "claimed"]
  /\ held' = [held EXCEPT ![w] = job]
  /\ UNCHANGED <<phase, shutdown, next_id, reserved, fault, child, outcome,
                 history, launched>>

(* The save failed, or the job is missing from the history (which fails    *)
(* before any save): the row is Queued again, the worker returns.          *)
ClaimFails(w, result) ==
  LET job == Head(queue) IN
  /\ pc[w] = "idle" /\ ~shutdown /\ queue # <<>>
  /\ (\A i \in DOMAIN seen : seen[i].job_id # job.job_id) => result = "before"
  /\ persist_jobs(WithState(seen, job.job_id, "running"), result)
  /\ seen' = WithState(seen, job.job_id, "queued")
  /\ latch_storage_fault("start", job.job_id, result)
  /\ pc' = [pc EXCEPT ![w] = "exited"]
  /\ UNCHANGED <<phase, queue, next_id, reserved, held, child, outcome,
                 history, launched>>

(* Mutant: leave only once the queue is drained.                           *)
WorkerExits_drains(w) ==
  /\ pc[w] = "idle"
  /\ shutdown /\ queue = <<>>
  /\ pc' = [pc EXCEPT ![w] = "exited"]
  /\ UNCHANGED <<phase, memory, held, child, outcome, storage, history, launched>>

WorkerExits(w) ==
  /\ pc[w] = "idle"
  /\ shutdown
  /\ pc' = [pc EXCEPT ![w] = "exited"]
  /\ UNCHANGED <<phase, memory, held, child, outcome, storage, history, launched>>

-----------------------------------------------------------------------------
(* A worker: run_one_job.                                                  *)

(* The child is gone (killed with its process group, or reaped) and        *)
(* run_one_job returns.                                                    *)
Returns(w, result) ==
  /\ pc' = [pc EXCEPT ![w] = "ran"]
  /\ child' = [child EXCEPT ![w] = "none"]
  /\ outcome' = [outcome EXCEPT ![w] = result]
  /\ UNCHANGED <<phase, memory, held, storage, history, launched>>

(* The shutdown flag is read under the mutex, the child spawned after it.  *)
CheckBeforeSpawn(w) ==
  /\ pc[w] = "claimed"
  /\ IF shutdown
     THEN Returns(w, "interrupted")
     ELSE /\ pc' = [pc EXCEPT ![w] = "launching"]
          /\ UNCHANGED <<phase, memory, held, child, outcome, storage, history,
                         launched>>

SpawnChild(w) ==
  /\ pc[w] = "launching"
  /\ pc' = [pc EXCEPT ![w] = "running"]
  /\ child' = [child EXCEPT ![w] = "live"]
  /\ launched' = launched \union {held[w].job_id}
  /\ UNCHANGED <<phase, memory, held, outcome, storage, history>>

SpawnChildFails(w) ==
  /\ pc[w] = "launching"
  /\ Returns(w, "failed")

(* The child itself, an external process.                                  *)
ChildExits(w, status) ==
  /\ child[w] = "live"
  /\ child' = [child EXCEPT ![w] = status]
  /\ UNCHANGED <<phase, memory, pc, held, outcome, storage, history, launched>>

SeeShutdown(w) ==
  /\ pc[w] = "running"
  /\ shutdown
  /\ Returns(w, "interrupted")

(* try_wait comes after the shutdown check, so a shutdown in between does  *)
(* not hide an exit that is already there.                                 *)
SeeExit(w) ==
  /\ pc[w] = "running"
  /\ child[w] \in {"success", "failure"}
  /\ Returns(w, IF child[w] = "success" THEN "complete" ELSE "failed")

SeeDeadline(w) ==
  /\ pc[w] = "running"
  /\ child[w] = "live"
  /\ held[w].time_budget > 0
  /\ Returns(w, IF shutdown THEN "interrupted" ELSE "failed")

(* try_wait fails, or the deadline is past the end of the clock.           *)
WaitFails(w) ==
  /\ pc[w] = "running"
  /\ Returns(w, "failed")

-----------------------------------------------------------------------------
(* A worker: finish_job and the webhook.                                   *)

(* Mutant: keep the interrupted result as the row's state.                 *)
FinalState_raw(result) == result

(* An interrupted job is retained for the next start.                      *)
FinalState(result) == IF result = "interrupted" THEN "queued" ELSE result

LetGo(w, step) ==
  /\ pc' = [pc EXCEPT ![w] = step]
  /\ held' = [held EXCEPT ![w] = NoJob]
  /\ outcome' = [outcome EXCEPT ![w] = "none"]

Finish(w) ==
  /\ pc[w] = "ran"
  /\ fault = NoFault
  /\ seen' = WithState(seen, held[w].job_id, FinalState(outcome[w]))
  /\ persist_jobs(seen', "ok")
  /\ IF outcome[w] = "interrupted"
     THEN LetGo(w, "exited")
     ELSE pc' = [pc EXCEPT ![w] = "committed"] /\ UNCHANGED <<held, outcome>>
  /\ UNCHANGED <<phase, queue, shutdown, next_id, reserved, fault, child,
                 history, launched>>

FinishFails(w, result) ==
  /\ pc[w] = "ran"
  /\ fault = NoFault
  /\ seen' = WithState(seen, held[w].job_id, FinalState(outcome[w]))
  /\ persist_jobs(seen', result)
  /\ latch_storage_fault("completion", held[w].job_id, result)
  /\ LetGo(w, "exited")
  /\ UNCHANGED <<phase, queue, next_id, reserved, child, history, launched>>

(* Mutant: save over the snapshot the fault left in doubt.                 *)
FinishAfterFault_saves(w) ==
  /\ pc[w] = "ran"
  /\ fault # NoFault
  /\ seen' = WithState(seen, held[w].job_id, FinalState(outcome[w]))
  /\ persist_jobs(seen', "ok")
  /\ LetGo(w, "exited")
  /\ UNCHANGED <<phase, queue, shutdown, next_id, reserved, fault, child,
                 history, launched>>

(* A fault is latched already: show the state, write nothing, return.      *)
FinishAfterFault(w) ==
  /\ pc[w] = "ran"
  /\ fault # NoFault
  /\ seen' = WithState(seen, held[w].job_id, FinalState(outcome[w]))
  /\ LetGo(w, "exited")
  /\ UNCHANGED <<phase, queue, shutdown, next_id, reserved, fault, child,
                 storage, history, launched>>

CheckBeforePost(w) ==
  /\ pc[w] = "committed"
  /\ IF ~shutdown /\ Webhook
     THEN pc' = [pc EXCEPT ![w] = "posting"] /\ UNCHANGED <<held, outcome>>
     ELSE LetGo(w, IF shutdown THEN "exited" ELSE "idle")
  /\ UNCHANGED <<phase, memory, child, storage, history, launched>>

(* post_webhook: best effort, its result is dropped.                       *)
Post(w, sent) ==
  /\ pc[w] = "posting"
  /\ posted' = IF sent
               THEN posted \union {[job_id |-> held[w].job_id, state |-> outcome[w]]}
               ELSE posted
  /\ LetGo(w, "idle")
  /\ UNCHANGED <<phase, memory, child, storage, acked, launched>>

-----------------------------------------------------------------------------
(* Shutdown, and the ways the process ends.                                *)

RequestShutdown ==
  /\ phase = "up"
  /\ shutdown' = TRUE
  /\ UNCHANGED <<phase, seen, queue, next_id, reserved, fault, threads, storage,
                 history, launched>>

Drop ==
  /\ phase = "up"
  /\ phase' = "dropping"
  /\ shutdown' = TRUE
  /\ UNCHANGED <<seen, queue, next_id, reserved, fault, threads, storage,
                 history, launched>>

(* Every worker is joined; only then is the lease released.                *)
Joined ==
  /\ phase = "dropping"
  /\ \A w \in Workers : pc[w] = "exited"
  /\ phase' = "down"
  /\ Forget
  /\ UNCHANGED <<storage, history>>

(* The process is killed; the file system stays as it is.                  *)
Crash ==
  /\ phase \in {"recovering", "starting", "up", "dropping"}
  /\ phase' = "down"
  /\ Forget
  /\ UNCHANGED <<storage, history>>

(* The machine stops: a rename that was not synced may be undone.          *)
PowerLoss(kept) ==
  /\ disk' = IF kept THEN disk ELSE synced
  /\ synced' = disk'
  /\ phase' = "down"
  /\ Forget
  /\ UNCHANGED history

-----------------------------------------------------------------------------
Init ==
  /\ phase = "down"
  /\ seen = <<>> /\ queue = <<>>
  /\ shutdown = FALSE /\ next_id = 0 /\ reserved = 0 /\ fault = NoFault
  /\ pc = [w \in Workers |-> "off"]
  /\ held = [w \in Workers |-> NoJob]
  /\ child = [w \in Workers |-> "none"]
  /\ outcome = [w \in Workers |-> "none"]
  /\ launched = {}
  /\ disk = <<>> /\ synced = <<>>
  /\ acked = {} /\ posted = {}

Starting ==
  \/ Start \/ RecoverLine \/ RefuseStart \/ RecoveryDone \/ StartReturns
  \/ \E w \in Workers : SpawnWorker(w) \/ SpawnWorkerFails(w)

Admission ==
  \E project \in Projects, size \in Sizes, budget \in Budgets :
    \/ Submit(project, size, budget)
    \/ \E result \in SaveFailures : SubmitFails(project, size, budget, result)

Working(w) ==
  \/ Claim(w) \/ WorkerExits(w)
  \/ CheckBeforeSpawn(w) \/ SpawnChild(w)
  \/ SeeShutdown(w) \/ SeeExit(w) \/ SeeDeadline(w)
  \/ Finish(w) \/ FinishAfterFault(w) \/ CheckBeforePost(w)
  \/ \E sent \in BOOLEAN : Post(w, sent)

Failing(w) ==
  \/ SpawnChildFails(w) \/ WaitFails(w)
  \/ \E result \in SaveFailures : ClaimFails(w, result) \/ FinishFails(w, result)

Stopping == RequestShutdown \/ Drop \/ Joined \/ Crash \/ \E kept \in BOOLEAN : PowerLoss(kept)

Next ==
  \/ Starting
  \/ Admission
  \/ \E w \in Workers :
       \/ Working(w)
       \/ Failing(w)
       \/ \E status \in {"success", "failure"} : ChildExits(w, status)
  \/ Stopping

Spec == Init /\ [][Next]_vars

(* A worker thread that can take a step takes one: reaching the deadline   *)
(* of a timed job is the passing of time, post_webhook has a deadline, and *)
(* an idle worker polls, so no wake-up is waited for.  A start that began  *)
(* goes on, and Drop returns from its joins.  Submissions, shutdown, crash *)
(* and failures are the environment's and owe nothing.                     *)
Fairness ==
  /\ \A w \in Workers : WF_vars(Working(w)) /\ WF_vars(SpawnWorker(w))
  /\ WF_vars(RecoverLine \/ RecoveryDone \/ StartReturns)
  /\ WF_vars(Joined)

FairSpec == Spec /\ Fairness

-----------------------------------------------------------------------------
(* Properties.                                                             *)

TypeOK ==
  /\ phase \in Phases
  /\ seen \in Seq(FuzzJob) /\ queue \in Seq(FuzzJob)
  /\ shutdown \in BOOLEAN
  /\ next_id \in Nat /\ reserved \in Nat
  /\ fault \in StorageFault \union {NoFault}
  /\ pc \in [Workers -> Steps]
  /\ held \in [Workers -> FuzzJob \union {NoJob}]
  /\ child \in [Workers -> {"none", "live", "success", "failure"}]
  /\ outcome \in [Workers -> Outcomes]
  /\ disk \in Seq(FuzzJob) /\ synced \in Seq(FuzzJob)
  /\ acked \subseteq [job_id : Nat, project_dir : Projects, bytes : Sizes,
                      time_budget : Budgets]
  /\ posted \subseteq [job_id : Nat, state : Terminal]
  /\ launched \subseteq Nat

(* A submission that was answered Ok is in every snapshot a restart can    *)
(* find, after a kill or a power loss at any later point, with the request *)
(* it was made with; and its ID was never given to another acknowledged    *)
(* submission, though start recomputes next_id from the rows it reads.     *)
AckedJobsSurvive ==
  /\ \A request \in acked :
       /\ \E i \in DOMAIN disk : Request(disk[i]) = request
       /\ \E i \in DOMAIN synced : Request(synced[i]) = request
  /\ \A a, b \in acked : a.job_id = b.job_id => a = b

(* A job that was announced by webhook is over: both snapshots say it      *)
(* ended that way, no later scheduler queues it again, no worker runs it.  *)
NotifiedJobsAreFinal ==
  \A note \in posted :
    /\ \E i \in DOMAIN synced :
         synced[i].job_id = note.job_id /\ synced[i].state = note.state
    /\ \A i \in DOMAIN disk :
         disk[i].job_id = note.job_id => disk[i].state = note.state
    /\ \A k \in DOMAIN queue : queue[k].job_id # note.job_id
    /\ \A w \in Workers : Busy(w) => held[w].job_id # note.job_id

(* "No worker may dispatch an uncommitted transition": from the claim to   *)
(* the end of run_one_job the job is Running in memory and in whatever a   *)
(* power loss would leave, so recovery finds every child that may run.     *)
DispatchIsCommitted ==
  \A w \in Workers : Busy(w) =>
    \E i \in DOMAIN synced :
      /\ Request(synced[i]) = Request(held[w])
      /\ synced[i].state = "running"
      /\ i \in DOMAIN disk /\ disk[i] = synced[i]
      /\ i \in DOMAIN seen /\ seen[i] = synced[i]

(* Two workers never hold the same job, across claims, failed saves and    *)
(* recoveries.                                                             *)
ClaimsAreExclusive ==
  \A v, w \in Workers :
    (v # w /\ Busy(v) /\ Busy(w)) => held[v].job_id # held[w].job_id

(* While the scheduler accepts work, every job that has not ended is       *)
(* waiting in the queue, once and in submission order, or is held by a     *)
(* worker: a restart, an interrupted job or a failed claim strands none.   *)
NoJobIsStranded ==
  (phase \in {"starting", "up"} /\ ~shutdown) =>
    /\ \A i \in DOMAIN seen :
         /\ seen[i].state = "queued" => \E k \in DOMAIN queue : queue[k] = seen[i]
         /\ seen[i].state = "running" =>
              \E w \in Workers : Busy(w) /\ held[w].job_id = seen[i].job_id
    /\ \A k \in DOMAIN queue : \E i \in DOMAIN seen : seen[i] = queue[k]
    /\ \A j, k \in DOMAIN queue : j < k => queue[j].job_id < queue[k].job_id

(* The snapshot on disk always passes the byte limits start applies: no    *)
(* sequence of transitions lets the scheduler write a history that is too  *)
(* long for it to read (the limit on queued jobs is RestartIsAccepted's).  *)
(* The reservation is what the rows can grow to.                           *)
SnapshotStaysReadable ==
  /\ SnapshotBytes(disk) <= MaxSnapshotBytes
  /\ \A i \in DOMAIN disk : JobBytes(disk[i]) <= MaxJobBytes
  /\ Live => reserved = Total(Reserves(seen))

(* Fail closed: once a save has failed, nothing this process does changes  *)
(* the snapshot, the queue or the recorded fault, no job is admitted, and  *)
(* nothing is newly claimed.                                               *)
FailsClosed ==
  [][(fault # NoFault /\ phase' \in {"starting", "up", "dropping"}) =>
       /\ UNCHANGED <<storage, queue, fault, acked>>
       /\ \A w \in Workers : pc[w] = "idle" => ~(pc'[w] = "claimed")]_vars

(* One process never launches a job twice: an interrupted job is retained  *)
(* for the next start and is not picked up again by another worker.        *)
OneLaunchPerStart ==
  [][\A w \in Workers :
       (pc[w] = "launching" /\ pc'[w] = "running")
         => held[w].job_id \notin launched]_vars

(* Drop returns: workers that wait, run children or post all stop once     *)
(* shutdown is set, whatever is left in the queue.                         *)
ShutdownCompletes == phase = "dropping" ~> phase = "down"

Settled(id) ==
  \E i \in DOMAIN disk : disk[i].job_id = id /\ disk[i].state \in Terminal

(* At-least-once execution: if from some point on a scheduler stays up,    *)
(* every acknowledged job, also one accepted or interrupted in an earlier  *)
(* process, ends with a result in jobs.jsonl.                              *)
AcknowledgedJobsSettle ==
  <>[](phase = "up" /\ ~shutdown) =>
    \A id \in 0..(MaxJobs - 1) :
      (\E request \in acked : request.job_id = id) ~> Settled(id)

(* docs/scheduler-reliability.md: "On restart, persisted Running records   *)
(* are requeued."  Start never turns away a history this scheduler wrote.  *)
RestartIsAccepted == phase # "refused"

-----------------------------------------------------------------------------
(* The durable snapshot implements the ledger clients rely on.             *)

LedgerRow(job) == [request |-> Request(job),
                   state |-> IF job.state \in Terminal THEN job.state ELSE "open"]

LedgerOf(rows) == [i \in DOMAIN rows |-> LedgerRow(rows[i])]

Ledger == INSTANCE JobLedger WITH ledger <- LedgerOf(synced)

(* The scheduler, its crashes and its failed saves implement JobLedger:    *)
(* the durable history only grows, an ended job keeps its result across    *)
(* restarts, and acknowledgements and webhooks never run ahead of it.      *)
ImplementsLedger == Ledger!Spec
=============================================================================
