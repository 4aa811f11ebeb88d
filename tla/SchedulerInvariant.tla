-------------------------- MODULE SchedulerInvariant --------------------------
(***************************************************************************)
(* The inductive invariant behind the safety properties of Scheduler.  TLC *)
(* checks it on small instances; SchedulerProofs proves it for all.        *)
(*                                                                         *)
(* The idea: memory, file and durable snapshot are three stages of one     *)
(* history.  Each continues the one below it, rows never move, and a row   *)
(* that ended never changes again; a worker that holds a job pins its row  *)
(* to Running in all three.                                                *)
(***************************************************************************)
EXTENDS Scheduler

Row(id) == id + 1

(* Job IDs are the positions of the rows: no ID is skipped or reused.      *)
Dense(rows) == \A i \in DOMAIN rows : rows[i].job_id = i - 1

(* `new` is a later stage of the history `old`.                            *)
Continues(old, new) ==
  /\ Len(old) <= Len(new)
  /\ \A i \in DOMAIN old :
       /\ Request(new[i]) = Request(old[i])
       /\ old[i].state \in Terminal => new[i] = old[i]

IdsAreDense ==
  /\ Dense(seen) /\ Dense(disk) /\ Dense(synced)
  /\ next_id = Len(seen)

DiskContinuesSynced == Continues(synced, disk)

MemoryContinuesDisk ==
  /\ phase \in {"down", "refused"} => seen = <<>>
  /\ phase = "recovering" =>
       /\ Len(seen) <= Len(disk)
       /\ \A i \in DOMAIN seen : seen[i] = Requeued(disk[i])
  /\ Live => Continues(disk, seen) /\ Len(disk) = Len(seen)

(* Outside a live scheduler no thread exists and nothing was launched.     *)
NoThreadsBeforeStart ==
  ~Live => /\ \A w \in Workers : pc[w] = "off"
           /\ launched = {}

(* Waiting jobs are queued rows of the history, in submission order.       *)
QueueIsWaiting ==
  /\ \A k \in DOMAIN queue :
       /\ Row(queue[k].job_id) \in DOMAIN seen
       /\ queue[k] = seen[Row(queue[k].job_id)]
       /\ queue[k].state = "queued"
  /\ \A j, k \in DOMAIN queue : j < k => queue[j].job_id < queue[k].job_id

(* A worker that holds a job pins its row to Running everywhere.           *)
HeldIsRunning(w) ==
  /\ held[w] \in FuzzJob
  /\ Row(held[w].job_id) \in DOMAIN synced
  /\ Request(synced[Row(held[w].job_id)]) = Request(held[w])
  /\ synced[Row(held[w].job_id)].state = "running"
  /\ disk[Row(held[w].job_id)] = synced[Row(held[w].job_id)]
  /\ seen[Row(held[w].job_id)] = synced[Row(held[w].job_id)]

BusyPinsItsRow == \A w \in Workers : Busy(w) => HeldIsRunning(w)

(* A worker about to notify has a durable result to notify of.             *)
ResultIsSaved ==
  \A w \in Workers :
    /\ pc[w] = "ran" => outcome[w] # "none"
    /\ pc[w] \in {"committed", "posting"} =>
         /\ held[w] \in FuzzJob
         /\ outcome[w] \in Terminal
         /\ Row(held[w].job_id) \in DOMAIN synced
         /\ synced[Row(held[w].job_id)].state = outcome[w]

PromisesAreSaved ==
  /\ \A request \in acked :
       /\ Row(request.job_id) \in DOMAIN synced
       /\ Request(synced[Row(request.job_id)]) = request
  /\ \A note \in posted :
       /\ Row(note.job_id) \in DOMAIN synced
       /\ synced[Row(note.job_id)].state = note.state

(* Failing and stopping go together, so that a latched fault stops all     *)
(* admission and dispatch, and only a stop interrupts a job.               *)
FaultStops == fault # NoFault => shutdown

InterruptsFollowShutdown ==
  \A w \in Workers : (pc[w] = "ran" /\ outcome[w] = "interrupted") => shutdown

(* Nothing that waits, or is about to be launched, was launched before.    *)
LaunchedIsOver ==
  /\ \A id \in launched : Row(id) \in DOMAIN seen
  /\ \A k \in DOMAIN queue : queue[k].job_id \notin launched
  /\ \A w \in Workers :
       pc[w] \in {"claimed", "launching"} => held[w].job_id \notin launched

(* While work is taken, open rows are in the queue or in a worker's hands. *)
OpenRowsHaveAPlace ==
  ~shutdown =>
    \A i \in DOMAIN seen :
      /\ seen[i].state = "queued" => \E k \in DOMAIN queue : queue[k] = seen[i]
      /\ seen[i].state = "running" =>
           \E w \in Workers : Busy(w) /\ held[w].job_id = seen[i].job_id

(* The inductive invariant: together these parts hold when the process is  *)
(* not running and every operation, failure and crash preserves them.      *)
SchedulerInv ==
  /\ TypeOK
  /\ IdsAreDense
  /\ DiskContinuesSynced
  /\ MemoryContinuesDisk
  /\ NoThreadsBeforeStart
  /\ QueueIsWaiting
  /\ BusyPinsItsRow
  /\ ClaimsAreExclusive
  /\ ResultIsSaved
  /\ PromisesAreSaved
  /\ FaultStops
  /\ InterruptsFollowShutdown
  /\ LaunchedIsOver
  /\ OpenRowsHaveAPlace
=============================================================================
