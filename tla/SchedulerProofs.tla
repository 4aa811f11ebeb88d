--------------------------- MODULE SchedulerProofs ---------------------------
(***************************************************************************)
(* Proofs about Scheduler: SchedulerInv is inductive for every number of   *)
(* workers, jobs, projects and every limit, and what follows from it.      *)
(***************************************************************************)
EXTENDS SchedulerInvariant, TLAPS

-----------------------------------------------------------------------------
(* Rows.                                                                   *)

(* Assigning a job's state changes nothing else of the job.                *)
LEMMA NewStateFacts ==
  ASSUME NEW job \in FuzzJob, NEW state \in JobStates
  PROVE  /\ [job EXCEPT !.state = state] \in FuzzJob
         /\ [job EXCEPT !.state = state].state = state
         /\ [job EXCEPT !.state = state].job_id = job.job_id
         /\ Request([job EXCEPT !.state = state]) = Request(job)
BY DEF FuzzJob, Request

(* Setting the state of one row of a dense history, as claim_job and       *)
(* finish_job do, changes that row only and keeps its request.             *)
LEMMA WithStateFacts ==
  ASSUME NEW rows \in Seq(FuzzJob), Dense(rows),
         NEW id \in Nat, Row(id) \in DOMAIN rows,
         NEW state \in JobStates
  PROVE  /\ WithState(rows, id, state) \in Seq(FuzzJob)
         /\ Len(WithState(rows, id, state)) = Len(rows)
         /\ DOMAIN WithState(rows, id, state) = DOMAIN rows
         /\ Dense(WithState(rows, id, state))
         /\ WithState(rows, id, state)[Row(id)].state = state
         /\ \A i \in DOMAIN rows :
              /\ i # Row(id) => WithState(rows, id, state)[i] = rows[i]
              /\ Request(WithState(rows, id, state)[i]) = Request(rows[i])
<1> DEFINE new == WithState(rows, id, state)
<1>1. \A i \in DOMAIN rows :
        new[i] = IF i = Row(id) THEN [rows[i] EXCEPT !.state = state] ELSE rows[i]
  BY DEF WithState, Dense, Row
<1>2. new = [i \in 1..Len(rows) |-> new[i]]
  BY DEF WithState
<1> HIDE DEF new
<1>3. ASSUME NEW i \in DOMAIN rows
      PROVE  /\ new[i] \in FuzzJob
             /\ new[i].job_id = i - 1
             /\ i = Row(id) => new[i].state = state
             /\ i # Row(id) => new[i] = rows[i]
             /\ Request(new[i]) = Request(rows[i])
  <2>1. rows[i] \in FuzzJob /\ rows[i].job_id = i - 1
    BY DEF Dense
  <2>2. CASE i = Row(id)
    <3>1. new[i] = [rows[i] EXCEPT !.state = state]
      BY <1>1, <2>2
    <3> QED  BY <2>1, <2>2, <3>1, NewStateFacts
  <2>3. CASE i # Row(id)
    BY <1>1, <2>1, <2>3
  <2> QED  BY <2>2, <2>3
<1>4. Len(rows) \in Nat /\ DOMAIN rows = 1..Len(rows)
  OBVIOUS
<1>5. new \in Seq(FuzzJob) /\ Len(new) = Len(rows) /\ DOMAIN new = DOMAIN rows
  BY <1>2, <1>3, <1>4
<1>6. Dense(new)
  BY <1>3, <1>5 DEF Dense
<1> QED
  BY <1>3, <1>5, <1>6 DEF new

(* A row added at the end with the next number, as submit does.            *)
LEMMA AppendFacts ==
  ASSUME NEW rows \in Seq(FuzzJob), Dense(rows),
         NEW job \in FuzzJob, job.job_id = Len(rows)
  PROVE  /\ Append(rows, job) \in Seq(FuzzJob)
         /\ Len(Append(rows, job)) = Len(rows) + 1
         /\ DOMAIN Append(rows, job) = 1..(Len(rows) + 1)
         /\ Dense(Append(rows, job))
         /\ Append(rows, job)[Row(Len(rows))] = job
         /\ \A i \in DOMAIN rows : Append(rows, job)[i] = rows[i]
BY DEF Dense, Row

(* A history continues itself: a step that saves nothing loses nothing.    *)
LEMMA ContinuesReflexive ==
  ASSUME NEW rows \in Seq(FuzzJob)
  PROVE  Continues(rows, rows)
BY DEF Continues

(* Saves compose: a stage of a stage is a stage of the same history.       *)
LEMMA ContinuesTransitive ==
  ASSUME NEW a \in Seq(FuzzJob), NEW b \in Seq(FuzzJob), NEW c \in Seq(FuzzJob),
         Continues(a, b), Continues(b, c)
  PROVE  Continues(a, c)
<1>1. ASSUME NEW i \in DOMAIN a
      PROVE  /\ i \in DOMAIN b
             /\ Request(c[i]) = Request(a[i])
             /\ a[i].state \in Terminal => c[i] = a[i]
  BY DEF Continues
<1> QED  BY <1>1 DEF Continues

(* Only a row that has not ended may change its state.                     *)
LEMMA WithStateContinues ==
  ASSUME NEW rows \in Seq(FuzzJob), Dense(rows),
         NEW id \in Nat, Row(id) \in DOMAIN rows,
         NEW state \in JobStates,
         rows[Row(id)].state \notin Terminal
  PROVE  Continues(rows, WithState(rows, id, state))
BY WithStateFacts DEF Continues

(* Adding a row at the end, as submit does, loses no earlier row.          *)
LEMMA AppendContinues ==
  ASSUME NEW rows \in Seq(FuzzJob), Dense(rows),
         NEW job \in FuzzJob, job.job_id = Len(rows)
  PROVE  Continues(rows, Append(rows, job))
BY AppendFacts DEF Continues

(* Setting a row to the state it has, as a failed claim does, is a no-op.  *)
LEMMA WithSameState ==
  ASSUME NEW rows \in Seq(FuzzJob), Dense(rows),
         NEW id \in Nat, Row(id) \in DOMAIN rows,
         NEW state \in JobStates, rows[Row(id)].state = state
  PROVE  WithState(rows, id, state) = rows
<1>1. ASSUME NEW i \in DOMAIN rows
      PROVE  WithState(rows, id, state)[i] = rows[i]
  <2>1. rows[i] \in FuzzJob
    OBVIOUS
  <2>2. rows[i].job_id = id => rows[i].state = state
    BY DEF Dense, Row
  <2>3. rows[i].state = state => [rows[i] EXCEPT !.state = state] = rows[i]
    BY <2>1 DEF FuzzJob
  <2> QED  BY <2>2, <2>3 DEF WithState
<1>2. WithState(rows, id, state) = [i \in DOMAIN rows |-> WithState(rows, id, state)[i]]
  BY DEF WithState
<1>3. rows = [i \in DOMAIN rows |-> rows[i]]
  OBVIOUS
<1> QED  BY <1>1, <1>2, <1>3

-----------------------------------------------------------------------------
(* What a save does to the three stages of the history.                    *)

(* persist_jobs: whatever becomes of the save, file and durable copy are   *)
(* still two stages of the history that was to be saved.                   *)
LEMMA SaveFacts ==
  ASSUME SchedulerInv, Live,
         NEW rows \in Seq(FuzzJob), Dense(rows), Continues(seen, rows),
         NEW result \in {"ok", "before", "after"}, persist_jobs(rows, result)
  PROVE  /\ disk' \in Seq(FuzzJob) /\ synced' \in Seq(FuzzJob)
         /\ Dense(disk') /\ Dense(synced')
         /\ Continues(synced, synced')
         /\ Continues(synced', disk')
         /\ Continues(disk', rows)
         /\ disk' = IF result = "before" THEN disk ELSE rows
         /\ result = "ok" => synced' = rows
         /\ \A i \in DOMAIN synced :
              (disk[i] = synced[i] /\ rows[i] = synced[i])
                => disk'[i] = synced[i] /\ synced'[i] = synced[i]
<1>1. /\ disk \in Seq(FuzzJob) /\ synced \in Seq(FuzzJob) /\ seen \in Seq(FuzzJob)
      /\ Dense(disk) /\ Dense(synced)
      /\ Continues(synced, disk) /\ Continues(disk, seen)
  BY DEF SchedulerInv, TypeOK, IdsAreDense, DiskContinuesSynced, MemoryContinuesDisk
<1>2. Continues(disk, rows) /\ Continues(synced, rows)
  BY <1>1, ContinuesTransitive
<1>3. Continues(rows, rows) /\ Continues(synced, synced)
  BY <1>1, ContinuesReflexive
<1>4. /\ disk' = IF result = "before" THEN disk ELSE rows
      /\ synced' = IF result = "ok" THEN rows ELSE synced
  BY DEF persist_jobs
<1> QED  BY <1>1, <1>2, <1>3, <1>4

(* What was promised to a client stays in the durable snapshot.            *)
LEMMA PromisesKept ==
  ASSUME SchedulerInv, synced' \in Seq(FuzzJob), Continues(synced, synced'),
         UNCHANGED history
  PROVE  PromisesAreSaved'
<1>1. synced \in Seq(FuzzJob) /\ \A note \in posted : note.state \in Terminal
  BY DEF SchedulerInv, TypeOK
<1>2. \A i \in DOMAIN synced :
        /\ i \in DOMAIN synced'
        /\ Request(synced'[i]) = Request(synced[i])
        /\ synced[i].state \in Terminal => synced'[i] = synced[i]
  BY <1>1 DEF Continues
<1>3. ASSUME NEW request \in acked
      PROVE  /\ Row(request.job_id) \in DOMAIN synced'
             /\ Request(synced'[Row(request.job_id)]) = request
  BY <1>2 DEF SchedulerInv, PromisesAreSaved
<1>4. ASSUME NEW note \in posted
      PROVE  /\ Row(note.job_id) \in DOMAIN synced'
             /\ synced'[Row(note.job_id)].state = note.state
  <2>1. /\ Row(note.job_id) \in DOMAIN synced
        /\ synced[Row(note.job_id)].state = note.state
    BY DEF SchedulerInv, PromisesAreSaved
  <2>2. note.state \in Terminal
    BY <1>1
  <2> QED  BY <1>2, <2>1, <2>2
<1>5. acked' = acked /\ posted' = posted
  BY DEF history
<1> QED  BY <1>3, <1>4, <1>5 DEF PromisesAreSaved

(* A worker in run_one_job whose row is not touched keeps its hold on it.  *)
LEMMA HeldKept ==
  ASSUME SchedulerInv, NEW w \in Workers, Busy(w), held'[w] = held[w],
         synced' \in Seq(FuzzJob), Continues(synced, synced'),
         synced'[Row(held[w].job_id)] = synced[Row(held[w].job_id)],
         disk'[Row(held[w].job_id)] = synced[Row(held[w].job_id)],
         seen'[Row(held[w].job_id)] = synced[Row(held[w].job_id)]
  PROVE  HeldIsRunning(w)'
<1>1. HeldIsRunning(w)
  BY DEF SchedulerInv, BusyPinsItsRow
<1>2. synced \in Seq(FuzzJob)
  BY DEF SchedulerInv, TypeOK
<1>3. DOMAIN synced \subseteq DOMAIN synced'
  BY <1>2 DEF Continues
<1> QED  BY <1>1, <1>3 DEF HeldIsRunning

(* A saved result stays saved.                                             *)
LEMMA ResultKept ==
  ASSUME SchedulerInv, NEW w \in Workers, pc[w] \in {"committed", "posting"},
         held'[w] = held[w], outcome'[w] = outcome[w],
         synced' \in Seq(FuzzJob), Continues(synced, synced')
  PROVE  /\ held'[w] \in FuzzJob
         /\ outcome'[w] \in Terminal
         /\ Row(held'[w].job_id) \in DOMAIN synced'
         /\ synced'[Row(held'[w].job_id)].state = outcome'[w]
<1>1. /\ held[w] \in FuzzJob
      /\ outcome[w] \in Terminal
      /\ Row(held[w].job_id) \in DOMAIN synced
      /\ synced[Row(held[w].job_id)].state = outcome[w]
  BY DEF SchedulerInv, ResultIsSaved
<1>2. synced \in Seq(FuzzJob)
  BY DEF SchedulerInv, TypeOK
<1>3. \A i \in DOMAIN synced :
        /\ i \in DOMAIN synced'
        /\ synced[i].state \in Terminal => synced'[i] = synced[i]
  BY <1>2 DEF Continues
<1> QED  BY <1>1, <1>3

-----------------------------------------------------------------------------
(* The operations, one lemma each.                                         *)

(* The job at the front of the queue is a queued row of the history.       *)
LEMMA FrontOfQueue ==
  ASSUME SchedulerInv, queue # <<>>
  PROVE  /\ Head(queue) \in FuzzJob
         /\ Head(queue) = queue[1]
         /\ 1 \in DOMAIN queue
         /\ Row(Head(queue).job_id) \in DOMAIN seen
         /\ seen[Row(Head(queue).job_id)] = Head(queue)
         /\ Head(queue).state = "queued"
<1>1. queue \in Seq(FuzzJob)
  BY DEF SchedulerInv, TypeOK
<1>2. Head(queue) \in FuzzJob /\ Head(queue) = queue[1] /\ 1 \in DOMAIN queue
  BY <1>1
<1> QED  BY <1>2 DEF SchedulerInv, QueueIsWaiting

(* claim_job, when its save succeeds.                                      *)
LEMMA ClaimKeeps ==
  ASSUME SchedulerInv, NEW w \in Workers, Claim(w)
  PROVE  SchedulerInv'
<1> DEFINE job == Head(queue)
           r == Row(job.job_id)
<1>1. /\ pc[w] = "idle" /\ ~shutdown /\ queue # <<>>
      /\ seen' = WithState(seen, job.job_id, "running")
      /\ persist_jobs(seen', "ok")
      /\ queue' = Tail(queue)
      /\ pc' = [pc EXCEPT ![w] = "claimed"]
      /\ held' = [held EXCEPT ![w] = job]
      /\ UNCHANGED <<phase, shutdown, next_id, reserved, fault, child, outcome,
                     acked, posted, launched>>
  BY DEF Claim, history
<1>2. /\ job \in FuzzJob /\ job.job_id \in Nat /\ job = queue[1] /\ 1 \in DOMAIN queue
      /\ r \in DOMAIN seen /\ seen[r] = job /\ job.state = "queued"
  BY <1>1, FrontOfQueue DEF FuzzJob
<1> HIDE DEF job, r
<1>3. /\ seen \in Seq(FuzzJob) /\ Dense(seen) /\ queue \in Seq(FuzzJob)
      /\ pc \in [Workers -> Steps] /\ held \in [Workers -> FuzzJob \union {NoJob}]
  BY DEF SchedulerInv, TypeOK, IdsAreDense
<1>4. Live
  BY <1>1 DEF SchedulerInv, NoThreadsBeforeStart
<1>5. /\ seen' \in Seq(FuzzJob) /\ Len(seen') = Len(seen) /\ DOMAIN seen' = DOMAIN seen
      /\ Dense(seen')
      /\ seen'[r].state = "running"
      /\ \A i \in DOMAIN seen : /\ i # r => seen'[i] = seen[i]
                                /\ Request(seen'[i]) = Request(seen[i])
  <2>1. "running" \in JobStates /\ Row(job.job_id) \in DOMAIN seen
    BY <1>2 DEF JobStates, r
  <2>2. seen' = WithState(seen, job.job_id, "running")
    BY <1>1
  <2> QED  BY <1>2, <1>3, <2>1, <2>2, WithStateFacts DEF r
<1>6. Continues(seen, seen')
  BY <1>1, <1>2, <1>3, WithStateContinues DEF r, JobStates, Terminal
<1>7. /\ disk' = seen' /\ synced' = seen'
      /\ Continues(synced, synced')
      /\ \A i \in DOMAIN synced : (disk[i] = synced[i] /\ seen'[i] = synced[i])
              => disk'[i] = synced[i] /\ synced'[i] = synced[i]
  BY <1>1, <1>4, <1>5, <1>6, SaveFacts
<1>8. Continues(seen', seen')
  BY <1>5, ContinuesReflexive
<1>9. ASSUME NEW v \in Workers, Busy(v)
      PROVE  v # w /\ pc'[v] = pc[v] /\ held'[v] = held[v] /\ Row(held[v].job_id) # r
             /\ Row(held[v].job_id) \in DOMAIN seen
             /\ HeldIsRunning(v)
  <2>1. HeldIsRunning(v) /\ v # w
    BY <1>1, <1>9 DEF SchedulerInv, BusyPinsItsRow, Busy
  <2>2. seen[Row(held[v].job_id)].state = "running"
    BY <2>1 DEF HeldIsRunning
  <2>3. Row(held[v].job_id) # r
    BY <1>2, <2>2
  <2>4. Row(held[v].job_id) \in DOMAIN seen
    BY <2>1, <1>4, <1>3 DEF HeldIsRunning, SchedulerInv, DiskContinuesSynced, MemoryContinuesDisk, Continues, TypeOK
  <2> QED  BY <1>1, <1>3, <2>1, <2>3, <2>4
<1>10. TypeOK'
  BY <1>1, <1>2, <1>3, <1>5, <1>7 DEF SchedulerInv, TypeOK, Steps
<1>11. IdsAreDense'
  BY <1>1, <1>5, <1>7 DEF SchedulerInv, IdsAreDense
<1>12. DiskContinuesSynced'
  BY <1>7, <1>8 DEF DiskContinuesSynced
<1>13. MemoryContinuesDisk'
  BY <1>1, <1>4, <1>7, <1>8 DEF MemoryContinuesDisk, Live
<1>14. NoThreadsBeforeStart'
  BY <1>1, <1>4 DEF NoThreadsBeforeStart, Live
<1>15. /\ DOMAIN queue' = 1..(Len(queue) - 1)
       /\ \A k \in DOMAIN queue' : /\ k + 1 \in DOMAIN queue
                                   /\ queue'[k] = queue[k + 1]
                                   /\ queue'[k].job_id \in Nat
                                   /\ queue'[k].job_id > job.job_id
  <2>1. /\ DOMAIN queue' = 1..(Len(queue) - 1) /\ DOMAIN queue = 1..Len(queue)
        /\ Len(queue) \in Nat
        /\ \A k \in 1..(Len(queue) - 1) : queue'[k] = queue[k + 1]
    BY <1>1, <1>3
  <2>2. ASSUME NEW k \in DOMAIN queue'
        PROVE  /\ k + 1 \in DOMAIN queue
               /\ queue'[k] = queue[k + 1]
               /\ queue'[k].job_id \in Nat
               /\ queue'[k].job_id > job.job_id
    <3>1. k + 1 \in DOMAIN queue /\ queue'[k] = queue[k + 1] /\ 1 < k + 1
      BY <2>1
    <3>2. queue[k + 1].job_id \in Nat
      <4>1. queue[k + 1] \in FuzzJob
        BY <1>3, <3>1
      <4> QED  BY <4>1 DEF FuzzJob
    <3>3. queue[1].job_id < queue[k + 1].job_id
      BY <1>2, <3>1 DEF SchedulerInv, QueueIsWaiting
    <3> QED  BY <1>2, <3>1, <3>2, <3>3
  <2> QED  BY <2>1, <2>2
<1>16. QueueIsWaiting'
  <2>1. ASSUME NEW k \in DOMAIN queue'
        PROVE  /\ Row(queue'[k].job_id) \in DOMAIN seen'
               /\ queue'[k] = seen'[Row(queue'[k].job_id)]
               /\ queue'[k].state = "queued"
    <3>1. /\ Row(queue'[k].job_id) \in DOMAIN seen
          /\ queue'[k] = seen[Row(queue'[k].job_id)]
          /\ queue'[k].state = "queued"
      BY <1>15 DEF SchedulerInv, QueueIsWaiting
    <3>2. Row(queue'[k].job_id) # r
      BY <1>2, <1>15 DEF Row, r
    <3> QED  BY <1>5, <3>1, <3>2
  <2>2. ASSUME NEW j \in DOMAIN queue', NEW k \in DOMAIN queue', j < k
        PROVE  queue'[j].job_id < queue'[k].job_id
    <3>1. j + 1 < k + 1
      BY <1>15, <2>2
    <3> QED  BY <1>15, <3>1 DEF SchedulerInv, QueueIsWaiting
  <2> QED  BY <2>1, <2>2 DEF QueueIsWaiting
<1>17. BusyPinsItsRow'
  <2>1. HeldIsRunning(w)'
    BY <1>1, <1>2, <1>3, <1>5, <1>7 DEF HeldIsRunning, r
  <2>2. ASSUME NEW v \in Workers, Busy(v)  PROVE HeldIsRunning(v)'
    BY <1>5, <1>7, <1>9, <2>2, HeldKept DEF HeldIsRunning
  <2>3. \A v \in Workers : Busy(v)' => v = w \/ Busy(v)
    BY <1>1, <1>3 DEF Busy
  <2> QED  BY <2>1, <2>2, <2>3 DEF BusyPinsItsRow
<1>18. ClaimsAreExclusive'
  BY <1>1, <1>2, <1>3, <1>9 DEF SchedulerInv, ClaimsAreExclusive, Busy, r, Row
<1>19. ResultIsSaved'
  <2>1. ASSUME NEW v \in Workers, pc[v] \in {"committed", "posting"}
        PROVE  /\ held'[v] \in FuzzJob
               /\ outcome'[v] \in Terminal
               /\ Row(held'[v].job_id) \in DOMAIN synced'
               /\ synced'[Row(held'[v].job_id)].state = outcome'[v]
    BY <1>1, <1>3, <1>5, <1>7, <2>1, ResultKept
  <2>2. \A v \in Workers : /\ v # w => pc'[v] = pc[v]
                           /\ pc'[w] = "claimed"
    BY <1>1, <1>3
  <2> QED  BY <1>1, <2>1, <2>2 DEF SchedulerInv, ResultIsSaved
<1>20. PromisesAreSaved'
  BY <1>1, <1>5, <1>7, PromisesKept DEF history
<1>21. FaultStops' /\ InterruptsFollowShutdown'
  BY <1>1, <1>3 DEF SchedulerInv, FaultStops, InterruptsFollowShutdown
<1>22. LaunchedIsOver'
  BY <1>1, <1>2, <1>3, <1>5, <1>15 DEF SchedulerInv, LaunchedIsOver
<1>23. OpenRowsHaveAPlace'
  <2>1. ASSUME NEW i \in DOMAIN seen', seen'[i].state = "queued"
        PROVE  \E k \in DOMAIN queue' : queue'[k] = seen'[i]
    <3>1. i # r /\ i \in DOMAIN seen /\ seen'[i] = seen[i]
      BY <1>5, <2>1
    <3>2. PICK k \in DOMAIN queue : queue[k] = seen[i]
      BY <1>1, <2>1, <3>1 DEF SchedulerInv, OpenRowsHaveAPlace
    <3>3. k # 1
      BY <1>2, <1>3, <3>1, <3>2 DEF Dense, r, Row
    <3>4. k - 1 \in DOMAIN queue' /\ queue'[k - 1] = queue[k]
      BY <1>3, <1>15, <3>2, <3>3
    <3> QED  BY <3>1, <3>2, <3>4
  <2>2. ASSUME NEW i \in DOMAIN seen', seen'[i].state = "running"
        PROVE  \E v \in Workers : Busy(v)' /\ held'[v].job_id = seen'[i].job_id
    <3>1. CASE i = r
      BY <1>1, <1>2, <1>3, <1>5, <3>1 DEF Busy, Dense, r, Row
    <3>2. CASE i # r
      <4>1. i \in DOMAIN seen /\ seen'[i] = seen[i]
        BY <1>5, <3>2
      <4>2. PICK v \in Workers : Busy(v) /\ held[v].job_id = seen[i].job_id
        BY <1>1, <2>2, <4>1 DEF SchedulerInv, OpenRowsHaveAPlace
      <4> QED  BY <1>9, <4>1, <4>2 DEF Busy
    <3> QED  BY <3>1, <3>2
  <2> QED  BY <2>1, <2>2 DEF OpenRowsHaveAPlace
<1> QED
  BY <1>10, <1>11, <1>12, <1>13, <1>14, <1>16, <1>17, <1>18, <1>19, <1>20,
     <1>21, <1>22, <1>23 DEF SchedulerInv

(* The process ends, or start gives up: volatile state is reset and the    *)
(* file is the one that was visible or the one that was durable.           *)
LEMMA ForgetKeeps ==
  ASSUME SchedulerInv, Forget, phase' \in {"down", "refused"}, UNCHANGED history,
         \/ UNCHANGED storage
         \/ synced' = disk' /\ disk' \in {disk, synced}
  PROVE  SchedulerInv'
<1>1. /\ seen' = <<>> /\ queue' = <<>> /\ shutdown' = FALSE /\ next_id' = 0
      /\ reserved' = 0 /\ fault' = NoFault /\ launched' = {}
      /\ pc' = [w \in Workers |-> "off"] /\ held' = [w \in Workers |-> NoJob]
      /\ child' = [w \in Workers |-> "none"] /\ outcome' = [w \in Workers |-> "none"]
      /\ acked' = acked /\ posted' = posted
  BY DEF Forget, history
<1>2. /\ disk \in Seq(FuzzJob) /\ synced \in Seq(FuzzJob) /\ Dense(disk) /\ Dense(synced)
      /\ Continues(synced, disk)
  BY DEF SchedulerInv, TypeOK, IdsAreDense, DiskContinuesSynced
<1>3. /\ Continues(disk, disk) /\ Continues(synced, synced)
  BY <1>2, ContinuesReflexive
<1>4. /\ disk' \in Seq(FuzzJob) /\ synced' \in Seq(FuzzJob)
      /\ Dense(disk') /\ Dense(synced')
      /\ Continues(synced, synced') /\ Continues(synced', disk')
  BY <1>2, <1>3 DEF storage
<1>5. TypeOK'
  <2>1. /\ pc' \in [Workers -> Steps] /\ held' \in [Workers -> FuzzJob \union {NoJob}]
        /\ child' \in [Workers -> {"none", "live", "success", "failure"}]
        /\ outcome' \in [Workers -> Outcomes]
    BY <1>1 DEF Steps, Outcomes
  <2>2. /\ phase' \in Phases /\ seen' \in Seq(FuzzJob) /\ queue' \in Seq(FuzzJob)
        /\ next_id' \in Nat /\ reserved' \in Nat
    BY <1>1 DEF Phases
  <2>3. shutdown' \in BOOLEAN /\ fault' \in StorageFault \union {NoFault} /\ launched' \subseteq Nat
    BY <1>1
  <2> QED  BY <1>1, <1>4, <2>1, <2>2, <2>3 DEF SchedulerInv, TypeOK
<1>6. IdsAreDense' /\ DiskContinuesSynced'
  BY <1>1, <1>4 DEF IdsAreDense, DiskContinuesSynced, Dense
<1>7. MemoryContinuesDisk' /\ NoThreadsBeforeStart'
  BY <1>1 DEF MemoryContinuesDisk, NoThreadsBeforeStart, Live
<1>8. QueueIsWaiting' /\ LaunchedIsOver' /\ OpenRowsHaveAPlace' /\ FaultStops'
  BY <1>1 DEF QueueIsWaiting, LaunchedIsOver, OpenRowsHaveAPlace, FaultStops
<1>9. BusyPinsItsRow' /\ ClaimsAreExclusive' /\ ResultIsSaved' /\ InterruptsFollowShutdown'
  BY <1>1 DEF BusyPinsItsRow, ClaimsAreExclusive, ResultIsSaved, InterruptsFollowShutdown, Busy
<1>10. PromisesAreSaved'
  BY <1>4, PromisesKept
<1> QED
  BY <1>5, <1>6, <1>7, <1>8, <1>9, <1>10 DEF SchedulerInv

(* A step of one worker that leaves memory and storage alone.              *)
LEMMA WorkerStepKeeps ==
  ASSUME SchedulerInv, TypeOK', Live, NEW w \in Workers,
         UNCHANGED <<phase, memory, storage>>,
         \A v \in Workers \ {w} : /\ pc'[v] = pc[v] /\ held'[v] = held[v]
                                  /\ outcome'[v] = outcome[v],
         Busy(w)' = Busy(w), Busy(w) => held'[w] = held[w],
         pc'[w] = "ran" => outcome'[w] # "none",
         (pc'[w] = "ran" /\ outcome'[w] = "interrupted") => shutdown,
         pc'[w] \in {"committed", "posting"} =>
           pc[w] \in {"committed", "posting"} /\ UNCHANGED <<held[w], outcome[w]>>,
         PromisesAreSaved', LaunchedIsOver'
  PROVE  SchedulerInv'
<1>1. UNCHANGED <<phase, seen, queue, shutdown, next_id, reserved, fault, disk, synced>>
  BY DEF memory, storage
<1>2. IdsAreDense' /\ DiskContinuesSynced' /\ MemoryContinuesDisk' /\ NoThreadsBeforeStart'
  BY <1>1 DEF SchedulerInv, IdsAreDense, DiskContinuesSynced, MemoryContinuesDisk,
              NoThreadsBeforeStart, Live
<1>3. QueueIsWaiting' /\ FaultStops'
  BY <1>1 DEF SchedulerInv, QueueIsWaiting, FaultStops
<1>4. \A v \in Workers : Busy(v)' = Busy(v) /\ (Busy(v) => held'[v] = held[v])
  BY DEF Busy
<1>5. BusyPinsItsRow'
  BY <1>1, <1>4 DEF SchedulerInv, BusyPinsItsRow, HeldIsRunning
<1>6. ClaimsAreExclusive'
  BY <1>4 DEF SchedulerInv, ClaimsAreExclusive
<1>7. ResultIsSaved' /\ InterruptsFollowShutdown'
  BY <1>1 DEF SchedulerInv, ResultIsSaved, InterruptsFollowShutdown
<1>8. OpenRowsHaveAPlace'
  BY <1>1, <1>4 DEF SchedulerInv, OpenRowsHaveAPlace
<1> QED
  BY <1>2, <1>3, <1>5, <1>6, <1>7, <1>8 DEF SchedulerInv

(* Admission and dispatch stop: the flag is raised, idle workers may have  *)
(* returned, and a claim may have left its row Running in the file.        *)
LEMMA StopKeeps ==
  ASSUME SchedulerInv, Live, Live', shutdown' = TRUE,
         phase' \in Phases, fault' \in StorageFault \union {NoFault},
         UNCHANGED <<seen, queue, next_id, reserved, held, child, outcome, synced,
                     acked, posted, launched>>,
         pc' \in [Workers -> Steps],
         \A v \in Workers : pc'[v] = pc[v] \/ (pc[v] \in {"off", "idle"} /\ pc'[v] = "exited"),
         disk' \in Seq(FuzzJob), Dense(disk'), Len(disk') = Len(seen),
         Continues(synced, disk'), Continues(disk', seen),
         \A v \in Workers : Busy(v) => disk'[Row(held[v].job_id)] = disk[Row(held[v].job_id)]
  PROVE  SchedulerInv'
<1>1. TypeOK'
  BY DEF SchedulerInv, TypeOK
<1>2. IdsAreDense' /\ DiskContinuesSynced' /\ MemoryContinuesDisk' /\ NoThreadsBeforeStart'
  BY DEF SchedulerInv, IdsAreDense, DiskContinuesSynced, MemoryContinuesDisk,
         NoThreadsBeforeStart, Live
<1>3. QueueIsWaiting' /\ FaultStops' /\ InterruptsFollowShutdown' /\ OpenRowsHaveAPlace'
  BY DEF SchedulerInv, QueueIsWaiting, FaultStops, InterruptsFollowShutdown, OpenRowsHaveAPlace
<1>4. \A v \in Workers : /\ Busy(v)' => Busy(v)
                         /\ pc'[v] \in {"claimed", "launching"} => pc[v] = pc'[v]
                         /\ pc'[v] = "ran" => pc[v] = "ran"
                         /\ pc'[v] \in {"committed", "posting"} => pc[v] = pc'[v]
  BY DEF Busy
<1>5. BusyPinsItsRow'
  BY <1>4 DEF SchedulerInv, BusyPinsItsRow, HeldIsRunning
<1>6. ClaimsAreExclusive' /\ ResultIsSaved'
  BY <1>4 DEF SchedulerInv, ClaimsAreExclusive, ResultIsSaved
<1>7. PromisesAreSaved' /\ LaunchedIsOver'
  BY <1>4 DEF SchedulerInv, PromisesAreSaved, LaunchedIsOver
<1> QED
  BY <1>1, <1>2, <1>3, <1>5, <1>6, <1>7 DEF SchedulerInv

(* finish_job, with whatever became of its save.                           *)
LEMMA FinishKeeps ==
  ASSUME SchedulerInv, NEW w \in Workers, pc[w] = "ran",
         seen' = WithState(seen, held[w].job_id, FinalState(outcome[w])),
         NEW result \in {"ok", "before", "after"}, persist_jobs(seen', result),
         UNCHANGED <<phase, queue, next_id, reserved, child, acked, posted, launched>>,
         fault' \in StorageFault \union {NoFault}, FaultStops',
         shutdown' \in BOOLEAN, shutdown => shutdown',
         \/ LetGo(w, "exited")
         \/ /\ result = "ok" /\ outcome[w] # "interrupted"
            /\ pc' = [pc EXCEPT ![w] = "committed"] /\ UNCHANGED <<held, outcome>>
  PROVE  SchedulerInv'
<1> DEFINE id == held[w].job_id
           r == Row(id)
<1>1. /\ seen \in Seq(FuzzJob) /\ Dense(seen) /\ Len(disk) = Len(seen)
      /\ disk \in Seq(FuzzJob) /\ synced \in Seq(FuzzJob)
      /\ pc \in [Workers -> Steps] /\ held \in [Workers -> FuzzJob \union {NoJob}]
      /\ outcome \in [Workers -> Outcomes]
      /\ Live
  BY DEF SchedulerInv, TypeOK, IdsAreDense, MemoryContinuesDisk, NoThreadsBeforeStart
<1>2. HeldIsRunning(w) /\ Busy(w)
  BY DEF SchedulerInv, BusyPinsItsRow, Busy
<1>3. /\ held[w] \in FuzzJob /\ id \in Nat
      /\ r \in DOMAIN seen /\ seen[r].state = "running"
  <2>1. held[w] \in FuzzJob /\ r \in DOMAIN synced /\ seen[r].state = "running"
    BY <1>2 DEF HeldIsRunning
  <2>2. DOMAIN synced \subseteq DOMAIN seen
    BY <1>1 DEF SchedulerInv, DiskContinuesSynced, Continues
  <2> QED  BY <2>1, <2>2 DEF FuzzJob
<1>4. FinalState(outcome[w]) \in {"queued", "complete", "failed"}
      /\ FinalState(outcome[w]) \in JobStates
      /\ (outcome[w] # "interrupted" => outcome[w] \in Terminal /\ FinalState(outcome[w]) = outcome[w])
      /\ (outcome[w] = "interrupted" => shutdown)
  BY <1>1 DEF SchedulerInv, ResultIsSaved, InterruptsFollowShutdown, FinalState, Outcomes,
              JobStates, Terminal
<1> HIDE DEF id, r
<1>5. /\ seen' \in Seq(FuzzJob) /\ Len(seen') = Len(seen) /\ DOMAIN seen' = DOMAIN seen
      /\ Dense(seen')
      /\ seen'[r].state = FinalState(outcome[w])
      /\ \A i \in DOMAIN seen : /\ i # r => seen'[i] = seen[i]
                                /\ Request(seen'[i]) = Request(seen[i])
  <2>1. Row(id) \in DOMAIN seen /\ seen' = WithState(seen, id, FinalState(outcome[w]))
    BY <1>3 DEF r, id
  <2>2. /\ WithState(seen, id, FinalState(outcome[w])) \in Seq(FuzzJob)
        /\ Len(WithState(seen, id, FinalState(outcome[w]))) = Len(seen)
        /\ DOMAIN WithState(seen, id, FinalState(outcome[w])) = DOMAIN seen
        /\ Dense(WithState(seen, id, FinalState(outcome[w])))
        /\ WithState(seen, id, FinalState(outcome[w]))[Row(id)].state = FinalState(outcome[w])
        /\ \A i \in DOMAIN seen :
             /\ i # Row(id) => WithState(seen, id, FinalState(outcome[w]))[i] = seen[i]
             /\ Request(WithState(seen, id, FinalState(outcome[w]))[i]) = Request(seen[i])
    BY <1>1, <1>3, <1>4, <2>1, WithStateFacts
  <2> QED  BY <2>1, <2>2 DEF r
<1>6. Continues(seen, seen')
  <2>1. /\ Row(id) \in DOMAIN seen /\ seen' = WithState(seen, id, FinalState(outcome[w]))
        /\ seen[Row(id)].state \notin Terminal
    BY <1>3 DEF r, id, Terminal
  <2> QED  BY <1>1, <1>3, <1>4, <2>1, WithStateContinues
<1>7. /\ disk' \in Seq(FuzzJob) /\ synced' \in Seq(FuzzJob)
      /\ Dense(disk') /\ Dense(synced')
      /\ Continues(synced, synced') /\ Continues(synced', disk') /\ Continues(disk', seen')
      /\ disk' = IF result = "before" THEN disk ELSE seen'
      /\ result = "ok" => synced' = seen'
      /\ \A i \in DOMAIN synced : (disk[i] = synced[i] /\ seen'[i] = synced[i])
              => disk'[i] = synced[i] /\ synced'[i] = synced[i]
  BY <1>1, <1>5, <1>6, SaveFacts
<1>8. /\ pc' \in [Workers -> Steps] /\ held' \in [Workers -> FuzzJob \union {NoJob}]
      /\ outcome' \in [Workers -> Outcomes]
      /\ pc'[w] = "exited"
           \/ (pc'[w] = "committed" /\ result = "ok" /\ outcome[w] # "interrupted"
                 /\ held' = held /\ outcome' = outcome)
      /\ \A v \in Workers \ {w} : pc'[v] = pc[v] /\ held'[v] = held[v] /\ outcome'[v] = outcome[v]
  BY <1>1 DEF LetGo, Steps, Outcomes
<1>9. ASSUME NEW v \in Workers, Busy(v), v # w
      PROVE  /\ HeldIsRunning(v) /\ held'[v] = held[v] /\ held[v].job_id # id
             /\ Row(held[v].job_id) # r /\ Row(held[v].job_id) \in DOMAIN seen
  <2>1. HeldIsRunning(v) /\ held[v].job_id # id
    BY <1>2, <1>9 DEF SchedulerInv, BusyPinsItsRow, ClaimsAreExclusive, id
  <2>2. held[v].job_id \in Nat /\ Row(held[v].job_id) \in DOMAIN synced
    BY <2>1 DEF HeldIsRunning, FuzzJob
  <2>3. DOMAIN synced \subseteq DOMAIN seen
    BY <1>1 DEF SchedulerInv, DiskContinuesSynced, Continues
  <2> QED  BY <1>3, <1>8, <1>9, <2>1, <2>2, <2>3 DEF Row, r
<1>10. TypeOK'
  BY <1>5, <1>7, <1>8 DEF SchedulerInv, TypeOK
<1>11. IdsAreDense' /\ DiskContinuesSynced' /\ MemoryContinuesDisk' /\ NoThreadsBeforeStart'
  BY <1>1, <1>5, <1>7 DEF SchedulerInv, IdsAreDense, DiskContinuesSynced, MemoryContinuesDisk,
                          NoThreadsBeforeStart, Live
<1>12. QueueIsWaiting'
  <2>1. ASSUME NEW k \in DOMAIN queue
        PROVE  /\ Row(queue[k].job_id) \in DOMAIN seen'
               /\ queue[k] = seen'[Row(queue[k].job_id)]
               /\ queue[k].state = "queued"
    BY <1>3, <1>5 DEF SchedulerInv, QueueIsWaiting
  <2> QED  BY <2>1 DEF SchedulerInv, QueueIsWaiting
<1>13. \A v \in Workers : Busy(v)' => v # w /\ Busy(v)
  BY <1>8 DEF Busy
<1>14. BusyPinsItsRow'
  <2>1. ASSUME NEW v \in Workers, Busy(v), v # w  PROVE HeldIsRunning(v)'
    BY <1>5, <1>7, <1>9, <2>1, HeldKept DEF HeldIsRunning
  <2> QED  BY <1>13, <2>1 DEF BusyPinsItsRow
<1>15. ClaimsAreExclusive'
  BY <1>9, <1>13 DEF SchedulerInv, ClaimsAreExclusive
<1>16. ResultIsSaved'
  <2>1. ASSUME NEW v \in Workers, pc[v] \in {"committed", "posting"}, v # w
        PROVE  /\ held'[v] \in FuzzJob
               /\ outcome'[v] \in Terminal
               /\ Row(held'[v].job_id) \in DOMAIN synced'
               /\ synced'[Row(held'[v].job_id)].state = outcome'[v]
    BY <1>7, <1>8, <2>1, ResultKept
  <2>2. ASSUME pc'[w] = "committed"
        PROVE  /\ held'[w] \in FuzzJob
               /\ outcome'[w] \in Terminal
               /\ Row(held'[w].job_id) \in DOMAIN synced'
               /\ synced'[Row(held'[w].job_id)].state = outcome'[w]
    BY <1>3, <1>4, <1>5, <1>7, <1>8, <2>2 DEF r, id
  <2> QED  BY <1>8, <2>1, <2>2 DEF SchedulerInv, ResultIsSaved
<1>17. PromisesAreSaved'
  BY <1>7, PromisesKept DEF history
<1>18. InterruptsFollowShutdown'
  BY <1>8 DEF SchedulerInv, InterruptsFollowShutdown
<1>19. LaunchedIsOver'
  BY <1>5, <1>8 DEF SchedulerInv, LaunchedIsOver
<1>20. OpenRowsHaveAPlace'
  <2> SUFFICES ASSUME ~shutdown', NEW i \in DOMAIN seen'
               PROVE  /\ seen'[i].state = "queued" => \E k \in DOMAIN queue : queue[k] = seen'[i]
                      /\ seen'[i].state = "running" =>
                           \E v \in Workers : Busy(v)' /\ held'[v].job_id = seen'[i].job_id
    BY DEF OpenRowsHaveAPlace
  <2>1. CASE i = r
    BY <1>4, <1>5, <2>1 DEF Terminal
  <2>2. CASE i # r
    <3>1. i \in DOMAIN seen /\ seen'[i] = seen[i] /\ seen[i].job_id = i - 1 /\ ~shutdown
      BY <1>1, <1>5, <2>2 DEF Dense
    <3>2. ASSUME seen[i].state = "running"
          PROVE  \E v \in Workers : Busy(v)' /\ held'[v].job_id = seen[i].job_id
      <4>1. PICK v \in Workers : Busy(v) /\ held[v].job_id = seen[i].job_id
        BY <3>1, <3>2 DEF SchedulerInv, OpenRowsHaveAPlace
      <4>2. v # w
        BY <1>1, <1>3, <2>2, <3>1, <4>1 DEF r, Row, id
      <4> QED  BY <1>8, <4>1, <4>2 DEF Busy
    <3> QED  BY <3>1, <3>2 DEF SchedulerInv, OpenRowsHaveAPlace
  <2> QED  BY <2>1, <2>2
<1> QED
  BY <1>10, <1>11, <1>12, <1>14, <1>15, <1>16, <1>17, <1>18, <1>19, <1>20 DEF SchedulerInv

(* submit, when the new row reached the file: acknowledged and queued, or  *)
(* of uncertain durability and kept back.                                  *)
LEMMA AdmitKeeps ==
  ASSUME SchedulerInv, phase = "up", NEW job \in FuzzJob,
         job.job_id = next_id, job.state = "queued",
         seen' = Append(seen, job),
         NEW result \in {"ok", "after"}, persist_jobs(seen', result),
         next_id' = next_id + 1, reserved' \in Nat,
         UNCHANGED <<phase, pc, held, child, outcome, posted, launched>>,
         fault' \in StorageFault \union {NoFault}, FaultStops',
         shutdown' \in BOOLEAN, shutdown => shutdown',
         \/ queue' = Append(queue, job)
         \/ queue' = queue /\ shutdown',
         \/ acked' = acked
         \/ result = "ok" /\ acked' = acked \union {Request(job)}
  PROVE  SchedulerInv'
<1>1. /\ seen \in Seq(FuzzJob) /\ Dense(seen) /\ queue \in Seq(FuzzJob)
      /\ disk \in Seq(FuzzJob) /\ synced \in Seq(FuzzJob)
      /\ Live /\ job.job_id = Len(seen) /\ Len(seen) \in Nat
  BY DEF SchedulerInv, TypeOK, IdsAreDense, Live
<1>2. /\ seen' \in Seq(FuzzJob) /\ Len(seen') = Len(seen) + 1 /\ Dense(seen')
      /\ DOMAIN seen' = 1..(Len(seen) + 1) /\ DOMAIN seen = 1..Len(seen)
      /\ seen'[Row(Len(seen))] = job
      /\ \A i \in DOMAIN seen : i \in DOMAIN seen' /\ seen'[i] = seen[i]
  <2>1. /\ Append(seen, job) \in Seq(FuzzJob) /\ Len(Append(seen, job)) = Len(seen) + 1
        /\ Dense(Append(seen, job)) /\ DOMAIN Append(seen, job) = 1..(Len(seen) + 1)
        /\ Append(seen, job)[Row(Len(seen))] = job
        /\ \A i \in DOMAIN seen : Append(seen, job)[i] = seen[i]
    BY <1>1, AppendFacts
  <2>2. DOMAIN seen = 1..Len(seen)
    BY <1>1
  <2>3. \A i \in DOMAIN seen : i \in 1..(Len(seen) + 1)
    BY <1>1, <2>2
  <2> QED  BY <2>1, <2>2, <2>3
<1>3. Continues(seen, seen')
  BY <1>1, AppendContinues
<1>4. /\ disk' \in Seq(FuzzJob) /\ synced' \in Seq(FuzzJob)
      /\ Dense(disk') /\ Dense(synced')
      /\ Continues(synced, synced') /\ Continues(synced', disk') /\ Continues(disk', seen')
      /\ disk' = seen' /\ (result = "ok" => synced' = seen')
      /\ \A i \in DOMAIN synced : (disk[i] = synced[i] /\ seen'[i] = synced[i])
              => disk'[i] = synced[i] /\ synced'[i] = synced[i]
  BY <1>1, <1>2, <1>3, SaveFacts
<1>5. /\ \A k \in DOMAIN queue : k \in DOMAIN queue' /\ queue'[k] = queue[k]
      /\ \A k \in DOMAIN queue' : k \in DOMAIN queue \/ (k = Len(queue) + 1 /\ queue'[k] = job)
      /\ ~shutdown' => \E k \in DOMAIN queue' : queue'[k] = job
      /\ queue' \in Seq(FuzzJob) /\ DOMAIN queue = 1..Len(queue) /\ Len(queue) \in Nat
  <2>1. DOMAIN queue = 1..Len(queue) /\ Len(queue) \in Nat
    BY <1>1
  <2>2. /\ Append(queue, job) \in Seq(FuzzJob)
        /\ DOMAIN Append(queue, job) = 1..(Len(queue) + 1)
        /\ Append(queue, job)[Len(queue) + 1] = job
        /\ \A k \in 1..Len(queue) : Append(queue, job)[k] = queue[k]
    BY <1>1
  <2>3. CASE queue' = Append(queue, job)
    <3>1. Len(queue) + 1 \in DOMAIN queue'
      BY <2>1, <2>2, <2>3
    <3> QED  BY <2>1, <2>2, <2>3, <3>1
  <2>4. CASE queue' = queue /\ shutdown'
    BY <1>1, <2>1, <2>4
  <2> QED  BY <2>3, <2>4
<1>6. TypeOK'
  <2>1. acked' \subseteq [job_id : Nat, project_dir : Projects, bytes : Sizes, time_budget : Budgets]
    BY DEF SchedulerInv, TypeOK, Request, FuzzJob
  <2>2. next_id' \in Nat
    BY DEF SchedulerInv, TypeOK
  <2> QED  BY <1>2, <1>4, <1>5, <2>1, <2>2 DEF SchedulerInv, TypeOK
<1>7. IdsAreDense' /\ DiskContinuesSynced' /\ MemoryContinuesDisk' /\ NoThreadsBeforeStart'
  BY <1>1, <1>2, <1>4 DEF SchedulerInv, IdsAreDense, DiskContinuesSynced, MemoryContinuesDisk,
                          NoThreadsBeforeStart, Live
<1>8. \A k \in DOMAIN queue : queue[k].job_id \in Nat /\ queue[k].job_id < Len(seen)
  <2>1. ASSUME NEW k \in DOMAIN queue
        PROVE  queue[k].job_id \in Nat /\ queue[k].job_id < Len(seen)
    <3>1. queue[k] \in FuzzJob
      BY <1>1
    <3>2. Row(queue[k].job_id) \in DOMAIN seen
      BY DEF SchedulerInv, QueueIsWaiting
    <3> QED  BY <1>2, <3>1, <3>2 DEF FuzzJob, Row
  <2> QED  BY <2>1
<1>9. QueueIsWaiting'
  <2>1. ASSUME NEW k \in DOMAIN queue'
        PROVE  /\ Row(queue'[k].job_id) \in DOMAIN seen'
               /\ queue'[k] = seen'[Row(queue'[k].job_id)]
               /\ queue'[k].state = "queued"
    <3>1. CASE k \in DOMAIN queue
      BY <1>2, <1>5, <3>1 DEF SchedulerInv, QueueIsWaiting
    <3>2. CASE queue'[k] = job
      BY <1>1, <1>2, <3>2 DEF Row
    <3> QED  BY <1>5, <3>1, <3>2
  <2>2. ASSUME NEW j \in DOMAIN queue', NEW k \in DOMAIN queue', j < k
        PROVE  queue'[j].job_id < queue'[k].job_id
    <3>1. j \in DOMAIN queue
      BY <1>5, <2>2
    <3>2. CASE k \in DOMAIN queue
      BY <1>5, <2>2, <3>1, <3>2 DEF SchedulerInv, QueueIsWaiting
    <3>3. CASE queue'[k] = job
      BY <1>1, <1>5, <1>8, <3>1, <3>3
    <3> QED  BY <1>5, <3>2, <3>3
  <2> QED  BY <2>1, <2>2 DEF QueueIsWaiting
<1>10. BusyPinsItsRow'
  <2>1. ASSUME NEW v \in Workers, Busy(v)  PROVE HeldIsRunning(v)'
    <3>1. HeldIsRunning(v)
      BY <2>1 DEF SchedulerInv, BusyPinsItsRow
    <3>2. DOMAIN synced \subseteq DOMAIN seen
      BY <1>1 DEF SchedulerInv, DiskContinuesSynced, MemoryContinuesDisk, Continues
    <3> QED  BY <1>2, <1>4, <2>1, <3>1, <3>2, HeldKept DEF HeldIsRunning
  <2> QED  BY <2>1 DEF BusyPinsItsRow, Busy
<1>11. ClaimsAreExclusive' /\ InterruptsFollowShutdown'
  BY DEF SchedulerInv, ClaimsAreExclusive, InterruptsFollowShutdown, Busy
<1>12. ResultIsSaved'
  <2>1. ASSUME NEW v \in Workers, pc[v] \in {"committed", "posting"}
        PROVE  /\ held'[v] \in FuzzJob
               /\ outcome'[v] \in Terminal
               /\ Row(held'[v].job_id) \in DOMAIN synced'
               /\ synced'[Row(held'[v].job_id)].state = outcome'[v]
    BY <1>4, <2>1, ResultKept
  <2> QED  BY <2>1 DEF SchedulerInv, ResultIsSaved
<1>13. PromisesAreSaved'
  <2>1. CASE acked' = acked
    BY <1>4, <2>1, PromisesKept DEF history
  <2>2. CASE result = "ok" /\ acked' = acked \union {Request(job)}
    <3>1. \A i \in DOMAIN synced :
            /\ i \in DOMAIN synced'
            /\ Request(synced'[i]) = Request(synced[i])
            /\ synced[i].state \in Terminal => synced'[i] = synced[i]
      BY <1>1, <1>4 DEF Continues
    <3>2. ASSUME NEW request \in acked'
          PROVE  /\ Row(request.job_id) \in DOMAIN synced'
                 /\ Request(synced'[Row(request.job_id)]) = request
      <4>1. CASE request \in acked
        BY <3>1, <4>1 DEF SchedulerInv, PromisesAreSaved
      <4>2. CASE request = Request(job)
        <5>1. request.job_id = Len(seen)
          BY <1>1, <4>2 DEF Request
        <5> QED  BY <1>1, <1>2, <1>4, <2>2, <4>2, <5>1 DEF Row
      <4> QED  BY <2>2, <4>1, <4>2
    <3>3. ASSUME NEW note \in posted
          PROVE  /\ Row(note.job_id) \in DOMAIN synced'
                 /\ synced'[Row(note.job_id)].state = note.state
      <4>1. note.state \in Terminal
        BY DEF SchedulerInv, TypeOK
      <4>2. /\ Row(note.job_id) \in DOMAIN synced
            /\ synced[Row(note.job_id)].state = note.state
        BY DEF SchedulerInv, PromisesAreSaved
      <4> QED  BY <3>1, <4>1, <4>2
    <3> QED  BY <3>2, <3>3 DEF PromisesAreSaved
  <2> QED  BY <2>1, <2>2
<1>14. LaunchedIsOver'
  <2>1. \A n \in launched : Row(n) \in DOMAIN seen'
    BY <1>2 DEF SchedulerInv, LaunchedIsOver
  <2>2. Len(seen) \notin launched
    BY <1>2 DEF SchedulerInv, LaunchedIsOver, Row
  <2>3. \A k \in DOMAIN queue' : queue'[k].job_id \notin launched
    BY <1>1, <1>5, <2>2 DEF SchedulerInv, LaunchedIsOver
  <2> QED  BY <2>1, <2>3 DEF SchedulerInv, LaunchedIsOver
<1>15. OpenRowsHaveAPlace'
  <2> SUFFICES ASSUME ~shutdown', NEW i \in DOMAIN seen'
               PROVE  /\ seen'[i].state = "queued" => \E k \in DOMAIN queue' : queue'[k] = seen'[i]
                      /\ seen'[i].state = "running" =>
                           \E v \in Workers : Busy(v) /\ held[v].job_id = seen'[i].job_id
    BY DEF OpenRowsHaveAPlace, Busy
  <2>1. CASE i \in DOMAIN seen
    <3>1. /\ seen[i].state = "queued" => \E k \in DOMAIN queue : queue[k] = seen[i]
          /\ seen[i].state = "running" =>
               \E v \in Workers : Busy(v) /\ held[v].job_id = seen[i].job_id
      BY <2>1 DEF SchedulerInv, OpenRowsHaveAPlace
    <3> QED  BY <1>2, <1>5, <2>1, <3>1
  <2>2. CASE i = Row(Len(seen))
    BY <1>2, <1>5, <2>2
  <2> QED  BY <1>2, <2>1, <2>2 DEF Row
<1> QED
  BY <1>6, <1>7, <1>9, <1>10, <1>11, <1>12, <1>13, <1>14, <1>15 DEF SchedulerInv

(* One line of the snapshot is read back.                                  *)
LEMMA RecoverLineKeeps ==
  ASSUME SchedulerInv, RecoverLine
  PROVE  SchedulerInv'
<1> DEFINE line == disk[Len(seen) + 1]
           job == Requeued(line)
<1>1. /\ phase = "recovering" /\ Len(seen) < Len(disk)
      /\ next_id' = NextIdAfter(job.job_id)
      /\ reserved' = reserved + reserved_job_bytes(job)
      /\ seen' = Append(seen, job)
      /\ queue' = IF job.state = "queued" THEN Append(queue, job) ELSE queue
      /\ UNCHANGED <<phase, shutdown, fault, pc, held, child, outcome, disk, synced,
                     acked, posted, launched>>
  BY DEF RecoverLine, threads, storage, history
<1>2. /\ seen \in Seq(FuzzJob) /\ Dense(seen) /\ Len(seen) \in Nat /\ DOMAIN seen = 1..Len(seen)
      /\ disk \in Seq(FuzzJob) /\ Dense(disk) /\ Len(disk) \in Nat /\ DOMAIN disk = 1..Len(disk)
      /\ queue \in Seq(FuzzJob) /\ next_id = Len(seen) /\ reserved \in Nat
      /\ ~Live /\ launched = {} /\ (\A w \in Workers : pc[w] = "off")
      /\ \A i \in DOMAIN seen : seen[i] = Requeued(disk[i])
  <2>1. ~Live
    BY <1>1 DEF Live
  <2> QED  BY <1>1, <2>1 DEF SchedulerInv, TypeOK, IdsAreDense, NoThreadsBeforeStart, MemoryContinuesDisk
<1>3. line \in FuzzJob /\ line.job_id = Len(seen)
  <2>1. Len(seen) + 1 \in DOMAIN disk
    BY <1>1, <1>2
  <2> QED  BY <1>2, <2>1 DEF Dense
<1>4. /\ job \in FuzzJob /\ job.job_id = Len(seen) /\ job.state # "running"
      /\ job = Requeued(disk[Len(seen) + 1])
  <2>1. "queued" \in JobStates
    BY DEF JobStates
  <2> QED  BY <1>3, <2>1, NewStateFacts DEF Requeued
<1> HIDE DEF line, job
<1>5. /\ seen' \in Seq(FuzzJob) /\ Len(seen') = Len(seen) + 1 /\ Dense(seen')
      /\ DOMAIN seen' = 1..(Len(seen) + 1)
      /\ seen'[Len(seen) + 1] = job
      /\ \A i \in DOMAIN seen : seen'[i] = seen[i]
  <2>1. /\ Append(seen, job) \in Seq(FuzzJob) /\ Len(Append(seen, job)) = Len(seen) + 1
        /\ Dense(Append(seen, job)) /\ DOMAIN Append(seen, job) = 1..(Len(seen) + 1)
        /\ Append(seen, job)[Row(Len(seen))] = job
        /\ \A i \in DOMAIN seen : Append(seen, job)[i] = seen[i]
    BY <1>2, <1>4, AppendFacts
  <2> QED  BY <1>1, <2>1 DEF Row
<1>6. DOMAIN queue = 1..Len(queue) /\ Len(queue) \in Nat
  BY <1>2
<1>7. /\ queue' \in Seq(FuzzJob)
      /\ \A k \in DOMAIN queue : k \in DOMAIN queue' /\ queue'[k] = queue[k]
      /\ \A k \in DOMAIN queue' :
           k \in DOMAIN queue \/ (k = Len(queue) + 1 /\ queue'[k] = job /\ job.state = "queued")
      /\ job.state = "queued" => \E k \in DOMAIN queue' : queue'[k] = job
  <2>1. /\ Append(queue, job) \in Seq(FuzzJob)
        /\ DOMAIN Append(queue, job) = 1..(Len(queue) + 1)
        /\ Append(queue, job)[Len(queue) + 1] = job
        /\ \A k \in 1..Len(queue) : Append(queue, job)[k] = queue[k]
    BY <1>2, <1>4
  <2>2. CASE job.state = "queued"
    <3>1. queue' = Append(queue, job) /\ Len(queue) + 1 \in 1..(Len(queue) + 1)
      BY <1>1, <1>6, <2>2
    <3> QED  BY <1>6, <2>1, <2>2, <3>1
  <2>3. CASE job.state # "queued"
    BY <1>1, <1>2, <2>3
  <2> QED  BY <2>2, <2>3
<1>8. TypeOK'
  <2>1. reserved' \in Nat
    <3>1. job.bytes \in Nat
      BY <1>4, ConstantsAssumption DEF FuzzJob
    <3> QED  BY <1>1, <1>2, <3>1 DEF reserved_job_bytes, StateBytes
  <2>2. next_id' \in Nat
    BY <1>1, <1>2, <1>4 DEF NextIdAfter
  <2> QED  BY <1>1, <1>5, <1>7, <2>1, <2>2 DEF SchedulerInv, TypeOK
<1>9. IdsAreDense'
  BY <1>1, <1>2, <1>4, <1>5 DEF SchedulerInv, IdsAreDense, NextIdAfter
<1>10. MemoryContinuesDisk'
  BY <1>1, <1>2, <1>4, <1>5 DEF MemoryContinuesDisk, Live
<1>11. DiskContinuesSynced' /\ NoThreadsBeforeStart'
  BY <1>1 DEF SchedulerInv, DiskContinuesSynced, NoThreadsBeforeStart, Live
<1>12. \A k \in DOMAIN queue :
         /\ queue[k].job_id \in Nat /\ queue[k].job_id < Len(seen)
         /\ queue[k] = seen[Row(queue[k].job_id)] /\ queue[k].state = "queued"
  <2>1. ASSUME NEW k \in DOMAIN queue
        PROVE  queue[k].job_id \in Nat /\ queue[k].job_id < Len(seen)
    <3>1. queue[k] \in FuzzJob
      BY <1>2
    <3>2. Row(queue[k].job_id) \in DOMAIN seen
      BY DEF SchedulerInv, QueueIsWaiting
    <3> QED  BY <1>2, <3>1, <3>2 DEF FuzzJob, Row
  <2> QED  BY <2>1 DEF SchedulerInv, QueueIsWaiting
<1>13. QueueIsWaiting'
  <2>1. ASSUME NEW k \in DOMAIN queue'
        PROVE  /\ Row(queue'[k].job_id) \in DOMAIN seen'
               /\ queue'[k] = seen'[Row(queue'[k].job_id)]
               /\ queue'[k].state = "queued"
    <3>1. CASE k \in DOMAIN queue
      <4>1. queue'[k] = queue[k] /\ Row(queue[k].job_id) \in DOMAIN seen
        BY <1>7, <3>1 DEF SchedulerInv, QueueIsWaiting
      <4> QED  BY <1>2, <1>5, <1>12, <3>1, <4>1
    <3>2. CASE queue'[k] = job /\ job.state = "queued"
      BY <1>2, <1>4, <1>5, <3>2 DEF Row
    <3> QED  BY <1>7, <3>1, <3>2
  <2>2. ASSUME NEW j \in DOMAIN queue', NEW k \in DOMAIN queue', j < k
        PROVE  queue'[j].job_id < queue'[k].job_id
    <3>1. j \in DOMAIN queue
      BY <1>6, <1>7, <2>2
    <3>2. CASE k \in DOMAIN queue
      BY <1>7, <2>2, <3>1, <3>2 DEF SchedulerInv, QueueIsWaiting
    <3>3. CASE queue'[k] = job
      BY <1>4, <1>7, <1>12, <3>1, <3>3
    <3> QED  BY <1>7, <3>2, <3>3
  <2> QED  BY <2>1, <2>2 DEF QueueIsWaiting
<1>14. BusyPinsItsRow' /\ ClaimsAreExclusive' /\ ResultIsSaved' /\ InterruptsFollowShutdown'
  BY <1>1, <1>2 DEF BusyPinsItsRow, ClaimsAreExclusive, ResultIsSaved,
                    InterruptsFollowShutdown, Busy
<1>15. PromisesAreSaved' /\ FaultStops'
  BY <1>1 DEF SchedulerInv, PromisesAreSaved, FaultStops
<1>16. LaunchedIsOver'
  BY <1>1, <1>2 DEF LaunchedIsOver
<1>17. OpenRowsHaveAPlace'
  <2> SUFFICES ASSUME ~shutdown, NEW i \in DOMAIN seen'
               PROVE  /\ seen'[i].state = "queued" => \E k \in DOMAIN queue' : queue'[k] = seen'[i]
                      /\ seen'[i].state = "running" =>
                           \E v \in Workers : Busy(v) /\ held[v].job_id = seen'[i].job_id
    BY <1>1 DEF OpenRowsHaveAPlace, Busy
  <2>1. CASE i \in DOMAIN seen
    <3>1. /\ seen[i].state = "queued" => \E k \in DOMAIN queue : queue[k] = seen[i]
          /\ seen[i].state = "running" =>
               \E v \in Workers : Busy(v) /\ held[v].job_id = seen[i].job_id
      BY <2>1 DEF SchedulerInv, OpenRowsHaveAPlace
    <3> QED  BY <1>5, <1>7, <2>1, <3>1
  <2>2. CASE i = Len(seen) + 1
    BY <1>4, <1>5, <1>7, <2>2
  <2> QED  BY <1>2, <1>5, <2>1, <2>2
<1> QED
  BY <1>8, <1>9, <1>10, <1>11, <1>13, <1>14, <1>15, <1>16, <1>17 DEF SchedulerInv

(* The steps of start that only move it on.                                *)
LEMMA StartStepKeeps ==
  ASSUME SchedulerInv, Start \/ RecoveryDone \/ StartReturns
  PROVE  SchedulerInv'
<1>1. /\ UNCHANGED <<seen, queue, shutdown, next_id, reserved, fault, pc, held, child, outcome,
                     disk, synced, acked, posted, launched>>
      /\ phase' \in Phases
  BY DEF Start, RecoveryDone, StartReturns, memory, threads, storage, history, Phases
<1>2. TypeOK' /\ IdsAreDense' /\ DiskContinuesSynced' /\ QueueIsWaiting'
  BY <1>1 DEF SchedulerInv, TypeOK, IdsAreDense, DiskContinuesSynced, QueueIsWaiting
<1>3. BusyPinsItsRow' /\ ClaimsAreExclusive' /\ ResultIsSaved' /\ InterruptsFollowShutdown'
  BY <1>1 DEF SchedulerInv, BusyPinsItsRow, HeldIsRunning, ClaimsAreExclusive, ResultIsSaved,
              InterruptsFollowShutdown, Busy
<1>4. PromisesAreSaved' /\ FaultStops' /\ LaunchedIsOver'
  BY <1>1 DEF SchedulerInv, PromisesAreSaved, FaultStops, LaunchedIsOver
<1>5. OpenRowsHaveAPlace'
  BY <1>1 DEF SchedulerInv, OpenRowsHaveAPlace, Busy
<1>6. MemoryContinuesDisk' /\ NoThreadsBeforeStart'
  <2>1. CASE Start
    BY <1>1, <2>1 DEF SchedulerInv, TypeOK, MemoryContinuesDisk, NoThreadsBeforeStart, Live, Start
  <2>2. CASE RecoveryDone
    <3>1. /\ disk \in Seq(FuzzJob) /\ seen \in Seq(FuzzJob) /\ Len(seen) = Len(disk)
          /\ phase = "recovering" /\ phase' = "starting"
          /\ \A i \in DOMAIN seen : seen[i] = Requeued(disk[i])
      BY <2>2 DEF SchedulerInv, TypeOK, MemoryContinuesDisk, RecoveryDone
    <3>2. ASSUME NEW i \in DOMAIN disk
          PROVE  /\ Request(seen[i]) = Request(disk[i])
                 /\ disk[i].state \in Terminal => seen[i] = disk[i]
      <4>1. seen[i] = Requeued(disk[i]) /\ disk[i] \in FuzzJob
        BY <3>1
      <4>2. "queued" \in JobStates /\ "running" \notin Terminal
        BY DEF JobStates, Terminal
      <4> QED  BY <4>1, <4>2, NewStateFacts DEF Requeued
    <3>3. Continues(disk, seen)
      BY <3>1, <3>2 DEF Continues
    <3> QED  BY <1>1, <3>1, <3>3 DEF MemoryContinuesDisk, NoThreadsBeforeStart, Live
  <2>3. CASE StartReturns
    BY <1>1, <2>3 DEF SchedulerInv, MemoryContinuesDisk, NoThreadsBeforeStart, Live, StartReturns
  <2> QED  BY <2>1, <2>2, <2>3
<1> QED
  BY <1>2, <1>3, <1>4, <1>5, <1>6 DEF SchedulerInv

(* run_one_job and the notification: steps of a worker thread between its  *)
(* visits to the scheduler's state.                                        *)
LEMMA WorkerKeeps ==
  ASSUME SchedulerInv, NEW w \in Workers,
         \/ SpawnWorker(w) \/ WorkerExits(w)
         \/ CheckBeforeSpawn(w) \/ SpawnChild(w) \/ SpawnChildFails(w)
         \/ SeeShutdown(w) \/ SeeExit(w) \/ SeeDeadline(w) \/ WaitFails(w)
         \/ CheckBeforePost(w)
         \/ \E sent \in BOOLEAN : Post(w, sent)
         \/ \E status \in {"success", "failure"} : ChildExits(w, status)
  PROVE  SchedulerInv'
<1> USE DEF Busy
<1>1. /\ pc \in [Workers -> Steps] /\ held \in [Workers -> FuzzJob \union {NoJob}]
      /\ child \in [Workers -> {"none", "live", "success", "failure"}]
      /\ outcome \in [Workers -> Outcomes]
  BY DEF SchedulerInv, TypeOK
<1>2. pc[w] # "off" => Live
  BY DEF SchedulerInv, NoThreadsBeforeStart
<1>3. ASSUME UNCHANGED <<phase, memory, storage>>, UNCHANGED <<acked, posted, launched>>,
             pc' \in [Workers -> Steps], held' \in [Workers -> FuzzJob \union {NoJob}],
             child' \in [Workers -> {"none", "live", "success", "failure"}],
             outcome' \in [Workers -> Outcomes],
             \A v \in Workers \ {w} : pc'[v] = pc[v] /\ held'[v] = held[v],
             pc'[w] \in {"claimed", "launching"} =>
               pc[w] \in {"claimed", "launching"} /\ held'[w] = held[w]
      PROVE  TypeOK' /\ PromisesAreSaved' /\ LaunchedIsOver'
  BY <1>3 DEF SchedulerInv, TypeOK, PromisesAreSaved, LaunchedIsOver, memory, storage
<1>4. CASE SpawnWorker(w)
  <2>1. Live
    BY <1>4 DEF SpawnWorker, Live
  <2>2. TypeOK' /\ PromisesAreSaved' /\ LaunchedIsOver'
    BY <1>1, <1>3, <1>4 DEF SpawnWorker, Steps, history
  <2> QED  BY <1>1, <1>4, <2>1, <2>2, WorkerStepKeeps DEF SpawnWorker
<1>5. CASE WorkerExits(w)
  <2>1. TypeOK' /\ PromisesAreSaved' /\ LaunchedIsOver'
    BY <1>1, <1>3, <1>5 DEF WorkerExits, Steps, history
  <2> QED  BY <1>1, <1>2, <1>5, <2>1, WorkerStepKeeps DEF WorkerExits
<1>6. ASSUME NEW result \in {"complete", "failed", "interrupted"}, Returns(w, result),
             pc[w] \in {"claimed", "launching", "running"}, result = "interrupted" => shutdown
      PROVE  SchedulerInv'
  <2>1. TypeOK' /\ PromisesAreSaved' /\ LaunchedIsOver'
    BY <1>1, <1>3, <1>6 DEF Returns, Steps, Outcomes, history
  <2> QED  BY <1>1, <1>2, <1>6, <2>1, WorkerStepKeeps DEF Returns
<1>7. CASE CheckBeforeSpawn(w)
  <2>1. CASE shutdown
    BY <1>6, <1>7, <2>1 DEF CheckBeforeSpawn
  <2>2. CASE ~shutdown
    <3>1. TypeOK' /\ PromisesAreSaved' /\ LaunchedIsOver'
      BY <1>1, <1>3, <1>7, <2>2 DEF CheckBeforeSpawn, Steps, history
    <3> QED  BY <1>1, <1>2, <1>7, <2>2, <3>1, WorkerStepKeeps DEF CheckBeforeSpawn
  <2> QED  BY <2>1, <2>2
<1>8. CASE SpawnChild(w)
  <2>1. /\ pc[w] = "launching" /\ pc' = [pc EXCEPT ![w] = "running"]
        /\ child' = [child EXCEPT ![w] = "live"]
        /\ launched' = launched \union {held[w].job_id}
        /\ UNCHANGED <<phase, memory, held, outcome, storage, acked, posted>>
    BY <1>8 DEF SpawnChild, history
  <2>2. UNCHANGED <<seen, queue, disk, synced, shutdown, next_id, reserved, fault>>
    BY <2>1 DEF memory, storage
  <2>3. HeldIsRunning(w) /\ Live
    BY <1>2, <2>1 DEF SchedulerInv, BusyPinsItsRow
  <2>4. held[w].job_id \in Nat /\ Row(held[w].job_id) \in DOMAIN seen
        /\ seen[Row(held[w].job_id)].state = "running"
    <3>1. held[w] \in FuzzJob /\ Row(held[w].job_id) \in DOMAIN synced
          /\ seen[Row(held[w].job_id)].state = "running"
      BY <2>3 DEF HeldIsRunning
    <3>2. DOMAIN synced \subseteq DOMAIN seen
      BY <2>3 DEF SchedulerInv, TypeOK, DiskContinuesSynced, MemoryContinuesDisk, Continues
    <3> QED  BY <3>1, <3>2 DEF FuzzJob
  <2>5. TypeOK'
    BY <1>1, <2>1, <2>2, <2>4 DEF SchedulerInv, TypeOK, Steps
  <2>6. PromisesAreSaved'
    BY <2>1, <2>2 DEF SchedulerInv, PromisesAreSaved
  <2>7. LaunchedIsOver'
    <3>1. \A id \in launched' : Row(id) \in DOMAIN seen'
      BY <2>1, <2>2, <2>4 DEF SchedulerInv, LaunchedIsOver
    <3>2. \A k \in DOMAIN queue : queue[k].job_id # held[w].job_id
      BY <2>4 DEF SchedulerInv, QueueIsWaiting
    <3>3. \A v \in Workers : pc'[v] \in {"claimed", "launching"} =>
            v # w /\ pc[v] = pc'[v] /\ held[v].job_id # held[w].job_id
      BY <1>1, <2>1 DEF SchedulerInv, ClaimsAreExclusive
    <3> QED  BY <2>1, <2>2, <3>1, <3>2, <3>3 DEF SchedulerInv, LaunchedIsOver
  <2> QED  BY <1>1, <2>1, <2>3, <2>5, <2>6, <2>7, WorkerStepKeeps
<1>9. CASE SpawnChildFails(w) \/ SeeShutdown(w) \/ SeeExit(w) \/ SeeDeadline(w) \/ WaitFails(w)
  BY <1>6, <1>9 DEF SpawnChildFails, SeeShutdown, SeeExit, SeeDeadline, WaitFails
<1>10. CASE CheckBeforePost(w)
  <2>1. TypeOK' /\ PromisesAreSaved' /\ LaunchedIsOver'
    BY <1>1, <1>3, <1>10 DEF CheckBeforePost, LetGo, Steps, Outcomes, history
  <2> QED  BY <1>1, <1>2, <1>10, <2>1, WorkerStepKeeps DEF CheckBeforePost, LetGo
<1>11. ASSUME NEW sent \in BOOLEAN, Post(w, sent)  PROVE SchedulerInv'
  <2> DEFINE note == [job_id |-> held[w].job_id, state |-> outcome[w]]
  <2>1. /\ pc[w] = "posting" /\ LetGo(w, "idle")
        /\ posted' = posted \/ posted' = posted \union {note}
        /\ UNCHANGED <<phase, memory, child, storage, acked, launched>>
    BY <1>11 DEF Post
  <2>2. /\ held[w] \in FuzzJob /\ outcome[w] \in Terminal
        /\ Row(held[w].job_id) \in DOMAIN synced
        /\ synced[Row(held[w].job_id)].state = outcome[w]
    BY <2>1 DEF SchedulerInv, ResultIsSaved
  <2>3. note \in [job_id : Nat, state : Terminal]
    BY <2>2 DEF FuzzJob
  <2>4. PromisesAreSaved'
    <3>1. UNCHANGED <<synced, acked>>
      BY <2>1 DEF storage
    <3>2. note.job_id = held[w].job_id /\ note.state = outcome[w]
      OBVIOUS
    <3> HIDE DEF note
    <3> QED  BY <2>1, <2>2, <3>1, <3>2 DEF SchedulerInv, PromisesAreSaved
  <2>5. TypeOK'
    <3>1. posted' \subseteq [job_id : Nat, state : Terminal]
      BY <2>1, <2>3 DEF SchedulerInv, TypeOK
    <3>2. /\ pc' \in [Workers -> Steps] /\ held' \in [Workers -> FuzzJob \union {NoJob}]
          /\ outcome' \in [Workers -> Outcomes]
      BY <1>1, <2>1 DEF LetGo, Steps, Outcomes
    <3> QED  BY <2>1, <3>1, <3>2 DEF SchedulerInv, TypeOK, memory, storage
  <2>6. LaunchedIsOver'
    BY <1>1, <2>1 DEF SchedulerInv, LaunchedIsOver, LetGo, memory
  <2> QED  BY <1>1, <1>2, <2>1, <2>4, <2>5, <2>6, WorkerStepKeeps DEF LetGo
<1>12. ASSUME NEW status \in {"success", "failure"}, ChildExits(w, status)  PROVE SchedulerInv'
  <2>1. /\ UNCHANGED <<phase, seen, queue, shutdown, next_id, reserved, fault, pc, held, outcome,
                       disk, synced, acked, posted, launched>>
        /\ child' \in [Workers -> {"none", "live", "success", "failure"}]
    BY <1>1, <1>12 DEF ChildExits, memory, storage, history
  <2>2. TypeOK' /\ IdsAreDense' /\ DiskContinuesSynced' /\ MemoryContinuesDisk' /\ QueueIsWaiting'
    BY <2>1 DEF SchedulerInv, TypeOK, IdsAreDense, DiskContinuesSynced, MemoryContinuesDisk,
                QueueIsWaiting, Live
  <2>3. BusyPinsItsRow' /\ ClaimsAreExclusive' /\ ResultIsSaved' /\ InterruptsFollowShutdown'
    BY <2>1 DEF SchedulerInv, BusyPinsItsRow, HeldIsRunning, ClaimsAreExclusive, ResultIsSaved,
                InterruptsFollowShutdown
  <2>4. NoThreadsBeforeStart' /\ PromisesAreSaved' /\ FaultStops' /\ LaunchedIsOver'
    BY <2>1 DEF SchedulerInv, NoThreadsBeforeStart, PromisesAreSaved, FaultStops, LaunchedIsOver, Live
  <2>5. OpenRowsHaveAPlace'
    BY <2>1 DEF SchedulerInv, OpenRowsHaveAPlace
  <2> QED  BY <2>2, <2>3, <2>4, <2>5 DEF SchedulerInv
<1> QED
  BY <1>4, <1>5, <1>7, <1>8, <1>9, <1>10, <1>11, <1>12

(* A shutdown request or a fault that leaves the history alone.            *)
LEMMA FlagKeeps ==
  ASSUME SchedulerInv, Live, Live', shutdown' = TRUE,
         phase' \in Phases, fault' \in StorageFault \union {NoFault},
         UNCHANGED <<seen, queue, next_id, reserved, held, child, outcome, storage,
                     acked, posted, launched>>,
         pc' \in [Workers -> Steps],
         \A v \in Workers : pc'[v] = pc[v] \/ (pc[v] \in {"off", "idle"} /\ pc'[v] = "exited")
  PROVE  SchedulerInv'
<1>1. UNCHANGED <<disk, synced>>
  BY DEF storage
<1>2. /\ disk' \in Seq(FuzzJob) /\ Dense(disk') /\ Len(disk') = Len(seen)
      /\ Continues(synced, disk') /\ Continues(disk', seen)
  BY <1>1 DEF SchedulerInv, TypeOK, IdsAreDense, DiskContinuesSynced, MemoryContinuesDisk
<1> QED  BY <1>1, <1>2, StopKeeps

(* What latch_storage_fault records is a fault, and it stops the scheduler. *)
LEMMA LatchFacts ==
  ASSUME SchedulerInv, NEW at \in {"admission", "start", "completion"}, NEW id \in Nat,
         NEW result, latch_storage_fault(at, id, result)
  PROVE  shutdown' = TRUE /\ fault' \in StorageFault \union {NoFault} /\ FaultStops'
<1>1. fault \in StorageFault \union {NoFault}
  BY DEF SchedulerInv, TypeOK
<1>2. [phase |-> at, job_id |-> id, snapshot_installed |-> result = "after"] \in StorageFault
  BY DEF StorageFault
<1> QED  BY <1>1, <1>2 DEF latch_storage_fault, FaultStops

(* claim_job, when its save fails: the row is Queued again in memory and   *)
(* may be Running in the file.                                             *)
LEMMA ClaimFailsKeeps ==
  ASSUME SchedulerInv, NEW w \in Workers, NEW result \in SaveFailures, ClaimFails(w, result)
  PROVE  SchedulerInv'
<1> DEFINE job == Head(queue)
           r == Row(job.job_id)
           rows == WithState(seen, job.job_id, "running")
<1>1. /\ pc[w] = "idle" /\ queue # <<>>
      /\ persist_jobs(rows, result)
      /\ seen' = WithState(seen, job.job_id, "queued")
      /\ latch_storage_fault("start", job.job_id, result)
      /\ pc' = [pc EXCEPT ![w] = "exited"]
      /\ UNCHANGED <<phase, queue, next_id, reserved, held, child, outcome,
                     acked, posted, launched>>
  BY DEF ClaimFails, history
<1>2. /\ job \in FuzzJob /\ job.job_id \in Nat
      /\ r \in DOMAIN seen /\ seen[r] = job /\ job.state = "queued"
  BY <1>1, FrontOfQueue DEF FuzzJob
<1>3. /\ seen \in Seq(FuzzJob) /\ Dense(seen) /\ pc \in [Workers -> Steps]
      /\ synced \in Seq(FuzzJob) /\ disk \in Seq(FuzzJob)
  BY DEF SchedulerInv, TypeOK, IdsAreDense
<1>4. Live
  BY <1>1 DEF SchedulerInv, NoThreadsBeforeStart
<1> HIDE DEF job
<1>5. "running" \in JobStates /\ "queued" \in JobStates /\ seen[r].state = "queued"
      /\ "running" \notin Terminal /\ "queued" \notin Terminal
  BY <1>2 DEF JobStates, Terminal
<1>6. seen' = seen
  BY <1>1, <1>2, <1>3, <1>5, WithSameState
<1>7. /\ rows \in Seq(FuzzJob) /\ Len(rows) = Len(seen) /\ DOMAIN rows = DOMAIN seen
      /\ Dense(rows)
      /\ rows[r].state = "running"
      /\ \A i \in DOMAIN seen : /\ i # r => rows[i] = seen[i]
                                /\ Request(rows[i]) = Request(seen[i])
  BY <1>2, <1>3, <1>5, WithStateFacts
<1>8. Continues(seen, rows)
  BY <1>2, <1>3, <1>5, WithStateContinues
<1> HIDE DEF rows, r
<1>9. Continues(rows, seen)
  BY <1>3, <1>5, <1>7 DEF Continues
<1>10. /\ disk' \in Seq(FuzzJob) /\ Dense(disk') /\ synced' = synced
       /\ Continues(synced, disk')
       /\ disk' = IF result = "before" THEN disk ELSE rows
  <2>1. result \in {"ok", "before", "after"} /\ result # "ok"
    BY DEF SaveFailures
  <2>2. synced' = synced
    BY <1>1, <2>1 DEF persist_jobs
  <2> QED  BY <1>1, <1>4, <1>7, <1>8, <2>1, <2>2, SaveFacts
<1>11. Len(disk') = Len(seen) /\ Continues(disk', seen)
  BY <1>4, <1>7, <1>9, <1>10 DEF SchedulerInv, MemoryContinuesDisk
<1>12. ASSUME NEW v \in Workers, Busy(v)
       PROVE  disk'[Row(held[v].job_id)] = disk[Row(held[v].job_id)]
  <2>1. HeldIsRunning(v)
    BY <1>12 DEF SchedulerInv, BusyPinsItsRow
  <2>2. Row(held[v].job_id) # r
    BY <1>5, <2>1 DEF HeldIsRunning
  <2>3. Row(held[v].job_id) \in DOMAIN seen
    BY <1>3, <1>4, <2>1 DEF HeldIsRunning, SchedulerInv, DiskContinuesSynced, MemoryContinuesDisk,
                            Continues
  <2> QED  BY <1>7, <1>10, <2>1, <2>2, <2>3 DEF HeldIsRunning
<1>13. shutdown' = TRUE /\ fault' \in StorageFault \union {NoFault}
  BY <1>1, <1>2, LatchFacts
<1>14. /\ pc' \in [Workers -> Steps]
       /\ \A v \in Workers : pc'[v] = pc[v] \/ (pc[v] \in {"off", "idle"} /\ pc'[v] = "exited")
  BY <1>1, <1>3 DEF Steps
<1>15. Live' /\ phase' \in Phases
  BY <1>1, <1>4 DEF SchedulerInv, TypeOK, Live
<1> QED
  BY <1>1, <1>4, <1>6, <1>10, <1>11, <1>12, <1>13, <1>14, <1>15, StopKeeps

(* submit, whatever becomes of its save.                                   *)
LEMMA SubmitKeeps ==
  ASSUME SchedulerInv, NEW project \in Projects, NEW size \in Sizes, NEW budget \in Budgets,
         \/ Submit(project, size, budget)
         \/ \E result \in SaveFailures : SubmitFails(project, size, budget, result)
  PROVE  SchedulerInv'
<1> DEFINE job == NewJob(project, size, budget)
<1>1. /\ job \in FuzzJob /\ job.job_id = next_id /\ job.state = "queued" /\ job.bytes \in Nat
      /\ next_id \in Nat
  BY ConstantsAssumption DEF SchedulerInv, TypeOK, NewJob, FuzzJob, JobStates
<1> HIDE DEF job
<1>2. /\ reserved + reserved_job_bytes(job) \in Nat /\ reserved \in Nat
      /\ shutdown \in BOOLEAN /\ fault \in StorageFault \union {NoFault}
  BY <1>1 DEF SchedulerInv, TypeOK, reserved_job_bytes, StateBytes
<1>3. CASE Submit(project, size, budget)
  <2>1. /\ phase = "up" /\ ~shutdown
        /\ seen' = Append(seen, job) /\ persist_jobs(seen', "ok")
        /\ queue' = Append(queue, job) /\ next_id' = next_id + 1
        /\ reserved' = reserved + reserved_job_bytes(job)
        /\ acked' = acked \union {Request(job)}
        /\ UNCHANGED <<phase, shutdown, fault, pc, held, child, outcome, posted, launched>>
    BY <1>3 DEF Submit, Admissible, job, threads
  <2>2. FaultStops'
    BY <2>1 DEF SchedulerInv, FaultStops
  <2>3. reserved' \in Nat /\ shutdown' \in BOOLEAN /\ fault' \in StorageFault \union {NoFault}
    BY <1>2, <2>1
  <2> QED  BY <1>1, <2>1, <2>2, <2>3, AdmitKeeps
<1>4. ASSUME NEW result \in SaveFailures, SubmitFails(project, size, budget, result)
      PROVE  SchedulerInv'
  <2>1. /\ phase = "up" /\ persist_jobs(Append(seen, job), result)
        /\ latch_storage_fault("admission", job.job_id, result)
        /\ seen' = IF result = "after" THEN Append(seen, job) ELSE seen
        /\ next_id' = IF result = "after" THEN next_id + 1 ELSE next_id
        /\ reserved' = IF result = "after" THEN reserved + reserved_job_bytes(job) ELSE reserved
        /\ UNCHANGED <<phase, queue, pc, held, child, outcome, acked, posted, launched>>
    BY <1>4 DEF SubmitFails, Admissible, job, threads, history
  <2>2. shutdown' = TRUE /\ fault' \in StorageFault \union {NoFault} /\ FaultStops'
    BY <1>1, <2>1, LatchFacts
  <2>3. CASE result = "after"
    <3>1. /\ seen' = Append(seen, job) /\ persist_jobs(seen', "after") /\ next_id' = next_id + 1
          /\ reserved' \in Nat /\ shutdown' \in BOOLEAN /\ queue' = queue
      BY <1>2, <2>1, <2>2, <2>3
    <3> QED  BY <1>1, <2>1, <2>2, <2>3, <3>1, AdmitKeeps
  <2>4. CASE result = "before"
    <3>1. UNCHANGED <<seen, next_id, reserved, storage>>
      BY <2>1, <2>4 DEF persist_jobs, storage
    <3>2. Live /\ Live' /\ phase' \in Phases /\ pc' \in [Workers -> Steps]
      BY <2>1 DEF Live, SchedulerInv, TypeOK
    <3> QED  BY <2>1, <2>2, <3>1, <3>2, FlagKeeps
  <2> QED  BY <2>3, <2>4 DEF SaveFailures
<1> QED  BY <1>3, <1>4

(* finish_job in its three forms.                                          *)
LEMMA FinishActionsKeep ==
  ASSUME SchedulerInv, NEW w \in Workers,
         \/ Finish(w) \/ FinishAfterFault(w)
         \/ \E result \in SaveFailures : FinishFails(w, result)
  PROVE  SchedulerInv'
<1>1. /\ shutdown \in BOOLEAN /\ fault \in StorageFault \union {NoFault}
      /\ fault # NoFault => shutdown
  BY DEF SchedulerInv, TypeOK, FaultStops
<1>2. CASE Finish(w)
  <2>1. /\ pc[w] = "ran" /\ seen' = WithState(seen, held[w].job_id, FinalState(outcome[w]))
        /\ persist_jobs(seen', "ok")
        /\ UNCHANGED <<phase, queue, next_id, reserved, child, acked, posted, launched>>
        /\ UNCHANGED <<shutdown, fault>>
        /\ \/ LetGo(w, "exited")
           \/ /\ outcome[w] # "interrupted"
              /\ pc' = [pc EXCEPT ![w] = "committed"] /\ UNCHANGED <<held, outcome>>
    BY <1>2 DEF Finish, history
  <2>2. fault' \in StorageFault \union {NoFault} /\ FaultStops' /\ shutdown' \in BOOLEAN
        /\ (shutdown => shutdown')
    BY <1>1, <2>1 DEF FaultStops
  <2> QED  BY <2>1, <2>2, FinishKeeps
<1>3. CASE FinishAfterFault(w)
  <2>1. /\ pc[w] = "ran" /\ seen' = WithState(seen, held[w].job_id, FinalState(outcome[w]))
        /\ persist_jobs(seen', "before")
        /\ UNCHANGED <<phase, queue, next_id, reserved, child, acked, posted, launched>>
        /\ UNCHANGED <<shutdown, fault>>
        /\ LetGo(w, "exited")
    BY <1>3 DEF FinishAfterFault, history, storage, persist_jobs
  <2>2. fault' \in StorageFault \union {NoFault} /\ FaultStops' /\ shutdown' \in BOOLEAN
        /\ (shutdown => shutdown')
    BY <1>1, <2>1 DEF FaultStops
  <2> QED  BY <2>1, <2>2, FinishKeeps
<1>4. ASSUME NEW result \in SaveFailures, FinishFails(w, result)  PROVE SchedulerInv'
  <2>1. /\ pc[w] = "ran" /\ seen' = WithState(seen, held[w].job_id, FinalState(outcome[w]))
        /\ persist_jobs(seen', result)
        /\ latch_storage_fault("completion", held[w].job_id, result)
        /\ UNCHANGED <<phase, queue, next_id, reserved, child, acked, posted, launched>>
        /\ LetGo(w, "exited")
    BY <1>4 DEF FinishFails, history
  <2>2. held[w].job_id \in Nat
    BY <2>1 DEF SchedulerInv, BusyPinsItsRow, Busy, HeldIsRunning, FuzzJob
  <2>3. shutdown' = TRUE /\ fault' \in StorageFault \union {NoFault} /\ FaultStops'
    BY <2>1, <2>2, LatchFacts
  <2>4. result \in {"ok", "before", "after"}
    BY DEF SaveFailures
  <2> QED  BY <2>1, <2>3, <2>4, FinishKeeps
<1> QED  BY <1>2, <1>3, <1>4

(* A shutdown request, Drop, and a start that cannot spawn a worker.       *)
LEMMA StoppingKeeps ==
  ASSUME SchedulerInv,
         \/ RequestShutdown \/ Drop
         \/ \E w \in Workers : SpawnWorkerFails(w)
  PROVE  SchedulerInv'
<1>1. /\ Live /\ Live' /\ phase' \in Phases /\ shutdown' = TRUE /\ fault' = fault
      /\ UNCHANGED <<seen, queue, next_id, reserved, held, child, outcome, storage,
                     acked, posted, launched>>
  BY DEF RequestShutdown, Drop, SpawnWorkerFails, Live, Phases, threads, history
<1>2. pc \in [Workers -> Steps] /\ fault \in StorageFault \union {NoFault}
  BY DEF SchedulerInv, TypeOK
<1>3. \/ pc' = pc
      \/ pc' = [v \in Workers |-> IF pc[v] = "off" THEN "exited" ELSE pc[v]]
  BY DEF RequestShutdown, Drop, SpawnWorkerFails, threads
<1>4. /\ pc' \in [Workers -> Steps]
      /\ \A v \in Workers : pc'[v] = pc[v] \/ (pc[v] \in {"off", "idle"} /\ pc'[v] = "exited")
  BY <1>2, <1>3 DEF Steps
<1> QED  BY <1>1, <1>2, <1>4, FlagKeeps

(* The ways a process ends: refused, joined, killed, powered off.          *)
LEMMA EndingKeeps ==
  ASSUME SchedulerInv,
         \/ RefuseStart \/ Joined \/ Crash
         \/ \E kept \in BOOLEAN : PowerLoss(kept)
  PROVE  SchedulerInv'
<1>1. Forget /\ phase' \in {"down", "refused"} /\ UNCHANGED history
  BY DEF RefuseStart, Joined, Crash, PowerLoss
<1>2. \/ UNCHANGED storage
      \/ synced' = disk' /\ disk' \in {disk, synced}
  BY DEF RefuseStart, Joined, Crash, PowerLoss
<1> QED  BY <1>1, <1>2, ForgetKeeps

-----------------------------------------------------------------------------
(* The theorems.                                                           *)

(* A machine on which no scheduler has run.                                *)
LEMMA InitHolds == Init => SchedulerInv
<1> SUFFICES ASSUME Init  PROVE SchedulerInv
  OBVIOUS
<1>1. TypeOK
  <2>1. /\ pc \in [Workers -> Steps] /\ held \in [Workers -> FuzzJob \union {NoJob}]
        /\ child \in [Workers -> {"none", "live", "success", "failure"}]
        /\ outcome \in [Workers -> Outcomes]
    BY DEF Init, Steps, Outcomes
  <2>2. /\ phase \in Phases /\ seen \in Seq(FuzzJob) /\ queue \in Seq(FuzzJob)
        /\ next_id \in Nat /\ reserved \in Nat
        /\ disk \in Seq(FuzzJob) /\ synced \in Seq(FuzzJob)
    BY DEF Init, Phases
  <2>3. shutdown \in BOOLEAN /\ fault \in StorageFault \union {NoFault}
    BY DEF Init
  <2> QED  BY <2>1, <2>2, <2>3 DEF Init, TypeOK
<1>2. IdsAreDense /\ DiskContinuesSynced
  BY DEF Init, IdsAreDense, DiskContinuesSynced, Dense, Continues
<1>3. MemoryContinuesDisk /\ NoThreadsBeforeStart
  BY DEF Init, MemoryContinuesDisk, NoThreadsBeforeStart, Live
<1>4. QueueIsWaiting /\ PromisesAreSaved /\ FaultStops /\ LaunchedIsOver /\ OpenRowsHaveAPlace
  BY DEF Init, QueueIsWaiting, PromisesAreSaved, FaultStops, LaunchedIsOver, OpenRowsHaveAPlace
<1>5. BusyPinsItsRow /\ ClaimsAreExclusive /\ ResultIsSaved /\ InterruptsFollowShutdown
  BY DEF Init, BusyPinsItsRow, ClaimsAreExclusive, ResultIsSaved, InterruptsFollowShutdown, Busy
<1> QED  BY <1>1, <1>2, <1>3, <1>4, <1>5 DEF SchedulerInv

(* Every operation, failure and crash preserves the invariant.             *)
LEMMA NextKeeps == SchedulerInv /\ [Next]_vars => SchedulerInv'
<1> SUFFICES ASSUME SchedulerInv, [Next]_vars  PROVE SchedulerInv'
  OBVIOUS
<1>1. CASE Starting
  <2>1. CASE Start \/ RecoveryDone \/ StartReturns
    BY <2>1, StartStepKeeps
  <2>2. CASE RecoverLine
    BY <2>2, RecoverLineKeeps
  <2>3. CASE RefuseStart
    BY <2>3, EndingKeeps
  <2>4. ASSUME NEW w \in Workers, SpawnWorker(w)  PROVE SchedulerInv'
    BY <2>4, WorkerKeeps
  <2>5. ASSUME NEW w \in Workers, SpawnWorkerFails(w)  PROVE SchedulerInv'
    BY <2>5, StoppingKeeps
  <2> QED  BY <1>1, <2>1, <2>2, <2>3, <2>4, <2>5 DEF Starting
<1>2. CASE Admission
  BY <1>2, SubmitKeeps DEF Admission
<1>3. ASSUME NEW w \in Workers, Working(w)  PROVE SchedulerInv'
  BY <1>3, ClaimKeeps, WorkerKeeps, FinishActionsKeep DEF Working
<1>4. ASSUME NEW w \in Workers, Failing(w)  PROVE SchedulerInv'
  BY <1>4, WorkerKeeps, ClaimFailsKeeps, FinishActionsKeep DEF Failing
<1>5. ASSUME NEW w \in Workers, NEW status \in {"success", "failure"}, ChildExits(w, status)
      PROVE  SchedulerInv'
  BY <1>5, WorkerKeeps
<1>6. CASE Stopping
  BY <1>6, StoppingKeeps, EndingKeeps DEF Stopping
<1>7. CASE UNCHANGED vars
  <2>1. UNCHANGED <<phase, seen, queue, shutdown, next_id, reserved, fault, pc, held, child, outcome,
                    disk, synced, acked, posted, launched>>
    BY <1>7 DEF vars, memory, threads, storage, history
  <2>2. TypeOK' /\ IdsAreDense' /\ DiskContinuesSynced' /\ MemoryContinuesDisk' /\ QueueIsWaiting'
    BY <2>1 DEF SchedulerInv, TypeOK, IdsAreDense, DiskContinuesSynced, MemoryContinuesDisk,
                QueueIsWaiting, Live
  <2>3. BusyPinsItsRow' /\ ClaimsAreExclusive' /\ ResultIsSaved' /\ InterruptsFollowShutdown'
    BY <2>1 DEF SchedulerInv, BusyPinsItsRow, HeldIsRunning, ClaimsAreExclusive, ResultIsSaved,
                InterruptsFollowShutdown, Busy
  <2>4. NoThreadsBeforeStart' /\ PromisesAreSaved' /\ FaultStops' /\ LaunchedIsOver'
    BY <2>1 DEF SchedulerInv, NoThreadsBeforeStart, PromisesAreSaved, FaultStops, LaunchedIsOver, Live
  <2>5. OpenRowsHaveAPlace'
    BY <2>1 DEF SchedulerInv, OpenRowsHaveAPlace, Busy
  <2> QED  BY <2>2, <2>3, <2>4, <2>5 DEF SchedulerInv
<1> QED
  BY <1>1, <1>2, <1>3, <1>4, <1>5, <1>6, <1>7 DEF Next

(* SchedulerInv holds in every state the scheduler can reach, through any  *)
(* number of restarts, failed saves, kills and power losses.               *)
THEOREM InvariantHolds == Spec => []SchedulerInv
BY InitHolds, NextKeeps, PTL DEF Spec

(* Every variable keeps its type.                                          *)
THEOREM TypeCorrect == Spec => []TypeOK
<1>1. SchedulerInv => TypeOK
  BY DEF SchedulerInv
<1> QED  BY InvariantHolds, <1>1, PTL

(* No two workers hold the same job (claim_job), for any number of workers. *)
THEOREM ClaimsExclusive == Spec => []ClaimsAreExclusive
<1>1. SchedulerInv => ClaimsAreExclusive
  BY DEF SchedulerInv
<1> QED  BY InvariantHolds, <1>1, PTL

(* A job is dispatched (run_one_job) only while it is durably Running.     *)
THEOREM DispatchCommitted == Spec => []DispatchIsCommitted
<1>1. SchedulerInv => DispatchIsCommitted
  <2> SUFFICES ASSUME SchedulerInv, NEW w \in Workers, Busy(w)
               PROVE  \E i \in DOMAIN synced :
                        /\ Request(synced[i]) = Request(held[w])
                        /\ synced[i].state = "running"
                        /\ i \in DOMAIN disk /\ disk[i] = synced[i]
                        /\ i \in DOMAIN seen /\ seen[i] = synced[i]
    BY DEF DispatchIsCommitted
  <2> DEFINE at == Row(held[w].job_id)
  <2>1. HeldIsRunning(w)
    BY DEF SchedulerInv, BusyPinsItsRow
  <2>2. Live
    BY DEF SchedulerInv, NoThreadsBeforeStart, Busy
  <2>3. at \in DOMAIN disk /\ at \in DOMAIN seen
    BY <2>1, <2>2 DEF SchedulerInv, TypeOK, HeldIsRunning, DiskContinuesSynced, MemoryContinuesDisk, Continues
  <2> QED  BY <2>1, <2>3 DEF HeldIsRunning
<1> QED  BY InvariantHolds, <1>1, PTL

(* What submit answered Ok to is in the file and in what a power loss      *)
(* leaves, under an ID of its own.                                         *)
THEOREM AckedSurvive == Spec => []AckedJobsSurvive
<1>1. SchedulerInv => AckedJobsSurvive
  <2> SUFFICES ASSUME SchedulerInv  PROVE AckedJobsSurvive
    OBVIOUS
  <2>1. ASSUME NEW request \in acked
        PROVE  /\ Row(request.job_id) \in DOMAIN synced
               /\ Request(synced[Row(request.job_id)]) = request
               /\ Row(request.job_id) \in DOMAIN disk
               /\ Request(disk[Row(request.job_id)]) = request
    <3>1. /\ Row(request.job_id) \in DOMAIN synced
          /\ Request(synced[Row(request.job_id)]) = request
      BY DEF SchedulerInv, PromisesAreSaved
    <3> QED  BY <3>1 DEF SchedulerInv, TypeOK, DiskContinuesSynced, Continues
  <2>2. ASSUME NEW a \in acked, NEW b \in acked, a.job_id = b.job_id  PROVE a = b
    BY <2>1, <2>2
  <2> QED  BY <2>1, <2>2 DEF AckedJobsSurvive
<1> QED  BY InvariantHolds, <1>1, PTL

(* What post_webhook announced is settled in every stage of the history,   *)
(* waits in no queue and is in no worker's hands.                          *)
THEOREM NotifiedFinal == Spec => []NotifiedJobsAreFinal
<1>1. SchedulerInv => NotifiedJobsAreFinal
  <2> SUFFICES ASSUME SchedulerInv, NEW note \in posted
               PROVE  /\ \E i \in DOMAIN synced :
                           synced[i].job_id = note.job_id /\ synced[i].state = note.state
                      /\ \A i \in DOMAIN disk :
                           disk[i].job_id = note.job_id => disk[i].state = note.state
                      /\ \A k \in DOMAIN queue : queue[k].job_id # note.job_id
                      /\ \A w \in Workers : Busy(w) => held[w].job_id # note.job_id
    BY DEF NotifiedJobsAreFinal
  <2> DEFINE at == Row(note.job_id)
  <2>1. note.job_id \in Nat /\ note.state \in Terminal
    BY DEF SchedulerInv, TypeOK
  <2>2. at \in DOMAIN synced /\ synced[at].state = note.state
    BY DEF SchedulerInv, PromisesAreSaved
  <2>3. synced[at].job_id = note.job_id
    BY <2>1, <2>2 DEF SchedulerInv, IdsAreDense, Dense, Row
  <2>4. at \in DOMAIN disk /\ disk[at] = synced[at]
    BY <2>1, <2>2 DEF SchedulerInv, TypeOK, DiskContinuesSynced, Continues
  <2>5. ASSUME NEW i \in DOMAIN disk, disk[i].job_id = note.job_id  PROVE i = at
    BY <2>1, <2>5 DEF SchedulerInv, TypeOK, IdsAreDense, Dense, Row
  <2>6. ASSUME at \in DOMAIN seen  PROVE seen[at].state # "queued"
    <3>1. CASE Live
      BY <2>1, <2>2, <2>4, <3>1, <2>6 DEF SchedulerInv, MemoryContinuesDisk, Continues, Terminal
    <3>2. CASE phase = "recovering"
      BY <2>1, <2>2, <2>4, <3>2, <2>6 DEF SchedulerInv, MemoryContinuesDisk, Requeued, Terminal
    <3>3. CASE phase \in {"down", "refused"}
      BY <2>6, <3>3 DEF SchedulerInv, MemoryContinuesDisk
    <3> QED  BY <3>1, <3>2, <3>3 DEF SchedulerInv, TypeOK, Phases, Live
  <2>7. \A k \in DOMAIN queue : queue[k].job_id # note.job_id
    BY <2>6 DEF SchedulerInv, QueueIsWaiting
  <2>8. \A w \in Workers : Busy(w) => held[w].job_id # note.job_id
    BY <2>1, <2>2 DEF SchedulerInv, BusyPinsItsRow, HeldIsRunning, Terminal
  <2> QED  BY <2>2, <2>3, <2>4, <2>5, <2>7, <2>8
<1> QED  BY InvariantHolds, <1>1, PTL

(* While work is accepted, every open job waits once, in order, or runs.   *)
THEOREM NoneStranded == Spec => []NoJobIsStranded
<1>1. SchedulerInv => NoJobIsStranded
  BY DEF SchedulerInv, OpenRowsHaveAPlace, QueueIsWaiting, NoJobIsStranded
<1> QED  BY InvariantHolds, <1>1, PTL

(* A process launches no job twice (SpawnChild in run_one_job).            *)
THEOREM LaunchedOnce == Spec => OneLaunchPerStart
<1>1. SchedulerInv /\ [Next]_vars
        => [\A w \in Workers :
              (pc[w] = "launching" /\ pc'[w] = "running")
                => held[w].job_id \notin launched]_vars
  BY DEF SchedulerInv, LaunchedIsOver
<1> QED  BY InvariantHolds, <1>1, PTL DEF Spec, OneLaunchPerStart

(* Once persist_jobs has failed, this process writes, queues, admits and   *)
(* claims nothing more.                                                    *)
THEOREM FailClosed == Spec => FailsClosed
<1> DEFINE Closed ==
      (fault # NoFault /\ phase' \in {"starting", "up", "dropping"}) =>
        /\ UNCHANGED <<storage, queue, fault, acked>>
        /\ \A w \in Workers : pc[w] = "idle" => ~(pc'[w] = "claimed")
<1>1. ASSUME SchedulerInv, [Next]_vars  PROVE [Closed]_vars
  <2> SUFFICES ASSUME Next, fault # NoFault, phase' \in {"starting", "up", "dropping"}
               PROVE  Closed
    BY <1>1
  <2> USE DEF memory, threads, storage, history
  <2>1. shutdown /\ pc \in [Workers -> Steps]
    BY <1>1 DEF SchedulerInv, TypeOK, FaultStops
  <2>2. CASE Starting
    BY <2>1, <2>2 DEF Starting, Start, RecoverLine, RefuseStart, RecoveryDone, StartReturns,
                      SpawnWorker, SpawnWorkerFails
  <2>3. ~Admission
    BY <2>1 DEF Admission, Submit, SubmitFails, Admissible
  <2>4. ASSUME NEW w \in Workers, Working(w)  PROVE Closed
    <3>1. CASE CheckBeforeSpawn(w) \/ SpawnChild(w) \/ SeeShutdown(w) \/ SeeExit(w) \/ SeeDeadline(w)
      BY <2>1, <3>1 DEF CheckBeforeSpawn, SpawnChild, SeeShutdown, SeeExit, SeeDeadline, Returns
    <3>2. CASE WorkerExits(w) \/ FinishAfterFault(w) \/ CheckBeforePost(w)
      BY <2>1, <3>2 DEF WorkerExits, FinishAfterFault, CheckBeforePost, LetGo
    <3>3. CASE \E sent \in BOOLEAN : Post(w, sent)
      BY <2>1, <3>3 DEF Post, LetGo
    <3> QED  BY <2>1, <2>4, <3>1, <3>2, <3>3 DEF Working, Claim, Finish
  <2>5. ASSUME NEW w \in Workers, Failing(w)  PROVE Closed
    BY <2>1, <2>5 DEF Failing, SpawnChildFails, WaitFails, Returns, ClaimFails, FinishFails
  <2>6. ASSUME NEW w \in Workers, NEW status \in {"success", "failure"}, ChildExits(w, status)
        PROVE  Closed
    BY <2>6 DEF ChildExits
  <2>7. CASE Stopping
    BY <2>7 DEF Stopping, RequestShutdown, Drop, Joined, Crash, PowerLoss
  <2> QED  BY <2>2, <2>3, <2>4, <2>5, <2>6, <2>7 DEF Next
<1> QED  BY InvariantHolds, <1>1, PTL DEF Spec, FailsClosed

=============================================================================
