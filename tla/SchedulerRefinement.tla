------------------------- MODULE SchedulerRefinement -------------------------
(***************************************************************************)
(* Scheduler implements JobLedger: the snapshot a power loss leaves is the *)
(* ledger, and every step of the scheduler is a step of it or a stutter.   *)
(***************************************************************************)
EXTENDS SchedulerProofs

(* A later stage of the history maps to a later ledger.                    *)
LEMMA LedgerContinues ==
  ASSUME NEW old \in Seq(FuzzJob), NEW new \in Seq(FuzzJob), Continues(old, new)
  PROVE  Ledger!Continues(LedgerOf(old), LedgerOf(new))
<1>1. /\ Len(LedgerOf(old)) = Len(old) /\ Len(LedgerOf(new)) = Len(new)
      /\ Len(old) \in Nat /\ Len(new) \in Nat
      /\ DOMAIN old = 1..Len(old) /\ DOMAIN new = 1..Len(new)
  BY DEF LedgerOf
<1>2. Len(old) <= Len(new)
  BY DEF Continues
<1>3. ASSUME NEW i \in 1..Len(old)
      PROVE  /\ LedgerOf(new)[i].request = LedgerOf(old)[i].request
             /\ Ledger!Ended(LedgerOf(old)[i]) => LedgerOf(new)[i] = LedgerOf(old)[i]
  <2>1. i \in DOMAIN old /\ i \in DOMAIN new
    BY <1>1, <1>2
  <2>2. LedgerOf(old)[i] = LedgerRow(old[i]) /\ LedgerOf(new)[i] = LedgerRow(new[i])
    BY <2>1 DEF LedgerOf
  <2>3. /\ Request(new[i]) = Request(old[i])
        /\ old[i].state \in Terminal => new[i] = old[i]
    BY <2>1 DEF Continues
  <2>4. Ledger!Ended(LedgerRow(old[i])) => old[i].state \in Terminal
    BY DEF Ledger!Ended, LedgerRow, Terminal
  <2>5. LedgerRow(new[i]).request = LedgerRow(old[i]).request
    BY <2>3 DEF LedgerRow
  <2> QED  BY <2>2, <2>3, <2>4, <2>5
<1> QED  BY <1>1, <1>2, <1>3 DEF Ledger!Continues

(* A step that moves the durable snapshot on and tells no client anything, *)
(* as claim_job, finish_job and a power loss do, is a Commit.              *)
LEMMA QuietStep ==
  ASSUME SchedulerInv, SchedulerInv', Continues(synced, synced'),
         acked' = acked, posted' = posted
  PROVE  Ledger!Commit
<1>1. synced \in Seq(FuzzJob) /\ synced' \in Seq(FuzzJob)
  BY DEF SchedulerInv, TypeOK
<1>2. Ledger!Continues(LedgerOf(synced), LedgerOf(synced'))
  BY <1>1, LedgerContinues
<1>3. LedgerOf(synced)' = LedgerOf(synced')
  BY DEF LedgerOf, LedgerRow, Request
<1> QED  BY <1>2, <1>3 DEF Ledger!Commit

(* submit answered Ok: the new row is durable and its ID is new.           *)
LEMMA SubmitCommits ==
  ASSUME SchedulerInv, SchedulerInv',
         NEW project \in Projects, NEW size \in Sizes, NEW budget \in Budgets,
         Submit(project, size, budget)
  PROVE  Ledger!Commit
<1> DEFINE job == NewJob(project, size, budget)
<1>1. /\ phase = "up" /\ seen' = Append(seen, job) /\ persist_jobs(seen', "ok")
      /\ acked' = acked \union {Request(job)} /\ posted' = posted
  BY DEF Submit, Admissible
<1>2. /\ seen \in Seq(FuzzJob) /\ synced \in Seq(FuzzJob) /\ synced' \in Seq(FuzzJob)
      /\ Dense(seen) /\ Len(seen) = next_id /\ next_id \in Nat /\ Live
  BY <1>1 DEF SchedulerInv, TypeOK, IdsAreDense, Live
<1>3. job \in FuzzJob /\ job.job_id = Len(seen)
  BY <1>2 DEF NewJob, FuzzJob, JobStates
<1> HIDE DEF job
<1>4. /\ seen' \in Seq(FuzzJob) /\ Dense(seen') /\ Continues(seen, seen')
      /\ Len(seen') = Len(seen) + 1 /\ seen'[Len(seen) + 1] = job
  BY <1>1, <1>2, <1>3, AppendFacts, AppendContinues DEF Row
<1>5. synced' = seen' /\ Continues(synced, synced')
  BY <1>1, <1>2, <1>4, SaveFacts
<1>6. Ledger!Continues(LedgerOf(synced), LedgerOf(synced'))
  BY <1>2, <1>5, LedgerContinues
<1>7. LedgerOf(synced)' = LedgerOf(synced')
  BY DEF LedgerOf, LedgerRow, Request
<1>8. Request(job) \in Ledger!Recorded(LedgerOf(synced'))
  <2>1. Len(LedgerOf(synced')) = Len(synced')
    BY <1>2 DEF LedgerOf
  <2>2. Len(seen) + 1 \in 1..Len(LedgerOf(synced'))
    BY <1>2, <1>4, <1>5, <2>1
  <2>3. Len(seen) + 1 \in DOMAIN synced' /\ synced'[Len(seen) + 1] = job
    BY <1>2, <1>4, <1>5, <2>1, <2>2
  <2>4. LedgerOf(synced')[Len(seen) + 1].request = Request(job)
    BY <2>3 DEF LedgerOf, LedgerRow
  <2> QED  BY <2>2, <2>4 DEF Ledger!Recorded
<1>9. ASSUME NEW other \in acked  PROVE other.job_id # Request(job).job_id
  <2>1. other.job_id \in Nat /\ Row(other.job_id) \in DOMAIN synced
    BY DEF SchedulerInv, TypeOK, PromisesAreSaved
  <2>2. Continues(synced, disk) /\ Continues(disk, seen)
    BY <1>2 DEF SchedulerInv, DiskContinuesSynced, MemoryContinuesDisk
  <2>3. disk \in Seq(FuzzJob)
    BY DEF SchedulerInv, TypeOK
  <2>4. Len(synced) <= Len(seen)
    BY <1>2, <2>2, <2>3, ContinuesTransitive DEF Continues
  <2>5. other.job_id < Len(seen)
    BY <1>2, <2>1, <2>4 DEF Row
  <2> QED  BY <1>2, <1>3, <2>1, <2>5 DEF Request
<1> QED  BY <1>1, <1>6, <1>7, <1>8, <1>9 DEF Ledger!Commit

(* post_webhook sends: the ledger already says how the job ended.          *)
LEMMA PostAnnounces ==
  ASSUME SchedulerInv, NEW w \in Workers, Post(w, TRUE)
  PROVE  Ledger!Announce
<1> DEFINE at == Row(held[w].job_id)
<1>1. /\ pc[w] = "posting" /\ UNCHANGED <<synced, acked>>
      /\ posted' = posted \union {[job_id |-> held[w].job_id, state |-> outcome[w]]}
  BY DEF Post, storage
<1>2. /\ held[w] \in FuzzJob /\ outcome[w] \in Terminal
      /\ at \in DOMAIN synced /\ synced[at].state = outcome[w]
      /\ synced \in Seq(FuzzJob)
  BY <1>1 DEF SchedulerInv, TypeOK, ResultIsSaved
<1>3. synced[at].job_id = held[w].job_id
  BY <1>2 DEF SchedulerInv, IdsAreDense, Dense, Row, FuzzJob
<1> HIDE DEF at
<1>4. at \in 1..Len(LedgerOf(synced))
  BY <1>2 DEF LedgerOf
<1>5. LedgerOf(synced)[at] = LedgerRow(synced[at])
  BY <1>2 DEF LedgerOf
<1>6. /\ LedgerRow(synced[at]).state = outcome[w]
      /\ LedgerRow(synced[at]).request.job_id = held[w].job_id
  BY <1>2, <1>3 DEF LedgerRow, Request
<1>7. Ledger!Ended(LedgerOf(synced)[at])
  BY <1>2, <1>5, <1>6 DEF Ledger!Ended, Terminal
<1>8. LedgerOf(synced)' = LedgerOf(synced)
  BY <1>1 DEF LedgerOf, LedgerRow, Request
<1>9. posted' = posted \union {[job_id |-> LedgerOf(synced)[at].request.job_id,
                                state |-> LedgerOf(synced)[at].state]}
  BY <1>1, <1>5, <1>6
<1> QED  BY <1>1, <1>4, <1>7, <1>8, <1>9 DEF Ledger!Announce

(* claim_job and finish_job save a later stage of the history.             *)
LEMMA SavesContinue ==
  ASSUME SchedulerInv, NEW w \in Workers, Claim(w) \/ Finish(w)
  PROVE  Continues(synced, synced')
<1>1. /\ seen \in Seq(FuzzJob) /\ Dense(seen) /\ Live
  BY DEF SchedulerInv, TypeOK, IdsAreDense, NoThreadsBeforeStart, Claim, Finish
<1>2. CASE Claim(w)
  <2>1. /\ queue # <<>> /\ seen' = WithState(seen, Head(queue).job_id, "running")
        /\ persist_jobs(seen', "ok")
    BY <1>2 DEF Claim
  <2>2. /\ Head(queue).job_id \in Nat /\ Row(Head(queue).job_id) \in DOMAIN seen
        /\ seen[Row(Head(queue).job_id)].state = "queued"
    BY <2>1, FrontOfQueue DEF FuzzJob
  <2>3. seen' \in Seq(FuzzJob) /\ Dense(seen') /\ Continues(seen, seen')
    BY <1>1, <2>1, <2>2, WithStateFacts, WithStateContinues DEF JobStates, Terminal
  <2> QED  BY <1>1, <2>1, <2>3, SaveFacts
<1>3. CASE Finish(w)
  <2> DEFINE state == FinalState(outcome[w])
  <2>1. /\ pc[w] = "ran" /\ persist_jobs(seen', "ok")
        /\ seen' = WithState(seen, held[w].job_id, state)
    BY <1>3 DEF Finish
  <2>2. HeldIsRunning(w) /\ outcome[w] \in Outcomes /\ outcome[w] # "none"
    BY <2>1 DEF SchedulerInv, TypeOK, BusyPinsItsRow, Busy, ResultIsSaved
  <2>3. state \in JobStates
    BY <2>2 DEF FinalState, JobStates, Outcomes
  <2> HIDE DEF state
  <2>4. Row(held[w].job_id) \in DOMAIN seen
    BY <1>1, <2>2 DEF SchedulerInv, TypeOK, HeldIsRunning, DiskContinuesSynced,
                      MemoryContinuesDisk, Continues
  <2>5. held[w].job_id \in Nat /\ seen[Row(held[w].job_id)].state = "running"
    BY <2>2 DEF HeldIsRunning, FuzzJob
  <2>6. seen' \in Seq(FuzzJob) /\ Dense(seen') /\ Continues(seen, seen')
    BY <1>1, <2>1, <2>3, <2>4, <2>5, WithStateFacts, WithStateContinues DEF Terminal
  <2> QED  BY <1>1, <2>1, <2>6, SaveFacts
<1> QED  BY <1>2, <1>3

(* Every step of the scheduler is a step of the ledger or leaves it alone. *)
LEMMA StepRefines ==
  ASSUME SchedulerInv, SchedulerInv', [Next]_vars
  PROVE  [Ledger!Next]_(Ledger!ledgerVars)
<1> USE DEF memory, threads, storage, history
<1>1. synced \in Seq(FuzzJob) /\ disk \in Seq(FuzzJob) /\ Continues(synced, disk)
  BY DEF SchedulerInv, TypeOK, DiskContinuesSynced
<1>2. ASSUME UNCHANGED <<synced, acked, posted>>  PROVE Ledger!Commit
  <2>1. Continues(synced, synced')
    BY <1>1, <1>2, ContinuesReflexive
  <2> QED  BY <1>2, <2>1, QuietStep
<1>3. CASE Starting
  <2>1. UNCHANGED <<synced, acked, posted>>
    BY <1>3 DEF Starting, Start, RecoverLine, RefuseStart, RecoveryDone, StartReturns,
                SpawnWorker, SpawnWorkerFails
  <2> QED  BY <1>2, <2>1 DEF Ledger!Next
<1>4. CASE Admission
  <2>1. PICK project \in Projects, size \in Sizes, budget \in Budgets :
          \/ Submit(project, size, budget)
          \/ \E result \in SaveFailures : SubmitFails(project, size, budget, result)
    BY <1>4 DEF Admission
  <2>2. CASE Submit(project, size, budget)
    BY <2>2, SubmitCommits DEF Ledger!Next
  <2>3. CASE \E result \in SaveFailures : SubmitFails(project, size, budget, result)
    <3>1. UNCHANGED <<synced, acked, posted>>
      BY <2>3 DEF SubmitFails, persist_jobs, SaveFailures
    <3> QED  BY <1>2, <3>1 DEF Ledger!Next
  <2> QED  BY <2>1, <2>2, <2>3
<1>5. ASSUME NEW w \in Workers, Working(w)  PROVE Ledger!Next
  <2>1. CASE Claim(w) \/ Finish(w)
    <3>1. acked' = acked /\ posted' = posted
      BY <2>1 DEF Claim, Finish
    <3> QED  BY <2>1, <3>1, SavesContinue, QuietStep DEF Ledger!Next
  <2>2. CASE Post(w, TRUE)
    BY <2>2, PostAnnounces DEF Ledger!Next
  <2>3. CASE Post(w, FALSE)
    <3>1. UNCHANGED <<synced, acked, posted>>
      BY <2>3 DEF Post
    <3> QED  BY <1>2, <3>1 DEF Ledger!Next
  <2>4. CASE \/ WorkerExits(w) \/ CheckBeforeSpawn(w) \/ SpawnChild(w) \/ SeeShutdown(w)
             \/ SeeExit(w) \/ SeeDeadline(w) \/ FinishAfterFault(w) \/ CheckBeforePost(w)
    <3>1. UNCHANGED <<synced, acked, posted>>
      BY <2>4 DEF WorkerExits, CheckBeforeSpawn, SpawnChild, SeeShutdown, SeeExit, SeeDeadline,
                  Returns, FinishAfterFault, CheckBeforePost
    <3> QED  BY <1>2, <3>1 DEF Ledger!Next
  <2>5. (\E sent \in BOOLEAN : Post(w, sent)) => Post(w, TRUE) \/ Post(w, FALSE)
    OBVIOUS
  <2> QED  BY <1>5, <2>1, <2>2, <2>3, <2>4, <2>5 DEF Working
<1>6. ASSUME NEW w \in Workers, Failing(w)  PROVE Ledger!Next
  <2>1. UNCHANGED <<synced, acked, posted>>
    BY <1>6 DEF Failing, SpawnChildFails, WaitFails, Returns, ClaimFails, FinishFails,
                persist_jobs, SaveFailures
  <2> QED  BY <1>2, <2>1 DEF Ledger!Next
<1>7. ASSUME NEW w \in Workers, NEW status \in {"success", "failure"}, ChildExits(w, status)
      PROVE  Ledger!Next
  BY <1>2, <1>7 DEF ChildExits, Ledger!Next
<1>8. CASE Stopping
  <2>1. CASE RequestShutdown \/ Drop \/ Joined \/ Crash
    BY <1>2, <2>1 DEF RequestShutdown, Drop, Joined, Crash, Ledger!Next
  <2>2. CASE \E kept \in BOOLEAN : PowerLoss(kept)
    <3>1. /\ synced' = disk \/ synced' = synced
          /\ acked' = acked /\ posted' = posted
      BY <2>2 DEF PowerLoss
    <3>2. Continues(synced, synced')
      BY <1>1, <3>1, ContinuesReflexive
    <3> QED  BY <3>1, <3>2, QuietStep DEF Ledger!Next
  <2> QED  BY <1>8, <2>1, <2>2 DEF Stopping
<1>9. CASE UNCHANGED vars
  BY <1>2, <1>9 DEF vars, Ledger!Next
<1> QED
  BY <1>3, <1>4, <1>5, <1>6, <1>7, <1>8, <1>9 DEF Next

(* The scheduler, with its failed saves, kills and power losses, keeps     *)
(* every promise of JobLedger.                                             *)
THEOREM LedgerImplemented == Spec => ImplementsLedger
<1>1. Init => Ledger!Init
  <2>1. ASSUME synced = <<>>  PROVE LedgerOf(synced) = <<>>
    BY <2>1 DEF LedgerOf
  <2> QED  BY <2>1 DEF Init, Ledger!Init
<1>2. SchedulerInv /\ SchedulerInv' /\ [Next]_vars => [Ledger!Next]_(Ledger!ledgerVars)
  BY StepRefines
<1> QED  BY InvariantHolds, <1>1, <1>2, PTL DEF Spec, ImplementsLedger, Ledger!Spec

=============================================================================
