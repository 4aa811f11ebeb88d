--------------------------- MODULE ResultsRefresh ---------------------------
(***************************************************************************)
(* The results refresh of crates/continuous_daemon (results_refresh.rs and *)
(* the refresh thread in lib.rs).  Workers report jobs that start and end; *)
(* one thread turns the jobs that ended into rebuilds of their projects'   *)
(* results/: soon for an idle project, seldom for a busy one.              *)
(*                                                                         *)
(* A project the map does not hold behaves as the default entry does, so   *)
(* every project has an entry and forgetting one resets it.  Time is a     *)
(* clock that counts to MaxTime.                                           *)
(***************************************************************************)
EXTENDS Integers, Sequences, FiniteSetsExt

CONSTANTS
  Workers,             \* worker threads
  Projects,            \* project directories
  MaxJobs,             \* bound: submissions in one behaviour
  MaxTime,             \* bound: the last clock value
  RebuildInterval,     \* REBUILD_INTERVAL, 60 s
  BusyRebuildInterval, \* BUSY_REBUILD_INTERVAL, 300 s
  Slow,                \* may threads take time outside their waits?
  NoProject,           \* a worker that runs nothing
  Never,               \* no instant
  NoBracket            \* no open bracket

ASSUME RefreshAssumption ==
  /\ NoProject \notin Projects
  /\ MaxJobs \in Nat
  /\ MaxTime \in Nat
  /\ RebuildInterval \in Nat \ {0}
  /\ BusyRebuildInterval \in Nat
  /\ RebuildInterval <= BusyRebuildInterval
  /\ Slow \in BOOLEAN
  /\ IsFiniteSet(Workers)
  /\ Never \notin Nat

VARIABLES
  now,        \* the monotonic clock
  queue,      \* the scheduler's queue: the projects of the waiting jobs
  submitted,  \* how many jobs were submitted
  job,        \* the project whose job each worker runs
  reporting,  \* workers inside job_finished that have not signalled yet
  stopping,   \* InnerState::shutdown
  running,    \* Project::running
  pending,    \* Project::pending
  last,       \* Project::last_rebuild
  signalled,  \* Signal::job_finished
  closing,    \* Signal::shutdown
  stage,      \* where the refresh thread is: see Stages
  wake_at,    \* when its wait times out
  queued,     \* the projects it read from the queue
  due,        \* Due::brackets it took and has not rebuilt yet
  next,       \* Due::next
  reported,   \* history: jobs reported finished
  covered,    \* history: finished jobs a rebuild was run for
  ended_at,   \* history: when a job of the project last finished
  taken_at    \* history: when take_due last took the project's bracket

work == <<queue, submitted, job, reporting, stopping>>
entries == <<running, pending, last>>
signals == <<signalled, closing>>
thread == <<stage, wake_at, queued, due, next>>
history == <<reported, covered, ended_at, taken_at>>
vars == <<now, work, entries, signals, thread, history>>

Bracket == [opened : Nat, finished : Nat, failed : BOOLEAN, interrupted : BOOLEAN]

ASSUME BracketAssumption == NoBracket \notin Bracket

(* waiting: in wait_for_work.  checking, reading, taking: in               *)
(* rebuild_due_projects.  rebuilding: in rebuild_all.  final: the loop     *)
(* ended.  draining: rebuilds what take_all took.  exited: returned.       *)
Stages == {"waiting", "checking", "reading", "taking", "rebuilding", "final",
           "draining", "exited"}

(* Pending::open.                                                          *)
Open(at) == [opened |-> at, finished |-> 0, failed |-> FALSE, interrupted |-> FALSE]

(* A bracket with one more job that ended.                                 *)
Recorded(bracket, outcome) ==
  [bracket EXCEPT !.finished = bracket.finished + 1,
                  !.failed = bracket.failed \/ outcome = "failed",
                  !.interrupted = bracket.interrupted \/ outcome = "interrupted"]

(* Jobs a bracket has to record.                                           *)
Unrecorded(bracket) == IF bracket = NoBracket THEN 0 ELSE bracket.finished

NoBrackets == [p \in Projects |-> NoBracket]

-----------------------------------------------------------------------------
(* The scheduler's side.                                                   *)

Submit(p) ==
  /\ submitted < MaxJobs /\ ~stopping
  /\ queue' = Append(queue, p)
  /\ submitted' = submitted + 1
  /\ UNCHANGED <<now, job, reporting, stopping, entries, signals, thread, history>>

(* A worker claims the front job and calls job_started with the scheduler  *)
(* mutex still held.                                                       *)
job_started(w) ==
  LET p == Head(queue) IN
  /\ job[w] = NoProject /\ w \notin reporting /\ queue # <<>> /\ ~stopping
  /\ queue' = Tail(queue)
  /\ job' = [job EXCEPT ![w] = p]
  /\ running' = [running EXCEPT ![p] = @ + 1]
  /\ pending' = [pending EXCEPT ![p] = IF @ = NoBracket THEN Open(now) ELSE @]
  /\ UNCHANGED <<now, submitted, reporting, stopping, last, signals, thread, history>>

(* job_finished, under the projects mutex.                                 *)
job_finished(w, outcome) ==
  LET p == job[w] IN
  /\ p # NoProject
  /\ outcome = "interrupted" => stopping
  /\ running' = [running EXCEPT ![p] = IF @ > 0 THEN @ - 1 ELSE 0]
  /\ pending' = [pending EXCEPT ![p] =
       IF @ = NoBracket THEN @ ELSE Recorded(@, outcome)]
  /\ job' = [job EXCEPT ![w] = NoProject]
  /\ reporting' = reporting \union {w}
  /\ reported' = [reported EXCEPT ![p] = @ + 1]
  /\ ended_at' = [ended_at EXCEPT ![p] = now]
  /\ UNCHANGED <<now, queue, submitted, stopping, last, signals, thread,
                 covered, taken_at>>

(* job_finished, under the signal mutex.                                   *)
Signal(w) ==
  /\ w \in reporting
  /\ reporting' = reporting \ {w}
  /\ signalled' = TRUE
  /\ UNCHANGED <<now, queue, submitted, job, stopping, entries, closing, thread,
                 history>>

Stop ==
  /\ ~stopping
  /\ stopping' = TRUE
  /\ UNCHANGED <<now, queue, submitted, job, reporting, entries, signals, thread,
                 history>>

(* Mutant: stop the refresh thread without waiting for the workers.        *)
StopRefresher_early ==
  /\ stopping /\ ~closing
  /\ closing' = TRUE
  /\ UNCHANGED <<now, work, entries, signalled, thread, history>>

(* stop_refresher, called when every worker has been joined.               *)
StopRefresher ==
  /\ stopping /\ ~closing
  /\ reporting = {} /\ \A w \in Workers : job[w] = NoProject
  /\ closing' = TRUE
  /\ UNCHANGED <<now, work, entries, signalled, thread, history>>

-----------------------------------------------------------------------------
(* The refresh thread.                                                     *)

Wakeable ==
  /\ stage = "waiting"
  /\ signalled \/ closing \/ now >= wake_at

(* Mutant: keep the shutdown flag for after the pending work.              *)
wait_for_work_ignores(x) == "checking"

(* What wait_for_work's answer leads to.                                   *)
AfterWait(shut) == IF shut THEN "final" ELSE "checking"

wait_for_work ==
  /\ Wakeable
  /\ signalled' = FALSE
  /\ stage' = AfterWait(closing)
  /\ UNCHANGED <<now, work, entries, closing, wake_at, queued, due, next, history>>

(* Mutant: sleep until the next due time, with no default and no cap.      *)
WaitUntil_uncapped(at) == stage' = "waiting" /\ wake_at' = at

(* refresh_wait, and back to wait_for_work.                                *)
WaitUntil(at) ==
  /\ stage' = "waiting"
  /\ wake_at' = IF at = Never \/ at > now + RebuildInterval
                THEN now + RebuildInterval ELSE at

has_pending ==
  /\ stage = "checking"
  /\ IF \E p \in Projects : Unrecorded(pending[p]) > 0
     THEN stage' = "reading" /\ UNCHANGED wake_at
     ELSE WaitUntil(Never)
  /\ UNCHANGED <<now, work, entries, signals, queued, due, next, history>>

(* The queue is read under the scheduler mutex, which is released before   *)
(* take_due takes the projects mutex.                                      *)
ReadQueue ==
  /\ stage = "reading"
  /\ queued' = {queue[k] : k \in DOMAIN queue}
  /\ stage' = "taking"
  /\ UNCHANGED <<now, work, entries, signals, wake_at, due, next, history>>

(* Mutant: debounce an idle project as a busy one.                         *)
DueAt_late(p) ==
  IF last[p] = Never THEN pending[p].opened + BusyRebuildInterval
                     ELSE last[p] + BusyRebuildInterval

DueAt(p) ==
  IF running[p] > 0 \/ p \in queued
  THEN (IF last[p] = Never THEN pending[p].opened ELSE last[p]) + BusyRebuildInterval
  ELSE IF last[p] = Never THEN now ELSE last[p] + RebuildInterval

Taken(p) == Unrecorded(pending[p]) > 0 /\ now >= DueAt(p)
LeftBehind(p) == Unrecorded(pending[p]) > 0 /\ now < DueAt(p)

(* Mutant: forget a project as soon as it is idle and recorded.            *)
Rested_always(at) == TRUE

(* idle_rested.                                                            *)
Rested(at) == at = Never \/ now - at >= RebuildInterval

(* Mutant: the running jobs keep no bracket.                               *)
Reopened_never(p) == NoBracket

(* A busy project's running jobs move to a fresh bracket.                  *)
Reopened(p) == IF running[p] > 0 THEN Open(now) ELSE NoBracket

take_due ==
  LET kept == [p \in Projects |-> IF Taken(p) THEN Reopened(p) ELSE pending[p]]
      stamp == [p \in Projects |-> IF Taken(p) THEN now ELSE last[p]]
      forgotten == {p \in Projects : /\ running[p] = 0
                                     /\ kept[p] = NoBracket
                                     /\ Rested(stamp[p])}
      later == {DueAt(p) : p \in {q \in Projects : LeftBehind(q)}}
  IN
  /\ stage = "taking"
  /\ due' = [p \in Projects |-> IF Taken(p) THEN pending[p] ELSE NoBracket]
  /\ next' = IF later = {} THEN Never ELSE Min(later)
  /\ pending' = kept
  /\ last' = [p \in Projects |-> IF p \in forgotten THEN Never ELSE stamp[p]]
  /\ taken_at' = [p \in Projects |-> IF Taken(p) THEN now ELSE taken_at[p]]
  /\ stage' = "rebuilding"
  /\ UNCHANGED <<now, work, running, signals, wake_at, queued, reported, covered,
                 ended_at>>

(* One rebuild: it succeeds, warns or panics, and the rest still run.      *)
Rebuild(p) ==
  /\ stage \in {"rebuilding", "draining"}
  /\ due[p] # NoBracket
  /\ covered' = [covered EXCEPT ![p] = @ + due[p].finished]
  /\ due' = [due EXCEPT ![p] = NoBracket]
  /\ UNCHANGED <<now, work, entries, signals, stage, wake_at, queued, next,
                 reported, ended_at, taken_at>>

RebuildsDone ==
  /\ stage = "rebuilding"
  /\ due = NoBrackets
  /\ WaitUntil(next)
  /\ UNCHANGED <<now, work, entries, signals, queued, due, next, history>>

take_all ==
  /\ stage = "final"
  /\ due' = [p \in Projects |->
               IF Unrecorded(pending[p]) > 0 THEN pending[p] ELSE NoBracket]
  /\ running' = [p \in Projects |-> 0]
  /\ pending' = NoBrackets
  /\ last' = [p \in Projects |-> Never]
  /\ stage' = "draining"
  /\ UNCHANGED <<now, work, signals, wake_at, queued, next, history>>

ThreadReturns ==
  /\ stage = "draining"
  /\ due = NoBrackets
  /\ stage' = "exited"
  /\ UNCHANGED <<now, work, entries, signals, wake_at, queued, due, next, history>>

(* Time passes.  If threads are not Slow, only while all of them wait.     *)
Tick ==
  /\ now < MaxTime
  /\ Slow \/ (stage = "waiting" /\ ~Wakeable /\ reporting = {})
  /\ now' = now + 1
  /\ UNCHANGED <<work, entries, signals, thread, history>>

-----------------------------------------------------------------------------
Init ==
  /\ now = 0
  /\ queue = <<>> /\ submitted = 0 /\ stopping = FALSE
  /\ job = [w \in Workers |-> NoProject] /\ reporting = {}
  /\ running = [p \in Projects |-> 0]
  /\ pending = NoBrackets
  /\ last = [p \in Projects |-> Never]
  /\ signalled = FALSE /\ closing = FALSE
  /\ stage = "waiting" /\ wake_at = RebuildInterval
  /\ queued = {} /\ due = NoBrackets /\ next = Never
  /\ reported = [p \in Projects |-> 0] /\ covered = [p \in Projects |-> 0]
  /\ ended_at = [p \in Projects |-> Never] /\ taken_at = [p \in Projects |-> Never]

RefreshThread ==
  \/ wait_for_work \/ has_pending \/ ReadQueue \/ take_due \/ RebuildsDone
  \/ take_all \/ ThreadReturns
  \/ \E p \in Projects : Rebuild(p)

WorkerThread(w) ==
  \/ job_started(w) \/ Signal(w)
  \/ \E outcome \in {"complete", "failed", "interrupted"} : job_finished(w, outcome)

Next ==
  \/ \E p \in Projects : Submit(p)
  \/ \E w \in Workers : WorkerThread(w)
  \/ Stop \/ StopRefresher
  \/ RefreshThread
  \/ Tick

Spec == Init /\ [][Next]_vars

(* The refresh thread runs, and so does job_finished's second half.        *)
FairSpec ==
  Spec /\ WF_vars(RefreshThread) /\ \A w \in Workers : WF_vars(Signal(w))

-----------------------------------------------------------------------------
(* Properties.                                                             *)

TypeOK ==
  /\ now \in Nat
  /\ queue \in Seq(Projects) /\ submitted \in Nat /\ stopping \in BOOLEAN
  /\ job \in [Workers -> Projects \union {NoProject}] /\ reporting \subseteq Workers
  /\ running \in [Projects -> Nat]
  /\ pending \in [Projects -> Bracket \union {NoBracket}]
  /\ last \in [Projects -> Nat \union {Never}]
  /\ signalled \in BOOLEAN /\ closing \in BOOLEAN
  /\ stage \in Stages /\ wake_at \in Nat
  /\ queued \subseteq Projects
  /\ due \in [Projects -> Bracket \union {NoBracket}]
  /\ next \in Nat \union {Never}
  /\ reported \in [Projects -> Nat] /\ covered \in [Projects -> Nat]
  /\ ended_at \in [Projects -> Nat \union {Never}]
  /\ taken_at \in [Projects -> Nat \union {Never}]

(* results_refresh.rs: "running > 0 implies pending.is_some()"; and the    *)
(* count is the number of workers that run a job of the project, so no     *)
(* rebuild, forgotten project or saturating subtraction loses one.         *)
RunningJobsAreBracketed ==
  stage \notin {"draining", "exited"} =>
    \A p \in Projects :
      /\ running[p] = Cardinality({w \in Workers : job[w] = p})
      /\ running[p] > 0 => pending[p] # NoBracket

(* Every job a worker reports is in the open bracket, in a bracket the     *)
(* thread holds, or has had its rebuild: none is counted twice and none is *)
(* left out when the thread has returned at shutdown.                      *)
EveryJobIsCoveredOnce ==
  \A p \in Projects :
    /\ reported[p] = covered[p] + Unrecorded(pending[p]) + Unrecorded(due[p])
    /\ stage = "exited" => covered[p] = reported[p]

(* Before shutdown, two rebuilds of a project are REBUILD_INTERVAL apart,  *)
(* and BUSY_REBUILD_INTERVAL apart if a job of it runs, also when the      *)
(* project was forgotten in between.                                       *)
RebuildsAreSpaced ==
  [][\A p \in Projects :
       (taken_at'[p] # taken_at[p] /\ taken_at[p] # Never) =>
         /\ taken_at'[p] - taken_at[p] >= RebuildInterval
         /\ running[p] > 0 => taken_at'[p] - taken_at[p] >= BusyRebuildInterval]_vars

(* With a thread that takes no time, a finished job is recorded at once or *)
(* when the interval that applies to its project has passed: no signal is  *)
(* lost between take_due and the next wait, no timeout is too long.        *)
RebuildsAreInTime ==
  (~Slow /\ stage # "exited") =>
    \A p \in Projects : Unrecorded(pending[p]) > 0 =>
      LET busy == running[p] > 0 \/ \E k \in DOMAIN queue : queue[k] = p
          limit == IF busy
                   THEN (IF last[p] = Never THEN pending[p].opened ELSE last[p])
                          + BusyRebuildInterval
                   ELSE IF last[p] = Never THEN 0 ELSE last[p] + RebuildInterval
      IN now <= limit \/ now = ended_at[p]

(* stop_refresher's join returns.                                          *)
RefresherStops == closing ~> stage = "exited"
=============================================================================
