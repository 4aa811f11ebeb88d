---------------------------- MODULE RefreshProofs ----------------------------
(***************************************************************************)
(* The refresh thread's promises for any number of workers, projects and   *)
(* jobs, any intervals and any length of time.                             *)
(***************************************************************************)
EXTENDS ResultsRefresh, FiniteSetTheorems, SequenceTheorems, WellFoundedInduction, TLAPS

WorkTypes ==
  /\ queue \in Seq(Projects) /\ submitted \in Nat /\ stopping \in BOOLEAN
  /\ job \in [Workers -> Projects \cup {NoProject}] /\ reporting \subseteq Workers

EntryTypes ==
  /\ now \in Nat /\ running \in [Projects -> Nat]
  /\ pending \in [Projects -> Bracket \cup {NoBracket}]
  /\ last \in [Projects -> Nat \cup {Never}]

ThreadTypes ==
  /\ signalled \in BOOLEAN /\ closing \in BOOLEAN
  /\ stage \in Stages /\ wake_at \in Nat /\ queued \subseteq Projects
  /\ due \in [Projects -> Bracket \cup {NoBracket}]
  /\ next \in Nat \cup {Never}

HistoryTypes ==
  /\ reported \in [Projects -> Nat] /\ covered \in [Projects -> Nat]
  /\ ended_at \in [Projects -> Nat \cup {Never}]
  /\ taken_at \in [Projects -> Nat \cup {Never}]

Types == WorkTypes /\ EntryTypes /\ ThreadTypes /\ HistoryTypes

Over == {"draining", "exited"}

(* The thread drains only when the workers are gone, and holds brackets    *)
(* only while it rebuilds.                                                 *)
ControlInv ==
  /\ stage \in {"final"} \cup Over => closing
  /\ closing => stopping /\ reporting = {} /\ \A w \in Workers : job[w] = NoProject
  /\ stage \notin {"rebuilding", "draining"} => due = NoBrackets
  /\ stage \in Over => pending = NoBrackets

(* last_rebuild is the time of the last take, unless that is so long past  *)
(* that the project was forgotten.                                         *)
SpacedInv ==
  \A p \in Projects :
    /\ taken_at[p] # Never => taken_at[p] <= now
    /\ stage \notin Over =>
         /\ last[p] # Never => last[p] = taken_at[p]
         /\ last[p] = Never /\ taken_at[p] # Never =>
              /\ now - taken_at[p] >= RebuildInterval
              /\ pending[p] # NoBracket => pending[p].opened >= taken_at[p]

InQueue(p) == \E k \in DOMAIN queue : queue[k] = p
Busy(p) == running[p] > 0 \/ InQueue(p)

(* The thread knows, or will know, that a job has ended.                   *)
Told == signalled \/ reporting # {}

(* When the rebuild of the project is due at the latest.                   *)
Limit(p) ==
  IF Busy(p)
  THEN (IF last[p] = Never THEN pending[p].opened ELSE last[p]) + BusyRebuildInterval
  ELSE IF last[p] = Never THEN 0 ELSE last[p] + RebuildInterval

(* A project whose finished jobs wait for their rebuild: the thread will   *)
(* look again in time, or has been told to look at once.                   *)
InTime(p) ==
  /\ now <= Limit(p) \/ now = ended_at[p]
  /\ stage = "waiting" => Told \/ closing \/ wake_at <= Limit(p)
  /\ stage = "rebuilding" => Told \/ (next # Never /\ next <= Limit(p))

TimelyInv ==
  /\ stage = "taking" => \A p \in queued : Busy(p) \/ Told
  /\ ~Slow => \A p \in Projects : Unrecorded(pending[p]) > 0 => InTime(p)

RefreshInv ==
  /\ Types /\ ControlInv /\ RunningJobsAreBracketed /\ EveryJobIsCoveredOnce
  /\ SpacedInv /\ TimelyInv

-----------------------------------------------------------------------------
(* Facts about the data.                                                   *)

(* The first of the times still to come exists.                            *)
LEMMA MinOfTimes ==
  ASSUME NEW S \in SUBSET Nat, S # {}
  PROVE  Min(S) \in S /\ \A y \in S : Min(S) <= y
<1>1. PICK x \in S : \A y \in S : ~(<<y, x>> \in OpToRel(<, Nat))
  BY WFMin, NatLessThanWellFounded
<1>2. \A y \in S : ~(y < x)
  BY <1>1 DEF OpToRel
<1>3. \A y \in S : x <= y
  BY <1>2
<1> QED
  BY <1>3 DEF Min

(* The scheduler's queue.                                                  *)
LEMMA QueueFacts ==
  ASSUME NEW q \in Seq(Projects)
  PROVE  /\ \A k \in DOMAIN q : q[k] \in Projects
         /\ \A p \in Projects :
              /\ Append(q, p) \in Seq(Projects)
              /\ \A k \in DOMAIN q : k \in DOMAIN Append(q, p) /\ Append(q, p)[k] = q[k]
         /\ q # <<>> =>
              /\ Head(q) \in Projects /\ Tail(q) \in Seq(Projects)
              /\ \A k \in DOMAIN q :
                   q[k] = Head(q) \/ \E j \in DOMAIN Tail(q) : Tail(q)[j] = q[k]
<1>1. \A k \in DOMAIN q : q[k] \in Projects
  BY ElementOfSeq, LenProperties
<1>2. ASSUME NEW p \in Projects
      PROVE  /\ Append(q, p) \in Seq(Projects)
             /\ \A k \in DOMAIN q : k \in DOMAIN Append(q, p) /\ Append(q, p)[k] = q[k]
  <2>1. /\ Append(q, p) \in Seq(Projects) /\ Len(Append(q, p)) = Len(q) + 1
        /\ \A k \in 1..Len(q) : Append(q, p)[k] = q[k]
    BY AppendProperties
  <2>2. Len(q) \in Nat /\ DOMAIN q = 1..Len(q) /\ DOMAIN Append(q, p) = 1..Len(Append(q, p))
    BY <2>1, LenProperties
  <2> DEFINE n == Len(q)
             m == Len(Append(q, p))
  <2>3. n \in Nat /\ m = n + 1
    BY <2>1, <2>2
  <2> HIDE DEF n, m
  <2>4. \A k \in 1..n : k \in 1..m
    BY <2>3
  <2> QED
    BY <2>1, <2>2, <2>4 DEF n, m
<1>3. ASSUME q # <<>>
      PROVE  /\ Head(q) \in Projects /\ Tail(q) \in Seq(Projects)
             /\ \A k \in DOMAIN q :
                  q[k] = Head(q) \/ \E j \in DOMAIN Tail(q) : Tail(q)[j] = q[k]
  <2>1. /\ Head(q) = q[1] /\ Head(q) \in Projects /\ Tail(q) \in Seq(Projects)
        /\ Len(Tail(q)) = Len(q) - 1
        /\ \A i \in 1..Len(Tail(q)) : Tail(q)[i] = q[i + 1]
    BY <1>3, HeadTailProperties, LenProperties, EmptySeq
  <2>2. Len(q) \in Nat /\ DOMAIN q = 1..Len(q) /\ DOMAIN Tail(q) = 1..Len(Tail(q))
    BY <2>1, LenProperties
  <2> DEFINE n == Len(q)
             m == Len(Tail(q))
  <2>3. n \in Nat /\ m = n - 1 /\ \A i \in 1..m : Tail(q)[i] = q[i + 1]
    BY <2>1, <2>2
  <2> HIDE DEF n, m
  <2>4. \A k \in 1..n : k = 1 \/ (k - 1 \in 1..m /\ (k - 1) + 1 = k)
    BY <2>3
  <2>5. \A k \in 1..n : k # 1 => \E j \in 1..m : Tail(q)[j] = q[k]
    BY <2>3, <2>4
  <2> QED
    BY <2>1, <2>2, <2>5 DEF n, m
<1> QED
  BY <1>1, <1>2, <1>3

(* Brackets.                                                               *)
LEMMA BracketFacts ==
  /\ \A b \in Bracket : /\ b # NoBracket /\ Unrecorded(b) = b.finished
                        /\ b.opened \in Nat /\ b.finished \in Nat
  /\ Unrecorded(NoBracket) = 0
  /\ \A b \in Bracket \cup {NoBracket} : Unrecorded(b) \in Nat
  /\ \A b \in Bracket \cup {NoBracket} : Unrecorded(b) > 0 => b \in Bracket
  /\ \A t \in Nat : Open(t) \in Bracket /\ Open(t).opened = t /\ Unrecorded(Open(t)) = 0
  /\ NoBrackets \in [Projects -> Bracket \cup {NoBracket}]
  /\ \A p \in Projects : NoBrackets[p] = NoBracket
<1>1. \A b \in Bracket : b # NoBracket /\ b.opened \in Nat /\ b.finished \in Nat
  BY BracketAssumption DEF Bracket
<1>2. \A t \in Nat : Open(t) \in Bracket /\ Open(t).opened = t /\ Open(t).finished = 0
  BY DEF Open, Bracket
<1>3. Unrecorded(NoBracket) = 0
  BY DEF Unrecorded
<1>4. \A b \in Bracket : Unrecorded(b) = b.finished
  BY <1>1 DEF Unrecorded
<1>5. \A b \in Bracket \cup {NoBracket} : Unrecorded(b) \in Nat
  BY <1>1, <1>3, <1>4
<1>6. \A t \in Nat : Unrecorded(Open(t)) = 0
  BY <1>2, <1>4
<1>7. ~(0 > 0)
  OBVIOUS
<1>8. \A b \in Bracket \cup {NoBracket} : Unrecorded(b) > 0 => b \in Bracket
  BY <1>3, <1>7
<1> QED
  BY <1>1, <1>2, <1>3, <1>4, <1>5, <1>6, <1>8 DEF NoBrackets

(* A project that stays busy, or becomes so, is not due any sooner.        *)
LEMMA LimitGrows ==
  ASSUME Types, NEW p \in Projects, Unrecorded(pending[p]) > 0,
         last'[p] = last[p], pending'[p].opened = pending[p].opened,
         Busy(p) => Busy(p)'
  PROVE  /\ Limit(p) \in Nat /\ Limit(p)' \in Nat /\ Limit(p) <= Limit(p)'
<1>1. /\ pending[p].opened \in Nat /\ last[p] \in Nat \cup {Never}
      /\ RebuildInterval \in Nat /\ BusyRebuildInterval \in Nat
      /\ RebuildInterval <= BusyRebuildInterval
  <2>1. pending[p] \in Bracket
    BY BracketFacts DEF Types, EntryTypes
  <2> QED
    BY <2>1, BracketFacts, RefreshAssumption DEF Types, EntryTypes
<1>2. CASE last[p] = Never
  BY <1>1, <1>2 DEF Limit
<1>3. CASE last[p] # Never
  <2>1. last[p] \in Nat
    BY <1>1, <1>3
  <2> QED
    BY <1>1, <1>3, <2>1 DEF Limit
<1> QED
  BY <1>2, <1>3

(* A later limit is kept as well.                                          *)
LEMMA LimitInTime ==
  ASSUME NEW p \in Projects, InTime(p),
         UNCHANGED <<now, stage, wake_at, next, ended_at>>,
         Told => Told', closing => closing',
         Limit(p) \in Nat, Limit(p)' \in Nat, Limit(p) <= Limit(p)',
         now \in Nat, wake_at \in Nat, next \in Nat \cup {Never}
  PROVE  InTime(p)'
<1> DEFINE a == Limit(p)
           b == Limit(p)'
<1>1. a \in Nat /\ b \in Nat /\ a <= b
  OBVIOUS
<1>2. /\ now <= a \/ now = ended_at[p]
      /\ stage = "waiting" => Told \/ closing \/ wake_at <= a
      /\ stage = "rebuilding" => Told \/ (next # Never /\ next <= a)
  BY DEF InTime
<1> HIDE DEF a, b
<1>3. /\ now <= a => now <= b
      /\ wake_at <= a => wake_at <= b
      /\ next \in Nat /\ next <= a => next <= b
  BY <1>1
<1>4. /\ now' <= b \/ now' = ended_at'[p]
      /\ stage' = "waiting" => Told' \/ closing' \/ wake_at' <= b
      /\ stage' = "rebuilding" => Told' \/ (next' # Never /\ next' <= b)
  BY <1>2, <1>3
<1> QED
  BY <1>4 DEF InTime, b

(* Steps that change neither the thread's plans nor the time, and make no  *)
(* busy project idle.                                                      *)
LEMMA LimitHolds ==
  ASSUME Types, TimelyInv,
         UNCHANGED <<now, stage, wake_at, next, queued, ended_at, last>>,
         Told => Told', closing => closing',
         \A p \in Projects : Busy(p) => Busy(p)',
         \A p \in Projects : Unrecorded(pending'[p]) > 0 => pending'[p] = pending[p]
  PROVE  TimelyInv'
<1>1. stage' = "taking" => \A p \in queued' : (Busy(p) \/ Told)'
  <2>1. queued \subseteq Projects
    BY DEF Types, ThreadTypes
  <2> QED
    BY <2>1 DEF TimelyInv
<1>2. ASSUME ~Slow, NEW p \in Projects, Unrecorded(pending'[p]) > 0
      PROVE  InTime(p)'
  <2>1. pending'[p] = pending[p] /\ Unrecorded(pending[p]) > 0
    BY <1>2
  <2>2. /\ Limit(p) \in Nat /\ Limit(p)' \in Nat /\ Limit(p) <= Limit(p)'
    BY <2>1, LimitGrows
  <2>3. InTime(p)
    BY <1>2, <2>1 DEF TimelyInv
  <2>4. now \in Nat /\ wake_at \in Nat /\ next \in Nat \cup {Never}
    BY DEF Types, EntryTypes, ThreadTypes
  <2> QED
    BY <2>2, <2>3, <2>4, LimitInTime
<1> QED
  BY <1>1, <1>2 DEF TimelyInv

-----------------------------------------------------------------------------
(* The scheduler's steps.                                                  *)

(* What a step leaves alone when the projects' entries do not change and   *)
(* time stands still.                                                      *)
LEMMA EntriesKept ==
  ASSUME RefreshInv, UNCHANGED <<now, job, running, pending, last, covered, reported>>,
         UNCHANGED <<stage, due, taken_at>>
  PROVE  RunningJobsAreBracketed' /\ EveryJobIsCoveredOnce' /\ SpacedInv'
  BY DEF RefreshInv, RunningJobsAreBracketed, EveryJobIsCoveredOnce, SpacedInv

(* A submission.                                                           *)
LEMMA SubmitStep ==
  ASSUME RefreshInv, NEW p \in Projects, Submit(p)
  PROVE  RefreshInv'
<1>1. Types /\ ControlInv /\ TimelyInv
  BY DEF RefreshInv
<1>2. /\ queue' = Append(queue, p) /\ submitted' = submitted + 1
      /\ UNCHANGED <<now, job, reporting, stopping, running, pending, last>>
      /\ UNCHANGED <<signalled, closing, stage, wake_at, queued, due, next>>
      /\ UNCHANGED <<reported, covered, ended_at, taken_at>>
  BY DEF Submit, entries, signals, thread, history
<1>3. queue \in Seq(Projects)
  BY <1>1 DEF Types, WorkTypes
<1>4. queue' \in Seq(Projects) /\ \A k \in DOMAIN queue : k \in DOMAIN queue' /\ queue'[k] = queue[k]
  BY <1>2, <1>3, QueueFacts
<1>5. Types'
  <2>1. submitted' \in Nat
    BY <1>1, <1>2 DEF Types, WorkTypes
  <2>2. WorkTypes'
    BY <1>1, <1>2, <1>4, <2>1 DEF Types, WorkTypes
  <2> QED
    BY <1>1, <1>2, <2>2 DEF Types, EntryTypes, ThreadTypes, HistoryTypes
<1>6. ControlInv'
  BY <1>1, <1>2 DEF ControlInv
<1>7. RunningJobsAreBracketed' /\ EveryJobIsCoveredOnce' /\ SpacedInv'
  BY <1>2, EntriesKept
<1>8. \A r \in Projects : Busy(r) => Busy(r)'
  BY <1>2, <1>4 DEF Busy, InQueue
<1>9. Told => Told'
  BY <1>2 DEF Told
<1>10. TimelyInv'
  BY <1>1, <1>2, <1>8, <1>9, LimitHolds
<1> QED
  BY <1>5, <1>6, <1>7, <1>10 DEF RefreshInv

(* A worker claims a job.                                                  *)
LEMMA StartStep ==
  ASSUME RefreshInv, NEW w \in Workers, job_started(w)
  PROVE  RefreshInv'
<1> DEFINE p == Head(queue)
<1>1. /\ Types /\ ControlInv /\ RunningJobsAreBracketed /\ EveryJobIsCoveredOnce
      /\ SpacedInv /\ TimelyInv
  BY DEF RefreshInv
<1>2. /\ job[w] = NoProject /\ queue # <<>> /\ ~stopping
      /\ queue' = Tail(queue) /\ job' = [job EXCEPT ![w] = p]
      /\ running' = [running EXCEPT ![p] = @ + 1]
      /\ pending' = [pending EXCEPT ![p] = IF @ = NoBracket THEN Open(now) ELSE @]
      /\ UNCHANGED <<now, submitted, reporting, stopping, last>>
      /\ UNCHANGED <<signalled, closing, stage, wake_at, queued, due, next>>
      /\ UNCHANGED <<reported, covered, ended_at, taken_at>>
  BY DEF job_started, signals, thread, history
<1>3. /\ p \in Projects /\ queue' \in Seq(Projects)
      /\ \A k \in DOMAIN queue : queue[k] = p \/ \E j \in DOMAIN queue' : queue'[j] = queue[k]
  <2>1. queue \in Seq(Projects)
    BY <1>1 DEF Types, WorkTypes
  <2> QED
    BY <1>2, <2>1, QueueFacts
<1> HIDE DEF p
<1>4. now \in Nat /\ Open(now) \in Bracket /\ Open(now).opened = now /\ Unrecorded(Open(now)) = 0
  BY <1>1, BracketFacts DEF Types, EntryTypes
<1>5. /\ running \in [Projects -> Nat] /\ pending \in [Projects -> Bracket \cup {NoBracket}]
      /\ job \in [Workers -> Projects \cup {NoProject}]
  BY <1>1 DEF Types, EntryTypes, WorkTypes
<1>6. \A r \in Projects :
        /\ running'[r] = IF r = p THEN running[r] + 1 ELSE running[r]
        /\ pending'[r] = pending[r] \/ (pending[r] = NoBracket /\ pending'[r] = Open(now))
        /\ pending'[r] = NoBracket => pending[r] = NoBracket /\ r # p
        /\ Unrecorded(pending'[r]) = Unrecorded(pending[r])
  BY <1>2, <1>3, <1>4, <1>5, BracketFacts
<1>7. Types'
  <2>1. running[p] + 1 \in Nat
    BY <1>3, <1>5
  <2>2. running' \in [Projects -> Nat] /\ pending' \in [Projects -> Bracket \cup {NoBracket}]
    BY <1>2, <1>3, <1>4, <1>5, <2>1
  <2>3. job' \in [Workers -> Projects \cup {NoProject}]
    BY <1>2, <1>3, <1>5
  <2>4. WorkTypes' /\ EntryTypes'
    BY <1>1, <1>2, <1>3, <2>2, <2>3 DEF Types, WorkTypes, EntryTypes
  <2> QED
    BY <1>1, <1>2, <2>4 DEF Types, ThreadTypes, HistoryTypes
<1>8. ~closing /\ stage \notin {"final"} \cup Over
  BY <1>1, <1>2 DEF ControlInv
<1>9. ControlInv'
  BY <1>1, <1>2, <1>8 DEF ControlInv
<1>10. RunningJobsAreBracketed'
  <2> SUFFICES ASSUME NEW r \in Projects
               PROVE  /\ running'[r] = Cardinality({v \in Workers : job'[v] = r})
                      /\ running'[r] > 0 => pending'[r] # NoBracket
    BY DEF RunningJobsAreBracketed
  <2> DEFINE S == {v \in Workers : job[v] = r}
  <2>1. /\ running[r] = Cardinality(S)
        /\ running[r] > 0 => pending[r] # NoBracket
    BY <1>1, <1>8 DEF RunningJobsAreBracketed, Over
  <2>2. IsFiniteSet(S) /\ w \notin S
    BY <1>2, FS_Subset, RefreshAssumption
  <2>3. {v \in Workers : job'[v] = r} = IF r = p THEN S \cup {w} ELSE S
    BY <1>2, <1>3, <1>5, RefreshAssumption
  <2>4. Cardinality(S \cup {w}) = Cardinality(S) + 1
    BY <2>2, FS_AddElement
  <2> HIDE DEF S
  <2>5. running'[r] = Cardinality({v \in Workers : job'[v] = r})
    BY <1>6, <2>1, <2>3, <2>4
  <2>6. running'[r] > 0 => pending'[r] # NoBracket
    BY <1>6, <2>1
  <2> QED
    BY <2>5, <2>6
<1>11. EveryJobIsCoveredOnce'
  BY <1>1, <1>2, <1>6 DEF EveryJobIsCoveredOnce
<1>12. SpacedInv'
  <2> SUFFICES ASSUME NEW r \in Projects
               PROVE  /\ taken_at[r] # Never => taken_at[r] <= now
                      /\ last[r] # Never => last[r] = taken_at[r]
                      /\ last[r] = Never /\ taken_at[r] # Never =>
                           /\ now - taken_at[r] >= RebuildInterval
                           /\ pending'[r] # NoBracket => pending'[r].opened >= taken_at[r]
    BY <1>2 DEF SpacedInv
  <2>1. /\ taken_at[r] # Never => taken_at[r] <= now
        /\ last[r] # Never => last[r] = taken_at[r]
        /\ last[r] = Never /\ taken_at[r] # Never =>
             /\ now - taken_at[r] >= RebuildInterval
             /\ pending[r] # NoBracket => pending[r].opened >= taken_at[r]
    BY <1>1, <1>8 DEF SpacedInv, Over
  <2>2. taken_at[r] \in Nat \cup {Never}
    BY <1>1 DEF Types, HistoryTypes
  <2>3. taken_at[r] \in Nat /\ taken_at[r] <= now => now >= taken_at[r]
    BY <1>4
  <2> QED
    BY <1>4, <1>6, <2>1, <2>2, <2>3
<1>13. TimelyInv'
  <2>1. \A r \in Projects : Busy(r) => Busy(r)'
    <3> SUFFICES ASSUME NEW r \in Projects, Busy(r) PROVE Busy(r)'
      OBVIOUS
    <3>1. running[r] \in Nat /\ 0 + 1 > 0
      BY <1>5
    <3>2. CASE r = p
      BY <1>6, <3>1, <3>2 DEF Busy
    <3>3. CASE r # p
      BY <1>3, <1>6, <3>3 DEF Busy, InQueue
    <3> QED
      BY <3>2, <3>3
  <2>2. Told => Told'
    BY <1>2 DEF Told
  <2>3. \A r \in Projects : Unrecorded(pending'[r]) > 0 => pending'[r] = pending[r]
    <3>1. ~(0 > 0)
      OBVIOUS
    <3> QED
      BY <1>4, <1>6, <3>1
  <2> QED
    BY <1>1, <1>2, <2>1, <2>2, <2>3, LimitHolds
<1> QED
  BY <1>7, <1>9, <1>10, <1>11, <1>12, <1>13 DEF RefreshInv

(* A worker reports that its job has ended.                                *)
LEMMA FinishStep ==
  ASSUME RefreshInv, NEW w \in Workers, NEW outcome, job_finished(w, outcome)
  PROVE  RefreshInv'
<1> DEFINE p == job[w]
           b == pending[p]
           nb == Recorded(b, outcome)
<1>1. /\ Types /\ ControlInv /\ RunningJobsAreBracketed /\ EveryJobIsCoveredOnce
      /\ SpacedInv /\ TimelyInv
  BY DEF RefreshInv
<1>16. pending' = [pending EXCEPT ![p] = IF b = NoBracket THEN b ELSE nb]
  BY DEF job_finished
<1>2. /\ p # NoProject
      /\ running' = [running EXCEPT ![p] = IF running[p] > 0 THEN running[p] - 1 ELSE 0]
      /\ job' = [job EXCEPT ![w] = NoProject] /\ reporting' = reporting \cup {w}
      /\ reported' = [reported EXCEPT ![p] = @ + 1]
      /\ ended_at' = [ended_at EXCEPT ![p] = now]
      /\ UNCHANGED <<now, queue, submitted, stopping, last, covered, taken_at>>
      /\ UNCHANGED <<signalled, closing, stage, wake_at, queued, due, next>>
  BY DEF job_finished, signals, thread
<1>3. p \in Projects
  BY <1>1, <1>2 DEF Types, WorkTypes
<1>4. ~closing /\ stage \notin {"final"} \cup Over
  BY <1>1, <1>2 DEF ControlInv
<1>5. /\ running \in [Projects -> Nat] /\ pending \in [Projects -> Bracket \cup {NoBracket}]
      /\ job \in [Workers -> Projects \cup {NoProject}] /\ now \in Nat
      /\ reported \in [Projects -> Nat] /\ covered \in [Projects -> Nat]
      /\ due \in [Projects -> Bracket \cup {NoBracket}]
      /\ ended_at \in [Projects -> Nat \cup {Never}]
  BY <1>1 DEF Types, EntryTypes, WorkTypes, HistoryTypes, ThreadTypes
<1>6. running[p] > 0 /\ b # NoBracket
  <2> DEFINE S == {v \in Workers : job[v] = p}
  <2>1. /\ running[p] = Cardinality(S)
        /\ running[p] > 0 => pending[p] # NoBracket
    BY <1>1, <1>3, <1>4 DEF RunningJobsAreBracketed, Over
  <2>2. IsFiniteSet(S) /\ w \in S
    BY FS_Subset, RefreshAssumption
  <2>3. Cardinality(S) # 0
    BY <2>2, FS_EmptySet
  <2>4. running[p] \in Nat
    BY <1>3, <1>5
  <2> HIDE DEF S
  <2> QED
    BY <2>1, <2>3, <2>4
<1>7. /\ nb \in Bracket /\ nb.opened = b.opened /\ Unrecorded(nb) = Unrecorded(b) + 1
      /\ nb # NoBracket
  <2>1. b \in Bracket
    BY <1>3, <1>5, <1>6
  <2> HIDE DEF b
  <2>2. /\ nb.opened = b.opened /\ nb.finished = b.finished + 1
    BY <2>1 DEF Bracket, Recorded
  <2>3. b.finished + 1 \in Nat
    BY <2>1 DEF Bracket
  <2>4. (b.failed \/ outcome = "failed") \in BOOLEAN /\ (b.interrupted \/ outcome = "interrupted") \in BOOLEAN
    OBVIOUS
  <2>5. nb \in Bracket
    BY <2>1, <2>3, <2>4, Zenon DEF Bracket, Recorded
  <2> HIDE DEF nb
  <2> QED
    BY <2>1, <2>2, <2>5, BracketFacts
<1> HIDE DEF nb, b, p
<1>8. /\ running' = [running EXCEPT ![p] = running[p] - 1]
      /\ pending' = [pending EXCEPT ![p] = nb]
  BY <1>2, <1>6, <1>16
<1>9. \A r \in Projects :
        /\ running'[r] = IF r = p THEN running[r] - 1 ELSE running[r]
        /\ pending'[r] = IF r = p THEN nb ELSE pending[r]
        /\ reported'[r] = IF r = p THEN reported[r] + 1 ELSE reported[r]
        /\ ended_at'[r] = IF r = p THEN now ELSE ended_at[r]
  BY <1>2, <1>3, <1>5, <1>8
<1>10. Types'
  <2>1. running[p] - 1 \in Nat /\ reported[p] + 1 \in Nat
    <3>1. running[p] \in Nat /\ reported[p] \in Nat
      BY <1>3, <1>5
    <3> QED
      BY <1>6, <3>1
  <2>2. running' \in [Projects -> Nat] /\ pending' \in [Projects -> Bracket \cup {NoBracket}]
    BY <1>3, <1>5, <1>7, <1>8, <2>1
  <2>3. job' \in [Workers -> Projects \cup {NoProject}] /\ reporting' \subseteq Workers
    BY <1>1, <1>2, <1>5 DEF Types, WorkTypes
  <2>4. WorkTypes' /\ EntryTypes'
    BY <1>1, <1>2, <2>2, <2>3 DEF Types, WorkTypes, EntryTypes
  <2>5. reported' \in [Projects -> Nat] /\ ended_at' \in [Projects -> Nat \cup {Never}]
    BY <1>2, <1>3, <1>5, <2>1
  <2> QED
    BY <1>1, <1>2, <2>4, <2>5 DEF Types, ThreadTypes, HistoryTypes
<1>11. ControlInv'
  BY <1>1, <1>2, <1>4 DEF ControlInv
<1>12. RunningJobsAreBracketed'
  <2> SUFFICES ASSUME NEW r \in Projects
               PROVE  /\ running'[r] = Cardinality({v \in Workers : job'[v] = r})
                      /\ running'[r] > 0 => pending'[r] # NoBracket
    BY DEF RunningJobsAreBracketed
  <2> DEFINE S == {v \in Workers : job[v] = r}
  <2>1. /\ running[r] = Cardinality(S)
        /\ running[r] > 0 => pending[r] # NoBracket
    BY <1>1, <1>4 DEF RunningJobsAreBracketed, Over
  <2>2. IsFiniteSet(S) /\ (r = p => w \in S)
    BY FS_Subset, RefreshAssumption DEF p
  <2>3. {v \in Workers : job'[v] = r} = IF r = p THEN S \ {w} ELSE S
    <3>1. \A v \in Workers : job'[v] = IF v = w THEN NoProject ELSE job[v]
      BY <1>2, <1>5
    <3>2. r # NoProject /\ (r # p => w \notin S)
      BY RefreshAssumption DEF p
    <3> QED
      BY <3>1, <3>2
  <2>4. w \in S => Cardinality(S \ {w}) = Cardinality(S) - 1
    BY <2>2, FS_RemoveElement
  <2> HIDE DEF S
  <2>5. running'[r] = Cardinality({v \in Workers : job'[v] = r})
    BY <1>9, <2>1, <2>2, <2>3, <2>4
  <2>6. running'[r] > 0 => pending'[r] # NoBracket
    BY <1>7, <1>9, <2>1
  <2> QED
    BY <2>5, <2>6
<1>13. EveryJobIsCoveredOnce'
  <2> SUFFICES ASSUME NEW r \in Projects
               PROVE  reported'[r] = covered[r] + Unrecorded(pending'[r]) + Unrecorded(due[r])
    BY <1>2, <1>4 DEF EveryJobIsCoveredOnce, Over
  <2>1. reported[r] = covered[r] + Unrecorded(pending[r]) + Unrecorded(due[r])
    BY <1>1 DEF EveryJobIsCoveredOnce
  <2>2. /\ covered[r] \in Nat /\ Unrecorded(pending[r]) \in Nat /\ Unrecorded(due[r]) \in Nat
    BY <1>5, BracketFacts
  <2>3. CASE r = p
    <3>1. Unrecorded(pending'[r]) = Unrecorded(pending[r]) + 1 /\ reported'[r] = reported[r] + 1
      BY <1>7, <1>9, <2>3 DEF b
    <3> QED
      BY <2>1, <2>2, <3>1
  <2>4. CASE r # p
    BY <1>9, <2>1, <2>4
  <2> QED
    BY <2>3, <2>4
<1>14. SpacedInv'
  <2>1. \A r \in Projects : /\ pending'[r] = NoBracket <=> pending[r] = NoBracket
                            /\ pending'[r].opened = pending[r].opened
    BY <1>6, <1>7, <1>9 DEF b
  <2> QED
    BY <1>1, <1>2, <2>1 DEF SpacedInv
<1>15. TimelyInv'
  <2>1. Told'
    BY <1>2 DEF Told
  <2>2. ASSUME ~Slow, NEW r \in Projects, Unrecorded(pending'[r]) > 0
        PROVE  now' <= Limit(r)' \/ now' = ended_at'[r]
    <3>1. CASE r = p
      BY <1>2, <1>9, <3>1
    <3>2. CASE r # p
      <4>1. /\ pending'[r] = pending[r] /\ running'[r] = running[r] /\ ended_at'[r] = ended_at[r]
        BY <1>9, <3>2
      <4>2. Limit(r)' = Limit(r)
        BY <1>2, <4>1 DEF Limit, Busy, InQueue
      <4>3. now <= Limit(r) \/ now = ended_at[r]
        BY <1>1, <2>2, <4>1 DEF TimelyInv, InTime
      <4> QED
        BY <1>2, <4>1, <4>2, <4>3
    <3> QED
      BY <3>1, <3>2
  <2> QED
    BY <2>1, <2>2 DEF TimelyInv, InTime
<1> QED
  BY <1>10, <1>11, <1>12, <1>13, <1>14, <1>15 DEF RefreshInv

(* Signals, and the stop of the scheduler and of the thread.               *)
LEMMA SignalStep ==
  ASSUME RefreshInv, (\E w \in Workers : Signal(w)) \/ Stop \/ StopRefresher
  PROVE  RefreshInv'
<1>1. Types /\ ControlInv /\ TimelyInv
  BY DEF RefreshInv
<1>2. /\ UNCHANGED <<now, queue, submitted, job, running, pending, last>>
      /\ UNCHANGED <<stage, wake_at, queued, due, next>>
      /\ UNCHANGED <<reported, covered, ended_at, taken_at>>
      /\ reporting' \subseteq reporting
  BY DEF Signal, Stop, StopRefresher, work, entries, thread, history
<1>3. /\ stopping' \in {stopping, TRUE} /\ signalled' \in {signalled, TRUE}
      /\ closing' \in {closing, TRUE}
  BY DEF Signal, Stop, StopRefresher, work, entries, thread, history, signals
<1>4. Types'
  <2>1. WorkTypes' /\ ThreadTypes'
    BY <1>1, <1>2, <1>3 DEF Types, WorkTypes, ThreadTypes
  <2> QED
    BY <1>1, <1>2, <2>1 DEF Types, EntryTypes, HistoryTypes
<1>5. ControlInv'
  <2>1. closing' => closing \/ (stopping /\ reporting = {} /\ \A w \in Workers : job[w] = NoProject)
    BY DEF Signal, Stop, StopRefresher, signals
  <2>2. stopping => stopping'
    BY <1>3
  <2>3. closing => closing'
    BY <1>3
  <2> QED
    BY <1>1, <1>2, <2>1, <2>2, <2>3 DEF ControlInv
<1>6. RunningJobsAreBracketed' /\ EveryJobIsCoveredOnce' /\ SpacedInv'
  BY <1>2, EntriesKept
<1>7. (Told => Told') /\ (closing => closing')
  BY <1>3 DEF Signal, Stop, StopRefresher, work, signals, Told
<1>8. \A r \in Projects : Busy(r) => Busy(r)'
  BY <1>2 DEF Busy, InQueue
<1>9. TimelyInv'
  BY <1>1, <1>2, <1>7, <1>8, LimitHolds
<1> QED
  BY <1>4, <1>5, <1>6, <1>9 DEF RefreshInv

-----------------------------------------------------------------------------
(* The thread's steps.                                                     *)

(* A step that only moves the thread on.                                   *)
LEMMA PlansOnly ==
  ASSUME RefreshInv, UNCHANGED <<now, job, running, pending, last, covered, reported>>,
         UNCHANGED <<due, taken_at, queue, ended_at>>, stage \notin Over, stage' \notin Over
  PROVE  /\ RunningJobsAreBracketed' /\ EveryJobIsCoveredOnce' /\ SpacedInv'
         /\ \A p \in Projects : Limit(p)' = Limit(p)
         /\ ~Slow => \A p \in Projects : Unrecorded(pending'[p]) > 0 =>
              (now <= Limit(p) \/ now = ended_at[p])'
<1>1. RunningJobsAreBracketed' /\ EveryJobIsCoveredOnce' /\ SpacedInv'
  BY DEF RefreshInv, RunningJobsAreBracketed, EveryJobIsCoveredOnce, SpacedInv, Over
<1>2. \A p \in Projects : Limit(p)' = Limit(p)
  BY DEF Limit, Busy, InQueue
<1>3. ~Slow => \A p \in Projects : Unrecorded(pending[p]) > 0 =>
        (now <= Limit(p) \/ now = ended_at[p])
  BY DEF RefreshInv, TimelyInv, InTime
<1> QED
  BY <1>1, <1>2, <1>3

(* The wait before the next look.                                          *)
LEMMA WaitTime ==
  ASSUME Types, NEW at \in Nat \cup {Never}, WaitUntil(at)
  PROVE  wake_at' \in Nat /\ (at # Never => wake_at' <= at) /\ stage' = "waiting"
<1>1. now \in Nat /\ RebuildInterval \in Nat
  BY RefreshAssumption DEF Types, EntryTypes
<1>2. CASE at = Never
  BY <1>1, <1>2 DEF WaitUntil
<1>3. CASE at # Never
  <2>1. at \in Nat
    BY <1>3
  <2> QED
    BY <1>1, <1>3, <2>1 DEF WaitUntil
<1> QED
  BY <1>2, <1>3

(* The thread wakes, looks for work, and reads the queue.                  *)
LEMMA LookStep ==
  ASSUME RefreshInv, wait_for_work \/ has_pending \/ ReadQueue
  PROVE  RefreshInv'
<1>1. Types /\ ControlInv
  BY DEF RefreshInv
<1>2. /\ UNCHANGED <<now, queue, submitted, job, reporting, stopping, running, pending, last>>
      /\ UNCHANGED <<closing, due, next>>
      /\ UNCHANGED <<reported, covered, ended_at, taken_at>>
  BY DEF wait_for_work, has_pending, ReadQueue, work, entries, signals, history
<1>3. /\ stage \in {"waiting", "checking", "reading"}
      /\ stage' \in {"final", "checking", "reading", "taking", "waiting"}
      /\ stage' = "final" => closing
  BY DEF wait_for_work, has_pending, ReadQueue, Wakeable, AfterWait, WaitUntil
<1>4. /\ wake_at' \in Nat /\ queued' \subseteq Projects /\ signalled' \in BOOLEAN
  <2>1. CASE wait_for_work
    BY <1>1, <2>1 DEF wait_for_work, Types, ThreadTypes
  <2>2. CASE has_pending
    <3>1. wake_at' \in Nat
      BY <1>1, <2>2, WaitTime DEF has_pending, Types, ThreadTypes
    <3> QED
      BY <1>1, <2>2, <3>1 DEF has_pending, signals, Types, ThreadTypes
  <2>3. CASE ReadQueue
    <3>1. queue \in Seq(Projects)
      BY <1>1 DEF Types, WorkTypes
    <3>2. queued' \subseteq Projects
      BY <2>3, <3>1, QueueFacts DEF ReadQueue
    <3> QED
      BY <1>1, <2>3, <3>2 DEF ReadQueue, signals, Types, ThreadTypes
  <2> QED
    BY <2>1, <2>2, <2>3
<1>5. Types'
  <2>1. ThreadTypes'
    BY <1>1, <1>2, <1>3, <1>4 DEF Types, ThreadTypes, Stages
  <2> QED
    BY <1>1, <1>2, <2>1 DEF Types, WorkTypes, EntryTypes, HistoryTypes
<1>6. ControlInv'
  BY <1>1, <1>2, <1>3 DEF ControlInv, Over
<1>7. /\ RunningJobsAreBracketed' /\ EveryJobIsCoveredOnce' /\ SpacedInv'
      /\ ~Slow => \A p \in Projects : Unrecorded(pending'[p]) > 0 =>
           (now <= Limit(p) \/ now = ended_at[p])'
  <2>1. stage \notin Over /\ stage' \notin Over
    BY <1>3 DEF Over
  <2> QED
    BY <1>2, <2>1, PlansOnly
<1>8. stage' = "taking" => \A p \in queued' : Busy(p)'
  BY <1>2 DEF wait_for_work, AfterWait, has_pending, WaitUntil, ReadQueue, Busy, InQueue
<1>9. stage' = "waiting" => \A p \in Projects : ~(Unrecorded(pending'[p]) > 0)
  BY <1>2 DEF wait_for_work, AfterWait, has_pending, ReadQueue
<1>10. TimelyInv'
  BY <1>3, <1>7, <1>8, <1>9 DEF TimelyInv, InTime
<1> QED
  BY <1>5, <1>6, <1>7, <1>10 DEF RefreshInv

(* The thread goes back to wait.                                           *)
LEMMA DoneStep ==
  ASSUME RefreshInv, RebuildsDone
  PROVE  RefreshInv'
<1>1. Types /\ ControlInv /\ TimelyInv
  BY DEF RefreshInv
<1>2. /\ stage = "rebuilding" /\ due = NoBrackets /\ WaitUntil(next)
      /\ UNCHANGED <<now, queue, submitted, job, reporting, stopping, running, pending, last>>
      /\ UNCHANGED <<signalled, closing, queued, due, next>>
      /\ UNCHANGED <<reported, covered, ended_at, taken_at>>
  BY DEF RebuildsDone, work, entries, signals, history
<1>3. wake_at' \in Nat /\ (next # Never => wake_at' <= next) /\ stage' = "waiting"
  BY <1>1, <1>2, WaitTime DEF Types, ThreadTypes
<1>4. Types'
  <2>1. ThreadTypes'
    BY <1>1, <1>2, <1>3 DEF Types, ThreadTypes, Stages
  <2> QED
    BY <1>1, <1>2, <2>1 DEF Types, WorkTypes, EntryTypes, HistoryTypes
<1>5. ControlInv'
  BY <1>1, <1>2, <1>3 DEF ControlInv, Over
<1>6. /\ RunningJobsAreBracketed' /\ EveryJobIsCoveredOnce' /\ SpacedInv'
      /\ \A p \in Projects : Limit(p)' = Limit(p)
      /\ ~Slow => \A p \in Projects : Unrecorded(pending'[p]) > 0 =>
           (now <= Limit(p) \/ now = ended_at[p])'
  <2>1. stage \notin Over /\ stage' \notin Over
    BY <1>2, <1>3 DEF Over
  <2> QED
    BY <1>2, <2>1, PlansOnly
<1>7. ASSUME ~Slow, NEW p \in Projects, Unrecorded(pending'[p]) > 0
      PROVE  Told' \/ wake_at' <= Limit(p)'
  <2>1. Told \/ (next # Never /\ next <= Limit(p))
    BY <1>1, <1>2, <1>7 DEF TimelyInv, InTime
  <2>2. Limit(p) \in Nat
    BY <1>1, <1>2, <1>7, LimitGrows DEF Busy, InQueue
  <2>3. CASE Told
    BY <1>2, <2>3 DEF Told
  <2>4. CASE next # Never /\ next <= Limit(p)
    <3>1. next \in Nat /\ wake_at' <= next
      BY <1>1, <1>3, <2>4 DEF Types, ThreadTypes
    <3>2. Limit(p)' = Limit(p)
      BY <1>6
    <3> DEFINE n == Limit(p)
               m == Limit(p)'
    <3>3. n \in Nat /\ m = n /\ next <= n
      BY <2>2, <2>4, <3>2
    <3> HIDE DEF n, m
    <3>4. wake_at' <= m
      BY <1>3, <3>1, <3>3
    <3> QED
      BY <3>4 DEF m
  <2> QED
    BY <2>1, <2>3, <2>4
<1>8. TimelyInv'
  BY <1>3, <1>6, <1>7 DEF TimelyInv, InTime
<1> QED
  BY <1>4, <1>5, <1>6, <1>8 DEF RefreshInv

(* One rebuild.                                                            *)
LEMMA RebuildStep ==
  ASSUME RefreshInv, NEW p \in Projects, Rebuild(p)
  PROVE  RefreshInv'
<1>1. /\ Types /\ ControlInv /\ RunningJobsAreBracketed /\ EveryJobIsCoveredOnce
      /\ SpacedInv /\ TimelyInv
  BY DEF RefreshInv
<1>2. /\ stage \in {"rebuilding", "draining"} /\ due[p] # NoBracket
      /\ covered' = [covered EXCEPT ![p] = @ + due[p].finished]
      /\ due' = [due EXCEPT ![p] = NoBracket]
      /\ UNCHANGED <<now, queue, submitted, job, reporting, stopping, running, pending, last>>
      /\ UNCHANGED <<signalled, closing, stage, wake_at, queued, next>>
      /\ UNCHANGED <<reported, ended_at, taken_at>>
  BY DEF Rebuild, work, entries, signals
<1>3. due \in [Projects -> Bracket \cup {NoBracket}] /\ covered \in [Projects -> Nat]
  BY <1>1 DEF Types, ThreadTypes, HistoryTypes
<1>4. due[p] \in Bracket /\ due[p].finished \in Nat /\ Unrecorded(due[p]) = due[p].finished
  BY <1>2, <1>3, BracketFacts
<1>5. Types'
  <2>1. covered[p] + due[p].finished \in Nat
    BY <1>3, <1>4
  <2>2. ThreadTypes' /\ HistoryTypes'
    BY <1>1, <1>2, <2>1 DEF Types, ThreadTypes, HistoryTypes
  <2> QED
    BY <1>1, <1>2, <2>2 DEF Types, WorkTypes, EntryTypes
<1>6. ControlInv'
  BY <1>1, <1>2 DEF ControlInv
<1>7. RunningJobsAreBracketed' /\ SpacedInv'
  BY <1>1, <1>2 DEF RunningJobsAreBracketed, SpacedInv
<1>8. EveryJobIsCoveredOnce'
  <2> SUFFICES ASSUME NEW r \in Projects
               PROVE  reported[r] = covered'[r] + Unrecorded(pending[r]) + Unrecorded(due'[r])
    BY <1>2 DEF EveryJobIsCoveredOnce
  <2>1. reported[r] = covered[r] + Unrecorded(pending[r]) + Unrecorded(due[r])
    BY <1>1 DEF EveryJobIsCoveredOnce
  <2>2. Unrecorded(pending[r]) \in Nat /\ covered[r] \in Nat
    BY <1>1, <1>3, BracketFacts DEF Types, EntryTypes
  <2>3. CASE r = p
    <3>1. covered'[r] = covered[r] + due[p].finished /\ Unrecorded(due'[r]) = 0
      BY <1>2, <1>3, <2>3, BracketFacts
    <3>2. Unrecorded(due[r]) = due[p].finished
      BY <1>4, <2>3
    <3> QED
      BY <1>4, <2>1, <2>2, <3>1, <3>2
  <2>4. CASE r # p
    BY <1>2, <1>3, <2>1, <2>4
  <2> QED
    BY <2>3, <2>4
<1>9. (Told => Told') /\ \A r \in Projects : Busy(r) => Busy(r)'
  BY <1>2 DEF Told, Busy, InQueue
<1>10. TimelyInv'
  BY <1>1, <1>2, <1>9, LimitHolds
<1> QED
  BY <1>5, <1>6, <1>7, <1>8, <1>10 DEF RefreshInv

(* The last rebuilds, after the loop.                                      *)
LEMMA DrainStep ==
  ASSUME RefreshInv, take_all \/ ThreadReturns
  PROVE  RefreshInv'
<1>1. /\ Types /\ ControlInv /\ EveryJobIsCoveredOnce /\ SpacedInv
  BY DEF RefreshInv
<1>2. /\ UNCHANGED <<now, queue, submitted, job, reporting, stopping>>
      /\ UNCHANGED <<signalled, closing, wake_at, queued, next>>
      /\ UNCHANGED <<reported, covered, ended_at, taken_at>>
      /\ stage \in {"final", "draining"} /\ stage' \in Over
  BY DEF take_all, ThreadReturns, work, signals, history, Over
<1>3. /\ pending' = NoBrackets
      /\ stage' = "exited" => due' = NoBrackets
      /\ running' \in [Projects -> Nat] /\ last' \in [Projects -> Nat \cup {Never}]
      /\ due' \in [Projects -> Bracket \cup {NoBracket}]
  BY <1>1, BracketFacts DEF take_all, ThreadReturns, entries, ControlInv, Over,
     Types, EntryTypes, ThreadTypes
<1>4. \A p \in Projects : /\ Unrecorded(pending'[p]) = 0
                          /\ Unrecorded(due'[p]) = Unrecorded(pending[p]) + Unrecorded(due[p])
  <2>1. \A p \in Projects : pending'[p] = NoBracket /\ Unrecorded(NoBracket) = 0
    BY <1>3, BracketFacts
  <2>2. \A p \in Projects : Unrecorded(pending[p]) \in Nat /\ Unrecorded(due[p]) \in Nat
    BY <1>1, BracketFacts DEF Types, EntryTypes, ThreadTypes
  <2>3. CASE take_all
    <3>1. \A p \in Projects : due[p] = NoBracket
      BY <1>1, <2>3, BracketFacts DEF take_all, ControlInv
    <3>2. \A p \in Projects : Unrecorded(due'[p]) = Unrecorded(pending[p])
      <4> SUFFICES ASSUME NEW p \in Projects PROVE Unrecorded(due'[p]) = Unrecorded(pending[p])
        OBVIOUS
      <4>1. CASE Unrecorded(pending[p]) > 0
        BY <2>3, <4>1 DEF take_all
      <4>2. CASE ~(Unrecorded(pending[p]) > 0)
        <5>1. Unrecorded(pending[p]) = 0
          BY <2>2, <4>2
        <5> QED
          BY <2>1, <2>3, <4>2, <5>1 DEF take_all
      <4> QED
        BY <4>1, <4>2
    <3> QED
      BY <2>1, <2>2, <3>1, <3>2
  <2>4. CASE ThreadReturns
    <3>1. \A p \in Projects : pending[p] = NoBracket /\ due'[p] = due[p]
      BY <1>1, <2>4, BracketFacts DEF ThreadReturns, ControlInv, Over
    <3> QED
      BY <2>1, <2>2, <3>1
  <2> QED
    BY <2>3, <2>4
<1>5. Types'
  <2>1. EntryTypes' /\ ThreadTypes'
    BY <1>1, <1>2, <1>3, BracketFacts DEF Types, EntryTypes, ThreadTypes, Stages, Over
  <2> QED
    BY <1>1, <1>2, <2>1 DEF Types, WorkTypes, HistoryTypes
<1>6. ControlInv'
  <2>1. closing
    BY <1>1, <1>2 DEF ControlInv, Over
  <2> QED
    BY <1>1, <1>2, <1>3, <2>1 DEF ControlInv, Over
<1>7. RunningJobsAreBracketed'
  BY <1>2 DEF RunningJobsAreBracketed, Over
<1>8. EveryJobIsCoveredOnce'
  <2> SUFFICES ASSUME NEW p \in Projects
               PROVE  /\ reported[p] = covered[p] + Unrecorded(pending'[p]) + Unrecorded(due'[p])
                      /\ stage' = "exited" => covered[p] = reported[p]
    BY <1>2 DEF EveryJobIsCoveredOnce
  <2>1. reported[p] = covered[p] + Unrecorded(pending[p]) + Unrecorded(due[p])
    BY <1>1 DEF EveryJobIsCoveredOnce
  <2>2. /\ Unrecorded(pending[p]) \in Nat /\ Unrecorded(due[p]) \in Nat /\ covered[p] \in Nat
    BY <1>1, BracketFacts DEF Types, EntryTypes, ThreadTypes, HistoryTypes
  <2>3. stage' = "exited" => Unrecorded(due'[p]) = 0
    BY <1>3, BracketFacts
  <2> QED
    BY <1>4, <2>1, <2>2, <2>3
<1>9. SpacedInv'
  BY <1>1, <1>2 DEF SpacedInv
<1>10. TimelyInv'
  <2>1. stage' # "taking" /\ ~(0 > 0)
    BY <1>2 DEF Over
  <2> QED
    BY <1>4, <2>1 DEF TimelyInv
<1> QED
  BY <1>5, <1>6, <1>7, <1>8, <1>9, <1>10 DEF RefreshInv

(* Time passes.                                                            *)
LEMMA TickStep ==
  ASSUME RefreshInv, Tick
  PROVE  RefreshInv'
<1>1. /\ Types /\ ControlInv /\ RunningJobsAreBracketed /\ EveryJobIsCoveredOnce
      /\ SpacedInv /\ TimelyInv
  BY DEF RefreshInv
<1>2. /\ now' = now + 1
      /\ UNCHANGED <<queue, submitted, job, reporting, stopping, running, pending, last>>
      /\ UNCHANGED <<signalled, closing, stage, wake_at, queued, due, next>>
      /\ UNCHANGED <<reported, covered, ended_at, taken_at>>
  BY DEF Tick, work, entries, signals, thread, history
<1>3. now \in Nat /\ now' \in Nat
  BY <1>1, <1>2 DEF Types, EntryTypes
<1>4. Types'
  <2>1. EntryTypes'
    BY <1>1, <1>2, <1>3 DEF Types, EntryTypes
  <2> QED
    BY <1>1, <1>2, <2>1 DEF Types, WorkTypes, ThreadTypes, HistoryTypes
<1>5. ControlInv'
  BY <1>1, <1>2 DEF ControlInv
<1>6. RunningJobsAreBracketed' /\ EveryJobIsCoveredOnce'
  BY <1>1, <1>2 DEF RunningJobsAreBracketed, EveryJobIsCoveredOnce
<1>7. SpacedInv'
  <2>1. RebuildInterval \in Nat /\ Never \notin Nat
    BY RefreshAssumption
  <2>2. \A p \in Projects : taken_at[p] \in Nat \cup {Never}
    BY <1>1 DEF Types, HistoryTypes
  <2>3. \A t \in Nat : /\ t <= now => t <= now'
                       /\ now - t >= RebuildInterval => now' - t >= RebuildInterval
    BY <1>2, <1>3, <2>1
  <2> QED
    BY <1>1, <1>2, <2>1, <2>2, <2>3 DEF SpacedInv
<1>8. \A p \in Projects : Limit(p)' = Limit(p)
  BY <1>2 DEF Limit, Busy, InQueue
<1>9. ASSUME ~Slow, NEW p \in Projects, Unrecorded(pending'[p]) > 0
      PROVE  InTime(p)'
  <2>1. /\ stage = "waiting" /\ ~Told /\ ~closing /\ ~(now >= wake_at)
    BY <1>9 DEF Tick, Wakeable, Told
  <2>2. InTime(p) /\ Unrecorded(pending[p]) > 0
    BY <1>1, <1>2, <1>9 DEF TimelyInv
  <2>3. wake_at <= Limit(p) /\ wake_at \in Nat
    BY <1>1, <2>1, <2>2 DEF InTime, Types, ThreadTypes
  <2>4. Limit(p) \in Nat
    BY <1>1, <1>2, <2>2, LimitGrows DEF Busy, InQueue
  <2> DEFINE n == Limit(p)
             m == Limit(p)'
  <2>5. n \in Nat /\ m = n /\ wake_at <= n
    BY <1>8, <2>3, <2>4
  <2> HIDE DEF n, m
  <2>6. now' <= m /\ wake_at <= m
    BY <1>2, <1>3, <2>1, <2>3, <2>5
  <2> QED
    BY <1>2, <2>1, <2>6 DEF InTime, m
<1>10. TimelyInv'
  BY <1>1, <1>2, <1>9 DEF TimelyInv, Told, Busy, InQueue
<1> QED
  BY <1>4, <1>5, <1>6, <1>7, <1>10 DEF RefreshInv

(* What take_due does to one project.                                      *)
LEMMA TakeFacts ==
  ASSUME Types, take_due, NEW p \in Projects
  PROVE  /\ pending'[p] \in Bracket \cup {NoBracket}
         /\ due'[p] \in Bracket \cup {NoBracket}
         /\ Taken(p) => /\ pending'[p] = Reopened(p) /\ due'[p] = pending[p]
                        /\ last'[p] = now /\ taken_at'[p] = now
         /\ ~Taken(p) => /\ pending'[p] = pending[p] /\ due'[p] = NoBracket
                         /\ taken_at'[p] = taken_at[p]
                         /\ last'[p] = last[p] \/
                              /\ last'[p] = Never /\ pending[p] = NoBracket
                              /\ Rested(last[p])
<1> DEFINE kept(q) == IF Taken(q) THEN Reopened(q) ELSE pending[q]
           stamp(q) == IF Taken(q) THEN now ELSE last[q]
<1>1. /\ now \in Nat /\ pending[p] \in Bracket \cup {NoBracket}
  BY DEF Types, EntryTypes
<1>2. Reopened(p) \in Bracket \cup {NoBracket}
  BY <1>1, BracketFacts DEF Reopened
<1>3. /\ pending'[p] = kept(p)
      /\ due'[p] = IF Taken(p) THEN pending[p] ELSE NoBracket
      /\ taken_at'[p] = IF Taken(p) THEN now ELSE taken_at[p]
      /\ last'[p] = IF running[p] = 0 /\ kept(p) = NoBracket /\ Rested(stamp(p))
                    THEN Never ELSE stamp(p)
  BY DEF take_due
<1>4. ~Rested(now)
  <2>1. RebuildInterval \in Nat /\ RebuildInterval # 0 /\ Never \notin Nat
    BY RefreshAssumption
  <2>2. ~(now - now >= RebuildInterval)
    BY <1>1, <2>1
  <2> QED
    BY <1>1, <2>1, <2>2 DEF Rested
<1>5. CASE Taken(p)
  BY <1>1, <1>2, <1>3, <1>4, <1>5
<1>6. CASE ~Taken(p)
  BY <1>1, <1>3, <1>6
<1> QED
  BY <1>5, <1>6

(* When a project with finished jobs is due.                               *)
LEMMA DueFacts ==
  ASSUME Types, NEW p \in Projects, Unrecorded(pending[p]) > 0
  PROVE  /\ DueAt(p) \in Nat /\ Limit(p) \in Nat
         /\ LeftBehind(p) /\ (p \in queued => Busy(p)) => DueAt(p) <= Limit(p)
<1>1. /\ pending[p].opened \in Nat /\ last[p] \in Nat \cup {Never} /\ now \in Nat
      /\ RebuildInterval \in Nat /\ BusyRebuildInterval \in Nat
      /\ RebuildInterval <= BusyRebuildInterval
  <2>1. pending[p] \in Bracket
    BY BracketFacts DEF Types, EntryTypes
  <2> QED
    BY <2>1, BracketFacts, RefreshAssumption DEF Types, EntryTypes
<1>2. running[p] > 0 => Busy(p)
  BY DEF Busy
<1>3. CASE last[p] = Never
  <2>1. DueAt(p) \in Nat /\ Limit(p) \in Nat
    BY <1>1, <1>3 DEF DueAt, Limit
  <2>2. CASE running[p] > 0 \/ p \in queued
    <3>1. DueAt(p) = pending[p].opened + BusyRebuildInterval
      BY <1>3, <2>2 DEF DueAt
    <3>2. Busy(p) => Limit(p) = pending[p].opened + BusyRebuildInterval
      BY <1>3 DEF Limit
    <3> QED
      BY <1>1, <1>2, <2>1, <2>2, <3>1, <3>2
  <2>3. CASE ~(running[p] > 0 \/ p \in queued)
    <3>1. DueAt(p) = now
      BY <1>3, <2>3 DEF DueAt
    <3>2. ~(now < DueAt(p))
      BY <1>1, <3>1
    <3> QED
      BY <2>1, <3>2 DEF LeftBehind
  <2> QED
    BY <2>2, <2>3
<1>4. CASE last[p] # Never
  <2>1. last[p] \in Nat
    BY <1>1, <1>4
  <2>2. DueAt(p) \in Nat /\ Limit(p) \in Nat
    BY <1>1, <1>4, <2>1 DEF DueAt, Limit
  <2>3. (p \in queued => Busy(p)) => DueAt(p) <= Limit(p)
    BY <1>1, <1>2, <1>4, <2>1 DEF DueAt, Limit
  <2> QED
    BY <2>2, <2>3
<1> QED
  BY <1>3, <1>4

(* The next look is early enough for every project left behind.            *)
LEMMA NextLook ==
  ASSUME Types, take_due
  PROVE  /\ next' \in Nat \cup {Never}
         /\ \A p \in Projects : LeftBehind(p) => next' \in Nat /\ next' <= DueAt(p)
<1> DEFINE later == {DueAt(p) : p \in {q \in Projects : LeftBehind(q)}}
<1>1. next' = IF later = {} THEN Never ELSE Min(later)
  BY DEF take_due
<1>2. later \in SUBSET Nat
  BY DueFacts DEF LeftBehind
<1>3. \A p \in Projects : LeftBehind(p) => DueAt(p) \in later
  OBVIOUS
<1> HIDE DEF later
<1>4. CASE later = {}
  BY <1>1, <1>3, <1>4
<1>5. CASE later # {}
  <2>1. Min(later) \in later /\ \A y \in later : Min(later) <= y
    BY <1>2, <1>5, MinOfTimes
  <2> QED
    BY <1>1, <1>2, <1>3, <1>5, <2>1
<1> QED
  BY <1>4, <1>5

(* The thread takes what is due.                                           *)
LEMMA TakeStep ==
  ASSUME RefreshInv, take_due
  PROVE  RefreshInv'
<1>1. /\ Types /\ ControlInv /\ RunningJobsAreBracketed /\ EveryJobIsCoveredOnce
      /\ SpacedInv /\ TimelyInv
  BY DEF RefreshInv
<1>2. /\ stage = "taking" /\ stage' = "rebuilding"
      /\ UNCHANGED <<now, queue, submitted, job, reporting, stopping, running>>
      /\ UNCHANGED <<signalled, closing, wake_at, queued, reported, covered, ended_at>>
      /\ pending' = [p \in Projects |-> pending'[p]] /\ due' = [p \in Projects |-> due'[p]]
      /\ last' = [p \in Projects |-> last'[p]]
      /\ taken_at' = [p \in Projects |-> taken_at'[p]]
  BY DEF take_due, work, signals
<1>3. /\ now \in Nat /\ Never \notin Nat /\ running \in [Projects -> Nat]
      /\ \A p \in Projects : /\ pending[p] \in Bracket \cup {NoBracket}
                             /\ last[p] \in Nat \cup {Never}
                             /\ taken_at[p] \in Nat \cup {Never}
  BY <1>1, RefreshAssumption DEF Types, EntryTypes, HistoryTypes
<1>4. \A p \in Projects : /\ pending'[p] \in Bracket \cup {NoBracket}
                          /\ due'[p] \in Bracket \cup {NoBracket}
                          /\ last'[p] \in Nat \cup {Never}
                          /\ taken_at'[p] \in Nat \cup {Never}
  BY <1>1, <1>3, TakeFacts
<1>5. next' \in Nat \cup {Never}
  BY <1>1, NextLook
<1>6. Types'
  <2>1. /\ pending' \in [Projects -> Bracket \cup {NoBracket}]
        /\ due' \in [Projects -> Bracket \cup {NoBracket}]
        /\ last' \in [Projects -> Nat \cup {Never}]
        /\ taken_at' \in [Projects -> Nat \cup {Never}]
    BY <1>2, <1>4
  <2>2. EntryTypes' /\ ThreadTypes'
    BY <1>1, <1>2, <1>5, <2>1 DEF Types, EntryTypes, ThreadTypes, Stages
  <2> QED
    BY <1>1, <1>2, <2>1, <2>2 DEF Types, WorkTypes, HistoryTypes
<1>7. ControlInv'
  BY <1>1, <1>2 DEF ControlInv, Over
<1>8. RunningJobsAreBracketed'
  <2> SUFFICES ASSUME NEW p \in Projects
               PROVE  /\ running[p] = Cardinality({w \in Workers : job[w] = p})
                      /\ running[p] > 0 => pending'[p] # NoBracket
    BY <1>2 DEF RunningJobsAreBracketed
  <2>1. /\ running[p] = Cardinality({w \in Workers : job[w] = p})
        /\ running[p] > 0 => pending[p] # NoBracket
    BY <1>1, <1>2 DEF RunningJobsAreBracketed
  <2>2. running[p] > 0 => Reopened(p) # NoBracket
    BY <1>3, BracketFacts DEF Reopened
  <2> QED
    BY <1>1, <2>1, <2>2, TakeFacts
<1>9. \A p \in Projects : Taken(p) => Unrecorded(pending'[p]) = 0
  BY <1>1, <1>3, TakeFacts, BracketFacts DEF Reopened
<1>10. EveryJobIsCoveredOnce'
  <2> SUFFICES ASSUME NEW p \in Projects
               PROVE  reported[p] = covered[p] + Unrecorded(pending'[p]) + Unrecorded(due'[p])
    BY <1>2 DEF EveryJobIsCoveredOnce
  <2>1. /\ reported[p] = covered[p] + Unrecorded(pending[p]) + Unrecorded(due[p])
    BY <1>1 DEF EveryJobIsCoveredOnce
  <2>2. due[p] = NoBracket
    BY <1>1, <1>2, BracketFacts DEF ControlInv
  <2>3. Unrecorded(pending[p]) \in Nat /\ covered[p] \in Nat /\ Unrecorded(NoBracket) = 0
    BY <1>1, <1>3, BracketFacts DEF Types, HistoryTypes
  <2>4. CASE Taken(p)
    <3>1. Unrecorded(pending'[p]) = 0 /\ due'[p] = pending[p]
      BY <1>1, <1>9, <2>4, TakeFacts
    <3> QED
      BY <2>1, <2>2, <2>3, <3>1
  <2>5. CASE ~Taken(p)
    <3>1. pending'[p] = pending[p] /\ due'[p] = NoBracket
      BY <1>1, <2>5, TakeFacts
    <3> QED
      BY <2>1, <2>2, <2>3, <3>1
  <2> QED
    BY <2>4, <2>5
<1>11. SpacedInv'
  <2> SUFFICES ASSUME NEW p \in Projects
               PROVE  /\ taken_at'[p] # Never => taken_at'[p] <= now
                      /\ last'[p] # Never => last'[p] = taken_at'[p]
                      /\ last'[p] = Never /\ taken_at'[p] # Never =>
                           /\ now - taken_at'[p] >= RebuildInterval
                           /\ pending'[p] # NoBracket => pending'[p].opened >= taken_at'[p]
    BY <1>2 DEF SpacedInv
  <2>1. CASE Taken(p)
    <3>1. last'[p] = now /\ taken_at'[p] = now /\ now # Never /\ now <= now
      BY <1>1, <1>3, <2>1, TakeFacts
    <3> QED
      BY <3>1
  <2>2. CASE ~Taken(p)
    <3>1. /\ taken_at[p] # Never => taken_at[p] <= now
          /\ last[p] # Never => last[p] = taken_at[p]
          /\ last[p] = Never /\ taken_at[p] # Never =>
               /\ now - taken_at[p] >= RebuildInterval
               /\ pending[p] # NoBracket => pending[p].opened >= taken_at[p]
      BY <1>1, <1>2 DEF SpacedInv, Over
    <3>2. /\ pending'[p] = pending[p] /\ taken_at'[p] = taken_at[p]
          /\ \/ last'[p] = last[p]
             \/ last'[p] = Never /\ pending[p] = NoBracket /\ Rested(last[p])
      BY <1>1, <2>2, TakeFacts
    <3>3. CASE last'[p] = last[p]
      BY <3>1, <3>2, <3>3
    <3>4. CASE last'[p] = Never /\ pending[p] = NoBracket /\ Rested(last[p])
      BY <3>1, <3>2, <3>4 DEF Rested
    <3> QED
      BY <3>2, <3>3, <3>4
  <2> QED
    BY <2>1, <2>2
<1>12. ASSUME ~Slow, NEW p \in Projects, Unrecorded(pending'[p]) > 0
       PROVE  InTime(p)'
  <2>1. ~Taken(p)
    <3>1. ~(0 > 0)
      OBVIOUS
    <3> QED
      BY <1>9, <1>12, <3>1
  <2>2. pending'[p] = pending[p] /\ Unrecorded(pending[p]) > 0
    BY <1>1, <1>12, <2>1, TakeFacts
  <2>3. pending[p] # NoBracket
    <3>1. ~(0 > 0)
      OBVIOUS
    <3> QED
      BY <2>2, <3>1, BracketFacts
  <2>4. last'[p] = last[p]
    BY <1>1, <2>1, <2>3, TakeFacts
  <2>5. Limit(p)' = Limit(p)
    BY <1>2, <2>2, <2>4 DEF Limit, Busy, InQueue
  <2>6. DueAt(p) \in Nat /\ Limit(p) \in Nat
    BY <1>1, <2>2, DueFacts
  <2>7. LeftBehind(p)
    BY <1>3, <2>1, <2>2, <2>6 DEF Taken, LeftBehind
  <2>8. next' \in Nat /\ next' <= DueAt(p)
    BY <1>1, <2>7, NextLook
  <2>9. now <= Limit(p) \/ now = ended_at[p]
    BY <1>1, <1>12, <2>2 DEF TimelyInv, InTime
  <2>10. Told' \/ next' <= Limit(p)
    <3>1. Told' <=> Told
      BY <1>2 DEF Told
    <3>2. ASSUME ~Told PROVE next' <= Limit(p)
      <4>1. p \in queued => Busy(p)
        BY <1>1, <1>2, <3>2 DEF TimelyInv
      <4>2. DueAt(p) <= Limit(p)
        BY <1>1, <2>2, <2>7, <4>1, DueFacts
      <4> DEFINE a == DueAt(p)
                 b == Limit(p)
      <4>3. a \in Nat /\ b \in Nat /\ a <= b /\ next' <= a
        BY <2>6, <2>8, <4>2
      <4> HIDE DEF a, b
      <4>4. next' <= b
        BY <2>8, <4>3
      <4> QED
        BY <4>4 DEF b
    <3> QED
      BY <3>1, <3>2
  <2>11. next' # Never
    BY <1>3, <2>8
  <2> QED
    BY <1>2, <2>5, <2>9, <2>10, <2>11 DEF InTime
<1>13. TimelyInv'
  BY <1>2, <1>12 DEF TimelyInv
<1> QED
  BY <1>6, <1>7, <1>8, <1>10, <1>11, <1>13 DEF RefreshInv

-----------------------------------------------------------------------------
(* The theorems.                                                           *)

(* The initial state.                                                      *)
LEMMA InitRefresh == Init => RefreshInv
<1> SUFFICES ASSUME Init PROVE RefreshInv
  OBVIOUS
<1>1. RebuildInterval \in Nat /\ IsFiniteSet(Workers) /\ NoProject \notin Projects
  BY RefreshAssumption
<1>2. Types
  <2>1. queue \in Seq(Projects)
    BY DEF Init
  <2>2. WorkTypes
    BY <2>1 DEF Init, WorkTypes
  <2> QED
    BY <1>1, <2>2, BracketFacts DEF Init, Types, EntryTypes, ThreadTypes, HistoryTypes, Stages
<1>3. ControlInv
  BY DEF Init, ControlInv, Over
<1>4. \A p \in Projects : /\ pending[p] = NoBracket /\ Unrecorded(pending[p]) = 0
                          /\ Unrecorded(due[p]) = 0
  BY BracketFacts DEF Init
<1>5. ~(0 > 0) /\ 0 = 0 + 0 + 0
  OBVIOUS
<1>6. RunningJobsAreBracketed
  <2> SUFFICES ASSUME NEW p \in Projects
               PROVE  /\ running[p] = Cardinality({w \in Workers : job[w] = p})
                      /\ ~(running[p] > 0)
    BY DEF RunningJobsAreBracketed
  <2>1. {w \in Workers : job[w] = p} = {}
    BY <1>1 DEF Init
  <2>2. Cardinality({w \in Workers : job[w] = p}) = 0
    BY <2>1, FS_EmptySet
  <2> QED
    BY <1>5, <2>2 DEF Init
<1>7. EveryJobIsCoveredOnce
  BY <1>4, <1>5 DEF Init, EveryJobIsCoveredOnce
<1>8. SpacedInv
  BY DEF Init, SpacedInv
<1>9. TimelyInv
  BY <1>4, <1>5 DEF Init, TimelyInv
<1> QED
  BY <1>2, <1>3, <1>6, <1>7, <1>8, <1>9 DEF RefreshInv

(* Every step keeps the invariant.                                         *)
LEMMA NextRefresh == RefreshInv /\ [Next]_vars => RefreshInv'
<1> SUFFICES ASSUME RefreshInv, [Next]_vars PROVE RefreshInv'
  OBVIOUS
<1>1. ASSUME NEW p \in Projects, Submit(p) PROVE RefreshInv'
  BY <1>1, SubmitStep
<1>2. ASSUME NEW w \in Workers, WorkerThread(w) PROVE RefreshInv'
  BY <1>2, StartStep, FinishStep, SignalStep DEF WorkerThread
<1>3. CASE Stop \/ StopRefresher
  BY <1>3, SignalStep
<1>4. CASE RefreshThread
  BY <1>4, LookStep, TakeStep, DoneStep, DrainStep, RebuildStep DEF RefreshThread
<1>5. CASE Tick
  BY <1>5, TickStep
<1>6. CASE UNCHANGED vars
  BY <1>6 DEF vars, work, entries, signals, thread, history, RefreshInv, Types, WorkTypes,
     EntryTypes, ThreadTypes, HistoryTypes, ControlInv, RunningJobsAreBracketed,
     EveryJobIsCoveredOnce, SpacedInv, TimelyInv, InTime, Told, Limit, Busy, InQueue
<1> QED
  BY <1>1, <1>2, <1>3, <1>4, <1>5, <1>6 DEF Next

(* The inductive invariant holds in every behaviour.                       *)
THEOREM RefreshInvariant == Spec => []RefreshInv
  BY InitRefresh, NextRefresh, PTL DEF Spec

(* Every variable keeps its type.                                          *)
THEOREM RefreshTypes == Spec => []TypeOK
<1>1. RefreshInv => TypeOK
  BY DEF RefreshInv, Types, WorkTypes, EntryTypes, ThreadTypes, HistoryTypes, TypeOK
<1> QED
  BY <1>1, RefreshInvariant, PTL

(* results_refresh.rs, "running > 0 implies pending.is_some()": the count  *)
(* of running jobs is exact and a running job always has an open bracket.  *)
THEOREM Bracketed == Spec => []RunningJobsAreBracketed
<1>1. RefreshInv => RunningJobsAreBracketed
  BY DEF RefreshInv
<1> QED
  BY <1>1, RefreshInvariant, PTL

(* Every finished job is waiting, held or rebuilt, exactly once; when the  *)
(* thread has returned, every one was rebuilt.                             *)
THEOREM CoveredOnce == Spec => []EveryJobIsCoveredOnce
<1>1. RefreshInv => EveryJobIsCoveredOnce
  BY DEF RefreshInv
<1> QED
  BY <1>1, RefreshInvariant, PTL

(* take_due, refresh_wait and wait_for_work: a finished job's rebuild is   *)
(* taken within the interval of its project.                               *)
THEOREM InTimely == Spec => []RebuildsAreInTime
<1>1. RefreshInv => RebuildsAreInTime
  BY DEF RefreshInv, TimelyInv, InTime, Limit, Busy, InQueue, RebuildsAreInTime
<1> QED
  BY <1>1, RefreshInvariant, PTL

(* take_due and idle_rested: two takes of a project are an interval apart, *)
(* also when the project was forgotten in between.                         *)
THEOREM Spaced == Spec => RebuildsAreSpaced
<1> DEFINE Apart(p) ==
      (taken_at'[p] # taken_at[p] /\ taken_at[p] # Never) =>
        /\ taken_at'[p] - taken_at[p] >= RebuildInterval
        /\ running[p] > 0 => taken_at'[p] - taken_at[p] >= BusyRebuildInterval
<1>1. ASSUME RefreshInv, [Next]_vars, NEW p \in Projects
      PROVE  Apart(p)
  <2>1. CASE UNCHANGED taken_at
    BY <2>1
  <2>2. CASE take_due
    <3>1. Types /\ SpacedInv /\ RunningJobsAreBracketed /\ stage = "taking"
      BY <1>1, <2>2 DEF RefreshInv, take_due
    <3>2. /\ RebuildInterval \in Nat /\ BusyRebuildInterval \in Nat /\ Never \notin Nat
          /\ RebuildInterval <= BusyRebuildInterval
      BY RefreshAssumption
    <3>3. /\ now \in Nat /\ last[p] \in Nat \cup {Never} /\ taken_at[p] \in Nat \cup {Never}
      BY <3>1 DEF Types, EntryTypes, HistoryTypes
    <3>4. CASE ~Taken(p)
      BY <2>2, <3>1, <3>4, TakeFacts
    <3>5. CASE Taken(p) /\ taken_at[p] # Never
      <4>1. taken_at'[p] = now /\ taken_at[p] \in Nat
        BY <2>2, <3>1, <3>3, <3>5, TakeFacts
      <4>2. /\ Unrecorded(pending[p]) > 0 /\ now >= DueAt(p)
        BY <3>5 DEF Taken
      <4>3. pending[p] \in Bracket /\ pending[p].opened \in Nat /\ pending[p] # NoBracket
        BY <3>1, <4>2, BracketFacts DEF Types, EntryTypes
      <4>4. CASE last[p] = Never
        <5>1. /\ now - taken_at[p] >= RebuildInterval
              /\ pending[p].opened >= taken_at[p]
          BY <3>1, <3>5, <4>3, <4>4 DEF SpacedInv, Over
        <5>2. ASSUME running[p] > 0
              PROVE  now - taken_at[p] >= BusyRebuildInterval
          <6>1. DueAt(p) = pending[p].opened + BusyRebuildInterval
            BY <4>4, <5>2 DEF DueAt
          <6> QED
            BY <3>2, <3>3, <4>1, <4>2, <4>3, <5>1, <6>1
        <5> QED
          BY <4>1, <5>1, <5>2
      <4>5. CASE last[p] # Never
        <5>1. last[p] = taken_at[p]
          BY <3>1, <4>5 DEF SpacedInv, Over
        <5>2. DueAt(p) = IF running[p] > 0 \/ p \in queued
                         THEN taken_at[p] + BusyRebuildInterval
                         ELSE taken_at[p] + RebuildInterval
          BY <4>5, <5>1 DEF DueAt
        <5>3. DueAt(p) >= taken_at[p] + RebuildInterval
          BY <3>2, <4>1, <5>2
        <5>4. running[p] > 0 => DueAt(p) = taken_at[p] + BusyRebuildInterval
          BY <5>2
        <5>5. DueAt(p) \in Nat
          BY <3>2, <4>1, <5>2
        <5> QED
          BY <3>2, <3>3, <4>1, <4>2, <5>3, <5>4, <5>5
      <4> QED
        BY <4>4, <4>5
    <3> QED
      BY <3>4, <3>5
  <2> QED
    BY <1>1, <2>1, <2>2 DEF Next, WorkerThread, RefreshThread, Submit, job_started, Signal,
       job_finished, Stop, StopRefresher, wait_for_work, has_pending, ReadQueue, Rebuild,
       RebuildsDone, take_all, ThreadReturns, Tick, history, vars
<1>2. RefreshInv /\ [Next]_vars => [\A p \in Projects : Apart(p)]_vars
  BY <1>1
<1>3. Spec => [][\A p \in Projects : Apart(p)]_vars
  BY <1>2, RefreshInvariant, PTL DEF Spec
<1> QED
  BY <1>3 DEF RebuildsAreSpaced
=============================================================================
