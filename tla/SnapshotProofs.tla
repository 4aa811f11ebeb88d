---------------------------- MODULE SnapshotProofs ----------------------------
(***************************************************************************)
(* The byte limits of the scheduler's history: what it writes it can read  *)
(* again, for all limits, sizes and numbers of jobs.                       *)
(*                                                                         *)
(* The sum of the sizes is a recursive function.  What it computes is      *)
(* proved by the least counterexample: a set of naturals that is not empty *)
(* has a first element, and the step before that one contradicts it.       *)
(***************************************************************************)
EXTENDS SchedulerProofs, SequenceTheorems, WellFoundedInduction

(* The rows of a history, each grown to its longest state, fit the limits. *)
Affordable(rows) ==
  /\ Total(Reserves(rows)) <= MaxSnapshotBytes
  /\ \A i \in DOMAIN Reserves(rows) : Reserves(rows)[i] <= MaxJobBytes

(* Memory, file and durable snapshot are affordable, and the reservation   *)
(* is what the rows in memory can grow to.                                 *)
BytesInv ==
  /\ Affordable(seen) /\ Affordable(disk) /\ Affordable(synced)
  /\ reserved = Total(Reserves(seen))

-----------------------------------------------------------------------------
(* Sums.                                                                   *)

(* Functions on 1 .. n are sequences of n elements.                        *)
LEMMA FunctionAsSeq ==
  ASSUME NEW S, NEW n \in Nat, NEW f \in [1 .. n -> S]
  PROVE  f \in Seq(S) /\ Len(f) = n
  OBVIOUS

(* The elements of a sequence with one more.                               *)
LEMMA AppendedElements ==
  ASSUME NEW S, NEW s \in Seq(S), NEW x \in S
  PROVE  /\ Append(s, x) \in Seq(S)
         /\ DOMAIN Append(s, x) = 1 .. (Len(s) + 1)
         /\ \A i \in 1 .. (Len(s) + 1) : Append(s, x)[i] = IF i = Len(s) + 1 THEN x ELSE s[i]
<1>1. /\ Append(s, x) \in Seq(S) /\ Len(Append(s, x)) = Len(s) + 1
      /\ \A i \in 1 .. Len(s) : Append(s, x)[i] = s[i]
      /\ Append(s, x)[Len(s) + 1] = x
  BY AppendProperties
<1>2. DOMAIN Append(s, x) = 1 .. (Len(s) + 1)
  BY <1>1, LenProperties
<1>3. Len(s) \in Nat
  BY LenProperties
<1>4. \A i \in 1 .. (Len(s) + 1) : i # Len(s) + 1 => i \in 1 .. Len(s)
  BY <1>3
<1> QED
  BY <1>1, <1>2, <1>4

(* A set of naturals that is not empty has a first element.                *)
LEMMA FirstOf ==
  ASSUME NEW S \in SUBSET Nat, S # {}
  PROVE  \E x \in S : \A y \in S : x <= y
<1>1. PICK x \in S : \A y \in S : ~(<<y, x>> \in OpToRel(<, Nat))
  BY WFMin, NatLessThanWellFounded
<1>2. \A y \in S : ~(y < x)
  BY <1>1 DEF OpToRel
<1>3. \A y \in S : x <= y
  BY <1>2
<1> QED
  BY <1>3

(* A sequence of numbers, as a function on its positions.                  *)
LEMMA SizesAreNumbers ==
  ASSUME NEW s \in Seq(Nat)
  PROVE  Len(s) \in Nat /\ DOMAIN s = 1 .. Len(s) /\ \A k \in 1 .. Len(s) : s[k] \in Nat
  BY ElementOfSeq, LenProperties

(* The partial sums of the first n numbers exist.                          *)
LEMMA SumsExist ==
  ASSUME NEW n \in Nat, NEW s, \A k \in 1 .. n : s[k] \in Nat
  PROVE  \E f \in [0 .. n -> Nat] :
           f = [k \in 0 .. n |-> IF k = 0 THEN 0 ELSE f[k - 1] + s[k]]
<1> DEFINE Sum(m, f) == /\ f \in [0 .. m -> Nat] /\ f[0] = 0
                        /\ \A k \in 1 .. m : f[k] = f[k - 1] + s[k]
           T == {m \in 0 .. n : ~\E f : Sum(m, f)}
<1>1. T = {}
  <2> SUFFICES ASSUME T # {} PROVE FALSE
    OBVIOUS
  <2>1. T \in SUBSET Nat
    OBVIOUS
  <2>2. PICK m \in T : \A y \in T : m <= y
    BY <2>1, FirstOf
  <2>3. m \in 0 .. n /\ ~\E f : Sum(m, f)
    OBVIOUS
  <2>4. CASE m = 0
    <3>1. Sum(0, [k \in 0 .. 0 |-> 0])
      OBVIOUS
    <3> QED
      BY <2>3, <2>4, <3>1
  <2>5. CASE m # 0
    <3>1. m - 1 \in 0 .. n /\ ~(m <= m - 1)
      BY <2>3, <2>5
    <3>b. m - 1 \notin T
      <4> HIDE DEF T
      <4> QED
        BY <2>2, <3>1
    <3>2. PICK g : Sum(m - 1, g)
      <4> HIDE DEF Sum
      <4> QED
        BY <3>1, <3>b
    <3> DEFINE f == [k \in 0 .. m |-> IF k = m THEN g[m - 1] + s[m] ELSE g[k]]
    <3>3. \A k \in 0 .. m : k # m => k \in 0 .. (m - 1) /\ f[k] = g[k]
      BY <2>3
    <3>4. m - 1 \in 0 .. m /\ m \in 1 .. n /\ f[m] = g[m - 1] + s[m] /\ f[m - 1] = g[m - 1]
      BY <2>3, <2>5
    <3>5. g[m - 1] + s[m] \in Nat
      BY <3>2, <3>4
    <3>6. f \in [0 .. m -> Nat]
      BY <3>2, <3>3, <3>5
    <3>7. f[0] = 0
      BY <2>3, <2>5, <3>2, <3>3
    <3> HIDE DEF f
    <3>8. \A k \in 1 .. m : f[k] = f[k - 1] + s[k]
      <4> SUFFICES ASSUME NEW k \in 1 .. m PROVE f[k] = f[k - 1] + s[k]
        OBVIOUS
      <4>1. CASE k = m
        BY <3>4, <4>1
      <4>2. CASE k # m
        <5>1. k \in 1 .. (m - 1) /\ k \in 0 .. m /\ k - 1 \in 0 .. m /\ k - 1 # m
          BY <2>3, <4>2
        <5> QED
          BY <3>2, <3>3, <4>2, <5>1
      <4> QED
        BY <4>1, <4>2
    <3> QED
      BY <2>3, <3>6, <3>7, <3>8
  <2> QED
    BY <2>4, <2>5
<1>2. PICK f : Sum(n, f)
  <2>1. n \in 0 .. n
    OBVIOUS
  <2> HIDE DEF Sum
  <2> QED
    BY <1>1, <2>1
<1>3. f = [k \in 0 .. n |-> f[k]]
  BY <1>2
<1>4. \A k \in 0 .. n : k # 0 => k \in 1 .. n
  OBVIOUS
<1>5. \A k \in 0 .. n : f[k] = IF k = 0 THEN 0 ELSE f[k - 1] + s[k]
  BY <1>2, <1>4
<1>6. f = [k \in 0 .. n |-> IF k = 0 THEN 0 ELSE f[k - 1] + s[k]]
  BY <1>3, <1>5
<1> QED
  BY <1>2, <1>6

(* The recursive definition has the values it is read as having.           *)
LEMMA SumsDefined ==
  ASSUME NEW s \in Seq(Nat)
  PROVE  /\ Sums(s) \in [0 .. Len(s) -> Nat] /\ Sums(s)[0] = 0
         /\ \A k \in 1 .. Len(s) : Sums(s)[k] = Sums(s)[k - 1] + s[k]
<1> DEFINE n == Len(s)
           G(g) == [k \in 0 .. n |-> IF k = 0 THEN 0 ELSE g[k - 1] + s[k]]
           Sum(f) == f \in [0 .. n -> Nat] /\ f = G(f)
<1>1. n \in Nat /\ \A k \in 1 .. n : s[k] \in Nat
  BY SizesAreNumbers
<1>2. Sums(s) = CHOOSE g : g = G(g)
  BY DEF Sums
<1> HIDE DEF n
<1>3. \E f : f = G(f)
  <2>1. PICK f \in [0 .. n -> Nat] :
          f = [k \in 0 .. n |-> IF k = 0 THEN 0 ELSE f[k - 1] + s[k]]
    BY <1>1, SumsExist
  <2>2. f = G(f)
    BY <2>1
  <2> HIDE DEF G
  <2> QED
    BY <2>2
<1> DEFINE h == Sums(s)
<1>4. h = G(h)
  <2> HIDE DEF G
  <2> QED
    BY <1>2, <1>3
<1> HIDE DEF h
<1>5. /\ h[0] = 0 /\ \A k \in 1 .. n : h[k] = h[k - 1] + s[k]
  BY <1>1, <1>4
<1>6. h = [k \in 0 .. n |-> h[k]]
  BY <1>4
<1> DEFINE T == {m \in 0 .. n : h[m] \notin Nat}
<1>7. T = {}
  <2> SUFFICES ASSUME T # {} PROVE FALSE
    OBVIOUS
  <2>1. T \in SUBSET Nat
    OBVIOUS
  <2>2. PICK m \in T : \A y \in T : m <= y
    BY <2>1, FirstOf
  <2>3. m \in 0 .. n /\ h[m] \notin Nat
    OBVIOUS
  <2>4. m # 0
    BY <1>5, <2>3
  <2>5. m \in 1 .. n /\ m - 1 \in 0 .. n /\ m - 1 \notin T
    BY <1>1, <2>2, <2>3, <2>4
  <2>6. h[m] = h[m - 1] + s[m] /\ h[m - 1] \in Nat /\ s[m] \in Nat
    BY <1>1, <1>5, <2>5
  <2> QED
    BY <2>3, <2>6
<1>8. h \in [0 .. n -> Nat]
  BY <1>6, <1>7
<1> QED
  BY <1>5, <1>8 DEF h, n

(* Smaller numbers have smaller sums.                                      *)
LEMMA SumsAtMost ==
  ASSUME NEW s \in Seq(Nat), NEW t \in Seq(Nat), NEW n \in Nat,
         n <= Len(s), n <= Len(t), \A k \in 1 .. n : s[k] <= t[k]
  PROVE  Sums(s)[n] <= Sums(t)[n]
<1> DEFINE a == Sums(s)
           b == Sums(t)
           ls == Len(s)
           lt == Len(t)
<1>1. /\ ls \in Nat /\ lt \in Nat /\ n <= ls /\ n <= lt
      /\ \A k \in 1 .. ls : s[k] \in Nat
      /\ \A k \in 1 .. lt : t[k] \in Nat
  BY SizesAreNumbers
<1>2. /\ a \in [0 .. ls -> Nat] /\ a[0] = 0 /\ \A k \in 1 .. ls : a[k] = a[k - 1] + s[k]
      /\ b \in [0 .. lt -> Nat] /\ b[0] = 0 /\ \A k \in 1 .. lt : b[k] = b[k - 1] + t[k]
  BY SumsDefined
<1> HIDE DEF a, b, ls, lt
<1> DEFINE T == {m \in 0 .. n : ~(a[m] <= b[m])}
<1>3. T = {}
  <2> SUFFICES ASSUME T # {} PROVE FALSE
    OBVIOUS
  <2>1. T \in SUBSET Nat
    OBVIOUS
  <2>2. PICK m \in T : \A y \in T : m <= y
    BY <2>1, FirstOf
  <2>3. m \in 0 .. n /\ ~(a[m] <= b[m])
    OBVIOUS
  <2>4. m # 0
    BY <1>2, <2>3
  <2>5. m \in 1 .. n /\ m - 1 \in 0 .. n /\ m - 1 \notin T
    BY <2>2, <2>3, <2>4
  <2>6. m \in 1 .. ls /\ m \in 1 .. lt /\ m - 1 \in 0 .. ls /\ m - 1 \in 0 .. lt
    BY <1>1, <2>5
  <2>7. /\ a[m] = a[m - 1] + s[m] /\ b[m] = b[m - 1] + t[m] /\ a[m - 1] <= b[m - 1]
        /\ s[m] <= t[m]
    BY <1>2, <2>5, <2>6
  <2>8. a[m - 1] \in Nat /\ b[m - 1] \in Nat /\ s[m] \in Nat /\ t[m] \in Nat
    BY <1>1, <1>2, <2>6
  <2>9. \A p, q, u, v \in Nat : p <= q /\ u <= v => p + u <= q + v
    OBVIOUS
  <2>10. a[m] <= b[m]
    BY <2>7, <2>8, <2>9
  <2> QED
    BY <2>3, <2>10
<1>4. n \in 0 .. n
  OBVIOUS
<1>5. a[n] <= b[n]
  BY <1>3, <1>4
<1> QED
  BY <1>5 DEF a, b

(* The total is a number, no less than that of smaller numbers.            *)
LEMMA TotalAtMost ==
  ASSUME NEW s \in Seq(Nat), NEW t \in Seq(Nat), Len(s) = Len(t),
         \A k \in 1 .. Len(s) : s[k] <= t[k]
  PROVE  Total(s) \in Nat /\ Total(t) \in Nat /\ Total(s) <= Total(t)
<1> DEFINE n == Len(s)
<1>1. n \in Nat /\ n = Len(t) /\ n \in 0 .. n /\ n <= n
  BY SizesAreNumbers
<1>2. Sums(s) \in [0 .. n -> Nat] /\ Sums(t) \in [0 .. n -> Nat]
  BY <1>1, SumsDefined
<1>3. Sums(s)[n] <= Sums(t)[n]
  BY <1>1, SumsAtMost
<1> QED
  BY <1>1, <1>2, <1>3 DEF Total

(* One more number.                                                        *)
LEMMA TotalAppend ==
  ASSUME NEW s \in Seq(Nat), NEW x \in Nat
  PROVE  Total(Append(s, x)) = Total(s) + x
<1> DEFINE t == Append(s, x)
           n == Len(s)
<1>1. t \in Seq(Nat) /\ Len(t) = n + 1 /\ t[n + 1] = x /\ \A k \in 1 .. n : t[k] = s[k]
  BY AppendProperties
<1>2. n \in Nat /\ n <= n /\ n <= n + 1 /\ n + 1 \in 1 .. (n + 1) /\ (n + 1) - 1 = n
      /\ \A k \in 1 .. n : s[k] \in Nat
  BY SizesAreNumbers
<1> DEFINE m == Len(t)
<1>a. m = n + 1
  BY <1>1
<1> HIDE DEF t, m
<1>3. \A k \in 1 .. n : s[k] <= t[k] /\ t[k] <= s[k]
  BY <1>1, <1>2
<1>4. Sums(s)[n] <= Sums(t)[n] /\ Sums(t)[n] <= Sums(s)[n]
  BY <1>1, <1>2, <1>3, SumsAtMost
<1>5. Sums(t)[n + 1] = Sums(t)[n] + x
  BY <1>1, <1>2, SumsDefined
<1>6. Sums(s)[n] \in Nat /\ Sums(t)[n] \in Nat
  <2>1. Sums(s) \in [0 .. n -> Nat] /\ Sums(t) \in [0 .. n + 1 -> Nat]
    BY <1>1, SumsDefined
  <2> QED
    BY <1>2, <2>1
<1>7. Sums(s)[n] = Sums(t)[n]
  <2> DEFINE a == Sums(s)[n]
             b == Sums(t)[n]
  <2>1. a \in Nat /\ b \in Nat /\ a <= b /\ b <= a
    BY <1>4, <1>6
  <2> HIDE DEF a, b
  <2>2. a = b
    BY <2>1
  <2> QED
    BY <2>2 DEF a, b
<1> QED
  BY <1>1, <1>5, <1>7 DEF Total, t

(* Nothing takes no bytes.                                                 *)
LEMMA TotalEmpty == Total(<<>>) = 0
<1>1. <<>> \in Seq(Nat) /\ Len(<<>>) = 0
  OBVIOUS
<1>2. Sums(<<>>)[0] = 0
  BY <1>1, SumsDefined
<1> QED
  BY <1>1, <1>2 DEF Total

-----------------------------------------------------------------------------
(* Rows and their reservations.                                            *)

(* A row's bytes and the longest line it may become.                       *)
LEMMA JobSizes ==
  ASSUME NEW job \in FuzzJob
  PROVE  /\ JobBytes(job) \in Nat /\ reserved_job_bytes(job) \in Nat
         /\ JobBytes(job) <= reserved_job_bytes(job)
         /\ \A state : reserved_job_bytes([job EXCEPT !.state = state]) = reserved_job_bytes(job)
         /\ reserved_job_bytes(Requeued(job)) = reserved_job_bytes(job)
<1>1. job.bytes \in Nat
  BY ConstantsAssumption DEF FuzzJob
<1>2. /\ StateBytes("complete") = 8 /\ StateBytes(job.state) \in {6, 7, 8}
  BY DEF StateBytes
<1>3. \A state : [job EXCEPT !.state = state].bytes = job.bytes
  BY DEF FuzzJob
<1>4. Requeued(job).bytes = job.bytes
  BY <1>3 DEF Requeued
<1> QED
  BY <1>1, <1>2, <1>3, <1>4 DEF JobBytes, reserved_job_bytes

(* The reservations of a history, and of one with another row.             *)
LEMMA ReservesFacts ==
  ASSUME NEW rows \in Seq(FuzzJob)
  PROVE  /\ Reserves(rows) \in Seq(Nat) /\ Len(Reserves(rows)) = Len(rows)
         /\ Total(Reserves(rows)) \in Nat
         /\ \A job \in FuzzJob :
              Reserves(Append(rows, job)) = Append(Reserves(rows), reserved_job_bytes(job))
         /\ \A id, state : Reserves(WithState(rows, id, state)) = Reserves(rows)
<1> DEFINE n == Len(rows)
<1>1. n \in Nat /\ DOMAIN rows = 1 .. n /\ \A i \in 1 .. n : rows[i] \in FuzzJob
  BY ElementOfSeq, LenProperties
<1>2. Reserves(rows) = [i \in 1 .. n |-> reserved_job_bytes(rows[i])]
  BY <1>1 DEF Reserves
<1>3. \A i \in 1 .. n : reserved_job_bytes(rows[i]) \in Nat
  BY <1>1, JobSizes
<1>4. Reserves(rows) \in Seq(Nat) /\ Len(Reserves(rows)) = n
  <2>1. Reserves(rows) \in [1 .. n -> Nat]
    BY <1>2, <1>3
  <2> HIDE DEF n
  <2> QED
    BY <1>1, <2>1, FunctionAsSeq
<1>5. Total(Reserves(rows)) \in Nat
  <2> DEFINE r == Reserves(rows)
  <2>1. \A k \in 1 .. Len(r) : r[k] \in Nat
    BY <1>4, SizesAreNumbers
  <2>2. \A x \in Nat : x <= x
    OBVIOUS
  <2> QED
    BY <1>4, <2>1, <2>2, TotalAtMost
<1>6. ASSUME NEW job \in FuzzJob
      PROVE  Reserves(Append(rows, job)) = Append(Reserves(rows), reserved_job_bytes(job))
  <2>1. /\ DOMAIN Append(rows, job) = 1 .. (n + 1)
        /\ \A i \in 1 .. (n + 1) :
             Append(rows, job)[i] = IF i = n + 1 THEN job ELSE rows[i]
    BY <1>1, AppendedElements
  <2>2. /\ DOMAIN Append(Reserves(rows), reserved_job_bytes(job)) = 1 .. (n + 1)
        /\ \A i \in 1 .. (n + 1) :
             Append(Reserves(rows), reserved_job_bytes(job))[i] =
               IF i = n + 1 THEN reserved_job_bytes(job) ELSE Reserves(rows)[i]
    BY <1>3, <1>4, JobSizes, AppendedElements
  <2> QED
    BY <1>1, <1>2, <2>1, <2>2 DEF Reserves
<1>7. ASSUME NEW id, NEW state
      PROVE  Reserves(WithState(rows, id, state)) = Reserves(rows)
  <2>1. /\ DOMAIN WithState(rows, id, state) = 1 .. n
        /\ \A i \in 1 .. n :
             reserved_job_bytes(WithState(rows, id, state)[i]) = reserved_job_bytes(rows[i])
    BY <1>1, JobSizes DEF WithState
  <2> QED
    BY <1>1, <1>2, <2>1 DEF Reserves
<1> QED
  BY <1>4, <1>5, <1>6, <1>7

(* A history with one more row that the limits leave room for.             *)
LEMMA OneMoreRow ==
  ASSUME NEW rows \in Seq(FuzzJob), NEW job \in FuzzJob, Affordable(rows),
         reserved_job_bytes(job) <= MaxJobBytes,
         Total(Reserves(rows)) + reserved_job_bytes(job) <= MaxSnapshotBytes
  PROVE  /\ Affordable(Append(rows, job))
         /\ Total(Reserves(Append(rows, job))) =
              Total(Reserves(rows)) + reserved_job_bytes(job)
<1> DEFINE r == Reserves(rows)
           x == reserved_job_bytes(job)
<1>1. /\ r \in Seq(Nat) /\ x \in Nat /\ Reserves(Append(rows, job)) = Append(r, x)
  BY ReservesFacts, JobSizes
<1>2. Total(Append(r, x)) = Total(r) + x
  BY <1>1, TotalAppend
<1>3. \A i \in DOMAIN r : r[i] <= MaxJobBytes
  BY DEF Affordable
<1>4. x <= MaxJobBytes
  OBVIOUS
<1>5. \A i \in DOMAIN Append(r, x) : Append(r, x)[i] <= MaxJobBytes
  <2> HIDE DEF r, x
  <2> SUFFICES ASSUME NEW i \in DOMAIN Append(r, x)
               PROVE  Append(r, x)[i] = x \/ (i \in DOMAIN r /\ Append(r, x)[i] = r[i])
    BY <1>3, <1>4
  <2>1. /\ DOMAIN r = 1 .. Len(r) /\ Len(r) \in Nat
        /\ DOMAIN Append(r, x) = 1 .. (Len(r) + 1)
        /\ \A j \in 1 .. (Len(r) + 1) : Append(r, x)[j] = IF j = Len(r) + 1 THEN x ELSE r[j]
    BY <1>1, AppendedElements, LenProperties
  <2> QED
    BY <2>1
<1> QED
  BY <1>1, <1>2, <1>5 DEF Affordable

-----------------------------------------------------------------------------
(* The steps.                                                              *)

(* States change, bytes do not: persist_jobs saves what is affordable.     *)
LEMMA StatesKeep ==
  ASSUME BytesInv, reserved' = reserved, Reserves(seen') = Reserves(seen),
         \/ UNCHANGED storage
         \/ \E rows, result : persist_jobs(rows, result) /\ Reserves(rows) = Reserves(seen)
  PROVE  BytesInv'
<1>1. \A rows : Reserves(rows) = Reserves(seen) => Affordable(rows)
  BY DEF BytesInv, Affordable
<1>2. Affordable(seen')
  BY <1>1
<1>3. Affordable(disk') /\ Affordable(synced')
  BY <1>1 DEF BytesInv, storage, persist_jobs
<1> QED
  BY <1>2, <1>3 DEF BytesInv, Affordable

(* One more row.                                                           *)
LEMMA RowAdded ==
  ASSUME BytesInv, seen \in Seq(FuzzJob), NEW job \in FuzzJob,
         reserved_job_bytes(job) <= MaxJobBytes,
         reserved + reserved_job_bytes(job) <= MaxSnapshotBytes
  PROVE  /\ Affordable(Append(seen, job))
         /\ Total(Reserves(Append(seen, job))) = reserved + reserved_job_bytes(job)
  BY OneMoreRow DEF BytesInv

(* The process forgets everything.                                         *)
LEMMA ForgetFits ==
  ASSUME BytesInv, Forget, disk' \in {disk, synced}, synced' \in {disk, synced}
  PROVE  BytesInv'
<1>1. Reserves(<<>>) = <<>>
  BY DEF Reserves
<1>2. Total(Reserves(<<>>)) = 0
  BY <1>1, TotalEmpty
<1>3. 0 <= MaxSnapshotBytes
  BY ConstantsAssumption
<1>4. Affordable(<<>>)
  BY <1>1, <1>2, <1>3 DEF Affordable
<1>5. Affordable(disk') /\ Affordable(synced')
  BY DEF BytesInv
<1> QED
  BY <1>2, <1>4, <1>5 DEF Forget, BytesInv, Affordable

(* Every step keeps the histories within the limits.                       *)
LEMMA NextFits ==
  ASSUME SchedulerInv, BytesInv, [Next]_vars
  PROVE  BytesInv'
<1>1. /\ seen \in Seq(FuzzJob) /\ disk \in Seq(FuzzJob) /\ synced \in Seq(FuzzJob)
      /\ next_id \in Nat
  BY DEF SchedulerInv, TypeOK
<1>2. \A id, state : Reserves(WithState(seen, id, state)) = Reserves(seen)
  BY <1>1, ReservesFacts
<1>3. ASSUME UNCHANGED <<seen, reserved>>, UNCHANGED storage PROVE BytesInv'
  BY <1>3, StatesKeep
<1>4. CASE RecoverLine
  <2> DEFINE line == disk[Len(seen) + 1]
             job == Requeued(line)
  <2>1. /\ Len(seen) < Len(disk) /\ Loadable(line)
        /\ reserved' = reserved + reserved_job_bytes(job)
        /\ seen' = Append(seen, job) /\ UNCHANGED storage
    BY <1>4 DEF RecoverLine
  <2>2. line \in FuzzJob
    <3>1. Len(seen) \in Nat /\ Len(disk) \in Nat
      BY <1>1, LenProperties
    <3> DEFINE a == Len(seen)
               b == Len(disk)
    <3>2. a \in Nat /\ b \in Nat /\ a < b
      BY <2>1, <3>1
    <3> HIDE DEF a, b
    <3>3. a + 1 \in 1 .. b
      BY <3>2
    <3> QED
      BY <1>1, <3>3, ElementOfSeq DEF a, b
  <2>3. job \in FuzzJob /\ reserved_job_bytes(job) = reserved_job_bytes(line)
    BY <2>2, JobSizes, NewStateFacts DEF Requeued, JobStates
  <2>4. /\ reserved_job_bytes(line) <= MaxJobBytes
        /\ reserved + reserved_job_bytes(line) <= MaxSnapshotBytes
    BY <2>1 DEF Loadable
  <2> HIDE DEF line, job
  <2>5. Affordable(seen') /\ reserved' = Total(Reserves(seen'))
    BY <1>1, <2>1, <2>3, <2>4, RowAdded
  <2> QED
    BY <2>1, <2>5 DEF BytesInv, storage, Affordable
<1>5. ASSUME NEW project \in Projects, NEW size \in Sizes, NEW budget \in Budgets,
             \/ Submit(project, size, budget)
             \/ \E result \in SaveFailures : SubmitFails(project, size, budget, result)
      PROVE  BytesInv'
  <2> DEFINE job == NewJob(project, size, budget)
             rows == Append(seen, job)
  <2>1. job \in FuzzJob
    BY <1>1, <1>5 DEF NewJob, FuzzJob, JobStates
  <2>2. Admissible(job)
    BY <1>5 DEF Submit, SubmitFails
  <2>3. \/ seen' = rows /\ reserved' = reserved + reserved_job_bytes(job)
        \/ UNCHANGED <<seen, reserved>>
    BY <1>5 DEF Submit, SubmitFails
  <2>4. disk' \in {disk, rows} /\ synced' \in {synced, rows}
    BY <1>5 DEF Submit, SubmitFails, persist_jobs
  <2> HIDE DEF job
  <2>5. Affordable(rows) /\ Total(Reserves(rows)) = reserved + reserved_job_bytes(job)
    BY <1>1, <2>1, <2>2, RowAdded DEF Admissible
  <2>6. Affordable(disk') /\ Affordable(synced')
    BY <2>4, <2>5 DEF BytesInv
  <2>7. Affordable(seen') /\ reserved' = Total(Reserves(seen'))
    BY <2>3, <2>5 DEF BytesInv
  <2> QED
    BY <2>6, <2>7 DEF BytesInv, Affordable
<1>6. ASSUME NEW w \in Workers,
             \/ Claim(w) \/ Finish(w) \/ FinishAfterFault(w)
             \/ \E result \in SaveFailures : ClaimFails(w, result) \/ FinishFails(w, result)
      PROVE  BytesInv'
  <2>1. reserved' = reserved /\ Reserves(seen') = Reserves(seen)
    BY <1>2, <1>6 DEF Claim, Finish, FinishAfterFault, ClaimFails, FinishFails
  <2>2. \/ UNCHANGED storage
        \/ \E rows, result : persist_jobs(rows, result) /\ Reserves(rows) = Reserves(seen)
    BY <1>2, <1>6 DEF Claim, Finish, FinishAfterFault, ClaimFails, FinishFails
  <2> QED
    BY <2>1, <2>2, StatesKeep
<1>7. ASSUME NEW w \in Workers,
             \/ Working(w) /\ ~Claim(w) /\ ~Finish(w) /\ ~FinishAfterFault(w)
             \/ SpawnChildFails(w) \/ WaitFails(w)
             \/ \E status \in {"success", "failure"} : ChildExits(w, status)
      PROVE  BytesInv'
  <2>1. UNCHANGED <<seen, reserved>> /\ UNCHANGED storage
    BY <1>7 DEF Working, WorkerExits, CheckBeforeSpawn, SpawnChild, SeeShutdown, SeeExit,
       SeeDeadline, CheckBeforePost, Post, SpawnChildFails, WaitFails, ChildExits, Returns,
       memory
  <2> QED
    BY <1>3, <2>1
<1>8. CASE \/ Start \/ RecoveryDone \/ StartReturns \/ RequestShutdown \/ Drop
           \/ \E w \in Workers : SpawnWorker(w) \/ SpawnWorkerFails(w)
           \/ UNCHANGED vars
  <2>1. UNCHANGED <<seen, reserved>> /\ UNCHANGED storage
    BY <1>8 DEF Start, RecoveryDone, StartReturns, RequestShutdown, Drop, SpawnWorker,
       SpawnWorkerFails, vars, memory
  <2> QED
    BY <1>3, <2>1
<1>9. CASE RefuseStart \/ Joined \/ Crash \/ \E kept \in BOOLEAN : PowerLoss(kept)
  <2>1. Forget /\ disk' \in {disk, synced} /\ synced' \in {disk, synced}
    BY <1>9 DEF RefuseStart, Joined, Crash, PowerLoss, storage
  <2> QED
    BY <2>1, ForgetFits
<1> QED
  BY <1>4, <1>5, <1>6, <1>7, <1>8, <1>9 DEF Next, Starting, Admission, Failing, Stopping

(* The initial, empty history.                                             *)
LEMMA InitFits == Init => BytesInv
<1> SUFFICES ASSUME Init PROVE BytesInv
  OBVIOUS
<1>1. Reserves(<<>>) = <<>>
  BY DEF Reserves
<1>2. Total(Reserves(<<>>)) = 0
  BY <1>1, TotalEmpty
<1>3. 0 <= MaxSnapshotBytes
  BY ConstantsAssumption
<1>4. Affordable(<<>>)
  BY <1>1, <1>2, <1>3 DEF Affordable
<1> QED
  BY <1>2, <1>4 DEF Init, BytesInv

(* The invariant of the byte accounting.                                   *)
THEOREM BytesInvariant == Spec => []BytesInv
  BY InitFits, NextFits, InvariantHolds, PTL DEF Spec

(* submit, start and persist_jobs: every history that is written stays     *)
(* within the byte limits start applies to it, whatever states its rows    *)
(* take, and the reservation is exact.                                     *)
THEOREM SnapshotReadable == Spec => []SnapshotStaysReadable
<1>1. SchedulerInv /\ BytesInv => SnapshotStaysReadable
  <2> SUFFICES ASSUME SchedulerInv, BytesInv PROVE SnapshotStaysReadable
    OBVIOUS
  <2> DEFINE n == Len(disk)
             s == [i \in DOMAIN disk |-> JobBytes(disk[i])]
             r == Reserves(disk)
  <2>1. disk \in Seq(FuzzJob)
    BY DEF SchedulerInv, TypeOK
  <2>2. n \in Nat /\ DOMAIN disk = 1 .. n /\ \A i \in 1 .. n : disk[i] \in FuzzJob
    BY <2>1, ElementOfSeq, LenProperties
  <2>3. r \in Seq(Nat) /\ Len(r) = n
    BY <2>1, ReservesFacts
  <2>4. r = [i \in 1 .. n |-> reserved_job_bytes(disk[i])]
    BY <2>2 DEF Reserves
  <2>5. \A i \in 1 .. n : /\ JobBytes(disk[i]) \in Nat /\ r[i] \in Nat
                          /\ JobBytes(disk[i]) <= r[i]
    BY <2>2, <2>4, JobSizes
  <2>6. /\ Total(r) <= MaxSnapshotBytes
        /\ \A i \in 1 .. n : r[i] <= MaxJobBytes
    BY <2>4 DEF BytesInv, Affordable
  <2>7. s \in Seq(Nat) /\ Len(s) = n /\ \A i \in 1 .. n : s[i] = JobBytes(disk[i])
    <3>1. s \in [1 .. n -> Nat] /\ \A i \in 1 .. n : s[i] = JobBytes(disk[i])
      BY <2>2, <2>5
    <3> HIDE DEF n, s
    <3> QED
      BY <2>2, <3>1, FunctionAsSeq
  <2>8. SnapshotBytes(disk) = Total(s)
    BY DEF SnapshotBytes
  <2> HIDE DEF s, r, n
  <2>9. Total(s) \in Nat /\ Total(r) \in Nat /\ Total(s) <= Total(r)
    BY <2>3, <2>5, <2>7, TotalAtMost
  <2>10. MaxSnapshotBytes \in Nat /\ MaxJobBytes \in Nat
    BY ConstantsAssumption
  <2>11. Total(s) <= MaxSnapshotBytes
    BY <2>6, <2>9, <2>10
  <2>12. \A i \in 1 .. n : JobBytes(disk[i]) <= MaxJobBytes
    BY <2>5, <2>6, <2>10
  <2>13. reserved = Total(Reserves(seen))
    BY DEF BytesInv
  <2> QED
    BY <2>2, <2>8, <2>11, <2>12, <2>13 DEF SnapshotStaysReadable
<1> QED
  BY <1>1, BytesInvariant, InvariantHolds, PTL
=============================================================================
