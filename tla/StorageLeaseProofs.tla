-------------------------- MODULE StorageLeaseProofs --------------------------
(***************************************************************************)
(* The lease is exclusive and refuses only real contention, for every      *)
(* number of schedulers, every window and every fork time below it.        *)
(***************************************************************************)
EXTENDS StorageLease, TLAPS

(* The flock is the owner's or, after its owner has gone, kept alive by a  *)
(* forked copy.                                                            *)
LockIsAccounted ==
  /\ \A s \in Schedulers : pc[s] = "owner" => locked = s
  /\ locked # Nobody =>
       \/ pc[locked] = "owner"
       \/ pc[locked] = "gone" /\ copy[locked] # NoCopy

(* A scheduler that has met no owner is held up by nothing but a copy that *)
(* is at least as old as its attempt.                                      *)
CopiesAgeWithTheAttempt ==
  \A s \in Schedulers : pc[s] \in Trying /\ ~met[s] /\ locked # Nobody =>
    pc[locked] = "gone" /\ copy[locked] >= waited[s]

(* A scheduler that has not tried has waited for nothing.                  *)
NewHasNotWaited == \A s \in Schedulers : pc[s] = "new" => waited[s] = 0

LeaseInv ==
  /\ TypeOK /\ LockIsAccounted /\ CopiesAgeWithTheAttempt /\ NewHasNotWaited
  /\ RefusalsAreReal

(* The invariant holds when no scheduler has opened the directory yet.     *)
LEMMA InitLease == Init => LeaseInv
  BY LeaseAssumption
  DEF Init, LeaseInv, TypeOK, LockIsAccounted, CopiesAgeWithTheAttempt,
      NewHasNotWaited, RefusalsAreReal, Trying

(* Opening the lock file: an attempt begins, and whoever owns now is met.  *)
LEMMA OpenStep == ASSUME LeaseInv, NEW s \in Schedulers, open(s) PROVE LeaseInv'
<1> USE LeaseAssumption DEF LeaseInv, TypeOK, LockIsAccounted,
      CopiesAgeWithTheAttempt, NewHasNotWaited, RefusalsAreReal, Trying
<1>1. /\ pc[s] = "new" /\ waited[s] = 0
      /\ pc' = [pc EXCEPT ![s] = "attempt"]
      /\ UNCHANGED <<waited, locked, copy>>
  BY DEF open
<1>2. met' = [met EXCEPT ![s] = TRUE] \/ met' = [met EXCEPT ![s] = FALSE]
  BY DEF open
<1>3. ~met'[s] => \A t \in Schedulers : pc[t] # "owner"
  BY DEF open, Owners
<1>4. locked # s
  BY <1>1
<1>5. TypeOK' /\ LockIsAccounted' /\ NewHasNotWaited' /\ RefusalsAreReal'
  BY <1>1, <1>2, <1>4
<1>6. CopiesAgeWithTheAttempt'
  BY <1>1, <1>2, <1>3, <1>4
<1> QED
  BY <1>5, <1>6

(* A successful flock.                                                     *)
LEMMA FlockStep == ASSUME LeaseInv, NEW s \in Schedulers, flock(s) PROVE LeaseInv'
  BY LeaseAssumption
  DEF LeaseInv, TypeOK, LockIsAccounted, CopiesAgeWithTheAttempt,
      NewHasNotWaited, RefusalsAreReal, Trying, Lockable, flock

(* EWOULDBLOCK: at the deadline a copy would be older than ForkTime.       *)
LEMMA WouldBlockStep ==
  ASSUME LeaseInv, NEW s \in Schedulers, WouldBlock(s) PROVE LeaseInv'
<1> USE LeaseAssumption DEF LeaseInv, TypeOK, LockIsAccounted,
      CopiesAgeWithTheAttempt, NewHasNotWaited, RefusalsAreReal, Trying
<1>1. CASE Expired(s)
  <2>1. met[s]
    BY <1>1 DEF WouldBlock, Expired
  <2>2. locked # s
    BY DEF WouldBlock
  <2>3. locked' = locked /\ pc' = [pc EXCEPT ![s] = "refused"]
    BY <1>1, <2>2 DEF WouldBlock, Close, Freed
  <2> QED
    BY <2>1, <2>2, <2>3 DEF WouldBlock
<1>2. CASE ~Expired(s)
  BY <1>2 DEF WouldBlock
<1> QED
  BY <1>1, <1>2

(* EINTR.                                                                  *)
LEMMA InterruptedStep ==
  ASSUME LeaseInv, NEW s \in Schedulers, Interrupted(s) PROVE LeaseInv'
  BY LeaseAssumption
  DEF LeaseInv, TypeOK, LockIsAccounted, CopiesAgeWithTheAttempt,
      NewHasNotWaited, RefusalsAreReal, Trying, Interrupted

(* Another error closes a descriptor that does not hold the flock.         *)
LEMMA IoErrorStep ==
  ASSUME LeaseInv, NEW s \in Schedulers, IoError(s) PROVE LeaseInv'
<1> USE LeaseAssumption DEF LeaseInv, TypeOK, LockIsAccounted,
      CopiesAgeWithTheAttempt, NewHasNotWaited, RefusalsAreReal, Trying
<1>1. locked # s
  BY DEF IoError
<1>2. locked' = locked /\ pc' = [pc EXCEPT ![s] = "failed"]
  BY <1>1 DEF IoError, Close, Freed
<1> QED
  BY <1>1, <1>2 DEF IoError

(* The owner closes its descriptor; a forked copy keeps the flock.         *)
LEMMA ReleaseStep ==
  ASSUME LeaseInv, NEW s \in Schedulers, Release(s) PROVE LeaseInv'
<1> USE LeaseAssumption DEF LeaseInv, TypeOK, LockIsAccounted,
      CopiesAgeWithTheAttempt, NewHasNotWaited, RefusalsAreReal, Trying
<1>1. locked = s /\ pc' = [pc EXCEPT ![s] = "gone"]
  BY DEF Release, Close
<1>2. CASE copy[s] = NoCopy
  <2>1. locked' = Nobody
    BY <1>1, <1>2 DEF Release, Close, Freed
  <2> QED
    BY <1>1, <2>1 DEF Release
<1>3. CASE copy[s] # NoCopy
  <2>1. locked' = locked
    BY <1>3 DEF Release, Close
  <2>2. \A t \in Schedulers : pc[t] \in Trying => met[t]
    BY <1>1 DEF Release
  <2> QED
    BY <1>1, <1>3, <2>1, <2>2 DEF Release
<1> QED
  BY <1>2, <1>3

(* A fork makes a copy of age 0.                                           *)
LEMMA ForkStep ==
  ASSUME LeaseInv, NEW s \in Schedulers, Fork(s) PROVE LeaseInv'
  BY LeaseAssumption
  DEF LeaseInv, TypeOK, LockIsAccounted, CopiesAgeWithTheAttempt,
      NewHasNotWaited, RefusalsAreReal, Trying, Fork

(* An exec closes the copy, and with it a flock nobody else has open.      *)
LEMMA ExecStep ==
  ASSUME LeaseInv, NEW s \in Schedulers, Exec(s) PROVE LeaseInv'
<1> USE LeaseAssumption DEF LeaseInv, TypeOK, LockIsAccounted,
      CopiesAgeWithTheAttempt, NewHasNotWaited, RefusalsAreReal, Trying
<1>1. CASE pc[s] \in Trying \union {"owner"}
  BY <1>1 DEF Exec
<1>2. CASE pc[s] \notin Trying \union {"owner"} /\ locked = s
  BY <1>2 DEF Exec, Freed
<1>3. CASE pc[s] \notin Trying \union {"owner"} /\ locked # s
  BY <1>3 DEF Exec, Freed
<1> QED
  BY <1>1, <1>2, <1>3

(* Time passes for copies and attempts alike.                              *)
LEMMA TickStep == ASSUME LeaseInv, Tick PROVE LeaseInv'
<1> USE LeaseAssumption DEF LeaseInv, TypeOK, LockIsAccounted,
      CopiesAgeWithTheAttempt, NewHasNotWaited, RefusalsAreReal, Trying
<1>1. TypeOK'
  BY DEF Tick, Expired
<1>2. LockIsAccounted'
  BY DEF Tick
<1>3. CopiesAgeWithTheAttempt'
  BY DEF Tick, Expired
<1>4. NewHasNotWaited' /\ RefusalsAreReal'
  BY DEF Tick
<1> QED
  BY <1>1, <1>2, <1>3, <1>4

(* Every step keeps the invariant.                                         *)
LEMMA NextLease == LeaseInv /\ [Next]_vars => LeaseInv'
<1> SUFFICES ASSUME LeaseInv, [Next]_vars PROVE LeaseInv'
  OBVIOUS
<1>1. CASE Tick
  BY <1>1, TickStep
<1>2. CASE UNCHANGED vars
  BY <1>2 DEF vars, LeaseInv, TypeOK, LockIsAccounted,
      CopiesAgeWithTheAttempt, NewHasNotWaited, RefusalsAreReal
<1>3. ASSUME NEW s \in Schedulers,
        open(s) \/ flock(s) \/ WouldBlock(s) \/ Interrupted(s) \/ IoError(s)
          \/ Release(s) \/ Fork(s) \/ Exec(s)
      PROVE LeaseInv'
  BY <1>3, OpenStep, FlockStep, WouldBlockStep, InterruptedStep, IoErrorStep,
     ReleaseStep, ForkStep, ExecStep
<1> QED
  BY <1>1, <1>2, <1>3 DEF Next

(* The invariant holds in every reachable state.                           *)
THEOREM LeaseInvariant == Spec => []LeaseInv
  BY InitLease, NextLease, PTL DEF Spec

(* Every variable keeps its type, and no attempt outlives its window.      *)
THEOREM LeaseTypes == Spec => []TypeOK
<1>1. LeaseInv => TypeOK
  BY DEF LeaseInv
<1> QED
  BY <1>1, LeaseInvariant, PTL

(* acquire gives the data directory to one scheduler at a time.            *)
THEOREM LeaseIsExclusive == Spec => []OneOwner
<1>1. LeaseInv => OneOwner
  BY DEF LeaseInv, LockIsAccounted, OneOwner, Owners
<1> QED
  BY <1>1, LeaseInvariant, PTL

(* acquire reports DataDirInUse only when another scheduler did own the    *)
(* directory during the attempt.                                           *)
THEOREM LeaseRefusals == Spec => []RefusalsAreReal
<1>1. LeaseInv => RefusalsAreReal
  BY DEF LeaseInv
<1> QED
  BY <1>1, LeaseInvariant, PTL
===============================================================================
