---------------------------- MODULE StorageLease ----------------------------
(***************************************************************************)
(* acquire of crates/continuous_daemon/src/storage_lock.rs: a scheduler    *)
(* owns its data directory by an flock on a file it opened.  The flock     *)
(* belongs to the open file description; fork copies that into a child,    *)
(* which closes its copy when it execs, so a directory whose owner is gone *)
(* can look busy for a moment.  acquire retries for that long.             *)
(*                                                                         *)
(* Time passes in ticks of acquire's sleep; everything else takes no time. *)
(***************************************************************************)
EXTENDS Naturals, FiniteSets

CONSTANTS
  Schedulers,  \* scheduler instances; each opens the lock file once
  Window,      \* ticks until acquire's deadline
  ForkTime,    \* ticks between a fork and the child's exec, at most
  Nobody,      \* no scheduler
  NoCopy       \* no forked copy of a descriptor

ASSUME LeaseAssumption ==
  /\ Window \in Nat /\ ForkTime \in Nat /\ ForkTime < Window
  /\ Nobody \notin Schedulers /\ NoCopy \notin Nat

VARIABLES
  pc,       \* where each scheduler is with acquire
  waited,   \* ticks since its attempt began
  locked,   \* whose open file description holds the flock
  copy,     \* age of the youngest forked copy of its descriptor
  met       \* history: has it met an owner since its attempt began?

vars == <<pc, waited, locked, copy, met>>

Trying == {"attempt", "asleep"}

Owners == {s \in Schedulers : pc[s] = "owner"}

(* Closing the last descriptor of a description gives the flock up.        *)
Freed(l, closed) == IF l = closed THEN Nobody ELSE l

-----------------------------------------------------------------------------
open(s) ==
  /\ pc[s] = "new"
  /\ pc' = [pc EXCEPT ![s] = "attempt"]
  /\ met' = [met EXCEPT ![s] = Owners # {}]
  /\ UNCHANGED <<waited, locked, copy>>

(* Mutant: the lock file is unlinked and made anew.                        *)
Lockable_anew == TRUE

Lockable == locked = Nobody

flock(s) ==
  /\ pc[s] = "attempt" /\ Lockable
  /\ locked' = s
  /\ pc' = [pc EXCEPT ![s] = "owner"]
  /\ met' = [t \in Schedulers |-> met[t] \/ pc[t] \in Trying]
  /\ UNCHANGED <<waited, copy>>

(* Mutant: give up at the first EWOULDBLOCK.                               *)
Expired_at_once(s) == TRUE

Expired(s) == waited[s] >= Window

(* The end of an attempt: the descriptor is closed.                        *)
Close(s, how) ==
  /\ pc' = [pc EXCEPT ![s] = how]
  /\ locked' = IF copy[s] = NoCopy THEN Freed(locked, s) ELSE locked

(* Mutant: no LOCK_NB; the call waits for the owner.                       *)
WouldBlock_waits(s) == pc[s] = "refused" /\ UNCHANGED vars

WouldBlock(s) ==
  /\ pc[s] = "attempt" /\ locked # Nobody
  /\ IF Expired(s) THEN Close(s, "refused")
     ELSE pc' = [pc EXCEPT ![s] = "asleep"] /\ UNCHANGED locked
  /\ UNCHANGED <<waited, copy, met>>

Interrupted(s) ==
  /\ pc[s] = "attempt"
  /\ pc' = [pc EXCEPT ![s] = "asleep"]
  /\ UNCHANGED <<waited, locked, copy, met>>

(* Any other error of open or flock.                                       *)
IoError(s) ==
  /\ pc[s] = "attempt"
  /\ Close(s, "failed")
  /\ UNCHANGED <<waited, copy, met>>

(* The owner shuts down or dies.                                           *)
Release(s) ==
  /\ pc[s] = "owner"
  /\ Close(s, "gone")
  /\ UNCHANGED <<waited, copy, met>>

-----------------------------------------------------------------------------
(* A process that has the descriptor open spawns a child.                  *)
Fork(s) ==
  /\ pc[s] \in Trying \union {"owner"} /\ copy[s] # 0
  /\ copy' = [copy EXCEPT ![s] = 0]
  /\ UNCHANGED <<pc, waited, locked, met>>

Exec(s) ==
  /\ copy[s] # NoCopy
  /\ copy' = [copy EXCEPT ![s] = NoCopy]
  /\ locked' = IF pc[s] \in Trying \union {"owner"} THEN locked ELSE Freed(locked, s)
  /\ UNCHANGED <<pc, waited, met>>

(* Everyone's sleep ends.                                                  *)
Tick ==
  /\ \E s \in Schedulers : pc[s] = "asleep"
  /\ \A s \in Schedulers : pc[s] # "attempt" /\ copy[s] # ForkTime
  /\ pc' = [s \in Schedulers |-> IF pc[s] = "asleep" THEN "attempt" ELSE pc[s]]
  /\ waited' = [s \in Schedulers |->
       IF pc[s] = "asleep" /\ ~Expired(s) THEN waited[s] + 1 ELSE waited[s]]
  /\ copy' = [s \in Schedulers |-> IF copy[s] = NoCopy THEN NoCopy ELSE copy[s] + 1]
  /\ UNCHANGED <<locked, met>>

-----------------------------------------------------------------------------
Init ==
  /\ pc = [s \in Schedulers |-> "new"]
  /\ waited = [s \in Schedulers |-> 0]
  /\ locked = Nobody
  /\ copy = [s \in Schedulers |-> NoCopy]
  /\ met = [s \in Schedulers |-> FALSE]

Next ==
  \/ \E s \in Schedulers :
       \/ open(s) \/ flock(s) \/ WouldBlock(s) \/ Interrupted(s) \/ IoError(s)
       \/ Release(s) \/ Fork(s) \/ Exec(s)
  \/ Tick

Spec == Init /\ [][Next]_vars

(* Threads run, children exec, and signals do not interrupt every call.    *)
FairSpec ==
  /\ Spec
  /\ WF_vars(Tick)
  /\ \A s \in Schedulers :
       /\ SF_vars(flock(s) \/ WouldBlock(s))
       /\ WF_vars(copy[s] = ForkTime /\ Exec(s))

-----------------------------------------------------------------------------
(* Properties.                                                             *)

(* Types; no attempt goes on past the deadline.                            *)
TypeOK ==
  /\ pc \in [Schedulers -> Trying \union {"new", "owner", "refused", "failed", "gone"}]
  /\ waited \in [Schedulers -> 0..Window]
  /\ locked \in Schedulers \union {Nobody}
  /\ copy \in [Schedulers -> (0..ForkTime) \union {NoCopy}]
  /\ met \in [Schedulers -> BOOLEAN]

(* At most one scheduler owns the directory, however many children copied  *)
(* whose descriptor, and the flock is its own: an owner's lease is not     *)
(* given up by the death of another or the exec of a child.                *)
OneOwner == \A s \in Owners : locked = s /\ Owners = {s}

(* DataDirInUse is "true contention": a scheduler is refused only if       *)
(* another owned the directory while it tried, never because of copies     *)
(* that forked children hold of a lease already released.                  *)
RefusalsAreReal == \A s \in Schedulers : pc[s] = "refused" => met[s]

(* acquire returns, against an owner that stays for ever too.              *)
AcquireReturns == \A s \in Schedulers : pc[s] \in Trying ~> pc[s] \notin Trying
=============================================================================
