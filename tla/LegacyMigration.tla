-------------------------- MODULE LegacyMigration --------------------------
(***************************************************************************)
(* workdir::prepare of crates/cli and migrate_legacy of crates/results     *)
(* (migrate.rs): every command that opens a work directory first renames   *)
(* <work>/findings to <work>/results/findings.  Several bhf processes may  *)
(* do that at once, without a lock; every system call is a step.           *)
(*                                                                         *)
(* A directory is Absent or the set of its entries.  A legacy path that is *)
(* no directory is left alone by the code, and is Absent here.  Any system *)
(* call may fail; where the code asks with exists() or an ignored error,   *)
(* it takes the failure for an absence.                                    *)
(***************************************************************************)
EXTENDS Naturals, FiniteSets

CONSTANTS
  Procs,       \* the bhf processes
  Names,       \* names of finding directories
  Absent,      \* no such directory or file
  MaxFailures  \* bound: processes misled or ended badly before faults cease

ASSUME MigrationAssumption ==
  /\ \A dir \in SUBSET Names : dir # Absent
  /\ MaxFailures \in Nat

VARIABLES
  pc,         \* where every process is
  legacy,     \* <work>/findings
  target,     \* <work>/results/findings
  written,    \* its findings whose finding.json is complete; legacy ones are
  old_index,  \* is one of LEGACY_DERIVED still there?
  misled      \* history: who took a failed look at legacy for its absence

tree == <<legacy, target, written, old_index, misled>>

MigrationSteps ==
  {"look",      \* in migrate_legacy, before symlink_metadata
   "exists",    \* in reclaim_target, before target.exists()
   "probe",     \* before is_nonempty_dir(target)
   "conflict",  \* the target is populated: was it a peer?
   "peer",      \* in reclaim_empty_target, before its first peer check
   "rmdir",     \* before remove_dir(target)
   "rmdir failed", "derived", "rename", "rename failed",
   "cleanup"}   \* migrated, replay.py files still to be dropped

(* A system call may fail for reasons of its own, or the process die.      *)
Faulty ==
  Cardinality({p \in Procs : pc[p] \in {"refused", "failed", "crashed"}} \union misled)
    < MaxFailures

Goto(p, step) == pc' = [pc EXCEPT ![p] = step]

-----------------------------------------------------------------------------
migrate_legacy(p) ==
  /\ pc[p] = "look"
  /\ \/ Goto(p, IF legacy = Absent THEN "prepared" ELSE "exists")
     \/ Faulty /\ Goto(p, "refused")
  /\ UNCHANGED tree

TargetExists(p) ==
  /\ pc[p] = "exists"
  /\ \/ Goto(p, IF target = Absent THEN "derived" ELSE "probe")
     \/ Faulty /\ Goto(p, "derived")
  /\ UNCHANGED tree

(* A target that has vanished since, or cannot be read, counts as empty.   *)
is_nonempty_dir(p) ==
  /\ pc[p] = "probe"
  /\ \/ Goto(p, IF target \in {Absent, {}} THEN "peer" ELSE "conflict")
     \/ Faulty /\ Goto(p, "peer")
  /\ UNCHANGED tree

(* Mutant: wait for the peer that must be at work.                         *)
peer_migrated_waits(p) ==
  /\ pc[p] \in {"conflict", "peer", "rmdir failed", "rename failed"}
  /\ legacy = Absent \/ pc[p] = "peer"
  /\ Goto(p, IF legacy = Absent THEN "prepared" ELSE "rmdir")
  /\ UNCHANGED tree

(* Every place that asks whether a peer has finished, with what follows    *)
(* when none has.  A legacy directory that cannot be looked at is one that *)
(* a peer has moved.                                                       *)
peer_migrated(p) ==
  /\ pc[p] \in {"conflict", "peer", "rmdir failed", "rename failed"}
  /\ \/ /\ Goto(p, IF legacy = Absent THEN "prepared"
                   ELSE IF pc[p] = "peer" THEN "rmdir" ELSE "refused")
        /\ UNCHANGED misled
     \/ /\ legacy # Absent /\ Faulty
        /\ Goto(p, "prepared")
        /\ misled' = misled \union {p}
  /\ UNCHANGED <<legacy, target, written, old_index>>

(* Mutant: remove_dir_all.                                                 *)
Removable_all == target # Absent

(* What rmdir removes.                                                     *)
Removable == target = {}

remove_dir(p) ==
  /\ pc[p] = "rmdir"
  /\ \/ /\ Removable
        /\ target' = Absent
        /\ Goto(p, "derived")
     \/ /\ ~Removable \/ Faulty
        /\ Goto(p, "rmdir failed") /\ UNCHANGED target
  /\ UNCHANGED <<legacy, written, old_index, misled>>

(* The derived index files go before the rename, so that a failure leaves  *)
(* the legacy directory for a retry.                                       *)
migrate_inner(p) ==
  /\ pc[p] = "derived"
  /\ \/ old_index' = FALSE /\ Goto(p, "rename")
     \/ Faulty /\ Goto(p, "refused") /\ UNCHANGED old_index
  /\ UNCHANGED <<legacy, target, written, misled>>

(* Mutant: whatever the failure, a peer must have done it.                 *)
RenameFails_benign(p) == Goto(p, "prepared")

RenameFails(p) == Goto(p, "rename failed")

rename_or_detect_peer(p) ==
  LET possible == legacy # Absent /\ target \in {Absent, {}} IN
  /\ pc[p] = "rename"
  /\ \/ /\ possible
        /\ target' = legacy /\ legacy' = Absent /\ written' = written \union legacy
        /\ Goto(p, "cleanup")
     \/ /\ ~possible \/ Faulty
        /\ RenameFails(p) /\ UNCHANGED <<legacy, target, written>>
  /\ UNCHANGED <<old_index, misled>>

(* Dropping the old reproducers, whose failure is ignored.                 *)
DropReproducers(p) ==
  /\ pc[p] = "cleanup"
  /\ Goto(p, "prepared")
  /\ UNCHANGED tree

prepare(p) ==
  \/ migrate_legacy(p) \/ TargetExists(p) \/ is_nonempty_dir(p) \/ peer_migrated(p)
  \/ remove_dir(p) \/ migrate_inner(p) \/ rename_or_detect_peer(p)
  \/ DropReproducers(p)
=============================================================================
