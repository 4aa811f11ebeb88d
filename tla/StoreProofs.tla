----------------------------- MODULE StoreProofs -----------------------------
(***************************************************************************)
(* What concurrent bhf commands leave in a work directory, for any number  *)
(* of processes, signatures and ordinals, and any number of errors and     *)
(* crashes.                                                                *)
(***************************************************************************)
EXTENDS ResultsStore, SequenceTheorems, WellFoundedInduction, TLAPS

Dirs == {Absent} \cup SUBSET Names

(* Steps after load_findings_tolerant, and after each derived file.        *)
Rebuilding == {"record"} \cup Derived \cup {"attest"}

(* TypeOK, with the domains it leaves open.                                *)
Types ==
  /\ pc \in [Procs -> Steps]
  /\ legacy \in Dirs /\ target \in Dirs /\ old_index \in BOOLEAN
  /\ next \in [Procs -> 0..MaxOrdinal]
  /\ mine \in [Procs -> Names \cup {Absent}]
  /\ written \subseteq Names /\ inherited \subseteq Names /\ misled \subseteq Procs
  /\ holders \subseteq Procs
  /\ manifest \in Seq(Procs) \cup {Corrupt}
  /\ loaded \in [Procs -> Seq(Procs)]
  /\ doc \in [Procs -> SUBSET Names]
  /\ files \in [Derived -> Dirs]
  /\ attested \in [files : [Derived -> Dirs], manifest : Seq(Procs), evidence : SUBSET Names]
  /\ recorded \in Seq(Procs)
  /\ due \in [Procs -> SUBSET Names]
  /\ last \in Ended \cup {"none"}

(* Who is in the section that results/.lock guards holds the lock, alone,  *)
(* and has moved a corrupt manifest aside.                                 *)
LockInv ==
  /\ \A p \in Procs : pc[p] \in LockedSteps <=> p \in holders
  /\ \A p, q \in holders : p = q
  /\ \A p \in holders : pc[p] # "load" => manifest # Corrupt

(* The migration is over for who has left it, unless misled; a finding     *)
(* directory belongs to the process that made it, and stays.               *)
TreeInv ==
  /\ \A p \in Procs :
       /\ pc[p] \notin (MigrationSteps \ {"cleanup"}) \cup {"refused", "crashed"}
            => legacy = Absent \/ p \in misled
       /\ mine[p] # Absent => mine[p] \in Content(target)
       /\ pc[p] = "write" => mine[p] \in Content(target)
  /\ EvidenceSurvives
  /\ FindingsAreExclusive

(* The documents on disk and in memory, as far as the holder has come.     *)
DocInv ==
  /\ files["json"] # Absent => files["json"] \subseteq Evidence
  /\ \A p \in Procs : doc[p] \subseteq Evidence /\ due[p] \subseteq Evidence
  /\ \A p \in Procs : pc[p] \in Rebuilding =>
       /\ due[p] \subseteq doc[p]
       /\ files["json"] # Absent => files["json"] \subseteq doc[p]
       /\ pc[p] \in {"sarif", "index", "json"} => files["csv"] = doc[p]
       /\ pc[p] \in {"index", "json"} => files["sarif"] \in {Absent, doc[p]}
       /\ pc[p] = "json" => files["index"] = doc[p]
       /\ pc[p] = "attest" => files["json"] = doc[p]
  /\ CommitPointIsLast
  /\ OkMeansIndexed

(* The manifest is the end of all that was ever recorded, and who holds    *)
(* the lock has it in memory.                                              *)
ManifestInv ==
  /\ manifest = Corrupt => recorded = <<>>
  /\ manifest # Corrupt => Len(manifest) <= MaxProducers
  /\ \A p \in Procs :
       pc[p] \in {"read", "record", "record only"} => loaded[p] = manifest
  /\ ProducersAreKept
  /\ AttestationHolds

(* The list a rebuild saves is the end of another.                         *)
EndOf(m, all) ==
  /\ m \in Seq(Procs) /\ all \in Seq(Procs)
  /\ Len(m) <= MaxProducers /\ Len(m) <= Len(all)
  /\ Len(m) < Len(all) => Len(m) = MaxProducers
  /\ \A i \in 1..Len(m) : m[i] = all[Len(all) - Len(m) + i]

StoreInv == Types /\ LockInv /\ TreeInv /\ DocInv /\ ManifestInv

-----------------------------------------------------------------------------
(* Facts about the operators.                                              *)

(* The largest ordinal in use exists.                                      *)
LEMMA MaxOfOrdinals ==
  ASSUME NEW n \in Nat, NEW S \in SUBSET (0..n), S # {}
  PROVE  Max(S) \in S
<1> DEFINE T == {n - x : x \in S}
<1>1. T \subseteq Nat /\ T # {}
  <2>1. PICK x \in S : TRUE
    OBVIOUS
  <2>2. n - x \in T
    OBVIOUS
  <2> QED
    BY <2>2
<1>2. PICK t \in T : \A y \in T : ~(<<y, t>> \in OpToRel(<, Nat))
  BY <1>1, WFMin, NatLessThanWellFounded
<1>3. \A y \in T : ~(y < t)
  BY <1>1, <1>2 DEF OpToRel
<1>4. PICK x \in S : t = n - x
  BY <1>2
<1>5. \A z \in S : x >= z
  <2> TAKE z \in S
  <2>1. n - z \in T
    OBVIOUS
  <2> QED
    BY <1>3, <1>4, <2>1
<1> QED
  BY <1>5 DEF Max

(* record_producer's list: what is kept is the end of what there was.      *)
LEMMA KeptIsTheEnd ==
  ASSUME NEW s \in Seq(Procs)
  PROVE  /\ Kept(s) \in Seq(Procs) /\ Len(Kept(s)) <= MaxProducers
         /\ Len(Kept(s)) <= Len(s)
         /\ Len(Kept(s)) < Len(s) => Len(Kept(s)) = MaxProducers
         /\ \A i \in 1..Len(Kept(s)) : Kept(s)[i] = s[Len(s) - Len(Kept(s)) + i]
<1>1. MaxProducers \in Nat \ {0} /\ Len(s) \in Nat
  BY StoreAssumption
<1>2. CASE Len(s) <= MaxProducers
  BY <1>1, <1>2 DEF Kept
<1>3. CASE ~(Len(s) <= MaxProducers)
  <2> DEFINE m == Len(s) - MaxProducers + 1
  <2>1. m \in Int /\ m >= 1 /\ m <= Len(s) /\ Kept(s) = SubSeq(s, m, Len(s))
    BY <1>1, <1>3 DEF Kept
  <2>2. \A i \in m..Len(s) : s[i] \in Procs
    BY <1>1, <2>1
  <2>3. /\ SubSeq(s, m, Len(s)) \in Seq(Procs)
        /\ Len(SubSeq(s, m, Len(s))) = IF m <= Len(s) THEN Len(s) - m + 1 ELSE 0
        /\ \A i \in 1..(Len(s) - m + 1) : SubSeq(s, m, Len(s))[i] = s[m + i - 1]
    BY <1>1, <2>1, <2>2, SubSeqProperties
  <2> QED
    BY <1>1, <1>3, <2>1, <2>3
<1> QED
  BY <1>2, <1>3

-----------------------------------------------------------------------------
(* Types.                                                                  *)

(* The values the program counters take.                                   *)
LEMMA StepNames ==
  /\ MigrationSteps \subseteq Steps /\ RunSteps \subseteq Steps
  /\ LockedSteps \subseteq Steps /\ Ended \subseteq Steps
  /\ "acquire" \in Steps /\ Derived \subseteq LockedSteps
  /\ Rebuilding \subseteq LockedSteps /\ "read" \notin Rebuilding
  BY DEF Steps, LockedSteps, Derived, Rebuilding

(* What each derived file is followed by.                                  *)
LEMMA OrderOfFiles ==
  /\ After["csv"] = "sarif" /\ After["sarif"] = "index"
  /\ After["index"] = "json" /\ After["json"] = "attest"
  /\ \A file \in Derived : After[file] \in Steps /\ After[file] \in LockedSteps
  BY DEF After, Derived, Steps, LockedSteps

(* What stays of the types when only the program counter, the trees and    *)
(* the allocator change.                                                   *)
LEMMA TypesPrepare ==
  ASSUME StoreInv, NEW p \in Procs, prepare(p), UNCHANGED <<allocator, store, history>>
  PROVE  Types'
<1>1. Types
  BY DEF StoreInv
<1>2. pc' \in [Procs -> Steps]
  BY <1>1 DEF prepare, migrate_legacy, TargetExists, is_nonempty_dir, peer_migrated,
     remove_dir, migrate_inner, RenameFails, rename_or_detect_peer, DropReproducers,
     Goto, Types, Steps, MigrationSteps, RunSteps, Ended
<1>3. legacy' \in Dirs /\ target' \in Dirs /\ old_index' \in BOOLEAN
  BY <1>1 DEF prepare, migrate_legacy, TargetExists, is_nonempty_dir, peer_migrated,
     remove_dir, migrate_inner, rename_or_detect_peer, DropReproducers, tree, Types, Dirs
<1>4. written' \subseteq Names /\ misled' \subseteq Procs
  BY <1>1 DEF prepare, migrate_legacy, TargetExists, is_nonempty_dir, peer_migrated,
     remove_dir, migrate_inner, rename_or_detect_peer, DropReproducers, tree, Types, Dirs
<1> QED
  BY <1>1, <1>2, <1>3, <1>4 DEF Types, allocator, store, history

(* The command's own steps.                                                *)
LEMMA TypesProduce ==
  ASSUME StoreInv, NEW p \in Procs, Produce(p)
  PROVE  Types'
<1>1. Types /\ Sig[p] \in Sigs /\ MaxOrdinal \in Nat
  BY StoreAssumption DEF StoreInv
<1>2. pc' \in [Procs -> Steps]
  BY <1>1 DEF Produce, Scan, FindsNothing, AfterRun, create_dir_all, create_named, emit,
     Goto, Types, Steps, RunSteps, Ended
<1>3. next' \in [Procs -> 0..MaxOrdinal]
  <2>1. CASE Scan(p)
    <3> DEFINE taken == {name[1] : name \in Content(target)}
    <3>1. taken \in SUBSET (0..MaxOrdinal)
      BY <1>1, StoreAssumption DEF Types, Content, Dirs
    <3>2. taken # {} => Max(taken) \in 0..MaxOrdinal
      BY <1>1, <3>1, MaxOfOrdinals
    <3>3. next' = [next EXCEPT ![p] = IF taken = {} THEN 0 ELSE SaturatingNext(Max(taken))]
      BY <2>1 DEF Scan
    <3>4. (IF taken = {} THEN 0 ELSE SaturatingNext(Max(taken))) \in 0..MaxOrdinal
      BY <1>1, <3>2 DEF SaturatingNext
    <3> QED
      BY <1>1, <3>3, <3>4 DEF Types
  <2>2. CASE create_named(p)
    <3>1. next[p] \in 0..MaxOrdinal
      BY <1>1 DEF Types
    <3>2. CASE next' = next
      BY <1>1, <3>2 DEF Types
    <3>3. CASE next[p] # MaxOrdinal /\ next' = [next EXCEPT ![p] = @ + 1]
      <4>1. next[p] + 1 \in 0..MaxOrdinal
        BY <1>1, <3>1, <3>3
      <4> QED
        BY <1>1, <3>3, <4>1 DEF Types
    <3> QED
      BY <2>2, <3>2, <3>3 DEF create_named
  <2>3. CASE FindsNothing(p) \/ create_dir_all(p) \/ emit(p)
    BY <1>1, <2>3 DEF FindsNothing, create_dir_all, emit, allocator, Types
  <2> QED
    BY <2>1, <2>2, <2>3 DEF Produce
<1>4. target' \in Dirs /\ mine' \in [Procs -> Names \cup {Absent}]
  <2>1. CASE create_named(p)
    <3>1. <<next[p], Sig[p]>> \in Names
      BY <1>1, StoreAssumption DEF Types
    <3> QED
      BY <1>1, <2>1, <3>1 DEF create_named, Types, Dirs
  <2>2. CASE create_dir_all(p)
    BY <1>1, <2>2 DEF create_dir_all, Content, allocator, Types, Dirs
  <2>3. CASE Scan(p) \/ FindsNothing(p) \/ emit(p)
    BY <1>1, <2>3 DEF Scan, FindsNothing, emit, allocator, tree, Types
  <2> QED
    BY <2>1, <2>2, <2>3 DEF Produce
<1>5. written' \subseteq Names
  <2>1. CASE emit(p)
    <3>1. mine[p] \in Names
      BY <1>1, <2>1 DEF emit, StoreInv, TreeInv, Content, Types, Dirs
    <3> QED
      BY <1>1, <2>1, <3>1 DEF emit, Types
  <2>2. CASE Scan(p) \/ FindsNothing(p) \/ create_dir_all(p) \/ create_named(p)
    BY <1>1, <2>2 DEF Scan, FindsNothing, create_dir_all, create_named, tree, Types
  <2> QED
    BY <2>1, <2>2 DEF Produce
<1>6. UNCHANGED <<legacy, old_index, misled, store, history>>
  BY DEF Produce, Scan, FindsNothing, create_dir_all, create_named, emit, tree
<1> QED
  BY <1>1, <1>2, <1>3, <1>4, <1>5, <1>6 DEF Types, store, history

(* The lock is given back.                                                 *)
LEMMA TypesLeave ==
  ASSUME Types, NEW p \in Procs, NEW how \in Ended, Leave(p, how)
  PROVE  /\ pc' \in [Procs -> Steps] /\ holders' \subseteq Procs
         /\ loaded' \in [Procs -> Seq(Procs)] /\ doc' \in [Procs -> SUBSET Names]
         /\ last' \in Ended \cup {"none"}
<1>1. how \in Steps /\ <<>> \in Seq(Procs)
  BY StepNames
<1> QED
  BY <1>1 DEF Leave, Goto, Types

(* An error on the way.                                                    *)
LEMMA TypesAbort ==
  ASSUME Types, NEW p \in Procs, Abort(p), UNCHANGED <<tree, allocator, inherited, due>>
  PROVE  Types'
<1>1. "failed" \in Ended /\ Leave(p, "failed")
  BY DEF Ended, Abort
<1>2. /\ pc' \in [Procs -> Steps] /\ holders' \subseteq Procs
      /\ loaded' \in [Procs -> Seq(Procs)] /\ doc' \in [Procs -> SUBSET Names]
      /\ last' \in Ended \cup {"none"}
  BY <1>1, TypesLeave
<1> QED
  BY <1>2 DEF Abort, Types, tree, allocator

(* manifest::save.                                                         *)
LEMMA TypesSave ==
  ASSUME Types, NEW p \in Procs, Save(p)
  PROVE  manifest' \in Seq(Procs) /\ recorded' \in Seq(Procs)
<1>1. Pending(p) \in Seq(Procs)
  BY DEF Pending
<1>2. loaded[p] \o Pending(p) \in Seq(Procs) /\ recorded \o Pending(p) \in Seq(Procs)
  BY <1>1 DEF Types
<1> QED
  BY <1>2, KeptIsTheEnd DEF Save

(* The steps of the bracket.                                               *)
LEMMA TypesComplete ==
  ASSUME StoreInv, NEW p \in Procs, Complete(p)
  PROVE  Types'
<1>1. Types /\ LockInv
  BY DEF StoreInv
<1>2. /\ {"load", "read", "record", "record only", "attest", "failed"} \subseteq Steps
      /\ Derived \subseteq Steps
  BY DEF Steps, LockedSteps, Ended
<1>3. CASE acquire(p)
  <2>1. Evidence \in SUBSET Names
    BY <1>1 DEF Evidence, Types
  <2> QED
    BY <1>1, <1>2, <1>3, <2>1 DEF acquire, Goto, Types, tree, allocator
<1>4. CASE LockTimeout(p)
  BY <1>1, <1>2, <1>4 DEF LockTimeout, Goto, Types, tree, allocator, store, history
<1>5. CASE load(p)
  <2>1. (IF manifest = Corrupt THEN <<>> ELSE manifest) \in Seq(Procs)
    BY <1>1 DEF Types
  <2>2. CASE ~Abort(p)
    <3>a. /\ loaded' = [loaded EXCEPT ![p] = IF manifest = Corrupt THEN <<>> ELSE manifest]
          /\ manifest' = IF manifest = Corrupt THEN <<>> ELSE manifest
          /\ Goto(p, "read")
      BY <1>5, <2>2 DEF load
    <3>b. pc' \in [Procs -> Steps]
      BY <1>1, <1>2, <3>a DEF Goto, Types
    <3>1. /\ loaded' \in [Procs -> Seq(Procs)] /\ manifest' \in Seq(Procs)
          /\ pc' \in [Procs -> Steps]
      BY <1>1, <2>1, <3>a, <3>b DEF Types
    <3> QED
      BY <1>1, <1>5, <2>2, <3>1 DEF load, Types, tree, allocator
  <2> QED
    BY <1>1, <1>5, <2>2, TypesAbort DEF load
<1>6. CASE load_findings_tolerant(p)
  <2>1. Evidence \in SUBSET Names
    BY <1>1 DEF Evidence, Types
  <2>2. CASE ~Abort(p)
    <3>1. doc' \in [Procs -> SUBSET Names] /\ pc' \in [Procs -> Steps]
      BY <1>1, <1>2, <1>6, <2>1, <2>2 DEF load_findings_tolerant, Goto, Types, store
    <3>2. UNCHANGED <<tree, allocator, inherited, due, holders, loaded, manifest, files,
                      attested, recorded, last>>
      BY <1>6, <2>2 DEF load_findings_tolerant, store
    <3> QED
      BY <1>1, <3>1, <3>2 DEF Types, tree, allocator
  <2> QED
    BY <1>1, <1>6, <2>2, TypesAbort DEF load_findings_tolerant
<1>7. CASE record_producer(p)
  <2>1. CASE ~Abort(p)
    <3>1. manifest' \in Seq(Procs) /\ recorded' \in Seq(Procs)
      BY <1>1, <1>7, <2>1, TypesSave DEF record_producer
    <3>2. pc' \in [Procs -> Steps]
      BY <1>1, <1>2, <1>7, <2>1 DEF record_producer, Goto, Types, Derived
    <3> QED
      BY <1>1, <1>7, <2>1, <3>1, <3>2 DEF record_producer, Types, tree, allocator
  <2> QED
    BY <1>1, <1>7, <2>1, TypesAbort DEF record_producer
<1>8. CASE RecordOnly(p)
  <2>1. "failed" \in Ended /\ Leave(p, "failed")
    BY <1>8 DEF Ended, RecordOnly
  <2>2. manifest' \in Seq(Procs) \cup {Corrupt} /\ recorded' \in Seq(Procs)
    BY <1>1, <1>8, TypesSave DEF RecordOnly, Types
  <2>3. /\ pc' \in [Procs -> Steps] /\ holders' \subseteq Procs
        /\ loaded' \in [Procs -> Seq(Procs)] /\ doc' \in [Procs -> SUBSET Names]
        /\ last' \in Ended \cup {"none"}
    BY <1>1, <2>1, TypesLeave
  <2> QED
    BY <1>1, <1>8, <2>2, <2>3 DEF RecordOnly, Types, tree, allocator
<1>9. CASE write_atomic(p)
  <2>1. CASE ~Abort(p)
    <3>1. pc[p] \in Derived /\ After[pc[p]] \in Steps
      BY <1>2, <1>9, OrderOfFiles DEF write_atomic
    <3>2. doc[p] \in Dirs /\ Absent \in Dirs
      BY <1>1 DEF Types, Dirs
    <3>3. files' \in [Derived -> Dirs]
      BY <1>1, <1>9, <2>1, <3>1, <3>2 DEF write_atomic, Types
    <3>4. pc' \in [Procs -> Steps]
      BY <1>1, <1>9, <2>1, <3>1 DEF write_atomic, Goto, Types
    <3> QED
      BY <1>1, <1>9, <2>1, <3>3, <3>4 DEF write_atomic, Types, tree, allocator
  <2> QED
    BY <1>1, <1>9, <2>1, TypesAbort DEF write_atomic
<1>10. CASE attestation(p)
  <2>1. CASE ~Abort(p)
    <3>1. "ok" \in Ended /\ Leave(p, "ok") /\ attested' = Subjects
      BY <1>10, <2>1 DEF Ended, attestation
    <3>2. manifest \in Seq(Procs)
      BY <1>1, <1>10 DEF attestation, Types, LockInv, LockedSteps
    <3>3. attested' \in [files : [Derived -> Dirs], manifest : Seq(Procs), evidence : SUBSET Names]
      BY <1>1, <3>1, <3>2 DEF Subjects, Evidence, Types
    <3>4. /\ pc' \in [Procs -> Steps] /\ holders' \subseteq Procs
          /\ loaded' \in [Procs -> Seq(Procs)] /\ doc' \in [Procs -> SUBSET Names]
          /\ last' \in Ended \cup {"none"}
      BY <1>1, <3>1, TypesLeave
    <3> QED
      BY <1>1, <1>10, <2>1, <3>3, <3>4 DEF attestation, Types, tree, allocator
  <2> QED
    BY <1>1, <1>10, <2>1, TypesAbort DEF attestation
<1> QED
  BY <1>3, <1>4, <1>5, <1>6, <1>7, <1>8, <1>9, <1>10 DEF Complete

(* A process dies.                                                         *)
LEMMA TypesCrash ==
  ASSUME StoreInv, NEW p \in Procs, Crash(p)
  PROVE  Types'
<1>1. Types /\ "crashed" \in Ended /\ Leave(p, "crashed")
  BY DEF StoreInv, Ended, Crash
<1>2. /\ pc' \in [Procs -> Steps] /\ holders' \subseteq Procs
      /\ loaded' \in [Procs -> Seq(Procs)] /\ doc' \in [Procs -> SUBSET Names]
      /\ last' \in Ended \cup {"none"}
  BY <1>1, TypesLeave
<1> QED
  BY <1>1, <1>2 DEF Crash, Types, tree, allocator

-----------------------------------------------------------------------------
(* Before the lock: migration and the command itself.                      *)

(* Where a process is before and after such a step.                        *)
LEMMA OutsideControl ==
  ASSUME StoreInv, NEW p \in Procs, prepare(p) \/ Produce(p)
  PROVE  /\ pc[p] \notin LockedSteps \cup {"ok"}
         /\ pc'[p] \notin LockedSteps \cup {"ok"}
         /\ \A q \in Procs : q # p => pc'[q] = pc[q]
<1>1. pc \in [Procs -> Steps]
  BY DEF StoreInv, Types
<1>2. CASE prepare(p)
  BY <1>1, <1>2 DEF prepare, migrate_legacy, TargetExists, is_nonempty_dir,
     peer_migrated, remove_dir, migrate_inner, RenameFails, rename_or_detect_peer,
     DropReproducers, Goto, LockedSteps, Derived
<1>3. CASE Produce(p)
  BY <1>1, <1>3 DEF Produce, Scan, FindsNothing, AfterRun, create_dir_all,
     create_named, emit, Goto, LockedSteps, Derived
<1> QED
  BY <1>2, <1>3

(* Migration: the findings go from one directory to the other.             *)
LEMMA TreePrepare ==
  ASSUME StoreInv, NEW p \in Procs, prepare(p), UNCHANGED <<allocator, store, history>>
  PROVE  /\ TreeInv' /\ Content(target) \subseteq Content(target')
         /\ written \subseteq written'
<1>1. /\ Types /\ TreeInv
      /\ \A q \in Procs : q # p => pc'[q] = pc[q]
  BY OutsideControl DEF StoreInv
<1>2. /\ legacy = Absent => legacy' = Absent
      /\ Content(target) \subseteq Content(target') /\ written \subseteq written'
      /\ misled \subseteq misled'
  BY DEF prepare, migrate_legacy, TargetExists, is_nonempty_dir, peer_migrated,
     remove_dir, Removable, migrate_inner, rename_or_detect_peer, DropReproducers,
     tree, Content
<1>4. EvidenceSurvives'
  <2>1. /\ written \subseteq Content(target) /\ inherited' = inherited
        /\ IF legacy = Absent THEN inherited \subseteq written ELSE legacy = inherited
    BY <1>1 DEF TreeInv, EvidenceSurvives, history
  <2>2. CASE UNCHANGED <<legacy, written>>
    BY <1>2, <2>1, <2>2 DEF EvidenceSurvives
  <2>3. CASE /\ legacy # Absent /\ target \in {Absent, {}}
             /\ target' = legacy /\ legacy' = Absent /\ written' = written \cup legacy
    <3>1. Content(target) = {} /\ Content(target') = legacy
      BY <2>3 DEF Content
    <3> QED
      BY <2>1, <2>3, <3>1 DEF EvidenceSurvives
  <2> QED
    BY <2>2, <2>3 DEF prepare, migrate_legacy, TargetExists, is_nonempty_dir,
       peer_migrated, remove_dir, migrate_inner, rename_or_detect_peer,
       DropReproducers, tree
<1>3. /\ pc'[p] \notin (MigrationSteps \ {"cleanup"}) \cup {"refused", "crashed"}
           => legacy' = Absent \/ p \in misled'
      /\ pc'[p] # "write"
  BY <1>1, <1>2 DEF prepare, migrate_legacy, TargetExists, is_nonempty_dir,
     peer_migrated, remove_dir, migrate_inner, RenameFails, rename_or_detect_peer,
     DropReproducers, Goto, tree, Types, TreeInv, MigrationSteps
<1> QED
  BY <1>1, <1>2, <1>3, <1>4 DEF TreeInv, FindingsAreExclusive, allocator

(* The command: a finding directory is made once, and filled by its maker. *)
LEMMA TreeProduce ==
  ASSUME StoreInv, NEW p \in Procs, Produce(p)
  PROVE  /\ TreeInv' /\ Content(target) \subseteq Content(target')
         /\ written \subseteq written'
<1>1. /\ Types /\ TreeInv /\ UNCHANGED <<legacy, inherited, misled>>
      /\ \A q \in Procs : q # p => pc'[q] = pc[q]
  BY OutsideControl DEF StoreInv, Produce, Scan, FindsNothing, create_dir_all,
     create_named, emit, tree, history
<1>2. legacy = Absent \/ p \in misled
  BY <1>1 DEF Produce, Scan, FindsNothing, create_dir_all, create_named, emit,
     TreeInv, MigrationSteps
<1>3. CASE /\ create_named(p) /\ target # Absent
           /\ <<next[p], Sig[p]>> \notin target
           /\ target' = target \cup {<<next[p], Sig[p]>>}
           /\ mine' = [mine EXCEPT ![p] = <<next[p], Sig[p]>>]
  <2> DEFINE name == <<next[p], Sig[p]>>
  <2>1. name \in Names
    BY <1>1, StoreAssumption DEF Types
  <2>2. target' # Absent /\ written' = written
    BY <1>1, <1>3, <2>1, MigrationAssumption DEF Types, Dirs, create_named
  <2>3. /\ Content(target) = target /\ Content(target') = target \cup {name}
        /\ \A q \in Procs : mine[q] # Absent => mine[q] # name
    BY <1>1, <1>3, <2>2 DEF TreeInv, Content
  <2>4. mine' = [mine EXCEPT ![p] = name] /\ mine \in [Procs -> Names \cup {Absent}]
    BY <1>1, <1>3 DEF Types
  <2> HIDE DEF name
  <2>5. FindingsAreExclusive'
    BY <1>1, <2>3, <2>4 DEF TreeInv, FindingsAreExclusive
  <2>6. \A q \in Procs :
          /\ mine'[q] # Absent => mine'[q] \in Content(target')
          /\ pc'[q] = "write" => mine'[q] \in Content(target')
    BY <1>1, <2>3, <2>4 DEF TreeInv
  <2> QED
    BY <1>1, <1>2, <2>2, <2>3, <2>5, <2>6 DEF TreeInv, EvidenceSurvives
<1>4. CASE /\ mine' = mine /\ pc'[p] # "write"
           /\ target' = target \/ target' = Content(target)
           /\ written' = written \/ (emit(p) /\ written' = written \cup {mine[p]})
  <2>1. Content(target') = Content(target)
    BY <1>4, MigrationAssumption DEF Content
  <2>2. emit(p) => mine[p] \in Content(target)
    BY <1>1 DEF emit, TreeInv
  <2> QED
    BY <1>1, <1>2, <1>4, <2>1, <2>2
    DEF TreeInv, EvidenceSurvives, FindingsAreExclusive
<1>5. CASE Scan(p) \/ FindsNothing(p) \/ create_dir_all(p) \/ emit(p)
  <2>1. pc'[p] # "write"
    BY <1>1, <1>5 DEF Scan, FindsNothing, AfterRun, create_dir_all, emit, Goto, Types
  <2> QED
    BY <1>4, <1>5, <2>1 DEF Scan, FindsNothing, create_dir_all, emit, allocator, tree
<1>6. CASE create_named(p)
  <2>1. CASE next[p] = MaxOrdinal \/ target = Absent
    <3>1. pc'[p] # "write"
      BY <1>1, <1>6, <2>1 DEF create_named, AfterRun, Goto, Types
    <3> QED
      BY <1>4, <1>6, <2>1, <3>1 DEF create_named
  <2>2. CASE ~(next[p] = MaxOrdinal \/ target = Absent) /\ <<next[p], Sig[p]>> \in target
    <3>1. pc'[p] # "write"
      BY <1>1, <1>6, <2>2 DEF create_named, Taken
    <3> QED
      BY <1>4, <1>6, <2>2, <3>1 DEF create_named, Taken
  <2>3. CASE ~(next[p] = MaxOrdinal \/ target = Absent) /\ <<next[p], Sig[p]>> \notin target
    BY <1>3, <1>6, <2>3 DEF create_named, Taken
  <2> QED
    BY <2>1, <2>2, <2>3
<1> QED
  BY <1>5, <1>6 DEF Produce

(* What the lock guards is not touched, and there is no less evidence.     *)
LEMMA OutsideStep ==
  ASSUME StoreInv, NEW p \in Procs, prepare(p) \/ Produce(p),
         UNCHANGED <<store, history>>,
         Content(target) \subseteq Content(target'), written \subseteq written'
  PROVE  LockInv' /\ DocInv' /\ ManifestInv'
<1>1. /\ pc[p] \notin LockedSteps \cup {"ok"}
      /\ pc'[p] \notin LockedSteps \cup {"ok"}
      /\ \A q \in Procs : q # p => pc'[q] = pc[q]
  BY OutsideControl
<1>2. \A q \in Procs : \A step \in LockedSteps \cup {"ok"} : pc'[q] = step => pc[q] = step
  BY <1>1
<1>3. /\ UNCHANGED <<holders, manifest, loaded, doc, files, attested>>
      /\ UNCHANGED <<recorded, due, last>>
  BY DEF store, history
<1>4. LockInv'
  BY <1>1, <1>3 DEF StoreInv, LockInv, Types
<1>5. Evidence \subseteq Evidence'
  BY DEF Evidence
<1>6. \A q \in Procs : pc'[q] \in Rebuilding => pc'[q] = pc[q]
  BY <1>2 DEF Rebuilding, LockedSteps
<1>7. \A q \in Procs : pc'[q] = "ok" => pc[q] = "ok"
  BY <1>2
<1>8. DocInv'
  BY <1>3, <1>5, <1>6, <1>7 DEF StoreInv, DocInv, CommitPointIsLast, OkMeansIndexed
<1>9. \A q \in Procs : pc'[q] \in {"read", "record", "record only"} => pc'[q] = pc[q]
  BY <1>2 DEF LockedSteps
<1>10. ManifestInv'
  BY <1>3, <1>5, <1>9 DEF StoreInv, ManifestInv, ProducersAreKept, AttestationHolds
<1> QED
  BY <1>4, <1>8, <1>10

-----------------------------------------------------------------------------
(* Under the lock.                                                         *)

(* The bracket leaves the trees and the allocator alone.                   *)
LEMMA BracketControl ==
  ASSUME StoreInv, NEW p \in Procs, Complete(p) \/ Crash(p)
  PROVE  /\ TreeInv' /\ Evidence' = Evidence
         /\ \A q \in Procs : q # p => pc'[q] = pc[q]
         /\ pc[p] \in LockedSteps => \A q \in Procs : q # p => pc[q] \notin LockedSteps
<1>1. Types /\ LockInv /\ TreeInv
  BY DEF StoreInv
<1>2. UNCHANGED <<tree, allocator, inherited>>
  BY DEF Complete, acquire, LockTimeout, load, load_findings_tolerant, record_producer,
     RecordOnly, write_atomic, attestation, Crash, history
<1>3. \E step \in Steps : Goto(p, step) /\ (Crash(p) => step = "crashed")
                          /\ step # "write"
  <2>1. \A file \in Derived : After[file] \in Steps /\ After[file] # "write"
    BY OrderOfFiles DEF Derived
  <2>2. {"load", "read", "record", "record only", "csv", "attest", "ok", "failed",
         "crashed"} \subseteq Steps
    BY DEF Steps, LockedSteps, Derived, Ended
  <2> QED
    BY <2>1, <2>2 DEF Complete, acquire, LockTimeout, load, load_findings_tolerant,
       record_producer, RecordOnly, write_atomic, attestation, Abort, Leave, Crash
<1>4. PICK step \in Steps : Goto(p, step) /\ (Crash(p) => step = "crashed")
                           /\ step # "write"
  BY <1>3
<1>5. pc' = [pc EXCEPT ![p] = step] /\ pc \in [Procs -> Steps]
  BY <1>1, <1>4 DEF Goto, Types
<1>6. Complete(p) => legacy = Absent \/ p \in misled
  <2>1. Complete(p) => pc[p] \in LockedSteps \cup {"acquire"}
    BY DEF Complete, acquire, LockTimeout, load, load_findings_tolerant,
       record_producer, RecordOnly, write_atomic, attestation, LockedSteps
  <2>2. \A s \in LockedSteps \cup {"acquire"} :
          s \notin (MigrationSteps \ {"cleanup"}) \cup {"refused", "crashed"}
    BY DEF LockedSteps, Derived, MigrationSteps
  <2> QED
    BY <1>1, <2>1, <2>2 DEF TreeInv
<1>7. TreeInv'
  BY <1>1, <1>2, <1>4, <1>5, <1>6
  DEF TreeInv, EvidenceSurvives, FindingsAreExclusive, tree, allocator
<1>8. Evidence' = Evidence
  BY <1>2 DEF Evidence, tree
<1>9. pc[p] \in LockedSteps => \A q \in Procs : q # p => pc[q] \notin LockedSteps
  BY <1>1 DEF LockInv
<1> QED
  BY <1>5, <1>7, <1>8, <1>9

(* The lock is taken.                                                      *)
LEMMA AcquireStep ==
  ASSUME StoreInv, NEW p \in Procs, acquire(p)
  PROVE  LockInv' /\ DocInv' /\ ManifestInv'
<1>1. /\ Evidence' = Evidence /\ Types
      /\ \A q \in Procs : q # p => pc'[q] = pc[q]
  BY BracketControl DEF Complete, StoreInv
<1>2. /\ holders = {} /\ holders' = {p} /\ pc'[p] = "load" /\ pc[p] = "acquire"
      /\ due' = [due EXCEPT ![p] = Evidence]
      /\ UNCHANGED <<manifest, loaded, doc, files, attested, recorded, last>>
  BY <1>1 DEF acquire, Unlocked, Goto, Types
<1>3. \A q \in Procs : pc[q] \notin LockedSteps
  BY <1>2 DEF StoreInv, LockInv
<1>4. LockInv'
  BY <1>1, <1>2, <1>3 DEF LockInv, LockedSteps
<1>5. \A q \in Procs : pc'[q] \notin Rebuilding /\ (pc'[q] = "ok" => q # p /\ pc[q] = "ok")
  BY <1>1, <1>2, <1>3 DEF Rebuilding, LockedSteps, Derived
<1>6. \A q \in Procs : due'[q] = IF q = p THEN Evidence ELSE due[q]
  BY <1>1, <1>2 DEF Types
<1>7. DocInv'
  BY <1>1, <1>2, <1>5, <1>6 DEF StoreInv, DocInv, CommitPointIsLast, OkMeansIndexed
<1>8. \A q \in Procs : pc'[q] \notin {"read", "record", "record only"}
  BY <1>1, <1>2, <1>3 DEF LockedSteps
<1>9. ManifestInv'
  BY <1>2, <1>8 DEF StoreInv, ManifestInv, ProducersAreKept, AttestationHolds
<1> QED
  BY <1>4, <1>7, <1>9

(* A process that leaves, with its work undone.                            *)
LEMMA LeaveStep ==
  ASSUME StoreInv, NEW p \in Procs, NEW how \in {"failed", "crashed"}, Leave(p, how),
         UNCHANGED <<files, attested, due, Evidence>>,
         \/ manifest' = manifest /\ recorded' = recorded
         \/ /\ pc[p] = "record only" /\ manifest' # Corrupt
            /\ Len(manifest') <= MaxProducers /\ ProducersAreKept'
  PROVE  LockInv' /\ DocInv' /\ ManifestInv'
<1>1. Types /\ LockInv /\ DocInv /\ ManifestInv
  BY DEF StoreInv
<1>2. /\ pc'[p] = how /\ holders' = holders \ {p}
      /\ \A q \in Procs : q # p => pc'[q] = pc[q] /\ doc'[q] = doc[q] /\ loaded'[q] = loaded[q]
      /\ doc'[p] = {}
      /\ last' = IF p \in holders THEN how ELSE last
  BY <1>1 DEF Leave, Goto, Types
<1>3. how \notin LockedSteps /\ how # "ok" /\ how \notin Rebuilding
      /\ how \notin {"read", "record", "record only"}
  BY DEF LockedSteps, Derived, Rebuilding
<1>4. LockInv'
  <2>1. \A q \in holders' : q \in holders /\ q # p /\ q \in Procs
    BY <1>1, <1>2 DEF Types
  <2> QED
    BY <1>1, <1>2, <1>3, <2>1 DEF LockInv
<1>5. DocInv'
  BY <1>1, <1>2, <1>3 DEF DocInv, CommitPointIsLast, OkMeansIndexed
<1>6. CASE manifest' = manifest /\ recorded' = recorded
  <2>1. AttestationHolds'
    <3>1. CASE p \in holders
      BY <1>2, <1>3, <3>1 DEF AttestationHolds
    <3>2. CASE p \notin holders
      BY <1>1, <1>2, <1>6, <3>2 DEF AttestationHolds, ManifestInv
    <3> QED
      BY <3>1, <3>2
  <2> QED
    BY <1>1, <1>2, <1>3, <1>4, <1>5, <1>6, <2>1 DEF ManifestInv, ProducersAreKept
<1>7. CASE /\ pc[p] = "record only" /\ manifest' # Corrupt
           /\ Len(manifest') <= MaxProducers /\ ProducersAreKept'
  <2>1. p \in holders /\ "record only" \in LockedSteps
    BY <1>1, <1>7 DEF LockInv, LockedSteps
  <2>2. \A q \in Procs : pc'[q] \notin {"read", "record", "record only"}
    BY <1>1, <1>2, <1>3, <2>1 DEF LockInv, LockedSteps
  <2>3. AttestationHolds'
    BY <1>2, <1>3, <2>1 DEF AttestationHolds
  <2> QED
    BY <1>4, <1>5, <1>7, <2>2, <2>3 DEF ManifestInv
<1> QED
  BY <1>4, <1>5, <1>6, <1>7

(* An error on the way.                                                    *)
LEMMA AbortStep ==
  ASSUME StoreInv, NEW p \in Procs, Abort(p), UNCHANGED <<due, Evidence>>
  PROVE  LockInv' /\ DocInv' /\ ManifestInv'
  BY LeaveStep DEF Abort

(* A step from one place in the locked section to another.                 *)
LEMMA LockKept ==
  ASSUME StoreInv, NEW p \in Procs, pc[p] \in LockedSteps,
         NEW step \in LockedSteps, pc' = [pc EXCEPT ![p] = step],
         holders' = holders, manifest' # Corrupt
  PROVE  LockInv'
<1>1. Types /\ LockInv
  BY DEF StoreInv
<1>2. \A q \in Procs : pc'[q] = IF q = p THEN step ELSE pc[q]
  BY <1>1 DEF Types
<1> QED
  BY <1>1, <1>2 DEF LockInv

(* The manifest is read.                                                   *)
LEMMA LoadStep ==
  ASSUME StoreInv, NEW p \in Procs, load(p), ~Abort(p)
  PROVE  LockInv' /\ DocInv' /\ ManifestInv'
<1>1. /\ Types /\ LockInv /\ DocInv /\ ManifestInv
      /\ pc[p] = "load" /\ pc[p] \in LockedSteps /\ "read" \in LockedSteps
      /\ loaded' = [loaded EXCEPT ![p] = manifest']
      /\ manifest' = IF manifest = Corrupt THEN <<>> ELSE manifest
      /\ pc' = [pc EXCEPT ![p] = "read"]
      /\ UNCHANGED <<holders, doc, files, attested, recorded, last, due>>
  BY DEF StoreInv, load, Goto, LockedSteps
<1>2. /\ Evidence' = Evidence
      /\ \A q \in Procs : q # p => pc'[q] = pc[q] /\ pc[q] \notin LockedSteps
  BY <1>1, BracketControl DEF Complete
<1>3. manifest' # Corrupt /\ manifest' \in Seq(Procs) /\ pc'[p] = "read"
  <2>1. <<>> \in Seq(Procs)
    OBVIOUS
  <2> QED
    BY <1>1, <2>1, StoreAssumption DEF Types
<1>4. LockInv'
  BY <1>1, <1>3, LockKept
<1>5. \A q \in Procs : pc'[q] \notin Rebuilding /\ (pc'[q] = "ok" => pc[q] = "ok")
  BY <1>1, <1>2, <1>3, StepNames
<1>6. DocInv'
  BY <1>1, <1>2, <1>5 DEF DocInv, CommitPointIsLast, OkMeansIndexed
<1>7. \A q \in Procs : pc'[q] \in {"read", "record", "record only"} => q = p
  BY <1>2 DEF LockedSteps
<1>8. loaded'[p] = manifest'
  BY <1>1 DEF Types
<1>9. ProducersAreKept' /\ Len(manifest') <= MaxProducers
  <2>1. CASE manifest = Corrupt
    <3>1. recorded' = <<>> /\ manifest' = <<>>
      BY <1>1, <2>1 DEF ManifestInv
    <3> QED
      BY <3>1, StoreAssumption DEF ProducersAreKept
  <2>2. CASE manifest # Corrupt
    BY <1>1, <2>2 DEF ManifestInv, ProducersAreKept
  <2> QED
    BY <2>1, <2>2
<1>10. p \in holders'
  BY <1>1 DEF LockInv
<1>11. ManifestInv'
  BY <1>3, <1>7, <1>8, <1>9, <1>10 DEF ManifestInv, AttestationHolds
<1> QED
  BY <1>4, <1>6, <1>11

(* The findings are read: all the evidence there is.                       *)
LEMMA ReadStep ==
  ASSUME StoreInv, NEW p \in Procs, load_findings_tolerant(p), ~Abort(p)
  PROVE  LockInv' /\ DocInv' /\ ManifestInv'
<1>1. /\ Types /\ LockInv /\ DocInv /\ ManifestInv
      /\ pc[p] = "read" /\ pc[p] \in LockedSteps
      /\ UNCHANGED <<holders, manifest, loaded, files, attested, recorded, last, due>>
  BY DEF StoreInv, load_findings_tolerant, store, LockedSteps
<1>2. /\ Evidence' = Evidence
      /\ \A q \in Procs : q # p => pc'[q] = pc[q] /\ pc[q] \notin LockedSteps
  BY <1>1, BracketControl DEF Complete
<1>3. \/ /\ pc' = [pc EXCEPT ![p] = "record"]
         /\ doc' = [doc EXCEPT ![p] = Evidence]
      \/ pc' = [pc EXCEPT ![p] = "record only"] /\ doc' = doc
  BY DEF load_findings_tolerant, Goto, store
<1>4. /\ \/ pc'[p] = "record" /\ doc'[p] = Evidence
         \/ pc'[p] = "record only" /\ doc'[p] = doc[p]
      /\ \A q \in Procs : q # p => doc'[q] = doc[q]
  BY <1>1, <1>3 DEF Types
<1>5. p \in holders /\ manifest # Corrupt
  BY <1>1 DEF LockInv
<1>6. LockInv'
  <2>1. "record" \in LockedSteps /\ "record only" \in LockedSteps
    BY DEF LockedSteps
  <2> QED
    BY <1>1, <1>3, <1>5, <2>1, LockKept
<1>7. \A q \in Procs : /\ pc'[q] \in Rebuilding => q = p /\ pc'[q] = "record"
                       /\ pc'[q] = "ok" => pc[q] = "ok"
  BY <1>2, <1>4, StepNames DEF Rebuilding, Derived
<1>8. DocInv'
  BY <1>1, <1>2, <1>4, <1>7 DEF DocInv, CommitPointIsLast, OkMeansIndexed
<1>9. \A q \in Procs : pc'[q] \in {"read", "record", "record only"} => q = p
  BY <1>2 DEF LockedSteps
<1>10. loaded[p] = manifest
  BY <1>1 DEF ManifestInv
<1>11. ManifestInv'
  BY <1>1, <1>5, <1>9, <1>10 DEF ManifestInv, ProducersAreKept, AttestationHolds
<1> QED
  BY <1>6, <1>8, <1>11

(* One more producer on both lists: the kept one stays the end of all.     *)
LEMMA EndStaysTheEnd ==
  ASSUME NEW m, NEW all, NEW t, EndOf(m, all), t \in Seq(Procs) /\ Len(t) <= 1
  PROVE  EndOf(Kept(m \o t), all \o t)
<1> DEFINE mt == m \o t
           at == all \o t
           k == Kept(mt)
<1>1. m \in Seq(Procs) /\ all \in Seq(Procs) /\ t \in Seq(Procs)
  BY DEF EndOf
<1>2. mt \in Seq(Procs) /\ at \in Seq(Procs)
  BY <1>1, ConcatProperties
<1>3. /\ k \in Seq(Procs) /\ Len(k) <= MaxProducers /\ Len(k) <= Len(mt)
      /\ Len(k) < Len(mt) => Len(k) = MaxProducers
      /\ \A i \in 1..Len(k) : k[i] = mt[Len(mt) - Len(k) + i]
  BY <1>2, KeptIsTheEnd
<1>4. /\ Len(m) \in Nat /\ Len(all) \in Nat /\ Len(t) \in Nat /\ Len(k) \in Nat
  BY <1>1, <1>3, LenProperties
<1>5. /\ Len(mt) = Len(m) + Len(t) /\ Len(at) = Len(all) + Len(t)
      /\ \A i \in 1..(Len(m) + Len(t)) :
           mt[i] = IF i <= Len(m) THEN m[i] ELSE t[i - Len(m)]
      /\ \A i \in 1..(Len(all) + Len(t)) :
           at[i] = IF i <= Len(all) THEN all[i] ELSE t[i - Len(all)]
  BY <1>1, ConcatProperties
<1>6. MaxProducers \in Nat \ {0} /\ Len(t) <= 1
  BY StoreAssumption
<1>7. /\ Len(m) <= MaxProducers /\ Len(m) <= Len(all)
      /\ Len(m) < Len(all) => Len(m) = MaxProducers
      /\ \A i \in 1..Len(m) : m[i] = all[Len(all) - Len(m) + i]
  BY DEF EndOf
<1> HIDE DEF mt, at, k
<1>8. /\ Len(k) <= Len(at)
      /\ Len(k) < Len(at) => Len(k) = MaxProducers
  BY <1>3, <1>4, <1>5, <1>6, <1>7
<1>9. ASSUME NEW i \in 1..Len(k)
      PROVE  k[i] = at[Len(at) - Len(k) + i]
  <2> DEFINE a == Len(m) + Len(t) - Len(k) + i
             b == Len(all) + Len(t) - Len(k) + i
  <2>1. /\ a \in 1..(Len(m) + Len(t)) /\ b \in 1..(Len(all) + Len(t))
        /\ b = Len(all) - Len(m) + a
    BY <1>3, <1>4, <1>5, <1>7, <1>9
  <2>2. k[i] = mt[a] /\ Len(at) - Len(k) + i = b
    BY <1>3, <1>4, <1>5, <1>9
  <2> HIDE DEF a, b
  <2>3. CASE a <= Len(m)
    <3>1. a \in 1..Len(m) /\ b <= Len(all)
      BY <1>4, <1>7, <2>1, <2>3
    <3>2. mt[a] = m[a] /\ at[b] = all[b]
      BY <1>5, <2>1, <2>3, <3>1
    <3>3. m[a] = all[b]
      BY <1>7, <2>1, <3>1
    <3> QED
      BY <2>2, <3>2, <3>3
  <2>4. CASE ~(a <= Len(m))
    <3>1. ~(b <= Len(all)) /\ a - Len(m) = b - Len(all)
      BY <1>4, <2>1, <2>4
    <3>2. mt[a] = t[a - Len(m)] /\ at[b] = t[b - Len(all)]
      BY <1>5, <2>1, <2>4, <3>1
    <3> QED
      BY <2>2, <3>1, <3>2
  <2> QED
    BY <2>3, <2>4
<1> QED
  BY <1>2, <1>3, <1>8, <1>9 DEF EndOf, mt, at, k

(* The same in the words of ProducersAreKept.                              *)
LEMMA EndOrLost ==
  ASSUME NEW m, NEW all, m \in Seq(Procs), all \in Seq(Procs),
         Len(m) <= MaxProducers
  PROVE  EndOf(m, all) <=>
           LET lost == Len(all) - Len(m) IN
           /\ lost >= 0 /\ (lost > 0 => Len(m) = MaxProducers)
           /\ \A i \in 1..Len(m) : m[i] = all[lost + i]
<1>1. Len(m) \in Nat /\ Len(all) \in Nat
  BY LenProperties
<1> DEFINE a == Len(m)
           b == Len(all)
<1>2. a \in Nat /\ b \in Nat
  BY <1>1
<1> HIDE DEF a, b
<1>3. (a <= b <=> b - a >= 0) /\ (a < b <=> b - a > 0)
  BY <1>2
<1> QED
  BY <1>3 DEF EndOf, a, b

(* A command adds at most one producer.                                    *)
LEMMA PendingIsShort ==
  ASSUME NEW p \in Procs
  PROVE  Pending(p) \in Seq(Procs) /\ Len(Pending(p)) <= 1
<1>1. <<p>> \in Seq(Procs) /\ Len(<<p>>) = 1
  OBVIOUS
<1>2. <<>> \in Seq(Procs) /\ Len(<<>>) = 0
  OBVIOUS
<1>3. Pending(p) = <<>> \/ Pending(p) = <<p>>
  BY DEF Pending
<1>4. Pending(p) \in Seq(Procs)
  BY <1>1, <1>2, <1>3
<1>5. Len(Pending(p)) \in {0, 1}
  BY <1>1, <1>2, <1>3
<1>6. \A n \in {0, 1} : n <= 1
  OBVIOUS
<1>7. Len(Pending(p)) <= 1
  BY <1>5, <1>6
<1> QED
  BY <1>4, <1>7

(* manifest::save by who holds the lock loses no producer but the oldest.  *)
LEMMA SaveKeeps ==
  ASSUME StoreInv, NEW p \in Procs, Save(p), pc[p] \in {"record", "record only"}
  PROVE  /\ manifest' # Corrupt /\ Len(manifest') <= MaxProducers
         /\ ProducersAreKept'
<1>1. /\ Types /\ LockInv /\ ManifestInv
      /\ pc[p] \in LockedSteps /\ pc[p] # "load" /\ pc[p] \in {"read", "record", "record only"}
  BY DEF StoreInv, LockedSteps
<1>2. loaded[p] = manifest /\ manifest # Corrupt
  BY <1>1 DEF ManifestInv, LockInv
<1>3. manifest \in Seq(Procs) /\ recorded \in Seq(Procs)
  BY <1>1, <1>2 DEF Types
<1>4. EndOf(manifest, recorded)
  <2>1. Len(manifest) <= MaxProducers /\ ProducersAreKept
    BY <1>1, <1>2 DEF ManifestInv
  <2> QED
    BY <1>2, <1>3, <2>1, EndOrLost DEF ProducersAreKept
<1>5. Pending(p) \in Seq(Procs) /\ Len(Pending(p)) <= 1
  BY PendingIsShort
<1>6. EndOf(manifest', recorded')
  <2>1. EndOf(Kept(manifest \o Pending(p)), recorded \o Pending(p))
    BY <1>4, <1>5, EndStaysTheEnd
  <2> QED
    BY <1>2, <2>1 DEF Save
<1>7. manifest' \in Seq(Procs) /\ recorded' \in Seq(Procs) /\ Len(manifest') <= MaxProducers
  BY <1>6 DEF EndOf
<1>8. manifest' # Corrupt
  BY <1>7, StoreAssumption
<1> QED
  BY <1>6, <1>7, <1>8, EndOrLost DEF ProducersAreKept

(* The producer is recorded.                                               *)
LEMMA RecordStep ==
  ASSUME StoreInv, NEW p \in Procs, record_producer(p), ~Abort(p)
  PROVE  LockInv' /\ DocInv' /\ ManifestInv'
<1>1. /\ Types /\ LockInv /\ DocInv /\ ManifestInv
      /\ pc[p] = "record" /\ pc[p] \in LockedSteps /\ "csv" \in LockedSteps
      /\ Save(p) /\ pc' = [pc EXCEPT ![p] = "csv"]
      /\ UNCHANGED <<holders, loaded, doc, files, attested, last, due>>
  BY DEF StoreInv, record_producer, Goto, LockedSteps, Derived
<1>2. /\ Evidence' = Evidence
      /\ \A q \in Procs : q # p => pc'[q] = pc[q] /\ pc[q] \notin LockedSteps
  BY <1>1, BracketControl DEF Complete
<1>3. pc'[p] = "csv" /\ p \in holders
  BY <1>1 DEF Types, LockInv
<1>4. manifest' # Corrupt /\ Len(manifest') <= MaxProducers /\ ProducersAreKept'
  BY <1>1, SaveKeeps
<1>5. LockInv'
  BY <1>1, <1>4, LockKept
<1>6. \A q \in Procs : /\ pc'[q] \in Rebuilding => q = p
                       /\ pc'[q] = "ok" => pc[q] = "ok"
                       /\ pc'[q] \notin {"read", "record", "record only"}
  BY <1>2, <1>3, StepNames DEF LockedSteps
<1>7. pc[p] \in Rebuilding
  BY <1>1 DEF Rebuilding
<1>8. DocInv'
  BY <1>1, <1>2, <1>3, <1>6, <1>7 DEF DocInv, CommitPointIsLast, OkMeansIndexed
<1>9. ManifestInv'
  BY <1>1, <1>3, <1>4, <1>6 DEF ManifestInv, AttestationHolds
<1> QED
  BY <1>5, <1>8, <1>9

(* One derived file is replaced, in the order that makes findings.json the *)
(* last one.                                                               *)
LEMMA WriteStep ==
  ASSUME StoreInv, NEW p \in Procs, write_atomic(p), ~Abort(p)
  PROVE  LockInv' /\ DocInv' /\ ManifestInv'
<1>1. /\ Types /\ LockInv /\ DocInv /\ ManifestInv
      /\ pc[p] \in Derived /\ pc[p] \in LockedSteps /\ pc[p] \in Rebuilding
      /\ pc' = [pc EXCEPT ![p] = After[pc[p]]]
      /\ UNCHANGED <<holders, loaded, doc, manifest, attested, recorded, last, due>>
  BY StepNames DEF StoreInv, write_atomic, Goto, Rebuilding
<1>2. /\ Evidence' = Evidence
      /\ \A q \in Procs : q # p => pc'[q] = pc[q] /\ pc[q] \notin LockedSteps
  BY <1>1, BracketControl DEF Complete
<1>3. pc'[p] = After[pc[p]] /\ After[pc[p]] \in LockedSteps
  BY <1>1, OrderOfFiles DEF Types
<1>4. p \in holders /\ manifest # Corrupt
  BY <1>1 DEF LockInv, Derived
<1>5. LockInv'
  BY <1>1, <1>3, <1>4, LockKept
<1>6. \A q \in Procs : /\ pc'[q] \in Rebuilding => q = p
                       /\ pc'[q] = "ok" => q # p /\ pc[q] = "ok"
                       /\ pc'[q] \in {"read", "record", "record only"} => q = p
  BY <1>2, <1>3, StepNames DEF LockedSteps, Derived
<1>7. pc'[p] \notin {"read", "record", "record only", "csv"}
  BY <1>1, <1>3, OrderOfFiles DEF Derived
<1>8. ManifestInv'
  BY <1>1, <1>4, <1>6, <1>7 DEF ManifestInv, ProducersAreKept, AttestationHolds
<1>9. /\ due[p] \subseteq doc[p] /\ doc[p] \subseteq Evidence /\ doc[p] # Absent
      /\ files["json"] # Absent => files["json"] \subseteq doc[p]
      /\ DOMAIN files = Derived
  BY <1>1, MigrationAssumption DEF DocInv, Types
<1>10. /\ \/ files' = [files EXCEPT ![pc[p]] = doc[p]]
          \/ pc[p] = "sarif" /\ files' = [files EXCEPT !["sarif"] = Absent]
  BY DEF write_atomic
<1>11. CASE pc[p] = "csv"
  <2>1. /\ pc'[p] = "sarif" /\ files'["csv"] = doc[p]
        /\ \A file \in {"sarif", "index", "json"} : files'[file] = files[file]
    BY <1>3, <1>9, <1>10, <1>11, OrderOfFiles DEF Derived
  <2>2. DocInv'
    BY <1>1, <1>2, <1>6, <1>9, <2>1 DEF DocInv, CommitPointIsLast, OkMeansIndexed
  <2> QED
    BY <1>5, <1>8, <2>2
<1>12. CASE pc[p] = "sarif"
  <2>1. /\ pc'[p] = "index" /\ files'["sarif"] \in {Absent, doc[p]}
        /\ \A file \in {"csv", "index", "json"} : files'[file] = files[file]
    BY <1>3, <1>9, <1>10, <1>12, OrderOfFiles DEF Derived
  <2>2. DocInv'
    BY <1>1, <1>2, <1>6, <1>9, <1>12, <2>1 DEF DocInv, CommitPointIsLast, OkMeansIndexed
  <2> QED
    BY <1>5, <1>8, <2>2
<1>13. CASE pc[p] = "index"
  <2>1. /\ pc'[p] = "json" /\ files'["index"] = doc[p]
        /\ \A file \in {"csv", "sarif", "json"} : files'[file] = files[file]
    BY <1>3, <1>9, <1>10, <1>13, OrderOfFiles DEF Derived
  <2>2. DocInv'
    BY <1>1, <1>2, <1>6, <1>9, <1>13, <2>1 DEF DocInv, CommitPointIsLast, OkMeansIndexed
  <2> QED
    BY <1>5, <1>8, <2>2
<1>14. CASE pc[p] = "json"
  <2>1. /\ pc'[p] = "attest" /\ files'["json"] = doc[p]
        /\ \A file \in {"csv", "sarif", "index"} : files'[file] = files[file]
    BY <1>3, <1>9, <1>10, <1>14, OrderOfFiles DEF Derived
  <2>2. /\ files["csv"] = doc[p] /\ files["index"] = doc[p]
        /\ files["sarif"] \in {Absent, doc[p]}
    BY <1>1, <1>14 DEF DocInv
  <2>3. CommitPointIsLast'
    BY <1>9, <2>1, <2>2 DEF CommitPointIsLast
  <2>4. OkMeansIndexed'
    BY <1>1, <1>6, <1>9, <2>1 DEF DocInv, OkMeansIndexed
  <2>5. DocInv'
    BY <1>1, <1>2, <1>6, <1>9, <1>14, <2>1, <2>3, <2>4 DEF DocInv
  <2> QED
    BY <1>5, <1>8, <2>5
<1> QED
  BY <1>1, <1>11, <1>12, <1>13, <1>14 DEF Derived

(* The attestation, and Ok.                                                *)
LEMMA AttestStep ==
  ASSUME StoreInv, NEW p \in Procs, attestation(p), ~Abort(p)
  PROVE  LockInv' /\ DocInv' /\ ManifestInv'
<1>1. /\ Types /\ LockInv /\ DocInv /\ ManifestInv
      /\ pc[p] = "attest" /\ pc[p] \in LockedSteps /\ pc[p] \in Rebuilding
      /\ attested' = [files |-> files, manifest |-> manifest, evidence |-> Evidence]
      /\ Leave(p, "ok")
      /\ UNCHANGED <<manifest, files, recorded, due>>
  BY DEF StoreInv, attestation, Subjects, LockedSteps, Rebuilding
<1>2. /\ Evidence' = Evidence
      /\ \A q \in Procs : q # p => pc'[q] = pc[q] /\ pc[q] \notin LockedSteps
  BY <1>1, BracketControl DEF Complete
<1>3. /\ pc'[p] = "ok" /\ holders' = holders \ {p} /\ doc'[p] = {}
      /\ \A q \in Procs : q # p => doc'[q] = doc[q] /\ loaded'[q] = loaded[q]
  BY <1>1 DEF Leave, Goto, Types
<1>4. "ok" \notin LockedSteps /\ {"read", "record", "record only"} \subseteq LockedSteps
  BY DEF LockedSteps, Derived
<1>5. \A q \in Procs : pc'[q] \notin LockedSteps
  BY <1>2, <1>3, <1>4
<1>6. LockInv'
  <2>1. holders' = {}
    BY <1>1, <1>2, <1>3 DEF LockInv, Types
  <2> QED
    BY <1>5, <2>1 DEF LockInv
<1>7. files["json"] = doc[p] /\ due[p] \subseteq doc[p] /\ doc[p] # Absent
  BY <1>1, MigrationAssumption DEF DocInv, Types
<1>8. OkMeansIndexed'
  BY <1>1, <1>2, <1>7 DEF DocInv, OkMeansIndexed
<1>9. \A q \in Procs : pc'[q] \notin Rebuilding
  BY <1>5, StepNames
<1>10. DocInv'
  BY <1>1, <1>2, <1>3, <1>8, <1>9 DEF DocInv, CommitPointIsLast
<1>11. ManifestInv'
  <2>1. Content(files["json"]) \subseteq Evidence
    BY <1>1, <1>7 DEF DocInv, Content
  <2> QED
    BY <1>1, <1>2, <1>4, <1>5, <2>1 DEF ManifestInv, ProducersAreKept, AttestationHolds
<1> QED
  BY <1>6, <1>10, <1>11

(* The lock was busy for too long.                                         *)
LEMMA TimeoutStep ==
  ASSUME StoreInv, NEW p \in Procs, LockTimeout(p)
  PROVE  LockInv' /\ DocInv' /\ ManifestInv'
<1>1. /\ Types /\ LockInv /\ DocInv /\ ManifestInv
      /\ pc[p] = "acquire" /\ pc' = [pc EXCEPT ![p] = "failed"]
      /\ UNCHANGED <<holders, manifest, loaded, doc, files, attested>>
      /\ UNCHANGED <<recorded, due, last>>
  BY DEF StoreInv, LockTimeout, Goto, store, history
<1>2. Evidence' = Evidence
  BY BracketControl DEF Complete
<1>3. \A q \in Procs : pc'[q] = IF q = p THEN "failed" ELSE pc[q]
  BY <1>1 DEF Types
<1>4. {"acquire", "failed"} \cap (LockedSteps \cup {"ok"}) = {}
  BY DEF LockedSteps, Derived
<1>5. LockInv'
  BY <1>1, <1>3, <1>4 DEF LockInv, Types
<1>6. \A q \in Procs : /\ pc'[q] \in Rebuilding => pc'[q] = pc[q]
                       /\ pc'[q] = "ok" => pc[q] = "ok"
                       /\ pc'[q] \in {"read", "record", "record only"} => pc'[q] = pc[q]
  BY <1>3, <1>4, StepNames
<1>7. DocInv'
  BY <1>1, <1>2, <1>6 DEF DocInv, CommitPointIsLast, OkMeansIndexed
<1>8. ManifestInv'
  BY <1>1, <1>2, <1>6 DEF ManifestInv, ProducersAreKept, AttestationHolds
<1> QED
  BY <1>5, <1>7, <1>8

(* The bracket that records its producer and fails.                        *)
LEMMA RecordOnlyStep ==
  ASSUME StoreInv, NEW p \in Procs, RecordOnly(p)
  PROVE  LockInv' /\ DocInv' /\ ManifestInv'
<1>1. /\ pc[p] = "record only" /\ Leave(p, "failed") /\ Evidence' = Evidence
      /\ UNCHANGED <<files, attested, due>>
  BY BracketControl DEF Complete, RecordOnly
<1>2. CASE Save(p)
  <2>1. manifest' # Corrupt /\ Len(manifest') <= MaxProducers /\ ProducersAreKept'
    BY <1>1, <1>2, SaveKeeps
  <2> QED
    BY <1>1, <2>1, LeaveStep
<1>3. CASE manifest' = manifest /\ recorded' = recorded
  BY <1>1, <1>3, LeaveStep
<1> QED
  BY <1>2, <1>3 DEF RecordOnly

-----------------------------------------------------------------------------
(* The whole.                                                              *)

(* The work directory before the first command.                            *)
LEMMA InitStore == Init => StoreInv
<1> SUFFICES ASSUME Init PROVE StoreInv
  OBVIOUS
<1>1. \A dir \in Targets : dir \in Dirs
  BY StoreAssumption DEF Dirs
<1>2. legacy \in Dirs
  <2>1. {0} \X Sigs \subseteq Names
    BY StoreAssumption
  <2> QED
    BY <2>1 DEF Init, Dirs
<1>3. Types
  <2>1. <<>> \in Seq(Procs) /\ 0 \in 0..MaxOrdinal
    BY StoreAssumption
  <2>2. manifest \in Seq(Procs) \cup {Corrupt} /\ recorded \in Seq(Procs)
    BY <2>1 DEF Init
  <2>3. /\ pc \in [Procs -> Steps] /\ next \in [Procs -> 0..MaxOrdinal]
        /\ mine \in [Procs -> Names \cup {Absent}]
        /\ loaded \in [Procs -> Seq(Procs)]
        /\ doc \in [Procs -> SUBSET Names] /\ due \in [Procs -> SUBSET Names]
    BY <2>1 DEF Init, Steps, MigrationSteps
  <2>4. files \in [Derived -> Dirs] /\ target \in Dirs /\ old_index \in BOOLEAN
    BY <1>1 DEF Init, Dirs
  <2>5. attested \in [files : [Derived -> Dirs], manifest : Seq(Procs), evidence : SUBSET Names]
    BY <2>1, <2>4 DEF Init
  <2>6. /\ written \subseteq Names /\ inherited \subseteq Names /\ misled \subseteq Procs
        /\ holders \subseteq Procs /\ last \in Ended \cup {"none"}
    BY <1>2, <2>4 DEF Init, Content, Dirs
  <2> QED
    BY <1>2, <2>2, <2>3, <2>4, <2>5, <2>6 DEF Types
<1>4. /\ \A p \in Procs : pc[p] = "look" /\ mine[p] = Absent /\ doc[p] = {} /\ due[p] = {}
      /\ \A f \in Derived : files[f] = Absent
  BY DEF Init
<1>5. "look" \notin LockedSteps \cup Rebuilding \cup {"ok", "read", "record", "record only"}
  BY DEF LockedSteps, Rebuilding, Derived
<1>6. LockInv
  BY <1>4, <1>5 DEF Init, LockInv
<1>7. TreeInv
  <2>1. EvidenceSurvives
    BY DEF Init, EvidenceSurvives, Content
  <2> QED
    BY <1>4, <2>1 DEF TreeInv, FindingsAreExclusive, MigrationSteps
<1>8. DocInv
  <2>1. files["json"] = Absent
    BY <1>4 DEF Derived
  <2> QED
    BY <1>4, <1>5, <2>1 DEF DocInv, CommitPointIsLast, OkMeansIndexed
<1>9. ManifestInv
  <2>1. recorded = <<>> /\ (manifest # Corrupt => manifest = <<>>) /\ last = "none"
    BY DEF Init
  <2>2. manifest # Corrupt => Len(manifest) <= MaxProducers
    BY <2>1, StoreAssumption
  <2>3. ProducersAreKept
    BY <2>1 DEF ProducersAreKept
  <2> QED
    BY <1>4, <1>5, <2>1, <2>2, <2>3 DEF ManifestInv, AttestationHolds
<1> QED
  BY <1>3, <1>6, <1>7, <1>8, <1>9 DEF StoreInv

(* No step of any process breaks it.                                       *)
LEMMA NextStore == StoreInv /\ [Next]_vars => StoreInv'
<1> SUFFICES ASSUME StoreInv, [Next]_vars PROVE StoreInv'
  OBVIOUS
<1>1. ASSUME NEW p \in Procs, prepare(p), UNCHANGED <<allocator, store, history>>
      PROVE  StoreInv'
  <2>1. UNCHANGED <<store, history>>
    BY <1>1
  <2>2. /\ TreeInv' /\ Content(target) \subseteq Content(target')
        /\ written \subseteq written' /\ Types'
    BY <1>1, TreePrepare, TypesPrepare
  <2> QED
    BY <1>1, <2>1, <2>2, OutsideStep DEF StoreInv
<1>2. ASSUME NEW p \in Procs, Produce(p)
      PROVE  StoreInv'
  <2>1. UNCHANGED <<store, history>>
    BY <1>2 DEF Produce, Scan, FindsNothing, create_dir_all, create_named, emit
  <2>2. /\ TreeInv' /\ Content(target) \subseteq Content(target')
        /\ written \subseteq written' /\ Types'
    BY <1>2, TreeProduce, TypesProduce
  <2> QED
    BY <1>2, <2>1, <2>2, OutsideStep DEF StoreInv
<1>3. ASSUME NEW p \in Procs, Complete(p)
      PROVE  StoreInv'
  <2>1. Types' /\ TreeInv' /\ Evidence' = Evidence
    BY <1>3, TypesComplete, BracketControl
  <2>2. CASE acquire(p) \/ LockTimeout(p) \/ RecordOnly(p)
    BY <2>1, <2>2, AcquireStep, TimeoutStep, RecordOnlyStep DEF StoreInv
  <2>3. CASE load(p) \/ load_findings_tolerant(p) \/ record_producer(p)
             \/ write_atomic(p) \/ attestation(p)
    <3>1. due' = due
      BY <2>3 DEF load, load_findings_tolerant, record_producer, write_atomic, attestation
    <3>2. CASE Abort(p)
      BY <2>1, <3>1, <3>2, AbortStep DEF StoreInv
    <3>3. CASE ~Abort(p)
      BY <2>1, <2>3, <3>3, LoadStep, ReadStep, RecordStep, WriteStep, AttestStep
      DEF StoreInv
    <3> QED
      BY <3>2, <3>3
  <2> QED
    BY <1>3, <2>2, <2>3 DEF Complete
<1>4. ASSUME NEW p \in Procs, Crash(p)
      PROVE  StoreInv'
  <2>1. Types' /\ TreeInv' /\ Evidence' = Evidence
    BY <1>4, TypesCrash, BracketControl
  <2>2. Leave(p, "crashed") /\ UNCHANGED <<files, attested, due, manifest, recorded>>
    BY <1>4 DEF Crash
  <2>3. LockInv' /\ DocInv' /\ ManifestInv'
    BY <2>1, <2>2, LeaveStep
  <2> QED
    BY <2>1, <2>3 DEF StoreInv
<1>5. CASE UNCHANGED vars
  <2>1. /\ UNCHANGED <<pc, legacy, target, written, old_index, misled, next, mine>>
        /\ UNCHANGED <<holders, manifest, loaded, doc, files, attested>>
        /\ UNCHANGED <<inherited, recorded, due, last>>
    BY <1>5 DEF vars, tree, allocator, store, history
  <2>2. Types' = Types /\ LockInv' = LockInv
    BY <2>1 DEF Types, LockInv
  <2>3. TreeInv' = TreeInv
    BY <2>1 DEF TreeInv, EvidenceSurvives, FindingsAreExclusive
  <2>4. DocInv' = DocInv
    BY <2>1 DEF DocInv, Evidence, CommitPointIsLast, OkMeansIndexed
  <2>5. ManifestInv' = ManifestInv
    BY <2>1 DEF ManifestInv, ProducersAreKept, AttestationHolds, Evidence
  <2> QED
    BY <2>2, <2>3, <2>4, <2>5 DEF StoreInv
<1> QED
  BY <1>1, <1>2, <1>3, <1>4, <1>5 DEF Next, Step

(* Every reachable state of the work directory satisfies the invariant.    *)
THEOREM StoreInvariant == Spec => []StoreInv
  BY InitStore, NextStore, PTL DEF Spec

(* Every variable keeps its type.                                          *)
THEOREM StoreTypes == Spec => []TypeOK
<1>1. StoreInv => TypeOK
  <2> SUFFICES ASSUME Types PROVE TypeOK
    BY DEF StoreInv
  <2>1. \A p \in Procs : mine[p] = Absent \/ mine[p] \in Names
    BY DEF Types
  <2>2. \A f \in Derived : IsDir(files[f]) /\ IsDir(attested.files[f])
    BY DEF Types, Dirs, IsDir
  <2>3. IsDir(legacy) /\ IsDir(target)
    BY DEF Types, Dirs, IsDir
  <2>4. /\ manifest = Corrupt \/ manifest \in Seq(Procs)
        /\ attested.manifest \in Seq(Procs)
        /\ attested.evidence \subseteq Names
    BY DEF Types
  <2> QED
    BY <2>1, <2>2, <2>3, <2>4 DEF Types, TypeOK
<1> QED
  BY <1>1, StoreInvariant, PTL

(* Whoever goes on past prepare works on a migrated directory, unless its  *)
(* own look at the legacy one failed.                                      *)
THEOREM Prepared == Spec => []PreparedMeansMigrated
<1>1. StoreInv => PreparedMeansMigrated
  BY DEF StoreInv, TreeInv, PreparedMeansMigrated, PastPrepare
<1> QED
  BY <1>1, StoreInvariant, PTL

(* No finding is lost by migrating peers, errors or crashes.               *)
THEOREM EvidenceIsKept == Spec => []EvidenceSurvives
<1>1. StoreInv => EvidenceSurvives
  BY DEF StoreInv, TreeInv
<1> QED
  BY <1>1, StoreInvariant, PTL

(* create_named gives no two commands the same directory.                  *)
THEOREM FindingsExclusive == Spec => []FindingsAreExclusive
<1>1. StoreInv => FindingsAreExclusive
  BY DEF StoreInv, TreeInv
<1> QED
  BY <1>1, StoreInvariant, PTL

(* findings.json never lists what the files beside it do not.              *)
THEOREM CommitPoint == Spec => []CommitPointIsLast
<1>1. StoreInv => CommitPointIsLast
  BY DEF StoreInv, DocInv
<1> QED
  BY <1>1, StoreInvariant, PTL

(* A rebuild that returned Ok stays indexed.                               *)
THEOREM OkIsIndexed == Spec => []OkMeansIndexed
<1>1. StoreInv => OkMeansIndexed
  BY DEF StoreInv, DocInv
<1> QED
  BY <1>1, StoreInvariant, PTL

(* Concurrent brackets do not lose each other's record.                    *)
THEOREM ProducersKept == Spec => []ProducersAreKept
<1>1. StoreInv => ProducersAreKept
  BY DEF StoreInv, ManifestInv
<1> QED
  BY <1>1, StoreInvariant, PTL

(* Until the lock is next taken, the attestation of an Ok rebuild matches  *)
(* the derived files and the manifest, and covers all that they list.      *)
THEOREM Attested == Spec => []AttestationHolds
<1>1. StoreInv => AttestationHolds
  BY DEF StoreInv, ManifestInv
<1> QED
  BY <1>1, StoreInvariant, PTL
=============================================================================
