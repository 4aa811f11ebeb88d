---------------------------- MODULE ResultsStore ----------------------------
(***************************************************************************)
(* The life of a bhf command on a work directory that other commands use   *)
(* too: with_results_in of crates/cli (prepare, run, finish), the finding  *)
(* directories it allocates (crates/corpus, layout.rs and finding.rs), and *)
(* the bracket that records it and rebuilds results/ under results/.lock   *)
(* (crates/results, lock.rs, manifest.rs and rebuild.rs).                  *)
(*                                                                         *)
(* A rebuild's documents are the set of findings they list.  A file is     *)
(* replaced by the rename at the end of write_atomic, in one step; a crash *)
(* ends one process, and the system goes on.  Static and SBOM reports, and *)
(* the contents of a finding, are left out.                                *)
(***************************************************************************)
EXTENDS LegacyMigration, Sequences, FiniteSetsExt

CONSTANTS
  Sigs,          \* signatures, the suffix of a finding's name
  Sig,           \* the signature of the finding each process has
  Reporters,     \* processes that run `bhf report`: no producer
  Deferred,      \* processes that may run under RESULTS_DEFER_ENV
  MaxOrdinal,    \* bound: the largest ordinal
  MaxProducers,  \* MAX_MANIFEST_PRODUCERS
  Targets,       \* what results/findings may hold at first
  Corrupt        \* a manifest.json that does not parse

ASSUME StoreAssumption ==
  /\ Names = (0..MaxOrdinal) \X Sigs
  /\ Sig \in [Procs -> Sigs]
  /\ Reporters \subseteq Procs /\ Deferred \subseteq Procs
  /\ MaxOrdinal \in Nat /\ MaxProducers \in Nat \ {0}
  /\ \A dir \in Targets : dir = Absent \/ dir \subseteq Names
  /\ Corrupt \notin Seq(Procs)

VARIABLES
  next,      \* FamilyAllocator::next
  mine,      \* the finding directory each process made
  holders,   \* who has flocked results/.lock
  manifest,  \* producers in manifest.json
  loaded,    \* the manifest in each process's memory
  doc,       \* the findings each process has loaded
  files,     \* findings.csv, findings.sarif, INDEX.md, findings.json
  attested,  \* what attestation.json says of the files under results/
  inherited, \* history: the findings of the legacy directory
  recorded,  \* history: every producer ever saved
  due,       \* history: the evidence there was when the lock was taken
  last       \* history: how the last holder of the lock ended

allocator == <<next, mine>>
store == <<holders, manifest, loaded, doc, files, attested>>
history == <<inherited, recorded, due, last>>
vars == <<pc, tree, allocator, store, history>>

Derived == {"csv", "sarif", "index", "json"}

RunSteps == {"prepared", "mkdirs", "mkdir", "write"}
LockedSteps == {"load", "read", "record", "record only"} \union Derived \union {"attest"}
Ended == {"refused", "done", "ok", "failed", "crashed"}
Steps == MigrationSteps \union RunSteps \union {"acquire"} \union LockedSteps \union Ended

Content(dir) == IF dir = Absent THEN {} ELSE dir

(* What a rebuild can load: a finding without finding.json is skipped.     *)
Evidence == Content(target) \intersect written

-----------------------------------------------------------------------------
(* The command: it finds something, or nothing.                            *)

(* Mutant: an ordinal at the limit overflows.                              *)
SaturatingNext_overflows(n) == n + 1

SaturatingNext(n) == IF n < MaxOrdinal THEN n + 1 ELSE MaxOrdinal

(* FamilyAllocator::new.                                                   *)
Scan(p) ==
  LET taken == {name[1] : name \in Content(target)} IN
  /\ pc[p] = "prepared" /\ p \notin Reporters
  /\ next' = [next EXCEPT ![p] =
       IF taken = {} THEN 0 ELSE SaturatingNext(Max(taken))]
  /\ Goto(p, "mkdirs")
  /\ UNCHANGED <<tree, mine, store, history>>

(* The end of with_results_in's run.                                       *)
AfterRun(p) ==
  \/ Goto(p, "acquire")
  \/ p \in Deferred /\ Goto(p, "done")

FindsNothing(p) ==
  /\ pc[p] = "prepared"
  /\ AfterRun(p)
  /\ UNCHANGED <<tree, allocator, store, history>>

create_dir_all(p) ==
  /\ pc[p] = "mkdirs"
  /\ \/ target' = Content(target) /\ Goto(p, "mkdir")
     \/ Faulty /\ AfterRun(p) /\ UNCHANGED target
  /\ UNCHANGED <<legacy, written, old_index, misled, allocator, store, history>>

(* Mutant: create_dir_all for the leaf too.                                *)
Taken_never(name) == FALSE

Taken(name) == name \in target

(* One turn of create_named's loop.  The leaf is not made when the         *)
(* ordinals are exhausted or a peer has just removed the empty parent.     *)
create_named(p) ==
  LET name == <<next[p], Sig[p]>> IN
  /\ pc[p] = "mkdir"
  /\ IF next[p] = MaxOrdinal \/ target = Absent
     THEN AfterRun(p) /\ UNCHANGED <<next, mine, target>>
     ELSE IF Taken(name)
     THEN next' = [next EXCEPT ![p] = @ + 1] /\ UNCHANGED <<pc, mine, target>>
     ELSE /\ target' = target \union {name}
          /\ mine' = [mine EXCEPT ![p] = name]
          /\ Goto(p, "write") /\ UNCHANGED next
  /\ UNCHANGED <<legacy, written, old_index, misled, store, history>>

(* The files of the finding, finding.json last.                            *)
emit(p) ==
  /\ pc[p] = "write"
  /\ \/ written' = written \union {mine[p]}
     \/ Faulty /\ UNCHANGED written
  /\ AfterRun(p)
  /\ UNCHANGED <<legacy, target, old_index, misled, allocator, store, history>>

-----------------------------------------------------------------------------
(* complete_with and rebuild.                                              *)

(* Mutant: the lock file is unlinked by its holder, and locked anew.       *)
Unlocked_unlinked == TRUE

Unlocked == holders = {}

acquire(p) ==
  /\ pc[p] = "acquire" /\ Unlocked
  /\ holders' = holders \union {p}
  /\ due' = [due EXCEPT ![p] = Evidence]
  /\ Goto(p, "load")
  /\ UNCHANGED <<tree, allocator, manifest, loaded, doc, files, attested, inherited, recorded,
                 last>>

(* The lock was busy until the timeout, or cannot be opened.               *)
LockTimeout(p) ==
  /\ pc[p] = "acquire" /\ (holders # {} \/ Faulty)
  /\ Goto(p, "failed")
  /\ UNCHANGED <<tree, allocator, store, history>>

(* The lock is given back, and what was in memory is gone.                 *)
Leave(p, how) ==
  /\ Goto(p, how)
  /\ holders' = holders \ {p}
  /\ loaded' = [loaded EXCEPT ![p] = <<>>]
  /\ doc' = [doc EXCEPT ![p] = {}]
  /\ last' = IF p \in holders THEN how ELSE last

Abort(p) ==
  /\ Faulty /\ Leave(p, "failed")
  /\ UNCHANGED <<manifest, files, attested, recorded>>

(* manifest::load; a corrupt file is moved aside.                          *)
load(p) ==
  /\ pc[p] = "load"
  /\ \/ /\ loaded' = [loaded EXCEPT ![p] = IF manifest = Corrupt THEN <<>> ELSE manifest]
        /\ manifest' = IF manifest = Corrupt THEN <<>> ELSE manifest
        /\ Goto(p, "read")
        /\ UNCHANGED <<holders, doc, files, attested, recorded, last>>
     \/ Abort(p)
  /\ UNCHANGED <<tree, allocator, inherited, due>>

(* load_findings_tolerant.  Without it the producer is still recorded.     *)
load_findings_tolerant(p) ==
  /\ pc[p] = "read"
  /\ \/ /\ doc' = [doc EXCEPT ![p] = Evidence]
        /\ Goto(p, "record")
        /\ UNCHANGED <<holders, loaded, manifest, files, attested, recorded, last>>
     \/ /\ Faulty /\ p \notin Reporters /\ Goto(p, "record only")
        /\ UNCHANGED <<store, recorded, last>>
     \/ p \in Reporters /\ Abort(p)
  /\ UNCHANGED <<tree, allocator, inherited, due>>

(* Mutant: keep the oldest producers.                                      *)
Kept_oldest(producers) ==
  IF Len(producers) <= MaxProducers THEN producers
  ELSE SubSeq(producers, 1, MaxProducers)

Kept(producers) ==
  IF Len(producers) <= MaxProducers THEN producers
  ELSE SubSeq(producers, Len(producers) - MaxProducers + 1, Len(producers))

Pending(p) == IF p \in Reporters THEN <<>> ELSE <<p>>

Save(p) ==
  /\ manifest' = Kept(loaded[p] \o Pending(p))
  /\ recorded' = recorded \o Pending(p)

record_producer(p) ==
  /\ pc[p] = "record"
  /\ \/ /\ Save(p) /\ Goto(p, "csv")
        /\ UNCHANGED <<holders, loaded, doc, files, attested, last>>
     \/ Abort(p)
  /\ UNCHANGED <<tree, allocator, inherited, due>>

(* The producer of a rebuild that could not load the findings.             *)
RecordOnly(p) ==
  /\ pc[p] = "record only"
  /\ Save(p) \/ UNCHANGED <<manifest, recorded>>
  /\ Leave(p, "failed")
  /\ UNCHANGED <<tree, allocator, files, attested, inherited, due>>

(* Mutant: findings.json before the files it vouches for.                  *)
After_json_first ==
  [csv |-> "json", json |-> "sarif", sarif |-> "index", index |-> "attest"]

(* The order in which rebuild_locked_with writes.                          *)
After == [csv |-> "sarif", sarif |-> "index", index |-> "json", json |-> "attest"]

(* One derived file.  SARIF that its validator refuses is removed.         *)
write_atomic(p) ==
  LET file == pc[p] IN
  /\ pc[p] \in Derived
  /\ \/ /\ \/ files' = [files EXCEPT ![file] = doc[p]]
           \/ file = "sarif" /\ files' = [files EXCEPT !["sarif"] = Absent]
        /\ Goto(p, After[file])
        /\ UNCHANGED <<holders, loaded, doc, manifest, attested, recorded, last>>
     \/ Abort(p)
  /\ UNCHANGED <<tree, allocator, inherited, due>>

(* Mutant: the attestation does not cover findings.sarif.                  *)
Subjects_stale == [files |-> [files EXCEPT !["sarif"] = attested.files["sarif"]],
                   manifest |-> manifest, evidence |-> Evidence]

(* Every file under results/; of a finding's, what it is.                  *)
Subjects == [files |-> files, manifest |-> manifest, evidence |-> Evidence]

attestation(p) ==
  /\ pc[p] = "attest"
  /\ \/ attested' = Subjects /\ Leave(p, "ok") /\ UNCHANGED <<manifest, files, recorded>>
     \/ Abort(p)
  /\ UNCHANGED <<tree, allocator, inherited, due>>

(* A process dies; the operating system frees its lock.                    *)
Crash(p) ==
  /\ pc[p] \notin Ended /\ Faulty
  /\ Leave(p, "crashed")
  /\ UNCHANGED <<tree, allocator, manifest, files, attested, inherited, recorded, due>>

-----------------------------------------------------------------------------
(* A legacy work directory has no manifest yet.                            *)
Init ==
  /\ pc = [p \in Procs |-> "look"]
  /\ legacy \in {Absent, {}, {0} \X Sigs}
  /\ target \in Targets
  /\ old_index = (legacy # Absent)
  /\ next = [p \in Procs |-> 0]
  /\ mine = [p \in Procs |-> Absent]
  /\ written = Content(target) /\ inherited = Content(legacy)
  /\ misled = {}
  /\ holders = {}
  /\ manifest \in IF legacy = Absent THEN {<<>>, Corrupt} ELSE {<<>>}
  /\ loaded = [p \in Procs |-> <<>>]
  /\ doc = [p \in Procs |-> {}]
  /\ files = [f \in Derived |-> Absent]
  /\ attested = [files |-> files, manifest |-> <<>>, evidence |-> {}]
  /\ recorded = <<>>
  /\ due = [p \in Procs |-> {}]
  /\ last = "none"

Produce(p) ==
  Scan(p) \/ FindsNothing(p) \/ create_dir_all(p) \/ create_named(p) \/ emit(p)

Complete(p) ==
  \/ acquire(p) \/ LockTimeout(p) \/ load(p) \/ load_findings_tolerant(p)
  \/ record_producer(p) \/ RecordOnly(p) \/ write_atomic(p) \/ attestation(p)

Step(p) ==
  \/ prepare(p) /\ UNCHANGED <<allocator, store, history>>
  \/ Produce(p)
  \/ Complete(p)

AllEnded == \A p \in Procs : pc[p] \in Ended

Next ==
  \/ \E p \in Procs : Step(p) \/ Crash(p)
  \/ AllEnded /\ UNCHANGED vars

Spec == Init /\ [][Next]_vars

(* Every process runs.                                                     *)
FairSpec == Spec /\ \A p \in Procs : WF_vars(Step(p))

-----------------------------------------------------------------------------
(* Properties.                                                             *)

(* Absent, or a set of findings.                                           *)
IsDir(dir) == dir = Absent \/ dir \subseteq Names

TypeOK ==
  /\ pc \in [Procs -> Steps]
  /\ IsDir(legacy) /\ IsDir(target)
  /\ old_index \in BOOLEAN
  /\ next \in [Procs -> 0..MaxOrdinal]
  /\ \A p \in Procs : mine[p] = Absent \/ mine[p] \in Names
  /\ written \subseteq Names /\ inherited \subseteq Names
  /\ misled \subseteq Procs /\ holders \subseteq Procs
  /\ manifest = Corrupt \/ manifest \in Seq(Procs)
  /\ loaded \in [Procs -> Seq(Procs)]
  /\ doc \in [Procs -> SUBSET Names]
  /\ \A f \in Derived : IsDir(files[f]) /\ IsDir(attested.files[f])
  /\ attested.manifest \in Seq(Procs) /\ attested.evidence \subseteq Names
  /\ recorded \in Seq(Procs)
  /\ due \in [Procs -> SUBSET Names]
  /\ last \in Ended \union {"none"}

(* Is the command past prepare?                                            *)
PastPrepare(p) == pc[p] \notin MigrationSteps \union {"refused", "crashed"}

(* A command that goes on past prepare works on a migrated directory, even *)
(* if a peer did the migration or failed halfway, unless its own look at   *)
(* the legacy directory failed.                                            *)
PreparedMeansMigrated ==
  \A p \in Procs : PastPrepare(p) => legacy = Absent \/ p \in misled

(* Migrating peers, whatever fails and whoever dies, never lose a finding: *)
(* what the legacy directory held is there or, all of it, in               *)
(* results/findings, and what has been written there stays.                *)
EvidenceSurvives ==
  /\ written \subseteq Content(target)
  /\ IF legacy = Absent THEN inherited \subseteq written ELSE legacy = inherited

(* Two commands never write into the same finding directory.               *)
FindingsAreExclusive ==
  \A p, q \in Procs : p # q /\ mine[p] = mine[q] => mine[p] = Absent

(* findings.json is the commit point: at every moment, in a rebuild, after *)
(* a failed one or a crash, what it lists is in the files beside it.       *)
CommitPointIsLast ==
  files["json"] # Absent =>
    /\ files["csv"] # Absent /\ files["json"] \subseteq files["csv"]
    /\ files["index"] # Absent /\ files["json"] \subseteq files["index"]
    /\ files["sarif"] # Absent => files["json"] \subseteq files["sarif"]

(* A rebuild that returned Ok indexed all the evidence there was when it   *)
(* took the lock, of crashed and deferred commands too, and no later or    *)
(* concurrent rebuild takes it out again.                                  *)
OkMeansIndexed ==
  \A p \in Procs :
    pc[p] = "ok" => files["json"] # Absent /\ due[p] \subseteq files["json"]

(* manifest.json holds the last MaxProducers of all the producers that     *)
(* were ever saved: concurrent brackets do not lose each other's record.   *)
ProducersAreKept ==
  manifest # Corrupt =>
    LET lost == Len(recorded) - Len(manifest) IN
    /\ lost >= 0 /\ (lost > 0 => Len(manifest) = MaxProducers)
    /\ \A i \in 1..Len(manifest) : manifest[i] = recorded[lost + i]

(* After a rebuild that returned Ok, and until the next one takes the      *)
(* lock, the attestation matches the derived files and the manifest, has   *)
(* every finding that findings.json lists among its subjects, and no       *)
(* finding among them that is gone.                                        *)
AttestationHolds ==
  holders = {} /\ last = "ok" =>
    /\ attested.files = files /\ attested.manifest = manifest
    /\ Content(files["json"]) \subseteq attested.evidence
    /\ attested.evidence \subseteq Evidence

(* Every command ends.                                                     *)
CommandsEnd == <>AllEnded

(* migrate.rs: "this turns what would otherwise look like a conflict or an *)
(* I/O failure for the loser of the race into a benign no-op": no command  *)
(* is refused if no system call fails by itself and nothing else populates *)
(* results/findings.                                                       *)
PeersAreBenign == \A p \in Procs : pc[p] # "refused"
=============================================================================
