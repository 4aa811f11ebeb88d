---------------------------- MODULE MulticoreFuzz ----------------------------
(***************************************************************************)
(* A multicore campaign: run_multicore of crates/multicore_fuzz/src/lib.rs *)
(* starts the workers, polls them until each has ended or the deadline has *)
(* passed, and bhf fuzz then merges their findings (WorkerMerge).  Any of  *)
(* its errors returns at once; the workers it had started go on without a  *)
(* parent and go on writing findings into the directories that the next    *)
(* campaign gives to its own workers.                                      *)
(*                                                                         *)
(* The corpora, the summary and the exit codes of workers are left out.    *)
(***************************************************************************)
EXTENDS WorkerMerge, Relation

VARIABLES
  campaign,  \* where the parent is
  pending,   \* workers the parent has started and not yet reported
  children,  \* those whose process lives
  orphans,   \* workers with a process that a dead or failed parent left
  late,      \* has time_budget + kill_grace passed?
  writing    \* findings that a live worker process is writing

campaignVars == <<campaign, pending, children, orphans, late, writing>>
vars == <<workerMergeVars, campaignVars>>

Init ==
  /\ campaign = "idle" /\ pending = {} /\ children = {} /\ orphans = {}
  /\ late = FALSE
  /\ writing = {}
  /\ worker = [f \in Findings |-> Absent]
  /\ parent = [i \in Ids |-> Absent]
  /\ crosses \in BOOLEAN
  /\ merge = "off" /\ cur = [finding |-> Nothing, file |-> Nothing]
  /\ target = Nothing /\ todo = {} /\ rest = {} /\ seen = {} /\ next = 0
  /\ faults = 0 /\ misread = FALSE

-----------------------------------------------------------------------------
(* A worker process: FindingEmitter writes the files of a finding, and its *)
(* finding.json last.                                                      *)
Processes(w) ==
  (IF w \in children THEN 1 ELSE 0) + (IF w \in orphans THEN 1 ELSE 0)

(* A process writes one finding at a time, under a name past the others.   *)
allocate_finding(f) ==
  /\ LET own == {g \in Findings : Home[g] = Home[f]}
     IN  /\ Cardinality(own \cap writing) < Processes(Home[f])
         /\ \A g \in own : worker[g] # Absent => g < f
  /\ \A i \in Ids : Exists(i) => parent[i].record # f
  /\ worker' = [worker EXCEPT ![f] = [files |-> {}, record |-> Empty]]
  /\ writing' = writing \cup {f}
  /\ UNCHANGED <<parent, mergeVars, crosses, faultVars, campaign, pending, children, orphans, late>>

Writable(files) == IF files = Files THEN {Record} ELSE Files \ files

(* fs::write: finding.json is there before it is complete.                 *)
write(f, file) ==
  /\ f \in writing /\ file \in Writable(worker[f].files)
  /\ IF file = Record
     THEN worker' = [worker EXCEPT ![f].record =
                       IF @ = Torn THEN Emitted ELSE Torn]
     ELSE worker' = [worker EXCEPT ![f].files = @ \cup {file}]
  /\ writing' = IF worker'[f].record = Emitted THEN writing \ {f} ELSE writing
  /\ UNCHANGED <<parent, mergeVars, crosses, faultVars, campaign, pending, children, orphans, late>>

(* A process of worker w ends, by itself or by a kill; what it was writing *)
(* stays as it is.  others: does another process of w live on?             *)
Dies(w, others) ==
  LET own == {f \in writing : Home[f] = w}
  IN  \E lost \in SUBSET own :
        /\ others \/ lost = own
        /\ writing' = writing \ lost

exit(w) ==
  /\ \/ /\ w \in children /\ Dies(w, w \in orphans)
        /\ children' = children \ {w} /\ UNCHANGED orphans
     \/ /\ w \in orphans /\ Dies(w, w \in children)
        /\ orphans' = orphans \ {w} /\ UNCHANGED children
  /\ UNCHANGED <<workerMergeVars, campaign, pending, late>>

-----------------------------------------------------------------------------
(* Mutant: the children of a parent that is gone still count as held.      *)
Ends_holding ==
  /\ campaign' = "idle" /\ pending' = {} /\ late' = FALSE
  /\ UNCHANGED <<children, orphans, writing>>

(* run_multicore or the merge ends, or the parent is killed: the children  *)
(* that still run have no parent any more.                                 *)
Ends ==
  /\ campaign' = "idle" /\ pending' = {} /\ children' = {} /\ late' = FALSE
  /\ orphans' = orphans \cup children
  /\ UNCHANGED writing

(* The merge's own variables, out of use.                                  *)
Stopped ==
  /\ merge' = "off" /\ cur' = [finding |-> Nothing, file |-> Nothing]
  /\ target' = Nothing /\ todo' = {} /\ rest' = {} /\ seen' = {} /\ next' = 0

start ==
  /\ campaign = "idle"
  /\ campaign' = "spawn"
  /\ UNCHANGED <<workerMergeVars, pending, children, orphans, late, writing>>

(* copy_build_tree, copy_shared_queue_to_worker and spawn_worker: the next *)
(* worker runs, or run_multicore returns.                                  *)
spawn ==
  /\ campaign = "spawn" /\ pending # Workers
  /\ \/ LET w == Min(Workers \ pending)
        IN  /\ pending' = pending \cup {w} /\ children' = children \cup {w}
            /\ UNCHANGED <<campaign, orphans, late, writing, faultVars>>
     \/ Fault /\ Ends
  /\ UNCHANGED <<diskVars, mergeVars, crosses>>

spawned ==
  /\ campaign = "spawn" /\ pending = Workers
  /\ campaign' = "poll"
  /\ UNCHANGED <<workerMergeVars, pending, children, orphans, late, writing>>

(* External: the clock.                                                    *)
deadline ==
  /\ campaign = "poll" /\ ~late
  /\ late' = TRUE
  /\ UNCHANGED <<workerMergeVars, campaign, pending, children, orphans, writing>>

(* Mutant: a late worker is waited for, not killed.                        *)
should_kill_never == FALSE

should_kill == late

(* try_wait: a worker that has ended is reported, a late one killed and    *)
(* reported; an error of try_wait returns.                                 *)
poll(w) ==
  /\ campaign = "poll" /\ w \in pending
  /\ \/ /\ w \notin children \/ should_kill
        /\ pending' = pending \ {w} /\ children' = children \ {w}
        /\ IF w \in children THEN Dies(w, w \in orphans) ELSE UNCHANGED writing
        /\ UNCHANGED <<campaign, orphans, late, faultVars>>
     \/ Fault /\ Ends
  /\ UNCHANGED <<diskVars, mergeVars, crosses>>

(* sync_worker_corpora and write_campaign_artifacts, then the merge; an    *)
(* I/O error of the former leaves the latter out.                          *)
collate ==
  /\ campaign = "poll" /\ pending = {}
  /\ \/ /\ begin /\ campaign' = "merge"
        /\ UNCHANGED <<pending, children, orphans, late, writing>>
     \/ Fault /\ Ends /\ UNCHANGED <<diskVars, mergeVars, crosses>>

merging ==
  \/ /\ campaign = "merge" /\ MergeStep
     /\ UNCHANGED campaignVars
  \/ /\ campaign = "merge" /\ merge = "list" /\ todo = {} /\ rest = {}
     /\ Stopped /\ Ends
     /\ UNCHANGED <<diskVars, crosses, faultVars>>

kill ==
  /\ campaign # "idle" /\ Fault
  /\ Ends /\ Stopped
  /\ UNCHANGED <<diskVars, crosses>>

(* External: another producer, of another harness, writes a finding of its *)
(* own into the parent.                                                    *)
other ==
  /\ \A i \in Ids : Exists(i) => parent[i].record # Foreign
  /\ \E i \in Ids :
       /\ ~Exists(i) /\ \A j \in Ids : j < i => Exists(j)
       /\ parent' = [parent EXCEPT ![i] = [Reservation EXCEPT !.record = Foreign]]
  /\ UNCHANGED <<worker, mergeVars, crosses, faultVars, campaignVars>>

-----------------------------------------------------------------------------
CampaignStep ==
  \/ start \/ spawn \/ spawned \/ collate \/ merging
  \/ \E w \in Workers : poll(w)

Next ==
  \/ CampaignStep \/ deadline \/ kill \/ other
  \/ \E w \in Workers : exit(w)
  \/ \E f \in Findings :
       \/ allocate_finding(f)
       \/ \E file \in Files \cup {Record} : write(f, file)

Spec == Init /\ [][Next]_vars

(* The parent runs and its clock moves on; campaigns are repeated, since   *)
(* it is the next merge that resumes an interrupted one.                   *)
FairSpec == Spec /\ WF_vars(CampaignStep) /\ WF_vars(deadline)

-----------------------------------------------------------------------------
(* Types; the merge runs within a campaign, and a parent holds no process  *)
(* of a worker that it has reported.                                       *)
TypeOK ==
  /\ worker \in [Findings -> {Absent} \cup Dirs]
  /\ parent \in [Ids -> {Absent} \cup ParentDirs]
  /\ cur \in [finding : {Nothing} \cup Findings, file : {Nothing, Record} \cup Files]
  /\ target \in {Nothing} \cup Ids
  /\ writing \subseteq Findings /\ orphans \subseteq Workers
  /\ merge \in {"off", "list", "reserve", "intent", "move", "copied", "landed"}
  /\ campaign \in {"idle", "spawn", "poll", "merge"}
  /\ merge = "off" <=> campaign # "merge"
  /\ merge \in {"intent", "move", "copied", "landed"} <=> target # Nothing
  /\ merge \in {"copied", "landed"} <=> cur.file # Nothing
  /\ children \subseteq pending /\ pending \subseteq Workers
  /\ next \in Nat /\ faults \in 0 .. MaxFaults /\ misread \in BOOLEAN

(* "finding.json is the commit point, so neither a crash nor an I/O error  *)
(* leaves a half-moved finding the results loader would index": a parent   *)
(* directory with a finding.json holds every file of that finding, no file *)
(* of another and no partial copy, and no finding is there twice.          *)
IndexedFindingsAreWhole ==
  \A i \in Ids : Committed(i) =>
    /\ parent[i].partial = {}
    /\ parent[i].files = IF parent[i].record = Foreign
                         THEN {} ELSE {parent[i].record} \X Files
    /\ \A j \in Ids : Committed(j) /\ parent[j].record = parent[i].record => j = i

(* The same, as the code has it: through kills and through every I/O error *)
(* that is not taken for an absence.  After one that is, a record that has *)
(* landed may be merged again, without its files.                          *)
CommittedFindingsAreWhole == ~misread => IndexedFindingsAreWhole

(* Kills, errors and orphaned workers destroy nothing: each file of a      *)
(* finding that was completely emitted is in its worker directory or in    *)
(* the parent.  It is also where a merge looks for it, in the directory    *)
(* which the worker record names as the one to resume into or which holds  *)
(* the record, unless a failed read was taken for an absence.              *)
NothingIsLost ==
  \A f \in Findings \ writing :
    LET complete == Readable(f) \/ \E i \in Ids : Committed(i) /\ parent[i].record = f
    IN  complete => \A file \in Files :
          \/ worker[f] # Absent /\ file \in worker[f].files
          \/ \E i \in Ids :
               /\ Exists(i) /\ <<f, file>> \in parent[i].files
               /\ \/ misread
                  \/ parent[i].record = f
                  \/ worker[f] # Absent /\ worker[f].record = i

(* Two findings of one crash: both are in the parent only after a fault    *)
(* (then the one that was interrupted is resumed although another worker's *)
(* copy has been merged in the meantime).                                  *)
CrashesAreMergedOnce ==
  \A i, j \in Ids :
    i # j /\ Committed(i) /\ Committed(j)
      /\ parent[i].record # Foreign /\ parent[j].record # Foreign
      /\ Keys[parent[i].record] \cap Keys[parent[j].record] # {}
    => faults > 0

(* Findings of one crash: the keys of a duplicate count for the findings   *)
(* after it, so a crash is a chain of findings that share keys.            *)
SameCrash ==
  ReflexiveTransitiveClosure(
    [f, g \in Findings |-> Keys[f] \cap Keys[g] # {}], Findings)

Settled(f) ==
  \E i \in Ids : Committed(i) /\ parent[i].record \in Findings
                  /\ SameCrash[f, parent[i].record]

(* "they stay in their worker dirs and the next merge resumes them": a     *)
(* finding whose record is complete is in the parent in the end, under its *)
(* own record or that of the same crash, and under its own if its merge    *)
(* was cut short.                                                          *)
FindingsSettle ==
  \A f \in Findings :
    worker[f] # Absent /\ worker[f].record \in {Emitted} \cup Ids ~>
      /\ Settled(f)
      /\ worker[f] # Absent /\ carries_intent(f)
           => \E i \in Ids : Committed(i) /\ parent[i].record = f
==============================================================================
