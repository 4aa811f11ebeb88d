----------------------------- MODULE WorkerMerge -----------------------------
(***************************************************************************)
(* merge_worker_findings of crates/multicore_fuzz/src/merge.rs: the        *)
(* findings of the workers of a fuzz campaign move into the findings       *)
(* directory of the campaign, one file after another, and a merge that is  *)
(* killed or meets an I/O error is taken up by the next one.               *)
(*                                                                         *)
(* A worker finding is a directory with its Files and its finding.json.    *)
(* Names of parent directories are their ordinals: the signature suffix is *)
(* left out, which only makes two names meet more often.  Symbolic links,  *)
(* the limits on entries and on record size, and the subdirectories of a   *)
(* finding are left out; an intent log is one atomic rename.               *)
(*                                                                         *)
(* Any call may fail.  Most failures are reported and end the finding or   *)
(* the merge; those of the reads that only ask whether something is there  *)
(* are taken for "no", and misread records that this has happened.         *)
(***************************************************************************)
EXTENDS Naturals, FiniteSets, FiniteSetsExt

CONSTANTS
  Workers,    \* worker numbers, merged in increasing order
  Findings,   \* worker findings, numbered in the order of their names
  Home,       \* the worker that emits each finding
  Keys,       \* the dedupe keys of each finding
  Files,      \* the files of a finding beside finding.json
  Record,     \* finding.json
  Ids,        \* ordinals of parent findings, 0 .. MaxId
  MaxFaults,  \* I/O errors and kills in a behaviour
  Absent,     \* no such directory
  Empty,      \* no finding.json
  Torn,       \* a finding.json cut short
  Emitted,    \* a finding.json as its worker wrote it
  Foreign,    \* a finding.json of another producer
  Nothing     \* no finding, no file

(* A worker record is as its worker wrote it, or names its parent id.      *)
Dirs == [files : SUBSET Files, record : {Empty, Torn, Emitted} \cup Ids]

(* <name>.partial files are kept apart, by the file they are a copy of.    *)
ParentDirs ==
  [files : SUBSET (Findings \X Files),
   partial : SUBSET (Findings \X (Files \cup {Record})),
   record : {Empty, Foreign} \cup Findings]

ASSUME MergeAssumption ==
  /\ Workers \subseteq Nat /\ Findings \subseteq Nat /\ Ids \subseteq Nat
  /\ Home \in [Findings -> Workers]
  /\ MaxFaults \in Nat
  /\ DOMAIN Keys = Findings
  /\ \A f \in Findings : Keys[f] # {}  \* every emitter writes a signature
  /\ Record \notin Files /\ Nothing \notin Files \cup {Record}
  /\ {Empty, Torn, Emitted, Foreign, Nothing} \cap (Ids \cup Findings) = {}
  /\ Empty \notin {Torn, Emitted, Foreign} /\ Torn # Emitted
  /\ \A dir \in Dirs \cup ParentDirs : dir # Absent

(* Ordinals are machine integers: there is a last one.                     *)
ASSUME OrdinalAssumption == \E last \in Ids : \A i \in Ids : i <= last

VARIABLES
  worker,   \* worker finding directories: files and finding.json
  parent,   \* the parent findings directory
  crosses,  \* is the parent on another device?
  merge,    \* where the merge is
  cur,      \* the worker finding under merge, and the file on its way
  target,   \* the parent directory reserved for it
  todo,     \* the listed directories of the worker, still to visit
  rest,     \* the workers still to list
  seen,     \* Seen: the crash keys held
  next,     \* FamilyAllocator: the next ordinal
  faults,   \* I/O errors and kills so far
  misread   \* history: has a failed read been taken for an absence?

diskVars == <<worker, parent>>
mergeVars == <<merge, cur, target, todo, rest, seen, next>>
faultVars == <<faults, misread>>
workerMergeVars == <<diskVars, mergeVars, crosses, faultVars>>

-----------------------------------------------------------------------------
Exists(i) == parent[i] # Absent

Committed(i) == Exists(i) /\ parent[i].record # Empty

Reservation == [files |-> {}, partial |-> {}, record |-> Empty]

(* An I/O error or a kill, and one that the code takes for an absence.     *)
Fault == faults < MaxFaults /\ faults' = faults + 1 /\ UNCHANGED misread

Misread == faults < MaxFaults /\ faults' = faults + 1 /\ misread' = TRUE

(* An intent replaces the id of a worker record by its parent id.          *)
carries_intent(f) == worker[f].record \in Ids

resumable(f) ==
  /\ carries_intent(f)
  /\ Exists(worker[f].record) /\ ~Committed(worker[f].record)

(* What resumable answers: a failed stat of the reserved directory denies  *)
(* one that could be resumed, a failed stat of its finding.json offers one *)
(* that is committed.                                                      *)
Resumes(f, answer) ==
  \/ answer = resumable(f) /\ UNCHANGED faultVars
  \/ /\ carries_intent(f) /\ Exists(worker[f].record)
     /\ answer # resumable(f)
     /\ Misread

Readable(f) ==
  /\ worker[f] # Absent
  /\ worker[f].record \notin {Empty, Torn}

-----------------------------------------------------------------------------
(* refuse_unsafe_parent is left out: the parent is a real directory.       *)
(* The keys of foreign findings are another harness's: none is ours.  A    *)
(* record that cannot be read is passed over, and so are all of them when  *)
(* the stat of the findings directory fails.                               *)
begin ==
  /\ merge = "off"
  /\ merge' = "list"
  /\ LET held == {i \in Ids : Exists(i) /\ parent[i].record \in Findings}
     IN  \E read \in SUBSET held :
           /\ seen' = UNION {Keys[parent[i].record] : i \in read}
           /\ IF read = held THEN UNCHANGED faultVars ELSE Misread
  /\ next' = LET taken == {i \in Ids : Exists(i)}
             IN  IF taken = {} THEN 0 ELSE Max(taken) + 1
  /\ rest' = Workers /\ todo' = {}
  /\ cur' = [finding |-> Nothing, file |-> Nothing] /\ target' = Nothing
  /\ UNCHANGED <<diskVars, crosses>>

(* worker_finding_dirs; one that fails is counted and passed over.         *)
list ==
  /\ merge = "list" /\ todo = {} /\ rest # {}
  /\ LET w == Min(rest)
     IN  /\ rest' = rest \ {w}
         /\ \/ /\ todo' = {f \in Findings : Home[f] = w /\ worker[f] # Absent}
               /\ UNCHANGED faultVars
            \/ todo' = {} /\ Fault
  /\ UNCHANGED <<diskVars, crosses, merge, cur, target, seen, next>>

Visiting(f) == merge = "list" /\ todo # {} /\ f = Min(todo)

(* No finding.json that can be read: merged before, still being written,   *)
(* or the read fails.                                                      *)
pass_over(f) ==
  /\ Visiting(f)
  /\ \/ ~Readable(f) /\ UNCHANGED faultVars
     \/ Readable(f) /\ Fault
  /\ todo' = todo \ {f}
  /\ UNCHANGED <<diskVars, crosses, merge, cur, target, rest, seen, next>>

(* Mutant: the keys of this merge's own findings are not consulted.        *)
holds_none(f) == FALSE

holds(f) == Keys[f] \cap seen # {}

duplicate(f) ==
  /\ Visiting(f) /\ Readable(f) /\ Resumes(f, FALSE) /\ holds(f)
  /\ seen' = seen \cup Keys[f]
  /\ todo' = todo \ {f}
  /\ UNCHANGED <<diskVars, crosses, merge, cur, target, rest, next>>

merge_one(f) ==
  /\ Visiting(f) /\ Readable(f)
  /\ \E resume \in BOOLEAN :
       /\ Resumes(f, resume) /\ (resume \/ ~holds(f))
       /\ merge' = IF resume THEN "move" ELSE "reserve"
       /\ target' = IF resume THEN worker[f].record ELSE Nothing
  /\ cur' = [finding |-> f, file |-> Nothing]
  /\ UNCHANGED <<diskVars, crosses, todo, rest, seen, next>>

-----------------------------------------------------------------------------
(* On to the next finding, or out.                                         *)
Leave(keys) ==
  /\ merge' = "list"
  /\ todo' = todo \ {cur.finding}
  /\ seen' = seen \cup keys
  /\ cur' = [finding |-> Nothing, file |-> Nothing] /\ target' = Nothing
  /\ UNCHANGED <<rest, crosses>>

(* MergeReport::fail.                                                      *)
fail == Fault /\ Leave({})

(* create_with_suffix: an ordinal that is taken is skipped.                *)
reserve ==
  /\ merge = "reserve"
  /\ \/ /\ next \in Ids
        /\ next' = next + 1
        /\ IF Exists(next)
           THEN UNCHANGED <<parent, target, merge>>
           ELSE /\ parent' = [parent EXCEPT ![next] = Reservation]
                /\ target' = next
                /\ merge' = "intent"
        /\ UNCHANGED <<cur, todo, rest, seen, crosses, faultVars>>
     \/ fail /\ UNCHANGED <<parent, next>>
  /\ UNCHANGED worker

(* Mutant: the intent log is left out.                                     *)
Intent_unlogged(f, i) == worker[f].record

Intent(f, i) == i

(* On an error the reservation is given back, where that succeeds.         *)
log_intent ==
  /\ merge = "intent"
  /\ \/ /\ worker' = [worker EXCEPT ![cur.finding].record =
                        Intent(cur.finding, target)]
        /\ merge' = "move"
        /\ UNCHANGED <<parent, cur, target, todo, rest, seen, crosses, faultVars>>
     \/ /\ fail
        /\ \/ parent' = [parent EXCEPT ![target] = Absent]
           \/ UNCHANGED parent
        /\ UNCHANGED worker
  /\ UNCHANGED next

-----------------------------------------------------------------------------
(* Mutant: finding.json moves with the other files.                        *)
Movable_record(files, f) == files \cup {Record}

(* move_contents takes the files in the order of the directory, and the    *)
(* record goes last.                                                       *)
Movable(files, f) == IF files = {} THEN {Record} ELSE files

Without(dir, file) ==
  IF file = Record THEN [dir EXCEPT !.record = Empty]
                   ELSE [dir EXCEPT !.files = @ \ {file}]

(* remove_dir takes the source once nothing is left in it.                 *)
Dropped(f, file) ==
  LET dir == Without(worker[f], file)
  IN  IF file = Record /\ dir.files = {} THEN Absent ELSE dir

Landed(i, f, file) ==
  LET dir == [parent[i] EXCEPT !.partial = @ \ {<<f, file>>}]
  IN  IF file = Record THEN [dir EXCEPT !.record = f]
                       ELSE [dir EXCEPT !.files = @ \cup {<<f, file>>}]

(* After a file, the next one; after the record, the finding is merged.    *)
Moved(file) ==
  IF file = Record
  THEN Leave(Keys[cur.finding])
  ELSE /\ merge' = "move" /\ cur' = [cur EXCEPT !.file = Nothing]
       /\ UNCHANGED <<target, todo, rest, seen, crosses>>

rename(file) ==
  /\ merge = "move" /\ file \in Movable(worker[cur.finding].files, cur.finding)
  /\ ~crosses
  /\ \/ /\ worker' = [worker EXCEPT ![cur.finding] = Dropped(cur.finding, file)]
        /\ parent' = [parent EXCEPT ![target] = Landed(target, cur.finding, file)]
        /\ Moved(file)
        /\ UNCHANGED faultVars
     \/ fail /\ UNCHANGED diskVars
  /\ UNCHANGED next

(* copy_across: to <name>.partial, from there into place, and the source   *)
(* is dropped.  A partial file an earlier merge left is replaced.          *)
copy(file) ==
  /\ merge = "move" /\ file \in Movable(worker[cur.finding].files, cur.finding)
  /\ crosses
  /\ parent' = [parent EXCEPT ![target].partial = @ \cup {<<cur.finding, file>>}]
  /\ merge' = "copied" /\ cur' = [cur EXCEPT !.file = file]
  /\ UNCHANGED <<worker, crosses, target, todo, rest, seen, next, faultVars>>

land ==
  /\ merge = "copied"
  /\ \/ /\ parent' = [parent EXCEPT ![target] =
                        Landed(target, cur.finding, cur.file)]
        /\ merge' = "landed"
        /\ UNCHANGED <<cur, target, todo, rest, seen, crosses, faultVars>>
     \/ /\ fail
        /\ \/ parent' = [parent EXCEPT ![target].partial =
                           @ \ {<<cur.finding, cur.file>>}]
           \/ UNCHANGED parent
  /\ UNCHANGED <<worker, next>>

(* A record that landed is committed even when its source stays, unless    *)
(* the stat that looks for it fails as well.                               *)
drop ==
  /\ merge = "landed"
  /\ \/ /\ worker' = [worker EXCEPT ![cur.finding] =
                        Dropped(cur.finding, cur.file)]
        /\ Moved(cur.file)
        /\ UNCHANGED faultVars
     \/ /\ UNCHANGED worker
        /\ \/ cur.file # Record /\ fail
           \/ cur.file = Record /\ Fault /\ Moved(cur.file)
           \/ cur.file = Record /\ Misread /\ Leave({})
  /\ UNCHANGED <<parent, next>>

MergeStep ==
  \/ list \/ reserve \/ log_intent \/ land \/ drop
  \/ \E f \in Findings : pass_over(f) \/ duplicate(f) \/ merge_one(f)
  \/ \E file \in Files \cup {Record} : rename(file) \/ copy(file)
==============================================================================
