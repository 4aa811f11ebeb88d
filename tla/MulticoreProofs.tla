--------------------------- MODULE MulticoreProofs ---------------------------
(***************************************************************************)
(* For any number of workers, findings and files, and any number of        *)
(* errors, kills and orphans: no file a worker has completely emitted is   *)
(* destroyed; and until a failed read is taken for an absence, what a      *)
(* merge puts where the results loader looks is whole, and the rest is     *)
(* where the next merge finds it.                                          *)
(***************************************************************************)
EXTENDS MulticoreFuzz, WellFoundedInduction, TLAPS

(* The types the argument needs.                                           *)
DiskTypes ==
  /\ worker \in [Findings -> {Absent} \cup Dirs]
  /\ parent \in [Ids -> {Absent} \cup ParentDirs]
  /\ writing \subseteq Findings

ControlTypes ==
  /\ cur \in [finding : {Nothing} \cup Findings, file : {Nothing, Record} \cup Files]
  /\ target \in {Nothing} \cup Ids

(* A finding is written files first; until its record is complete no merge *)
(* has touched it.                                                         *)
EmissionsAreOrdered ==
  \A f \in Findings :
    /\ f \in writing =>
         worker[f] # Absent /\ worker[f].record \in {Empty, Torn}
    /\ worker[f] # Absent /\ worker[f].record \in {Empty, Torn, Emitted} =>
         \A i \in Ids : Exists(i) => parent[i].record # f
    /\ worker[f] # Absent /\ worker[f].record \in {Torn, Emitted} =>
         worker[f].files = Files

(* An intent names the one directory that holds what has moved.            *)
IntentsNameTheirTarget ==
  \A f \in Findings : \A i \in Ids :
    worker[f] # Absent /\ worker[f].record = i =>
      /\ Exists(i) /\ parent[i].record \in {Empty, f}
      /\ \A g \in Findings, file \in Files : <<g, file>> \in parent[i].files => g = f
      /\ \A file \in Files :
           file \in worker[f].files \/ <<f, file>> \in parent[i].files
      /\ \A g \in Findings, file \in Files \cup {Record} :
           <<g, file>> \in parent[i].partial =>
             g = f /\ (file = Record \/ file \in worker[f].files)
      /\ parent[i].record = f => worker[f].files = {}
      /\ \A g \in Findings : worker[g] # Absent /\ worker[g].record = i => g = f

(* A committed directory is whole, and its source is gone or says so.      *)
CommitsAreWhole ==
  \A i \in Ids : Committed(i) =>
    /\ parent[i].partial = {}
    /\ parent[i].record = Foreign => parent[i].files = {}
    /\ \A f \in Findings : parent[i].record = f =>
         /\ parent[i].files = {f} \X Files
         /\ worker[f] = Absent \/ worker[f].record = i

(* No two directories hold the same record.                                *)
RecordsAreUnique ==
  \A i, j \in Ids :
    Committed(i) /\ Committed(j) /\ parent[i].record = parent[j].record => i = j

(* What each stage of merge_one has established.                           *)
MergeIsOnItsWay ==
  LET f == cur.finding IN
  /\ merge \in {"reserve", "intent"} =>
       f \in Findings /\ worker[f] # Absent /\ worker[f].record = Emitted
  /\ merge = "intent" =>
       /\ target \in Ids /\ parent[target] = Reservation
       /\ \A g \in Findings : worker[g] # Absent => worker[g].record # target
  /\ merge \in {"move", "copied", "landed"} =>
       /\ f \in Findings /\ worker[f] # Absent
       /\ target \in Ids /\ worker[f].record = target
  /\ merge \in {"move", "copied"} => parent[target].record = Empty
  /\ merge = "copied" =>
       cur.file \in Files \cup {Record} /\ (cur.file = Record => worker[f].files = {})
  /\ merge = "landed" =>
       \/ cur.file = Record /\ parent[target].record = f
       \/ /\ cur.file \in Files /\ parent[target].record = Empty
          /\ <<f, cur.file>> \in parent[target].files
          /\ <<f, cur.file>> \notin parent[target].partial

(* Seen holds the keys of every committed finding, but for the one that is *)
(* about to be left.                                                       *)
SeenIsUpToDate ==
  merge # "off" =>
    \A i \in Ids : \A f \in Findings :
      Exists(i) /\ parent[i].record = f =>
        Keys[f] \subseteq seen \/ (merge = "landed" /\ cur.file = Record /\ f = cur.finding)

DiskInv ==
  /\ DiskTypes /\ EmissionsAreOrdered /\ IntentsNameTheirTarget
  /\ CommitsAreWhole /\ RecordsAreUnique

ControlInv == ControlTypes /\ MergeIsOnItsWay /\ SeenIsUpToDate

MergeInv == DiskInv /\ ControlInv

Held(i, f) == Exists(i) /\ parent[i].record = f

(* A file of a finding is in its worker directory or in the parent.        *)
Kept(f, file) ==
  \/ worker[f] # Absent /\ file \in worker[f].files
  \/ \E i \in Ids : Exists(i) /\ <<f, file>> \in parent[i].files

(* Whatever is misread, a finding that was completely emitted is kept, and *)
(* an intent names a directory.                                            *)
FilesAreKept ==
  \A f \in Findings :
    Readable(f) \/ (\E i \in Ids : Held(i, f)) => \A file \in Files : Kept(f, file)

IntentsExist ==
  \A f \in Findings :
    worker[f] # Absent /\ worker[f].record \in Ids => Exists(worker[f].record)

(* What a stage of merge_one has established by itself.                    *)
StagesAreReached ==
  LET f == cur.finding IN
  /\ merge \in {"reserve", "intent", "move", "copied", "landed"} =>
       f \in Findings /\ worker[f] # Absent /\ worker[f].record \in {Emitted} \cup Ids
  /\ merge = "intent" =>
       /\ target \in Ids /\ parent[target] = Reservation
       /\ \A g \in Findings : worker[g] # Absent => worker[g].record # target
  /\ merge \in {"move", "copied", "landed"} => target \in Ids /\ worker[f].record = target
  /\ merge = "copied" => cur.file \in Files \cup {Record}
  /\ merge \in {"copied", "landed"} /\ cur.file = Record => worker[f].files = {}
  /\ merge = "landed" =>
       cur.file = Record \/ (cur.file \in Files /\ <<f, cur.file>> \in parent[target].files)

KeptDisk == DiskTypes /\ EmissionsAreOrdered /\ IntentsExist /\ FilesAreKept

KeptInv == KeptDisk /\ ControlTypes /\ StagesAreReached

(* The campaign and the merge agree on where they are.                     *)
CampaignTypes ==
  /\ orphans \subseteq Workers /\ children \subseteq pending /\ pending \subseteq Workers
  /\ campaign \in {"idle", "spawn", "poll", "merge"}
  /\ merge \in {"off", "list", "reserve", "intent", "move", "copied", "landed"}
  /\ merge = "off" <=> campaign # "merge"
  /\ merge \in {"intent", "move", "copied", "landed"} <=> target # Nothing
  /\ merge \in {"copied", "landed"} <=> cur.file # Nothing
  /\ next \in Nat

(* A failed read that is taken for an absence is a fault like any other.   *)
FaultsAreCounted ==
  /\ faults \in 0 .. MaxFaults
  /\ misread \in BOOLEAN /\ (misread => faults # 0)

(* Without a fault an intent is carried out before the next finding is     *)
(* looked at, so that Seen decides every merge.                            *)
OnceInv ==
  faults = 0 =>
    /\ \A i, j \in Ids : \A f, g \in Findings :
         i # j /\ Held(i, f) /\ Held(j, g) => Keys[f] \cap Keys[g] = {}
    /\ \A f \in Findings : \A i \in Ids :
         worker[f] # Absent /\ worker[f].record = i =>
           Held(i, f) \/ (merge \in {"move", "copied", "landed"} /\ f = cur.finding)
    /\ \/ merge \in {"reserve", "intent", "move", "copied"}
       \/ merge = "landed" /\ cur.file # Record
       => Keys[cur.finding] \cap seen = {}

-----------------------------------------------------------------------------
(* Steps that leave the disk alone.                                        *)

(* The disk part depends on the disk alone; a process that dies leaves     *)
(* what it was writing as it is.                                           *)
LEMMA DiskFrame ==
  ASSUME DiskInv, UNCHANGED diskVars, writing' \subseteq writing
  PROVE  DiskInv'
  BY DEF DiskInv, DiskTypes, EmissionsAreOrdered, IntentsNameTheirTarget,
         CommitsAreWhole, RecordsAreUnique, diskVars, Exists, Committed

(* The control part depends on no variable of the campaign.                *)
LEMMA ControlFrame ==
  ASSUME ControlInv, UNCHANGED <<diskVars, merge, cur, target, seen>>
  PROVE  ControlInv'
  BY DEF ControlInv, ControlTypes, MergeIsOnItsWay, SeenIsUpToDate, diskVars,
         Exists

(* A merge that is not under way claims nothing.                           *)
LEMMA ControlOff ==
  ASSUME merge' = "off", cur' = [finding |-> Nothing, file |-> Nothing],
         target' = Nothing
  PROVE  ControlInv'
  BY DEF ControlInv, ControlTypes, MergeIsOnItsWay, SeenIsUpToDate

(* Between two findings only the keys count.                               *)
LEMMA ControlListing ==
  ASSUME merge' = "list", cur' = [finding |-> Nothing, file |-> Nothing],
         target' = Nothing,
         \A i \in Ids : \A f \in Findings :
           Exists(i)' /\ parent'[i].record = f => Keys[f] \subseteq seen'
  PROVE  ControlInv'
  BY DEF ControlInv, ControlTypes, MergeIsOnItsWay, SeenIsUpToDate, Exists

(* The initial state.                                                      *)
LEMMA InitMerge == Init => MergeInv
<1> SUFFICES ASSUME Init PROVE MergeInv
  OBVIOUS
<1>1. DiskInv
  BY DEF Init, DiskInv, DiskTypes, EmissionsAreOrdered, IntentsNameTheirTarget,
         CommitsAreWhole, RecordsAreUnique, Exists, Committed
<1>2. ControlInv
  BY DEF Init, ControlInv, ControlTypes, MergeIsOnItsWay, SeenIsUpToDate
<1> QED
  BY <1>1, <1>2 DEF MergeInv

(* begin reads the keys of all that is committed.                          *)
LEMMA BeginStep ==
  ASSUME MergeInv, begin, ~misread', UNCHANGED writing PROVE MergeInv'
<1>1. DiskInv'
  BY DiskFrame DEF begin, MergeInv
<1>2. \A i \in Ids : \A f \in Findings :
        Exists(i)' /\ parent'[i].record = f => Keys[f] \subseteq seen'
  <2> DEFINE held == {i \in Ids : Exists(i) /\ parent[i].record \in Findings}
  <2>1. seen' = UNION {Keys[parent[i].record] : i \in held} /\ parent' = parent
    BY DEF begin, Misread, diskVars
  <2> QED
    BY <2>1 DEF Exists
<1>3. ControlInv'
  BY <1>2, ControlListing DEF begin
<1> QED
  BY <1>1, <1>3 DEF MergeInv

(* The steps of the listing: only the todo list and the keys change.       *)
LEMMA ListStep ==
  ASSUME MergeInv, merge = "list", merge' = "list", UNCHANGED <<diskVars, cur, target, writing>>,
         seen \subseteq seen'
  PROVE  MergeInv'
<1>1. DiskInv'
  BY DiskFrame DEF MergeInv
<1>2. ControlInv'
  BY DEF MergeInv, ControlInv, ControlTypes, MergeIsOnItsWay, SeenIsUpToDate,
         diskVars, Exists
<1> QED
  BY <1>1, <1>2 DEF MergeInv

(* A record with an intent and no directory to resume into is committed,   *)
(* so its keys are held: what is reserved for is as its worker wrote it.   *)
LEMMA MergeOneStep ==
  ASSUME MergeInv, NEW f \in Findings, merge_one(f), ~misread', UNCHANGED writing
  PROVE  MergeInv'
<1>1. DiskInv'
  BY DiskFrame DEF MergeInv, merge_one
<1>2. Readable(f) /\ worker[f] \in Dirs /\ worker[f] # Absent
  BY DEF MergeInv, DiskInv, DiskTypes, merge_one, Readable
<1>3. CASE resumable(f)
  <2>1. /\ merge' = "move" /\ cur' = [finding |-> f, file |-> Nothing]
        /\ target' = worker[f].record /\ seen' = seen
        /\ worker' = worker /\ parent' = parent
    BY <1>3 DEF merge_one, diskVars, Resumes, Misread
  <2>2. worker[f].record \in Ids /\ parent[worker[f].record].record = Empty
    BY <1>3 DEF resumable, carries_intent, Committed
  <2>3. merge = "list"
    BY DEF merge_one, Visiting
  <2> QED
    BY <1>1, <1>2, <2>1, <2>2, <2>3
    DEF MergeInv, ControlInv, ControlTypes, MergeIsOnItsWay, SeenIsUpToDate,
        Exists
<1>4. CASE ~resumable(f)
  <2>1. /\ merge' = "reserve" /\ cur' = [finding |-> f, file |-> Nothing]
        /\ target' = Nothing /\ seen' = seen
        /\ worker' = worker /\ parent' = parent /\ merge = "list" /\ ~holds(f)
    BY <1>4 DEF merge_one, diskVars, Visiting, Resumes, Misread
  <2>2. worker[f].record \notin Ids
    <3> SUFFICES ASSUME worker[f].record \in Ids PROVE FALSE
      OBVIOUS
    <3>1. Exists(worker[f].record) /\ parent[worker[f].record].record \in {Empty, f}
      BY <1>2 DEF MergeInv, DiskInv, IntentsNameTheirTarget
    <3>2. parent[worker[f].record].record = f
      BY <1>4, <3>1 DEF resumable, carries_intent, Committed
    <3>3. Keys[f] \subseteq seen
      BY <2>1, <3>1, <3>2 DEF MergeInv, ControlInv, SeenIsUpToDate
    <3> QED
      BY <2>1, <3>3, MergeAssumption DEF holds
  <2>3. worker[f].record = Emitted
    BY <1>2, <2>2 DEF Readable, Dirs
  <2> QED
    BY <1>1, <1>2, <2>1, <2>3
    DEF MergeInv, ControlInv, ControlTypes, MergeIsOnItsWay, SeenIsUpToDate,
        Exists
<1> QED
  BY <1>3, <1>4

-----------------------------------------------------------------------------
(* What a step may do to one directory.                                    *)

(* A new directory: a reservation, or another producer's finding.          *)
LEMMA DiskCreate ==
  ASSUME DiskInv, NEW i \in Ids, ~Exists(i), NEW r \in {Empty, Foreign},
         r = Foreign => \A j \in Ids : Exists(j) => parent[j].record # Foreign,
         parent' = [parent EXCEPT ![i] = [Reservation EXCEPT !.record = r]],
         UNCHANGED <<worker, writing>>
  PROVE  DiskInv'
<1> DEFINE d == [files |-> {}, partial |-> {}, record |-> r]
<1>1. /\ parent'[i] = d /\ d \in ParentDirs /\ d # Absent
      /\ \A j \in Ids : j # i => parent'[j] = parent[j]
      /\ d.files = {} /\ d.partial = {} /\ d.record = r
  BY MergeAssumption DEF DiskInv, DiskTypes, Reservation, ParentDirs
<1>2. \A f \in Findings : r # f
  BY MergeAssumption
<1> HIDE DEF d
<1>3. DiskTypes'
  BY <1>1 DEF DiskInv, DiskTypes
<1>4. EmissionsAreOrdered'
  BY <1>1, <1>2 DEF DiskInv, EmissionsAreOrdered, Exists
<1>5. \A f \in Findings : worker[f] # Absent => worker[f].record # i
  BY DEF DiskInv, IntentsNameTheirTarget
<1>6. IntentsNameTheirTarget'
  BY <1>1, <1>5 DEF DiskInv, IntentsNameTheirTarget, Exists
<1>7. CommitsAreWhole'
  <2> SUFFICES ASSUME NEW j \in Ids, Committed(j)'
      PROVE  /\ parent'[j].partial = {}
             /\ parent'[j].record = Foreign => parent'[j].files = {}
             /\ \A f \in Findings : parent'[j].record = f =>
                  /\ parent'[j].files = {f} \X Files
                  /\ worker'[f] = Absent \/ worker'[f].record = j
    BY DEF CommitsAreWhole
  <2>1. CASE j = i
    BY <1>1, <1>2, <2>1
  <2>2. CASE j # i
    <3>1. parent'[j] = parent[j] /\ Committed(j)
      BY <1>1, <2>2 DEF Committed, Exists
    <3>2. /\ parent[j].partial = {}
          /\ parent[j].record = Foreign => parent[j].files = {}
          /\ \A f \in Findings : parent[j].record = f =>
               /\ parent[j].files = {f} \X Files
               /\ worker[f] = Absent \/ worker[f].record = j
      BY <3>1 DEF DiskInv, CommitsAreWhole
    <3>3. worker' = worker
      OBVIOUS
    <3> QED
      BY <3>1, <3>2, <3>3, Zenon
  <2> QED
    BY <2>1, <2>2
<1>8. \A j \in Ids : j # i /\ Committed(j) => parent[j].record # r
  BY DEF Committed
<1>9. RecordsAreUnique'
  BY <1>1, <1>8 DEF DiskInv, RecordsAreUnique, Committed, Exists
<1> QED
  BY <1>3, <1>4, <1>6, <1>7, <1>9 DEF DiskInv

(* A reservation nobody names is given back.                               *)
LEMMA DiskRemove ==
  ASSUME DiskInv, NEW i \in Ids, parent' = [parent EXCEPT ![i] = Absent],
         parent[i] = Reservation, UNCHANGED <<worker, writing>>,
         \A g \in Findings : worker[g] # Absent => worker[g].record # i
  PROVE  DiskInv'
<1>1. parent'[i] = Absent /\ \A j \in Ids : j # i => parent'[j] = parent[j]
  BY DEF DiskInv, DiskTypes
<1>2. DiskTypes' /\ EmissionsAreOrdered'
  BY <1>1 DEF DiskInv, DiskTypes, EmissionsAreOrdered, Exists
<1>3. IntentsNameTheirTarget'
  BY <1>1 DEF DiskInv, IntentsNameTheirTarget, Exists
<1>4. CommitsAreWhole'
  BY <1>1 DEF DiskInv, CommitsAreWhole, Committed, Exists
<1>5. RecordsAreUnique'
  BY <1>1 DEF DiskInv, RecordsAreUnique, Committed, Exists
<1> QED
  BY <1>2, <1>3, <1>4, <1>5 DEF DiskInv

(* The intent log: an emitted finding names a fresh reservation.           *)
LEMMA DiskIntent ==
  ASSUME DiskInv, NEW f \in Findings, NEW i \in Ids,
         worker[f] # Absent, worker[f].record = Emitted,
         parent[i] = Reservation,
         \A g \in Findings : worker[g] # Absent => worker[g].record # i,
         worker' = [worker EXCEPT ![f].record = i],
         UNCHANGED <<parent, writing>>
  PROVE  DiskInv'
<1>1. /\ worker[f] \in Dirs /\ worker[f].files = Files /\ f \notin writing
      /\ \A j \in Ids : Exists(j) => parent[j].record # f
  BY MergeAssumption DEF DiskInv, DiskTypes, EmissionsAreOrdered
<1>2. /\ worker'[f] \in Dirs /\ worker'[f] # Absent
      /\ worker'[f].record = i /\ worker'[f].files = Files
      /\ \A g \in Findings : g # f => worker'[g] = worker[g]
  BY <1>1, MergeAssumption DEF DiskInv, DiskTypes, Dirs
<1>3. /\ Exists(i) /\ parent[i].record = Empty
      /\ parent[i].files = {} /\ parent[i].partial = {}
  <2>1. Reservation \in ParentDirs
    BY DEF Reservation, ParentDirs
  <2>2. Reservation # Absent
    BY <2>1, MergeAssumption
  <2> QED
    BY <2>2 DEF Reservation, Exists
<1>4. DiskTypes'
  BY <1>2 DEF DiskInv, DiskTypes
<1>5. EmissionsAreOrdered'
  BY <1>1, <1>2, MergeAssumption DEF DiskInv, EmissionsAreOrdered, Exists
<1>6. IntentsNameTheirTarget'
  BY <1>1, <1>2, <1>3, MergeAssumption DEF DiskInv, IntentsNameTheirTarget, Exists
<1>7. CommitsAreWhole'
  BY <1>1, <1>2 DEF DiskInv, CommitsAreWhole, Committed, Exists
<1>8. RecordsAreUnique'
  BY DEF DiskInv, RecordsAreUnique, Committed, Exists
<1> QED
  BY <1>4, <1>5, <1>6, <1>7, <1>8 DEF DiskInv

(* Partial copies come and go in an uncommitted directory.                 *)
LEMMA DiskPartial ==
  ASSUME DiskInv, NEW f \in Findings, NEW i \in Ids,
         worker[f] # Absent, worker[f].record = i, parent[i].record = Empty,
         NEW file \in Files \cup {Record},
         \/ /\ parent' = [parent EXCEPT ![i].partial = @ \cup {<<f, file>>}]
            /\ file = Record \/ file \in worker[f].files
         \/ parent' = [parent EXCEPT ![i].partial = @ \ {<<f, file>>}],
         UNCHANGED <<worker, writing>>
  PROVE  DiskInv'
<1>1. Exists(i) /\ parent[i] \in ParentDirs
  BY DEF DiskInv, DiskTypes, IntentsNameTheirTarget, Exists
<1>2. /\ parent'[i] \in ParentDirs /\ parent'[i] # Absent
      /\ parent'[i].record = Empty /\ parent'[i].files = parent[i].files
      /\ \A j \in Ids : j # i => parent'[j] = parent[j]
  BY <1>1, MergeAssumption DEF DiskInv, DiskTypes, ParentDirs
<1>3. \A g \in Findings, x \in Files \cup {Record} :
        <<g, x>> \in parent'[i].partial =>
          <<g, x>> \in parent[i].partial
            \/ (g = f /\ (x = Record \/ x \in worker[f].files))
  BY <1>1 DEF DiskInv, DiskTypes, ParentDirs
<1>4. DiskTypes'
  BY <1>2 DEF DiskInv, DiskTypes
<1>5. EmissionsAreOrdered'
  BY <1>2, MergeAssumption DEF DiskInv, EmissionsAreOrdered, Exists
<1>6. IntentsNameTheirTarget'
  BY <1>2, <1>3 DEF DiskInv, IntentsNameTheirTarget, Exists
<1>7. CommitsAreWhole' /\ RecordsAreUnique'
  BY <1>2 DEF DiskInv, CommitsAreWhole, RecordsAreUnique, Committed, Exists
<1> QED
  BY <1>4, <1>5, <1>6, <1>7 DEF DiskInv

(* The parent directory after the landing of a file, and of the record.    *)
LEMMA FileLanded ==
  ASSUME NEW i \in Ids, parent[i] \in ParentDirs, NEW f \in Findings,
         NEW file \in Files
  PROVE  /\ Landed(i, f, file) \in ParentDirs
         /\ Landed(i, f, file) # Absent
         /\ Landed(i, f, file).partial = parent[i].partial \ {<<f, file>>}
         /\ Landed(i, f, file).files = parent[i].files \cup {<<f, file>>}
         /\ Landed(i, f, file).record = parent[i].record
<1> DEFINE e == [parent[i] EXCEPT !.partial = @ \ {<<f, file>>}]
<1>1. /\ e \in ParentDirs /\ e.partial = parent[i].partial \ {<<f, file>>}
      /\ e.files = parent[i].files /\ e.record = parent[i].record
  BY DEF ParentDirs
<1>2. Landed(i, f, file) = [e EXCEPT !.files = @ \cup {<<f, file>>}]
  BY MergeAssumption DEF Landed
<1> HIDE DEF e
<1>3. Landed(i, f, file) \in ParentDirs
  BY <1>1, <1>2 DEF ParentDirs
<1> QED
  BY <1>1, <1>2, <1>3, MergeAssumption DEF ParentDirs

(* As above.                                                               *)
LEMMA RecordLanded ==
  ASSUME NEW i \in Ids, parent[i] \in ParentDirs, NEW f \in Findings
  PROVE  /\ Landed(i, f, Record) \in ParentDirs
         /\ Landed(i, f, Record) # Absent
         /\ Landed(i, f, Record).partial = parent[i].partial \ {<<f, Record>>}
         /\ Landed(i, f, Record).files = parent[i].files
         /\ Landed(i, f, Record).record = f
<1> DEFINE e == [parent[i] EXCEPT !.partial = @ \ {<<f, Record>>}]
<1>1. /\ e \in ParentDirs /\ e.partial = parent[i].partial \ {<<f, Record>>}
      /\ e.files = parent[i].files
  BY DEF ParentDirs
<1>2. Landed(i, f, Record) = [e EXCEPT !.record = f]
  BY DEF Landed
<1> HIDE DEF e
<1>3. Landed(i, f, Record) \in ParentDirs
  BY <1>1, <1>2 DEF ParentDirs
<1> QED
  BY <1>1, <1>2, <1>3, MergeAssumption DEF ParentDirs

(* A file lands, is dropped from its source, or both at once (rename).     *)
LEMMA DiskFile ==
  ASSUME DiskInv, NEW f \in Findings, NEW i \in Ids, NEW file \in Files,
         worker[f] # Absent, worker[f].record = i, parent[i].record = Empty,
         worker' = worker \/ worker' = [worker EXCEPT ![f] = Dropped(f, file)],
         parent' = parent \/ parent' = [parent EXCEPT ![i] = Landed(i, f, file)],
         <<f, file>> \in parent'[i].files,
         <<f, file>> \notin parent'[i].partial,
         UNCHANGED writing
  PROVE  /\ DiskInv'
         /\ worker'[f] # Absent /\ worker'[f].record = i
         /\ parent'[i].record = Empty
         /\ \A j \in Ids : j # i => parent'[j] = parent[j]
<1>1. Exists(i) /\ parent[i] \in ParentDirs /\ worker[f] \in Dirs
  BY DEF DiskInv, DiskTypes, IntentsNameTheirTarget, Exists
<1>2. file # Record
  BY MergeAssumption
<1>3. /\ worker'[f] \in Dirs /\ worker'[f] # Absent /\ worker'[f].record = i
      /\ \A x \in Files : x \in worker'[f].files \/ x = file <=>
                          x \in worker[f].files \/ x = file
      /\ \A g \in Findings : g # f => worker'[g] = worker[g]
  BY <1>1, <1>2, MergeAssumption DEF DiskInv, DiskTypes, Dirs, Dropped, Without
<1>4. /\ parent'[i] \in ParentDirs /\ parent'[i] # Absent
      /\ parent'[i].record = Empty
      /\ \A j \in Ids : j # i => parent'[j] = parent[j]
  <2>1. /\ Landed(i, f, file) \in ParentDirs /\ Landed(i, f, file) # Absent
        /\ Landed(i, f, file).record = Empty
    BY <1>1, FileLanded
  <2> QED
    BY <1>1, <2>1 DEF DiskInv, DiskTypes, Exists
<1>5. /\ \A g \in Findings, x \in Files :
           <<g, x>> \in parent'[i].files <=>
             <<g, x>> \in parent[i].files \/ <<g, x>> = <<f, file>>
      /\ \A g \in Findings, x \in Files \cup {Record} :
           <<g, x>> \in parent'[i].partial =>
             <<g, x>> \in parent[i].partial /\ <<g, x>> # <<f, file>>
  <2>1. /\ Landed(i, f, file).files = parent[i].files \cup {<<f, file>>}
        /\ Landed(i, f, file).partial = parent[i].partial \ {<<f, file>>}
    BY <1>1, FileLanded
  <2>2. parent'[i] = parent[i] \/ parent'[i] = Landed(i, f, file)
    BY DEF DiskInv, DiskTypes
  <2> QED
    BY <2>1, <2>2
<1>6. DiskTypes'
  <2>1. worker' \in [Findings -> {Absent} \cup Dirs]
    BY <1>3 DEF DiskInv, DiskTypes
  <2>2. parent' \in [Ids -> {Absent} \cup ParentDirs]
    BY <1>4 DEF DiskInv, DiskTypes
  <2> QED
    BY <2>1, <2>2 DEF DiskInv, DiskTypes
<1>7. EmissionsAreOrdered'
  BY <1>1, <1>3, <1>4, MergeAssumption DEF DiskInv, EmissionsAreOrdered, Exists
<1>8. IntentsNameTheirTarget'
  <2> SUFFICES ASSUME NEW g \in Findings, NEW j \in Ids,
                      worker'[g] # Absent, worker'[g].record = j
      PROVE  /\ Exists(j)' /\ parent'[j].record \in {Empty, g}
             /\ \A h \in Findings, x \in Files :
                  <<h, x>> \in parent'[j].files => h = g
             /\ \A x \in Files :
                  x \in worker'[g].files \/ <<g, x>> \in parent'[j].files
             /\ \A h \in Findings, x \in Files \cup {Record} :
                  <<h, x>> \in parent'[j].partial =>
                    h = g /\ (x = Record \/ x \in worker'[g].files)
             /\ parent'[j].record = g => worker'[g].files = {}
             /\ \A h \in Findings : worker'[h] # Absent /\ worker'[h].record = j
                  => h = g
    BY DEF IntentsNameTheirTarget
  <2>1. worker[g] # Absent /\ worker[g].record = j
    BY <1>3
  <2>2. CASE g = f
    <3>1. j = i
      BY <2>1, <2>2
    <3>2. /\ Exists(i)' /\ parent'[i].record = Empty
          /\ \A h \in Findings, x \in Files : <<h, x>> \in parent'[i].files => h = f
      BY <1>4, <1>5, <2>1, <2>2 DEF DiskInv, IntentsNameTheirTarget, Exists
    <3>3. \A x \in Files : x \in worker'[f].files \/ <<f, x>> \in parent'[i].files
      BY <1>3, <1>5, <2>1, <2>2 DEF DiskInv, IntentsNameTheirTarget
    <3>4. \A h \in Findings, x \in Files \cup {Record} :
            <<h, x>> \in parent'[i].partial =>
              h = f /\ (x = Record \/ x \in worker'[f].files)
      BY <1>3, <1>5, <2>1, <2>2 DEF DiskInv, IntentsNameTheirTarget
    <3>5. \A h \in Findings : worker'[h] # Absent /\ worker'[h].record = i => h = f
      BY <1>3, <2>1, <2>2 DEF DiskInv, IntentsNameTheirTarget
    <3> QED
      BY <2>2, <3>1, <3>2, <3>3, <3>4, <3>5, MergeAssumption
  <2>3. CASE g # f
    <3>1. j # i
      BY <2>1, <2>3 DEF DiskInv, IntentsNameTheirTarget
    <3>2. parent'[j] = parent[j] /\ worker'[g] = worker[g]
      BY <1>3, <1>4, <2>3, <3>1
    <3>3. \A h \in Findings : worker'[h] # Absent /\ worker'[h].record = j => h = g
      BY <1>3, <2>1, <3>1 DEF DiskInv, IntentsNameTheirTarget
    <3> QED
      BY <2>1, <3>2, <3>3 DEF DiskInv, IntentsNameTheirTarget, Exists
  <2> QED
    BY <2>2, <2>3
<1>9. CommitsAreWhole'
  BY <1>3, <1>4 DEF DiskInv, CommitsAreWhole, Committed, Exists
<1>10. RecordsAreUnique'
  BY <1>4 DEF DiskInv, RecordsAreUnique, Committed, Exists
<1> QED
  BY <1>3, <1>4, <1>6, <1>7, <1>8, <1>9, <1>10 DEF DiskInv

(* The record of a finding whose files have all moved: it lands, is        *)
(* dropped with its directory, or both.                                    *)
LEMMA DiskRecord ==
  ASSUME DiskInv, NEW f \in Findings, NEW i \in Ids,
         worker[f] # Absent, worker[f].record = i, worker[f].files = {},
         worker' = worker \/ worker' = [worker EXCEPT ![f] = Dropped(f, Record)],
         \/ parent' = parent /\ parent[i].record = f
         \/ /\ parent' = [parent EXCEPT ![i] = Landed(i, f, Record)]
            /\ parent[i].record = Empty,
         UNCHANGED writing
  PROVE  /\ DiskInv'
         /\ parent'[i].record = f /\ parent'[i] # Absent
         /\ \A j \in Ids : j # i => parent'[j] = parent[j]
<1>1. Exists(i) /\ parent[i] \in ParentDirs /\ worker[f] \in Dirs
  BY DEF DiskInv, DiskTypes, IntentsNameTheirTarget, Exists
<1>2. /\ \A g \in Findings : g # f => worker'[g] = worker[g]
      /\ worker'[f] = worker[f] \/ worker'[f] = Absent
  BY <1>1 DEF DiskInv, DiskTypes, Dirs, Dropped, Without
<1>3. /\ parent'[i] \in ParentDirs /\ parent'[i] # Absent
      /\ parent'[i].record = f /\ parent'[i].files = parent[i].files
      /\ \A j \in Ids : j # i => parent'[j] = parent[j]
  <2>1. /\ Landed(i, f, Record) \in ParentDirs /\ Landed(i, f, Record) # Absent
        /\ Landed(i, f, Record).record = f
        /\ Landed(i, f, Record).files = parent[i].files
    BY <1>1, RecordLanded
  <2> QED
    BY <1>1, <2>1 DEF DiskInv, DiskTypes, Exists
<1>4. parent'[i].files = {f} \X Files
  <2>1. /\ \A g \in Findings, x \in Files : <<g, x>> \in parent[i].files => g = f
        /\ \A x \in Files : <<f, x>> \in parent[i].files
    BY DEF DiskInv, IntentsNameTheirTarget
  <2>2. parent[i].files \subseteq Findings \X Files
    BY <1>1 DEF ParentDirs
  <2> QED
    BY <1>3, <2>1, <2>2
<1>5. parent'[i].partial = {}
  <2>1. CASE parent' = parent /\ parent[i].record = f
    BY <1>1, <2>1, MergeAssumption DEF DiskInv, CommitsAreWhole, Committed
  <2>2. CASE /\ parent' = [parent EXCEPT ![i] = Landed(i, f, Record)]
             /\ parent[i].record = Empty
    <3>1. \A g \in Findings, x \in Files \cup {Record} :
            <<g, x>> \in parent[i].partial => g = f /\ x = Record
      BY DEF DiskInv, IntentsNameTheirTarget
    <3>2. parent[i].partial \subseteq Findings \X (Files \cup {Record})
      BY <1>1 DEF ParentDirs
    <3>3. parent'[i].partial = parent[i].partial \ {<<f, Record>>}
      BY <1>1, <2>2 DEF DiskInv, DiskTypes, ParentDirs, Landed
    <3> QED
      BY <3>1, <3>2, <3>3
  <2> QED
    BY <2>1, <2>2
<1>6. DiskTypes'
  <2>1. worker' \in [Findings -> {Absent} \cup Dirs]
    BY <1>1, <1>2 DEF DiskInv, DiskTypes
  <2>2. parent' \in [Ids -> {Absent} \cup ParentDirs]
    BY <1>3 DEF DiskInv, DiskTypes
  <2> QED
    BY <2>1, <2>2 DEF DiskInv, DiskTypes
<1>7. worker[f].record \notin {Empty, Torn, Emitted} /\ f \notin writing
  BY MergeAssumption DEF DiskInv, EmissionsAreOrdered
<1>8. EmissionsAreOrdered'
  BY <1>2, <1>3, <1>7 DEF DiskInv, EmissionsAreOrdered, Exists
<1>9. IntentsNameTheirTarget'
  <2>1. \A g \in Findings : worker[g] # Absent /\ worker[g].record = i => g = f
    BY DEF DiskInv, IntentsNameTheirTarget
  <2>2. \A g \in Findings : g # f /\ worker[g] # Absent => worker[g].record # i
    BY <2>1
  <2>3. \A x \in Files : <<f, x>> \in parent'[i].files
    BY <1>4
  <2>4. \A g \in Findings, x \in Files : <<g, x>> \in parent'[i].files => g = f
    BY <1>4
  <2> QED
    BY <1>2, <1>3, <1>5, <2>2, <2>3, <2>4
    DEF DiskInv, IntentsNameTheirTarget, Exists
<1>10. \A j \in Ids : j # i /\ Committed(j) => parent[j].record # f
  BY DEF DiskInv, CommitsAreWhole
<1>11. CommitsAreWhole'
  <2> SUFFICES ASSUME NEW j \in Ids, Committed(j)'
      PROVE  /\ parent'[j].partial = {}
             /\ parent'[j].record = Foreign => parent'[j].files = {}
             /\ \A g \in Findings : parent'[j].record = g =>
                  /\ parent'[j].files = {g} \X Files
                  /\ worker'[g] = Absent \/ worker'[g].record = j
    BY DEF CommitsAreWhole
  <2>1. CASE j = i
    BY <1>2, <1>3, <1>4, <1>5, <2>1, MergeAssumption
  <2>2. CASE j # i
    <3>1. parent'[j] = parent[j] /\ Committed(j)
      BY <1>3, <2>2 DEF Committed, Exists
    <3>2. parent[j].record # f
      BY <1>10, <2>2, <3>1
    <3> QED
      BY <1>2, <3>1, <3>2 DEF DiskInv, CommitsAreWhole
  <2> QED
    BY <2>1, <2>2
<1>12. RecordsAreUnique'
  BY <1>3, <1>10 DEF DiskInv, RecordsAreUnique, Committed, Exists
<1> QED
  BY <1>3, <1>6, <1>8, <1>9, <1>11, <1>12 DEF DiskInv

-----------------------------------------------------------------------------
(* The worker processes.                                                   *)

(* A finding that no merge has met may change as its writer likes, as long *)
(* as its record comes last.                                               *)
LEMMA EmitterMoves ==
  ASSUME MergeInv, NEW f \in Findings,
         worker[f] = Absent \/ worker[f].record \in {Empty, Torn},
         \A i \in Ids : Exists(i) => parent[i].record # f,
         NEW d \in Dirs, worker' = [worker EXCEPT ![f] = d],
         d.record \in {Empty, Torn, Emitted},
         d.record # Empty => d.files = Files,
         writing' \subseteq writing \cup {f},
         f \in writing' => d.record # Emitted,
         UNCHANGED <<parent, mergeVars>>
  PROVE  MergeInv'
<1>1. /\ worker'[f] = d /\ d # Absent /\ d.record \notin Ids
      /\ \A g \in Findings : g # f => worker'[g] = worker[g]
  BY MergeAssumption DEF MergeInv, DiskInv, DiskTypes
<1>2. DiskTypes'
  BY DEF MergeInv, DiskInv, DiskTypes
<1>3. EmissionsAreOrdered'
  BY <1>1, MergeAssumption DEF MergeInv, DiskInv, EmissionsAreOrdered, Exists
<1>4. IntentsNameTheirTarget'
  BY <1>1 DEF MergeInv, DiskInv, IntentsNameTheirTarget, Exists
<1>5. CommitsAreWhole'
  BY <1>1 DEF MergeInv, DiskInv, CommitsAreWhole, Committed, Exists
<1>6. RecordsAreUnique'
  BY DEF MergeInv, DiskInv, RecordsAreUnique, Committed, Exists
<1>7. ControlTypes' /\ SeenIsUpToDate'
  BY DEF MergeInv, ControlInv, ControlTypes, SeenIsUpToDate, mergeVars, Exists
<1>8. MergeIsOnItsWay'
  <2>1. merge \in {"reserve", "intent", "move", "copied", "landed"} =>
          cur.finding # f
    BY MergeAssumption DEF MergeInv, ControlInv, MergeIsOnItsWay
  <2> QED
    BY <1>1, <2>1 DEF MergeInv, ControlInv, MergeIsOnItsWay, mergeVars
<1> QED
  BY <1>2, <1>3, <1>4, <1>5, <1>6, <1>7, <1>8 DEF MergeInv, DiskInv, ControlInv

(* A new directory.                                                        *)
LEMMA AllocateStep ==
  ASSUME MergeInv, NEW f \in Findings, allocate_finding(f) PROVE MergeInv'
<1>1. worker[f] = Absent
  BY MergeAssumption DEF allocate_finding
<1>2. [files |-> {}, record |-> Empty] \in Dirs
  BY DEF Dirs
<1> QED
  BY <1>1, <1>2, EmitterMoves, MergeAssumption DEF allocate_finding

(* A file, or a part of the record once every file is there.               *)
LEMMA WriteStep ==
  ASSUME MergeInv, NEW f \in Findings, NEW file \in Files \cup {Record},
         write(f, file)
  PROVE  MergeInv'
<1>1. /\ worker[f] # Absent /\ worker[f] \in Dirs
      /\ worker[f].record \in {Empty, Torn}
      /\ \A i \in Ids : Exists(i) => parent[i].record # f
      /\ worker[f].record = Torn => worker[f].files = Files
  BY DEF write, MergeInv, DiskInv, DiskTypes, EmissionsAreOrdered
<1>2. CASE file = Record
  <2> DEFINE d == [worker[f] EXCEPT !.record = IF @ = Torn THEN Emitted ELSE Torn]
  <2>1. worker[f].files = Files
    BY <1>2, MergeAssumption DEF write, Writable
  <2>2. /\ d \in Dirs /\ d.files = Files /\ d.record \in {Torn, Emitted}
        /\ worker' = [worker EXCEPT ![f] = d]
    BY <1>1, <1>2, <2>1 DEF write, Dirs, MergeInv, DiskInv, DiskTypes
  <2>3. worker'[f] = d
    BY <2>2 DEF MergeInv, DiskInv, DiskTypes
  <2> HIDE DEF d
  <2>4. writing' \subseteq writing /\ (f \in writing' => d.record # Emitted)
    BY <2>3 DEF write
  <2> QED
    BY <1>1, <2>2, <2>4, EmitterMoves DEF write
<1>3. CASE file # Record
  <2> DEFINE d == [worker[f] EXCEPT !.files = @ \cup {file}]
  <2>1. worker[f].record # Torn
    BY <1>1, <1>3 DEF write, Writable
  <2>2. /\ d \in Dirs /\ d.record = Empty
        /\ worker' = [worker EXCEPT ![f] = d]
    BY <1>1, <1>3, <2>1 DEF write, Dirs, MergeInv, DiskInv, DiskTypes
  <2> HIDE DEF d
  <2>3. writing' \subseteq writing
    BY DEF write
  <2> QED
    BY <1>1, <2>2, <2>3, EmitterMoves, MergeAssumption DEF write
<1> QED
  BY <1>2, <1>3

-----------------------------------------------------------------------------
(* The merge.                                                              *)

(* A finding is left, merged or failed, once nothing is committed that     *)
(* Seen does not hold.                                                     *)
LEMMA LeaveStep ==
  ASSUME ControlInv, merge # "off", NEW keys, Leave(keys),
         cur.finding \in Findings,
         \A i \in Ids : \A f \in Findings :
           Exists(i)' /\ parent'[i].record = f =>
             (Exists(i) /\ parent[i].record = f) \/ f = cur.finding,
         keys = Keys[cur.finding]
           \/ /\ ~(merge = "landed" /\ cur.file = Record)
              /\ \A i \in Ids : Exists(i)' /\ parent'[i].record = cur.finding =>
                   Exists(i) /\ parent[i].record = cur.finding
  PROVE  ControlInv'
<1>1. \A i \in Ids : \A f \in Findings :
        Exists(i)' /\ parent'[i].record = f => Keys[f] \subseteq seen'
  BY DEF Leave, ControlInv, SeenIsUpToDate
<1> QED
  BY <1>1, ControlListing DEF Leave

(* A fault that leaves the disk as it is.                                  *)
LEMMA FailStep ==
  ASSUME MergeInv, fail, UNCHANGED <<diskVars, writing>>,
         \/ merge \in {"reserve", "intent", "move", "copied"}
         \/ merge = "landed" /\ cur.file # Record
  PROVE  MergeInv'
<1>1. DiskInv'
  BY DiskFrame DEF MergeInv
<1>2. cur.finding \in Findings
  BY DEF MergeInv, ControlInv, MergeIsOnItsWay
<1>3. ControlInv'
  BY <1>2, LeaveStep DEF fail, MergeInv, diskVars, Exists
<1> QED
  BY <1>1, <1>3 DEF MergeInv

(* create_with_suffix.                                                     *)
LEMMA ReserveStep == ASSUME MergeInv, reserve, UNCHANGED writing PROVE MergeInv'
<1>1. CASE fail /\ UNCHANGED <<parent, next>>
  BY <1>1, FailStep DEF reserve, diskVars
<1>2. CASE /\ next \in Ids /\ Exists(next)
           /\ UNCHANGED <<parent, target, merge, cur, seen>>
  <2>1. UNCHANGED diskVars
    BY <1>2 DEF reserve, diskVars
  <2> QED
    BY <1>2, <2>1, DiskFrame, ControlFrame DEF MergeInv
<1>3. CASE /\ next \in Ids /\ ~Exists(next)
           /\ parent' = [parent EXCEPT ![next] = Reservation]
           /\ target' = next /\ merge' = "intent" /\ UNCHANGED <<cur, seen>>
  <2>1. Reservation = [Reservation EXCEPT !.record = Empty]
    BY DEF Reservation
  <2>2. DiskInv'
    BY <1>3, <2>1, DiskCreate, MergeAssumption DEF MergeInv, reserve
  <2>3. \A g \in Findings : worker[g] # Absent => worker[g].record # next
    BY <1>3 DEF MergeInv, DiskInv, IntentsNameTheirTarget
  <2>4. /\ parent'[next] = Reservation
        /\ \A i \in Ids : i # next => parent'[i] = parent[i]
    BY <1>3 DEF MergeInv, DiskInv, DiskTypes
  <2>5. merge = "reserve" /\ worker' = worker
    BY DEF reserve
  <2>6. ControlTypes' /\ MergeIsOnItsWay'
    BY <1>3, <2>3, <2>4, <2>5 DEF MergeInv, ControlInv, ControlTypes, MergeIsOnItsWay
  <2>7. Reservation.record = Empty /\ \A f \in Findings : Empty # f
    BY MergeAssumption DEF Reservation
  <2>8. SeenIsUpToDate'
    BY <1>3, <2>4, <2>5, <2>7 DEF MergeInv, ControlInv, SeenIsUpToDate, Exists
  <2> QED
    BY <2>2, <2>6, <2>8 DEF MergeInv, ControlInv
<1> QED
  BY <1>1, <1>2, <1>3 DEF reserve

(* The intent log, or the reservation given back.                          *)
LEMMA LogIntentStep == ASSUME MergeInv, log_intent, UNCHANGED writing PROVE MergeInv'
<1>1. /\ merge = "intent" /\ cur.finding \in Findings
      /\ worker[cur.finding] # Absent /\ worker[cur.finding].record = Emitted
      /\ target \in Ids /\ parent[target] = Reservation
      /\ \A g \in Findings : worker[g] # Absent => worker[g].record # target
  BY DEF log_intent, MergeInv, ControlInv, MergeIsOnItsWay
<1>2. Reservation.record = Empty
  BY DEF Reservation
<1>3. CASE /\ worker' = [worker EXCEPT ![cur.finding].record = target]
           /\ merge' = "move" /\ UNCHANGED <<parent, cur, target, seen>>
  <2>1. DiskInv'
    BY <1>1, <1>3, DiskIntent DEF MergeInv
  <2>2. worker'[cur.finding].record = target /\ worker'[cur.finding] # Absent
    <3>1. worker[cur.finding] \in Dirs
      BY <1>1 DEF MergeInv, DiskInv, DiskTypes
    <3>2. worker'[cur.finding] \in Dirs /\ worker'[cur.finding].record = target
      BY <1>1, <1>3, <3>1 DEF MergeInv, DiskInv, DiskTypes, Dirs
    <3> QED
      BY <3>2, MergeAssumption
  <2>3. ControlTypes' /\ MergeIsOnItsWay'
    BY <1>1, <1>2, <1>3, <2>2 DEF MergeInv, ControlInv, ControlTypes, MergeIsOnItsWay
  <2>4. SeenIsUpToDate'
    BY <1>1, <1>3 DEF MergeInv, ControlInv, SeenIsUpToDate, Exists
  <2> QED
    BY <2>1, <2>3, <2>4 DEF MergeInv, ControlInv
<1>4. CASE fail /\ parent' = [parent EXCEPT ![target] = Absent] /\ UNCHANGED worker
  <2>1. DiskInv'
    BY <1>1, <1>4, DiskRemove DEF MergeInv
  <2>2. \A i \in Ids : Exists(i)' => Exists(i) /\ parent'[i] = parent[i]
    BY <1>1, <1>4 DEF MergeInv, DiskInv, DiskTypes, Exists
  <2>3. ControlInv'
    BY <1>1, <1>4, <2>2, LeaveStep DEF fail, MergeInv
  <2> QED
    BY <2>1, <2>3 DEF MergeInv
<1>5. CASE fail /\ UNCHANGED <<parent, worker>>
  BY <1>1, <1>5, FailStep DEF diskVars
<1> QED
  BY <1>3, <1>4, <1>5 DEF log_intent, Intent

(* What the stages of a move rest on.                                      *)
LEMMA Moving ==
  ASSUME MergeInv, merge \in {"move", "copied", "landed"}
  PROVE  /\ cur.finding \in Findings /\ worker[cur.finding] # Absent
         /\ worker[cur.finding] \in Dirs
         /\ target \in Ids /\ worker[cur.finding].record = target
         /\ Exists(target) /\ merge # "off"
         /\ cur \in [finding : {Nothing} \cup Findings,
                     file : {Nothing, Record} \cup Files]
  BY DEF MergeInv, DiskInv, DiskTypes, IntentsNameTheirTarget, ControlInv,
         ControlTypes, MergeIsOnItsWay, Exists

(* The files of a finding move first: what is chosen is a file of the      *)
(* worker directory, or the record when there is none left.                *)
LEMMA Chosen ==
  ASSUME NEW f, NEW files, NEW file \in Files \cup {Record},
         files \subseteq Files, file \in Movable(files, f)
  PROVE  (file \in files /\ file \in Files) \/ (file = Record /\ files = {})
  BY MergeAssumption DEF Movable

(* A file is in place and dropped from its source: on to the next one.     *)
LEMMA FileMoved ==
  ASSUME MergeInv, merge = "move" \/ merge = "landed", NEW file \in Files,
         parent[target].record = Empty,
         worker' = [worker EXCEPT ![cur.finding] = Dropped(cur.finding, file)],
         parent' = parent \/
           parent' = [parent EXCEPT ![target] = Landed(target, cur.finding, file)],
         <<cur.finding, file>> \in parent'[target].files,
         <<cur.finding, file>> \notin parent'[target].partial,
         Moved(file), UNCHANGED writing
  PROVE  MergeInv'
<1>1. file # Record
  BY MergeAssumption
<1>2. /\ merge' = "move" /\ cur' = [cur EXCEPT !.file = Nothing]
      /\ target' = target /\ seen' = seen
  BY <1>1 DEF Moved
<1>3. /\ DiskInv'
      /\ worker'[cur.finding] # Absent /\ worker'[cur.finding].record = target
      /\ parent'[target].record = Empty
      /\ \A j \in Ids : j # target => parent'[j] = parent[j]
  <2>1. /\ DiskInv /\ cur.finding \in Findings /\ target \in Ids
        /\ worker[cur.finding] # Absent /\ worker[cur.finding].record = target
    BY Moving DEF MergeInv
  <2> QED
    BY <2>1, DiskFile
<1>4. cur'.finding = cur.finding /\ ControlTypes'
  BY <1>2, Moving DEF MergeInv, ControlInv, ControlTypes
<1>5. MergeIsOnItsWay'
  BY <1>2, <1>3, <1>4, Moving DEF MergeIsOnItsWay
<1>6. \A f \in Findings : Empty # f
  BY MergeAssumption
<1>7. SeenIsUpToDate'
  <2> SUFFICES ASSUME NEW j \in Ids, NEW f \in Findings,
                      parent'[j] # Absent, parent'[j].record = f
      PROVE  Keys[f] \subseteq seen
    BY <1>2 DEF SeenIsUpToDate, Exists
  <2>1. j # target /\ parent'[j] = parent[j]
    BY <1>3, <1>6
  <2>2. ~(merge = "landed" /\ cur.file = Record)
    BY Moving, MergeAssumption DEF MergeInv, ControlInv, MergeIsOnItsWay
  <2> QED
    BY <2>1, <2>2, Moving DEF MergeInv, ControlInv, SeenIsUpToDate, Exists
<1> QED
  BY <1>3, <1>4, <1>5, <1>7 DEF MergeInv, ControlInv

(* The record is in place, and its source dropped or not: the finding is   *)
(* merged.                                                                 *)
LEMMA RecordMoved ==
  ASSUME MergeInv, merge = "move" \/ merge = "landed",
         worker[cur.finding].files = {},
         \/ worker' = worker
         \/ worker' = [worker EXCEPT ![cur.finding] = Dropped(cur.finding, Record)],
         \/ parent' = parent /\ parent[target].record = cur.finding
         \/ /\ parent' = [parent EXCEPT ![target] = Landed(target, cur.finding, Record)]
            /\ parent[target].record = Empty,
         Moved(Record), UNCHANGED writing
  PROVE  MergeInv'
<1>1. Leave(Keys[cur.finding])
  BY DEF Moved
<1>2. /\ DiskInv' /\ parent'[target].record = cur.finding
      /\ \A j \in Ids : j # target => parent'[j] = parent[j]
  <2>1. /\ DiskInv /\ cur.finding \in Findings /\ target \in Ids
        /\ worker[cur.finding] # Absent /\ worker[cur.finding].record = target
    BY Moving DEF MergeInv
  <2> QED
    BY <2>1, DiskRecord
<1>3. ControlInv'
  BY <1>1, <1>2, Moving, LeaveStep DEF MergeInv, Exists
<1> QED
  BY <1>2, <1>3 DEF MergeInv

(* move_file on one device.                                                *)
LEMMA RenameStep ==
  ASSUME MergeInv, NEW file \in Files \cup {Record}, rename(file),
         UNCHANGED writing
  PROVE  MergeInv'
<1>1. merge = "move" /\ file \in Movable(worker[cur.finding].files, cur.finding)
  BY DEF rename
<1>2. parent[target].record = Empty /\ parent[target] \in ParentDirs
  BY <1>1, Moving DEF MergeInv, DiskInv, DiskTypes, ControlInv, MergeIsOnItsWay,
     Exists
<1>3. worker[cur.finding].files \subseteq Files
  BY <1>1, Moving DEF Dirs
<1>4. \/ file \in worker[cur.finding].files /\ file \in Files
      \/ file = Record /\ worker[cur.finding].files = {}
  BY <1>1, <1>3, Chosen
<1>5. CASE fail /\ UNCHANGED diskVars
  BY <1>1, <1>5, FailStep
<1>6. CASE /\ worker' = [worker EXCEPT ![cur.finding] = Dropped(cur.finding, file)]
           /\ parent' = [parent EXCEPT ![target] = Landed(target, cur.finding, file)]
           /\ Moved(file)
  <2>1. CASE file \in Files
    <3>1. parent'[target] = Landed(target, cur.finding, file)
      BY <1>1, <1>6, Moving DEF MergeInv, DiskInv, DiskTypes
    <3>2. /\ <<cur.finding, file>> \in parent'[target].files
          /\ <<cur.finding, file>> \notin parent'[target].partial
      BY <1>1, <1>2, <2>1, <3>1, Moving, FileLanded
    <3> QED
      BY <1>1, <1>2, <1>6, <2>1, <3>2, FileMoved
  <2>2. CASE file = Record /\ worker[cur.finding].files = {}
    BY <1>1, <1>2, <1>6, <2>2, RecordMoved
  <2> QED
    BY <1>4, <2>1, <2>2
<1> QED
  BY <1>5, <1>6 DEF rename

(* copy_across, the copy.                                                  *)
LEMMA CopyStep ==
  ASSUME MergeInv, NEW file \in Files \cup {Record}, copy(file),
         UNCHANGED writing
  PROVE  MergeInv'
<1>1. /\ merge = "move" /\ file \in Movable(worker[cur.finding].files, cur.finding)
      /\ parent' = [parent EXCEPT ![target].partial = @ \cup {<<cur.finding, file>>}]
      /\ merge' = "copied" /\ cur' = [cur EXCEPT !.file = file]
      /\ UNCHANGED <<worker, target, seen>>
  BY DEF copy
<1>2. parent[target].record = Empty /\ parent[target] \in ParentDirs
  BY <1>1, Moving DEF MergeInv, DiskInv, DiskTypes, ControlInv, MergeIsOnItsWay,
     Exists
<1>3. worker[cur.finding].files \subseteq Files
  BY <1>1, Moving DEF Dirs
<1>4. \/ file \in worker[cur.finding].files /\ file \in Files
      \/ file = Record /\ worker[cur.finding].files = {}
  BY <1>1, <1>3, Chosen
<1>5. DiskInv'
  <2>1. /\ DiskInv /\ cur.finding \in Findings /\ target \in Ids
        /\ worker[cur.finding] # Absent /\ worker[cur.finding].record = target
    BY <1>1, Moving DEF MergeInv
  <2> QED
    BY <1>1, <1>2, <1>4, <2>1, DiskPartial
<1>6. /\ parent'[target].record = Empty
      /\ \A j \in Ids : j # target => parent'[j] = parent[j]
  BY <1>1, <1>2, Moving DEF MergeInv, DiskInv, DiskTypes, ParentDirs
<1>7. cur'.finding = cur.finding /\ cur'.file = file /\ ControlTypes'
  BY <1>1, Moving DEF MergeInv, ControlInv, ControlTypes
<1>8. file = Record => worker[cur.finding].files = {}
  BY <1>4, MergeAssumption
<1>9. MergeIsOnItsWay'
  BY <1>1, <1>6, <1>7, <1>8, Moving DEF MergeIsOnItsWay
<1>10. \A f \in Findings : Empty # f
  BY MergeAssumption
<1>11. SeenIsUpToDate'
  BY <1>1, <1>6, <1>10 DEF MergeInv, ControlInv, SeenIsUpToDate, Exists
<1> QED
  BY <1>5, <1>7, <1>9, <1>11 DEF MergeInv, ControlInv

(* copy_across, the rename of the copy into place.                         *)
LEMMA LandStep == ASSUME MergeInv, land, UNCHANGED writing PROVE MergeInv'
<1>1. /\ merge = "copied" /\ worker' = worker
      /\ cur.file \in Files \cup {Record}
      /\ cur.file = Record => worker[cur.finding].files = {}
      /\ parent[target].record = Empty
  BY DEF land, MergeInv, ControlInv, MergeIsOnItsWay
<1>a. /\ DiskInv /\ cur.finding \in Findings /\ target \in Ids
      /\ worker[cur.finding] # Absent /\ worker[cur.finding].record = target
  BY <1>1, Moving DEF MergeInv
<1>2. parent[target] \in ParentDirs
  BY <1>1, Moving DEF MergeInv, DiskInv, DiskTypes, Exists
<1>3. \A f \in Findings : Empty # f
  BY MergeAssumption
<1>4. CASE /\ parent' = [parent EXCEPT ![target] = Landed(target, cur.finding, cur.file)]
           /\ merge' = "landed" /\ UNCHANGED <<cur, target, seen>>
  <2>1. parent'[target] = Landed(target, cur.finding, cur.file)
    BY <1>1, <1>4, Moving DEF MergeInv, DiskInv, DiskTypes
  <2>2. CASE cur.file \in Files
    <3>1. /\ <<cur.finding, cur.file>> \in parent'[target].files
          /\ <<cur.finding, cur.file>> \notin parent'[target].partial
      BY <1>1, <1>2, <2>1, <2>2, Moving, FileLanded
    <3>2. /\ DiskInv' /\ parent'[target].record = Empty
          /\ \A j \in Ids : j # target => parent'[j] = parent[j]
      <4>1. /\ \/ worker' = worker
               \/ worker' = [worker EXCEPT ![cur.finding] = Dropped(cur.finding, cur.file)]
            /\ \/ parent' = parent
               \/ parent' = [parent EXCEPT ![target] = Landed(target, cur.finding, cur.file)]
            /\ parent[target].record = Empty
        BY <1>1, <1>4
      <4> QED
        BY <1>a, <2>2, <3>1, <4>1, DiskFile, Zenon
    <3>3. ControlTypes' /\ MergeIsOnItsWay'
      BY <1>1, <1>4, <2>2, <3>1, <3>2, Moving
      DEF MergeInv, ControlInv, ControlTypes, MergeIsOnItsWay
    <3>4. SeenIsUpToDate'
      BY <1>1, <1>3, <1>4, <3>2 DEF MergeInv, ControlInv, SeenIsUpToDate, Exists
    <3> QED
      BY <3>2, <3>3, <3>4 DEF MergeInv, ControlInv
  <2>3. CASE cur.file = Record
    <3>1. /\ DiskInv' /\ parent'[target].record = cur.finding
          /\ \A j \in Ids : j # target => parent'[j] = parent[j]
      <4>1. /\ \/ worker' = worker
               \/ worker' = [worker EXCEPT ![cur.finding] = Dropped(cur.finding, Record)]
            /\ \/ parent' = parent /\ parent[target].record = cur.finding
               \/ /\ parent' = [parent EXCEPT ![target] = Landed(target, cur.finding, Record)]
                  /\ parent[target].record = Empty
            /\ worker[cur.finding].files = {}
        BY <1>1, <1>4, <2>3
      <4> QED
        BY <1>a, <4>1, DiskRecord, SMTT(60)
    <3>2. ControlTypes' /\ MergeIsOnItsWay'
      BY <1>1, <1>4, <2>3, <3>1, Moving
      DEF MergeInv, ControlInv, ControlTypes, MergeIsOnItsWay
    <3>3. SeenIsUpToDate'
      BY <1>1, <1>4, <2>3, <3>1 DEF MergeInv, ControlInv, SeenIsUpToDate, Exists
    <3> QED
      BY <3>1, <3>2, <3>3 DEF MergeInv, ControlInv
  <2> QED
    BY <1>1, <2>2, <2>3
<1>5. CASE /\ fail
           /\ parent' = [parent EXCEPT ![target].partial = @ \ {<<cur.finding, cur.file>>}]
  <2>1. DiskInv'
    BY <1>a, <1>1, <1>5, DiskPartial
  <2>2. /\ parent'[target].record = Empty
        /\ \A j \in Ids : j # target => parent'[j] = parent[j]
    BY <1>1, <1>2, <1>5, Moving DEF MergeInv, DiskInv, DiskTypes, ParentDirs
  <2>3. ControlInv'
    BY <1>1, <1>3, <1>5, <2>2, Moving, LeaveStep DEF fail, MergeInv, Exists
  <2> QED
    BY <2>1, <2>3 DEF MergeInv
<1>6. CASE fail /\ UNCHANGED parent
  BY <1>1, <1>6, FailStep DEF diskVars
<1> QED
  BY <1>4, <1>5, <1>6 DEF land

(* copy_across, the source dropped.                                        *)
LEMMA DropStep ==
  ASSUME MergeInv, drop, ~misread', UNCHANGED writing PROVE MergeInv'
<1>1. merge = "landed" /\ parent' = parent
  BY DEF drop
<1>2. \/ cur.file = Record /\ parent[target].record = cur.finding
      \/ /\ cur.file \in Files /\ cur.file # Record /\ parent[target].record = Empty
         /\ <<cur.finding, cur.file>> \in parent[target].files
         /\ <<cur.finding, cur.file>> \notin parent[target].partial
  BY <1>1, MergeAssumption DEF MergeInv, ControlInv, MergeIsOnItsWay
<1>3. cur.file = Record => worker[cur.finding].files = {}
  BY <1>1, <1>2, Moving DEF MergeInv, DiskInv, IntentsNameTheirTarget
<1>4. CASE /\ worker' = [worker EXCEPT ![cur.finding] = Dropped(cur.finding, cur.file)]
           /\ Moved(cur.file)
  BY <1>1, <1>2, <1>3, <1>4, FileMoved, RecordMoved
<1>5. CASE UNCHANGED worker /\ cur.file # Record /\ fail
  BY <1>1, <1>5, FailStep DEF diskVars
<1>6. CASE UNCHANGED worker /\ cur.file = Record /\ Moved(cur.file)
  BY <1>1, <1>2, <1>3, <1>6, RecordMoved
<1> QED
  BY <1>4, <1>5, <1>6 DEF drop, Misread

(* Every step of the merge.                                                *)
LEMMA MergeSteps ==
  ASSUME MergeInv, MergeStep, ~misread', UNCHANGED writing PROVE MergeInv'
<1>1. CASE list
  BY <1>1, ListStep DEF list
<1>2. CASE reserve
  BY <1>2, ReserveStep
<1>3. CASE log_intent
  BY <1>3, LogIntentStep
<1>4. CASE land
  BY <1>4, LandStep
<1>5. CASE drop
  BY <1>5, DropStep
<1>6. CASE \E f \in Findings : pass_over(f) \/ duplicate(f)
  BY <1>6, ListStep DEF pass_over, duplicate, Visiting
<1>7. CASE \E f \in Findings : merge_one(f)
  BY <1>7, MergeOneStep
<1>8. CASE \E file \in Files \cup {Record} : rename(file)
  BY <1>8, RenameStep
<1>9. CASE \E file \in Files \cup {Record} : copy(file)
  BY <1>9, CopyStep
<1> QED
  BY <1>1, <1>2, <1>3, <1>4, <1>5, <1>6, <1>7, <1>8, <1>9 DEF MergeStep

-----------------------------------------------------------------------------
(* The campaign.                                                           *)

(* Steps of the processes alone.                                           *)
LEMMA ProcessStep ==
  ASSUME MergeInv, UNCHANGED <<diskVars, mergeVars>>, writing' \subseteq writing
  PROVE  MergeInv'
  BY DiskFrame, ControlFrame DEF MergeInv, mergeVars

(* The merge is over, or its process was killed.                           *)
LEMMA StoppedStep ==
  ASSUME MergeInv, UNCHANGED <<diskVars, writing>>, Stopped
  PROVE  MergeInv'
  BY DiskFrame, ControlOff DEF MergeInv, Stopped

(* What another producer creates is no directory of a merge.               *)
LEMMA OtherStep == ASSUME MergeInv, other PROVE MergeInv'
<1>1. PICK i \in Ids :
        /\ ~Exists(i)
        /\ parent' = [parent EXCEPT ![i] = [Reservation EXCEPT !.record = Foreign]]
  BY DEF other
<1>2. /\ \A j \in Ids : Exists(j) => parent[j].record # Foreign
      /\ UNCHANGED <<worker, mergeVars, writing>>
  BY DEF other, campaignVars
<1>3. DiskInv'
  BY <1>1, <1>2, DiskCreate DEF MergeInv
<1>4. /\ parent'[i].record = Foreign
      /\ \A j \in Ids : j # i => parent'[j] = parent[j]
  BY <1>1 DEF MergeInv, DiskInv, DiskTypes, Reservation
<1>5. merge \in {"intent", "move", "copied", "landed"} => target # i
  <2>1. Reservation # Absent
    <3>1. Reservation \in ParentDirs
      BY DEF Reservation, ParentDirs
    <3> QED
      BY <3>1, MergeAssumption
  <2>2. merge = "intent" => parent[target] = Reservation
    BY DEF MergeInv, ControlInv, MergeIsOnItsWay
  <2> QED
    BY <1>1, <2>1, <2>2, Moving DEF Exists
<1>6. ControlTypes' /\ MergeIsOnItsWay'
  BY <1>2, <1>4, <1>5 DEF MergeInv, ControlInv, ControlTypes, MergeIsOnItsWay,
     mergeVars
<1>7. \A f \in Findings : Foreign # f
  BY MergeAssumption
<1>8. SeenIsUpToDate'
  BY <1>2, <1>4, <1>7 DEF MergeInv, ControlInv, SeenIsUpToDate, mergeVars, Exists
<1> QED
  BY <1>3, <1>6, <1>8 DEF MergeInv, ControlInv

(* The steps of the campaign.                                              *)
LEMMA CampaignSteps ==
  ASSUME MergeInv, CampaignStep, ~misread' PROVE MergeInv'
<1>1. CASE start \/ spawned
  BY <1>1, ProcessStep DEF start, spawned, workerMergeVars
<1>2. CASE spawn
  BY <1>2, ProcessStep DEF spawn, Ends
<1>3. CASE \E w \in Workers : poll(w)
  BY <1>3, ProcessStep DEF poll, Ends, Dies
<1>4. CASE collate
  <2>1. CASE begin /\ UNCHANGED writing
    BY <2>1, BeginStep
  <2>2. CASE Ends /\ UNCHANGED <<diskVars, mergeVars>>
    BY <2>2, ProcessStep DEF Ends
  <2> QED
    BY <1>4, <2>1, <2>2 DEF collate
<1>5. CASE merging
  <2>1. CASE MergeStep /\ UNCHANGED campaignVars
    BY <2>1, MergeSteps DEF campaignVars
  <2>2. CASE Stopped /\ Ends /\ UNCHANGED diskVars
    BY <2>2, StoppedStep DEF Ends
  <2> QED
    BY <1>5, <2>1, <2>2 DEF merging
<1> QED
  BY <1>1, <1>2, <1>3, <1>4, <1>5 DEF CampaignStep

(* Every step keeps the invariant, or takes a failed read for an absence.  *)
LEMMA NextMerge ==
  ASSUME MergeInv, [Next]_vars, ~misread' PROVE MergeInv'
<1>1. CASE CampaignStep
  BY <1>1, CampaignSteps
<1>2. CASE deadline \/ UNCHANGED vars
  BY <1>2, ProcessStep DEF deadline, vars, workerMergeVars, campaignVars
<1>3. CASE kill
  BY <1>3, StoppedStep DEF kill, Ends
<1>4. CASE other
  BY <1>4, OtherStep
<1>5. CASE \E w \in Workers : exit(w)
  BY <1>5, ProcessStep DEF exit, Dies, workerMergeVars
<1>6. CASE \E f \in Findings : allocate_finding(f)
  BY <1>6, AllocateStep
<1>7. CASE \E f \in Findings : \E file \in Files \cup {Record} : write(f, file)
  BY <1>7, WriteStep
<1> QED
  BY <1>1, <1>2, <1>3, <1>4, <1>5, <1>6, <1>7 DEF Next

(* Every step leaves the faults alone or counts one.                       *)
LEMMA NextFaults ==
  ASSUME [Next]_vars PROVE UNCHANGED faultVars \/ Fault \/ Misread
<1>1. CASE MergeStep
  BY <1>1 DEF MergeStep, list, reserve, log_intent, land, drop, pass_over, duplicate,
     merge_one, Resumes, rename, copy, fail
<1>2. CASE begin
  BY <1>2 DEF begin
<1>3. CASE ~MergeStep /\ ~begin
  BY <1>3 DEF Next, CampaignStep, start, spawn, spawned, collate, merging, poll, deadline,
     kill, other, exit, allocate_finding, write, vars, workerMergeVars
<1> QED
  BY <1>1, <1>2, <1>3

-----------------------------------------------------------------------------
(* Whatever is misread.                                                    *)

(* The initial state.                                                      *)
LEMMA InitKept == Init => KeptInv
  BY DEF Init, KeptInv, KeptDisk, DiskTypes, EmissionsAreOrdered, IntentsExist,
         FilesAreKept, ControlTypes, StagesAreReached, Readable, Held, Exists

(* A step of the merge may take what is readable away or point it at a     *)
(* directory, add files to the parent and give back a directory that       *)
(* nobody names.                                                           *)
LEMMA KeptStep ==
  ASSUME KeptDisk, DiskTypes', writing' \subseteq writing,
         \A f \in Findings :
           \/ worker'[f] = worker[f]
           \/ /\ Readable(f)
              /\ \/ worker'[f] = Absent
                 \/ worker'[f].record \in Ids /\ parent'[worker'[f].record] # Absent,
         \A f \in Findings, file \in Files : Kept(f, file) => Kept(f, file)',
         \A f \in Findings, i \in Ids :
           Held(i, f)' => Held(i, f) \/ (worker[f] # Absent /\ worker[f].record \in Ids),
         \A i \in Ids :
           Exists(i) => \/ Exists(i)'
                        \/ \A g \in Findings : worker[g] # Absent => worker[g].record # i
  PROVE  KeptDisk'
<1>1. {Empty, Torn, Emitted} \cap Ids = {}
  BY MergeAssumption
<1>2. EmissionsAreOrdered'
  <2> SUFFICES ASSUME NEW f \in Findings
      PROVE  /\ f \in writing' =>
                  worker'[f] # Absent /\ worker'[f].record \in {Empty, Torn}
             /\ worker'[f] # Absent /\ worker'[f].record \in {Empty, Torn, Emitted} =>
                  \A i \in Ids : Exists(i)' => parent'[i].record # f
             /\ worker'[f] # Absent /\ worker'[f].record \in {Torn, Emitted} =>
                  worker'[f].files = Files
    BY DEF EmissionsAreOrdered
  <2>1. f \in writing' => ~Readable(f)
    BY DEF KeptDisk, EmissionsAreOrdered, Readable
  <2>2. worker'[f] # Absent /\ worker'[f].record \in {Empty, Torn, Emitted} =>
          worker'[f] = worker[f]
    BY <1>1
  <2> QED
    BY <1>1, <2>1, <2>2 DEF KeptDisk, EmissionsAreOrdered, Held
<1>3. IntentsExist'
  BY DEF KeptDisk, IntentsExist, Exists
<1>4. FilesAreKept'
  <2> SUFFICES ASSUME NEW f \in Findings,
                      Readable(f)' \/ (\E i \in Ids : Held(i, f)'),
                      NEW file \in Files
      PROVE  Kept(f, file)'
    BY DEF FilesAreKept
  <2>1. Readable(f)' => Readable(f)
    BY DEF Readable
  <2>2. worker[f] # Absent /\ worker[f].record \in Ids => Readable(f)
    BY <1>1 DEF Readable
  <2>3. Readable(f) \/ \E i \in Ids : Held(i, f)
    BY <2>1, <2>2
  <2> QED
    BY <2>3 DEF KeptDisk, FilesAreKept
<1> QED
  BY <1>2, <1>3, <1>4 DEF KeptDisk

(* The disk as it was.                                                     *)
LEMMA KeptFrame ==
  ASSUME KeptDisk, UNCHANGED diskVars, writing' \subseteq writing
  PROVE  KeptDisk'
  BY DEF KeptDisk, DiskTypes, EmissionsAreOrdered, IntentsExist, FilesAreKept, Kept,
         Held, Readable, Exists, diskVars

(* A new directory without a record of ours.                               *)
LEMMA KeptCreate ==
  ASSUME KeptDisk, NEW i \in Ids, ~Exists(i), NEW d \in ParentDirs,
         d.record \notin Findings, parent' = [parent EXCEPT ![i] = d],
         UNCHANGED <<worker, writing>>
  PROVE  KeptDisk'
<1>1. /\ parent'[i] = d /\ d # Absent
      /\ \A j \in Ids : j # i => parent'[j] = parent[j]
  BY MergeAssumption DEF KeptDisk, DiskTypes
<1>2. DiskTypes'
  BY DEF KeptDisk, DiskTypes
<1>3. \A f \in Findings, file \in Files : Kept(f, file) => Kept(f, file)'
  BY <1>1 DEF Kept, Exists
<1>4. \A f \in Findings, j \in Ids : Held(j, f)' => Held(j, f)
  BY <1>1 DEF Held, Exists
<1>5. \A j \in Ids : Exists(j) => Exists(j)'
  BY <1>1 DEF Exists
<1> QED
  BY <1>2, <1>3, <1>4, <1>5, KeptStep

(* A reservation nobody names is given back.                               *)
LEMMA KeptRemove ==
  ASSUME KeptDisk, NEW i \in Ids, parent[i] = Reservation,
         \A g \in Findings : worker[g] # Absent => worker[g].record # i,
         parent' = [parent EXCEPT ![i] = Absent], UNCHANGED <<worker, writing>>
  PROVE  KeptDisk'
<1>1. /\ parent'[i] = Absent
      /\ \A j \in Ids : j # i => parent'[j] = parent[j]
      /\ parent[i].files = {}
  BY DEF KeptDisk, DiskTypes, Reservation
<1>2. DiskTypes'
  BY DEF KeptDisk, DiskTypes
<1>3. \A f \in Findings, file \in Files : Kept(f, file) => Kept(f, file)'
  BY <1>1 DEF Kept, Exists
<1>4. \A f \in Findings, j \in Ids : Held(j, f)' => Held(j, f)
  BY <1>1 DEF Held, Exists
<1>5. \A j \in Ids :
        Exists(j) => \/ Exists(j)'
                     \/ \A g \in Findings : worker[g] # Absent => worker[g].record # j
  BY <1>1 DEF Exists
<1> QED
  BY <1>2, <1>3, <1>4, <1>5, KeptStep

(* The intent log, also one that replaces an earlier intent.               *)
LEMMA KeptIntent ==
  ASSUME KeptDisk, NEW f \in Findings, NEW i \in Ids, Readable(f), Exists(i),
         worker' = [worker EXCEPT ![f].record = i], UNCHANGED <<parent, writing>>
  PROVE  /\ KeptDisk'
         /\ worker'[f] # Absent /\ worker'[f].record = i
         /\ worker'[f].files = worker[f].files
<1>1. worker[f] \in Dirs /\ worker[f] # Absent
  BY DEF KeptDisk, DiskTypes, Readable
<1>2. /\ worker'[f] \in Dirs /\ worker'[f].record = i
      /\ worker'[f].files = worker[f].files
      /\ \A g \in Findings : g # f => worker'[g] = worker[g]
  BY <1>1 DEF KeptDisk, DiskTypes, Dirs
<1>3. worker'[f] # Absent
  BY <1>2, MergeAssumption
<1>4. DiskTypes'
  BY <1>2 DEF KeptDisk, DiskTypes
<1>5. \A g \in Findings, file \in Files : Kept(g, file) => Kept(g, file)'
  BY <1>1, <1>2, <1>3 DEF Kept, Exists
<1>6. \A g \in Findings, j \in Ids : Held(j, g)' => Held(j, g)
  BY DEF Held, Exists
<1>7. \A j \in Ids : Exists(j)' <=> Exists(j)
  BY DEF Exists
<1>8. KeptDisk'
  <2>1. \A g \in Findings :
          \/ worker'[g] = worker[g]
          \/ Readable(g) /\ worker'[g].record \in Ids /\ parent'[worker'[g].record] # Absent
    BY <1>2 DEF Exists
  <2> QED
    BY <1>4, <1>5, <1>6, <1>7, <2>1, KeptStep
<1> QED
  BY <1>2, <1>3, <1>8

(* What moves from a worker directory is in the parent before it leaves.   *)
LEMMA KeptMove ==
  ASSUME KeptDisk, NEW f \in Findings, NEW i \in Ids,
         worker[f] # Absent, worker[f].record = i,
         NEW d \in ParentDirs, parent' = [parent EXCEPT ![i] = d],
         parent[i].files \subseteq d.files,
         d.record = parent[i].record \/ d.record = f,
         NEW e \in {Absent} \cup Dirs, worker' = [worker EXCEPT ![f] = e],
         e # Absent => e.record = i,
         \A x \in Files : x \in worker[f].files =>
           (e # Absent /\ x \in e.files) \/ <<f, x>> \in d.files,
         UNCHANGED writing
  PROVE  KeptDisk'
<1>1. Readable(f) /\ Exists(i)
  BY MergeAssumption DEF KeptDisk, IntentsExist, Readable
<1>2. /\ parent'[i] = d /\ d # Absent /\ worker'[f] = e
      /\ \A j \in Ids : j # i => parent'[j] = parent[j]
      /\ \A g \in Findings : g # f => worker'[g] = worker[g]
  BY MergeAssumption DEF KeptDisk, DiskTypes
<1>3. DiskTypes'
  BY DEF KeptDisk, DiskTypes
<1>4. \A j \in Ids : Exists(j) => Exists(j)'
  BY <1>2 DEF Exists
<1>5. \A g \in Findings, file \in Files : Kept(g, file) => Kept(g, file)'
  <2> SUFFICES ASSUME NEW g \in Findings, NEW file \in Files, Kept(g, file)
      PROVE  Kept(g, file)'
    OBVIOUS
  <2>1. CASE \E j \in Ids : Exists(j) /\ <<g, file>> \in parent[j].files
    <3>1. PICK j \in Ids : Exists(j) /\ <<g, file>> \in parent[j].files
      BY <2>1
    <3>2. Exists(j)' /\ <<g, file>> \in parent'[j].files
      BY <1>2, <1>4, <3>1
    <3> QED
      BY <3>2 DEF Kept
  <2>2. CASE worker[g] # Absent /\ file \in worker[g].files
    BY <1>1, <1>2, <1>4, <2>2 DEF Kept
  <2> QED
    BY <2>1, <2>2 DEF Kept
<1>6. \A g \in Findings, j \in Ids :
        Held(j, g)' => Held(j, g) \/ (worker[g] # Absent /\ worker[g].record \in Ids)
  BY <1>1, <1>2 DEF Held, Exists
<1>7. \A g \in Findings :
        \/ worker'[g] = worker[g]
        \/ /\ Readable(g)
           /\ \/ worker'[g] = Absent
              \/ worker'[g].record \in Ids /\ parent'[worker'[g].record] # Absent
  BY <1>1, <1>2, <1>4 DEF Exists
<1> QED
  BY <1>3, <1>4, <1>5, <1>6, <1>7, KeptStep

(* A worker directory without a file, and without its record.              *)
LEMMA SourceWithout ==
  ASSUME NEW f \in Findings, worker[f] \in Dirs, NEW file \in Files \cup {Record},
         file = Record => worker[f].files = {}
  PROVE  /\ Dropped(f, file) \in {Absent} \cup Dirs
         /\ file = Record => Dropped(f, file) = Absent
         /\ file # Record =>
              /\ Dropped(f, file) # Absent /\ Dropped(f, file).record = worker[f].record
              /\ Dropped(f, file).files = worker[f].files \ {file}
<1>1. CASE file = Record
  <2>1. Without(worker[f], file).files = {}
    BY <1>1 DEF Without, Dirs
  <2> QED
    BY <1>1, <2>1 DEF Dropped
<1>2. CASE file # Record
  <2>1. /\ Without(worker[f], file) \in Dirs
        /\ Without(worker[f], file).record = worker[f].record
        /\ Without(worker[f], file).files = worker[f].files \ {file}
    BY <1>2 DEF Without, Dirs
  <2> QED
    BY <1>2, <2>1, MergeAssumption DEF Dropped
<1> QED
  BY <1>1, <1>2

(* Between two findings, and outside a merge, no stage is reached.         *)
LEMMA KeptLeave ==
  ASSUME merge' \in {"off", "list"}, cur' = [finding |-> Nothing, file |-> Nothing],
         target' = Nothing
  PROVE  ControlTypes' /\ StagesAreReached'
  BY DEF ControlTypes, StagesAreReached

(* The stages depend on the disk, and on where the merge is.               *)
LEMMA KeptControl ==
  ASSUME ControlTypes, StagesAreReached,
         UNCHANGED <<diskVars, merge, cur, target>>
  PROVE  ControlTypes' /\ StagesAreReached'
  BY DEF ControlTypes, StagesAreReached, diskVars

(* Steps of the processes alone, and the end of a merge.                   *)
LEMMA KeptProcess ==
  ASSUME KeptInv, UNCHANGED diskVars, writing' \subseteq writing,
         UNCHANGED mergeVars \/ Stopped
  PROVE  KeptInv'
<1>1. KeptDisk'
  BY KeptFrame DEF KeptInv
<1>2. ControlTypes' /\ StagesAreReached'
  BY KeptLeave, KeptControl DEF KeptInv, mergeVars, Stopped
<1> QED
  BY <1>1, <1>2 DEF KeptInv

(* The start of a merge, and the steps of its listing.                     *)
LEMMA KeptListing ==
  ASSUME KeptInv, UNCHANGED writing,
         begin \/ list \/ \E f \in Findings : pass_over(f) \/ duplicate(f)
  PROVE  KeptInv'
<1>1. UNCHANGED diskVars /\ merge' = "list"
  BY DEF begin, list, pass_over, duplicate, Visiting
<1>2. KeptDisk'
  BY <1>1, KeptFrame DEF KeptInv
<1>3. ControlTypes'
  <2>1. CASE begin
    BY <1>1, <2>1, KeptLeave DEF begin
  <2>2. CASE list \/ \E f \in Findings : pass_over(f) \/ duplicate(f)
    BY <2>2 DEF KeptInv, ControlTypes, list, pass_over, duplicate
  <2> QED
    BY <2>1, <2>2
<1>4. StagesAreReached'
  BY <1>1 DEF StagesAreReached
<1> QED
  BY <1>2, <1>3, <1>4 DEF KeptInv

(* merge_one, whichever answer resumable gives.                            *)
LEMMA KeptMergeOne ==
  ASSUME KeptInv, NEW f \in Findings, merge_one(f), UNCHANGED writing
  PROVE  KeptInv'
<1>1. KeptDisk' /\ worker' = worker /\ parent' = parent
  BY KeptFrame DEF KeptInv, merge_one, diskVars
<1>2. worker[f] # Absent /\ worker[f].record \in {Emitted} \cup Ids
  BY DEF KeptInv, KeptDisk, DiskTypes, Dirs, merge_one, Readable
<1>3. PICK resume \in BOOLEAN :
        /\ Resumes(f, resume)
        /\ merge' = IF resume THEN "move" ELSE "reserve"
        /\ target' = IF resume THEN worker[f].record ELSE Nothing
  BY DEF merge_one
<1>4. resume => worker[f].record \in Ids
  BY <1>3 DEF Resumes, resumable, carries_intent
<1>5. cur' = [finding |-> f, file |-> Nothing]
  BY DEF merge_one
<1>6. ControlTypes' /\ StagesAreReached'
  BY <1>1, <1>2, <1>3, <1>4, <1>5 DEF ControlTypes, StagesAreReached
<1> QED
  BY <1>1, <1>6 DEF KeptInv

(* A fault that leaves the disk as it is.                                  *)
LEMMA KeptFail ==
  ASSUME KeptInv, NEW keys, Leave(keys), UNCHANGED <<diskVars, writing>>
  PROVE  KeptInv'
  BY KeptFrame, KeptLeave DEF KeptInv, Leave

(* create_with_suffix.                                                     *)
LEMMA KeptReserve == ASSUME KeptInv, reserve, UNCHANGED writing PROVE KeptInv'
<1>1. CASE fail /\ UNCHANGED parent
  BY <1>1, KeptFail DEF reserve, diskVars, fail
<1>2. CASE UNCHANGED <<parent, target, merge, cur>>
  <2>1. UNCHANGED diskVars
    BY <1>2 DEF reserve, diskVars
  <2> QED
    BY <1>2, <2>1, KeptFrame, KeptControl DEF KeptInv
<1>3. CASE /\ next \in Ids /\ ~Exists(next)
           /\ parent' = [parent EXCEPT ![next] = Reservation]
           /\ target' = next /\ merge' = "intent" /\ UNCHANGED cur
  <2>1. Reservation \in ParentDirs /\ Reservation.record \notin Findings
    BY MergeAssumption DEF Reservation, ParentDirs
  <2>2. KeptDisk' /\ worker' = worker /\ merge = "reserve"
    BY <1>3, <2>1, KeptCreate DEF KeptInv, reserve
  <2>3. parent'[next] = Reservation
    BY <1>3 DEF KeptInv, KeptDisk, DiskTypes
  <2>4. \A g \in Findings : worker[g] # Absent => worker[g].record # next
    BY <1>3 DEF KeptInv, KeptDisk, IntentsExist
  <2>5. ControlTypes' /\ StagesAreReached'
    BY <1>3, <2>2, <2>3, <2>4 DEF KeptInv, ControlTypes, StagesAreReached
  <2> QED
    BY <2>2, <2>5 DEF KeptInv
<1> QED
  BY <1>1, <1>2, <1>3 DEF reserve

(* The intent log, or the reservation given back.                          *)
LEMMA KeptLogIntent == ASSUME KeptInv, log_intent, UNCHANGED writing PROVE KeptInv'
<1>1. /\ merge = "intent" /\ cur.finding \in Findings
      /\ worker[cur.finding] # Absent /\ worker[cur.finding].record \in {Emitted} \cup Ids
      /\ target \in Ids /\ parent[target] = Reservation
      /\ \A g \in Findings : worker[g] # Absent => worker[g].record # target
  BY DEF log_intent, KeptInv, StagesAreReached
<1>2. Readable(cur.finding) /\ Exists(target)
  <2>1. Reservation \in ParentDirs
    BY DEF Reservation, ParentDirs
  <2>2. Reservation # Absent
    BY <2>1, MergeAssumption
  <2> QED
    BY <1>1, <2>2, MergeAssumption DEF Readable, Exists
<1>3. CASE /\ worker' = [worker EXCEPT ![cur.finding].record = target]
           /\ merge' = "move" /\ UNCHANGED <<parent, cur, target>>
  <2>1. /\ KeptDisk' /\ worker'[cur.finding] # Absent
        /\ worker'[cur.finding].record = target
    BY <1>1, <1>2, <1>3, KeptIntent DEF KeptInv
  <2>2. ControlTypes' /\ StagesAreReached'
    BY <1>1, <1>3, <2>1 DEF KeptInv, ControlTypes, StagesAreReached
  <2> QED
    BY <2>1, <2>2 DEF KeptInv
<1>4. CASE fail /\ parent' = [parent EXCEPT ![target] = Absent] /\ UNCHANGED worker
  <2>1. KeptDisk'
    BY <1>1, <1>4, KeptRemove DEF KeptInv
  <2> QED
    BY <1>4, <2>1, KeptLeave DEF KeptInv, fail, Leave
<1>5. CASE fail /\ UNCHANGED <<parent, worker>>
  BY <1>5, KeptFail DEF fail, diskVars
<1> QED
  BY <1>3, <1>4, <1>5 DEF log_intent, Intent

(* What the stages of a move rest on.                                      *)
LEMMA KeptMoving ==
  ASSUME KeptInv, merge \in {"move", "copied", "landed"}
  PROVE  /\ cur.finding \in Findings /\ worker[cur.finding] # Absent
         /\ worker[cur.finding] \in Dirs /\ worker[cur.finding].files \subseteq Files
         /\ target \in Ids /\ worker[cur.finding].record = target
         /\ parent[target] \in ParentDirs
         /\ parent = [parent EXCEPT ![target] = parent[target]]
         /\ worker = [worker EXCEPT ![cur.finding] = worker[cur.finding]]
         /\ cur \in [finding : {Nothing} \cup Findings,
                     file : {Nothing, Record} \cup Files]
<1>1. /\ cur.finding \in Findings /\ worker[cur.finding] # Absent
      /\ target \in Ids /\ worker[cur.finding].record = target
  BY DEF KeptInv, StagesAreReached
<1>2. worker[cur.finding] \in Dirs /\ Exists(target)
  BY <1>1 DEF KeptInv, KeptDisk, DiskTypes, IntentsExist
<1>3. worker[cur.finding].files \subseteq Files
  BY <1>2 DEF Dirs
<1> QED
  BY <1>1, <1>2, <1>3 DEF KeptInv, KeptDisk, DiskTypes, ControlTypes, Exists

(* A file, or the record once the files are gone, is in place and dropped  *)
(* from its source.                                                        *)
LEMMA KeptMoved ==
  ASSUME KeptInv, merge \in {"move", "landed"}, NEW file \in Files \cup {Record},
         NEW d \in ParentDirs, parent' = [parent EXCEPT ![target] = d],
         parent[target].files \subseteq d.files,
         d.record = parent[target].record \/ d.record = cur.finding,
         file # Record => <<cur.finding, file>> \in d.files,
         file = Record => worker[cur.finding].files = {},
         worker' = [worker EXCEPT ![cur.finding] = Dropped(cur.finding, file)],
         Moved(file), UNCHANGED writing
  PROVE  KeptInv'
<1> DEFINE e == Dropped(cur.finding, file)
<1>1. /\ e \in {Absent} \cup Dirs
      /\ file = Record => e = Absent
      /\ file # Record => /\ e # Absent /\ e.record = target
                          /\ e.files = worker[cur.finding].files \ {file}
  BY KeptMoving, SourceWithout
<1> HIDE DEF e
<1>2. KeptDisk'
  <2>1. e # Absent => e.record = target
    BY <1>1
  <2>2. \A x \in Files : x \in worker[cur.finding].files =>
          (e # Absent /\ x \in e.files) \/ <<cur.finding, x>> \in d.files
    BY <1>1
  <2>3. worker' = [worker EXCEPT ![cur.finding] = e]
    BY DEF e
  <2> QED
    BY <1>1, <2>1, <2>2, <2>3, KeptMoving, KeptMove DEF KeptInv
<1>3. CASE file = Record
  BY <1>2, <1>3, KeptLeave DEF Moved, Leave, KeptInv
<1>4. CASE file # Record
  <2>1. merge' = "move" /\ cur' = [cur EXCEPT !.file = Nothing] /\ target' = target
    BY <1>4 DEF Moved
  <2>2. cur'.finding = cur.finding /\ ControlTypes'
    BY <2>1, KeptMoving DEF KeptInv, ControlTypes
  <2>3. worker'[cur.finding] = e
    BY KeptMoving DEF e, KeptInv, KeptDisk, DiskTypes
  <2>4. StagesAreReached'
    BY <1>1, <1>4, <2>1, <2>2, <2>3, KeptMoving DEF StagesAreReached
  <2> QED
    BY <1>2, <2>2, <2>4 DEF KeptInv
<1> QED
  BY <1>3, <1>4

(* The parent directory after a landing.                                   *)
LEMMA KeptLanded ==
  ASSUME KeptInv, merge \in {"move", "copied"}, NEW file \in Files \cup {Record}
  PROVE  /\ Landed(target, cur.finding, file) \in ParentDirs
         /\ parent[target].files \subseteq Landed(target, cur.finding, file).files
         /\ \/ Landed(target, cur.finding, file).record = parent[target].record
            \/ Landed(target, cur.finding, file).record = cur.finding
         /\ file # Record =>
              <<cur.finding, file>> \in Landed(target, cur.finding, file).files
<1>1. CASE file = Record
  BY <1>1, KeptMoving, RecordLanded
<1>2. CASE file # Record
  BY <1>2, KeptMoving, FileLanded
<1> QED
  BY <1>1, <1>2

(* move_file on one device.                                                *)
LEMMA KeptRename ==
  ASSUME KeptInv, NEW file \in Files \cup {Record}, rename(file), UNCHANGED writing
  PROVE  KeptInv'
<1>1. merge = "move" /\ file \in Movable(worker[cur.finding].files, cur.finding)
  BY DEF rename
<1>2. file = Record => worker[cur.finding].files = {}
  BY <1>1, KeptMoving, Chosen, MergeAssumption
<1>3. CASE fail /\ UNCHANGED diskVars
  BY <1>3, KeptFail DEF fail
<1>4. CASE /\ worker' = [worker EXCEPT ![cur.finding] = Dropped(cur.finding, file)]
           /\ parent' = [parent EXCEPT ![target] = Landed(target, cur.finding, file)]
           /\ Moved(file)
  BY <1>1, <1>2, <1>4, KeptLanded, KeptMoved
<1> QED
  BY <1>3, <1>4 DEF rename

(* Partial copies change no file and no record.                            *)
LEMMA KeptPartial ==
  ASSUME KeptInv, merge \in {"move", "copied"}, NEW file \in Files \cup {Record},
         \/ parent' = [parent EXCEPT ![target].partial = @ \cup {<<cur.finding, file>>}]
         \/ parent' = [parent EXCEPT ![target].partial = @ \ {<<cur.finding, file>>}],
         UNCHANGED <<worker, writing>>
  PROVE  KeptDisk'
<1>1. PICK p \in SUBSET (Findings \X (Files \cup {Record})) :
        parent' = [parent EXCEPT ![target] = [parent[target] EXCEPT !.partial = p]]
  <2>1. /\ <<cur.finding, file>> \in Findings \X (Files \cup {Record})
        /\ parent[target].partial \in SUBSET (Findings \X (Files \cup {Record}))
    BY KeptMoving DEF ParentDirs
  <2>2. CASE parent' = [parent EXCEPT ![target].partial = @ \cup {<<cur.finding, file>>}]
    <3>1. parent[target].partial \cup {<<cur.finding, file>>}
            \in SUBSET (Findings \X (Files \cup {Record}))
      BY <2>1
    <3> QED
      BY <2>2, <3>1
  <2>3. CASE parent' = [parent EXCEPT ![target].partial = @ \ {<<cur.finding, file>>}]
    <3>1. parent[target].partial \ {<<cur.finding, file>>}
            \in SUBSET (Findings \X (Files \cup {Record}))
      BY <2>1
    <3> QED
      BY <2>3, <3>1
  <2> QED
    BY <2>2, <2>3
<1> DEFINE d == [parent[target] EXCEPT !.partial = p]
<1>2. /\ d \in ParentDirs /\ d.files = parent[target].files
      /\ d.record = parent[target].record
  BY KeptMoving DEF ParentDirs
<1> HIDE DEF d
<1>3. parent' = [parent EXCEPT ![target] = d]
  BY <1>1 DEF d
<1>4. worker' = [worker EXCEPT ![cur.finding] = worker[cur.finding]]
  BY KeptMoving
<1> QED
  BY <1>2, <1>3, <1>4, KeptMoving, KeptMove DEF KeptInv

(* copy_across, the copy.                                                  *)
LEMMA KeptCopy ==
  ASSUME KeptInv, NEW file \in Files \cup {Record}, copy(file), UNCHANGED writing
  PROVE  KeptInv'
<1>1. /\ merge = "move" /\ file \in Movable(worker[cur.finding].files, cur.finding)
      /\ parent' = [parent EXCEPT ![target].partial = @ \cup {<<cur.finding, file>>}]
      /\ merge' = "copied" /\ cur' = [cur EXCEPT !.file = file]
      /\ UNCHANGED <<worker, target>>
  BY DEF copy
<1>2. file = Record => worker[cur.finding].files = {}
  BY <1>1, KeptMoving, Chosen, MergeAssumption
<1>3. KeptDisk'
  BY <1>1, KeptPartial
<1>4. cur'.finding = cur.finding /\ cur'.file = file /\ ControlTypes'
  BY <1>1, KeptMoving DEF KeptInv, ControlTypes
<1>5. StagesAreReached'
  BY <1>1, <1>2, <1>4, KeptMoving DEF StagesAreReached
<1> QED
  BY <1>3, <1>4, <1>5 DEF KeptInv

(* copy_across, the rename of the copy into place.                         *)
LEMMA KeptLand == ASSUME KeptInv, land, UNCHANGED writing PROVE KeptInv'
<1>1. /\ merge = "copied" /\ worker' = worker
      /\ cur.file \in Files \cup {Record}
      /\ cur.file = Record => worker[cur.finding].files = {}
  BY DEF land, KeptInv, StagesAreReached
<1>2. CASE /\ parent' = [parent EXCEPT ![target] = Landed(target, cur.finding, cur.file)]
           /\ merge' = "landed" /\ UNCHANGED <<cur, target>>
  <2>1. worker' = [worker EXCEPT ![cur.finding] = worker[cur.finding]]
    BY <1>1, KeptMoving
  <2>2. KeptDisk'
    BY <1>1, <1>2, <2>1, KeptLanded, KeptMoving, KeptMove DEF KeptInv
  <2>3. parent'[target] = Landed(target, cur.finding, cur.file)
    BY <1>1, <1>2, KeptMoving DEF KeptInv, KeptDisk, DiskTypes
  <2>4. cur.file \in Files => <<cur.finding, cur.file>> \in parent'[target].files
    BY <1>1, <2>3, KeptLanded, MergeAssumption
  <2>5. ControlTypes' /\ StagesAreReached'
    BY <1>1, <1>2, <2>4, KeptMoving DEF KeptInv, ControlTypes, StagesAreReached
  <2> QED
    BY <2>2, <2>5 DEF KeptInv
<1>3. CASE /\ fail
           /\ parent' = [parent EXCEPT ![target].partial = @ \ {<<cur.finding, cur.file>>}]
  <2>1. KeptDisk'
    BY <1>1, <1>3, KeptPartial
  <2> QED
    BY <1>3, <2>1, KeptLeave DEF KeptInv, fail, Leave
<1>4. CASE fail /\ UNCHANGED parent
  BY <1>1, <1>4, KeptFail DEF fail, diskVars
<1> QED
  BY <1>2, <1>3, <1>4 DEF land

(* copy_across, the source dropped.                                        *)
LEMMA KeptDrop == ASSUME KeptInv, drop, UNCHANGED writing PROVE KeptInv'
<1>1. /\ merge = "landed" /\ parent' = parent
      /\ cur.file = Record => worker[cur.finding].files = {}
      /\ \/ cur.file = Record
         \/ cur.file \in Files /\ <<cur.finding, cur.file>> \in parent[target].files
  BY DEF drop, KeptInv, StagesAreReached
<1>2. CASE /\ worker' = [worker EXCEPT ![cur.finding] = Dropped(cur.finding, cur.file)]
           /\ Moved(cur.file)
  <2>1. parent' = [parent EXCEPT ![target] = parent[target]] /\ parent[target] \in ParentDirs
    BY <1>1, KeptMoving
  <2>2. cur.file \in Files \cup {Record}
    BY <1>1
  <2> QED
    BY <1>1, <1>2, <2>1, <2>2, KeptMoved
<1>3. CASE UNCHANGED worker /\ \E keys : Leave(keys)
  BY <1>1, <1>3, KeptFail DEF diskVars
<1> QED
  BY <1>2, <1>3 DEF drop, fail, Moved

(* Another producer's finding.                                             *)
LEMMA KeptOther == ASSUME KeptInv, other PROVE KeptInv'
<1>1. PICK i \in Ids :
        /\ ~Exists(i)
        /\ parent' = [parent EXCEPT ![i] = [Reservation EXCEPT !.record = Foreign]]
  BY DEF other
<1>2. UNCHANGED <<worker, merge, cur, target, writing>>
  BY DEF other, campaignVars, mergeVars
<1> DEFINE d == [Reservation EXCEPT !.record = Foreign]
<1>3. d \in ParentDirs /\ d.record \notin Findings
  BY MergeAssumption DEF Reservation, ParentDirs
<1>4. KeptDisk'
  BY <1>1, <1>2, <1>3, KeptCreate DEF KeptInv
<1>5. \A j \in Ids : j # i => parent'[j] = parent[j]
  BY <1>1 DEF KeptInv, KeptDisk, DiskTypes
<1>6. merge \in {"intent", "move", "copied", "landed"} => target # i
  <2>1. Reservation \in ParentDirs
    BY DEF Reservation, ParentDirs
  <2>2. Reservation # Absent
    BY <2>1, MergeAssumption
  <2> QED
    BY <1>1, <2>2, KeptMoving, MergeAssumption DEF Exists, KeptInv, StagesAreReached
<1>7. ControlTypes' /\ StagesAreReached'
  BY <1>2, <1>5, <1>6 DEF KeptInv, ControlTypes, StagesAreReached
<1> QED
  BY <1>4, <1>7 DEF KeptInv

(* A finding that no merge has met may change as its writer likes.         *)
LEMMA KeptEmitter ==
  ASSUME KeptInv, NEW f \in Findings,
         worker[f] = Absent \/ worker[f].record \in {Empty, Torn},
         \A i \in Ids : Exists(i) => parent[i].record # f,
         NEW d \in Dirs, worker' = [worker EXCEPT ![f] = d],
         d.record \in {Empty, Torn, Emitted},
         d.record # Empty => d.files = Files,
         writing' \subseteq writing \cup {f},
         f \in writing' => d.record # Emitted,
         UNCHANGED <<parent, mergeVars>>
  PROVE  KeptInv'
<1>1. /\ worker'[f] = d /\ d # Absent /\ d.record \notin Ids
      /\ \A g \in Findings : g # f => worker'[g] = worker[g]
  BY MergeAssumption DEF KeptInv, KeptDisk, DiskTypes
<1>2. DiskTypes'
  BY DEF KeptInv, KeptDisk, DiskTypes
<1>3. EmissionsAreOrdered'
  BY <1>1, MergeAssumption DEF KeptInv, KeptDisk, EmissionsAreOrdered, Exists
<1>4. IntentsExist'
  BY <1>1 DEF KeptInv, KeptDisk, IntentsExist, Exists
<1>5. FilesAreKept'
  <2> SUFFICES ASSUME NEW g \in Findings,
                      Readable(g)' \/ (\E i \in Ids : Held(i, g)'),
                      NEW file \in Files
      PROVE  Kept(g, file)'
    BY DEF FilesAreKept
  <2>1. CASE g = f
    <3>1. \A i \in Ids : ~Held(i, f)'
      BY DEF Held, Exists
    <3> QED
      BY <1>1, <2>1, <3>1 DEF Readable, Kept
  <2>2. CASE g # f
    <3>1. worker'[g] = worker[g] /\ parent' = parent
      BY <1>1, <2>2
    <3>2. Kept(g, file)
      BY <3>1 DEF KeptInv, KeptDisk, FilesAreKept, Readable, Held, Exists
    <3> QED
      BY <3>1, <3>2 DEF Kept, Exists
  <2> QED
    BY <2>1, <2>2
<1>6. ControlTypes'
  BY DEF KeptInv, ControlTypes, mergeVars
<1>7. StagesAreReached'
  <2>1. merge \in {"reserve", "intent", "move", "copied", "landed"} => cur.finding # f
    BY MergeAssumption DEF KeptInv, StagesAreReached
  <2> QED
    BY <1>1, <2>1 DEF KeptInv, StagesAreReached, mergeVars
<1> QED
  BY <1>2, <1>3, <1>4, <1>5, <1>6, <1>7 DEF KeptInv, KeptDisk

(* FindingEmitter: a new directory, a file, or a part of the record.       *)
LEMMA KeptEmitted ==
  ASSUME KeptInv, NEW f \in Findings,
         allocate_finding(f) \/ \E file \in Files \cup {Record} : write(f, file)
  PROVE  KeptInv'
<1>1. CASE allocate_finding(f)
  <2>1. worker[f] = Absent
    BY <1>1, MergeAssumption DEF allocate_finding
  <2>2. [files |-> {}, record |-> Empty] \in Dirs
    BY DEF Dirs
  <2> QED
    BY <1>1, <2>1, <2>2, KeptEmitter, MergeAssumption DEF allocate_finding
<1>2. CASE \E file \in Files \cup {Record} : write(f, file)
  <2>1. PICK file \in Files \cup {Record} : write(f, file)
    BY <1>2
  <2>2. /\ worker[f] # Absent /\ worker[f] \in Dirs
        /\ worker[f].record \in {Empty, Torn}
        /\ \A i \in Ids : Exists(i) => parent[i].record # f
        /\ worker[f].record = Torn => worker[f].files = Files
    BY <2>1 DEF write, KeptInv, KeptDisk, DiskTypes, EmissionsAreOrdered
  <2>3. CASE file = Record
    <3> DEFINE d == [worker[f] EXCEPT !.record = IF @ = Torn THEN Emitted ELSE Torn]
    <3>1. worker[f].files = Files
      BY <2>1, <2>3, MergeAssumption DEF write, Writable
    <3>2. /\ d \in Dirs /\ d.files = Files /\ d.record \in {Torn, Emitted}
          /\ worker' = [worker EXCEPT ![f] = d]
      BY <2>1, <2>2, <2>3, <3>1 DEF write, Dirs, KeptInv, KeptDisk, DiskTypes
    <3>3. worker'[f] = d
      BY <3>2 DEF KeptInv, KeptDisk, DiskTypes
    <3> HIDE DEF d
    <3>4. writing' \subseteq writing /\ (f \in writing' => d.record # Emitted)
      BY <2>1, <3>3 DEF write
    <3> QED
      BY <2>1, <2>2, <3>2, <3>4, KeptEmitter DEF write
  <2>4. CASE file # Record
    <3> DEFINE d == [worker[f] EXCEPT !.files = @ \cup {file}]
    <3>1. worker[f].record # Torn
      BY <2>1, <2>2, <2>4 DEF write, Writable
    <3>2. d \in Dirs /\ d.record = Empty /\ worker' = [worker EXCEPT ![f] = d]
      BY <2>1, <2>2, <2>4, <3>1 DEF write, Dirs, KeptInv, KeptDisk, DiskTypes
    <3> HIDE DEF d
    <3>3. writing' \subseteq writing
      BY <2>1 DEF write
    <3> QED
      BY <2>1, <2>2, <3>2, <3>3, KeptEmitter, MergeAssumption DEF write
  <2> QED
    BY <2>3, <2>4
<1> QED
  BY <1>1, <1>2

(* Every step, misread or not.                                             *)
LEMMA NextKept == ASSUME KeptInv, [Next]_vars PROVE KeptInv'
<1>1. CASE MergeStep /\ UNCHANGED campaignVars
  BY <1>1, KeptListing, KeptMergeOne, KeptReserve, KeptLogIntent, KeptRename, KeptCopy,
     KeptLand, KeptDrop DEF MergeStep, campaignVars
<1>2. CASE collate
  BY <1>2, KeptListing, KeptProcess DEF collate, Ends
<1>3. CASE merging /\ ~(MergeStep /\ UNCHANGED campaignVars)
  BY <1>3, KeptProcess DEF merging, Ends
<1>4. CASE start \/ spawn \/ spawned \/ \E w \in Workers : poll(w)
  BY <1>4, KeptProcess DEF start, spawn, spawned, poll, Ends, Dies, workerMergeVars
<1>5. CASE deadline \/ kill \/ \E w \in Workers : exit(w)
  BY <1>5, KeptProcess DEF deadline, kill, exit, Ends, Dies, workerMergeVars
<1>6. CASE other
  BY <1>6, KeptOther
<1>7. CASE \E f \in Findings : \/ allocate_finding(f)
                               \/ \E file \in Files \cup {Record} : write(f, file)
  BY <1>7, KeptEmitted
<1>8. CASE UNCHANGED vars
  BY <1>8, KeptProcess DEF vars, workerMergeVars, campaignVars
<1> QED
  BY <1>1, <1>2, <1>3, <1>4, <1>5, <1>6, <1>7, <1>8 DEF Next, CampaignStep

-----------------------------------------------------------------------------
(* The invariant of the merge.  Each part needs the others: a commit is    *)
(* whole because the intent log kept the files of a finding in its source  *)
(* and in one target, and that is so because until the log is written the  *)
(* target belongs to nobody and afterwards to that finding alone; the keys *)
(* in Seen are what keeps a finding that is committed from a second        *)
(* reservation.  A failed read that is taken for an absence breaks both    *)
(* the link from the log to the target and Seen; what is left then is that *)
(* no file is destroyed.                                                   *)
THEOREM MergeInvariant == Spec => [](KeptInv /\ (~misread => MergeInv))
<1>1. Init => KeptInv /\ MergeInv
  BY InitMerge, InitKept
<1>2. KeptInv /\ (~misread => MergeInv) /\ [Next]_vars => KeptInv' /\ (~misread' => MergeInv')
  <2> SUFFICES ASSUME KeptInv, ~misread => MergeInv, [Next]_vars
      PROVE  KeptInv' /\ (~misread' => MergeInv')
    OBVIOUS
  <2>1. misread' = misread \/ misread'
    BY NextFaults DEF faultVars, Fault, Misread
  <2> QED
    BY <2>1, NextMerge, NextKept
<1> QED
  BY <1>1, <1>2, PTL DEF Spec

(* finding.json is the commit point of merge_one: what the results loader  *)
(* would index is complete, unmixed and there once, as long as no failed   *)
(* read was taken for an absence.                                          *)
THEOREM FindingsAreWhole == Spec => []CommittedFindingsAreWhole
<1>1. (~misread => MergeInv) => CommittedFindingsAreWhole
  <2> SUFFICES ASSUME MergeInv, NEW i \in Ids, Committed(i)
      PROVE  /\ parent[i].partial = {}
             /\ parent[i].files = IF parent[i].record = Foreign
                                  THEN {} ELSE {parent[i].record} \X Files
             /\ \A j \in Ids : Committed(j) /\ parent[j].record = parent[i].record
                  => j = i
    BY DEF CommittedFindingsAreWhole, IndexedFindingsAreWhole
  <2>1. parent[i].record \in Findings \/ parent[i].record = Foreign
    BY DEF MergeInv, DiskInv, DiskTypes, ParentDirs, Committed, Exists
  <2> QED
    BY <2>1, MergeAssumption DEF MergeInv, DiskInv, CommitsAreWhole, RecordsAreUnique
<1> QED
  BY <1>1, MergeInvariant, PTL

(* move_contents, the intent log and the resumption of a merge destroy no  *)
(* file of a finding that its worker completed, and leave it where a merge *)
(* finds it as long as no failed read was taken for an absence.            *)
THEOREM NothingIsLostEver == Spec => []NothingIsLost
<1>1. KeptInv /\ (~misread => MergeInv) => NothingIsLost
  <2> SUFFICES ASSUME KeptInv, ~misread => MergeInv, NEW f \in Findings,
                      Readable(f) \/ \E i \in Ids : Committed(i) /\ parent[i].record = f,
                      NEW file \in Files
      PROVE  \/ worker[f] # Absent /\ file \in worker[f].files
             \/ \E i \in Ids :
                  /\ Exists(i) /\ <<f, file>> \in parent[i].files
                  /\ \/ misread
                     \/ parent[i].record = f
                     \/ worker[f] # Absent /\ worker[f].record = i
    BY DEF NothingIsLost
  <2>1. CASE misread
    BY <2>1 DEF KeptInv, KeptDisk, FilesAreKept, Kept, Held, Committed
  <2>2. CASE ~misread /\ \E i \in Ids : Committed(i) /\ parent[i].record = f
    <3>1. PICK i \in Ids : Committed(i) /\ parent[i].record = f
      BY <2>2
    <3>2. parent[i].files = {f} \X Files
      BY <2>2, <3>1 DEF MergeInv, DiskInv, CommitsAreWhole
    <3> QED
      BY <3>1, <3>2 DEF Committed
  <2>3. CASE ~misread /\ Readable(f)
    <3>1. worker[f] \in Dirs /\ worker[f] # Absent
      BY <2>3 DEF Readable, MergeInv, DiskInv, DiskTypes
    <3>2. CASE worker[f].record = Emitted
      BY <2>3, <3>1, <3>2 DEF MergeInv, DiskInv, EmissionsAreOrdered
    <3>3. CASE worker[f].record \in Ids
      BY <2>3, <3>1, <3>3 DEF MergeInv, DiskInv, IntentsNameTheirTarget
    <3> QED
      BY <2>3, <3>1, <3>2, <3>3 DEF Readable, Dirs
  <2> QED
    BY <2>1, <2>2, <2>3
<1> QED
  BY <1>1, MergeInvariant, PTL

-----------------------------------------------------------------------------
(* Where the campaign and the merge are.                                   *)

(* A set of numbers that is not empty has a least element.                 *)
LEMMA MinOfNumbers ==
  ASSUME NEW S \in SUBSET Nat, S # {}
  PROVE  Min(S) \in S
<1>1. PICK x \in S : \A y \in S : ~(<<y, x>> \in OpToRel(<, Nat))
  BY WFMin, NatLessThanWellFounded
<1>2. \A y \in S : ~(y < x)
  BY <1>1 DEF OpToRel
<1>3. \A y \in S : x <= y
  BY <1>2
<1> QED
  BY <1>3 DEF Min

(* Ordinals are bounded, so a set of them has a greatest element.          *)
LEMMA MaxOfOrdinals ==
  ASSUME NEW S \in SUBSET Ids, S # {}
  PROVE  Max(S) \in S
<1>1. PICK n \in Ids : \A i \in Ids : i <= n
  BY OrdinalAssumption
<1>2. Ids \subseteq Nat
  BY MergeAssumption
<1> DEFINE T == {n - x : x \in S}
<1>3. T \in SUBSET Nat /\ T # {}
  <2>1. \A x \in S : n - x \in Nat
    BY <1>1, <1>2
  <2> QED
    BY <2>1
<1>4. PICK t \in T : \A u \in T : ~(<<u, t>> \in OpToRel(<, Nat))
  BY <1>3, WFMin, NatLessThanWellFounded
<1>5. \A u \in T : ~(u < t)
  BY <1>3, <1>4 DEF OpToRel
<1>6. PICK x \in S : t = n - x
  BY <1>4
<1>7. \A y \in S : ~(n - y < n - x)
  BY <1>5, <1>6
<1>8. \A y \in S : y <= x
  BY <1>1, <1>2, <1>7
<1> QED
  BY <1>8 DEF Max

(* The steps of the merge keep its stages and its variables in step.       *)
LEMMA MergeTypesStep ==
  ASSUME ControlTypes, CampaignTypes, MergeStep
  PROVE  /\ merge # "off" /\ merge' # "off"
         /\ merge' \in {"list", "reserve", "intent", "move", "copied", "landed"}
         /\ merge' \in {"intent", "move", "copied", "landed"} <=> target' # Nothing
         /\ merge' \in {"copied", "landed"} <=> cur'.file # Nothing
         /\ next' \in Nat
<1>1. /\ Nothing \notin Ids /\ Nothing \notin Files \cup {Record}
      /\ Ids \subseteq Nat
  BY MergeAssumption
<1>2. /\ merge \in {"intent", "move", "copied", "landed"} <=> target # Nothing
      /\ merge \in {"copied", "landed"} <=> cur.file # Nothing
      /\ next \in Nat
      /\ cur \in [finding : {Nothing} \cup Findings, file : {Nothing, Record} \cup Files]
  BY DEF CampaignTypes, ControlTypes
<1>3. ASSUME NEW keys, Leave(keys)
      PROVE  merge' = "list" /\ target' = Nothing /\ cur'.file = Nothing
  BY <1>3 DEF Leave
<1>4. ASSUME NEW file, Moved(file), merge \in {"move", "landed"}
      PROVE  \/ merge' = "list" /\ target' = Nothing /\ cur'.file = Nothing
             \/ merge' = "move" /\ target' = target /\ cur'.file = Nothing
  BY <1>2, <1>3, <1>4 DEF Moved
<1>5. CASE list \/ \E f \in Findings : pass_over(f) \/ duplicate(f)
  BY <1>2, <1>5 DEF list, pass_over, duplicate, Visiting
<1>6. CASE \E f \in Findings : merge_one(f)
  <2>1. PICK f \in Findings : merge_one(f)
    BY <1>6
  <2>2. PICK resume \in BOOLEAN :
          /\ Resumes(f, resume)
          /\ merge' = IF resume THEN "move" ELSE "reserve"
          /\ target' = IF resume THEN worker[f].record ELSE Nothing
    BY <2>1 DEF merge_one
  <2>3. resume => worker[f].record \in Ids
    BY <2>2 DEF Resumes, resumable, carries_intent
  <2>4. cur'.file = Nothing /\ merge = "list" /\ next' = next
    BY <2>1 DEF merge_one, Visiting
  <2> QED
    BY <1>1, <1>2, <2>2, <2>3, <2>4
<1>7. CASE reserve
  <2>1. merge = "reserve" /\ next + 1 \in Nat
    BY <1>2, <1>7 DEF reserve
  <2>2. CASE fail /\ UNCHANGED next
    BY <1>2, <1>3, <2>1, <2>2 DEF fail
  <2>3. CASE next \in Ids /\ next' = next + 1
    BY <1>1, <1>2, <1>3, <1>7, <2>1, <2>3 DEF reserve, fail
  <2> QED
    BY <1>7, <2>2, <2>3 DEF reserve
<1>8. CASE log_intent
  BY <1>2, <1>3, <1>8 DEF log_intent, fail
<1>9. CASE land
  BY <1>2, <1>3, <1>9 DEF land, fail
<1>10. CASE drop
  BY <1>2, <1>3, <1>4, <1>10 DEF drop, fail
<1>11. CASE \E file \in Files \cup {Record} : rename(file)
  BY <1>2, <1>3, <1>4, <1>11 DEF rename, fail
<1>12. CASE \E file \in Files \cup {Record} : copy(file)
  BY <1>1, <1>2, <1>12 DEF copy
<1> QED
  BY <1>5, <1>6, <1>7, <1>8, <1>9, <1>10, <1>11, <1>12 DEF MergeStep

(* Every step keeps the campaign's types.                                  *)
LEMMA NextTypes ==
  ASSUME ControlTypes, CampaignTypes, [Next]_vars
  PROVE  CampaignTypes'
<1>1. Workers \subseteq Nat /\ Ids \subseteq Nat
  BY MergeAssumption
<1>4. Ends => /\ campaign' = "idle" /\ pending' = {} /\ children' = {}
              /\ orphans' \subseteq Workers
  BY DEF Ends, CampaignTypes
<1>5. Stopped => /\ merge' = "off" /\ target' = Nothing /\ cur'.file = Nothing /\ next' \in Nat
  BY DEF Stopped
<1>6. CASE UNCHANGED vars
  BY <1>6 DEF CampaignTypes, vars, workerMergeVars, mergeVars, campaignVars
<1>7. CASE start
  BY <1>7 DEF start, CampaignTypes, workerMergeVars, mergeVars
<1>8. CASE spawned \/ deadline \/ other \/ \E w \in Workers : exit(w)
  BY <1>8 DEF spawned, deadline, other, exit, CampaignTypes, workerMergeVars, mergeVars,
     campaignVars
<1>9. CASE \E f \in Findings : \/ allocate_finding(f)
                               \/ \E file \in Files \cup {Record} : write(f, file)
  BY <1>9 DEF allocate_finding, write, CampaignTypes, mergeVars
<1>10. CASE spawn
  <2>1. CASE Ends
    BY <1>4, <1>10, <2>1 DEF spawn, CampaignTypes, mergeVars
  <2>2. CASE ~Ends
    <3>1. pending # Workers /\ pending \subseteq Workers
      BY <1>10 DEF spawn, CampaignTypes
    <3>2. Min(Workers \ pending) \in Workers
      <4>1. Workers \ pending \in SUBSET Nat /\ Workers \ pending # {}
        BY <1>1, <3>1
      <4>2. Min(Workers \ pending) \in Workers \ pending
        BY <4>1, MinOfNumbers
      <4> QED
        BY <4>2
    <3> QED
      BY <1>10, <2>2, <3>1, <3>2 DEF spawn, CampaignTypes, mergeVars
  <2> QED
    BY <2>1, <2>2
<1>11. CASE \E w \in Workers : poll(w)
  BY <1>4, <1>11 DEF poll, CampaignTypes, mergeVars
<1>12. CASE collate
  <2>1. CASE Ends /\ UNCHANGED mergeVars
    BY <1>4, <1>12, <2>1 DEF collate, CampaignTypes, mergeVars
  <2>2. CASE begin /\ campaign' = "merge" /\ UNCHANGED <<pending, children, orphans>>
    <3> DEFINE taken == {i \in Ids : Exists(i)}
    <3>1. next' = IF taken = {} THEN 0 ELSE Max(taken) + 1
      BY <2>2 DEF begin
    <3>2. taken \in SUBSET Ids
      OBVIOUS
    <3> HIDE DEF taken
    <3>3. taken # {} => Max(taken) \in Nat
      BY <1>1, <3>2, MaxOfOrdinals
    <3>4. next' \in Nat
      BY <3>1, <3>3
    <3> QED
      BY <2>2, <3>4 DEF begin, CampaignTypes
  <2> QED
    BY <1>12, <2>1, <2>2 DEF collate
<1>13. CASE merging
  <2>1. CASE campaign = "merge" /\ MergeStep /\ UNCHANGED campaignVars
    BY <2>1, MergeTypesStep DEF CampaignTypes, campaignVars
  <2>2. CASE Stopped /\ Ends
    BY <1>4, <1>5, <2>2 DEF CampaignTypes
  <2> QED
    BY <1>13, <2>1, <2>2 DEF merging
<1>14. CASE kill
  BY <1>4, <1>5, <1>14 DEF kill, CampaignTypes
<1> QED
  BY <1>6, <1>7, <1>8, <1>9, <1>10, <1>11, <1>12, <1>13, <1>14 DEF Next, CampaignStep

(* The count is kept, and grows.                                           *)
LEMMA NextCounted ==
  ASSUME FaultsAreCounted, [Next]_vars
  PROVE  FaultsAreCounted' /\ (faults' = 0 => faults = 0 /\ ~misread' /\ ~misread)
<1>1. CASE UNCHANGED faultVars
  BY <1>1, Zenon DEF FaultsAreCounted, faultVars
<1>2. CASE Fault \/ Misread
  <2>1. faults' \in 0 .. MaxFaults /\ faults' # 0
    BY <1>2, MergeAssumption DEF FaultsAreCounted, Fault, Misread
  <2>2. misread' \in BOOLEAN
    BY <1>2, Zenon DEF FaultsAreCounted, Fault, Misread
  <2> QED
    BY <2>1, <2>2, Zenon DEF FaultsAreCounted
<1> QED
  BY <1>1, <1>2, NextFaults

-----------------------------------------------------------------------------
(* A crash is merged once.                                                 *)

(* A step that holds nothing new and logs no intent.                       *)
LEMMA OnceFrame ==
  ASSUME OnceInv, faults' = faults,
         \A i \in Ids : \A f \in Findings : Held(i, f)' <=> Held(i, f),
         \A f \in Findings : worker'[f] # Absent /\ worker'[f].record \in Ids =>
           worker[f] # Absent /\ worker'[f].record = worker[f].record,
         \/ UNCHANGED <<merge, cur, seen>>
         \/ merge \in {"off", "list"} /\ merge' \in {"off", "list"}
         \/ /\ merge = "list" /\ merge' = "reserve"
            /\ Keys[cur'.finding] \cap seen' = {}
         \/ /\ merge = "reserve" /\ merge' = "intent" /\ UNCHANGED <<cur, seen>>
         \/ /\ \/ merge = "move" /\ merge' = "copied"
               \/ merge = "copied" /\ merge' = "landed"
               \/ merge \in {"move", "landed"} /\ merge' = "move" /\ cur.file # Record
            /\ cur'.finding = cur.finding /\ seen' = seen
  PROVE  OnceInv'
<1> SUFFICES ASSUME faults = 0 PROVE OnceInv'
  BY DEF OnceInv
<1>1. \A i, j \in Ids : \A f, g \in Findings :
        i # j /\ Held(i, f)' /\ Held(j, g)' => Keys[f] \cap Keys[g] = {}
  BY DEF OnceInv
<1>2. \A f \in Findings : \A i \in Ids :
        worker'[f] # Absent /\ worker'[f].record = i =>
          Held(i, f)' \/ (merge' \in {"move", "copied", "landed"} /\ f = cur'.finding)
  <2> SUFFICES ASSUME NEW f \in Findings, NEW i \in Ids,
                      worker'[f] # Absent, worker'[f].record = i
               PROVE  Held(i, f)' \/ (merge' \in {"move", "copied", "landed"} /\ f = cur'.finding)
    OBVIOUS
  <2>1. Held(i, f) \/ (merge \in {"move", "copied", "landed"} /\ f = cur.finding)
    BY DEF OnceInv
  <2> QED
    BY <2>1
<1>3. \/ merge' \in {"reserve", "intent", "move", "copied"}
      \/ merge' = "landed" /\ cur'.file # Record
      => Keys[cur'.finding] \cap seen' = {}
  BY DEF OnceInv
<1> QED
  BY <1>1, <1>2, <1>3 DEF OnceInv

(* The record lands: the keys of the finding are new.                      *)
LEMMA OnceLanded ==
  ASSUME MergeInv, OnceInv, faults' = faults, merge \in {"move", "copied"},
         parent'[target].record = cur.finding, parent'[target] # Absent,
         \A j \in Ids : j # target => parent'[j] = parent[j],
         \A f \in Findings : f # cur.finding => worker'[f] = worker[f],
         \/ merge' = "landed" /\ worker' = worker /\ cur' = cur /\ cur.file = Record
         \/ /\ merge' = "list"
            /\ worker'[cur.finding] = Absent \/ worker'[cur.finding].record = Empty
  PROVE  OnceInv'
<1> SUFFICES ASSUME faults = 0 PROVE OnceInv'
  BY DEF OnceInv
<1>1. /\ cur.finding \in Findings /\ target \in Ids /\ Exists(target)
      /\ worker[cur.finding].record = target /\ parent[target].record = Empty
      /\ merge \notin {"off", "landed"}
  BY Moving DEF MergeInv, ControlInv, MergeIsOnItsWay
<1>2. \A f \in Findings : Empty # f
  BY MergeAssumption
<1>3. Empty \notin Ids
  BY MergeAssumption
<1>4. Keys[cur.finding] \cap seen = {}
  BY DEF OnceInv
<1>5. \A j \in Ids : \A g \in Findings : Held(j, g) => Keys[g] \subseteq seen
  BY <1>1 DEF MergeInv, ControlInv, SeenIsUpToDate, Held
<1>6. \A j \in Ids : \A g \in Findings :
        Held(j, g)' => (j = target /\ g = cur.finding) \/ (j # target /\ Held(j, g))
  BY <1>1 DEF Held, Exists
<1>7. \A i \in Ids : \A f \in Findings : i = target /\ f = cur.finding => Held(i, f)'
  BY DEF Held, Exists
<1>8. \A i, j \in Ids : \A f, g \in Findings :
        i # j /\ Held(i, f)' /\ Held(j, g)' => Keys[f] \cap Keys[g] = {}
  <2> SUFFICES ASSUME NEW i \in Ids, NEW j \in Ids, NEW f \in Findings, NEW g \in Findings,
                      i # j, Held(i, f)', Held(j, g)'
               PROVE  Keys[f] \cap Keys[g] = {}
    OBVIOUS
  <2>1. CASE i = target
    <3>1. f = cur.finding /\ Held(j, g)
      BY <1>6, <2>1
    <3> QED
      BY <1>4, <1>5, <3>1
  <2>2. CASE j = target
    <3>1. g = cur.finding /\ Held(i, f)
      BY <1>6, <2>2
    <3> QED
      BY <1>4, <1>5, <3>1
  <2>3. CASE i # target /\ j # target
    BY <1>6, <2>3 DEF OnceInv
  <2> QED
    BY <2>1, <2>2, <2>3
<1>9. \A f \in Findings : \A i \in Ids :
        worker'[f] # Absent /\ worker'[f].record = i => Held(i, f)'
  <2> SUFFICES ASSUME NEW f \in Findings, NEW i \in Ids,
                      worker'[f] # Absent, worker'[f].record = i
               PROVE  Held(i, f)'
    OBVIOUS
  <2>1. CASE f = cur.finding
    BY <1>1, <1>3, <1>7, <2>1
  <2>2. CASE f # cur.finding
    <3>1. Held(i, f)
      BY <2>2 DEF OnceInv
    <3>2. i # target
      BY <1>1, <1>2, <3>1 DEF Held
    <3> QED
      BY <3>1, <3>2 DEF Held, Exists
  <2> QED
    BY <2>1, <2>2
<1> QED
  BY <1>8, <1>9 DEF OnceInv

(* After a fault nothing is claimed.                                       *)
LEMMA OnceFault ==
  ASSUME FaultsAreCounted, Fault \/ Misread PROVE OnceInv'
<1>1. faults' # 0
  BY MergeAssumption DEF FaultsAreCounted, Fault, Misread
<1> QED
  BY <1>1 DEF OnceInv

(* The listing: nothing is resumable, so Seen decides.                     *)
LEMMA OnceListed ==
  ASSUME MergeInv, CampaignTypes, OnceInv, ~Fault, ~Misread,
         list \/ \E f \in Findings : pass_over(f) \/ duplicate(f) \/ merge_one(f)
  PROVE  OnceInv'
<1>1. /\ merge = "list" /\ UNCHANGED diskVars /\ faults' = faults
  BY DEF list, pass_over, duplicate, merge_one, Visiting, Resumes, faultVars
<1>2. /\ \A i \in Ids : \A f \in Findings : Held(i, f)' <=> Held(i, f)
      /\ worker' = worker
  BY <1>1 DEF Held, Exists, diskVars
<1>3. CASE merge' = "list"
  BY <1>1, <1>2, <1>3, OnceFrame
<1>4. CASE \E f \in Findings : merge_one(f)
  <2>1. PICK f \in Findings : merge_one(f)
    BY <1>4
  <2>2. ASSUME faults = 0, resumable(f) PROVE FALSE
    <3>1. /\ worker[f] # Absent /\ worker[f].record \in Ids
          /\ parent[worker[f].record].record = Empty
      BY <2>1, <2>2 DEF merge_one, Readable, resumable, carries_intent, Committed
    <3>2. parent[worker[f].record].record = f
      BY <1>1, <2>2, <3>1 DEF OnceInv, Held
    <3> QED
      BY <3>1, <3>2, MergeAssumption
  <2>3. CASE faults = 0
    <3>1. /\ merge' = "reserve" /\ cur'.finding = f /\ seen' = seen
          /\ Keys[f] \cap seen = {}
      BY <2>1, <2>2, <2>3 DEF merge_one, holds, Resumes
    <3> QED
      BY <1>1, <1>2, <3>1, OnceFrame
  <2>4. CASE faults # 0
    BY <1>1, <2>4 DEF OnceInv
  <2> QED
    BY <2>3, <2>4
<1> QED
  BY <1>1, <1>3, <1>4 DEF list, pass_over, duplicate

(* A reservation and an intent: of the finding at hand.                    *)
LEMMA OnceIntent ==
  ASSUME MergeInv, CampaignTypes, OnceInv, ~Fault, ~Misread, reserve \/ log_intent
  PROVE  OnceInv'
<1>1. CASE reserve
  <2>1. /\ merge = "reserve" /\ UNCHANGED <<worker, cur, seen, faults>> /\ next \in Ids
        /\ \/ UNCHANGED <<parent, merge>>
           \/ /\ ~Exists(next) /\ parent' = [parent EXCEPT ![next] = Reservation]
              /\ merge' = "intent"
    BY <1>1 DEF reserve, fail, faultVars
  <2>2. \A i \in Ids : \A f \in Findings : Held(i, f)' <=> Held(i, f)
    <3>1. CASE UNCHANGED parent
      BY <3>1 DEF Held, Exists
    <3>2. CASE ~Exists(next) /\ parent' = [parent EXCEPT ![next] = Reservation]
      <4>1. /\ parent'[next].record = Empty
            /\ \A j \in Ids : j # next => parent'[j] = parent[j]
        BY <2>1, <3>2 DEF MergeInv, DiskInv, DiskTypes, Reservation
      <4>2. \A f \in Findings : Empty # f
        BY MergeAssumption
      <4> QED
        BY <3>2, <4>1, <4>2 DEF Held, Exists
    <3> QED
      BY <2>1, <3>1, <3>2
  <2> QED
    BY <2>1, <2>2, OnceFrame
<1>2. CASE log_intent
  <2>1. /\ merge = "intent" /\ merge' = "move" /\ UNCHANGED <<parent, cur, seen, faults>>
        /\ worker' = [worker EXCEPT ![cur.finding].record = target]
    BY <1>2 DEF log_intent, fail, Intent, faultVars
  <2> SUFFICES ASSUME faults = 0 PROVE OnceInv'
    BY <2>1 DEF OnceInv
  <2>2. \A f \in Findings : f # cur.finding => worker'[f] = worker[f]
    BY <2>1 DEF MergeInv, DiskInv, DiskTypes
  <2>3. \A i \in Ids : \A f \in Findings : Held(i, f)' <=> Held(i, f)
    BY <2>1 DEF Held, Exists
  <2>4. \A f \in Findings : \A i \in Ids :
          worker'[f] # Absent /\ worker'[f].record = i =>
            Held(i, f)' \/ (merge' \in {"move", "copied", "landed"} /\ f = cur'.finding)
    BY <2>1, <2>2, <2>3 DEF OnceInv
  <2>5. Keys[cur'.finding] \cap seen' = {}
    BY <2>1 DEF OnceInv
  <2> QED
    BY <2>1, <2>3, <2>4, <2>5 DEF OnceInv
<1> QED
  BY <1>1, <1>2

(* What a dropped source says.                                             *)
LEMMA SourceDropped ==
  ASSUME MergeInv, merge \in {"move", "landed"}, NEW file \in Files \cup {Record},
         worker' = [worker EXCEPT ![cur.finding] = Dropped(cur.finding, file)]
  PROVE  /\ \A f \in Findings : f # cur.finding => worker'[f] = worker[f]
         /\ file # Record => worker'[cur.finding] # Absent /\
                             worker'[cur.finding].record = worker[cur.finding].record
         /\ file = Record => worker'[cur.finding] = Absent \/
                             worker'[cur.finding].record = Empty
<1>1. /\ cur.finding \in Findings /\ worker[cur.finding] \in Dirs
      /\ worker \in [Findings -> {Absent} \cup Dirs]
  BY Moving DEF MergeInv, DiskInv, DiskTypes
<1>2. /\ worker'[cur.finding] = Dropped(cur.finding, file)
      /\ \A f \in Findings : f # cur.finding => worker'[f] = worker[f]
  BY <1>1
<1>3. CASE file = Record
  <2>1. Without(worker[cur.finding], file).record = Empty
    BY <1>1, <1>3 DEF Without, Dirs
  <2> QED
    BY <1>2, <1>3, <2>1 DEF Dropped
<1>4. CASE file # Record
  <2>1. /\ Without(worker[cur.finding], file).record = worker[cur.finding].record
        /\ Without(worker[cur.finding], file) \in Dirs
    BY <1>1, <1>4 DEF Without, Dirs
  <2> QED
    BY <1>2, <1>4, <2>1, MergeAssumption DEF Dropped
<1> QED
  BY <1>3, <1>4

(* What lands in the target.                                               *)
LEMMA TargetLanded ==
  ASSUME MergeInv, merge \in {"move", "copied"}, NEW file \in Files \cup {Record},
         parent' = [parent EXCEPT ![target] = Landed(target, cur.finding, file)]
  PROVE  /\ \A j \in Ids : j # target => parent'[j] = parent[j]
         /\ parent'[target] # Absent
         /\ file # Record => parent'[target].record = parent[target].record
         /\ file = Record => parent'[target].record = cur.finding
<1>1. /\ cur.finding \in Findings /\ target \in Ids /\ parent[target] \in ParentDirs
      /\ parent \in [Ids -> {Absent} \cup ParentDirs]
  BY Moving DEF MergeInv, DiskInv, DiskTypes, Exists
<1>2. /\ parent'[target] = Landed(target, cur.finding, file)
      /\ \A j \in Ids : j # target => parent'[j] = parent[j]
  BY <1>1
<1>3. CASE file = Record
  BY <1>1, <1>2, <1>3, RecordLanded
<1>4. CASE file # Record
  BY <1>1, <1>2, <1>4, FileLanded
<1> QED
  BY <1>3, <1>4

(* The move of the files, and of the record.                               *)
LEMMA OnceMoved ==
  ASSUME MergeInv, CampaignTypes, OnceInv, ~Fault, ~Misread,
         \/ land \/ drop
         \/ \E file \in Files \cup {Record} : rename(file) \/ copy(file)
  PROVE  OnceInv'
<1>1. merge \in {"move", "copied", "landed"} /\ faults' = faults
  BY DEF land, drop, rename, copy, fail, faultVars
<1>2. /\ cur.finding \in Findings /\ worker[cur.finding] # Absent
      /\ target \in Ids /\ worker[cur.finding].record = target /\ Exists(target)
      /\ cur \in [finding : {Nothing} \cup Findings, file : {Nothing, Record} \cup Files]
      /\ worker[cur.finding] \in Dirs
  BY <1>1, Moving
<1>3. /\ Empty \notin Ids /\ (\A f \in Findings : Empty # f) /\ Record \notin Files
      /\ Nothing \notin Files \cup {Record}
  BY MergeAssumption
<1>4. CASE \E file \in Files \cup {Record} : rename(file)
  <2>1. PICK file \in Files \cup {Record} : rename(file)
    BY <1>4
  <2>2. /\ merge = "move" /\ Moved(file)
        /\ worker' = [worker EXCEPT ![cur.finding] = Dropped(cur.finding, file)]
        /\ parent' = [parent EXCEPT ![target] = Landed(target, cur.finding, file)]
    BY <2>1 DEF rename, fail
  <2>3. cur.file = Nothing /\ parent[target].record = Empty
    BY <2>2 DEF CampaignTypes, MergeInv, ControlInv, MergeIsOnItsWay
  <2>4. CASE file = Record
    <3>1. merge' = "list"
      BY <2>2, <2>4 DEF Moved, Leave
    <3> QED
      BY <1>1, <2>2, <2>4, <3>1, SourceDropped, TargetLanded, OnceLanded
  <2>5. CASE file # Record
    <3>1. merge' = "move" /\ cur'.finding = cur.finding /\ seen' = seen
      BY <1>2, <2>2, <2>5 DEF Moved
    <3>2. \A i \in Ids : \A f \in Findings : Held(i, f)' <=> Held(i, f)
      BY <1>3, <2>2, <2>3, <2>5, TargetLanded DEF Held, Exists
    <3>3. \A f \in Findings : worker'[f] # Absent /\ worker'[f].record \in Ids =>
            worker[f] # Absent /\ worker'[f].record = worker[f].record
      BY <1>2, <2>2, <2>5, SourceDropped
    <3> QED
      BY <1>1, <1>3, <2>2, <2>3, <3>1, <3>2, <3>3, OnceFrame
  <2> QED
    BY <2>4, <2>5
<1>5. CASE \E file \in Files \cup {Record} : copy(file)
  <2>1. PICK file \in Files \cup {Record} : copy(file)
    BY <1>5
  <2>2. /\ merge = "move" /\ merge' = "copied" /\ UNCHANGED <<worker, seen>>
        /\ cur' = [cur EXCEPT !.file = file]
        /\ parent' = [parent EXCEPT ![target].partial = @ \cup {<<cur.finding, file>>}]
    BY <2>1 DEF copy
  <2>3. cur'.finding = cur.finding
    BY <1>2, <2>2
  <2>4. /\ \A j \in Ids : j # target => parent'[j] = parent[j]
        /\ parent'[target].record = Empty /\ parent[target].record = Empty
    <3>1. parent[target] \in ParentDirs /\ parent[target].record = Empty
          /\ parent \in [Ids -> {Absent} \cup ParentDirs]
      BY <1>2, <2>2 DEF MergeInv, DiskInv, DiskTypes, ControlInv, MergeIsOnItsWay, Exists
    <3> QED
      BY <1>2, <2>2, <3>1 DEF ParentDirs
  <2>5. \A i \in Ids : \A f \in Findings : Held(i, f)' <=> Held(i, f)
    BY <1>3, <2>4 DEF Held, Exists
  <2> QED
    BY <1>1, <2>2, <2>3, <2>5, OnceFrame
<1>6. CASE land
  <2>1. /\ merge = "copied" /\ merge' = "landed" /\ UNCHANGED <<cur, seen, worker>>
        /\ parent' = [parent EXCEPT ![target] = Landed(target, cur.finding, cur.file)]
    BY <1>6 DEF land, fail
  <2>2. cur.file \in Files \cup {Record} /\ parent[target].record = Empty
    BY <2>1 DEF MergeInv, ControlInv, MergeIsOnItsWay
  <2>3. CASE cur.file = Record
    BY <1>1, <2>1, <2>2, <2>3, TargetLanded, OnceLanded
  <2>4. CASE cur.file # Record
    <3>1. \A i \in Ids : \A f \in Findings : Held(i, f)' <=> Held(i, f)
      BY <1>3, <2>1, <2>2, <2>4, TargetLanded DEF Held, Exists
    <3> QED
      BY <1>1, <2>1, <3>1, OnceFrame
  <2> QED
    BY <2>3, <2>4
<1>7. CASE drop
  <2>1. /\ merge = "landed" /\ parent' = parent /\ Moved(cur.file)
        /\ worker' = [worker EXCEPT ![cur.finding] = Dropped(cur.finding, cur.file)]
    BY <1>7 DEF drop, fail
  <2>2. cur.file \in Files \cup {Record}
    BY <2>1 DEF MergeInv, ControlInv, MergeIsOnItsWay
  <2>3. \A i \in Ids : \A f \in Findings : Held(i, f)' <=> Held(i, f)
    BY <2>1 DEF Held, Exists
  <2>4. CASE cur.file = Record
    <3> SUFFICES ASSUME faults = 0 PROVE OnceInv'
      BY <1>1 DEF OnceInv
    <3>1. merge' = "list"
      BY <2>1, <2>4 DEF Moved, Leave
    <3>2. \A f \in Findings : \A i \in Ids :
            worker'[f] # Absent /\ worker'[f].record = i => Held(i, f)'
      <4> SUFFICES ASSUME NEW f \in Findings, NEW i \in Ids,
                          worker'[f] # Absent, worker'[f].record = i
                   PROVE  Held(i, f)'
        OBVIOUS
      <4>1. f # cur.finding
        BY <1>3, <2>1, <2>2, <2>4, SourceDropped
      <4>2. worker'[f] = worker[f]
        BY <2>1, <2>2, <4>1, SourceDropped
      <4>3. Held(i, f)
        BY <4>1, <4>2 DEF OnceInv
      <4> QED
        BY <2>3, <4>3
    <3> QED
      BY <2>3, <3>1, <3>2 DEF OnceInv
  <2>5. CASE cur.file # Record
    <3>1. merge' = "move" /\ cur'.finding = cur.finding /\ seen' = seen
      BY <1>2, <2>1, <2>5 DEF Moved
    <3>2. \A f \in Findings : worker'[f] # Absent /\ worker'[f].record \in Ids =>
            worker[f] # Absent /\ worker'[f].record = worker[f].record
      BY <1>2, <2>1, <2>2, <2>5, SourceDropped
    <3> QED
      BY <1>1, <2>1, <2>3, <2>5, <3>1, <3>2, OnceFrame
  <2> QED
    BY <2>4, <2>5
<1> QED
  BY <1>4, <1>5, <1>6, <1>7

(* Every step keeps a crash merged once.                                   *)
LEMMA NextOnce ==
  ASSUME MergeInv, CampaignTypes, FaultsAreCounted, OnceInv, [Next]_vars
  PROVE  OnceInv'
<1> SUFFICES ASSUME ~Fault, ~Misread PROVE OnceInv'
  BY OnceFault
<1>1. ASSUME UNCHANGED diskVars, UNCHANGED faults,
             \/ UNCHANGED mergeVars
             \/ merge \in {"off", "list"} /\ merge' \in {"off", "list"}
      PROVE  OnceInv'
  <2>1. \A i \in Ids : \A f \in Findings : Held(i, f)' <=> Held(i, f)
    BY <1>1 DEF Held, Exists, diskVars
  <2>2. worker' = worker /\ faults' = faults
    BY <1>1 DEF diskVars
  <2>3. \/ UNCHANGED <<merge, cur, seen>>
        \/ merge \in {"off", "list"} /\ merge' \in {"off", "list"}
    BY <1>1 DEF mergeVars
  <2> QED
    BY <2>1, <2>2, <2>3, OnceFrame
<1>2. CASE start \/ spawned \/ deadline \/ \E w \in Workers : exit(w)
  BY <1>1, <1>2 DEF start, spawned, deadline, exit, workerMergeVars, faultVars
<1>3. CASE UNCHANGED vars
  BY <1>1, <1>3 DEF vars, workerMergeVars, faultVars
<1>4. CASE spawn \/ \E w \in Workers : poll(w)
  BY <1>1, <1>4 DEF spawn, poll, faultVars
<1>5. CASE collate
  BY <1>1, <1>5 DEF collate, begin, faultVars
<1>6. CASE merging
  <2>1. CASE MergeStep
    BY <2>1, OnceListed, OnceIntent, OnceMoved DEF MergeStep
  <2>2. CASE merge = "list" /\ Stopped /\ UNCHANGED <<diskVars, faultVars>>
    BY <1>1, <2>2 DEF Stopped, faultVars
  <2> QED
    BY <1>6, <2>1, <2>2 DEF merging
<1>7. CASE kill
  BY <1>7 DEF kill
<1>8. CASE other
  <2>1. PICK i \in Ids :
          /\ ~Exists(i)
          /\ parent' = [parent EXCEPT ![i] = [Reservation EXCEPT !.record = Foreign]]
    BY <1>8 DEF other
  <2>2. UNCHANGED <<worker, merge, cur, seen, faults>>
    BY <1>8 DEF other, mergeVars, faultVars
  <2>3. /\ parent'[i].record = Foreign
        /\ \A j \in Ids : j # i => parent'[j] = parent[j]
    BY <2>1 DEF MergeInv, DiskInv, DiskTypes, Reservation
  <2>4. \A f \in Findings : Foreign # f
    BY MergeAssumption
  <2>5. \A j \in Ids : \A f \in Findings : Held(j, f)' <=> Held(j, f)
    BY <2>1, <2>3, <2>4 DEF Held, Exists
  <2> QED
    BY <2>2, <2>5, OnceFrame
<1>9. ASSUME NEW f \in Findings,
             \/ allocate_finding(f)
             \/ \E file \in Files \cup {Record} : write(f, file)
      PROVE  OnceInv'
  <2>1. UNCHANGED <<parent, merge, cur, seen, faults>>
    BY <1>9 DEF allocate_finding, write, mergeVars, faultVars
  <2>2. \A i \in Ids : \A g \in Findings : Held(i, g)' <=> Held(i, g)
    BY <2>1 DEF Held, Exists
  <2>3. worker \in [Findings -> {Absent} \cup Dirs]
    BY DEF MergeInv, DiskInv, DiskTypes
  <2>4. /\ \A g \in Findings : g # f => worker'[g] = worker[g]
        /\ worker'[f].record \in {Empty, Torn, Emitted}
    <3>1. CASE allocate_finding(f)
      BY <2>3, <3>1 DEF allocate_finding
    <3>2. CASE \E file \in Files \cup {Record} : write(f, file)
      <4>1. PICK file \in Files \cup {Record} : write(f, file)
        BY <3>2
      <4>2. /\ worker[f] \in Dirs /\ worker[f].record \in {Empty, Torn}
        BY <2>3, <4>1 DEF write, MergeInv, DiskInv, EmissionsAreOrdered
      <4>3. CASE file = Record
        <5>1. worker' = [worker EXCEPT ![f].record = IF @ = Torn THEN Emitted ELSE Torn]
          BY <4>1, <4>3 DEF write
        <5> QED
          BY <2>3, <4>2, <5>1 DEF Dirs
      <4>4. CASE file # Record
        <5>1. worker' = [worker EXCEPT ![f].files = @ \cup {file}]
          BY <4>1, <4>4 DEF write
        <5> QED
          BY <2>3, <4>2, <5>1 DEF Dirs
      <4> QED
        BY <4>3, <4>4
    <3> QED
      BY <1>9, <3>1, <3>2
  <2>5. {Empty, Torn, Emitted} \cap Ids = {}
    BY MergeAssumption
  <2>6. \A g \in Findings : worker'[g] # Absent /\ worker'[g].record \in Ids =>
          worker[g] # Absent /\ worker'[g].record = worker[g].record
    BY <2>4, <2>5
  <2> QED
    BY <2>1, <2>2, <2>6, OnceFrame
<1> QED
  BY <1>2, <1>3, <1>4, <1>5, <1>6, <1>7, <1>8, <1>9 DEF Next, CampaignStep

(* The whole invariant: what holds whatever is misread, the invariant of   *)
(* the merge as long as nothing has been, and the campaign's part.         *)
CampaignInv ==
  /\ KeptInv /\ (~misread => MergeInv)
  /\ CampaignTypes /\ FaultsAreCounted /\ OnceInv

(* The campaign's part of the invariant, on top of the merge's.            *)
THEOREM CampaignInvariant == Spec => []CampaignInv
<1>1. Init => CampaignInv
  <2> SUFFICES ASSUME Init PROVE CampaignTypes /\ FaultsAreCounted /\ OnceInv
    BY InitMerge, InitKept DEF CampaignInv
  <2>1. CampaignTypes /\ FaultsAreCounted
    <3>1. CampaignTypes /\ faults \in 0 .. MaxFaults
      BY MergeAssumption DEF Init, CampaignTypes
    <3>2. misread = FALSE
      BY DEF Init
    <3> QED
      BY <3>1, <3>2, Zenon DEF FaultsAreCounted
  <2>2. \A i \in Ids : \A f \in Findings : ~Held(i, f)
    BY DEF Init, Held, Exists
  <2>3. \A f \in Findings : worker[f] = Absent
    BY DEF Init
  <2>4. OnceInv
    BY <2>2, <2>3 DEF Init, OnceInv
  <2> QED
    BY <2>1, <2>4
<1>2. CampaignInv /\ [Next]_vars => CampaignInv'
  <2> SUFFICES ASSUME CampaignInv, [Next]_vars PROVE CampaignInv'
    OBVIOUS
  <2>1. KeptInv'
    BY NextKept DEF CampaignInv
  <2>2. misread' \in BOOLEAN /\ (misread => misread')
    BY NextFaults, NextCounted DEF CampaignInv, FaultsAreCounted, faultVars, Fault, Misread
  <2>3. ~misread' => MergeInv'
    BY <2>2, NextMerge DEF CampaignInv
  <2>4. CampaignTypes' /\ FaultsAreCounted'
    BY NextTypes, NextCounted DEF CampaignInv, KeptInv
  <2>5. OnceInv'
    <3>1. CASE faults' = 0
      BY <3>1, NextCounted, NextOnce DEF CampaignInv
    <3>2. CASE faults' # 0
      BY <3>2 DEF OnceInv
    <3> QED
      BY <3>1, <3>2
  <2> QED
    BY <2>1, <2>3, <2>4, <2>5 DEF CampaignInv
<1> QED
  BY <1>1, <1>2, PTL DEF Spec

(* Every variable keeps its type; the merge runs within a campaign and a   *)
(* parent holds no process of a worker that it has reported.               *)
THEOREM MulticoreTypes == Spec => []TypeOK
<1>1. CampaignInv => TypeOK
  BY DEF CampaignInv, KeptInv, KeptDisk, DiskTypes, ControlTypes, CampaignTypes,
     FaultsAreCounted, TypeOK
<1> QED
  BY <1>1, CampaignInvariant, PTL

(* Seen and the intent log: without an I/O error or a kill, two findings   *)
(* of one crash are never both merged.                                     *)
THEOREM MergedOnce == Spec => []CrashesAreMergedOnce
<1>1. CampaignInv => CrashesAreMergedOnce
  <2> SUFFICES ASSUME CampaignInv, NEW i \in Ids, NEW j \in Ids, i # j,
                      Committed(i), Committed(j),
                      parent[i].record # Foreign, parent[j].record # Foreign,
                      Keys[parent[i].record] \cap Keys[parent[j].record] # {}
               PROVE  faults > 0
    BY DEF CrashesAreMergedOnce
  <2>1. parent[i].record \in Findings /\ parent[j].record \in Findings
    BY DEF CampaignInv, KeptInv, KeptDisk, DiskTypes, ParentDirs, Committed, Exists
  <2>2. Held(i, parent[i].record) /\ Held(j, parent[j].record)
    BY DEF Held, Committed
  <2>3. faults # 0
    BY <2>1, <2>2 DEF CampaignInv, OnceInv
  <2> QED
    BY <2>3, MergeAssumption DEF CampaignInv, FaultsAreCounted
<1> QED
  BY <1>1, CampaignInvariant, PTL
==============================================================================
