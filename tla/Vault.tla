------------------------------- MODULE Vault -------------------------------
(***************************************************************************)
(* A repository without packs: the loose object store (objects.py), the    *)
(* snapshot engine (snapshot.py), garbage collection (gc.py) and the tags  *)
(* (reporting.py), run by any number of command processes that may be      *)
(* killed between any two file system operations.                          *)
(*                                                                         *)
(* Steps are the file system operations other processes and crashes can    *)
(* come between; everything a process computes from its own locals is part *)
(* of the step before it.  A killed command is followed by a new           *)
(* invocation in the same slot of Proc.                                    *)
(*                                                                         *)
(* With Exclusive = TRUE a command begins only when no other is running:   *)
(* what the repository lock is meant to give (cli.py, _with_repo_lock).    *)
(* LockedVault replaces this assumption by the lock itself.                *)
(***************************************************************************)
EXTENDS ObjectGraph

CONSTANTS Proc,        \* command slots
          MaxId,       \* bound: snapshot ids taken in a behaviour
          Tag,         \* tag names
          TempName,    \* what iter_all_hashes() yields for a `.tmp-` entry
          NoObj, NoRecord,
          Exclusive    \* whether commands run one at a time

Id     == 1 .. MaxId
NoId   == 0
Record == [root : Tree, parent : 0 .. MaxId]
TagMap == [Tag -> 0 .. MaxId]
NoTags == [t \in Tag |-> NoId]

ASSUME VaultAssumption ==
  /\ MaxId \in Nat
  /\ TempName \notin Obj
  /\ NoObj \notin Obj
  /\ NoRecord \notin Record
  /\ Exclusive \in BOOLEAN

VARIABLES
  loose,       \* objects/: the hashes with a complete file
  litter,      \* objects/: whether a killed put() left a `.tmp-` file behind
  counter,     \* next_id (1 while the file does not exist)
  counterTmp,  \* .next_id-tmp, one path for all processes (NoId: no file)
  recTmp,      \* snapshots/.tmp-<id>
  snaps,       \* snapshots/<id>
  tags,        \* tags.json
  pc,          \* where each command is
  my,          \* its locals
  used         \* history: the ids ever published

disk == <<loose, litter, counter, counterTmp, recTmp, snaps, tags, used>>
vars == <<loose, litter, counter, counterTmp, recTmp, snaps, tags, pc, my, used>>

-----------------------------------------------------------------------------
SnapshotPc == {"walk", "put", "bump", "moveCounter", "latest", "record", "publish"}
GcPc       == {"mark", "scan", "sweep"}
Pc         == {"idle", "unlink", "saveTags", "error"} \cup SnapshotPc \cup GcPc

Local == [root : Tree \cup {NoObj}, stored : SUBSET Obj, cur : Obj \cup {NoObj},
          id : 0 .. MaxId, parent : 0 .. MaxId,
          marked : SUBSET Obj, doomed : SUBSET (Obj \cup {TempName}), tags : TagMap]

Blank == [root |-> NoObj, stored |-> {}, cur |-> NoObj, id |-> NoId, parent |-> NoId,
          marked |-> {}, doomed |-> {}, tags |-> NoTags]

TypeOK ==
  /\ loose \in SUBSET Obj
  /\ litter \in BOOLEAN
  /\ counter \in 1 .. MaxId + 1
  /\ counterTmp \in 0 .. MaxId + 1
  /\ recTmp \in [Id -> Record \cup {NoRecord}]
  /\ snaps \in [Id -> Record \cup {NoRecord}]
  /\ tags \in TagMap
  /\ pc \in [Proc -> Pc]
  /\ my \in [Proc -> Local]
  /\ used \in SUBSET Id

Live      == {i \in Id : snaps[i] # NoRecord}
LiveRoots == {snaps[i].root : i \in Live}

\* A `.tmp-` file is in some shard of objects/: an orphan, or a put() in flight.
TempPresent == litter \/ \E q \in Proc : pc[q] = "put"

Init ==
  /\ loose = {} /\ litter = FALSE
  /\ counter = 1 /\ counterTmp = NoId
  /\ recTmp = [i \in Id |-> NoRecord]
  /\ snaps = [i \in Id |-> NoRecord]
  /\ tags = NoTags
  /\ pc = [p \in Proc |-> "idle"]
  /\ my = [p \in Proc |-> Blank]
  /\ used = {}

MayBegin(p) == pc[p] = "idle" /\ (Exclusive => \A q \in Proc : pc[q] = "idle")

Goto(p, l) == pc' = [pc EXCEPT ![p] = l]
End(p, l)  == Goto(p, l) /\ my' = [my EXCEPT ![p] = Blank]

-----------------------------------------------------------------------------
(***************************************************************************)
(* vault snapshot: create_snapshot                                         *)
(***************************************************************************)
\* The walk will find the contents whose root tree is r.
BeginSnapshot(p, r) ==
  /\ MayBegin(p)
  /\ counter <= MaxId
  /\ Goto(p, "walk")
  /\ my' = [my EXCEPT ![p].root = r]
  /\ UNCHANGED disk

\* _walk_into_tree puts every child before the tree that lists it.
NextPut(p, o) ==
  /\ pc[p] = "walk"
  /\ o \in Reach({my[p].root}) \ my[p].stored
  /\ Kids[o] \subseteq my[p].stored

\* Mutation: put() takes every object for present.
PutHitUnchecked(p, o) ==
  /\ NextPut(p, o)
  /\ my' = [my EXCEPT ![p].stored = @ \cup {o}]
  /\ UNCHANGED <<disk, pc>>

\* put: dest.exists(), deduplicated.
PutHit(p, o) ==
  /\ NextPut(p, o)
  /\ o \in loose
  /\ my' = [my EXCEPT ![p].stored = @ \cup {o}]
  /\ UNCHANGED <<disk, pc>>

\* put: mkstemp in the shard directory, write, fsync.
PutTemp(p, o) ==
  /\ NextPut(p, o)
  /\ o \notin loose
  /\ Goto(p, "put")
  /\ my' = [my EXCEPT ![p].cur = o]
  /\ UNCHANGED disk

\* put: atomic_replace of the temp file onto the object's path.
PutReplace(p) ==
  /\ pc[p] = "put"
  /\ loose' = loose \cup {my[p].cur}
  /\ Goto(p, "walk")
  /\ my' = [my EXCEPT ![p].stored = @ \cup {my[p].cur}, ![p].cur = NoObj]
  /\ UNCHANGED <<litter, counter, counterTmp, recTmp, snaps, tags, used>>

\* An exception during the walk (a file that cannot be read, a full disk):
\* put() unlinks its temp file and the command ends; what it stored stays.
WalkFails(p) ==
  /\ pc[p] \in {"walk", "put"}
  /\ End(p, "error")
  /\ UNCHANGED disk

\* Mutation: the next id is max(existing) + 1.
ReadCounterMax(p) ==
  /\ pc[p] = "walk"
  /\ my[p].root \in my[p].stored
  /\ \E latest \in (Live \cup {NoId}) \ {MaxId} :
       /\ \A i \in Live : i <= latest
       /\ my' = [my EXCEPT ![p].id = latest + 1]
  /\ Goto(p, "bump")
  /\ UNCHANGED disk

\* _next_snapshot_id: read the counter once the root tree is stored.
ReadCounter(p) ==
  /\ pc[p] = "walk"
  /\ my[p].root \in my[p].stored
  /\ counter <= MaxId
  /\ Goto(p, "bump")
  /\ my' = [my EXCEPT ![p].id = counter]
  /\ UNCHANGED disk

WriteCounterTmp(p) ==
  /\ pc[p] = "bump"
  /\ counterTmp' = my[p].id + 1
  /\ Goto(p, "moveCounter")
  /\ UNCHANGED <<loose, litter, counter, recTmp, snaps, tags, my, used>>

\* atomic_replace(.next_id-tmp, next_id): FileNotFoundError when another
\* process has moved the shared temp file away.
MoveCounter(p) ==
  /\ pc[p] = "moveCounter"
  /\ IF counterTmp # NoId
       THEN counter' = counterTmp /\ Goto(p, "latest") /\ UNCHANGED my
       ELSE UNCHANGED counter /\ End(p, "error")
  /\ counterTmp' = NoId
  /\ UNCHANGED <<loose, litter, recTmp, snaps, tags, used>>

\* Mutation: the parent is the preceding id, published or not.
ReadLatestPreceding(p) ==
  /\ pc[p] = "latest"
  /\ my' = [my EXCEPT ![p].parent = my[p].id - 1]
  /\ Goto(p, "record")
  /\ UNCHANGED disk

\* _latest_snapshot_id: the greatest id on disk, if any.
ReadLatest(p) ==
  /\ pc[p] = "latest"
  /\ \E latest \in Live \cup {NoId} :
       /\ \A i \in Live : i <= latest
       /\ my' = [my EXCEPT ![p].parent = latest]
  /\ Goto(p, "record")
  /\ UNCHANGED disk

WriteRecordTmp(p) ==
  /\ pc[p] = "record"
  /\ recTmp' = [recTmp EXCEPT ![my[p].id] = [root |-> my[p].root, parent |-> my[p].parent]]
  /\ Goto(p, "publish")
  /\ UNCHANGED <<loose, litter, counter, counterTmp, snaps, tags, my, used>>

\* atomic_replace(snapshots/.tmp-<id>, snapshots/<id>), which fails in the
\* same way.
Publish(p) ==
  /\ pc[p] = "publish"
  /\ IF recTmp[my[p].id] # NoRecord
       THEN /\ snaps' = [snaps EXCEPT ![my[p].id] = recTmp[my[p].id]]
            /\ used' = used \cup {my[p].id}
            /\ End(p, "idle")
       ELSE UNCHANGED <<snaps, used>> /\ End(p, "error")
  /\ recTmp' = [recTmp EXCEPT ![my[p].id] = NoRecord]
  /\ UNCHANGED <<loose, litter, counter, counterTmp, tags>>

-----------------------------------------------------------------------------
(***************************************************************************)
(* vault snapshot-rm and vault tag                                         *)
(***************************************************************************)
\* delete_snapshot: load_snapshot succeeds (it raises on an unknown id).
BeginRm(p, i) ==
  /\ MayBegin(p)
  /\ i \in Live
  /\ Goto(p, "unlink")
  /\ my' = [my EXCEPT ![p].id = i]
  /\ UNCHANGED disk

UnlinkRecord(p) ==
  /\ pc[p] = "unlink"
  /\ IF my[p].id \in Live
       THEN /\ snaps' = [snaps EXCEPT ![my[p].id] = NoRecord]
            /\ End(p, "idle")
       ELSE UNCHANGED snaps /\ End(p, "error")
  /\ UNCHANGED <<loose, litter, counter, counterTmp, recTmp, tags, used>>

\* tag_snapshot: load_snapshot, then _load_tags and the new entry.
BeginTag(p, t, i) ==
  /\ MayBegin(p)
  /\ i \in Live
  /\ Goto(p, "saveTags")
  /\ my' = [my EXCEPT ![p].tags = [tags EXCEPT ![t] = i]]
  /\ UNCHANGED disk

\* _save_tags: the whole map replaces tags.json.
SaveTags(p) ==
  /\ pc[p] = "saveTags"
  /\ tags' = my[p].tags
  /\ End(p, "idle")
  /\ UNCHANGED <<loose, litter, counter, counterTmp, recTmp, snaps, used>>

-----------------------------------------------------------------------------
(***************************************************************************)
(* vault gc: run_gc                                                        *)
(***************************************************************************)
\* Mutation: every tree in the store is a root, not only the snapshots'.
BeginGcAllTrees(p) ==
  /\ MayBegin(p)
  /\ Goto(p, "mark")
  /\ my' = [my EXCEPT ![p].marked = LiveRoots \cup (Tree \cap loose)]
  /\ UNCHANGED disk

\* compute_reachable_objects: list_snapshots.
BeginGc(p) ==
  /\ MayBegin(p)
  /\ Goto(p, "mark")
  /\ my' = [my EXCEPT ![p].marked = LiveRoots]
  /\ UNCHANGED disk

\* Mutation: visit() does not recurse into subdirectories.
MarkOneLevel(p) ==
  /\ pc[p] = "mark"
  /\ Goto(p, "scan")
  /\ my' = [my EXCEPT ![p].marked = @ \cup UNION {Kids[r] : r \in @}]
  /\ UNCHANGED disk

\* visit: every reachable tree is loaded; one that is missing raises.
Mark(p) ==
  /\ pc[p] = "mark"
  /\ IF Reach(my[p].marked) \cap Tree \subseteq loose
       THEN /\ Goto(p, "scan")
            /\ my' = [my EXCEPT ![p].marked = Reach(@)]
       ELSE End(p, "error")
  /\ UNCHANGED disk

\* list(iter_all_hashes()), less what was marked.  A `.tmp-` entry is listed
\* like an object.
Scan(p) ==
  /\ pc[p] = "scan"
  /\ Goto(p, "sweep")
  /\ my' = [my EXCEPT ![p].doomed =
              (loose \ my[p].marked) \cup (IF TempPresent THEN {TempName} ELSE {})]
  /\ UNCHANGED disk

Sweep(p, o) ==
  /\ pc[p] = "sweep"
  /\ o \in my[p].doomed \cap Obj
  /\ loose' = loose \ {o}
  /\ my' = [my EXCEPT ![p].doomed = @ \ {o}]
  /\ UNCHANGED <<litter, counter, counterTmp, recTmp, snaps, tags, pc, used>>

\* compressed_size of a `.tmp-` entry: ObjectCorruptedError, which is not an
\* OSError, ends the command.
SweepHitsTemp(p) ==
  /\ pc[p] = "sweep"
  /\ TempName \in my[p].doomed
  /\ End(p, "error")
  /\ UNCHANGED disk

EndGc(p) ==
  /\ pc[p] = "sweep"
  /\ my[p].doomed = {}
  /\ End(p, "idle")
  /\ UNCHANGED disk

-----------------------------------------------------------------------------
\* A command that raised has printed its error; the slot is free again.
Reported(p) ==
  /\ pc[p] = "error"
  /\ Goto(p, "idle")
  /\ UNCHANGED <<disk, my>>

\* The process is killed: its temp file stays in objects/.
Crash(p) ==
  /\ pc[p] # "idle"
  /\ litter' = (litter \/ pc[p] = "put")
  /\ End(p, "idle")
  /\ UNCHANGED <<loose, counter, counterTmp, recTmp, snaps, tags, used>>

Begin(p) ==
  \/ \E r \in Tree : BeginSnapshot(p, r)
  \/ \E i \in Id : BeginRm(p, i)
  \/ \E t \in Tag, i \in Id : BeginTag(p, t, i)
  \/ BeginGc(p)

Snapshot(p) ==
  \/ \E o \in Obj : PutHit(p, o) \/ PutTemp(p, o)
  \/ PutReplace(p) \/ WalkFails(p) \/ ReadCounter(p) \/ WriteCounterTmp(p)
  \/ MoveCounter(p) \/ ReadLatest(p)
  \/ WriteRecordTmp(p) \/ Publish(p)

Gc(p) ==
  \/ Mark(p) \/ Scan(p) \/ SweepHitsTemp(p) \/ EndGc(p)
  \/ \E o \in Obj : Sweep(p, o)

Work(p) == Snapshot(p) \/ Gc(p) \/ UnlinkRecord(p) \/ SaveTags(p) \/ Reported(p)

Next == \E p \in Proc : Begin(p) \/ Work(p) \/ Crash(p)

Spec == Init /\ [][Next]_vars

-----------------------------------------------------------------------------
(***************************************************************************)
(* Properties of a repository whose commands run one at a time             *)
(***************************************************************************)

\* Every snapshot that `vault list` shows has every tree and blob its root
\* reaches, whatever snapshots, removals, collections and crashes preceded.
Restorable == \A i \in Live : Reach({snaps[i].root}) \subseteq loose

\* ids only ever increase: the counter is above every id ever published
\* and above every record a crash left half-way.
CounterAhead ==
  /\ \A i \in used : i < counter
  /\ \A i \in Id : recTmp[i] # NoRecord => i < counter

\* The parent of a snapshot is an older id that was published, and no live
\* snapshot lies between the two.
ParentIsPredecessor ==
  \A i \in Live :
    LET parent == snaps[i].parent IN
    /\ parent < i
    /\ parent # NoId => parent \in used
    /\ \A j \in Live : j < i => j <= parent

\* "deleting snapshot 3 will never cause a future snapshot to be created as
\* 3 again", and no record is ever overwritten.
IdsNeverReused ==
  [][\A i \in Id : snaps'[i] # snaps[i] => snaps'[i] = NoRecord \/ i \notin used]_vars

\* A tag resolves to the snapshot it was given, or to none: the snapshot it
\* names was published before.
TagsNamePublished == \A t \in Tag : tags[t] # NoId => tags[t] \in used

\* A collection that finishes leaves exactly what the snapshots need: neither
\* a needed object removed nor garbage left.
GcExact ==
  [][\A p \in Proc : pc[p] = "sweep" /\ my[p].doomed = {} /\ pc'[p] = "idle"
        => loose = Reach(LiveRoots)]_vars

=============================================================================
