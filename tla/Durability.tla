----------------------------- MODULE Durability -----------------------------
(***************************************************************************)
(* What a power loss, or a bad disk, does to a repository without packs.   *)
(*                                                                         *)
(* objects.py writes an object to a temp file, syncs it and renames it;    *)
(* snapshot.py renames next_id and the snapshot records into place without *)
(* syncing them.  No directory is ever synced.  So until the kernel has    *)
(* written a file back on its own, a power loss may leave the old file,    *)
(* the new one or, if its data was not synced, a torn one; and which       *)
(* renames survive has nothing to do with their order.                     *)
(*                                                                         *)
(* Commands run one at a time; their interleavings, and the temp files a   *)
(* kill leaves behind, are the subject of Vault.                           *)
(***************************************************************************)
EXTENDS ObjectGraph

CONSTANTS MaxId,        \* bound: snapshot ids
          MaxFault,     \* bound: power losses and damaged objects
          NextId,       \* the path of next_id
          Absent, Torn, \* no file; an empty or cut one
          Whole,        \* what put() wrote
          Rotten        \* anything else

Id   == 1 .. MaxId
Path == Obj \cup Id \cup {NextId}
Content == {Absent, Torn, Whole, Rotten} \cup Tree \cup (1 .. MaxId + 1)

ASSUME DurabilityAssumption ==
  /\ MaxId \in Nat /\ MaxFault \in Nat
  /\ Absent \notin {Torn, Whole, Rotten} /\ Torn \notin {Whole, Rotten} /\ Whole # Rotten
  /\ \A x \in {Absent, Torn, Whole, Rotten, NextId} : x \notin Obj /\ x \notin Nat
  /\ Obj \cap Nat = {}

VARIABLES file,       \* what every path shows; a record is known by its root
          disk,       \* what a power loss may leave there
          pc, my,     \* the command under way and its locals
          faults,     \* so many of them so far
          published,  \* history: the tree last published under an id
          settled     \* history: its tree, once a snapshot has reached the disk

vars == <<file, disk, pc, my, faults, published, settled>>

Pc == {"idle", "store", "publish", "sweep"}
Local == [root : Tree \cup {Absent}, todo : SUBSET Obj, id : 0 .. MaxId]
Blank == [root |-> Absent, todo |-> {}, id |-> 0]

TypeOK ==
  /\ file \in [Path -> Content] /\ disk \in [Path -> SUBSET Content]
  /\ \A p \in Path : file[p] \in disk[p]
  /\ \A o \in Obj : disk[o] \subseteq {Absent, Torn, Whole, Rotten}
  /\ \A i \in Id : disk[i] \subseteq Tree \cup {Absent, Torn}
  /\ disk[NextId] \subseteq (1 .. MaxId + 1) \cup {Absent, Torn}
  /\ pc \in Pc /\ my \in Local
  /\ faults \in 0 .. MaxFault
  /\ published \in [Id -> Tree \cup {Absent}]
  /\ settled \in [Id -> Tree \cup {Absent}]

Init ==
  /\ file = [p \in Path |-> Absent]
  /\ disk = [p \in Path |-> {Absent}]
  /\ pc = "idle" /\ my = Blank
  /\ faults = 0
  /\ published = [i \in Id |-> Absent]
  /\ settled = [i \in Id |-> Absent]

-----------------------------------------------------------------------------
(***************************************************************************)
(* Files                                                                   *)
(***************************************************************************)
\* atomic_replace, on POSIX, of a temp file whose data is on the disk,
ReplaceSynced(p, c) ==
  /\ file' = [file EXCEPT ![p] = c]
  /\ disk' = [disk EXCEPT ![p] = @ \cup {c}]

\* of one whose data may not be,
Replace(p, c) ==
  /\ file' = [file EXCEPT ![p] = c]
  /\ disk' = [disk EXCEPT ![p] = @ \cup {c, Torn}]

\* and unlink.
Unlink(p) == ReplaceSynced(p, Absent)

\* get() of a loose object: it hashes what it read, so that any damage, be it
\* in the length, the version, the marker or the payload, makes it raise.
Reads(o) == file[o] = Whole

\* load_snapshot.
Loads(i) == file[i] \in Tree

Roots == {file[i] : i \in {j \in Id : Loads(j)}}

\* A snapshot that can be restored from what is on the disk for good, and whose
\* id will not be, and has not just been, given to another.
OnDisk(i) ==
  /\ Loads(i) /\ disk[i] = {file[i]} /\ my.id # i
  /\ \A o \in Reach({file[i]}) : disk[o] = {Whole}
  /\ \E n \in i + 1 .. MaxId + 1 : disk[NextId] = {n}

-----------------------------------------------------------------------------
(***************************************************************************)
(* vault snapshot and snapshot-rm                                          *)
(***************************************************************************)
BeginSnapshot(r) ==
  /\ pc = "idle"
  /\ pc' = "store" /\ my' = [Blank EXCEPT !.root = r, !.todo = Reach({r})]
  /\ UNCHANGED <<file, disk, faults, published>>

\* Mutation: the temp file is not synced.
PutUnsynced(o) ==
  IF file[o] # Absent THEN UNCHANGED <<file, disk>> ELSE Replace(o, Whole)

\* put(): a file of that name is taken to be the object, whatever it holds.
Put(o) ==
  IF file[o] # Absent THEN UNCHANGED <<file, disk>> ELSE ReplaceSynced(o, Whole)

\* Mutation: a directory that is stored already is not entered.
StoreSkipping(o) ==
  /\ pc = "store"
  /\ o \in my.todo
  /\ Put(o)
  /\ my' = [my EXCEPT !.todo = @ \ IF file[o] = Absent THEN {o} ELSE Reach({o})]
  /\ UNCHANGED <<pc, faults, published>>

\* _walk_into_tree stores what a directory holds before the directory.
Store(o) ==
  /\ pc = "store"
  /\ o \in my.todo /\ Kids[o] \cap my.todo = {}
  /\ Put(o)
  /\ my' = [my EXCEPT !.todo = @ \ {o}]
  /\ UNCHANGED <<pc, faults, published>>

\* Mutation: a counter that does not parse counts as none.
TakeIdOrOne ==
  /\ pc = "store" /\ my.todo = {}
  /\ LET n == IF file[NextId] \in {Absent, Torn} THEN 1 ELSE file[NextId] IN
     /\ n \in Id
     /\ Replace(NextId, n + 1)
     /\ my' = [my EXCEPT !.id = n] /\ pc' = "publish"
  /\ UNCHANGED <<faults, published>>

\* _next_snapshot_id: a torn next_id makes int() raise.
TakeId ==
  /\ pc = "store" /\ my.todo = {}
  /\ LET n == IF file[NextId] = Absent THEN 1 ELSE file[NextId] IN
     IF n = Torn
       THEN pc' = "idle" /\ my' = Blank /\ UNCHANGED <<file, disk>>
       ELSE /\ n \in Id
            /\ Replace(NextId, n + 1)
            /\ my' = [my EXCEPT !.id = n] /\ pc' = "publish"
  /\ UNCHANGED <<faults, published>>

Publish ==
  /\ pc = "publish"
  /\ Replace(my.id, my.root)
  /\ published' = [published EXCEPT ![my.id] = my.root]
  /\ pc' = "idle" /\ my' = Blank
  /\ UNCHANGED faults

\* delete_snapshot loads the record first: one that is torn cannot be removed.
RemoveSnapshot(i) ==
  /\ pc = "idle"
  /\ Loads(i)
  /\ Unlink(i)
  /\ UNCHANGED <<pc, my, faults, published>>

-----------------------------------------------------------------------------
(***************************************************************************)
(* vault gc                                                                *)
(***************************************************************************)
\* Mutation: records and directories that do not read are skipped.
MarkReadable ==
  LET entered == {o \in Obj : ~ (o \in Tree /\ ~ Reads(o))} IN
  {o \in Obj : \A S \in SUBSET Obj :
      (Roots \subseteq S /\ \A q \in S \cap entered : Kids[q] \subseteq S) => o \in S}

BeginGcSkipping ==
  /\ pc = "idle"
  /\ my' = [Blank EXCEPT !.todo = {o \in Obj : file[o] # Absent} \ MarkReadable]
  /\ pc' = "sweep"
  /\ UNCHANGED <<file, disk, faults, published>>

\* A record or a directory that does not read ends the command with an error.
BeginGc ==
  /\ pc = "idle"
  /\ \A i \in Id : file[i] # Torn
  /\ \A o \in Reach(Roots) \cap Tree : Reads(o)
  /\ my' = [Blank EXCEPT !.todo = {o \in Obj : file[o] # Absent} \ Reach(Roots)]
  /\ pc' = "sweep"
  /\ UNCHANGED <<file, disk, faults, published>>

Sweep(o) ==
  /\ pc = "sweep"
  /\ o \in my.todo
  /\ Unlink(o)
  /\ my' = [my EXCEPT !.todo = @ \ {o}]
  /\ UNCHANGED <<pc, faults, published>>

EndGc ==
  /\ pc = "sweep" /\ my.todo = {}
  /\ pc' = "idle" /\ my' = Blank
  /\ UNCHANGED <<file, disk, faults, published>>

-----------------------------------------------------------------------------
(***************************************************************************)
(* The environment                                                         *)
(***************************************************************************)
Kill ==
  /\ pc # "idle"
  /\ pc' = "idle" /\ my' = Blank
  /\ UNCHANGED <<file, disk, faults, published>>

\* The kernel writes a file and its directory back when it likes.
WriteBack(p) ==
  /\ disk[p] # {file[p]}
  /\ disk' = [disk EXCEPT ![p] = {file[p]}]
  /\ UNCHANGED <<file, pc, my, faults, published>>

\* The contents a power loss may leave at some paths, independently of each
\* other.
Survivors(paths) ==
  {f \in [paths -> UNION {disk[p] : p \in paths}] : \A p \in paths : f[p] \in disk[p]}

PowerLoss ==
  /\ faults < MaxFault
  /\ \E objects \in Survivors(Obj), records \in Survivors(Id), n \in disk[NextId] :
       file' = [p \in Path |-> CASE p \in Obj -> objects[p] [] p \in Id -> records[p] [] OTHER -> n]
  /\ disk' = [p \in Path |-> {file'[p]}]
  /\ faults' = faults + 1
  /\ pc' = "idle" /\ my' = Blank
  /\ UNCHANGED published

\* The disk damages an object.
Rot(o) ==
  /\ faults < MaxFault
  /\ Reads(o)
  /\ file' = [file EXCEPT ![o] = Rotten]
  /\ disk' = [disk EXCEPT ![o] = {Rotten}]
  /\ faults' = faults + 1
  /\ UNCHANGED <<pc, my, published>>

Snapshots ==
  \/ \E r \in Tree : BeginSnapshot(r)
  \/ \E o \in Obj : Store(o)
  \/ TakeId \/ Publish

Collecting == BeginGc \/ EndGc \/ \E o \in Obj : Sweep(o)

Environment ==
  \/ Kill \/ PowerLoss
  \/ \E p \in Path : WriteBack(p)
  \/ \E o \in Obj : Rot(o)

Settle(known) ==
  settled' = [i \in Id |-> IF known[i] = Absent /\ OnDisk(i)' THEN file'[i] ELSE known[i]]

Next ==
  \/ /\ Snapshots \/ Collecting \/ Environment
     /\ Settle(settled)
  \/ \E i \in Id : RemoveSnapshot(i) /\ Settle([settled EXCEPT ![i] = Absent])

Spec == Init /\ [][Next]_vars

-----------------------------------------------------------------------------
(***************************************************************************)
(* Properties                                                              *)
(***************************************************************************)
\* An object is whole or absent after any number of power losses: what put()
\* syncs before the rename cannot be torn.
ObjectsNeverTorn == \A o \in Obj : file[o] # Torn

\* A snapshot that has reached the disk outlives every later power loss, kill,
\* snapshot and collection until it is removed: its record stays the one that
\* was published, and none of its objects goes away.
SettledSurvives ==
  \A i \in Id : settled[i] # Absent =>
    /\ file[i] = settled[i]
    /\ \A o \in Reach({settled[i]}) : file[o] \in {Whole, Rotten}

\* A snapshot is published over a complete set of objects, though an earlier
\* collection was killed half-way, or an earlier snapshot lost some of its own.
PublishedComplete ==
  [][pc = "publish" /\ published' # published =>
       \A o \in Reach({my.root}) : file[o] # Absent]_vars

\* The tree of a snapshot that is listed, though its record may be torn.
ListedRoot(i) == IF Loads(i) THEN file[i] ELSE published[i]

\* Damage stops the collection: whatever the records and directories it meets
\* have become, it deletes no object of a snapshot that is still listed.
DamageStopsGc ==
  [][pc = "sweep" /\ faults' = faults =>
       \A o \in Reach({ListedRoot(i) : i \in {j \in Id : file[j] # Absent}}) :
         file'[o] = Absent => file[o] = Absent]_vars

=============================================================================
