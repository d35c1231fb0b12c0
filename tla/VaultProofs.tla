---------------------------- MODULE VaultProofs ----------------------------
(***************************************************************************)
(* What the repository of Vault guarantees for any objects, any number of  *)
(* commands and any number of snapshots: first with Exclusive, then as an  *)
(* implementation of SnapshotHistory, then under the lock itself.          *)
(***************************************************************************)
EXTENDS LockedVault, VaultRefinement, ObjectGraphProofs

-----------------------------------------------------------------------------
(***************************************************************************)
(* Types.  TypeOK needs to know which locals a command has assigned.       *)
(***************************************************************************)
Assigned ==
  \A p \in Proc :
    /\ pc[p] \in SnapshotPc => my[p].root \in Tree
    /\ pc[p] = "put" => my[p].cur \in Obj
    /\ pc[p] \in {"bump", "moveCounter", "latest", "record", "publish", "unlink"}
         => my[p].id \in Id

Typed == TypeOK /\ Assigned

LEMMA BlankIsLocal == Blank \in Local
BY VaultAssumption DEF Blank, Local, NoTags, NoId, TagMap

LEMMA InitTyped == Init => Typed
<1> SUFFICES ASSUME Init PROVE Typed
  OBVIOUS
<1>1. NoTags \in TagMap
  BY VaultAssumption DEF NoTags, TagMap, NoId
<1>2. TypeOK
  <2>1. litter \in BOOLEAN
    BY DEF Init
  <2>2. counter \in 1 .. MaxId + 1 /\ counterTmp \in 0 .. MaxId + 1
    BY VaultAssumption DEF Init, NoId
  <2>3. pc \in [Proc -> Pc] /\ my \in [Proc -> Local]
    BY BlankIsLocal DEF Init, Pc
  <2>4. QED
    BY <1>1, <2>1, <2>2, <2>3 DEF Init, TypeOK
<1>3. Assigned
  BY DEF Init, Assigned, SnapshotPc
<1>4. QED
  BY <1>2, <1>3 DEF Typed

LEMMA NextTyped == Typed /\ [Next]_vars => Typed'
<1> SUFFICES ASSUME Typed, [Next]_vars PROVE Typed'
  OBVIOUS
<1> USE VaultAssumption, GraphAssumption, BlankIsLocal
    DEF Typed, TypeOK, Assigned, Goto, End, disk, SnapshotPc, GcPc, Pc, NoId
<1>1. CASE UNCHANGED vars
  BY <1>1 DEF vars
<1>2. ASSUME NEW p \in Proc, NEW r \in Tree, BeginSnapshot(p, r) PROVE Typed'
  BY <1>2 DEF BeginSnapshot, MayBegin, Local
<1>3. ASSUME NEW p \in Proc, NEW o \in Obj, PutHit(p, o) PROVE Typed'
  BY <1>3 DEF PutHit, NextPut, Local
<1>4. ASSUME NEW p \in Proc, NEW o \in Obj, PutTemp(p, o) PROVE Typed'
  BY <1>4 DEF PutTemp, NextPut, Local
<1>5. ASSUME NEW p \in Proc, PutReplace(p) PROVE Typed'
  BY <1>5 DEF PutReplace, Local
<1>6. ASSUME NEW p \in Proc, WalkFails(p) PROVE Typed'
  BY <1>6 DEF WalkFails
<1>7. ASSUME NEW p \in Proc, ReadCounter(p) PROVE Typed'
  <2>1. counter \in Id /\ counter \in 0 .. MaxId
    BY <1>7 DEF ReadCounter, Id
  <2>2. QED
    BY <1>7, <2>1 DEF ReadCounter, Local
<1>8. ASSUME NEW p \in Proc, WriteCounterTmp(p) PROVE Typed'
  BY <1>8 DEF WriteCounterTmp, Id
<1>9. ASSUME NEW p \in Proc, MoveCounter(p) PROVE Typed'
  BY <1>9 DEF MoveCounter
<1>10. ASSUME NEW p \in Proc, ReadLatest(p) PROVE Typed'
  <2>1. PICK latest \in Live \cup {NoId} : my' = [my EXCEPT ![p].parent = latest]
    BY <1>10 DEF ReadLatest
  <2>2. latest \in 0 .. MaxId
    BY DEF Live, Id
  <2>3. QED
    BY <1>10, <2>1, <2>2 DEF ReadLatest, Local
<1>11. ASSUME NEW p \in Proc, WriteRecordTmp(p) PROVE Typed'
  BY <1>11 DEF WriteRecordTmp, Record, Local
<1>12. ASSUME NEW p \in Proc, Publish(p) PROVE Typed'
  BY <1>12 DEF Publish
<1>13. ASSUME NEW p \in Proc, NEW i \in Id, BeginRm(p, i) PROVE Typed'
  <2>1. i \in 0 .. MaxId
    BY DEF Id
  <2>2. QED
    BY <1>13, <2>1 DEF BeginRm, MayBegin, Local
<1>14. ASSUME NEW p \in Proc, UnlinkRecord(p) PROVE Typed'
  BY <1>14 DEF UnlinkRecord
<1>15. ASSUME NEW p \in Proc, NEW t \in Tag, NEW i \in Id, BeginTag(p, t, i) PROVE Typed'
  <2>1. [tags EXCEPT ![t] = i] \in TagMap
    BY DEF TagMap, Id
  <2>2. my' \in [Proc -> Local]
    BY <1>15, <2>1 DEF BeginTag, Local
  <2>3. QED
    BY <1>15, <2>2 DEF BeginTag, MayBegin
<1>16. ASSUME NEW p \in Proc, SaveTags(p) PROVE Typed'
  BY <1>16 DEF SaveTags, Local
<1>17. ASSUME NEW p \in Proc, BeginGc(p) PROVE Typed'
  <2>1. LiveRoots \in SUBSET Obj
    BY DEF LiveRoots, Live, Record
  <2>2. my' \in [Proc -> Local]
    BY <1>17, <2>1 DEF BeginGc, Local
  <2>3. QED
    BY <1>17, <2>2 DEF BeginGc, MayBegin
<1>18. ASSUME NEW p \in Proc, Mark(p) PROVE Typed'
  <2>1. Reach(my[p].marked) \in SUBSET Obj
    BY DEF Reach
  <2>2. my' \in [Proc -> Local]
    <3>1. my[p] \in Local /\ [my[p] EXCEPT !.marked = Reach(my[p].marked)] \in Local
      BY <2>1 DEF Local
    <3>2. \A l \in Local : [my EXCEPT ![p] = l] \in [Proc -> Local]
      OBVIOUS
    <3>3. \/ my' = [my EXCEPT ![p] = [my[p] EXCEPT !.marked = Reach(my[p].marked)]]
          \/ my' = [my EXCEPT ![p] = Blank]
      BY <1>18 DEF Mark
    <3>4. QED
      BY <3>1, <3>2, <3>3
  <2>3. QED
    BY <1>18, <2>2 DEF Mark
<1>19. ASSUME NEW p \in Proc, Scan(p) PROVE Typed'
  BY <1>19 DEF Scan, Local
<1>20. ASSUME NEW p \in Proc, NEW o \in Obj, Sweep(p, o) PROVE Typed'
  BY <1>20 DEF Sweep, Local
<1>21. ASSUME NEW p \in Proc, SweepHitsTemp(p) PROVE Typed'
  BY <1>21 DEF SweepHitsTemp
<1>22. ASSUME NEW p \in Proc, EndGc(p) PROVE Typed'
  BY <1>22 DEF EndGc
<1>23. ASSUME NEW p \in Proc, Reported(p) PROVE Typed'
  BY <1>23 DEF Reported
<1>24. ASSUME NEW p \in Proc, Crash(p) PROVE Typed'
  BY <1>24 DEF Crash
<1>25. QED
  BY <1>1, <1>2, <1>3, <1>4, <1>5, <1>6, <1>7, <1>8, <1>9, <1>10, <1>11, <1>12, <1>13,
     <1>14, <1>15, <1>16, <1>17, <1>18, <1>19, <1>20, <1>21, <1>22, <1>23, <1>24
     DEF Next, Begin, Work, Snapshot, Gc

\* The files and the locals of every command keep their types.
THEOREM VaultTyping == Spec => []TypeOK
<1>1. Typed => TypeOK
  BY DEF Typed
<1>2. QED
  BY <1>1, InitTyped, NextTyped, PTL DEF Spec

-----------------------------------------------------------------------------
(***************************************************************************)
(* One command at a time.  From here on every step is the step of one      *)
(* process while all the others are idle.                                  *)
(***************************************************************************)
OneAtATime == \A p, q \in Proc : pc[p] # "idle" /\ pc[q] # "idle" => p = q

Step(p) == Begin(p) \/ Work(p) \/ Crash(p)

\* A step touches the locals of its own process only, and it is either the
\* beginning of a command or a step of one that has begun.
LEMMA ActorOnly ==
  ASSUME Typed, NEW p \in Proc, Step(p)
  PROVE  /\ \A q \in Proc \ {p} : pc'[q] = pc[q] /\ my'[q] = my[q]
         /\ MayBegin(p) \/ pc[p] # "idle"
<1> USE DEF Typed, TypeOK, Goto, End
<1>1. CASE Begin(p)
  BY <1>1 DEF Begin, BeginSnapshot, BeginRm, BeginTag, BeginGc
<1>2. CASE Snapshot(p)
  BY <1>2 DEF Snapshot, PutHit, PutTemp, NextPut, PutReplace, WalkFails, ReadCounter,
     WriteCounterTmp, MoveCounter, ReadLatest, WriteRecordTmp, Publish
<1>3. CASE Gc(p)
  BY <1>3 DEF Gc, Mark, Scan, Sweep, SweepHitsTemp, EndGc
<1>4. CASE UnlinkRecord(p) \/ SaveTags(p) \/ Reported(p) \/ Crash(p)
  BY <1>4 DEF UnlinkRecord, SaveTags, Reported, Crash
<1>5. QED
  BY <1>1, <1>2, <1>3, <1>4 DEF Step, Work

\* The invariants below need no more than this of the process that steps.
AllOthersIdle(p) == \A q \in Proc \ {p} : pc[q] = "idle"

LEMMA OthersStay ==
  ASSUME Typed, NEW p \in Proc, Step(p), AllOthersIdle(p)
  PROVE  \A q \in Proc \ {p} : pc[q] = "idle" /\ pc'[q] = "idle" /\ my'[q] = my[q]
BY ActorOnly DEF AllOthersIdle

LEMMA OthersIdle ==
  ASSUME Exclusive, Typed, OneAtATime, NEW p \in Proc, Step(p)
  PROVE  AllOthersIdle(p)
BY ActorOnly DEF OneAtATime, MayBegin, AllOthersIdle

\* With Exclusive the commands never overlap, whatever their interleaving
\* with crashes.
LEMMA NextSerial ==
  ASSUME Exclusive
  PROVE  Typed /\ OneAtATime /\ [Next]_vars => OneAtATime'
<1>1. ASSUME Typed, OneAtATime, NEW p \in Proc, Step(p) PROVE OneAtATime'
  BY <1>1, OthersIdle, OthersStay DEF OneAtATime
<1>2. CASE UNCHANGED vars
  BY <1>2 DEF vars, OneAtATime
<1>3. QED
  BY <1>1, <1>2 DEF Next, Step

LEMMA InitSerial == Init => OneAtATime
BY DEF Init, OneAtATime

-----------------------------------------------------------------------------
(***************************************************************************)
(* Ids.  Between the reading of the counter and the publication of the     *)
(* record the id in hand is above every published one.                     *)
(***************************************************************************)
IdLocal(p) ==
  /\ pc[p] = "bump" => my[p].id = counter
  /\ pc[p] = "moveCounter" => my[p].id = counter /\ counterTmp = my[p].id + 1
  /\ pc[p] \in {"latest", "record", "publish"} =>
       my[p].id < counter /\ \A j \in used : j < my[p].id
  /\ pc[p] \in {"record", "publish"} =>
       my[p].parent \in Live \cup {NoId} /\ \A j \in Live : j <= my[p].parent
  /\ pc[p] = "publish" =>
       recTmp[my[p].id] = [root |-> my[p].root, parent |-> my[p].parent]
  /\ pc[p] = "saveTags" => \A t \in Tag : my[p].tags[t] # NoId => my[p].tags[t] \in used

IdGlobal == Live \subseteq used /\ CounterAhead /\ ParentIsPredecessor /\ TagsNamePublished

IdInv == IdGlobal /\ \A p \in Proc : IdLocal(p)

LEMMA InitIds == Init => IdInv
<1> SUFFICES ASSUME Init PROVE IdInv
  OBVIOUS
<1>1. Live = {} /\ used = {}
  BY DEF Init, Live
<1>2. CounterAhead /\ TagsNamePublished /\ ParentIsPredecessor
  BY <1>1 DEF Init, CounterAhead, TagsNamePublished, NoTags, ParentIsPredecessor
<1>3. \A p \in Proc : IdLocal(p)
  BY DEF Init, IdLocal
<1>4. QED
  BY <1>1, <1>2, <1>3 DEF IdInv, IdGlobal

\* Steps that leave the ids, the records and the tags alone.
LEMMA IdFrame ==
  ASSUME IdInv, UNCHANGED <<counter, recTmp, snaps, tags, used>>
  PROVE  IdGlobal' /\ Live' = Live
BY DEF IdInv, IdGlobal, Live, CounterAhead, ParentIsPredecessor, TagsNamePublished

\* The temp file that a snapshot is about to move is still its own.
LEMMA TempsInPlace ==
  ASSUME Typed, IdInv, NEW p \in Proc
  PROVE  /\ pc[p] = "moveCounter" => counterTmp # NoId
         /\ pc[p] = "publish" => recTmp[my[p].id] # NoRecord
<1>1. [root |-> my[p].root, parent |-> my[p].parent] \in Record
      \/ pc[p] # "publish"
  BY DEF Typed, TypeOK, Assigned, SnapshotPc, Record, Local
<1>2. my[p].id + 1 # 0 \/ pc[p] # "moveCounter"
  BY DEF Typed, Assigned, Id
<1>3. IdLocal(p)
  BY DEF IdInv
<1>4. QED
  BY <1>1, <1>2, <1>3, VaultAssumption DEF IdLocal, NoId

LEMMA StepIds ==
  ASSUME Typed, Typed', IdInv, NEW p \in Proc, Step(p), AllOthersIdle(p)
  PROVE  IdInv'
<1>1. SUFFICES IdGlobal' /\ IdLocal(p)'
  BY OthersStay DEF IdInv, IdLocal
<1> USE VaultAssumption, TempsInPlace DEF Typed, TypeOK, Assigned, Goto, End, disk, SnapshotPc, NoId
<1>2. CASE \E r \in Tree : BeginSnapshot(p, r)
  BY <1>2, IdFrame DEF BeginSnapshot, IdLocal
<1>3. CASE \E o \in Obj : PutHit(p, o) \/ PutTemp(p, o)
  BY <1>3, IdFrame DEF PutHit, PutTemp, NextPut, IdLocal
<1>4. CASE PutReplace(p) \/ WalkFails(p) \/ Reported(p)
  BY <1>4, IdFrame DEF PutReplace, WalkFails, Reported, IdLocal
<1>5. CASE ReadCounter(p)
  BY <1>5, IdFrame DEF ReadCounter, IdLocal
<1>6. CASE WriteCounterTmp(p)
  BY <1>6, IdFrame DEF WriteCounterTmp, IdLocal, IdInv
<1>7. CASE MoveCounter(p)
  <2>1. my[p].id = counter /\ counter' = counter + 1 /\ my[p].id \in Id
    BY <1>7 DEF MoveCounter, IdInv, IdLocal
  <2>2. IdGlobal'
    BY <1>7, <2>1 DEF MoveCounter, IdInv, IdGlobal, CounterAhead, ParentIsPredecessor,
       TagsNamePublished, Live, Id
  <2>3. IdLocal(p)'
    BY <1>7, <2>1 DEF MoveCounter, IdInv, IdGlobal, CounterAhead, IdLocal, Id
  <2>4. QED
    BY <2>2, <2>3
<1>8. CASE ReadLatest(p)
  <2>1. IdGlobal' /\ Live' = Live
    BY <1>8, IdFrame DEF ReadLatest
  <2>2. PICK latest \in Live \cup {NoId} :
          (\A i \in Live : i <= latest) /\ my' = [my EXCEPT ![p].parent = latest]
    BY <1>8 DEF ReadLatest
  <2>3. my'[p].id = my[p].id /\ my'[p].parent = latest
    BY <2>2 DEF Local
  <2>4. my[p].id < counter /\ \A j \in used : j < my[p].id
    BY <1>8 DEF ReadLatest, IdInv, IdLocal
  <2>5. IdLocal(p)'
    BY <1>8, <2>1, <2>2, <2>3, <2>4 DEF ReadLatest, IdLocal
  <2>6. QED
    BY <2>1, <2>5
<1>9. CASE WriteRecordTmp(p)
  <2>1. my[p].id \in Id /\ my[p].id < counter
    BY <1>9 DEF WriteRecordTmp, IdInv, IdLocal
  <2>2. Live' = Live
    BY <1>9 DEF WriteRecordTmp, Live
  <2>3. IdGlobal'
    BY <1>9, <2>1, <2>2 DEF WriteRecordTmp, IdInv, IdGlobal, CounterAhead,
       ParentIsPredecessor, TagsNamePublished
  <2>4. IdLocal(p)'
    BY <1>9, <2>1, <2>2 DEF WriteRecordTmp, IdInv, IdLocal
  <2>5. QED
    BY <2>3, <2>4
<1>10. CASE Publish(p)
  <2> DEFINE new == my[p].id
  <2>1. /\ new \in Id /\ new < counter /\ \A j \in used : j < new
        /\ my[p].parent \in Live \cup {NoId} /\ \A j \in Live : j <= my[p].parent
        /\ recTmp[new] = [root |-> my[p].root, parent |-> my[p].parent]
    BY <1>10 DEF Publish, IdInv, IdLocal
  <2>2. Live' = Live \cup {new}
    BY <1>10, <2>1 DEF Publish, Live
  <2>3. Live' \subseteq used' /\ CounterAhead' /\ TagsNamePublished'
    BY <1>10, <2>1, <2>2 DEF Publish, IdInv, IdGlobal, CounterAhead, TagsNamePublished
  <2>4. ParentIsPredecessor'
    <3>1. SUFFICES ASSUME NEW i \in Live'
                   PROVE  /\ snaps'[i].parent < i
                          /\ snaps'[i].parent # NoId => snaps'[i].parent \in used'
                          /\ \A j \in Live' : j < i => j <= snaps'[i].parent
      BY DEF ParentIsPredecessor
    <3>2. CASE i = new
      BY <1>10, <2>1, <2>2, <3>2 DEF Publish, IdInv, IdGlobal, Live, Id
    <3>3. CASE i # new
      <4>1. i \in Live /\ snaps'[i] = snaps[i] /\ i < new
        BY <1>10, <2>1, <2>2, <3>3 DEF Publish, IdInv, IdGlobal, Live
      <4>2. QED
        BY <1>10, <2>1, <2>2, <4>1 DEF Publish, IdInv, IdGlobal, ParentIsPredecessor, Live, Id
    <3>4. QED
      BY <3>2, <3>3
  <2>5. IdLocal(p)'
    BY <1>10 DEF Publish, IdLocal
  <2>6. QED
    BY <2>3, <2>4, <2>5 DEF IdGlobal
<1>11. CASE UnlinkRecord(p)
  <2>1. Live' \subseteq Live /\ \A i \in Live' : snaps'[i] = snaps[i]
    BY <1>11 DEF UnlinkRecord, Live
  <2>2. IdGlobal'
    BY <1>11, <2>1 DEF UnlinkRecord, IdInv, IdGlobal, CounterAhead, ParentIsPredecessor,
       TagsNamePublished
  <2>3. IdLocal(p)'
    BY <1>11 DEF UnlinkRecord, IdLocal
  <2>4. QED
    BY <2>2, <2>3
<1>12. CASE \E i \in Id : BeginRm(p, i)
  BY <1>12, IdFrame DEF BeginRm, IdLocal
<1>13. CASE \E t \in Tag, i \in Id : BeginTag(p, t, i)
  <2>1. PICK t \in Tag, i \in Id : BeginTag(p, t, i)
    BY <1>13
  <2>2. i \in used
    BY <2>1 DEF BeginTag, IdInv, IdGlobal
  <2>3. \A u \in Tag : my'[p].tags[u] # NoId => my'[p].tags[u] \in used
    BY <2>1, <2>2 DEF BeginTag, IdInv, IdGlobal, TagsNamePublished, Local, TagMap
  <2>4. IdLocal(p)'
    BY <2>1, <2>3 DEF BeginTag, IdLocal
  <2>5. QED
    BY <2>1, <2>4, IdFrame DEF BeginTag
<1>14. CASE SaveTags(p)
  BY <1>14 DEF SaveTags, IdInv, IdGlobal, IdLocal, Live, CounterAhead, ParentIsPredecessor,
     TagsNamePublished
<1>15. CASE BeginGc(p)
  BY <1>15, IdFrame DEF BeginGc, IdLocal
<1>16. CASE Gc(p)
  BY <1>16, IdFrame DEF Gc, Mark, Scan, Sweep, SweepHitsTemp, EndGc, IdLocal
<1>17. CASE Crash(p)
  BY <1>17, IdFrame DEF Crash, IdLocal
<1>18. QED
  BY <1>2, <1>3, <1>4, <1>5, <1>6, <1>7, <1>8, <1>9, <1>10, <1>11, <1>12, <1>13, <1>14,
     <1>15, <1>16, <1>17 DEF Step, Begin, Work, Snapshot

LEMMA NextIds ==
  ASSUME Exclusive
  PROVE  Typed /\ OneAtATime /\ IdInv /\ [Next]_vars => IdInv'
<1>1. ASSUME Typed, OneAtATime, IdInv, NEW p \in Proc, Step(p), Typed' PROVE IdInv'
  BY <1>1, StepIds, OthersIdle
<1>2. CASE UNCHANGED vars
  BY <1>2 DEF vars, IdInv, IdGlobal, IdLocal, Live, CounterAhead, ParentIsPredecessor,
     TagsNamePublished
<1>3. QED
  BY <1>1, <1>2, NextTyped DEF Next, Step

\* With commands one at a time, for any number of them: ids grow and are
\* never published twice.
THEOREM Ids ==
  ASSUME Exclusive
  PROVE  Spec => [](CounterAhead /\ ParentIsPredecessor /\ TagsNamePublished)
<1>1. IdInv => CounterAhead /\ ParentIsPredecessor /\ TagsNamePublished
  BY DEF IdInv, IdGlobal
<1>2. QED
  BY <1>1, InitTyped, InitSerial, InitIds, NextTyped, NextSerial, NextIds, PTL DEF Spec

\* No step publishes an id for the second time or rewrites a record.
THEOREM NoIdReused ==
  ASSUME Exclusive
  PROVE  Spec => IdsNeverReused
<1> DEFINE Fresh == \A i \in Id : snaps'[i] # snaps[i] => snaps'[i] = NoRecord \/ i \notin used
<1>1. Typed /\ OneAtATime /\ IdInv /\ [Next]_vars => [Fresh]_vars
  <2> SUFFICES ASSUME Typed, IdInv, NEW p \in Proc, Step(p), NEW i \in Id,
                      snaps'[i] # snaps[i], snaps'[i] # NoRecord
               PROVE  i \notin used
    BY DEF Next, Step
  <2>1. Publish(p)
    BY DEF Typed, TypeOK, Step, Begin, Work, Snapshot, Gc, BeginSnapshot, BeginRm, BeginTag, BeginGc,
       PutHit, PutTemp, NextPut, PutReplace, WalkFails, ReadCounter, WriteCounterTmp,
       MoveCounter, ReadLatest, WriteRecordTmp, Mark, Scan,
       Sweep, SweepHitsTemp, EndGc, UnlinkRecord, SaveTags, Reported, Crash, disk
  <2>2. i = my[p].id
    BY <2>1 DEF Publish, Typed, TypeOK
  <2>3. \A j \in used : j < i
    BY <2>1, <2>2 DEF Publish, IdInv, IdLocal
  <2>4. QED
    BY <2>3 DEF Id
<1>2. QED
  BY <1>1, InitTyped, InitSerial, InitIds, NextTyped, NextSerial, NextIds, PTL
     DEF Spec, IdsNeverReused

-----------------------------------------------------------------------------
(***************************************************************************)
(* Objects.  A snapshot under way has a closed set of stored objects; a    *)
(* collection under way works on a mark that is still the truth.           *)
(***************************************************************************)
StoreLocal(p) ==
  /\ pc[p] \in {"idle", "error"} => my[p] = Blank
  /\ pc[p] \in SnapshotPc => my[p].stored \subseteq loose /\ Closed(my[p].stored)
  /\ pc[p] = "put" => Kids[my[p].cur] \subseteq my[p].stored
  /\ pc[p] \in SnapshotPc \ {"walk", "put"} => my[p].root \in my[p].stored
  /\ pc[p] = "mark" => my[p].marked = LiveRoots
  /\ pc[p] = "scan" => my[p].marked = Reach(LiveRoots)
  /\ pc[p] = "sweep" => my[p].doomed \cap Obj = loose \ Reach(LiveRoots)

StoreInv == Restorable /\ \A p \in Proc : StoreLocal(p)

LEMMA InitStore == Init => StoreInv
<1> SUFFICES ASSUME Init PROVE StoreInv
  OBVIOUS
<1>1. Live = {}
  BY DEF Init, Live
<1>2. \A p \in Proc : StoreLocal(p)
  BY DEF Init, StoreLocal, SnapshotPc
<1>3. QED
  BY <1>1, <1>2 DEF StoreInv, Restorable

\* Steps that leave the records alone and remove no object.
LEMMA StoreFrame ==
  ASSUME Restorable, snaps' = snaps, loose \subseteq loose'
  PROVE  Restorable' /\ LiveRoots' = LiveRoots
BY DEF Restorable, LiveRoots, Live

LEMMA StepStore ==
  ASSUME Typed, IdInv, StoreInv, NEW p \in Proc, Step(p), AllOthersIdle(p)
  PROVE  StoreInv'
<1>1. SUFFICES Restorable' /\ StoreLocal(p)'
  <2>1. ASSUME NEW q \in Proc \ {p} PROVE StoreLocal(q)'
    BY OthersStay DEF StoreInv, StoreLocal, SnapshotPc
  <2>2. QED
    BY <2>1 DEF StoreInv
<1>2. Restorable /\ StoreLocal(p)
  BY DEF StoreInv
<1> USE VaultAssumption, GraphAssumption, <1>2
    DEF Typed, TypeOK, Assigned, Goto, End, disk, SnapshotPc, NoId
<1>3. CASE \E r \in Tree : BeginSnapshot(p, r)
  <2>1. PICK r \in Tree : BeginSnapshot(p, r)
    BY <1>3
  <2>2. my'[p].stored = {} /\ pc'[p] = "walk"
    BY <2>1 DEF BeginSnapshot, MayBegin, StoreLocal, Local, Blank
  <2>3. QED
    BY <2>1, <2>2, StoreFrame DEF BeginSnapshot, StoreLocal, Closed
<1>4. CASE \E o \in Obj : PutHit(p, o)
  <2>1. PICK o \in Obj : PutHit(p, o)
    BY <1>4
  <2>2. my'[p].stored = my[p].stored \cup {o} /\ pc'[p] = "walk"
    BY <2>1 DEF PutHit, NextPut, Local
  <2>3. my'[p].stored \subseteq loose /\ Closed(my'[p].stored)
    BY <2>1, <2>2 DEF PutHit, NextPut, StoreLocal, Closed
  <2>4. QED
    BY <2>1, <2>2, <2>3, StoreFrame DEF PutHit, StoreLocal
<1>5. CASE \E o \in Obj : PutTemp(p, o)
  <2>1. PICK o \in Obj : PutTemp(p, o)
    BY <1>5
  <2>2. my'[p].stored = my[p].stored /\ my'[p].cur = o /\ pc'[p] = "put"
    BY <2>1 DEF PutTemp, NextPut, Local
  <2>3. QED
    BY <2>1, <2>2, StoreFrame DEF PutTemp, NextPut, StoreLocal
<1>6. CASE PutReplace(p)
  <2>1. my'[p].stored = my[p].stored \cup {my[p].cur} /\ pc'[p] = "walk"
    BY <1>6 DEF PutReplace, Local
  <2>2. my'[p].stored \subseteq loose' /\ Closed(my'[p].stored)
    BY <1>6, <2>1 DEF PutReplace, StoreLocal, Closed
  <2>3. QED
    BY <1>6, <2>1, <2>2, StoreFrame DEF PutReplace, StoreLocal
<1>7. CASE WalkFails(p) \/ Reported(p) \/ Crash(p)
           \/ SaveTags(p) \/ SweepHitsTemp(p) \/ EndGc(p)
  <2>1. snaps' = snaps /\ loose' = loose /\ pc'[p] \in {"idle", "error"} /\ my'[p] = Blank
    BY <1>7 DEF WalkFails, Reported, Crash, SaveTags,
       SweepHitsTemp, EndGc, StoreLocal
  <2>2. QED
    BY <2>1, StoreFrame DEF StoreLocal
<1>8. CASE ReadCounter(p) \/ WriteCounterTmp(p) \/ MoveCounter(p) \/ ReadLatest(p) \/ WriteRecordTmp(p)
  <2>1. /\ snaps' = snaps /\ loose' = loose /\ pc'[p] \in SnapshotPc \ {"walk", "put"}
        /\ my'[p].stored = my[p].stored /\ my'[p].root = my[p].root
    BY <1>8, TempsInPlace
       DEF ReadCounter, WriteCounterTmp, MoveCounter, ReadLatest, WriteRecordTmp, Local
  <2>2. /\ pc[p] \in SnapshotPc
        /\ my[p].root \in my[p].stored
    BY <1>8 DEF ReadCounter, WriteCounterTmp, MoveCounter, ReadLatest, WriteRecordTmp, StoreLocal
  <2>3. QED
    BY <2>1, <2>2, StoreFrame DEF StoreLocal
<1>9. CASE Publish(p)
  <2> DEFINE new == my[p].id
  <2>1. /\ new \in Id /\ snaps' = [snaps EXCEPT ![new] = recTmp[new]]
        /\ loose' = loose /\ pc'[p] = "idle" /\ my'[p] = Blank
    BY <1>9, TempsInPlace DEF Publish
  <2>2. recTmp[new] = [root |-> my[p].root, parent |-> my[p].parent]
    BY <1>9 DEF Publish, IdInv, IdLocal
  <2>3. recTmp[new].root = my[p].root
    BY <2>2
  <2>4. Reach({my[p].root}) \subseteq loose
    <3>1. /\ my[p].stored \in SUBSET Obj /\ {my[p].root} \subseteq my[p].stored
          /\ Closed(my[p].stored) /\ my[p].stored \subseteq loose
      BY <1>9 DEF Publish, StoreLocal, Local
    <3>2. QED
      BY <3>1, ReachLeast
  <2>5. Restorable'
    BY <2>1, <2>3, <2>4 DEF Restorable, Live
  <2>6. QED
    BY <2>1, <2>5 DEF StoreLocal
<1>10. CASE UnlinkRecord(p)
  <2>1. /\ loose' = loose /\ pc'[p] \in {"idle", "error"} /\ my'[p] = Blank
        /\ Live' \subseteq Live /\ \A i \in Live' : snaps'[i] = snaps[i]
    BY <1>10 DEF UnlinkRecord, Live
  <2>2. QED
    BY <2>1 DEF Restorable, StoreLocal
<1>11. CASE (\E i \in Id : BeginRm(p, i)) \/ (\E t \in Tag, i \in Id : BeginTag(p, t, i))
  <2>1. snaps' = snaps /\ loose' = loose /\ pc'[p] \in {"unlink", "saveTags"}
    BY <1>11 DEF BeginRm, BeginTag
  <2>2. QED
    BY <2>1, StoreFrame DEF StoreLocal
<1>12. CASE BeginGc(p)
  <2>1. snaps' = snaps /\ loose' = loose /\ pc'[p] = "mark" /\ my'[p].marked = LiveRoots
    BY <1>12 DEF BeginGc, Local
  <2>2. QED
    BY <2>1, StoreFrame DEF StoreLocal
<1>13. CASE Mark(p)
  <2>1. /\ snaps' = snaps /\ loose' = loose
        /\ \/ pc'[p] = "scan" /\ my'[p].marked = Reach(LiveRoots)
           \/ pc'[p] = "error" /\ my'[p] = Blank
    BY <1>13 DEF Mark, Local, StoreLocal
  <2>2. QED
    BY <2>1, StoreFrame DEF StoreLocal
<1>14. CASE Scan(p)
  <2>1. /\ snaps' = snaps /\ loose' = loose /\ pc'[p] = "sweep"
        /\ my'[p].doomed \cap Obj = loose \ Reach(LiveRoots)
    BY <1>14 DEF Scan, Local, StoreLocal
  <2>2. QED
    BY <2>1, StoreFrame DEF StoreLocal
<1>15. CASE \E o \in Obj : Sweep(p, o)
  <2>1. PICK o \in Obj : Sweep(p, o)
    BY <1>15
  <2>2. /\ my[p].doomed \cap Obj = loose \ Reach(LiveRoots) /\ o \in my[p].doomed
        /\ snaps' = snaps /\ loose' = loose \ {o}
        /\ pc'[p] = "sweep" /\ my'[p].doomed = my[p].doomed \ {o}
    BY <2>1 DEF Sweep, Local, StoreLocal
  <2>3. Live' = Live /\ LiveRoots' = LiveRoots
    BY <2>2 DEF Live, LiveRoots
  <2>4. o \notin Reach(LiveRoots)
    BY <2>2
  <2>5. ASSUME NEW i \in Live PROVE Reach({snaps[i].root}) \subseteq Reach(LiveRoots)
    BY ReachMonotone DEF LiveRoots
  <2>6. Restorable'
    BY <2>2, <2>3, <2>4, <2>5 DEF Restorable
  <2>7. QED
    BY <2>2, <2>3, <2>6 DEF StoreLocal
<1>16. QED
  BY <1>3, <1>4, <1>5, <1>6, <1>7, <1>8, <1>9, <1>10, <1>11, <1>12, <1>13, <1>14, <1>15
     DEF Step, Begin, Work, Snapshot, Gc

LEMMA NextStore ==
  ASSUME Exclusive
  PROVE  Typed /\ OneAtATime /\ IdInv /\ StoreInv /\ [Next]_vars => StoreInv'
<1>1. ASSUME Typed, OneAtATime, IdInv, StoreInv, NEW p \in Proc, Step(p) PROVE StoreInv'
  BY <1>1, StepStore, OthersIdle
<1>2. CASE UNCHANGED vars
  BY <1>2 DEF vars, StoreInv, StoreLocal, Restorable, Live, LiveRoots
<1>3. QED
  BY <1>1, <1>2 DEF Next, Step

\* Every snapshot on disk can be restored: nothing that snapshots, removals,
\* collections, failures and crashes do, one command at a time, ever loses an
\* object that a published record reaches.
THEOREM SnapshotsRestorable ==
  ASSUME Exclusive
  PROVE  Spec => []Restorable
<1>1. StoreInv => Restorable
  BY DEF StoreInv
<1>2. QED
  BY <1>1, InitTyped, InitSerial, InitIds, InitStore, NextTyped, NextSerial, NextIds,
     NextStore, PTL DEF Spec

\* A collection that finishes has removed all garbage and nothing else.
THEOREM CollectionExact ==
  ASSUME Exclusive
  PROVE  Spec => GcExact
<1> DEFINE Exact == \A p \in Proc : pc[p] = "sweep" /\ my[p].doomed = {} /\ pc'[p] = "idle"
                       => loose = Reach(LiveRoots)
<1>1. Typed /\ StoreInv => Exact
  <2> SUFFICES ASSUME Typed, StoreInv, NEW p \in Proc, pc[p] = "sweep", my[p].doomed = {}
               PROVE  loose = Reach(LiveRoots)
    OBVIOUS
  <2>1. my[p].doomed \cap Obj = loose \ Reach(LiveRoots)
    BY DEF StoreInv, StoreLocal
  <2>2. LiveRoots \in SUBSET Obj
    BY GraphAssumption DEF Typed, TypeOK, LiveRoots, Live, Record
  <2>3. ASSUME NEW r \in LiveRoots PROVE Reach({r}) \subseteq loose
    BY DEF StoreInv, Restorable, LiveRoots
  <2>4. Reach(LiveRoots) \subseteq loose
    <3>1. Reach(LiveRoots) = UNION {Reach({r}) : r \in LiveRoots}
      BY <2>2, ReachUnion
    <3>2. QED
      BY <2>3, <3>1
  <2>5. QED
    BY <2>1, <2>4
<1>2. QED
  BY <1>1, InitTyped, InitSerial, InitIds, InitStore, NextTyped, NextSerial, NextIds,
     NextStore, PTL DEF Spec, GcExact

-----------------------------------------------------------------------------
(***************************************************************************)
(* The history of snapshots.  The publication of a record is Take, its     *)
(* removal is Remove, every other step stutters.                           *)
(***************************************************************************)
Held == [i \in Id |-> IF i \in Live THEN Readable(i) ELSE NoRecord]
Whole == [i \in Id |-> IF i \in Live THEN Reach({snaps[i].root}) ELSE NoRecord]

\* A restorable snapshot holds everything its root reaches.
LEMMA HeldIsWhole == Restorable => Held = Whole
BY DEF Held, Whole, Restorable, Readable, Live

\* Steps that leave the records alone leave the history alone.
LEMMA StutterStep ==
  ASSUME Restorable, Restorable', snaps' = snaps
  PROVE  Held' = Held
<1>1. Held = Whole /\ Held' = Whole'
  BY HeldIsWhole DEF Held, Whole, Restorable, Readable, Live
<1>2. QED
  BY <1>1 DEF Whole, Live

LEMMA PublishTakes ==
  ASSUME Typed, IdInv, StoreInv, Restorable', NEW p \in Proc, Publish(p)
  PROVE  History!Next
<1> DEFINE new == my[p].id
           root == my[p].root
<1>1. new \in Id /\ root \in Tree /\ \A j \in used : j < new
  BY DEF Publish, Typed, Assigned, SnapshotPc, IdInv, IdLocal
<1>2. recTmp[new] = [root |-> root, parent |-> my[p].parent]
  BY DEF Publish, IdInv, IdLocal
<1>3. recTmp[new] # NoRecord
  BY TempsInPlace DEF Publish
<1>4. snaps' = [snaps EXCEPT ![new] = [root |-> root, parent |-> my[p].parent]]
  BY <1>2, <1>3 DEF Publish
<1>5. snaps \in [Id -> Record \cup {NoRecord}]
  BY DEF Typed, TypeOK
<1>6. Live' = Live \cup {new}
  BY <1>1, <1>2, <1>3, <1>4, <1>5 DEF Live
<1>7. Held = Whole /\ Held' = Whole'
  BY HeldIsWhole DEF StoreInv, Held, Whole, Restorable, Readable, Live
<1>8. Whole' = [Whole EXCEPT ![new] = Reach({root})]
  BY <1>1, <1>4, <1>5, <1>6 DEF Whole
<1>9. used' = used \cup {new}
  BY <1>3 DEF Publish
<1>10. History!Take(new, Reach({root}))
  BY <1>1, <1>7, <1>8, <1>9 DEF History!Take, Held
<1>11. QED
  <2>1. Reach({root}) \in {Reach({r}) : r \in Tree}
    BY <1>1
  <2>2. \E c \in {Reach({r}) : r \in Tree} : History!Take(new, c)
    BY <1>10, <2>1 DEF History!Take
  <2>3. QED
    BY <1>1, <2>2 DEF History!Next, History!Take, History!Remove

LEMMA UnlinkRemoves ==
  ASSUME Typed, IdInv, StoreInv, Restorable', NEW p \in Proc, UnlinkRecord(p),
         my[p].id \in Live
  PROVE  History!Next
<1> DEFINE old == my[p].id
<1>1. old \in Id /\ used' = used /\ snaps' = [snaps EXCEPT ![old] = NoRecord]
  BY DEF UnlinkRecord, Live
<1>2. snaps \in [Id -> Record \cup {NoRecord}]
  BY DEF Typed, TypeOK
<1>3. Live' = Live \ {old}
  BY <1>1, <1>2 DEF Live
<1>4. Held = Whole /\ Held' = Whole'
  BY HeldIsWhole DEF StoreInv, Held, Whole, Restorable, Readable, Live
<1>5. Whole' = [Whole EXCEPT ![old] = NoRecord]
  BY <1>1, <1>2, <1>3 DEF Whole
<1>6. Held[old] # NoRecord
  BY <1>1, RefinementAssumption DEF Held, Readable, Reach
<1>7. History!Remove(old)
  BY <1>1, <1>4, <1>5, <1>6 DEF History!Remove, Held
<1>8. QED
  BY <1>1, <1>7 DEF History!Next, History!Remove

\* Every other step touches neither the records nor the history of ids.
LEMMA OtherSteps ==
  ASSUME Typed, NEW p \in Proc, Step(p), ~Publish(p),
         ~(UnlinkRecord(p) /\ my[p].id \in Live)
  PROVE  snaps' = snaps /\ used' = used
BY DEF Step, Begin, Work, Snapshot, Gc, BeginSnapshot, BeginRm, BeginTag, BeginGc,
   PutHit, PutTemp, NextPut, PutReplace, WalkFails, ReadCounter, WriteCounterTmp,
   MoveCounter, ReadLatest, WriteRecordTmp, Mark, Scan,
   Sweep, SweepHitsTemp, EndGc, UnlinkRecord, SaveTags, Reported, Crash, disk

LEMMA InitHistory == Init => History!Init
<1> SUFFICES ASSUME Init PROVE History!Init
  OBVIOUS
<1>1. Live = {} /\ used = {}
  BY DEF Init, Live
<1>2. QED
  BY <1>1 DEF History!Init

LEMMA GoodSteps ==
  Typed /\ IdInv /\ StoreInv /\ StoreInv' /\ [Next]_vars => [History!Next]_(History!vars)
<1> SUFFICES ASSUME Typed, IdInv, StoreInv, StoreInv', [Next]_vars
             PROVE  History!Next \/ (Held' = Held /\ used' = used)
  BY DEF History!vars, Held
<1>1. Restorable /\ Restorable'
  BY DEF StoreInv
<1>2. CASE UNCHANGED vars
  BY <1>1, <1>2, StutterStep DEF vars
<1>3. ASSUME NEW p \in Proc, Step(p) PROVE History!Next \/ (Held' = Held /\ used' = used)
  <2>1. CASE Publish(p)
    BY <1>1, <2>1, PublishTakes
  <2>2. CASE UnlinkRecord(p) /\ my[p].id \in Live
    BY <1>1, <2>2, UnlinkRemoves
  <2>3. CASE ~Publish(p) /\ ~(UnlinkRecord(p) /\ my[p].id \in Live)
    BY <1>1, <1>3, <2>3, OtherSteps, StutterStep
  <2>4. QED
    BY <2>1, <2>2, <2>3
<1>4. QED
  BY <1>2, <1>3 DEF Next, Step

\* The repository is an append-and-remove history of complete, immutable
\* snapshots, for any objects, commands, crashes and number of ids.
THEOREM VaultImplementsHistory ==
  ASSUME Exclusive
  PROVE  Spec => ImplementsHistory
<1> DEFINE Good == Typed /\ OneAtATime /\ IdInv /\ StoreInv
<1>1. Init => Good
  BY InitTyped, InitSerial, InitIds, InitStore
<1>2. Good /\ [Next]_vars => Good'
  BY NextTyped, NextSerial, NextIds, NextStore
<1>3. QED
  BY <1>1, <1>2, InitHistory, GoodSteps, PTL DEF Spec, ImplementsHistory, History!Spec

-----------------------------------------------------------------------------
(***************************************************************************)
(* Under the lock.  Here nothing is assumed of Exclusive: commands are     *)
(* kept apart by the lock of RepositoryLock, whose theorems are used       *)
(* through the steps that LockedVault shares with it.                      *)
(***************************************************************************)
LP == INSTANCE RepositoryLockProofs WITH pc <- lockPc

LEMMA LockSteps == LVNext => [LP!Next]_(LP!vars)
<1> USE DEF LP!Next, LP!vars, Lock!Goto, LP!Goto, Lock!Holding, LP!Holding, Lock!Running, LP!Running,
            Lock!Ended, LP!Ended, Lock!SafeUnlink, LP!SafeUnlink
<1>1. ASSUME NEW p \in Proc, Locking(p) PROVE LP!Next
  <2>1. CASE Lock!Acquire(p)
    BY <2>1 DEF Lock!Acquire, LP!Acquire, Lock!Create, LP!Create, Lock!OpenFails, LP!OpenFails,
       Lock!WritePid, LP!WritePid, Lock!ReadPid, LP!ReadPid, Lock!BreakBad, LP!BreakBad,
       Lock!ProbeAlive, LP!ProbeAlive, Lock!ProbeDead, LP!ProbeDead, Lock!BreakDead, LP!BreakDead,
       Lock!IsProcessAlive, LP!IsProcessAlive
  <2>2. CASE Lock!Start(p) \/ Lock!Expire(p) \/ Lock!Exit(p)
    BY <2>2 DEF Lock!Start, LP!Start, Lock!Expire, LP!Expire, Lock!Exit, LP!Exit,
       Lock!IsProcessAlive, LP!IsProcessAlive, Lock!Waiting, LP!Waiting
  <2>3. QED
    BY <1>1, <2>1, <2>2 DEF Locking
<1>2. ASSUME NEW p \in Proc, Command(p) PROVE UNCHANGED LP!vars
  BY <1>2 DEF Command, lockVars
<1>3. ASSUME NEW p \in Proc, Unlock(p) PROVE LP!Next
  BY <1>3 DEF Unlock, Lock!Release, LP!Release
<1>4. ASSUME NEW p \in Proc, Kill(p) PROVE LP!Next
  BY <1>4 DEF Kill, Lock!Crash, LP!Crash
<1>5. QED
  BY <1>1, <1>2, <1>3, <1>4 DEF LVNext

\* What the lock promises holds of the lock that the commands take.
LEMMA LockOwned == LVSpec => [](LP!TypeOK /\ LP!OwnerKeepsPath)
<1>1. LVInit => LP!Init
  BY DEF LVInit, Lock!Init, LP!Init
<1>2. [LVNext]_allVars => [LP!Next]_(LP!vars)
  BY LockSteps DEF allVars, lockVars, LP!vars
<1>3. LVSpec => LP!Spec
  BY <1>1, <1>2, PTL DEF LVSpec, LP!Spec
<1>4. LP!Spec => []LP!TypeOK
  BY LP!LockTyping, LockAssumption
<1>5. LP!Spec => []LP!OwnerKeepsPath
  BY LP!PathOwnership, LockAssumption
<1>6. QED
  BY <1>3, <1>4, <1>5, PTL

-----------------------------------------------------------------------------
\* A command is under way only between acquire() and release().
InsideLock == \A p \in Proc : pc[p] # "idle" => lockPc[p] = "cs"

\* The steps of an invocation as steps of Vault.
LEMMA LockedSteps ==
  ASSUME LVNext
  PROVE  \/ UNCHANGED vars
         \/ \E p \in Proc : Step(p) /\ (lockPc[p] = "cs" \/ pc[p] # "idle")
BY DEF LVNext, Locking, Command, Unlock, Kill, Step

LEMMA NextLockedTyped == Typed /\ [LVNext]_allVars => Typed'
<1>1. LVNext => [Next]_vars
  BY LockedSteps DEF Next, Step
<1>2. [LVNext]_allVars => [Next]_vars
  BY <1>1 DEF allVars, vars
<1>3. QED
  BY <1>2, NextTyped

LEMMA NextInsideLock == Typed /\ LP!TypeOK /\ InsideLock /\ [LVNext]_allVars => InsideLock'
<1> SUFFICES ASSUME Typed, LP!TypeOK, InsideLock, [LVNext]_allVars PROVE InsideLock'
  OBVIOUS
<1> USE DEF InsideLock, LP!TypeOK, Typed, TypeOK
<1>1. ASSUME NEW p \in Proc, Locking(p) PROVE InsideLock'
  <2>1. lockPc[p] # "cs" /\ \A q \in Proc \ {p} : lockPc'[q] = lockPc[q]
    BY <1>1 DEF Locking, Lock!Acquire, Lock!Create, Lock!OpenFails, Lock!WritePid, Lock!ReadPid,
       Lock!BreakBad, Lock!ProbeAlive, Lock!ProbeDead, Lock!BreakDead, Lock!Start, Lock!Expire,
       Lock!Exit, Lock!Goto, Lock!Waiting
  <2>2. QED
    BY <1>1, <2>1 DEF Locking, vars
<1>2. ASSUME NEW p \in Proc, Command(p) PROVE InsideLock'
  <2>1. \A q \in Proc \ {p} : pc'[q] = pc[q]
    BY <1>2, ActorOnly DEF Command, Step
  <2>2. QED
    BY <1>2, <2>1 DEF Command, lockVars
<1>3. ASSUME NEW p \in Proc, Unlock(p) PROVE InsideLock'
  BY <1>3 DEF Unlock, Lock!Release, Lock!Goto, vars
<1>4. ASSUME NEW p \in Proc, Kill(p) PROVE InsideLock'
  BY <1>4 DEF Kill, Lock!Crash, Lock!Goto, Crash, End, Goto, vars
<1>5. CASE UNCHANGED allVars
  BY <1>5 DEF allVars, vars, lockVars
<1>6. QED
  BY <1>1, <1>2, <1>3, <1>4, <1>5 DEF LVNext

\* Two commands under way would both own the one path of the lock.
LEMMA LockSerial ==
  ASSUME InsideLock, LP!OwnerKeepsPath, stolen = {}
  PROVE  OneAtATime /\ \A p \in Proc : lockPc[p] = "cs" \/ pc[p] # "idle" => AllOthersIdle(p)
<1>1. \A p \in Proc : pc[p] # "idle" => lockPc[p] = "cs"
  BY DEF InsideLock
<1>2. \A p \in Proc : lockPc[p] = "cs" => lock = p
  BY DEF LP!OwnerKeepsPath, LP!Holding
<1>3. QED
  BY <1>1, <1>2 DEF OneAtATime, AllOthersIdle

\* A theft is never forgotten.
LEMMA StolenGrows == [LVNext]_allVars => stolen \subseteq stolen'
<1>1. ASSUME NEW p \in Proc, Locking(p) \/ Unlock(p) \/ Kill(p) PROVE stolen \subseteq stolen'
  BY <1>1 DEF Locking, Unlock, Kill, Lock!Acquire, Lock!Create, Lock!OpenFails, Lock!WritePid,
     Lock!ReadPid, Lock!BreakBad, Lock!ProbeAlive, Lock!ProbeDead, Lock!BreakDead, Lock!Start,
     Lock!Expire, Lock!Exit, Lock!Release, Lock!Crash, Lock!SafeUnlink
<1>2. ASSUME NEW p \in Proc, Command(p) PROVE stolen \subseteq stolen'
  BY <1>2 DEF Command, lockVars
<1>3. CASE UNCHANGED allVars
  BY <1>3 DEF allVars, lockVars
<1>4. QED
  BY <1>1, <1>2, <1>3 DEF LVNext

-----------------------------------------------------------------------------
KeptUnlessStolen == stolen = {} => IdInv /\ StoreInv

LEMMA InitLocked == LVInit => Typed /\ InsideLock /\ KeptUnlessStolen
<1>1. CASE Init
  BY <1>1, InitTyped, InitIds, InitStore DEF Init, InsideLock, KeptUnlessStolen
<1>2. CASE OneSnapshot
  <2>1. PICK r \in Tree :
          /\ 1 \in Id /\ loose = Reach({r}) /\ litter = FALSE /\ counter = 2 /\ counterTmp = NoId
          /\ recTmp = [i \in Id |-> NoRecord]
          /\ snaps = [i \in Id |-> IF i = 1 THEN [root |-> r, parent |-> NoId] ELSE NoRecord]
          /\ tags = NoTags /\ pc = [p \in Proc |-> "idle"] /\ my = [p \in Proc |-> Blank]
          /\ used = {1}
    BY <1>2 DEF OneSnapshot
  <2>2. [root |-> r, parent |-> NoId] \in Record
    BY <2>1, VaultAssumption DEF Record, NoId
  <2>3. Live = {1} /\ snaps[1] = [root |-> r, parent |-> NoId]
    BY <2>1, <2>2, VaultAssumption DEF Live
  <2>4. Typed
    <3>1. loose \in SUBSET Obj
      BY <2>1 DEF Reach
    <3>2. counter \in 1 .. MaxId + 1 /\ counterTmp \in 0 .. MaxId + 1
      BY <2>1, VaultAssumption DEF NoId, Id
    <3>3. snaps \in [Id -> Record \cup {NoRecord}] /\ recTmp \in [Id -> Record \cup {NoRecord}]
      BY <2>1, <2>2
    <3>4. tags \in TagMap /\ used \in SUBSET Id
      BY <2>1, VaultAssumption DEF NoTags, TagMap, NoId
    <3>5. pc \in [Proc -> Pc] /\ my \in [Proc -> Local]
      BY <2>1, BlankIsLocal DEF Pc
    <3>6. TypeOK
      BY <2>1, <3>1, <3>2, <3>3, <3>4, <3>5 DEF TypeOK
    <3>7. QED
      BY <2>1, <3>6 DEF Typed, Assigned, SnapshotPc
  <2>5. IdInv
    <3>1. CounterAhead /\ TagsNamePublished /\ Live \subseteq used
      BY <2>1, <2>3 DEF CounterAhead, TagsNamePublished, NoTags
    <3>2. ParentIsPredecessor
      BY <2>3 DEF ParentIsPredecessor, NoId
    <3>3. \A p \in Proc : IdLocal(p)
      BY <2>1 DEF IdLocal
    <3>4. QED
      BY <3>1, <3>2, <3>3 DEF IdInv, IdGlobal
  <2>6. StoreInv
    <3>1. Restorable
      BY <2>1, <2>3 DEF Restorable
    <3>2. \A p \in Proc : StoreLocal(p)
      BY <2>1 DEF StoreLocal, SnapshotPc
    <3>3. QED
      BY <3>1, <3>2 DEF StoreInv
  <2>7. QED
    BY <2>1, <2>4, <2>5, <2>6 DEF InsideLock, KeptUnlessStolen
<1>3. QED
  BY <1>1, <1>2 DEF LVInit

LEMMA NextKept ==
  Typed /\ Typed' /\ InsideLock /\ LP!OwnerKeepsPath /\ KeptUnlessStolen /\ [LVNext]_allVars
    => KeptUnlessStolen'
<1> SUFFICES ASSUME Typed, Typed', InsideLock, LP!OwnerKeepsPath, KeptUnlessStolen,
                    [LVNext]_allVars, stolen' = {}
             PROVE  IdInv' /\ StoreInv'
  BY DEF KeptUnlessStolen
<1>1. stolen = {} /\ IdInv /\ StoreInv
  BY StolenGrows DEF KeptUnlessStolen
<1>2. CASE UNCHANGED vars
  <2>1. IdInv'
    BY <1>1, <1>2 DEF vars, IdInv, IdGlobal, IdLocal, Live, CounterAhead, ParentIsPredecessor,
       TagsNamePublished
  <2>2. StoreInv'
    BY <1>1, <1>2 DEF vars, StoreInv, StoreLocal, Restorable, Live, LiveRoots
  <2>3. QED
    BY <2>1, <2>2
<1>3. ASSUME NEW p \in Proc, Step(p), lockPc[p] = "cs" \/ pc[p] # "idle"
      PROVE  IdInv' /\ StoreInv'
  <2>1. AllOthersIdle(p)
    BY <1>1, <1>3, LockSerial
  <2>2. QED
    BY <1>1, <1>3, <2>1, StepIds, StepStore
<1>4. QED
  <2>1. CASE LVNext
    BY <1>2, <1>3, <2>1, LockedSteps
  <2>2. CASE UNCHANGED allVars
    BY <1>2, <2>2 DEF allVars, vars
  <2>3. QED
    BY <2>1, <2>2

LEMMA LockedInvariant == LVSpec => [](Typed /\ InsideLock /\ LP!OwnerKeepsPath /\ KeptUnlessStolen)
BY LockOwned, InitLocked, NextLockedTyped, NextInsideLock, NextKept, PTL DEF LVSpec

\* While no running holder has lost its lock file, the lock alone keeps the
\* commands apart: _with_repo_lock around every mutating command gives what
\* Exclusive assumes, whatever processes wait, time out or are killed.
THEOREM LockSerializes == LVSpec => []SerialUnlessStolen
<1>1. InsideLock /\ LP!OwnerKeepsPath => SerialUnlessStolen
  BY LockSerial DEF SerialUnlessStolen, OneAtATime
<1>2. QED
  BY <1>1, LockedInvariant, PTL

\* And the repository keeps its snapshots restorable, its ids fresh and its
\* parents in order, from an empty repository or one with a snapshot.
THEOREM LockProtects == LVSpec => []SafeUnlessStolen
<1>1. KeptUnlessStolen => SafeUnlessStolen
  BY DEF KeptUnlessStolen, SafeUnlessStolen, IdInv, IdGlobal, StoreInv
<1>2. QED
  BY <1>1, LockedInvariant, PTL

-----------------------------------------------------------------------------
\* From an empty repository the locked commands implement the history of
\* snapshots for as long as no running holder loses its lock file.
THEOREM LockedVaultImplementsHistory ==
  LVSpec /\ Init /\ [](stolen = {}) => ImplementsHistory
<1> DEFINE Good == Typed /\ IdInv /\ StoreInv
<1>1. Typed /\ KeptUnlessStolen /\ stolen = {} => Good
  BY DEF KeptUnlessStolen
<1>2. Good /\ Good' /\ [LVNext]_allVars => [History!Next]_(History!vars)
  <2>1. [LVNext]_allVars => [Next]_vars
    BY LockedSteps DEF Next, Step, allVars, vars
  <2>2. QED
    BY <2>1, GoodSteps
<1>3. QED
  BY <1>1, <1>2, InitHistory, LockedInvariant, PTL DEF LVSpec, ImplementsHistory, History!Spec

=============================================================================
