-------------------------- MODULE DurabilityProofs --------------------------
(***************************************************************************)
(* What a repository without packs keeps through any number of power       *)
(* losses and damaged objects, for any object graph.                       *)
(***************************************************************************)
EXTENDS Durability, ObjectGraphProofs

-----------------------------------------------------------------------------
(***************************************************************************)
(* The inductive invariant                                                 *)
(***************************************************************************)
\* What put() leaves behind is synced before it gets its name.
ObjectsSynced == \A o \in Obj : Torn \notin disk[o]

\* What a command in progress may rely on.
Command ==
  /\ pc \in {"store", "publish"} =>
       /\ my.root \in Tree
       /\ my.todo \subseteq Reach({my.root})
       /\ \A o \in Reach({my.root}) \ my.todo : file[o] # Absent
  /\ pc = "publish" => my.todo = {} /\ my.id \in Id
  /\ pc # "publish" => my.id = 0
  /\ pc = "sweep" =>
       /\ my.todo \cap Reach(Roots) = {}
       /\ \A i \in Id : file[i] # Torn

\* Snapshot i, with the root r, is on the disk, and its id is behind the counter.
Kept(i, r) ==
  /\ r \in Tree
  /\ file[i] = r /\ disk[i] = {r}
  /\ \A o \in Reach({r}) : disk[o] \subseteq {Whole, Rotten}
  /\ my.id # i
  /\ \A c \in disk[NextId] : c = Torn \/ (c \in Nat /\ c > i)

SettledKept == \A i \in Id : settled[i] # Absent => Kept(i, settled[i])

Base == TypeOK /\ ObjectsSynced /\ Command
Inv  == Base /\ SettledKept

\* The paths of objects, of records and of the counter are apart.
LEMMA PathFacts ==
  /\ NextId \in Path /\ NextId \notin Obj /\ NextId \notin Id
  /\ \A o \in Obj : o \in Path /\ o \notin Id
  /\ \A i \in Id : i \in Path /\ i \in Nat /\ i # 0
BY DurabilityAssumption DEF Path, Id

LEMMA ReachIsObjects == \A R : Reach(R) \subseteq Obj
BY DEF Reach

LEMMA BlankIsLocal == Blank \in Local /\ Blank.id = 0 /\ Blank.todo = {}
BY DurabilityAssumption DEF Blank, Local

LEMMA InitInv == Init => Inv
<1> SUFFICES ASSUME Init PROVE Inv
  OBVIOUS
<1>1. TypeOK
  BY DurabilityAssumption, BlankIsLocal, PathFacts DEF Init, TypeOK, Content, Pc
<1>2. ObjectsSynced
  BY DurabilityAssumption, PathFacts DEF Init, ObjectsSynced
<1>3. Command
  BY BlankIsLocal DEF Init, Command
<1>4. SettledKept
  BY DEF Init, SettledKept
<1> QED
  BY <1>1, <1>2, <1>3, <1>4 DEF Inv, Base

-----------------------------------------------------------------------------
(***************************************************************************)
(* Types, and what is synced                                               *)
(***************************************************************************)
\* One path gets a content of its kind, and the disk may have it too.
LEMMA FilesTyped ==
  ASSUME TypeOK, ObjectsSynced, NEW p \in Path, NEW c, NEW D, c \in D,
         p \in Obj => D \subseteq {Absent, Whole, Rotten},
         p \in Id => D \subseteq Tree \cup {Absent, Torn},
         p = NextId => D \subseteq (1 .. MaxId + 1) \cup {Absent, Torn},
         file' = [file EXCEPT ![p] = c], disk' = [disk EXCEPT ![p] = D],
         pc' \in Pc, my' \in Local, faults' \in 0 .. MaxFault,
         published' \in [Id -> Tree \cup {Absent}],
         settled' \in [Id -> Tree \cup {Absent}]
  PROVE  TypeOK' /\ ObjectsSynced'
<1>1. D \subseteq Content
  BY DEF Path, Content
<1>2. file' \in [Path -> Content] /\ disk' \in [Path -> SUBSET Content]
  BY <1>1 DEF TypeOK
<1>3. \A q \in Path : file'[q] \in disk'[q]
  BY DEF TypeOK
<1>4. /\ \A o \in Obj : disk'[o] \subseteq {Absent, Torn, Whole, Rotten}
      /\ \A i \in Id : disk'[i] \subseteq Tree \cup {Absent, Torn}
      /\ disk'[NextId] \subseteq (1 .. MaxId + 1) \cup {Absent, Torn}
  BY PathFacts DEF TypeOK
<1>5. ObjectsSynced'
  BY PathFacts, DurabilityAssumption DEF TypeOK, ObjectsSynced
<1> QED
  BY <1>2, <1>3, <1>4, <1>5 DEF TypeOK

\* No file changes.
LEMMA FilesAlone ==
  ASSUME TypeOK, ObjectsSynced, UNCHANGED <<file, disk>>,
         pc' \in Pc, my' \in Local, faults' \in 0 .. MaxFault,
         published' \in [Id -> Tree \cup {Absent}],
         settled' \in [Id -> Tree \cup {Absent}]
  PROVE  TypeOK' /\ ObjectsSynced'
BY DEF TypeOK, ObjectsSynced

\* A power loss leaves at each path something the disk may have had.
LEMMA LossChooses ==
  ASSUME TypeOK, PowerLoss
  PROVE  /\ file' \in [Path -> Content]
         /\ \A p \in Path : file'[p] \in disk[p] /\ disk'[p] = {file'[p]}
<1>1. PICK objects \in Survivors(Obj), records \in Survivors(Id), n \in disk[NextId] :
        file' = [p \in Path |-> CASE p \in Obj -> objects[p] [] p \in Id -> records[p] [] OTHER -> n]
  BY DEF PowerLoss
<1>2. /\ \A o \in Obj : objects[o] \in disk[o]
      /\ \A i \in Id : records[i] \in disk[i]
  BY DEF Survivors
<1>3. \A p \in Path : file'[p] \in disk[p]
  <2> SUFFICES ASSUME NEW p \in Path PROVE file'[p] \in disk[p]
    OBVIOUS
  <2>1. CASE p \in Obj
    BY <1>1, <1>2, <2>1, PathFacts
  <2>2. CASE p \in Id
    BY <1>1, <1>2, <2>2, PathFacts
  <2>3. CASE p = NextId
    BY <1>1, <2>3, PathFacts
  <2> QED
    BY <2>1, <2>2, <2>3 DEF Path
<1>4. file' \in [Path -> Content]
  BY <1>1, <1>3 DEF TypeOK
<1> QED
  BY <1>3, <1>4 DEF PowerLoss

LEMMA SettledTyped ==
  ASSUME NEW known \in [Id -> Tree \cup {Absent}], Settle(known)
  PROVE  settled' \in [Id -> Tree \cup {Absent}]
BY DEF Settle, OnDisk, Loads

LEMMA TypeStep ==
  ASSUME Base, Next
  PROVE  TypeOK' /\ ObjectsSynced'
<1> USE DEF Base
<1>0. settled' \in [Id -> Tree \cup {Absent}]
  <2>1. CASE Settle(settled)
    BY <2>1, SettledTyped DEF TypeOK
  <2>2. ASSUME NEW i \in Id, Settle([settled EXCEPT ![i] = Absent])
        PROVE  settled' \in [Id -> Tree \cup {Absent}]
    <3>1. [settled EXCEPT ![i] = Absent] \in [Id -> Tree \cup {Absent}]
      BY DEF TypeOK
    <3> QED
      BY <2>2, <3>1, SettledTyped
  <2> QED
    BY <2>1, <2>2 DEF Next
<1>1. ASSUME NEW r \in Tree, BeginSnapshot(r)
      PROVE  TypeOK' /\ ObjectsSynced'
  <2>1. my' \in Local
    BY <1>1, BlankIsLocal, ReachIsObjects DEF BeginSnapshot, Local
  <2> QED
    BY <1>0, <1>1, <2>1, FilesAlone DEF BeginSnapshot, Pc, TypeOK
<1>2. ASSUME NEW o \in Obj, Store(o)
      PROVE  TypeOK' /\ ObjectsSynced'
  <2>1. my' \in Local /\ pc' \in Pc /\ faults' \in 0 .. MaxFault
        /\ published' \in [Id -> Tree \cup {Absent}]
    BY <1>2 DEF Store, TypeOK, Local
  <2>2. CASE UNCHANGED <<file, disk>>
    BY <1>0, <2>1, <2>2, FilesAlone
  <2>3. CASE ReplaceSynced(o, Whole)
    <3>1. o \in Path /\ o \notin Id /\ o # NextId
      BY PathFacts
    <3>2. disk[o] \cup {Whole} \subseteq {Absent, Whole, Rotten}
      BY DEF TypeOK, ObjectsSynced
    <3>3. /\ file' = [file EXCEPT ![o] = Whole]
          /\ disk' = [disk EXCEPT ![o] = disk[o] \cup {Whole}]
      BY <2>3 DEF ReplaceSynced
    <3> HIDE DEF Base
    <3> QED
      BY <1>0, <2>1, <3>1, <3>2, <3>3, FilesTyped DEF Base
  <2> QED
    BY <1>2, <2>2, <2>3 DEF Store, Put
<1>3. CASE TakeId
  <2>1. CASE pc' = "idle" /\ my' = Blank /\ UNCHANGED <<file, disk>>
    BY <1>0, <1>3, <2>1, BlankIsLocal, FilesAlone DEF TakeId, Pc, TypeOK
  <2>2. ASSUME NEW n \in Id, Replace(NextId, n + 1), my' = [my EXCEPT !.id = n], pc' = "publish"
        PROVE  TypeOK' /\ ObjectsSynced'
    <3>1. n + 1 \in 1 .. MaxId + 1 /\ n \in 0 .. MaxId
      BY DurabilityAssumption DEF Id
    <3>2. disk[NextId] \cup {n + 1, Torn} \subseteq (1 .. MaxId + 1) \cup {Absent, Torn}
      BY <3>1 DEF TypeOK
    <3>3. my' \in Local /\ pc' \in Pc /\ faults' \in 0 .. MaxFault
          /\ published' \in [Id -> Tree \cup {Absent}]
      BY <1>3, <2>2, <3>1 DEF TakeId, TypeOK, Local, Pc
    <3>4. /\ file' = [file EXCEPT ![NextId] = n + 1]
          /\ disk' = [disk EXCEPT ![NextId] = disk[NextId] \cup {n + 1, Torn}]
      BY <2>2 DEF Replace
    <3> QED
      BY <1>0, <3>2, <3>3, <3>4, PathFacts, FilesTyped
  <2> QED
    BY <1>3, <2>1, <2>2 DEF TakeId
<1>4. ASSUME NEW i \in Id, NEW r \in Tree, i = my.id, r = my.root, Publish
      PROVE  TypeOK' /\ ObjectsSynced'
  <2>1. disk[i] \cup {r, Torn} \subseteq Tree \cup {Absent, Torn} /\ r \in disk[i] \cup {r, Torn}
    BY DEF TypeOK
  <2>2. my' \in Local /\ pc' \in Pc /\ faults' \in 0 .. MaxFault
        /\ published' \in [Id -> Tree \cup {Absent}]
    BY <1>4, BlankIsLocal DEF Publish, TypeOK, Pc
  <2>3. /\ file' = [file EXCEPT ![i] = r]
        /\ disk' = [disk EXCEPT ![i] = disk[i] \cup {r, Torn}]
    BY <1>4 DEF Publish, Replace
  <2>4. i \in Path /\ i \notin Obj /\ i # NextId
    BY PathFacts
  <2> HIDE DEF Base
  <2> QED
    BY <1>0, <2>1, <2>2, <2>3, <2>4, FilesTyped DEF Base
<1>5. ASSUME NEW i \in Id, RemoveSnapshot(i)
      PROVE  TypeOK' /\ ObjectsSynced'
  <2>1. disk[i] \cup {Absent} \subseteq Tree \cup {Absent, Torn}
    BY DEF TypeOK
  <2>2. my' \in Local /\ pc' \in Pc /\ faults' \in 0 .. MaxFault
        /\ published' \in [Id -> Tree \cup {Absent}]
    BY <1>5 DEF RemoveSnapshot, TypeOK
  <2>3. /\ file' = [file EXCEPT ![i] = Absent]
        /\ disk' = [disk EXCEPT ![i] = disk[i] \cup {Absent}]
    BY <1>5 DEF RemoveSnapshot, Unlink, ReplaceSynced
  <2>4. i \in Path /\ i \notin Obj /\ i # NextId
    BY PathFacts
  <2>5. Absent \in disk[i] \cup {Absent}
    OBVIOUS
  <2> HIDE DEF Base
  <2> QED
    BY <1>0, <2>1, <2>2, <2>3, <2>4, <2>5, FilesTyped DEF Base
<1>6. CASE BeginGc
  <2>1. my' \in Local
    BY <1>6, BlankIsLocal DEF BeginGc, Local
  <2> QED
    BY <1>0, <1>6, <2>1, FilesAlone DEF BeginGc, Pc, TypeOK
<1>7. ASSUME NEW o \in Obj, Sweep(o)
      PROVE  TypeOK' /\ ObjectsSynced'
  <2>1. disk[o] \cup {Absent} \subseteq {Absent, Whole, Rotten}
    BY DEF TypeOK, ObjectsSynced
  <2>2. my' \in Local /\ pc' \in Pc /\ faults' \in 0 .. MaxFault
        /\ published' \in [Id -> Tree \cup {Absent}]
    BY <1>7 DEF Sweep, TypeOK, Local
  <2>3. /\ file' = [file EXCEPT ![o] = Absent]
        /\ disk' = [disk EXCEPT ![o] = disk[o] \cup {Absent}]
    BY <1>7 DEF Sweep, Unlink, ReplaceSynced
  <2>4. o \in Path /\ o \notin Id /\ o # NextId
    BY PathFacts
  <2>5. Absent \in disk[o] \cup {Absent}
    OBVIOUS
  <2> HIDE DEF Base
  <2> QED
    BY <1>0, <2>1, <2>2, <2>3, <2>4, <2>5, FilesTyped DEF Base
<1>8. CASE EndGc \/ Kill
  BY <1>0, <1>8, BlankIsLocal, FilesAlone DEF EndGc, Kill, Pc, TypeOK
<1>9. ASSUME NEW p \in Path, WriteBack(p)
      PROVE  TypeOK' /\ ObjectsSynced'
  <2>1. file[p] \in disk[p]
    BY DEF TypeOK
  <2>2. file' = [file EXCEPT ![p] = file[p]] /\ disk' = [disk EXCEPT ![p] = {file[p]}]
    BY <1>9 DEF WriteBack, TypeOK
  <2>3. /\ p \in Obj => {file[p]} \subseteq {Absent, Whole, Rotten}
        /\ p \in Id => {file[p]} \subseteq Tree \cup {Absent, Torn}
        /\ p = NextId => {file[p]} \subseteq (1 .. MaxId + 1) \cup {Absent, Torn}
    BY <2>1 DEF TypeOK, ObjectsSynced
  <2>4. my' \in Local /\ pc' \in Pc /\ faults' \in 0 .. MaxFault
        /\ published' \in [Id -> Tree \cup {Absent}]
    BY <1>9 DEF WriteBack, TypeOK
  <2> QED
    BY <1>0, <2>2, <2>3, <2>4, FilesTyped
<1>10. CASE PowerLoss
  <2>1. file' \in [Path -> Content] /\ \A p \in Path : file'[p] \in disk[p] /\ disk'[p] = {file'[p]}
    BY <1>10, LossChooses DEF TypeOK
  <2>2. disk' \in [Path -> SUBSET Content]
    BY <1>10, <2>1 DEF PowerLoss
  <2>3. /\ \A p \in Path : file'[p] \in disk'[p]
        /\ \A o \in Obj : disk'[o] \subseteq {Absent, Torn, Whole, Rotten}
        /\ \A i \in Id : disk'[i] \subseteq Tree \cup {Absent, Torn}
        /\ disk'[NextId] \subseteq (1 .. MaxId + 1) \cup {Absent, Torn}
    BY <2>1, PathFacts DEF TypeOK
  <2>4. ObjectsSynced'
    BY <2>1, PathFacts DEF ObjectsSynced
  <2>5. faults' \in 0 .. MaxFault
    BY <1>10, DurabilityAssumption DEF PowerLoss, TypeOK
  <2> QED
    BY <1>0, <1>10, <2>1, <2>2, <2>3, <2>4, <2>5, BlankIsLocal DEF PowerLoss, TypeOK, Pc
<1>11. ASSUME NEW o \in Obj, Rot(o)
       PROVE  TypeOK' /\ ObjectsSynced'
  <2>1. my' \in Local /\ pc' \in Pc /\ faults' \in 0 .. MaxFault
        /\ published' \in [Id -> Tree \cup {Absent}]
    BY <1>11, DurabilityAssumption DEF Rot, TypeOK
  <2>2. /\ file' = [file EXCEPT ![o] = Rotten] /\ disk' = [disk EXCEPT ![o] = {Rotten}]
    BY <1>11 DEF Rot
  <2> QED
    BY <1>0, <2>1, <2>2, PathFacts, FilesTyped
<1>12. Publish => my.id \in Id /\ my.root \in Tree
  BY DEF Publish, Command
<1> QED
  BY <1>1, <1>2, <1>3, <1>4, <1>5, <1>6, <1>7, <1>8, <1>9, <1>10, <1>11, <1>12
    DEF Next, Snapshots, Collecting, Environment

-----------------------------------------------------------------------------
(***************************************************************************)
(* The commands                                                            *)
(***************************************************************************)
LEMMA RootsAreTrees == Roots \subseteq Tree /\ Roots \in SUBSET Obj
BY GraphAssumption DEF Roots, Loads

\* The roots are those the records name.
LEMMA RootsSame ==
  ASSUME \A i \in Id : file'[i] = file[i]
  PROVE  Roots' = Roots
BY DEF Roots, Loads

LEMMA CommandStep ==
  ASSUME Base, Next
  PROVE  Command'
<1> USE DEF Base
<1>1. ASSUME NEW r \in Tree, BeginSnapshot(r)
      PROVE  Command'
  <2>1. pc' = "store" /\ my'.root = r /\ my'.todo = Reach({r}) /\ my'.id = 0
    BY <1>1 DEF BeginSnapshot, Blank
  <2> QED
    BY <2>1 DEF Command
<1>2. ASSUME NEW o \in Obj, Store(o)
      PROVE  Command'
  <2>1. /\ pc = "store" /\ pc' = "store"
        /\ my'.root = my.root /\ my'.todo = my.todo \ {o} /\ my'.id = my.id
    BY <1>2 DEF Store, TypeOK, Local
  <2>2. file'[o] # Absent
    BY <1>2, PathFacts, DurabilityAssumption DEF Store, Put, ReplaceSynced, TypeOK
  <2>3. \A q \in Obj \ {o} : file'[q] = file[q]
    BY <1>2, PathFacts DEF Store, Put, ReplaceSynced, TypeOK
  <2>4. \A q \in Reach({my.root}) \ (my.todo \ {o}) : file'[q] # Absent
    <3>1. \A q \in Reach({my.root}) \ my.todo : file[q] # Absent
      BY <2>1 DEF Command
    <3>2. Reach({my.root}) \subseteq Obj
      BY ReachIsObjects
    <3> QED
      BY <2>2, <2>3, <3>1, <3>2
  <2>5. my.root \in Tree /\ my.todo \ {o} \subseteq Reach({my.root}) /\ my.id = 0
    BY <2>1 DEF Command
  <2> HIDE DEF Base
  <2> QED
    BY <2>1, <2>4, <2>5 DEF Command
<1>3. CASE TakeId
  <2>1. CASE pc' = "idle" /\ my' = Blank
    BY <2>1, BlankIsLocal DEF Command
  <2>2. ASSUME NEW n \in Id, Replace(NextId, n + 1), my' = [my EXCEPT !.id = n], pc' = "publish"
        PROVE  Command'
    <3>1. /\ pc = "store" /\ my.todo = {}
          /\ my'.root = my.root /\ my'.todo = my.todo /\ my'.id = n
      BY <1>3, <2>2 DEF TakeId, TypeOK, Local
    <3>2. \A q \in Obj : file'[q] = file[q]
      BY <2>2, PathFacts DEF Replace, TypeOK
    <3>3. \A q \in Reach({my.root}) \ my.todo : file'[q] # Absent
      BY <3>1, <3>2, ReachIsObjects DEF Command
    <3> QED
      BY <2>2, <3>1, <3>3 DEF Command
  <2> QED
    BY <1>3, <2>1, <2>2 DEF TakeId
<1>4. CASE pc' = "idle" /\ my' = Blank
  BY <1>4, BlankIsLocal DEF Command
<1>5. ASSUME NEW i \in Id, RemoveSnapshot(i)
      PROVE  Command'
  BY <1>5 DEF RemoveSnapshot, Command
<1>6. CASE BeginGc
  <2>1. /\ pc' = "sweep" /\ my'.id = 0 /\ file' = file
        /\ my'.todo = {o \in Obj : file[o] # Absent} \ Reach(Roots)
    BY <1>6 DEF BeginGc, Blank
  <2>2. Roots' = Roots
    BY <2>1, RootsSame
  <2>3. \A i \in Id : file'[i] # Torn
    BY <1>6, <2>1 DEF BeginGc
  <2> QED
    BY <2>1, <2>2, <2>3 DEF Command
<1>7. ASSUME NEW o \in Obj, Sweep(o)
      PROVE  Command'
  <2>1. /\ pc = "sweep" /\ pc' = "sweep"
        /\ my'.todo = my.todo \ {o} /\ my'.id = my.id
    BY <1>7 DEF Sweep, TypeOK, Local
  <2>2. \A i \in Id : file'[i] = file[i]
    BY <1>7, PathFacts DEF Sweep, Unlink, ReplaceSynced, TypeOK
  <2>3. Roots' = Roots
    BY <2>2, RootsSame
  <2> QED
    BY <2>1, <2>2, <2>3 DEF Command
<1>8. ASSUME NEW p \in Path, WriteBack(p)
      PROVE  Command'
  <2>1. file' = file /\ pc' = pc /\ my' = my
    BY <1>8 DEF WriteBack
  <2>2. Roots' = Roots
    BY <2>1, RootsSame
  <2> QED
    BY <2>1, <2>2 DEF Command
<1>9. ASSUME NEW o \in Obj, Rot(o)
      PROVE  Command'
  <2>1. pc' = pc /\ my' = my /\ file' = [file EXCEPT ![o] = Rotten]
    BY <1>9 DEF Rot
  <2>2. \A q \in Obj : file[q] # Absent => file'[q] # Absent
    BY <2>1, PathFacts, DurabilityAssumption DEF TypeOK
  <2>3. \A i \in Id : file'[i] = file[i]
    BY <2>1, PathFacts DEF TypeOK
  <2>4. Roots' = Roots
    BY <2>3, RootsSame
  <2>5. \A q \in Reach({my.root}) \ my.todo : file[q] # Absent => file'[q] # Absent
    BY <2>2, ReachIsObjects
  <2> QED
    BY <2>1, <2>3, <2>4, <2>5 DEF Command
<1>10. (Publish \/ EndGc \/ Kill \/ PowerLoss) => pc' = "idle" /\ my' = Blank
  BY DEF Publish, EndGc, Kill, PowerLoss
<1> QED
  BY <1>1, <1>2, <1>3, <1>4, <1>5, <1>6, <1>7, <1>8, <1>9, <1>10
    DEF Next, Snapshots, Collecting, Environment

-----------------------------------------------------------------------------
(***************************************************************************)
(* What has settled stays                                                  *)
(***************************************************************************)
\* A settled snapshot lasts when its record and the counter are only written
\* back, and so are its objects, unless they are damaged.
LEMMA KeptFrame ==
  ASSUME NEW i \in Id, NEW r, Kept(i, r),
         file'[i] = r, disk'[i] = {r},
         \A o \in Reach({r}) : disk'[o] \subseteq disk[o] \cup {Whole, Rotten},
         my'.id # i,
         \A c \in disk'[NextId] : c \in disk[NextId] \/ c = Torn \/ (c \in Nat /\ c > i)
  PROVE  Kept(i, r)'
BY DEF Kept

LEMMA KeptStays ==
  ASSUME Base, NEW i \in Id, NEW r, Kept(i, r),
         \/ Snapshots \/ Collecting \/ Environment
         \/ \E j \in Id \ {i} : RemoveSnapshot(j)
  PROVE  Kept(i, r)'
<1> USE DEF Base
<1>0. /\ i \in Path /\ i \notin Obj /\ i # NextId /\ i # 0
      /\ NextId \in Path /\ NextId \notin Obj
      /\ r \in Tree /\ file[i] = r /\ disk[i] = {r} /\ my.id # i
      /\ Reach({r}) \subseteq Obj /\ Obj \subseteq Path
  BY PathFacts, ReachIsObjects DEF Kept
<1>1. ASSUME UNCHANGED <<file, disk>>, my'.id # i
      PROVE  Kept(i, r)'
  BY <1>1 DEF Kept
<1>2. ASSUME NEW p \in Path \ {i}, NEW c, NEW D,
             file' = [file EXCEPT ![p] = c], disk' = [disk EXCEPT ![p] = D],
             p \in Reach({r}) => D \subseteq disk[p] \cup {Whole, Rotten},
             p = NextId => \A x \in D : x \in disk[p] \/ x = Torn \/ (x \in Nat /\ x > i),
             my'.id # i
      PROVE  Kept(i, r)'
  <2>1. /\ disk'[p] = D
        /\ \A q \in Path \ {p} : file'[q] = file[q] /\ disk'[q] = disk[q]
    BY <1>2 DEF TypeOK
  <2> HIDE DEF Base
  <2>2. file'[i] = r /\ disk'[i] = {r}
    BY <1>0, <2>1
  <2>3. \A o \in Reach({r}) : disk'[o] \subseteq disk[o] \cup {Whole, Rotten}
    BY <1>0, <1>2, <2>1
  <2>4. \A x \in disk'[NextId] : x \in disk[NextId] \/ x = Torn \/ (x \in Nat /\ x > i)
    BY <1>0, <1>2, <2>1
  <2> QED
    BY <1>2, <2>2, <2>3, <2>4, KeptFrame
<1>3. ASSUME NEW q \in Tree, BeginSnapshot(q)
      PROVE  Kept(i, r)'
  BY <1>0, <1>1, <1>3, BlankIsLocal DEF BeginSnapshot, Blank
<1>4. ASSUME NEW o \in Obj, Store(o)
      PROVE  Kept(i, r)'
  <2>1. my'.id # i
    BY <1>0, <1>4 DEF Store, TypeOK, Local
  <2>2. CASE UNCHANGED <<file, disk>>
    BY <1>1, <2>1, <2>2
  <2>3. CASE ReplaceSynced(o, Whole)
    <3>1. /\ file' = [file EXCEPT ![o] = Whole]
          /\ disk' = [disk EXCEPT ![o] = disk[o] \cup {Whole}]
      BY <2>3 DEF ReplaceSynced
    <3>2. o \in Path \ {i} /\ o # NextId
      BY <1>0
    <3> HIDE DEF Base
    <3> QED
      BY <1>2, <2>1, <3>1, <3>2
  <2> QED
    BY <1>4, <2>2, <2>3 DEF Store, Put
<1>5. CASE TakeId
  <2>1. CASE my' = Blank /\ UNCHANGED <<file, disk>>
    BY <1>0, <1>1, <2>1, BlankIsLocal
  <2>2. ASSUME NEW n \in Id, Replace(NextId, n + 1), my' = [my EXCEPT !.id = n],
               n = IF file[NextId] = Absent THEN 1 ELSE file[NextId], n # Torn
        PROVE  Kept(i, r)'
    <3>1. file[NextId] \in disk[NextId]
      BY <1>0 DEF TypeOK
    <3>2. n \in Nat /\ n > i
      BY <2>2, <3>1, DurabilityAssumption DEF Kept, Id
    <3>3. /\ file' = [file EXCEPT ![NextId] = n + 1]
          /\ disk' = [disk EXCEPT ![NextId] = disk[NextId] \cup {n + 1, Torn}]
      BY <2>2 DEF Replace
    <3>4. my'.id # i
      BY <2>2, <3>2, PathFacts DEF TypeOK, Local
    <3>6. n + 1 \in Nat /\ n + 1 > i
      BY <3>2, PathFacts
    <3> HIDE DEF Base
    <3>5. \A x \in disk[NextId] \cup {n + 1, Torn} :
            x \in disk[NextId] \/ x = Torn \/ (x \in Nat /\ x > i)
      BY <3>6
    <3> QED
      BY <1>0, <1>2, <3>3, <3>4, <3>5
  <2> QED
    BY <1>5, <2>1, <2>2 DEF TakeId
<1>6. CASE Publish
  <2>1. my.id \in Id /\ my.id \in Path \ {i} /\ my.id \notin Obj /\ my.id # NextId
    BY <1>0, <1>6, PathFacts DEF Publish, Command
  <2>2. /\ file' = [file EXCEPT ![my.id] = my.root]
        /\ disk' = [disk EXCEPT ![my.id] = disk[my.id] \cup {my.root, Torn}]
    BY <1>6 DEF Publish, Replace
  <2>3. my'.id # i
    BY <1>0, <1>6, BlankIsLocal DEF Publish
  <2> HIDE DEF Base
  <2> QED
    BY <1>0, <1>2, <2>1, <2>2, <2>3
<1>7. ASSUME NEW j \in Id \ {i}, RemoveSnapshot(j)
      PROVE  Kept(i, r)'
  <2>1. /\ file' = [file EXCEPT ![j] = Absent]
        /\ disk' = [disk EXCEPT ![j] = disk[j] \cup {Absent}]
        /\ my' = my
    BY <1>7 DEF RemoveSnapshot, Unlink, ReplaceSynced
  <2>2. j \in Path \ {i} /\ j \notin Obj /\ j # NextId
    BY PathFacts
  <2> HIDE DEF Base
  <2> QED
    BY <1>0, <1>2, <2>1, <2>2
<1>8. CASE BeginGc
  BY <1>0, <1>1, <1>8 DEF BeginGc, Blank
<1>9. ASSUME NEW o \in Obj, Sweep(o)
      PROVE  Kept(i, r)'
  <2>1. /\ file' = [file EXCEPT ![o] = Absent]
        /\ disk' = [disk EXCEPT ![o] = disk[o] \cup {Absent}]
        /\ my'.id = my.id
    BY <1>9 DEF Sweep, Unlink, ReplaceSynced, TypeOK, Local
  <2>2. o \notin Reach(Roots)
    BY <1>9 DEF Sweep, Command
  <2>3. {r} \subseteq Roots
    BY <1>0 DEF Roots, Loads
  <2>4. o \notin Reach({r})
    BY <2>2, <2>3, ReachMonotone
  <2>5. o \in Path \ {i} /\ o # NextId
    BY <1>0
  <2> HIDE DEF Base
  <2> QED
    BY <1>0, <1>2, <2>1, <2>4, <2>5
<1>10. CASE EndGc \/ Kill
  BY <1>0, <1>1, <1>10, BlankIsLocal DEF EndGc, Kill
<1>11. ASSUME NEW p \in Path, WriteBack(p)
      PROVE  Kept(i, r)'
  <2>0. /\ file' = file /\ my' = my /\ file[p] \in disk[p]
        /\ disk'[p] = {file[p]} /\ \A q \in Path \ {p} : disk'[q] = disk[q]
    BY <1>11 DEF WriteBack, TypeOK
  <2> HIDE DEF Base
  <2>1. /\ \A q \in Path : file'[q] = file[q] /\ disk'[q] \subseteq disk[q]
        /\ file[i] \in disk'[i]
        /\ my' = my
    BY <1>0, <2>0
  <2>2. file'[i] = r /\ disk'[i] = {r} /\ my'.id # i
    BY <1>0, <2>1
  <2>3. \A o \in Reach({r}) : disk'[o] \subseteq disk[o] \cup {Whole, Rotten}
    BY <1>0, <2>1
  <2>4. \A c \in disk'[NextId] : c \in disk[NextId]
    BY <1>0, <2>1
  <2> QED
    BY <2>2, <2>3, <2>4, KeptFrame
<1>12. CASE PowerLoss
  <2>1. \A p \in Path : file'[p] \in disk[p] /\ disk'[p] = {file'[p]}
    BY <1>12, LossChooses
  <2>2. my'.id # i
    BY <1>0, <1>12, BlankIsLocal DEF PowerLoss
  <2> HIDE DEF Base
  <2>3. file'[i] = r /\ disk'[i] = {r}
    BY <1>0, <2>1
  <2>4. \A o \in Reach({r}) : disk'[o] \subseteq disk[o] \cup {Whole, Rotten}
    BY <1>0, <2>1
  <2>5. \A c \in disk'[NextId] : c \in disk[NextId]
    BY <1>0, <2>1
  <2> QED
    BY <2>2, <2>3, <2>4, <2>5, KeptFrame
<1>13. ASSUME NEW o \in Obj, Rot(o)
      PROVE  Kept(i, r)'
  <2>1. /\ file' = [file EXCEPT ![o] = Rotten] /\ disk' = [disk EXCEPT ![o] = {Rotten}]
        /\ my' = my
    BY <1>13 DEF Rot
  <2>2. o \in Path \ {i} /\ o # NextId
    BY <1>0
  <2> HIDE DEF Base
  <2> QED
    BY <1>0, <1>2, <2>1, <2>2
<1> QED
  BY <1>3, <1>4, <1>5, <1>6, <1>7, <1>8, <1>9, <1>10, <1>11, <1>12, <1>13
    DEF Snapshots, Collecting, Environment

\* A snapshot that is found on the disk is one the invariant keeps.
LEMMA OnDiskIsKept ==
  ASSUME NEW i \in Id, NEW r, OnDisk(i)', file'[i] = r
  PROVE  Kept(i, r)'
<1>1. /\ r \in Tree /\ disk'[i] = {r} /\ my'.id # i
      /\ \A o \in Reach({r}) : disk'[o] = {Whole}
      /\ \E n \in i + 1 .. MaxId + 1 : disk'[NextId] = {n}
  BY DEF OnDisk, Loads
<1>2. \A c \in disk'[NextId] : c \in Nat /\ c > i
  BY <1>1, PathFacts, DurabilityAssumption
<1> QED
  BY <1>1, <1>2 DEF Kept

LEMMA SettledStep ==
  ASSUME Inv, Next
  PROVE  SettledKept'
<1>1. TypeOK' /\ Base
  BY TypeStep DEF Inv
<1>2. ASSUME NEW i \in Id, NEW r \in Tree, settled'[i] = r
      PROVE  Kept(i, r)'
  <2>1. r # Absent
    BY GraphAssumption, DurabilityAssumption
  <2>2. settled[i] = r => Kept(i, r)
    BY <2>1 DEF Inv, SettledKept, Kept
  <2>3. CASE (Snapshots \/ Collecting \/ Environment) /\ Settle(settled)
    <3>1. settled[i] = r \/ (OnDisk(i)' /\ file'[i] = r)
      BY <1>2, <2>3 DEF Settle
    <3> QED
      BY <1>1, <2>2, <2>3, <3>1, KeptStays, OnDiskIsKept
  <2>4. ASSUME NEW j \in Id, RemoveSnapshot(j), Settle([settled EXCEPT ![j] = Absent])
        PROVE  Kept(i, r)'
    <3>1. (j # i /\ settled[i] = r) \/ (OnDisk(i)' /\ file'[i] = r)
      BY <1>1, <1>2, <2>1, <2>4 DEF Settle, Base, TypeOK
    <3> QED
      BY <1>1, <2>2, <2>4, <3>1, KeptStays, OnDiskIsKept
  <2> QED
    BY <2>3, <2>4 DEF Next
<1>3. \A i \in Id : settled'[i] # Absent => settled'[i] \in Tree
  BY <1>1 DEF TypeOK
<1> QED
  BY <1>2, <1>3 DEF SettledKept, Kept

LEMMA InvStep == Inv /\ [Next]_vars => Inv'
<1>1. ASSUME Inv, Next
      PROVE  Inv'
  BY <1>1, TypeStep, CommandStep, SettledStep DEF Inv, Base
<1>2. ASSUME Inv, UNCHANGED vars
      PROVE  Inv'
  <2>1. Roots' = Roots
    BY <1>2, RootsSame DEF vars
  <2> QED
    BY <1>2, <2>1 DEF vars, Inv, Base, TypeOK, ObjectsSynced, Command, SettledKept, Kept
<1> QED
  BY <1>1, <1>2

THEOREM Invariant == Spec => []Inv
BY InitInv, InvStep, PTL DEF Spec

-----------------------------------------------------------------------------
(***************************************************************************)
(* The theorems                                                            *)
(***************************************************************************)
\* Every path holds something of its kind, and the disk may have it.
THEOREM TypeCorrect == Spec => []TypeOK
BY Invariant, PTL DEF Inv, Base

\* What put() syncs before the rename is never found torn (objects.py:276-300).
THEOREM NeverTorn == Spec => []ObjectsNeverTorn
<1>1. Inv => ObjectsNeverTorn
  BY PathFacts DEF Inv, Base, TypeOK, ObjectsSynced, ObjectsNeverTorn
<1> QED
  BY <1>1, Invariant, PTL

\* A snapshot that reached the disk outlives every power loss and collection.
THEOREM SettledSnapshotsSurvive == Spec => []SettledSurvives
<1>1. ASSUME Inv, NEW i \in Id, settled[i] # Absent
      PROVE  /\ file[i] = settled[i]
             /\ \A o \in Reach({settled[i]}) : file[o] \in {Whole, Rotten}
  <2>1. /\ file[i] = settled[i]
        /\ \A o \in Reach({settled[i]}) : disk[o] \subseteq {Whole, Rotten}
    BY <1>1 DEF Inv, SettledKept, Kept
  <2>2. \A o \in Reach({settled[i]}) : file[o] \in disk[o]
    BY <1>1, PathFacts, ReachIsObjects DEF Inv, Base, TypeOK
  <2> QED
    BY <2>1, <2>2
<1>2. Inv => SettledSurvives
  BY <1>1 DEF SettledSurvives
<1> QED
  BY <1>2, Invariant, PTL

\* A record is renamed into place over a complete set of objects.
THEOREM PublishedOverObjects == Spec => PublishedComplete
<1>1. Inv => (pc = "publish" /\ published' # published =>
                \A o \in Reach({my.root}) : file[o] # Absent)
  BY DEF Inv, Base, Command
<1> QED
  BY <1>1, Invariant, PTL DEF PublishedComplete

\* A collection deletes nothing a listed snapshot needs, whatever is damaged.
THEOREM DamageNeverSpreads == Spec => DamageStopsGc
<1> DEFINE Listed == {ListedRoot(i) : i \in {j \in Id : file[j] # Absent}}
<1>1. ASSUME Inv, [Next]_vars, pc = "sweep", faults' = faults,
             NEW o \in Reach(Listed), file'[o] = Absent
      PROVE  file[o] = Absent
  <2>1. \A j \in Id : file[j] # Absent => file[j] \in Tree
    BY <1>1, PathFacts DEF Inv, Base, TypeOK, Command
  <2>2. Listed \subseteq Roots
    BY <2>1 DEF ListedRoot, Roots, Loads
  <2>3. o \in Reach(Roots) /\ o \in Obj /\ o \notin my.todo
    BY <1>1, <2>2, ReachMonotone, ReachIsObjects DEF Inv, Base, Command
  <2>4. ASSUME NEW q \in Obj, Sweep(q)
        PROVE  file'[o] = file[o]
    BY <1>1, <2>3, <2>4, PathFacts DEF Sweep, Unlink, ReplaceSynced, Inv, Base, TypeOK
  <2>5. EndGc \/ Kill \/ (\E p \in Path : WriteBack(p)) \/ UNCHANGED vars => file' = file
    BY DEF EndGc, Kill, WriteBack, vars
  <2>6. ~PowerLoss /\ \A q \in Obj : ~Rot(q)
    BY <1>1 DEF PowerLoss, Rot, Inv, Base, TypeOK
  <2>7. /\ \A r \in Tree : ~BeginSnapshot(r)
        /\ \A q \in Obj : ~Store(q)
        /\ ~TakeId /\ ~Publish /\ ~BeginGc
        /\ \A i \in Id : ~RemoveSnapshot(i)
    BY <1>1 DEF BeginSnapshot, Store, TakeId, Publish, BeginGc, RemoveSnapshot
  <2>8. file'[o] = file[o]
    BY <1>1, <2>4, <2>5, <2>6, <2>7 DEF Next, Snapshots, Collecting, Environment
  <2> QED
    BY <1>1, <2>8
<1>2. Inv /\ [Next]_vars =>
        (pc = "sweep" /\ faults' = faults =>
           \A o \in Reach(Listed) : file'[o] = Absent => file[o] = Absent)
  BY <1>1
<1> QED
  BY <1>2, Invariant, PTL DEF DamageStopsGc, Spec

=============================================================================
