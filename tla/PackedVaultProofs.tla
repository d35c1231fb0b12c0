------------------------- MODULE PackedVaultProofs -------------------------
(***************************************************************************)
(* What a repository with packs guarantees for any objects, any number of  *)
(* packs and chains of deltas of any length, and what the commands that    *)
(* take no lock tell of it, whatever is changed beside them.               *)
(***************************************************************************)
EXTENDS Readers, ObjectGraphProofs, WellFoundedInduction

-----------------------------------------------------------------------------
(***************************************************************************)
(* Natural numbers                                                         *)
(***************************************************************************)
Less == {ss \in Nat \X Nat : ss[1] < ss[2]}

LEMMA LessWellFounded == IsWellFoundedOn(Less, Nat)
BY NatLessThanWellFounded, Zenon DEF OpToRel, Less

\* The pack that is asked first (_find_in_packs) exists: a set of names has a
\* least one.
LEMMA HasLeast ==
  ASSUME NEW S \in SUBSET Nat, S # {}
  PROVE  \E n \in S : \A m \in S : n <= m
<1>1. PICK n \in S : \A m \in S : ~ (<<m, n>> \in Less)
  BY LessWellFounded, WFMin
<1>2. \A m \in S : ~ (m < n)
  BY <1>1 DEF Less
<1>3. QED
  BY <1>2

-----------------------------------------------------------------------------
(***************************************************************************)
(* Reading a pack                                                          *)
(***************************************************************************)
\* What write_pack chooses: bases are in the pack, and go round in no circle.
Encoded(base, todo) ==
  /\ \A o \in Obj : base[o] # NoObj => o \in todo /\ base[o] \in todo
  /\ \A S \in SUBSET Obj : S # {} => \E o \in S : base[o] \notin S

\* A reader of the pack alone gets everything its index lists.
Alone(p) == p.claims \subseteq Resolved(p, {})

LEMMA EncodingsEncoded ==
  ASSUME NEW e \in Encodings
  PROVE  e \in [Obj -> Obj \cup {NoObj}] /\ Encoded(e, loose)
BY DEF Encodings, Encoded, Reach

\* Chains of deltas end: a set of entries that are not got would be closed
\* under taking bases.
LEMMA EncodedAlone ==
  ASSUME NEW p \in Pack, p.bad = {}, Encoded(p.base, p.claims)
  PROVE  Alone(p)
<1> SUFFICES ASSUME NEW S \in SUBSET p.claims, NEW x \in p.claims,
                    \A o \in p.claims \ p.bad : p.base[o] \in S \cup ({} \ p.claims) \cup {NoObj} => o \in S
             PROVE  x \in S
  BY DEF Alone, Resolved
<1>1. p.claims \in SUBSET Obj
  BY DEF Pack
<1>2. SUFFICES ASSUME p.claims \ S # {} PROVE FALSE
  OBVIOUS
<1>3. PICK o \in p.claims \ S : p.base[o] \notin p.claims \ S
  BY <1>1, <1>2 DEF Encoded
<1>4. p.base[o] \in S \cup {NoObj}
  BY <1>1, <1>3 DEF Encoded
<1>5. QED
  BY <1>3, <1>4

\* More loose files make no entry unreadable, and nothing that is loose and
\* not in the index either.
LEMMA ResolvedMonotone ==
  ASSUME NEW p, NEW few, NEW many, few \subseteq many
  PROVE  Resolved(p, few) \subseteq Resolved(p, many) \cup p.claims
         /\ Resolved(p, few) \cap p.claims \subseteq Resolved(p, many)
<1> SUFFICES ASSUME NEW x \in Resolved(p, few) \cap p.claims, NEW S \in SUBSET p.claims,
                    \A o \in p.claims \ p.bad :
                       p.base[o] \in S \cup (many \ p.claims) \cup {NoObj} => o \in S
             PROVE  x \in S
  BY DEF Resolved
<1>1. \A o \in p.claims \ p.bad :
         p.base[o] \in S \cup (few \ p.claims) \cup {NoObj} => o \in S
  OBVIOUS
<1>2. QED
  BY <1>1 DEF Resolved

\* So a pack that can be read alone can be read beside any loose files.
LEMMA AloneReads ==
  ASSUME NEW p, Alone(p), NEW inLoose
  PROVE  p.claims \subseteq Resolved(p, inLoose)
BY ResolvedMonotone DEF Alone

\* A pack is asked only for what it lists.
LEMMA ReaderClaims ==
  ASSUME NEW o, Claiming(o) # {}
  PROVE  Reader(o) \in Claiming(o)
<1>1. Claiming(o) \in SUBSET Nat
  BY DEF Claiming, Healthy, Name
<1>2. \E n \in Claiming(o) : \A m \in Claiming(o) : n <= m
  BY <1>1, HasLeast
<1>3. QED
  BY <1>2 DEF Reader

\* Nothing that is not listed can be read.
LEMMA OnlyListedReads == Readable \subseteq Listed
<1>1. ASSUME NEW o \in Readable, Claiming(o) # {} PROVE o \in Listed
  BY <1>1 DEF Claiming, Listed
<1>2. ASSUME NEW o \in Readable, Claiming(o) = {} PROVE o \in Listed
  BY <1>2 DEF Readable, Listed
<1>3. QED
  BY <1>1, <1>2

\* Where every healthy pack can be read alone, everything listed reads.
LEMMA ListedReads ==
  ASSUME TypeOK, \A n \in Healthy : Alone(packs[n])
  PROVE  Readable = Listed
<1> SUFFICES ASSUME NEW o \in Obj, o \in Listed
             PROVE  o \in Readable
  <2>1. Listed \subseteq Obj
    BY DEF Listed, Healthy, TypeOK, Pack
  <2>2. QED
    BY <2>1, OnlyListedReads
<1>1. CASE Claiming(o) = {}
  BY <1>1 DEF Readable, Listed, Claiming
<1>2. CASE Claiming(o) # {}
  <2>1. Reader(o) \in Claiming(o)
    BY <1>2, ReaderClaims
  <2>2. Reader(o) \in Healthy /\ o \in packs[Reader(o)].claims
    BY <2>1 DEF Claiming
  <2>3. o \in Resolved(packs[Reader(o)], loose)
    BY <2>2, AloneReads
  <2>4. QED
    BY <1>2, <2>2, <2>3 DEF Readable
<1>3. QED
  BY <1>1, <1>2

-----------------------------------------------------------------------------
(***************************************************************************)
(* Types                                                                   *)
(***************************************************************************)
LEMMA BlankTyped ==
  /\ NoBases \in BaseMap
  /\ NoPack \in Pack
  /\ Blank \in Local
BY PackAssumption DEF NoBases, BaseMap, NoPack, Pack, Blank, Local

LEMMA InitTyped == Init => TypeOK
BY BlankTyped DEF Init, TypeOK, Pc

LEMMA MisfitsTyped ==
  ASSUME TypeOK, my.name \in Name, NEW whole \in BOOLEAN,
         NEW p \in Misfits(packs[my.name], whole)
  PROVE  p \in Pack
<1> DEFINE old == packs[my.name]
<1>1. old \in Pack /\ my.base \in BaseMap
  BY DEF TypeOK, Local
<1>2. \A B \in SUBSET Obj :
        [old EXCEPT !.index = "usable", !.bad = B,
                    !.base = [o \in Obj |-> IF o \in B THEN old.base[o] ELSE my.base[o]]] \in Pack
  BY <1>1 DEF Pack, BaseMap
<1>3. [old EXCEPT !.index = "outside"] \in Pack
  BY <1>1 DEF Pack
<1>4. old.claims \in SUBSET Obj
  BY <1>1 DEF Pack
<1>5. \A B \in SUBSET old.claims : B \in SUBSET Obj
  BY <1>4
<1>6. CASE old.index = "none"
  BY <1>1, <1>6 DEF Misfits
<1>7. CASE old.index # "none"
  <2> DEFINE usable(B) == [old EXCEPT !.index = "usable", !.bad = B,
                    !.base = [o \in Obj |-> IF o \in B THEN @[o] ELSE my.base[o]]]
  <2>1. p = [old EXCEPT !.index = "outside"] \/ \E B \in SUBSET old.claims : p = usable(B)
    BY <1>7 DEF Misfits
  <2>2. \A B \in SUBSET old.claims : usable(B) \in Pack
    BY <1>2, <1>5
  <2> HIDE DEF usable
  <2>3. QED
    BY <1>3, <2>1, <2>2
<1>8. QED
  BY <1>6, <1>7

LEMMA NewContentTyped ==
  ASSUME TypeOK, my.name \in Name, NEW whole \in BOOLEAN, NewContent(whole)
  PROVE  packs' \in [Name -> Pack]
<1>1. PICK p \in Misfits(packs[my.name], whole) :
        packs' = [packs EXCEPT ![my.name] = [p EXCEPT !.file = TRUE]]
  BY DEF NewContent
<1>2. [p EXCEPT !.file = TRUE] \in Pack
  BY MisfitsTyped DEF Pack
<1>3. QED
  BY <1>1, <1>2 DEF TypeOK

LEMMA NextTyped == TypeOK /\ [Next]_vars => TypeOK'
<1> SUFFICES ASSUME TypeOK, [Next]_vars PROVE TypeOK'
  OBVIOUS
<1> USE PackAssumption, GraphAssumption, BlankTyped DEF TypeOK, Pc
<1>1. CASE UNCHANGED vars
  BY <1>1 DEF vars
<1>2. CASE Snapshots
  <2>1. \A r \in Tree : Reach({r}) \in SUBSET Obj
    BY DEF Reach
  <2>2. QED
    BY <1>2, <2>1 DEF Snapshots, TakeSnapshot, InterruptSnapshot, RemoveSnapshot
<1>3. ASSUME NEW n \in Name, BeginPack(n) PROVE TypeOK'
  <2>1. PICK e \in Encodings : my' = [Blank EXCEPT !.name = n, !.todo = loose, !.base = e]
    BY <1>3 DEF BeginPack
  <2>2. e \in BaseMap
    BY EncodingsEncoded DEF BaseMap
  <2>3. my' \in Local /\ my'.name \in Name
    <3>1. my' = [name |-> n, todo |-> loose, base |-> e, temp |-> FALSE]
      BY <2>1 DEF Blank
    <3>2. n \in 0 .. MaxPack
      BY DEF Name
    <3>3. QED
      BY <2>2, <3>1, <3>2 DEF Local
  <2>4. QED
    BY <1>3, <2>3 DEF BeginPack
<1>4. CASE OpenPack
  BY <1>4, NewContentTyped DEF OpenPack
<1>5. CASE WriteEntries
  BY <1>5, NewContentTyped DEF WriteEntries
<1>6. CASE CutIndex
  BY <1>6 DEF CutIndex, Pack
<1>7. CASE WriteIndex
  <2>1. packs' \in [Name -> Pack]
    BY <1>7 DEF WriteIndex, Indexed, Pack, Local
  <2>2. QED
    BY <1>7, <2>1 DEF WriteIndex
<1>8. CASE CutManifest
  BY <1>8 DEF CutManifest, Pack
<1>9. CASE WriteManifest
  BY <1>9 DEF WriteManifest, Pack, Local
<1>10. CASE Verify \/ EndPack \/ SweepHitsTemp \/ EndGc \/ Crash
  BY <1>10 DEF Verify, EndPack, SweepHitsTemp, EndGc, Crash
<1>11. ASSUME NEW o \in Obj, Prune(o) \/ Sweep(o) PROVE TypeOK'
  BY <1>11 DEF Prune, Sweep, Local
<1>12. CASE BeginGc
  <2>1. Listed \in SUBSET Obj
    BY DEF Listed, Healthy, Pack
  <2>2. PICK m \in Manifest : my' = [Blank EXCEPT !.todo = Listed \ Expand(m), !.temp = litter]
    BY <1>12 DEF BeginGc
  <2>3. my' \in Local
    BY <2>1, <2>2 DEF Local, Blank
  <2>4. QED
    BY <1>12, <2>3 DEF BeginGc
<1>13. QED
  BY <1>1, <1>2, <1>3, <1>4, <1>5, <1>6, <1>7, <1>8, <1>9, <1>10, <1>11, <1>12
     DEF Next, Packing, Collecting

\* The files of every pack and the locals of the command keep their types,
\* also where a pack is written over another one (cmd_pack).
THEOREM PackTyping == Spec => []TypeOK
BY InitTyped, NextTyped, PTL DEF Spec

-----------------------------------------------------------------------------
(***************************************************************************)
(* The invariant.  Without a reused name the packs are always Sound: a     *)
(* pack is either without index or self-contained, and its manifest says   *)
(* nothing or what the index says.  Over a reused name the old index       *)
(* stands for a moment over new content; from the new index on the pack    *)
(* being written is Alone in either case.                                  *)
(***************************************************************************)
Sound(p) ==
  /\ p.bad = {} /\ p.index # "outside"
  /\ p.index = "none" => p.claims = {}
  /\ Encoded(p.base, p.claims)
  /\ p.manifest \in {NoBases, p.base}

PacksInv ==
  /\ \A n \in Name : ~ packs[n].file => packs[n] = NoPack
  /\ ~ reused => \A n \in Name : Sound(packs[n])
  /\ reused => \A n \in Name : packs[n].file => n <= MaxReused

Written == {"entries", "cutIndex", "index", "cutManifest", "manifest", "verify"}

WriterInv ==
  /\ pc \in Written \cup {"open"} => my.todo \subseteq loose /\ Encoded(my.base, my.todo)
  /\ pc = "open" =>
       IF packs[my.name].file THEN \A n \in Name : packs[n].file => n <= MaxReused ELSE ~ reused
  /\ pc \in Written \cup {"prune"} => packs[my.name].file
  /\ pc \in {"entries", "cutIndex", "index"} /\ ~ reused =>
       packs[my.name].index = "none" /\ packs[my.name].manifest = NoBases
  /\ pc = "index" => packs[my.name].bad = {}
  /\ pc \in {"cutManifest", "manifest", "verify"} =>
       /\ packs[my.name].index = "usable" /\ packs[my.name].bad = {}
       /\ packs[my.name].claims = my.todo /\ packs[my.name].base = my.base
  /\ pc = "prune" =>
       /\ packs[my.name].index = "usable"
       /\ my.todo \subseteq packs[my.name].claims
       /\ Alone(packs[my.name])
  /\ pc = "sweep" => my.todo \cap Reach(live) = {}

LEMMA NothingEncoded == \A todo : Encoded(NoBases, todo)
BY PackAssumption DEF Encoded, NoBases

LEMMA NoPackSound == Sound(NoPack)
BY NothingEncoded DEF Sound, NoPack

LEMMA InitPacks == Init => PacksInv /\ WriterInv
BY NoPackSound DEF Init, PacksInv, WriterInv, Written

\* Steps that leave the packs alone.
LEMMA PacksFrame ==
  ASSUME PacksInv, UNCHANGED <<packs, reused>>
  PROVE  PacksInv'
BY DEF PacksInv, Sound

LEMMA StepSnapshots ==
  ASSUME TypeOK, PacksInv, WriterInv, Snapshots
  PROVE  PacksInv' /\ WriterInv'
<1>1. pc = "idle" /\ pc' = "idle" /\ UNCHANGED <<packs, reused>>
  BY DEF Snapshots, TakeSnapshot, InterruptSnapshot, RemoveSnapshot
<1>2. QED
  BY <1>1, PacksFrame DEF WriterInv, Written

LEMMA StepEnds ==
  ASSUME TypeOK, PacksInv, WriterInv, EndPack \/ SweepHitsTemp \/ EndGc \/ Crash
  PROVE  PacksInv' /\ WriterInv'
<1>1. pc' = "idle" /\ UNCHANGED <<packs, reused>>
  BY DEF EndPack, SweepHitsTemp, EndGc, Crash
<1>2. QED
  BY <1>1, PacksFrame DEF WriterInv, Written

LEMMA StepBeginPack ==
  ASSUME TypeOK, PacksInv, WriterInv, NEW n \in Name, BeginPack(n)
  PROVE  PacksInv' /\ WriterInv'
<1>1. PICK e \in Encodings : my' = [Blank EXCEPT !.name = n, !.todo = loose, !.base = e]
  BY DEF BeginPack
<1>2. my'.name = n /\ my'.todo = loose /\ my'.base = e
  BY <1>1 DEF Blank
<1>3. pc' = "open" /\ UNCHANGED <<loose, packs, reused>>
  BY DEF BeginPack
<1>4. IF packs[n].file THEN \A m \in Name : packs[m].file => m <= MaxReused ELSE ~ reused
  BY DEF BeginPack
<1>5. Encoded(e, loose)
  BY EncodingsEncoded
<1>6. WriterInv'
  BY <1>2, <1>3, <1>4, <1>5 DEF WriterInv, Written
<1>7. QED
  BY <1>3, <1>6, PacksFrame

LEMMA StepOpenPack ==
  ASSUME TypeOK, PacksInv, WriterInv, OpenPack
  PROVE  PacksInv' /\ WriterInv'
<1> DEFINE old == packs[my.name]
<1>1. /\ pc = "open" /\ pc' = "entries" /\ my' = my /\ loose' = loose /\ my.name \in Name
      /\ reused' = (reused \/ old.file)
  BY DEF OpenPack, TypeOK
<1>2. PICK p \in Misfits(old, FALSE) : packs' = [packs EXCEPT ![my.name] = [p EXCEPT !.file = TRUE]]
  BY DEF OpenPack, NewContent
<1>3. p \in Pack
  BY <1>1, MisfitsTyped
<1>4. packs'[my.name].file /\ \A m \in Name \ {my.name} : packs'[m] = packs[m]
  BY <1>1, <1>2, <1>3 DEF TypeOK, Pack
<1>5. my.todo \subseteq loose /\ Encoded(my.base, my.todo)
  BY <1>1 DEF WriterInv
<1>6. CASE old.file
  <2>1. \A m \in Name : packs[m].file => m <= MaxReused
    BY <1>1, <1>6 DEF WriterInv
  <2>2. PacksInv'
    BY <1>1, <1>4, <1>6, <2>1 DEF PacksInv
  <2>3. WriterInv'
    BY <1>1, <1>4, <1>5, <1>6 DEF WriterInv, Written
  <2>4. QED
    BY <2>2, <2>3
<1>7. CASE ~ old.file
  <2>1. old = NoPack /\ ~ reused /\ ~ reused'
    BY <1>1, <1>7 DEF PacksInv, WriterInv
  <2>2. p = NoPack
    BY <1>2, <2>1 DEF Misfits, NoPack
  <2>3. packs'[my.name] = [NoPack EXCEPT !.file = TRUE]
    BY <1>1, <1>2, <2>2 DEF TypeOK
  <2>4. Sound(packs'[my.name]) /\ packs'[my.name].index = "none" /\ packs'[my.name].manifest = NoBases
    BY <2>3, NothingEncoded DEF Sound, NoPack
  <2>5. PacksInv'
    BY <1>4, <2>1, <2>4 DEF PacksInv
  <2>6. WriterInv'
    BY <1>1, <1>4, <1>5, <2>1, <2>4 DEF WriterInv, Written
  <2>7. QED
    BY <2>5, <2>6
<1>8. QED
  BY <1>6, <1>7

LEMMA StepWriteEntries ==
  ASSUME TypeOK, PacksInv, WriterInv, WriteEntries
  PROVE  PacksInv' /\ WriterInv'
<1> DEFINE old == packs[my.name]
<1>1. CASE litter
  <2>1. pc' = "idle" /\ UNCHANGED <<packs, reused>>
    BY <1>1 DEF WriteEntries
  <2>2. QED
    BY <2>1, PacksFrame DEF WriterInv, Written
<1>2. CASE ~ litter
  <2>1. /\ pc = "entries" /\ pc' = "cutIndex" /\ UNCHANGED <<my, loose, reused>>
        /\ my.name \in Name /\ old.file
    BY <1>2 DEF WriteEntries, TypeOK, WriterInv, Written
  <2>2. PICK p \in Misfits(old, TRUE) : packs' = [packs EXCEPT ![my.name] = [p EXCEPT !.file = TRUE]]
    BY <1>2 DEF WriteEntries, NewContent
  <2>3. p \in Pack
    BY <2>1, MisfitsTyped
  <2>4. packs'[my.name].file /\ \A m \in Name \ {my.name} : packs'[m] = packs[m]
    BY <2>1, <2>2, <2>3 DEF TypeOK, Pack
  <2>5. my.todo \subseteq loose /\ Encoded(my.base, my.todo)
    BY <2>1 DEF WriterInv, Written
  <2>6. CASE reused
    BY <2>1, <2>4, <2>5, <2>6 DEF PacksInv, WriterInv, Written
  <2>7. CASE ~ reused
    <3>1. old.index = "none" /\ p = old
      BY <2>1, <2>2, <2>7 DEF WriterInv, Misfits
    <3>2. packs'[my.name] = [old EXCEPT !.file = TRUE]
      BY <2>1, <2>2, <3>1 DEF TypeOK
    <3>3. packs' = packs
      <4>1. old \in Pack /\ packs \in [Name -> Pack]
        BY <2>1 DEF TypeOK
      <4>2. [old EXCEPT !.file = TRUE] = old
        BY <2>1, <4>1 DEF Pack
      <4>3. QED
        BY <2>1, <2>2, <3>1, <4>1, <4>2
    <3>4. QED
      BY <2>1, <2>5, <2>7, <3>3, PacksFrame DEF WriterInv, Written
  <2>8. QED
    BY <2>6, <2>7
<1>3. QED
  BY <1>1, <1>2

LEMMA StepCutIndex ==
  ASSUME TypeOK, PacksInv, WriterInv, CutIndex
  PROVE  PacksInv' /\ WriterInv'
<1> DEFINE old == packs[my.name]
           new == [old EXCEPT !.index = "none", !.claims = {}, !.bad = {}, !.base = NoBases]
<1>1. /\ pc = "cutIndex" /\ pc' = "index" /\ UNCHANGED <<my, loose, reused>>
      /\ my.name \in Name /\ old.file /\ old \in Pack
  BY DEF CutIndex, TypeOK, WriterInv, Written
<1>2. packs'[my.name] = new /\ \A m \in Name \ {my.name} : packs'[m] = packs[m]
  BY <1>1 DEF CutIndex, TypeOK
<1>3. /\ new.file /\ new.index = "none" /\ new.claims = {} /\ new.bad = {}
      /\ new.base = NoBases /\ new.manifest = old.manifest
  BY <1>1 DEF Pack
<1> HIDE DEF new
<1>4. my.todo \subseteq loose /\ Encoded(my.base, my.todo)
  BY <1>1 DEF WriterInv, Written
<1>5. ~ reused => old.manifest = NoBases
  BY <1>1 DEF WriterInv
<1>6. ~ reused => Sound(new)
  BY <1>3, <1>5, NothingEncoded DEF Sound
<1>7. PacksInv'
  BY <1>1, <1>2, <1>3, <1>6 DEF PacksInv
<1>8. WriterInv'
  BY <1>1, <1>2, <1>3, <1>4, <1>5 DEF WriterInv, Written
<1>9. QED
  BY <1>7, <1>8

LEMMA StepWriteIndex ==
  ASSUME TypeOK, PacksInv, WriterInv, WriteIndex
  PROVE  PacksInv' /\ WriterInv'
<1> DEFINE old == packs[my.name]
           new == [old EXCEPT !.index = "usable", !.claims = my.todo, !.base = my.base]
<1>1. /\ pc = "index" /\ pc' = "cutManifest" /\ UNCHANGED <<my, loose, reused>>
      /\ my.name \in Name /\ old.file /\ old \in Pack
  BY DEF WriteIndex, TypeOK, WriterInv, Written
<1>2. packs'[my.name] = new /\ \A m \in Name \ {my.name} : packs'[m] = packs[m]
  BY <1>1 DEF WriteIndex, Indexed, TypeOK
<1>3. /\ new.file /\ new.index = "usable" /\ new.claims = my.todo /\ new.bad = {}
      /\ new.base = my.base /\ new.manifest = old.manifest
  BY <1>1 DEF Pack, WriterInv
<1> HIDE DEF new
<1>4. my.todo \subseteq loose /\ Encoded(my.base, my.todo)
  BY <1>1 DEF WriterInv, Written
<1>5. ~ reused => old.manifest = NoBases
  BY <1>1 DEF WriterInv
<1>6. ~ reused => Sound(new)
  BY <1>3, <1>4, <1>5 DEF Sound
<1>7. PacksInv'
  BY <1>1, <1>2, <1>3, <1>6 DEF PacksInv
<1>8. WriterInv'
  BY <1>1, <1>2, <1>3, <1>4 DEF WriterInv, Written
<1>9. QED
  BY <1>7, <1>8

LEMMA StepManifest ==
  ASSUME TypeOK, PacksInv, WriterInv, CutManifest \/ WriteManifest
  PROVE  PacksInv' /\ WriterInv'
<1> DEFINE old == packs[my.name]
<1>1. /\ pc \in {"cutManifest", "manifest"} /\ pc' \in {"manifest", "verify"}
      /\ UNCHANGED <<my, loose, reused>>
      /\ my.name \in Name /\ old.file /\ old \in Pack
  BY DEF CutManifest, WriteManifest, TypeOK, WriterInv, Written
<1>2. PICK m \in {NoBases, my.base} : packs' = [packs EXCEPT ![my.name].manifest = m]
  BY DEF CutManifest, WriteManifest
<1>3. packs'[my.name] = [old EXCEPT !.manifest = m] /\ \A n \in Name \ {my.name} : packs'[n] = packs[n]
  BY <1>1, <1>2 DEF TypeOK
<1> DEFINE new == packs'[my.name]
<1>4. /\ new.file = old.file /\ new.index = old.index /\ new.claims = old.claims /\ new.bad = old.bad
      /\ new.base = old.base /\ new.manifest = m
  BY <1>1, <1>3 DEF Pack
<1>5. /\ old.index = "usable" /\ old.bad = {} /\ old.claims = my.todo /\ old.base = my.base
      /\ my.todo \subseteq loose /\ Encoded(my.base, my.todo)
  BY <1>1 DEF WriterInv, Written
<1> HIDE DEF new
<1>6. Sound(new)
  BY <1>4, <1>5 DEF Sound
<1> USE DEF new
<1>7. PacksInv'
  BY <1>1, <1>3, <1>4, <1>6 DEF PacksInv
<1>8. WriterInv'
  BY <1>1, <1>3, <1>4, <1>5 DEF WriterInv, Written
<1>9. QED
  BY <1>7, <1>8

LEMMA StepVerify ==
  ASSUME TypeOK, PacksInv, WriterInv, Verify
  PROVE  PacksInv' /\ WriterInv'
<1>1. pc = "verify" /\ UNCHANGED <<packs, loose, reused>> /\ my.name \in Name
  BY DEF Verify, TypeOK
<1>2. CASE pc' = "idle"
  BY <1>1, <1>2, PacksFrame DEF WriterInv, Written
<1>3. CASE pc' = "prune" /\ my' = my
  <2> DEFINE p == packs[my.name]
  <2>1. /\ p.file /\ p.index = "usable" /\ p.bad = {} /\ p.claims = my.todo /\ p.base = my.base
        /\ Encoded(my.base, my.todo)
    BY <1>1 DEF WriterInv, Written
  <2>2. p \in Pack
    BY <1>1 DEF TypeOK
  <2>3. Encoded(p.base, p.claims)
    BY <2>1
  <2> HIDE DEF p
  <2>4. Alone(p)
    BY <2>1, <2>2, <2>3, EncodedAlone
  <2> USE DEF p
  <2>5. WriterInv'
    BY <1>1, <1>3, <2>1, <2>4 DEF WriterInv, Written
  <2>6. QED
    BY <1>1, <2>5, PacksFrame
<1>4. QED
  BY <1>2, <1>3 DEF Verify

LEMMA StepPrune ==
  ASSUME TypeOK, PacksInv, WriterInv, NEW o \in Obj, Prune(o)
  PROVE  PacksInv' /\ WriterInv'
<1>1. /\ pc = "prune" /\ pc' = "prune" /\ UNCHANGED <<packs, reused>>
      /\ my'.name = my.name /\ my'.todo = my.todo \ {o}
  BY DEF Prune, TypeOK, Local
<1>2. QED
  BY <1>1, PacksFrame DEF WriterInv, Written

LEMMA StepBeginGc ==
  ASSUME TypeOK, PacksInv, WriterInv, BeginGc
  PROVE  PacksInv' /\ WriterInv'
<1>1. pc' = "sweep" /\ UNCHANGED <<packs, reused, live>>
  BY DEF BeginGc
<1>2. PICK m \in Manifest : my' = [Blank EXCEPT !.todo = Listed \ Expand(m), !.temp = litter]
  BY DEF BeginGc
<1>3. my'.todo = Listed \ Expand(m)
  BY <1>2 DEF Blank
<1>4. Reach(live) \subseteq Expand(m)
  BY DEF Expand, Reach
<1>5. WriterInv'
  BY <1>1, <1>3, <1>4 DEF WriterInv, Written
<1>6. QED
  BY <1>1, <1>5, PacksFrame

LEMMA StepSweep ==
  ASSUME TypeOK, PacksInv, WriterInv, NEW o \in Obj, Sweep(o)
  PROVE  PacksInv' /\ WriterInv'
<1>1. /\ pc = "sweep" /\ pc' = "sweep" /\ UNCHANGED <<packs, reused, live>>
      /\ my'.todo = my.todo \ {o}
  BY DEF Sweep, TypeOK, Local
<1>2. QED
  BY <1>1, PacksFrame DEF WriterInv, Written

LEMMA NextPacks ==
  TypeOK /\ PacksInv /\ WriterInv /\ [Next]_vars => PacksInv' /\ WriterInv'
<1>1. CASE UNCHANGED vars
  BY <1>1 DEF vars, PacksInv, Sound, WriterInv, Written
<1>2. QED
  BY <1>1, StepSnapshots, StepEnds, StepBeginPack, StepOpenPack, StepWriteEntries,
     StepCutIndex, StepWriteIndex, StepManifest, StepVerify, StepPrune, StepBeginGc, StepSweep
     DEF Next, Packing, Collecting

-----------------------------------------------------------------------------
(***************************************************************************)
(* What can be read                                                        *)
(***************************************************************************)
\* While every pack has a name of its own, what is listed can be read.
LEMMA SoundReads ==
  ASSUME TypeOK, PacksInv, ~ reused
  PROVE  /\ \A n \in Healthy : Alone(packs[n])
         /\ Readable = Listed
<1>1. ASSUME NEW n \in Healthy PROVE Alone(packs[n])
  <2>1. n \in Name /\ packs[n] \in Pack /\ Sound(packs[n])
    BY DEF Healthy, TypeOK, PacksInv
  <2>2. QED
    BY <2>1, EncodedAlone DEF Sound
<1>2. QED
  BY <1>1, ListedReads

\* What is pruned is in the pack that was verified.
LEMMA PruneListed ==
  ASSUME TypeOK, WriterInv, NEW o \in Obj, Prune(o)
  PROVE  Listed \subseteq Listed'
<1>1. /\ my.name \in Healthy /\ o \in packs[my.name].claims
      /\ loose' = loose \ {o} /\ packs' = packs
  BY DEF Prune, WriterInv, Healthy, TypeOK
<1>2. QED
  BY <1>1 DEF Listed, Healthy

\* No step but those of a collection takes anything off the list.
LEMMA NothingUnlisted ==
  ASSUME TypeOK, PacksInv, WriterInv, ~ reused', Next, pc # "sweep"
  PROVE  Listed \subseteq Listed'
<1> DEFINE Keeps == /\ loose \subseteq loose'
                    /\ \A n \in Name : packs[n].index = "usable" =>
                         packs'[n].index = "usable" /\ packs[n].claims \subseteq packs'[n].claims
<1>1. Keeps => Listed \subseteq Listed'
  BY DEF Listed, Healthy
<1>2. CASE Snapshots \/ Verify \/ EndPack \/ SweepHitsTemp \/ EndGc \/ Crash \/ BeginGc
           \/ \E n \in Name : BeginPack(n)
  <2>1. Keeps
    BY <1>2 DEF Snapshots, TakeSnapshot, InterruptSnapshot, RemoveSnapshot, Verify, EndPack,
       SweepHitsTemp, EndGc, Crash, BeginGc, BeginPack
  <2>2. QED
    BY <1>1, <2>1
<1>3. CASE OpenPack \/ WriteEntries \/ CutIndex \/ WriteIndex
  <2> DEFINE old == packs[my.name]
  <2>1. ~ reused /\ my.name \in Name /\ loose' = loose
    BY <1>3 DEF OpenPack, WriteEntries, CutIndex, WriteIndex, TypeOK
  <2>2. old.index = "none"
    <3>1. CASE OpenPack
      <4>1. old = NoPack
        BY <2>1, <3>1 DEF OpenPack, PacksInv, WriterInv
      <4>2. QED
        BY <4>1 DEF NoPack
    <3>2. CASE WriteEntries \/ CutIndex \/ WriteIndex
      BY <2>1, <3>2 DEF WriteEntries, CutIndex, WriteIndex, WriterInv
    <3>3. QED
      BY <1>3, <3>1, <3>2
  <2>3. \A n \in Name \ {my.name} : packs'[n] = packs[n]
    BY <1>3 DEF OpenPack, WriteEntries, CutIndex, WriteIndex, NewContent, Indexed, TypeOK
  <2>4. Keeps
    BY <2>1, <2>2, <2>3
  <2>5. QED
    BY <1>1, <2>4
<1>4. CASE CutManifest \/ WriteManifest
  <2>1. Keeps
    BY <1>4 DEF CutManifest, WriteManifest, TypeOK, Pack
  <2>2. QED
    BY <1>1, <2>1
<1>5. QED
  BY <1>2, <1>3, <1>4, PruneListed DEF Next, Packing, Collecting, Sweep

LEMMA ReadsAsListed == TypeOK /\ PacksInv /\ ~ reused => Readable = Listed
BY SoundReads

LEMMA ReadsAsListedNext == TypeOK' /\ PacksInv' /\ ~ reused' => (Readable = Listed)'
BY ReadsAsListed, PTL

LEMMA InitReadable == Init => SnapshotsReadable
<1> SUFFICES ASSUME Init, NEW o \in Reach(live) PROVE o \in Readable
  BY DEF SnapshotsReadable
<1>1. live \subseteq {} /\ {} \in SUBSET Obj /\ Closed({})
  BY DEF Init, Closed
<1>2. Reach(live) \subseteq {}
  BY <1>1, ReachLeast
<1>3. QED
  BY <1>2

LEMMA NextReadable ==
  TypeOK /\ PacksInv /\ WriterInv /\ SnapshotsReadable /\ [Next]_vars => SnapshotsReadable'
<1> SUFFICES ASSUME TypeOK, PacksInv, WriterInv, SnapshotsReadable, [Next]_vars, ~ reused'
             PROVE  Reach(live') \subseteq Listed'
  <2>1. TypeOK /\ PacksInv /\ WriterInv /\ [Next]_vars => TypeOK' /\ PacksInv'
    BY NextTyped, NextPacks
  <2>2. QED
    BY <2>1, ReadsAsListedNext DEF SnapshotsReadable
<1>1. ~ reused
  BY DEF vars, Next, Snapshots, TakeSnapshot, InterruptSnapshot, RemoveSnapshot, Packing, BeginPack,
     OpenPack, WriteEntries, CutIndex, WriteIndex, CutManifest, WriteManifest, Verify, EndPack, Prune,
     Collecting, BeginGc, SweepHitsTemp, EndGc, Sweep, Crash
<1>2. Reach(live) \subseteq Listed
  BY <1>1, ReadsAsListed DEF SnapshotsReadable
<1>3. ASSUME NEW r \in Tree, TakeSnapshot(r) PROVE Reach(live') \subseteq Listed'
  <2>1. pc # "sweep" /\ live' = live \cup {r} /\ Reach({r}) \subseteq Listed'
    BY <1>3 DEF TakeSnapshot, Listed
  <2>2. Listed \subseteq Listed'
    BY <1>3, <2>1, NothingUnlisted DEF Next, Snapshots
  <2> DEFINE both == Reach(live) \cup Reach({r})
  <2>3. live \in SUBSET Obj /\ {r} \in SUBSET Obj
    BY GraphAssumption DEF TypeOK
  <2>4. both \in SUBSET Obj /\ live' \subseteq both /\ Closed(both)
    BY <2>1, <2>3, ReachHoldsRoots, ReachClosed DEF Closed, Reach
  <2>5. Reach(live') \subseteq both
    BY <2>4, ReachLeast
  <2>6. QED
    BY <1>2, <2>1, <2>2, <2>5
<1>4. ASSUME NEW o \in Obj, Sweep(o) PROVE Reach(live') \subseteq Listed'
  <2>1. o \notin Reach(live) /\ live' = live
    BY <1>4 DEF Sweep, WriterInv
  <2>2. Listed \ {o} \subseteq Listed'
    BY <1>4 DEF Sweep, Listed, Healthy
  <2>3. QED
    BY <1>2, <2>1, <2>2
<1>5. ASSUME live' \subseteq live, Listed \subseteq Listed' PROVE Reach(live') \subseteq Listed'
  <2>1. Reach(live') \subseteq Reach(live)
    BY <1>5, ReachMonotone
  <2>2. QED
    BY <1>2, <1>5, <2>1
<1>6. CASE SweepHitsTemp \/ EndGc \/ Crash \/ UNCHANGED vars
  <2>1. live' = live /\ Listed' = Listed
    BY <1>6 DEF SweepHitsTemp, EndGc, Crash, vars, Listed, Healthy
  <2>2. QED
    BY <1>5, <2>1
<1>7. CASE Packing \/ BeginGc
           \/ \E r \in Tree : RemoveSnapshot(r) \/ \E stored \in SUBSET Reach({r}) : InterruptSnapshot(r, stored)
  <2>1. pc # "sweep" /\ live' \subseteq live
    BY <1>7 DEF RemoveSnapshot, InterruptSnapshot, BeginGc, Packing, BeginPack, OpenPack, WriteEntries,
       CutIndex, WriteIndex, CutManifest, WriteManifest, Verify, EndPack, Prune
  <2>2. Listed \subseteq Listed'
    BY <1>7, <2>1, NothingUnlisted DEF Next, Snapshots, Collecting
  <2>3. QED
    BY <1>5, <2>1, <2>2
<1>8. QED
  BY <1>3, <1>4, <1>6, <1>7 DEF Next, Snapshots, Collecting

\* Until a pack is written over another one, every object of every snapshot
\* can be read through the packs, at every moment of a pack, a collection or
\* what a kill left of them.
THEOREM SnapshotsStayReadable == Spec => []SnapshotsReadable
BY InitTyped, InitPacks, InitReadable, NextTyped, NextPacks, NextReadable, PTL DEF Spec

\* A healthy pack needs nothing from outside itself, whatever the length of
\* its chains of deltas.
THEOREM PacksStandAlone == Spec => []PacksSelfContained
<1>1. TypeOK /\ PacksInv => PacksSelfContained
  BY SoundReads DEF PacksSelfContained, Alone
<1>2. QED
  BY <1>1, InitTyped, InitPacks, NextTyped, NextPacks, PTL DEF Spec

\* Only a collection makes an object unreadable: `vault pack`, with its
\* truncations and deletions, never does, whatever moment it is killed at.
THEOREM PackingForgetsNothing == Spec => OnlyGcForgets
<1>1. TypeOK /\ PacksInv /\ WriterInv /\ [Next]_vars => [pc # "sweep" /\ ~ reused' => NothingLost]_vars
  <2> SUFFICES ASSUME TypeOK, PacksInv, WriterInv, Next, pc # "sweep", ~ reused'
               PROVE  Readable \subseteq Readable'
    BY DEF NothingLost
  <2>1. Listed \subseteq Listed'
    BY NothingUnlisted
  <2>2. Readable' = Listed'
    BY NextTyped, NextPacks, ReadsAsListedNext
  <2>3. Readable \subseteq Listed
    BY OnlyListedReads
  <2>4. QED
    BY <2>1, <2>2, <2>3
<1>2. QED
  BY <1>1, InitTyped, InitPacks, NextTyped, NextPacks, PTL DEF Spec, OnlyGcForgets

-----------------------------------------------------------------------------
(***************************************************************************)
(* Verification, pruning, audit                                            *)
(***************************************************************************)
\* While a pack is pruned every healthy pack is Alone: over a name used again
\* it is the only one.
OneReused == MaxReused <= 1

LEMMA PruningReads ==
  OneReused /\ TypeOK /\ PacksInv /\ WriterInv /\ pc = "prune" => Readable = Listed
<1> SUFFICES ASSUME OneReused, TypeOK, PacksInv, WriterInv, pc = "prune"
             PROVE  Readable = Listed
  OBVIOUS
<1>1. CASE ~ reused
  BY <1>1, SoundReads
<1>2. CASE reused
  <2>1. my.name \in Name /\ packs[my.name].file /\ Alone(packs[my.name])
    BY DEF TypeOK, WriterInv
  <2>2. ASSUME NEW n \in Name, packs[n].file PROVE n = 1
    BY <1>2, <2>2, PackAssumption DEF PacksInv, Name, OneReused
  <2>3. ASSUME NEW n \in Healthy PROVE n = my.name
    <3>1. n \in Name /\ packs[n].file
      BY DEF Healthy, PacksInv, NoPack
    <3>2. QED
      BY <2>1, <2>2, <3>1
  <2>4. \A n \in Healthy : Alone(packs[n])
    BY <2>1, <2>3
  <2>5. QED
    BY <2>4, ListedReads
<1>3. QED
  BY <1>1, <1>2

LEMMA PruningReadsNext ==
  OneReused' /\ TypeOK' /\ PacksInv' /\ WriterInv' /\ (pc = "prune")' => (Readable = Listed)'
BY PruningReads, PTL

\* Verify-before-delete: the deletions of `vault pack` make nothing
\* unreadable, not even over the index that a killed pack of the same name
\* left behind, as long as at most one name is ever used again.
THEOREM PruningKeeps ==
  ASSUME OneReused
  PROVE  Spec => PruneKeeps
<1>1. TypeOK /\ PacksInv /\ WriterInv /\ [Next]_vars => [pc = "prune" => NothingLost]_vars
  <2> SUFFICES ASSUME TypeOK, PacksInv, WriterInv, Next, pc = "prune"
               PROVE  NothingLost
    OBVIOUS
  <2>1. ASSUME NEW o \in Obj, Prune(o) PROVE NothingLost
    <3>1. TypeOK' /\ PacksInv' /\ WriterInv' /\ pc' = "prune"
      BY <2>1, NextTyped, NextPacks DEF Prune
    <3>2. Readable' = Listed'
      BY <3>1, PruningReadsNext DEF OneReused
    <3>3. Listed \subseteq Listed'
      BY <2>1, PruneListed
    <3>4. QED
      BY <3>2, <3>3, OnlyListedReads DEF NothingLost
  <2>2. CASE EndPack \/ Crash
    BY <2>2 DEF EndPack, Crash, NothingLost
  <2>3. QED
    BY <2>1, <2>2 DEF Next, Snapshots, TakeSnapshot, InterruptSnapshot, RemoveSnapshot, Packing, BeginPack,
       OpenPack, WriteEntries, CutIndex, WriteIndex, CutManifest, WriteManifest, Verify,
       Collecting, BeginGc, SweepHitsTemp, EndGc, Sweep
<1>2. QED
  BY <1>1, InitTyped, InitPacks, NextTyped, NextPacks, PTL DEF Spec, PruneKeeps

\* The base that a manifest gives is in the pack that the manifest belongs to.
LEMMA ManifestListed ==
  ASSUME TypeOK, PacksInv, ~ reused, NEW m \in Manifest, NEW o \in Obj, m[o] # NoObj
  PROVE  m[o] \in Listed
<1>1. PICK n \in Name : packs[n].manifest[o] = m[o]
  BY DEF Manifest
<1>2. Sound(packs[n]) /\ packs[n] \in Pack
  BY DEF PacksInv, TypeOK
<1>3. packs[n].base[o] = m[o]
  BY <1>1, <1>2 DEF Sound, NoBases
<1>4. m[o] \in packs[n].claims
  BY <1>2, <1>3 DEF Sound, Encoded
<1>5. n \in Healthy
  BY <1>2, <1>4 DEF Sound, Healthy, Pack
<1>6. QED
  BY <1>4, <1>5 DEF Listed

\* The audit of recover-check finds something to report exactly when the
\* snapshot cannot be restored, whatever deltas and half-written packs there
\* are.
THEOREM AuditTells == Spec => []RecoverCheckTells
<1>1. TypeOK /\ PacksInv => RecoverCheckTells
  <2> SUFFICES ASSUME TypeOK, PacksInv, ~ reused, NEW r \in live, NEW m \in Manifest,
                      Reach({r}) \subseteq Readable
               PROVE  RecoverCheck(r, m)
    BY DEF RecoverCheckTells, RecoverCheck
  <2>1. Readable = Listed
    BY SoundReads
  <2>2. Reach({r}) \subseteq Obj
    BY DEF Reach
  <2>3. QED
    BY <2>1, <2>2, ManifestListed DEF RecoverCheck
<1>2. QED
  BY <1>1, InitTyped, InitPacks, NextTyped, NextPacks, PTL DEF Spec

-----------------------------------------------------------------------------
(***************************************************************************)
(* Readers: the invariant.  Nothing that the repository lists is missing   *)
(* from what the reader has in view, finds loose or had taken from it.     *)
(***************************************************************************)
Working == {"reading", "objects"}

Known == loose \cup hist.taken \cup UNION {packs[n].claims : n \in rd.view \cup rd.pending}

ViewInv ==
  /\ ~ reused
  /\ phase # "off" => Listed \subseteq Known
  /\ rd.todo \cup Reach(rd.roots) \subseteq Known
  /\ phase # "open" => rd.pending = {}
  /\ hist.kept \subseteq live
  /\ rd.temp => litter

\* Where the reader is, and in which command.
PhaseInv ==
  /\ phase = "off" => rd = NoLocals /\ hist = NoHist /\ cmd = "none"
  /\ phase \in {"off", "open", "ids"} =>
       rd.ids = {} /\ rd.roots = {} /\ rd.todo = {} /\ rd.seen = {} /\ rd.bad = {} /\ ~ rd.temp
  /\ phase = "open" => cmd \in {"none", "serve"}
  /\ phase = "ids" => cmd = "trace"
  /\ phase = "reading" => cmd \notin {"verify", "none", "serve"}
  /\ phase = "objects" => cmd \in {"status", "verify"} /\ rd.ids = {}
  /\ phase = "done" => (rd.ids = {} /\ rd.todo = {}) \/ (cmd = "recover" /\ rd.bad # {})

QuietInv == hist.quiet =>
  /\ hist.taken = {}
  /\ rd.ids \cup rd.roots \subseteq hist.kept
  /\ phase \notin {"off", "open"} => hist.kept = live

AlarmInv ==
  /\ AlarmsExplained
  /\ phase = "failed" => rd.bad # {} \/ rd.temp
  /\ cmd \notin {"verify", "recover"} /\ phase # "failed" => rd.bad = {}

\* The entries that a walk goes on to, and the objects it has met.
Entered(o) == IF cmd \in {"diff", "trace"} THEN Kids[o] \cap Tree ELSE Kids[o]
Met == rd.seen \cup rd.todo \cup rd.bad

WalkInv ==
  /\ cmd \in Walks => rd.todo \cup rd.seen \subseteq Reach(rd.roots)
  /\ cmd \in {"diff", "trace"} => rd.todo \cup rd.seen \subseteq Tree
  /\ cmd \in Walks /\ (phase = "reading" \/ (phase = "done" /\ rd.ids = {})) =>
       rd.roots \subseteq Met /\ \A o \in rd.seen : Entered(o) \subseteq Met
  /\ cmd \in {"show", "diff", "recover"} /\ phase \in Working \cup {"done"} =>
       rd.of = rd.roots \cup rd.ids \/ rd.bad # {}
  /\ cmd \in Whole /\ phase \in Working \cup {"done"} => hist.kept \subseteq rd.roots \cup rd.ids
  /\ cmd = "verify" => Reach(hist.kept) \subseteq rd.seen \cup rd.todo \cup hist.taken
  /\ cmd = "trace" => \E o \in Obj : rd.of = {o} /\ (hist.quiet /\ rd.found => Has(o))

ReadInv == ViewInv /\ PhaseInv /\ QuietInv /\ AlarmInv /\ WalkInv

PackInv == TypeOK /\ PacksInv /\ WriterInv

-----------------------------------------------------------------------------
\* What the reader's store has, it gets: a pack in view can be read alone.
LEMMA GetsIsHas ==
  ASSUME ReaderTypeOK, PacksInv, ~ reused, NEW o \in Obj
  PROVE  Gets(o) <=> Has(o)
<1> DEFINE listing == {n \in rd.view : o \in packs[n].claims}
<1>1. CASE listing = {}
  BY <1>1 DEF Gets, Has, InView
<1>2. CASE listing # {}
  <2> DEFINE first == CHOOSE n \in listing : \A m \in listing : n <= m
  <2>1. listing \in SUBSET Nat
    BY DEF ReaderTypeOK, Locals, Name
  <2>2. first \in listing
    BY <1>2, <2>1, HasLeast
  <2>3. first \in Healthy /\ o \in packs[first].claims
    BY <2>2 DEF ReaderTypeOK
  <2> HIDE DEF first
  <2>4. o \in Resolved(packs[first], loose)
    BY <2>3, SoundReads, AloneReads DEF ReaderTypeOK
  <2> USE DEF first
  <2>5. QED
    BY <1>2, <2>4 DEF Gets, Has, InView
<1>3. QED
  BY <1>1, <1>2

\* Nothing is reachable from no snapshot.
LEMMA ReachNone == Reach({}) = {}
BY ReachLeast DEF Closed

LEMMA ReachBoth ==
  ASSUME NEW R \in SUBSET Obj, NEW T \in SUBSET Obj
  PROVE  Reach(R \cup T) = Reach(R) \cup Reach(T)
<1> DEFINE both == Reach(R) \cup Reach(T)
<1>1. both \in SUBSET Obj /\ R \cup T \subseteq both /\ Closed(both)
  BY ReachHoldsRoots, ReachClosed DEF Closed, Reach
<1>2. Reach(R \cup T) \subseteq both
  BY <1>1, ReachLeast
<1>3. both \subseteq Reach(R \cup T)
  BY ReachMonotone
<1>4. QED
  BY <1>2, <1>3

\* Whatever is missed has been taken.
LEMMA MissedTaken ==
  ASSUME ViewInv, phase # "open", NEW o \in Known, ~ Has(o)
  PROVE  o \in hist.taken
BY DEF ViewInv, Known, Has, InView

\* A snapshot that is still there is known whole.
LEMMA LiveKnown ==
  ASSUME ReaderTypeOK, PacksInv, ViewInv, SnapshotsReadable, phase # "off"
  PROVE  Reach(live) \subseteq Known
BY SoundReads DEF SnapshotsReadable, ViewInv, ReaderTypeOK

-----------------------------------------------------------------------------
(***************************************************************************)
(* Steps of the writer                                                     *)
(***************************************************************************)
LEMMA WriterSteps == WriterNext => Next
<1>1. ASSUME NEW r \in Tree PROVE {} \in SUBSET Reach({r})
  OBVIOUS
<1>2. QED
  BY <1>1 DEF WriterNext, Next, Snapshots

\* A healthy pack stays as it is, and a step lists nothing that is neither
\* listed before nor loose after.
LEMMA HealthyStays ==
  ASSUME PackInv, ~ reused', Next
  PROVE  /\ \A n \in Healthy : n \in Healthy' /\ packs[n].claims \subseteq packs'[n].claims
         /\ Listed' \subseteq Listed \cup loose'
<1> USE DEF PackInv
<1>1. CASE packs' = packs
  <2>1. Healthy' = Healthy
    BY <1>1 DEF Healthy
  <2>2. QED
    BY <1>1, <2>1 DEF Listed
<1>2. CASE OpenPack \/ WriteEntries \/ CutIndex \/ WriteIndex
  <2> DEFINE old == packs[my.name]
             new == packs'[my.name]
  <2>1. ~ reused /\ my.name \in Name /\ loose' = loose
    BY <1>2 DEF OpenPack, WriteEntries, CutIndex, WriteIndex, TypeOK
  <2>2. old.index = "none"
    <3>1. CASE OpenPack
      <4>1. old = NoPack
        BY <2>1, <3>1 DEF OpenPack, PacksInv, WriterInv
      <4>2. QED
        BY <4>1 DEF NoPack
    <3>2. CASE WriteEntries \/ CutIndex \/ WriteIndex
      BY <2>1, <3>2 DEF WriteEntries, CutIndex, WriteIndex, WriterInv
    <3>3. QED
      BY <1>2, <3>1, <3>2
  <2>3. \A n \in Name \ {my.name} : packs'[n] = packs[n]
    BY <1>2 DEF OpenPack, WriteEntries, CutIndex, WriteIndex, NewContent, Indexed, TypeOK
  <2>4. new.index # "usable" \/ new.claims \subseteq loose
    <3>1. CASE WriteIndex
      <4>1. new.claims = my.todo
        BY <2>1, <3>1 DEF WriteIndex, Indexed, TypeOK, Pack
      <4>2. QED
        BY <3>1, <4>1 DEF WriteIndex, WriterInv, Written
    <3>2. CASE CutIndex
      BY <2>1, <3>2 DEF CutIndex, TypeOK, Pack
    <3>3. CASE OpenPack \/ WriteEntries
      <4>1. \A whole \in BOOLEAN : NewContent(whole) => packs' = [packs EXCEPT ![my.name] = [old EXCEPT !.file = TRUE]]
        BY <2>2 DEF NewContent, Misfits
      <4>2. packs' = packs \/ packs' = [packs EXCEPT ![my.name] = [old EXCEPT !.file = TRUE]]
        BY <3>3, <4>1 DEF OpenPack, WriteEntries
      <4>3. new.index = "none"
        BY <2>1, <2>2, <4>2 DEF TypeOK, Pack
      <4>4. QED
        BY <4>3
    <3>4. QED
      BY <1>2, <3>1, <3>2, <3>3
  <2>5. \A n \in Healthy : n \in Healthy' /\ packs[n].claims = packs'[n].claims
    BY <2>2, <2>3 DEF Healthy
  <2>6. \A n \in Healthy' : packs'[n].claims \subseteq Listed \cup loose'
    BY <2>1, <2>3, <2>4 DEF Healthy, Listed
  <2>7. QED
    BY <2>5, <2>6 DEF Listed
<1>3. CASE CutManifest \/ WriteManifest
  <2>1. my.name \in Name /\ loose' = loose
    BY <1>3 DEF CutManifest, WriteManifest, TypeOK
  <2>2. \A n \in Name : packs'[n].index = packs[n].index /\ packs'[n].claims = packs[n].claims
    BY <1>3, <2>1 DEF CutManifest, WriteManifest, TypeOK, Pack
  <2>3. Healthy' = Healthy
    BY <2>2 DEF Healthy
  <2>4. QED
    BY <2>1, <2>2, <2>3 DEF Listed, Healthy
<1>4. QED
  BY <1>1, <1>2, <1>3 DEF Next, Snapshots, TakeSnapshot, InterruptSnapshot, RemoveSnapshot, Packing,
     BeginPack, Verify, EndPack, Prune, Collecting, BeginGc, SweepHitsTemp, EndGc, Sweep, Crash

\* What has been known stays known, in the pack, loose or as taken.
LEMMA WriteKnown ==
  ASSUME PackInv, ReaderTypeOK, ViewInv, Write, phase # "off"
  PROVE  Known \subseteq Known' /\ Listed' \subseteq Known' /\ \A o \in Obj : InView(o) => InView(o)'
<1>1. /\ rd' = rd /\ ~ reused' /\ Next
      /\ hist'.taken = hist.taken \cup {o \in loose \ loose' : ~ InView(o)}
  BY WriterSteps DEF Write
<1>2. rd.view \subseteq Healthy /\ rd.view \cup rd.pending \subseteq Name /\ loose \subseteq Obj
  BY DEF ReaderTypeOK, Locals, TypeOK
<1>3. \A n \in Healthy : packs[n].claims \subseteq packs'[n].claims
  BY <1>1, HealthyStays
<1>4. \A n \in Name : n \in Healthy \/ packs[n].claims = {}
  BY DEF PackInv, ViewInv, PacksInv, Sound, Healthy, TypeOK, Pack
<1>5. UNION {packs[n].claims : n \in rd.view \cup rd.pending} \subseteq Known'
  <2> SUFFICES ASSUME NEW n \in rd.view \cup rd.pending PROVE packs[n].claims \subseteq packs'[n].claims
    BY <1>1 DEF Known
  <2>1. QED
    BY <1>2, <1>3, <1>4
<1>6. \A o \in Obj : InView(o) => InView(o)'
  BY <1>1, <1>2, <1>3 DEF InView
<1>7. loose \subseteq Known'
  <2> SUFFICES ASSUME NEW o \in loose, o \notin loose', o \notin hist'.taken PROVE o \in Known'
    BY DEF Known
  <2>1. InView(o)
    BY <1>1
  <2>2. InView(o)'
    BY <1>2, <1>6, <2>1
  <2>3. QED
    BY <2>2 DEF InView, Known
<1>8. Known \subseteq Known'
  BY <1>1, <1>5, <1>7 DEF Known
<1>9. Listed' \subseteq Listed \cup loose'
  BY <1>1, HealthyStays
<1>10. Listed' \subseteq Known'
  BY <1>8, <1>9 DEF ViewInv, Known
<1>11. QED
  BY <1>6, <1>8, <1>10

LEMMA StepWrite ==
  ASSUME PackInv, TypeOK', ReaderTypeOK, ReadInv, Write
  PROVE  ReaderTypeOK' /\ ReadInv'
<1>1. /\ UNCHANGED <<phase, cmd, rd>> /\ ~ reused' /\ Next /\ phase \notin {"done", "failed"}
      /\ pc = "idle" => hist.begun < MaxBegun
      /\ phase = "off" => hist' = hist
      /\ phase # "off" =>
           /\ hist' = [taken |-> hist.taken \cup {o \in loose \ loose' : ~ InView(o)},
                       quiet |-> FALSE,
                       begun |-> IF pc = "idle" THEN hist.begun + 1 ELSE hist.begun,
                       kept  |-> hist.kept \cap live']
  BY WriterSteps DEF Write, Ended
<1>2. /\ ReaderTypeOK /\ ViewInv /\ PhaseInv /\ QuietInv /\ AlarmInv /\ WalkInv /\ TypeOK
  BY DEF ReadInv, PackInv
<1>3. hist'.taken \in SUBSET Obj /\ hist.taken \subseteq hist'.taken /\ hist'.kept \in SUBSET Tree
      /\ hist'.kept \subseteq hist.kept
  BY <1>1, <1>2 DEF ReaderTypeOK, Hist, TypeOK
<1>4. litter => litter'
  BY <1>1 DEF Next, Snapshots, TakeSnapshot, InterruptSnapshot, RemoveSnapshot, Packing, BeginPack,
     OpenPack, WriteEntries, CutIndex, WriteIndex, CutManifest, WriteManifest, Verify, EndPack, Prune,
     Collecting, BeginGc, SweepHitsTemp, EndGc, Sweep, Crash
<1>5. ReaderTypeOK'
  <2>1. hist' \in Hist
    <3>1. hist.begun \in 0 .. MaxBegun /\ hist.taken \in SUBSET Obj /\ hist.kept \in SUBSET Tree
      BY <1>2 DEF ReaderTypeOK, Hist
    <3>2. pc = "idle" => hist.begun + 1 \in 0 .. MaxBegun
      BY <1>1, <3>1, ReadersAssumption
    <3>3. CASE phase = "off"
      BY <1>1, <1>2, <3>3 DEF ReaderTypeOK
    <3>4. CASE phase # "off"
      <4> DEFINE taken == hist.taken \cup {o \in loose \ loose' : ~ InView(o)}
                 begun == IF pc = "idle" THEN hist.begun + 1 ELSE hist.begun
                 kept  == hist.kept \cap live'
      <4>1. begun \in 0 .. MaxBegun /\ taken \in SUBSET Obj /\ kept \in SUBSET Tree
        BY <1>2, <3>1, <3>2 DEF TypeOK
      <4>2. hist' = [taken |-> taken, quiet |-> FALSE, begun |-> begun, kept |-> kept]
        BY <1>1, <3>4
      <4> HIDE DEF taken, begun, kept
      <4>3. QED
        BY <4>1, <4>2 DEF Hist
    <3>5. QED
      BY <3>3, <3>4
  <2>2. rd.view \subseteq Healthy'
    BY <1>1, <1>2, HealthyStays DEF ReaderTypeOK
  <2>3. QED
    BY <1>1, <1>2, <2>1, <2>2 DEF ReaderTypeOK
<1>6. CASE phase = "off"
  <2>1. rd = NoLocals /\ rd' = NoLocals /\ hist = NoHist /\ hist' = NoHist
    BY <1>1, <1>2, <1>6 DEF PhaseInv
  <2>2. ViewInv'
    BY <1>1, <1>2, <1>6, <2>1, ReachNone DEF ViewInv, NoLocals, NoHist
  <2>3. PhaseInv'
    BY <1>1, <1>2, <1>6 DEF PhaseInv
  <2>4. QuietInv' /\ AlarmInv'
    BY <1>1, <1>2, <1>6, <2>1 DEF QuietInv, AlarmInv, AlarmsExplained, NoLocals, NoHist
  <2>5. WalkInv'
    BY <1>1, <1>2, <1>6 DEF WalkInv, PhaseInv, Walks, Whole
  <2>6. QED
    BY <1>5, <2>2, <2>3, <2>4, <2>5 DEF ReadInv
<1>7. CASE phase # "off"
  <2>1. ~ hist'.quiet /\ hist'.kept = hist.kept \cap live'
    BY <1>1, <1>7
  <2>2. Known \subseteq Known' /\ Listed' \subseteq Known'
    BY <1>2, <1>7, WriteKnown
  <2>3. ViewInv'
    BY <1>1, <1>2, <1>4, <2>1, <2>2 DEF ViewInv
  <2>4. PhaseInv'
    BY <1>1, <1>2, <1>7 DEF PhaseInv
  <2>5. QuietInv'
    BY <2>1 DEF QuietInv
  <2>6. AlarmInv'
    BY <1>1, <1>2, <1>3 DEF AlarmInv, AlarmsExplained
  <2>7. WalkInv'
    <3>1. Reach(hist'.kept) \subseteq Reach(hist.kept)
      BY <1>3, ReachMonotone
    <3>2. cmd = "verify" => Reach(hist'.kept) \subseteq rd.seen \cup rd.todo \cup hist'.taken
      BY <1>2, <1>3, <3>1 DEF WalkInv
    <3>3. Met' = Met /\ \A o \in rd.seen : Entered(o)' = Entered(o)
      BY <1>1 DEF Met, Entered
    <3>4. QED
      BY <1>1, <1>2, <1>3, <2>1, <3>2, <3>3 DEF WalkInv
  <2>8. QED
    BY <1>5, <2>3, <2>4, <2>5, <2>6, <2>7 DEF ReadInv
<1>8. QED
  BY <1>6, <1>7

-----------------------------------------------------------------------------
(***************************************************************************)
(* Steps of the reader: opening the store, beginning and ending a command  *)
(***************************************************************************)
\* The reader leaves the repository alone.
LEMMA SameRepository ==
  ASSUME UNCHANGED vars
  PROVE  /\ TypeOK => TypeOK'
         /\ Listed' = Listed /\ Healthy' = Healthy /\ live' = live /\ loose' = loose /\ packs' = packs
         /\ reused' = reused /\ litter' = litter
BY DEF vars, TypeOK, Listed, Healthy

LEMMA NoLocalsTyped == NoLocals \in Locals /\ NoHist \in Hist
BY ReadersAssumption DEF NoLocals, Locals, NoHist, Hist

LEMMA StepOpen ==
  ASSUME PackInv, ReaderTypeOK, ReadInv, Open
  PROVE  ReaderTypeOK' /\ ReadInv'
<1>1. /\ ReaderTypeOK /\ ViewInv /\ PhaseInv /\ PacksInv /\ TypeOK
  BY DEF ReadInv, PackInv
<1>2. /\ UNCHANGED vars /\ phase = "off" /\ phase' = "open" /\ cmd = "none" /\ cmd' = "none"
      /\ hist' = NoHist /\ rd' = [NoLocals EXCEPT !.pending = {n \in Name : packs[n].file}]
  BY <1>1 DEF Open, PhaseInv
<1>3. /\ rd'.pending = {n \in Name : packs[n].file} /\ rd'.view = {}
      /\ rd'.ids = {} /\ rd'.roots = {} /\ rd'.todo = {} /\ rd'.seen = {} /\ rd'.bad = {} /\ rd'.temp = FALSE
      /\ rd' \in Locals
  BY <1>2, NoLocalsTyped DEF NoLocals, Locals
<1>4. /\ hist'.taken = {} /\ hist'.kept = {} /\ hist' \in Hist
  BY <1>2, NoLocalsTyped DEF NoHist
<1>5. ReaderTypeOK'
  BY <1>1, <1>2, <1>3, <1>4, SameRepository DEF ReaderTypeOK, Phase, Command
<1>6. Listed \subseteq Known'
  <2>1. \A n \in Healthy : n \in rd'.pending
    BY <1>1, <1>3 DEF Healthy, PacksInv, NoPack
  <2>2. QED
    BY <1>2, <2>1, SameRepository DEF Known, Listed
<1>7. ViewInv'
  BY <1>1, <1>2, <1>3, <1>4, <1>6, ReachNone, SameRepository DEF ViewInv
<1>8. PhaseInv' /\ QuietInv' /\ AlarmInv'
  BY <1>2, <1>3, <1>4 DEF PhaseInv, QuietInv, AlarmInv, AlarmsExplained
<1>9. WalkInv'
  BY <1>2, <1>3 DEF WalkInv, Walks, Whole
<1>10. QED
  BY <1>5, <1>7, <1>8, <1>9 DEF ReadInv

LEMMA StepLoadPack ==
  ASSUME PackInv, ReaderTypeOK, ReadInv, NEW n \in Name, LoadPack(n)
  PROVE  ReaderTypeOK' /\ ReadInv'
<1>1. /\ ReaderTypeOK /\ ViewInv /\ PhaseInv /\ QuietInv /\ AlarmInv /\ WalkInv /\ PacksInv /\ TypeOK
  BY DEF ReadInv, PackInv
<1>2. /\ UNCHANGED <<vars, phase, cmd, hist>> /\ phase = "open" /\ n \in rd.pending /\ cmd \in {"none", "serve"}
  BY <1>1 DEF LoadPack, PhaseInv
<1>3. /\ rd'.pending = rd.pending \ {n}
      /\ rd'.view = IF packs[n].index = "usable" THEN rd.view \cup {n} ELSE rd.view
      /\ rd'.ids = rd.ids /\ rd'.roots = rd.roots /\ rd'.todo = rd.todo /\ rd'.seen = rd.seen
      /\ rd'.bad = rd.bad /\ rd'.temp = rd.temp
      /\ rd' \in Locals
  BY <1>1 DEF LoadPack, ReaderTypeOK, Locals
<1>4. ReaderTypeOK'
  BY <1>1, <1>2, <1>3, SameRepository DEF ReaderTypeOK, Healthy
<1>5. Known \subseteq Known'
  <2>1. packs[n].index = "usable" \/ packs[n].claims = {}
    BY <1>1 DEF ViewInv, PacksInv, Sound, TypeOK, Pack
  <2>2. QED
    BY <1>2, <1>3, <2>1, SameRepository DEF Known
<1>6. ViewInv'
  BY <1>1, <1>2, <1>3, <1>5, SameRepository DEF ViewInv
<1>7. PhaseInv' /\ AlarmInv'
  BY <1>1, <1>2, <1>3 DEF PhaseInv, AlarmInv, AlarmsExplained
<1>8. QuietInv'
  BY <1>1, <1>2, <1>3, SameRepository DEF QuietInv
<1>9. WalkInv'
  BY <1>2 DEF WalkInv, Walks, Whole
<1>10. QED
  BY <1>4, <1>6, <1>7, <1>8, <1>9 DEF ReadInv

\* A command begins with nothing read yet, and with every snapshot it is about.
LEMMA BeginFields ==
  ASSUME ReaderTypeOK, ReadInv, Commands
  PROVE  /\ UNCHANGED vars /\ phase = "open" /\ phase' \in {"ids", "reading", "objects"}
         /\ rd.pending = {} /\ rd' \in Locals /\ hist' \in Hist /\ cmd' \in Command \ {"none", "serve"}
         /\ rd'.view = rd.view /\ rd'.pending = {} /\ rd'.roots = {} /\ rd'.seen = {} /\ rd'.bad = {}
         /\ hist'.taken = hist.taken /\ hist'.quiet = hist.quiet /\ hist'.kept = live
         /\ rd'.ids \subseteq live /\ rd'.todo \subseteq Listing /\ (rd'.temp => litter)
         /\ \/ cmd' \in {"list", "status"} /\ phase' = "reading" /\ rd'.ids = live /\ rd'.todo = {}
            \/ /\ cmd' = "trace" /\ phase' = "ids" /\ rd'.ids = {} /\ rd'.todo = {} /\ ~ rd'.temp
               /\ \E o \in Obj : rd'.of = {o} /\ rd'.found = Has(o)
            \/ cmd' \in {"explain", "show", "recover", "diff"} /\ phase' = "reading" /\ rd'.of = rd'.ids /\ rd'.todo = {}
            \/ cmd' = "verify" /\ phase' = "objects" /\ rd'.ids = {} /\ rd'.todo = Listing
<1>1. /\ ReaderTypeOK /\ ViewInv /\ PhaseInv
  BY DEF ReadInv
<1>2. /\ Listing \subseteq Obj /\ live \subseteq Tree /\ live \subseteq Obj /\ litter \in BOOLEAN
  BY <1>1, GraphAssumption DEF Listing, ReaderTypeOK, TypeOK, Locals, Pack
<1>3. ASSUME NEW c \in Command \ {"none", "serve"}, NEW next \in {"ids", "reading", "objects"}, NEW locals \in Locals,
             Begin(c, next, locals),
             locals.pending = {}, locals.roots = {}, locals.seen = {}, locals.bad = {}
      PROVE  /\ UNCHANGED vars /\ phase = "open" /\ phase' = next /\ cmd' = c /\ rd.pending = {}
             /\ rd' \in Locals /\ hist' \in Hist /\ rd'.view = rd.view /\ rd'.pending = {}
             /\ rd'.roots = {} /\ rd'.seen = {} /\ rd'.bad = {}
             /\ rd'.of = locals.of /\ rd'.found = locals.found /\ rd'.ids = locals.ids /\ rd'.todo = locals.todo
             /\ rd'.temp = locals.temp
             /\ hist'.taken = hist.taken /\ hist'.quiet = hist.quiet /\ hist'.kept = live
  <2>1. rd' = [locals EXCEPT !.view = rd.view] /\ hist' = [hist EXCEPT !.kept = live]
    BY <1>3 DEF Begin
  <2>2. rd' \in Locals /\ hist' \in Hist
    BY <1>1, <1>2, <2>1 DEF Locals, Hist, ReaderTypeOK
  <2>3. QED
    BY <1>1, <1>3, <2>1, <2>2 DEF Begin, Locals, Hist, ReaderTypeOK
<1> USE DEF Command, Whole, Api
<1>4. CASE BeginList \/ BeginStatus
  <2> DEFINE locals == [NoLocals EXCEPT !.ids = live]
  <2>1. /\ locals \in Locals /\ locals.ids = live /\ locals.todo = {} /\ locals.temp = FALSE
        /\ locals.pending = {} /\ locals.roots = {} /\ locals.seen = {} /\ locals.bad = {}
    BY <1>2, NoLocalsTyped DEF NoLocals, Locals
  <2>2. Begin("list", "reading", locals) \/ Begin("status", "reading", locals)
    BY <1>4 DEF BeginList, BeginStatus
  <2> HIDE DEF locals
  <2>3. QED
    BY <1>3, <2>1, <2>2
<1>5. ASSUME NEW o \in Obj, BeginTrace(o)
      PROVE  /\ rd'.of = {o} /\ rd'.found = Has(o) /\ cmd' = "trace" /\ phase' = "ids" /\ rd'.ids = {} /\ rd'.todo = {}
             /\ rd'.temp = FALSE
             /\ UNCHANGED vars /\ phase = "open" /\ rd.pending = {}
             /\ rd' \in Locals /\ hist' \in Hist /\ rd'.view = rd.view /\ rd'.pending = {}
             /\ rd'.roots = {} /\ rd'.seen = {} /\ rd'.bad = {}
             /\ hist'.taken = hist.taken /\ hist'.quiet = hist.quiet /\ hist'.kept = live
  <2> DEFINE locals == [NoLocals EXCEPT !.of = {o}, !.found = Has(o)]
  <2>1. Has(o) \in BOOLEAN
    BY DEF Has, InView
  <2>2. /\ locals \in Locals /\ locals.of = {o} /\ locals.found = Has(o)
        /\ locals.ids = {} /\ locals.todo = {} /\ locals.temp = FALSE
        /\ locals.pending = {} /\ locals.roots = {} /\ locals.seen = {} /\ locals.bad = {}
    BY <2>1, NoLocalsTyped DEF NoLocals, Locals
  <2>3. Begin("trace", "ids", locals)
    BY <1>5 DEF BeginTrace
  <2> HIDE DEF locals
  <2>4. QED
    BY <1>3, <2>2, <2>3
<1>6. ASSUME NEW S \in SUBSET live, NEW c \in {"explain", "show", "recover", "diff"},
             Begin(c, "reading", [NoLocals EXCEPT !.of = S, !.ids = S])
      PROVE  /\ cmd' = c /\ phase' = "reading" /\ rd'.of = S /\ rd'.ids = S /\ rd'.todo = {} /\ rd'.temp = FALSE
             /\ UNCHANGED vars /\ phase = "open" /\ rd.pending = {}
             /\ rd' \in Locals /\ hist' \in Hist /\ rd'.view = rd.view /\ rd'.pending = {}
             /\ rd'.roots = {} /\ rd'.seen = {} /\ rd'.bad = {}
             /\ hist'.taken = hist.taken /\ hist'.quiet = hist.quiet /\ hist'.kept = live
  <2> DEFINE locals == [NoLocals EXCEPT !.of = S, !.ids = S]
  <2>1. /\ locals \in Locals /\ locals.of = S /\ locals.ids = S /\ locals.todo = {} /\ locals.temp = FALSE
        /\ locals.pending = {} /\ locals.roots = {} /\ locals.seen = {} /\ locals.bad = {}
    BY <1>2, NoLocalsTyped DEF NoLocals, Locals
  <2>2. Begin(c, "reading", locals)
    BY <1>6
  <2> HIDE DEF locals
  <2>3. QED
    BY <1>3, <2>1, <2>2
<1>7. CASE BeginVerify
  <2> DEFINE locals == [NoLocals EXCEPT !.todo = Listing, !.temp = litter]
  <2>1. /\ locals \in Locals /\ locals.ids = {} /\ locals.todo = Listing /\ locals.temp = litter
        /\ locals.pending = {} /\ locals.roots = {} /\ locals.seen = {} /\ locals.bad = {}
    BY <1>2, NoLocalsTyped DEF NoLocals, Locals
  <2>2. Begin("verify", "objects", locals)
    BY <1>7 DEF BeginVerify
  <2> HIDE DEF locals
  <2>3. QED
    BY <1>3, <2>1, <2>2
<1>8. CASE \E o \in Obj : BeginTrace(o)
  BY <1>5, <1>8
<1>9. CASE \/ \E r \in live : BeginExplain(r) \/ BeginShow(r) \/ BeginRecover(r)
           \/ \E a, b \in live : BeginDiff(a, b)
  <2>1. PICK S \in SUBSET live, c \in {"explain", "show", "recover", "diff"} :
          Begin(c, "reading", [NoLocals EXCEPT !.of = S, !.ids = S])
    <3>1. ASSUME NEW r \in live PROVE {r} \in SUBSET live
      OBVIOUS
    <3>2. ASSUME NEW a \in live, NEW b \in live PROVE {a, b} \in SUBSET live
      OBVIOUS
    <3>3. CASE \E r \in live : BeginExplain(r) \/ BeginShow(r) \/ BeginRecover(r)
      BY <3>1, <3>3 DEF BeginExplain, BeginShow, BeginRecover
    <3>4. CASE \E a, b \in live : BeginDiff(a, b)
      BY <3>2, <3>4 DEF BeginDiff
    <3>5. QED
      BY <1>9, <3>3, <3>4
  <2>2. QED
    BY <1>6, <2>1
<1>10. QED
  BY <1>4, <1>7, <1>8, <1>9 DEF Commands

LEMMA StepCommands ==
  ASSUME PackInv, SnapshotsReadable, ReaderTypeOK, ReadInv, Commands
  PROVE  ReaderTypeOK' /\ ReadInv'
<1>1. /\ ReaderTypeOK /\ ViewInv /\ PhaseInv /\ QuietInv /\ PacksInv /\ TypeOK
  BY DEF ReadInv, PackInv
<1>2. /\ UNCHANGED vars /\ phase = "open" /\ phase' \in {"ids", "reading", "objects"}
      /\ rd.pending = {} /\ rd' \in Locals /\ hist' \in Hist /\ cmd' \in Command \ {"none", "serve"}
      /\ rd'.view = rd.view /\ rd'.pending = {} /\ rd'.roots = {} /\ rd'.seen = {} /\ rd'.bad = {}
      /\ hist'.taken = hist.taken /\ hist'.quiet = hist.quiet /\ hist'.kept = live
      /\ rd'.ids \subseteq live /\ rd'.todo \subseteq Listing /\ (rd'.temp => litter)
  BY BeginFields
<1>3. \/ cmd' \in {"list", "status"} /\ phase' = "reading" /\ rd'.ids = live /\ rd'.todo = {}
      \/ /\ cmd' = "trace" /\ phase' = "ids" /\ rd'.ids = {} /\ rd'.todo = {} /\ ~ rd'.temp
         /\ \E o \in Obj : rd'.of = {o} /\ rd'.found = Has(o)
      \/ cmd' \in {"explain", "show", "recover", "diff"} /\ phase' = "reading" /\ rd'.of = rd'.ids /\ rd'.todo = {}
      \/ cmd' = "verify" /\ phase' = "objects" /\ rd'.ids = {} /\ rd'.todo = Listing
  BY BeginFields
<1>4. Known' = Known /\ Known = Listing \cup hist.taken
  BY <1>2, SameRepository DEF Known, Listing
<1>5. Has(CHOOSE o : TRUE) \in BOOLEAN /\ \A o \in Obj : Has(o)' = Has(o)
  BY <1>2, SameRepository DEF Has, InView
<1>6. Reach(live) \subseteq Known
  BY <1>1, <1>2, LiveKnown
<1>7. ReaderTypeOK'
  BY <1>1, <1>2, SameRepository DEF ReaderTypeOK, Phase
<1>8. ViewInv'
  BY <1>1, <1>2, <1>4, ReachNone, SameRepository DEF ViewInv
<1>9. PhaseInv'
  BY <1>2, <1>3 DEF PhaseInv
<1>10. QuietInv' /\ AlarmInv'
  BY <1>1, <1>2, SameRepository DEF QuietInv, AlarmInv, AlarmsExplained
<1>11. WalkInv'
  BY <1>2, <1>3, <1>4, <1>5, <1>6 DEF WalkInv, Walks, Whole, Working
<1>12. QED
  BY <1>7, <1>8, <1>9, <1>10, <1>11 DEF ReadInv

LEMMA StepCloseAnswer ==
  ASSUME PackInv, ReaderTypeOK, ReadInv, Close \/ Answer
  PROVE  ReaderTypeOK' /\ ReadInv'
<1>1. /\ ReaderTypeOK /\ ViewInv /\ PhaseInv /\ QuietInv /\ PacksInv /\ TypeOK
  BY DEF ReadInv, PackInv
<1>2. /\ UNCHANGED vars /\ phase \in {"done", "failed"} /\ rd.pending = {}
  BY <1>1 DEF Close, Answer, Ended, ViewInv
<1>3. CASE Close
  <2>1. phase' = "off" /\ cmd' = "none" /\ rd' = NoLocals /\ hist' = NoHist
    BY <1>3 DEF Close
  <2>2. ReaderTypeOK'
    BY <1>1, <1>2, <2>1, NoLocalsTyped, SameRepository DEF ReaderTypeOK, Phase, Command, NoLocals
  <2>3. ViewInv'
    BY <1>1, <1>2, <2>1, ReachNone, SameRepository DEF ViewInv, NoLocals, NoHist
  <2>4. PhaseInv'
    BY <2>1 DEF PhaseInv, NoLocals
  <2>5. QuietInv' /\ AlarmInv'
    BY <2>1 DEF QuietInv, AlarmInv, AlarmsExplained, NoLocals, NoHist
  <2>6. WalkInv'
    BY <2>1 DEF WalkInv, Walks, Whole
  <2>7. QED
    BY <2>2, <2>3, <2>4, <2>5, <2>6 DEF ReadInv
<1>4. CASE Answer
  <2>1. /\ phase' = "open" /\ cmd' = "serve" /\ rd' = [NoLocals EXCEPT !.view = rd.view]
        /\ hist' = [hist EXCEPT !.kept = {}]
    BY <1>4 DEF Answer
  <2>2. /\ rd'.view = rd.view /\ rd'.pending = {} /\ rd'.ids = {} /\ rd'.roots = {} /\ rd'.todo = {}
        /\ rd'.seen = {} /\ rd'.bad = {} /\ rd'.temp = FALSE /\ rd' \in Locals
    BY <1>1, <2>1, NoLocalsTyped DEF NoLocals, Locals, ReaderTypeOK
  <2>3. hist'.taken = hist.taken /\ hist'.quiet = hist.quiet /\ hist'.kept = {} /\ hist' \in Hist
    BY <1>1, <2>1 DEF Hist, ReaderTypeOK
  <2>4. ReaderTypeOK'
    BY <1>1, <1>2, <2>1, <2>2, <2>3, SameRepository DEF ReaderTypeOK, Phase, Command
  <2>5. Known' = Known
    BY <1>2, <2>2, <2>3, SameRepository DEF Known
  <2>6. ViewInv'
    <3>1. phase # "off" /\ Listed' = Listed
      BY <1>2, SameRepository
    <3>2. Listed' \subseteq Known'
      BY <1>1, <2>5, <3>1 DEF ViewInv
    <3>3. rd'.todo \cup Reach(rd'.roots) = {}
      BY <2>2, ReachNone
    <3>4. ~ reused'
      BY <1>1, <1>2, SameRepository DEF ViewInv
    <3>5. QED
      BY <2>1, <2>2, <2>3, <3>2, <3>3, <3>4 DEF ViewInv
  <2>7. PhaseInv'
    BY <2>1, <2>2 DEF PhaseInv
  <2>8. QuietInv' /\ AlarmInv'
    BY <1>1, <2>1, <2>2, <2>3 DEF QuietInv, AlarmInv, AlarmsExplained
  <2>9. WalkInv'
    BY <2>1 DEF WalkInv, Walks, Whole
  <2>10. QED
    BY <2>4, <2>6, <2>7, <2>8, <2>9 DEF ReadInv
<1>5. QED
  BY <1>3, <1>4

-----------------------------------------------------------------------------
(***************************************************************************)
(* Steps of the reader: records                                            *)
(***************************************************************************)
LEMMA StepListIds ==
  ASSUME PackInv, ReaderTypeOK, ReadInv, ListIds
  PROVE  ReaderTypeOK' /\ ReadInv'
<1>1. /\ ReaderTypeOK /\ ViewInv /\ PhaseInv /\ QuietInv /\ AlarmInv /\ WalkInv /\ TypeOK
  BY DEF ReadInv, PackInv
<1>2. /\ UNCHANGED vars /\ phase = "ids" /\ phase' = "reading" /\ cmd = "trace" /\ cmd' = "trace"
      /\ rd' = [rd EXCEPT !.ids = live] /\ hist' = [hist EXCEPT !.kept = live]
  BY <1>1 DEF ListIds, PhaseInv
<1>3. /\ rd'.ids = live /\ rd'.roots = {} /\ rd'.todo = {} /\ rd'.seen = {} /\ rd'.bad = {} /\ ~ rd'.temp
      /\ rd'.view = rd.view /\ rd'.pending = rd.pending /\ rd'.of = rd.of /\ rd'.found = rd.found
      /\ rd' \in Locals
  BY <1>1, <1>2 DEF Locals, ReaderTypeOK, TypeOK, PhaseInv
<1>4. hist'.taken = hist.taken /\ hist'.quiet = hist.quiet /\ hist'.kept = live /\ hist' \in Hist
  BY <1>1, <1>2 DEF Hist, ReaderTypeOK, TypeOK
<1>5. ReaderTypeOK'
  BY <1>1, <1>2, <1>3, <1>4, SameRepository DEF ReaderTypeOK, Phase
<1>6. Known' = Known /\ \A o \in Obj : Has(o)' = Has(o)
  BY <1>2, <1>3, <1>4, SameRepository DEF Known, Has, InView
<1>7. ViewInv'
  BY <1>1, <1>2, <1>3, <1>4, <1>6, ReachNone, SameRepository DEF ViewInv
<1>8. PhaseInv'
  BY <1>2, <1>3 DEF PhaseInv
<1>9. QuietInv' /\ AlarmInv'
  BY <1>1, <1>2, <1>3, <1>4, SameRepository DEF QuietInv, AlarmInv, AlarmsExplained
<1>10. WalkInv'
  BY <1>1, <1>2, <1>3, <1>4, <1>6 DEF WalkInv
<1>11. QED
  BY <1>5, <1>7, <1>8, <1>9, <1>10 DEF ReadInv

LEMMA StepListObjects ==
  ASSUME PackInv, ReaderTypeOK, ReadInv, ListObjects
  PROVE  ReaderTypeOK' /\ ReadInv'
<1>1. /\ ReaderTypeOK /\ ViewInv /\ PhaseInv /\ QuietInv /\ AlarmInv /\ WalkInv /\ TypeOK
  BY DEF ReadInv, PackInv
<1>2. /\ UNCHANGED <<vars, cmd, hist>> /\ phase = "reading" /\ phase' = "objects" /\ cmd = "status" /\ rd.ids = {}
      /\ rd' = [rd EXCEPT !.todo = Listing, !.temp = litter]
  BY DEF ListObjects
<1>3. Listing \subseteq Obj
  BY <1>1 DEF Listing, ReaderTypeOK, TypeOK, Locals, Pack
<1>4. /\ rd'.ids = {} /\ rd'.roots = rd.roots /\ rd'.todo = Listing /\ rd'.seen = rd.seen /\ rd'.bad = rd.bad
      /\ rd'.temp = litter /\ rd'.view = rd.view /\ rd'.pending = rd.pending
      /\ rd' \in Locals
  BY <1>1, <1>2, <1>3 DEF Locals, ReaderTypeOK, TypeOK
<1>5. ReaderTypeOK'
  BY <1>1, <1>2, <1>4, SameRepository DEF ReaderTypeOK, Phase
<1>6. Known' = Known /\ Listing \subseteq Known
  BY <1>2, <1>4, SameRepository DEF Known, Listing
<1>7. ViewInv'
  BY <1>1, <1>2, <1>4, <1>6, SameRepository DEF ViewInv
<1>8. PhaseInv'
  BY <1>2, <1>4 DEF PhaseInv
<1>9. QuietInv' /\ AlarmInv'
  BY <1>1, <1>2, <1>4, SameRepository DEF QuietInv, AlarmInv, AlarmsExplained
<1>10. WalkInv'
  BY <1>1, <1>2, <1>4 DEF WalkInv, Walks, Whole, Working
<1>11. QED
  BY <1>5, <1>7, <1>8, <1>9, <1>10 DEF ReadInv

LEMMA StepLoadRecord ==
  ASSUME PackInv, SnapshotsReadable, ReaderTypeOK, ReadInv, NEW r \in Tree, LoadRecord(r)
  PROVE  ReaderTypeOK' /\ ReadInv'
<1>1. /\ ReaderTypeOK /\ ViewInv /\ PhaseInv /\ QuietInv /\ AlarmInv /\ WalkInv /\ PacksInv /\ TypeOK
  BY DEF ReadInv, PackInv
<1>2. /\ UNCHANGED <<vars, cmd, hist>> /\ phase = "reading" /\ r \in rd.ids /\ r \in Obj
  BY GraphAssumption DEF LoadRecord
<1>3. CASE r \in hist.kept
  <2>1. phase' = phase /\ rd' = [rd EXCEPT !.ids = @ \ {r}, !.roots = @ \cup {r},
                                          !.todo = IF cmd \in Walks THEN @ \cup {r} ELSE @]
    BY <1>3 DEF LoadRecord
  <2>2. /\ rd'.ids = rd.ids \ {r} /\ rd'.roots = rd.roots \cup {r}
        /\ rd'.todo = IF cmd \in Walks THEN rd.todo \cup {r} ELSE rd.todo
        /\ rd'.seen = rd.seen /\ rd'.bad = rd.bad /\ rd'.temp = rd.temp
        /\ rd'.view = rd.view /\ rd'.pending = rd.pending /\ rd'.of = rd.of /\ rd'.found = rd.found
        /\ rd' \in Locals
    BY <1>1, <1>2, <2>1 DEF Locals, ReaderTypeOK
  <2>3. ReaderTypeOK'
    BY <1>1, <1>2, <2>1, <2>2, SameRepository DEF ReaderTypeOK
  <2>4. Known' = Known /\ \A o \in Obj : Has(o)' = Has(o)
    BY <1>2, <2>2, SameRepository DEF Known, Has, InView
  <2>5. rd.roots \in SUBSET Obj /\ rd'.roots \in SUBSET Obj
    BY <1>1, <1>2, <2>2, GraphAssumption DEF ReaderTypeOK, Locals
  <2>6. Reach(rd'.roots) = Reach(rd.roots) \cup Reach({r}) /\ r \in Reach({r})
    BY <1>2, <2>2, <2>5, ReachBoth, ReachHoldsRoots
  <2>7. Reach({r}) \subseteq Known
    <3>1. Reach({r}) \subseteq Reach(live)
      BY <1>1, <1>3, ReachMonotone DEF ViewInv
    <3>2. QED
      BY <1>1, <1>2, <3>1, LiveKnown
  <2>8. ViewInv'
    BY <1>1, <1>2, <2>1, <2>2, <2>4, <2>6, <2>7, SameRepository DEF ViewInv
  <2>9. PhaseInv'
    BY <1>1, <1>2, <2>1, <2>2 DEF PhaseInv
  <2>10. QuietInv' /\ AlarmInv'
    BY <1>1, <1>2, <1>3, <2>1, <2>2, SameRepository DEF QuietInv, AlarmInv, AlarmsExplained
  <2>11. WalkInv'
    <3>1. (Met \subseteq Met' /\ rd'.roots \subseteq rd.roots \cup Met') \/ cmd \notin Walks
      BY <2>2 DEF Met
    <3>2. \A o \in rd.seen : Entered(o)' = Entered(o)
      BY <1>2 DEF Entered
    <3>3. rd'.roots \cup rd'.ids = rd.roots \cup rd.ids
      BY <1>2, <2>2
    <3>4. cmd # "verify"
      BY <1>1, <1>2 DEF PhaseInv
    <3>5. /\ cmd \in Walks => rd'.todo \cup rd'.seen \subseteq Reach(rd'.roots)
          /\ cmd \in {"diff", "trace"} => rd'.todo \cup rd'.seen \subseteq Tree
      BY <1>1, <2>2, <2>6 DEF WalkInv
    <3>6. cmd \in Walks => rd'.roots \subseteq Met' /\ \A o \in rd'.seen : Entered(o)' \subseteq Met'
      BY <1>1, <1>2, <2>2, <3>1, <3>2 DEF WalkInv, Met
    <3>7. /\ cmd \in {"show", "diff", "recover"} => rd'.of = rd'.roots \cup rd'.ids \/ rd'.bad # {}
          /\ cmd \in Whole => hist.kept \subseteq rd'.roots \cup rd'.ids
      BY <1>1, <1>2, <2>2, <3>3 DEF WalkInv, Working
    <3>8. cmd = "trace" => \E o \in Obj : rd'.of = {o} /\ (hist.quiet /\ rd'.found => Has(o)')
      BY <1>1, <2>2, <2>4 DEF WalkInv
    <3>9. QED
      BY <1>2, <2>1, <3>4, <3>5, <3>6, <3>7, <3>8 DEF WalkInv
  <2>12. QED
    BY <2>3, <2>8, <2>9, <2>10, <2>11 DEF ReadInv
<1>4. CASE r \notin hist.kept
  <2>1. rd' = [rd EXCEPT !.bad = {r}, !.todo = {}] /\ phase' = IF cmd = "recover" THEN "done" ELSE "failed"
    BY <1>4 DEF LoadRecord
  <2>2. /\ rd'.ids = rd.ids /\ rd'.roots = rd.roots /\ rd'.todo = {} /\ rd'.seen = rd.seen /\ rd'.bad = {r}
        /\ rd'.temp = rd.temp /\ rd'.of = rd.of /\ rd'.found = rd.found
        /\ rd'.view = rd.view /\ rd'.pending = rd.pending
        /\ rd' \in Locals
    BY <1>1, <1>2, <2>1 DEF Locals, ReaderTypeOK
  <2>3. ReaderTypeOK'
    BY <1>1, <1>2, <2>1, <2>2, SameRepository DEF ReaderTypeOK, Phase
  <2>4. Known' = Known /\ \A o \in Obj : Has(o)' = Has(o)
    BY <1>2, <2>2, SameRepository DEF Known, Has, InView
  <2>5. ViewInv'
    BY <1>1, <1>2, <2>1, <2>2, <2>4, SameRepository DEF ViewInv
  <2>6. PhaseInv'
    BY <1>1, <1>2, <2>1, <2>2 DEF PhaseInv
  <2>7. QuietInv' /\ AlarmInv'
    BY <1>1, <1>2, <1>4, <2>1, <2>2, SameRepository DEF QuietInv, AlarmInv, AlarmsExplained
  <2>8. WalkInv'
    <3>1. cmd # "verify"
      BY <1>1, <1>2 DEF PhaseInv
    <3>2. QED
      BY <1>1, <1>2, <2>1, <2>2, <2>4, <3>1 DEF WalkInv, Whole, Working
  <2>9. QED
    BY <2>3, <2>5, <2>6, <2>7, <2>8 DEF ReadInv
<1>5. QED
  BY <1>3, <1>4

-----------------------------------------------------------------------------
(***************************************************************************)
(* Steps of the reader: objects                                            *)
(***************************************************************************)
\* An object that reads is passed, and what it lists is met.
LEMMA StepPassed ==
  ASSUME PackInv, ReaderTypeOK, ReadInv, NEW o \in Obj, Reading(o, Command), NEW more \in SUBSET Obj,
         cmd \in Walks => more = Entered(o), cmd \notin Walks => more = {},
         Passed(o, more), UNCHANGED <<vars, phase, cmd, hist>>
  PROVE  ReaderTypeOK' /\ ReadInv'
<1>1. /\ ReaderTypeOK /\ ViewInv /\ PhaseInv /\ QuietInv /\ AlarmInv /\ WalkInv /\ TypeOK
  BY DEF ReadInv, PackInv
<1>2. phase \in Working /\ rd.ids = {} /\ o \in rd.todo
  BY DEF Reading, Working
<1>3. /\ rd'.seen = rd.seen \cup {o} /\ rd'.todo = (rd.todo \cup (more \ rd.seen)) \ {o}
      /\ rd'.ids = rd.ids /\ rd'.roots = rd.roots /\ rd'.bad = rd.bad
      /\ rd'.temp = rd.temp /\ rd'.of = rd.of /\ rd'.found = rd.found
      /\ rd'.view = rd.view /\ rd'.pending = rd.pending
      /\ rd' \in Locals
  BY <1>1 DEF Passed, Locals, ReaderTypeOK
<1>4. ReaderTypeOK'
  BY <1>1, <1>3, SameRepository DEF ReaderTypeOK
<1>5. /\ Known' = Known
      /\ \A x \in Obj : Has(x)' = Has(x) /\ Entered(x)' = Entered(x)
  BY <1>3, SameRepository DEF Known, Has, InView, Entered
<1>6. rd.roots \in SUBSET Obj
  BY <1>1, GraphAssumption DEF ReaderTypeOK, Locals
<1>7. more \subseteq Reach(rd.roots)
  <2>1. CASE cmd \in Walks
    <3>1. o \in Reach(rd.roots) /\ Closed(Reach(rd.roots))
      BY <1>1, <1>2, <1>6, <2>1, ReachClosed DEF WalkInv
    <3>2. QED
      BY <2>1, <3>1 DEF Closed, Entered
  <2>2. CASE cmd \notin Walks
    BY <2>2
  <2>3. QED
    BY <2>1, <2>2
<1>8. cmd \in {"diff", "trace"} => more \subseteq Tree
  BY DEF Walks, Entered
<1>9. ViewInv'
  BY <1>1, <1>3, <1>5, <1>7, SameRepository DEF ViewInv
<1>10. PhaseInv'
  BY <1>1, <1>2, <1>3 DEF PhaseInv, Working
<1>11. QuietInv' /\ AlarmInv'
  BY <1>1, <1>2, <1>3, SameRepository DEF QuietInv, AlarmInv, AlarmsExplained
<1>12. WalkInv'
  <2>1. Met \cup more \subseteq Met'
    BY <1>3 DEF Met
  <2>2. \A x \in rd'.seen : cmd \in Walks => x = o \/ x \in rd.seen
    BY <1>3
  <2>3. rd'.seen \subseteq Obj
    BY <1>3 DEF Locals
  <2>4. cmd \in Walks /\ (phase = "reading" \/ (phase = "done" /\ rd.ids = {})) =>
          rd.roots \subseteq Met' /\ \A x \in rd'.seen : Entered(x)' \subseteq Met'
    BY <1>1, <1>5, <2>1, <2>2, <2>3 DEF WalkInv
  <2>5. rd'.seen \cup rd'.todo \subseteq rd.seen \cup rd.todo \cup more
        /\ rd.seen \cup rd.todo \subseteq rd'.seen \cup rd'.todo
    BY <1>2, <1>3
  <2>6. QED
    BY <1>1, <1>3, <1>5, <1>7, <1>8, <2>4, <2>5 DEF WalkInv
<1>13. QED
  BY <1>4, <1>9, <1>10, <1>11, <1>12 DEF ReadInv

\* One that does not has been taken; verify and recover-check go on.
LEMMA StepComplain ==
  ASSUME PackInv, ReaderTypeOK, ReadInv, NEW o \in Obj, Reading(o, Command), ~ Has(o), Complain(o),
         UNCHANGED <<vars, cmd, hist>>,
         phase' = "failed" \/ (cmd \in {"verify", "recover"} /\ phase' = phase)
  PROVE  ReaderTypeOK' /\ ReadInv'
<1>1. /\ ReaderTypeOK /\ ViewInv /\ PhaseInv /\ QuietInv /\ AlarmInv /\ WalkInv /\ TypeOK
  BY DEF ReadInv, PackInv
<1>2. phase \in Working /\ rd.ids = {} /\ o \in rd.todo
  BY DEF Reading, Working
<1>3. /\ rd'.bad = rd.bad \cup {o} /\ rd'.todo = rd.todo \ {o}
      /\ rd'.ids = rd.ids /\ rd'.roots = rd.roots /\ rd'.seen = rd.seen
      /\ rd'.temp = rd.temp /\ rd'.of = rd.of /\ rd'.found = rd.found
      /\ rd'.view = rd.view /\ rd'.pending = rd.pending
      /\ rd' \in Locals
  BY <1>1 DEF Complain, Locals, ReaderTypeOK
<1>4. ReaderTypeOK'
  BY <1>1, <1>3, SameRepository DEF ReaderTypeOK, Phase
<1>5. /\ Known' = Known
      /\ \A x \in Obj : Has(x)' = Has(x) /\ Entered(x)' = Entered(x)
  BY <1>3, SameRepository DEF Known, Has, InView, Entered
<1>6. o \in hist.taken
  <2>1. phase # "open" /\ o \in Known
    BY <1>1, <1>2 DEF Working, ViewInv
  <2>2. QED
    BY <1>1, <2>1, MissedTaken
<1>7. ViewInv'
  BY <1>1, <1>2, <1>3, <1>5, SameRepository DEF ViewInv, Working
<1>8. PhaseInv'
  BY <1>1, <1>2, <1>3 DEF PhaseInv, Working
<1>9. QuietInv' /\ AlarmInv'
  BY <1>1, <1>2, <1>3, <1>6, SameRepository DEF QuietInv, AlarmInv, AlarmsExplained, Working
<1>10. WalkInv'
  <2>1. Met \subseteq Met'
    BY <1>3 DEF Met
  <2>2. rd.seen \subseteq Obj
    BY <1>1 DEF Locals, ReaderTypeOK
  <2>3. phase' \in {"failed", "reading", "objects"} /\ (phase' = "failed" \/ phase' = phase)
    BY <1>2 DEF Working
  <2>4. cmd \in Walks /\ phase' = "reading" =>
          rd.roots \subseteq Met' /\ \A x \in rd.seen : Entered(x)' \subseteq Met'
    BY <1>1, <1>5, <2>1, <2>2, <2>3 DEF WalkInv
  <2>5. QED
    BY <1>1, <1>2, <1>3, <1>5, <1>6, <2>3, <2>4 DEF WalkInv, Working
<1>11. QED
  BY <1>4, <1>7, <1>8, <1>9, <1>10 DEF ReadInv

\* What the commands that walk do with an object, and what verify does with it.
LEMMA StepWalk ==
  ASSUME PackInv, ReaderTypeOK, ReadInv, NEW o \in Obj,
         ShowEntry(o) \/ FlattenTree(o) \/ FindPaths(o) \/ VerifyObject(o) \/ AuditObject(o)
  PROVE  ReaderTypeOK' /\ ReadInv'
<1>1. Gets(o) <=> Has(o)
  BY GetsIsHas DEF ReadInv, ViewInv, PackInv
<1>2. Kids[o] \in SUBSET Obj /\ Kids[o] \cap Tree \in SUBSET Obj /\ {} \in SUBSET Obj
  BY GraphAssumption
<1>3. UNCHANGED <<vars, cmd, hist>> /\ Reading(o, Command)
  BY DEF ShowEntry, FlattenTree, FindPaths, VerifyObject, AuditObject, Reading, Command, Whole, Api
<1>4. CASE Gets(o)
  <2>1. phase' = phase
    BY <1>4 DEF ShowEntry, FlattenTree, FindPaths, VerifyObject, AuditObject
  <2>2. CASE cmd \in {"show", "recover"}
    <3>1. Passed(o, Kids[o]) /\ Entered(o) = Kids[o]
      BY <1>4, <2>2 DEF ShowEntry, FlattenTree, FindPaths, VerifyObject, AuditObject, Entered, Reading
    <3>2. QED
      BY <1>2, <1>3, <2>1, <2>2, <3>1, StepPassed DEF Walks
  <2>3. CASE cmd \in {"diff", "trace"}
    <3>1. Passed(o, Kids[o] \cap Tree) /\ Entered(o) = Kids[o] \cap Tree
      BY <1>4, <2>3 DEF ShowEntry, FlattenTree, FindPaths, VerifyObject, AuditObject, Entered, Reading
    <3>2. QED
      BY <1>2, <1>3, <2>1, <2>3, <3>1, StepPassed DEF Walks
  <2>4. CASE cmd = "verify"
    <3>1. Passed(o, {})
      BY <1>4, <2>4 DEF ShowEntry, FlattenTree, FindPaths, VerifyObject, AuditObject, Reading
    <3>2. QED
      BY <1>2, <1>3, <2>1, <2>4, <3>1, StepPassed DEF Walks
  <2>5. QED
    BY <2>2, <2>3, <2>4 DEF ShowEntry, FlattenTree, FindPaths, VerifyObject, AuditObject, Reading
<1>5. CASE ~ Gets(o)
  <2>1. Complain(o) /\ (phase' = "failed" \/ (cmd \in {"verify", "recover"} /\ phase' = phase))
    BY <1>5 DEF ShowEntry, FlattenTree, FindPaths, VerifyObject, AuditObject, FailOn, Reading
  <2>2. QED
    BY <1>1, <1>3, <1>5, <2>1, StepComplain
<1>6. QED
  BY <1>4, <1>5

LEMMA StepMeasure ==
  ASSUME PackInv, ReaderTypeOK, ReadInv, NEW o \in Obj, Measure(o)
  PROVE  ReaderTypeOK' /\ ReadInv'
<1>1. /\ ReaderTypeOK /\ ViewInv /\ PhaseInv /\ QuietInv /\ AlarmInv /\ WalkInv /\ TypeOK
  BY DEF ReadInv, PackInv
<1>2. UNCHANGED <<vars, cmd, hist>> /\ Reading(o, Command) /\ cmd = "status" /\ phase \in Working
  BY DEF Measure, Reading, Command, Whole, Working
<1>3. CASE Has(o)
  <2>1. rd' = [rd EXCEPT !.todo = @ \ {o}] /\ phase' = phase
    BY <1>3 DEF Measure
  <2>2. /\ rd'.todo = rd.todo \ {o} /\ rd'.bad = rd.bad
        /\ rd'.ids = rd.ids /\ rd'.roots = rd.roots /\ rd'.seen = rd.seen
        /\ rd'.temp = rd.temp /\ rd'.view = rd.view /\ rd'.pending = rd.pending
        /\ rd' \in Locals
    BY <1>1, <2>1 DEF Locals, ReaderTypeOK
  <2>3. ReaderTypeOK'
    BY <1>1, <1>2, <2>1, <2>2, SameRepository DEF ReaderTypeOK
  <2>4. Known' = Known
    BY <1>2, <2>2, SameRepository DEF Known
  <2>5. ViewInv'
    BY <1>1, <1>2, <2>1, <2>2, <2>4, SameRepository DEF ViewInv
  <2>6. PhaseInv'
    BY <1>1, <1>2, <2>1, <2>2 DEF PhaseInv, Working
  <2>7. QuietInv' /\ AlarmInv'
    BY <1>1, <1>2, <2>1, <2>2, SameRepository DEF QuietInv, AlarmInv, AlarmsExplained
  <2>8. WalkInv'
    BY <1>1, <1>2, <2>1, <2>2 DEF WalkInv, Walks
  <2>9. QED
    BY <2>3, <2>5, <2>6, <2>7, <2>8 DEF ReadInv
<1>4. CASE ~ Has(o)
  BY <1>2, <1>4, StepComplain DEF Measure, FailOn
<1>5. QED
  BY <1>3, <1>4

LEMMA StepLast ==
  ASSUME PackInv, ReaderTypeOK, ReadInv, MeasureTemp \/ End
  PROVE  ReaderTypeOK' /\ ReadInv'
<1>1. /\ ReaderTypeOK /\ ViewInv /\ PhaseInv /\ QuietInv /\ AlarmInv /\ WalkInv /\ TypeOK
  BY DEF ReadInv, PackInv
<1>2. /\ UNCHANGED <<vars, cmd, rd, hist>> /\ phase \in Working
      /\ \/ phase' = "failed" /\ rd.temp
         \/ phase' = "done" /\ rd.ids = {} /\ rd.todo = {}
  BY DEF MeasureTemp, End, Working
<1>3. ReaderTypeOK'
  BY <1>1, <1>2, SameRepository DEF ReaderTypeOK, Phase
<1>4. Known' = Known /\ \A x \in Obj : Has(x)' = Has(x) /\ Entered(x)' = Entered(x)
  BY <1>2, SameRepository DEF Known, Has, InView, Entered
<1>5. ViewInv'
  BY <1>1, <1>2, <1>4, SameRepository DEF ViewInv, Working
<1>6. PhaseInv'
  BY <1>1, <1>2 DEF PhaseInv, Working
<1>7. QuietInv' /\ AlarmInv'
  BY <1>1, <1>2, SameRepository DEF QuietInv, AlarmInv, AlarmsExplained, Working
<1>8. WalkInv'
  <2>1. cmd \in Walks => phase = "reading"
    BY <1>1, <1>2 DEF PhaseInv, Working, Walks
  <2>2. Met' = Met
    BY <1>2 DEF Met
  <2>3. rd.seen \subseteq Obj
    BY <1>1 DEF Locals, ReaderTypeOK
  <2>4. cmd \in Walks => rd.roots \subseteq Met' /\ \A x \in rd.seen : Entered(x)' \subseteq Met'
    BY <1>1, <1>4, <2>1, <2>2, <2>3 DEF WalkInv
  <2>5. QED
    BY <1>1, <1>2, <1>4, <2>4 DEF WalkInv, Working
<1>9. QED
  BY <1>3, <1>5, <1>6, <1>7, <1>8 DEF ReadInv

-----------------------------------------------------------------------------
(***************************************************************************)
(* The readers' theorems                                                   *)
(***************************************************************************)
LEMMA NextRead ==
  ASSUME PackInv, TypeOK', SnapshotsReadable, ReaderTypeOK, ReadInv, [ReadersNext]_allVars
  PROVE  ReaderTypeOK' /\ ReadInv'
<1>1. CASE UNCHANGED allVars
  <2>1. UNCHANGED <<vars, phase, cmd, rd, hist>>
    BY <1>1 DEF allVars, reader
  <2>2. Known' = Known /\ Met' = Met /\ \A x \in Obj : Has(x)' = Has(x) /\ Entered(x)' = Entered(x)
    BY <2>1, SameRepository DEF Known, Has, InView, Entered, Met
  <2>3. ReaderTypeOK' /\ ViewInv' /\ PhaseInv' /\ QuietInv' /\ AlarmInv'
    BY <2>1, <2>2, SameRepository
       DEF ReadInv, ReaderTypeOK, ViewInv, PhaseInv, QuietInv, AlarmInv, AlarmsExplained
  <2>4. rd.seen \subseteq Obj
    BY DEF Locals, ReaderTypeOK
  <2>5. WalkInv'
    BY <2>1, <2>2, <2>4 DEF ReadInv, WalkInv
  <2>6. QED
    BY <2>3, <2>5 DEF ReadInv
<1>2. CASE Opening
  BY <1>2, StepOpen, StepCloseAnswer, StepLoadPack DEF Opening
<1>3. CASE Commands
  BY <1>3, StepCommands
<1>4. CASE Records
  BY <1>4, StepListIds, StepListObjects, StepLoadRecord DEF Records
<1>5. CASE Objects
  BY <1>5, StepLast, StepWalk, StepMeasure DEF Objects
<1>6. CASE Write
  BY <1>6, StepWrite
<1>7. QED
  BY <1>1, <1>2, <1>3, <1>4, <1>5, <1>6 DEF ReadersNext

\* A reader's step is none of the repository's.
LEMMA ReadersStep == [ReadersNext]_allVars => [Next]_vars
<1>1. ASSUME Commands PROVE UNCHANGED vars
  BY <1>1 DEF Commands, BeginList, BeginStatus, BeginVerify, BeginTrace, BeginExplain, BeginShow,
     BeginRecover, BeginDiff, Begin
<1>2. ASSUME Opening \/ Records PROVE UNCHANGED vars
  BY <1>2 DEF Opening, Open, Answer, Close, LoadPack, Records, ListIds, ListObjects, LoadRecord
<1>3. ASSUME Objects PROVE UNCHANGED vars
  BY <1>3 DEF Objects, MeasureTemp, End, ShowEntry, FlattenTree, FindPaths, Measure, VerifyObject, AuditObject
<1>4. ASSUME Write PROVE Next
  BY <1>4, WriterSteps DEF Write
<1>5. QED
  BY <1>1, <1>2, <1>3, <1>4 DEF ReadersNext, allVars

LEMMA InitRead == ReadersInit => ReaderTypeOK /\ ReadInv
<1> SUFFICES ASSUME ReadersInit PROVE ReaderTypeOK /\ ReadInv
  OBVIOUS
<1>1. /\ Init /\ TypeOK /\ phase = "off" /\ cmd = "none" /\ rd = NoLocals /\ hist = NoHist
  BY InitTyped DEF ReadersInit
<1>2. ReaderTypeOK
  BY <1>1, NoLocalsTyped DEF ReaderTypeOK, Phase, Command, NoLocals
<1>3. ViewInv
  BY <1>1, ReachNone DEF ViewInv, NoLocals, NoHist, Init
<1>4. PhaseInv /\ QuietInv
  BY <1>1 DEF PhaseInv, QuietInv, NoLocals, NoHist
<1>5. AlarmInv /\ WalkInv
  BY <1>1 DEF AlarmInv, AlarmsExplained, WalkInv, Walks, Whole, Working, NoLocals, NoHist
<1>6. QED
  BY <1>2, <1>3, <1>4, <1>5 DEF ReadInv

\* Everything a reader's theorem rests on.
ReadersInv == PackInv /\ SnapshotsReadable /\ ReaderTypeOK /\ ReadInv

LEMMA ReadersInvariant == ReadersSpec => []ReadersInv
<1>1. ReadersInit => ReadersInv
  BY InitRead, InitTyped, InitPacks, InitReadable DEF ReadersInv, PackInv, ReadersInit
<1>2. ReadersInv /\ [ReadersNext]_allVars => ReadersInv'
  BY ReadersStep, NextTyped, NextPacks, NextReadable, NextRead DEF ReadersInv, PackInv
<1>3. QED
  BY <1>1, <1>2, PTL DEF ReadersSpec

\* A walk through every entry has met what is reachable, and one that enters
\* directories only has met the reachable directories.
LEMMA WalkMeets ==
  ASSUME NEW R \in SUBSET Obj, NEW S \in SUBSET Obj, R \subseteq S, S \subseteq Reach(R)
  PROVE  /\ (\A o \in S : Kids[o] \subseteq S) => Reach(R) = S
         /\ S \subseteq Tree /\ (\A o \in S : Kids[o] \cap Tree \subseteq S) => Reach(R) \cap Tree = S
<1>1. (\A o \in S : Kids[o] \subseteq S) => Reach(R) \subseteq S
  BY ReachLeast DEF Closed
<1>2. ASSUME S \subseteq Tree, \A o \in S : Kids[o] \cap Tree \subseteq S
      PROVE  Reach(R) \cap Tree \subseteq S
  <2> DEFINE wider == S \cup (Obj \ Tree)
  <2>1. wider \in SUBSET Obj /\ R \subseteq wider /\ Closed(wider)
    BY <1>2, GraphAssumption DEF Closed
  <2>2. Reach(R) \subseteq wider
    BY <2>1, ReachLeast
  <2>3. QED
    BY <2>2
<1>3. QED
  BY <1>1, <1>2

\* What is reachable is a root or an entry of a reachable directory.
LEMMA ReachByEntry ==
  ASSUME NEW R \in SUBSET Obj
  PROVE  Reach(R) = R \cup UNION {Kids[t] : t \in Reach(R) \cap Tree}
<1> DEFINE entries == R \cup UNION {Kids[t] : t \in Reach(R) \cap Tree}
<1>1. entries \in SUBSET Obj /\ R \subseteq entries
  BY GraphAssumption
<1>2. entries \subseteq Reach(R)
  BY ReachHoldsRoots, ReachClosed DEF Closed
<1>3. Closed(entries)
  BY <1>1, <1>2, GraphAssumption DEF Closed
<1>4. QED
  BY <1>1, <1>2, <1>3, ReachLeast

LEMMA WalksComplete ==
  ASSUME ReaderTypeOK, ReadInv
  PROVE  WalkComplete
<1> SUFFICES ASSUME phase = "done" PROVE WalkComplete
  BY DEF WalkComplete
<1>1. PhaseInv /\ AlarmInv /\ WalkInv
  BY DEF ReadInv
<1>2. cmd # "recover" \/ rd.bad = {} => rd.ids = {} /\ rd.todo = {}
  BY <1>1 DEF PhaseInv
<1>3. cmd \notin {"verify", "recover"} => rd.bad = {}
  BY <1>1 DEF AlarmInv
<1>4. cmd \in Whole => hist.kept \subseteq rd.roots
  BY <1>1, <1>2 DEF WalkInv, Whole
<1>5. rd.roots \in SUBSET Obj /\ rd.seen \in SUBSET Obj
  BY GraphAssumption DEF ReaderTypeOK, Locals
<1>6. ASSUME cmd \in {"show", "diff", "recover"}, rd.bad = {}
      PROVE  /\ cmd # "diff" => rd.seen = Reach(rd.of)
             /\ cmd = "diff" => rd.seen = Reach(rd.of) \cap Tree
  <2>1. rd.of = rd.roots
    BY <1>1, <1>2, <1>6 DEF WalkInv
  <2>2. Met = rd.seen
    BY <1>2, <1>6 DEF Met
  <2>3. rd.roots \subseteq rd.seen /\ rd.seen \subseteq Reach(rd.roots) /\ \A o \in rd.seen : Entered(o) \subseteq rd.seen
    BY <1>1, <1>2, <1>6, <2>2 DEF WalkInv, Walks
  <2>4. CASE cmd = "diff"
    BY <1>1, <1>5, <2>1, <2>3, <2>4, WalkMeets DEF Entered, WalkInv
  <2>5. CASE cmd # "diff"
    BY <1>5, <1>6, <2>1, <2>3, <2>5, WalkMeets DEF Entered
  <2>6. QED
    BY <2>4, <2>5
<1>7. QED
  BY <1>3, <1>4, <1>6 DEF WalkComplete

LEMMA TraceIsRight ==
  ASSUME ReaderTypeOK, ReadInv
  PROVE  TraceTells
<1> SUFFICES ASSUME phase = "done", cmd = "trace", hist.quiet, rd.found
             PROVE  WouldGcDelete <=> rd.of \subseteq Listed \ Expand(NoBases)
  BY DEF TraceTells
<1>1. PhaseInv /\ QuietInv /\ AlarmInv /\ WalkInv
  BY DEF ReadInv
<1>2. PICK o \in Obj : rd.of = {o} /\ Has(o)
  BY <1>1 DEF WalkInv
<1>3. rd.ids = {} /\ rd.todo = {} /\ rd.bad = {}
  BY <1>1 DEF PhaseInv, AlarmInv
<1>4. rd.roots = live
  <2>1. rd.roots \subseteq hist.kept /\ hist.kept = live
    BY <1>1 DEF QuietInv
  <2>2. hist.kept \subseteq rd.roots \cup rd.ids
    BY <1>1 DEF WalkInv, Whole
  <2>3. QED
    BY <1>3, <2>1, <2>2
<1>5. live \in SUBSET Obj /\ rd.seen \in SUBSET Obj
  BY GraphAssumption DEF ReaderTypeOK, TypeOK, Locals
<1>6. rd.seen = Reach(live) \cap Tree
  <2>1. Met = rd.seen
    BY <1>3 DEF Met
  <2>2. /\ live \subseteq rd.seen /\ rd.seen \subseteq Reach(live) /\ rd.seen \subseteq Tree
        /\ \A x \in rd.seen : Kids[x] \cap Tree \subseteq rd.seen
    BY <1>1, <1>3, <1>4, <2>1 DEF WalkInv, Walks, Entered
  <2>3. QED
    BY <1>5, <2>2, WalkMeets
<1>7. TraceReferences <=> o \in Reach(live)
  BY <1>2, <1>4, <1>5, <1>6, ReachByEntry DEF TraceReferences
<1>8. Expand(NoBases) = Reach(live)
  <2>1. \A q \in Obj : NoBases[q] = NoObj
    BY DEF NoBases
  <2>2. Reach(live) \subseteq Obj
    BY DEF Reach
  <2>3. \A q \in Reach(live) : NoBases[q] \in Reach(live) \cup {NoObj}
    BY <2>1, <2>2
  <2>4. QED
    BY <2>2, <2>3 DEF Expand
<1>9. o \in Listed
  BY <1>2 DEF Has, InView, Listed, ReaderTypeOK
<1>10. QED
  BY <1>2, <1>7, <1>8, <1>9 DEF WouldGcDelete

\* The types of the readers, and that a pack in view stays healthy.
THEOREM ReadersTyping == ReadersSpec => []ReaderTypeOK
BY ReadersInvariant, PTL DEF ReadersInv

\* A command complains only of what was taken under its hands: pruned or
\* collected since the store was opened, or a snapshot removed meanwhile.
THEOREM ReadersAlarms == ReadersSpec => []AlarmsExplained
<1>1. ReadersInv => AlarmsExplained
  BY DEF ReadersInv, ReadInv, AlarmInv
<1>2. QED
  BY <1>1, ReadersInvariant, PTL

\* While nobody writes no command misses an object or fails, whatever the
\* killed commands before it left behind.
THEOREM QuietReaders == ReadersSpec => []QuietReadsSucceed
<1>1. ReadersInv => QuietReadsSucceed
  BY DEF ReadersInv, ReadInv, AlarmInv, AlarmsExplained, QuietInv, ViewInv, QuietReadsSucceed
<1>2. QED
  BY <1>1, ReadersInvariant, PTL

\* A verify that ends has read every object of the snapshots that stayed,
\* except those taken meanwhile.
THEOREM VerifiesAll == ReadersSpec => []VerifyComplete
<1>1. ReadersInv => VerifyComplete
  BY DEF ReadersInv, ReadInv, PhaseInv, WalkInv, VerifyComplete
<1>2. QED
  BY <1>1, ReadersInvariant, PTL

\* A listing prints every snapshot that stayed; show, diff and an audit that
\* reports nothing have walked exactly what was published.
THEOREM WalksAll == ReadersSpec => []WalkComplete
<1>1. ReadersInv => WalkComplete
  BY WalksComplete DEF ReadersInv
<1>2. QED
  BY <1>1, ReadersInvariant, PTL

\* trace says that an object would be collected exactly when the next
\* collection deletes it, while nobody writes and nothing is a delta.
THEOREM TraceIsTrusted == ReadersSpec => []TraceTells
<1>1. ReadersInv => TraceTells
  BY TraceIsRight DEF ReadersInv
<1>2. QED
  BY <1>1, ReadersInvariant, PTL

=============================================================================
