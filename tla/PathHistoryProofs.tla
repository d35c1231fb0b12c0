------------------------- MODULE PathHistoryProofs -------------------------
(***************************************************************************)
(* What the path history says is true, for any number of `vault log`       *)
(* commands beside each other and beside the commands that take and remove *)
(* snapshots.                                                              *)
(***************************************************************************)
EXTENDS PathHistory, TLAPS

-----------------------------------------------------------------------------
(***************************************************************************)
(* Types                                                                   *)
(***************************************************************************)
Typed ==
  /\ TypeOK
  /\ live \subseteq Taken
  /\ \A p \in Proc : my[p].todo \subseteq Taken

LEMMA BlankIsLocal == Blank \in Local
BY DEF Blank, Local, Empty

LEMMA WithEntriesType ==
  ASSUME TypeOK, NEW hist \in [Path -> SUBSET Entry], NEW i \in Taken
  PROVE  WithEntries(hist, i) \in [Path -> SUBSET Entry]
<1>1. i \in Id /\ taken[i] \in [Path -> Blob \cup {Absent}]
  BY PathAssumption DEF Taken, TypeOK
<1>2. ASSUME NEW a \in Path, taken[i][a] # Absent PROVE <<i, taken[i][a]>> \in Entry
  BY <1>1, <1>2 DEF Entry
<1>3. QED
  BY <1>2 DEF WithEntries

LEMMA WithLinksType ==
  ASSUME NEW links \in SUBSET Link, NEW i
  PROVE  WithLinks(links, i) \in SUBSET Link
BY DEF WithLinks

LEMMA InitTyped == Init => Typed
<1> SUFFICES ASSUME Init PROVE Typed
  OBVIOUS
<1>1. TypeOK
  BY BlankIsLocal DEF Init, TypeOK, Empty, Location
<1>2. \A p \in Proc : my[p].todo = {}
  BY DEF Init, Blank
<1>3. QED
  BY <1>1, <1>2 DEF Init, Typed

LEMMA NextTyped == Typed /\ [Next]_vars => Typed'
<1> SUFFICES ASSUME Typed, [Next]_vars PROVE Typed'
  OBVIOUS
<1>0. Blank.todo = {} /\ BOOLEAN = {TRUE, FALSE}
  BY DEF Blank
<1>1. CASE UNCHANGED vars
  BY <1>1 DEF vars, Typed, TypeOK, Taken
<1> USE BlankIsLocal, <1>0 DEF Typed, TypeOK, Goto, End, disk, Location
<1>2. ASSUME NEW i \in Id, NEW c \in Content, Take(i, c) PROVE Typed'
  <2>1. Taken' = Taken \cup {i}
    BY <1>2, PathAssumption DEF Take, Taken
  <2>2. QED
    BY <1>2, <2>1 DEF Take
<1>3. ASSUME NEW i \in Id, Remove(i) PROVE Typed'
  BY <1>3 DEF Remove, Taken
<1>4. ASSUME NEW p \in Proc, Log(p) PROVE Typed'
  <2>1. Taken' = Taken /\ taken' = taken /\ live' = live
    BY <1>4 DEF Log, LoadIndex, LoadLinks, UseIndex, Rebuild, Record, RecordFails, SaveIndex,
       SaveLinks, Report, Kill, Taken
  <2> USE <2>1
  <2>2. ASSUME NEW a \in Path, LoadIndex(p, a) PROVE Typed'
    <3> DEFINE new == [Blank EXCEPT !.path = a, !.hist = index, !.began = <<Taken, live>>]
    <3>1. <<Taken, live>> \in (SUBSET Id) \X (SUBSET Id)
      BY DEF Taken
    <3>2. new \in Local /\ new.todo = {}
      BY <3>1 DEF Blank, Local
    <3>3. my' = [my EXCEPT ![p] = new]
      BY <2>2 DEF LoadIndex
    <3> HIDE DEF new
    <3>4. QED
      BY <2>2, <3>2, <3>3 DEF LoadIndex
  <2>3. CASE LoadLinks(p)
    BY <2>3 DEF LoadLinks, Local
  <2>4. CASE UseIndex(p)
    BY <2>4 DEF UseIndex
  <2>5. CASE Rebuild(p)
    <3>1. Empty \in [Path -> SUBSET Entry]
      BY DEF Empty
    <3>2. my[p] \in Local /\ live \in SUBSET Id
      OBVIOUS
    <3>3. [my[p] EXCEPT !.hist = Empty, !.links = {}, !.rebuilt = TRUE, !.todo = live] \in Local
      BY <3>1, <3>2 DEF Local
    <3>4. my' = [my EXCEPT ![p] = [my[p] EXCEPT !.hist = Empty, !.links = {},
                                                !.rebuilt = TRUE, !.todo = live]]
      BY <2>5 DEF Rebuild
    <3>5. my' \in [Proc -> Local] /\ \A q \in Proc : my'[q].todo \subseteq Taken
      BY <3>3, <3>4 DEF Local
    <3>6. QED
      BY <2>5, <3>5 DEF Rebuild
  <2>6. CASE Record(p)
    <3>1. PICK i \in my[p].todo :
            my' = [my EXCEPT ![p].hist = WithEntries(@, i), ![p].links = WithLinks(@, i),
                             ![p].todo = @ \ {i}]
      BY <2>6 DEF Record
    <3>2. WithEntries(my[p].hist, i) \in [Path -> SUBSET Entry]
      BY WithEntriesType DEF Local
    <3>3. WithLinks(my[p].links, i) \in SUBSET Link
      BY WithLinksType DEF Local
    <3>4. [my[p] EXCEPT !.hist = WithEntries(@, i), !.links = WithLinks(@, i),
                        !.todo = @ \ {i}] \in Local
      BY <3>2, <3>3 DEF Local
    <3>5. my' = [my EXCEPT ![p] = [my[p] EXCEPT !.hist = WithEntries(@, i),
                                     !.links = WithLinks(@, i), !.todo = @ \ {i}]]
      BY <3>1
    <3>6. my' \in [Proc -> Local] /\ \A q \in Proc : my'[q].todo \subseteq Taken
      BY <3>4, <3>5 DEF Local
    <3>7. QED
      BY <2>6, <3>6 DEF Record
  <2>7. CASE RecordFails(p) \/ Report(p) \/ Kill(p)
    BY <2>7 DEF RecordFails, Report, Kill
  <2>8. CASE SaveIndex(p)
    BY <2>8 DEF SaveIndex, Local
  <2>9. CASE SaveLinks(p)
    BY <2>9 DEF SaveLinks, Local
  <2>10. QED
    BY <1>4, <2>2, <2>3, <2>4, <2>5, <2>6, <2>7, <2>8, <2>9 DEF Log
<1>5. QED
  BY <1>1, <1>2, <1>3, <1>4 DEF Next

\* The files and the locals of every log keep their types.
THEOREM HistoryTyping == Spec => []TypeOK
<1>1. Typed => TypeOK
  BY DEF Typed
<1>2. QED
  BY <1>1, InitTyped, NextTyped, PTL DEF Spec

-----------------------------------------------------------------------------
(***************************************************************************)
(* Soundness.  What a log has in memory is sound at every point, and the   *)
(* snapshots it still has to record are later than all it has recorded.    *)
(***************************************************************************)
Sound(hist, links) == SoundHistory(hist) /\ SoundLinks(links)

Later(p) == \A a \in Path : \A e \in my[p].hist[a] : \A j \in my[p].todo : e[1] < j

HistoryInv ==
  /\ Sound(index, sidecar)
  /\ \A p \in Proc : Sound(my[p].hist, my[p].links) /\ Later(p)

\* Recording a snapshot later than the entries there are.
LEMMA WithEntriesSound ==
  ASSUME Typed, NEW hist \in [Path -> SUBSET Entry], NEW i \in Taken, SoundHistory(hist),
         \A a \in Path : \A e \in hist[a] : e[1] < i
  PROVE  SoundHistory(WithEntries(hist, i))
<1> DEFINE new == WithEntries(hist, i)
<1>1. i \in Id
  BY DEF Taken
<1>2. SUFFICES ASSUME NEW a \in Path, NEW e \in new[a]
               PROVE  /\ e[1] \in Taken /\ taken[e[1]][a] = e[2]
                      /\ \A f \in new[a] :
                           f[1] < e[1] /\ (\A g \in new[a] : g[1] < e[1] => g[1] <= f[1])
                             => f[2] # e[2]
  BY DEF SoundHistory
<1>3. /\ hist[a] \subseteq new[a] /\ new[a] \subseteq hist[a] \cup {<<i, taken[i][a]>>}
      /\ <<i, taken[i][a]>> \notin hist[a]
  BY <1>1 DEF WithEntries, Id, Entry
<1>4. \A f \in hist[a] : f[1] \in Id /\ f[1] < i
  BY DEF Entry
<1> HIDE DEF new
<1>5. CASE e \in hist[a]
  <2>1. \A f \in new[a] : f[1] < e[1] => f \in hist[a]
    BY <1>1, <1>3, <1>4, <1>5 DEF Id
  <2>2. QED
    BY <1>3, <1>5, <2>1 DEF SoundHistory
<1>6. CASE e = <<i, taken[i][a]>> /\ e \notin hist[a]
  <2>1. ~LastIs(hist[a], taken[i][a])
    BY <1>6 DEF new, WithEntries
  <2>2. \A f \in new[a] : f[1] < e[1] => f \in hist[a]
    BY <1>1, <1>3, <1>6 DEF Id
  <2>3. ASSUME NEW f \in new[a], f[1] < e[1],
               \A g \in new[a] : g[1] < e[1] => g[1] <= f[1]
        PROVE  f[2] # e[2]
    <3>1. f \in hist[a] /\ \A g \in hist[a] : g[1] <= f[1]
      BY <1>3, <1>4, <1>6, <2>2, <2>3
    <3>2. QED
      BY <1>6, <2>1, <3>1 DEF LastIs
  <2>4. QED
    BY <1>6, <2>3
<1>7. QED
  BY <1>3, <1>5, <1>6

LEMMA WithLinksSound ==
  ASSUME Typed, NEW links, NEW i \in Taken, SoundLinks(links)
  PROVE  SoundLinks(WithLinks(links, i))
<1>1. SUFFICES ASSUME NEW l \in Link, l[3] = i, NEW j \in live, j < i,
                      Renamed(taken[j], taken[i], l[1], l[2])
               PROVE  /\ taken[i][l[1]] = Absent /\ taken[i][l[2]] # Absent
                      /\ taken[j][l[1]] = taken[i][l[2]] /\ taken[j][l[2]] = Absent
  BY DEF SoundLinks, WithLinks, Precedes, Typed
<1>2. PICK b \in Blob : /\ OnlyIn(taken[j], taken[i], b) = {l[1]}
                        /\ OnlyIn(taken[i], taken[j], b) = {l[2]}
  BY <1>1 DEF Renamed
<1>3. l[1] \in OnlyIn(taken[j], taken[i], b) /\ l[2] \in OnlyIn(taken[i], taken[j], b)
  BY <1>2
<1>4. QED
  BY <1>3, PathAssumption DEF OnlyIn

LEMMA InitSound == Init => HistoryInv
<1> SUFFICES ASSUME Init PROVE HistoryInv
  OBVIOUS
<1>1. Sound(Empty, {})
  BY DEF Sound, SoundHistory, SoundLinks, Empty
<1>2. \A p \in Proc : my[p].hist = Empty /\ my[p].links = {} /\ my[p].todo = {}
  BY DEF Init, Blank
<1>3. QED
  BY <1>1, <1>2 DEF Init, HistoryInv, Later

\* A new snapshot takes nothing back.
LEMMA SoundStays ==
  ASSUME Typed, NEW hist \in [Path -> SUBSET Entry], NEW links \in SUBSET Link,
         Sound(hist, links), \A i \in Taken : i \in Taken' /\ taken'[i] = taken[i]
  PROVE  Sound(hist, links)'
<1>1. SoundHistory(hist)'
  BY DEF Sound, SoundHistory
<1>2. SoundLinks(links)'
  BY DEF Sound, SoundLinks
<1>3. QED
  BY <1>1, <1>2 DEF Sound

LEMMA TakeSound ==
  ASSUME Typed, HistoryInv, NEW i \in Id, NEW c \in Content, Take(i, c)
  PROVE  HistoryInv'
<1>1. \A k \in Taken : k \in Taken' /\ taken'[k] = taken[k]
  BY PathAssumption DEF Take, Taken, Typed, TypeOK
<1>2. ASSUME NEW hist \in [Path -> SUBSET Entry], NEW links \in SUBSET Link,
             Sound(hist, links)
      PROVE  Sound(hist, links)'
  BY <1>1, <1>2, SoundStays
<1>3. Sound(index, sidecar)'
  <2>1. index' = index /\ sidecar' = sidecar
    BY DEF Take
  <2>2. index \in [Path -> SUBSET Entry] /\ sidecar \in SUBSET Link /\ Sound(index, sidecar)
    BY DEF Typed, TypeOK, HistoryInv
  <2>3. PICK hist \in [Path -> SUBSET Entry], links \in SUBSET Link :
          hist = index /\ links = sidecar
    BY <2>2
  <2>4. Sound(hist, links)'
    BY <1>2, <2>2, <2>3
  <2>5. QED
    BY <2>1, <2>3, <2>4
<1>4. ASSUME NEW p \in Proc PROVE Sound(my[p].hist, my[p].links)'
  <2>1. my' = my
    BY DEF Take
  <2>2. my[p].hist \in [Path -> SUBSET Entry] /\ my[p].links \in SUBSET Link
    BY DEF Typed, TypeOK, Local
  <2>3. PICK hist \in [Path -> SUBSET Entry], links \in SUBSET Link :
          hist = my[p].hist /\ links = my[p].links
    BY <2>2
  <2>4. Sound(hist, links)'
    BY <1>2, <2>3 DEF HistoryInv
  <2>5. QED
    BY <2>1, <2>3, <2>4
<1>5. ASSUME NEW p \in Proc PROVE Later(p)'
  BY DEF Take, HistoryInv, Later
<1>6. QED
  BY <1>3, <1>4, <1>5 DEF HistoryInv

\* A log whose memory stays sound and that writes nothing unsound.
LEMMA LogFrame ==
  ASSUME Typed, HistoryInv, NEW p \in Proc, taken' = taken,
         NEW new \in Local, my' = [my EXCEPT ![p] = new],
         Sound(new.hist, new.links),
         \A a \in Path : \A e \in new.hist[a] : \A j \in new.todo : e[1] < j,
         Sound(index', sidecar')
  PROVE  HistoryInv'
<1>1. my'[p] = new /\ \A q \in Proc \ {p} : my'[q] = my[q]
  BY DEF Typed, TypeOK
<1>2. ASSUME NEW q \in Proc PROVE Sound(my[q].hist, my[q].links)' /\ Later(q)'
  <2>1. CASE q = p
    BY <1>1, <2>1 DEF Sound, SoundHistory, SoundLinks, Taken, Later
  <2>2. CASE q # p
    BY <1>1, <2>2 DEF HistoryInv, Sound, SoundHistory, SoundLinks, Taken, Later
  <2>3. QED
    BY <2>1, <2>2
<1>3. Sound(index, sidecar)'
  BY DEF Sound, SoundHistory, SoundLinks, Taken
<1>4. QED
  BY <1>2, <1>3 DEF HistoryInv

LEMMA RecordSound ==
  ASSUME Typed, HistoryInv, NEW p \in Proc, Record(p)
  PROVE  HistoryInv'
<1>1. PICK i \in my[p].todo :
        /\ \A j \in my[p].todo : i <= j
        /\ my' = [my EXCEPT ![p].hist = WithEntries(@, i), ![p].links = WithLinks(@, i),
                            ![p].todo = @ \ {i}]
  BY DEF Record
<1> DEFINE hist == WithEntries(my[p].hist, i)
           links == WithLinks(my[p].links, i)
           new == [my[p] EXCEPT !.hist = hist, !.links = links, !.todo = @ \ {i}]
<1>2. /\ my[p] \in Local /\ my[p].hist \in [Path -> SUBSET Entry]
      /\ my[p].links \in SUBSET Link /\ my[p].todo \in SUBSET Id /\ i \in Taken
  BY DEF Typed, TypeOK, Local
<1>3. Later(p) /\ SoundHistory(my[p].hist) /\ SoundLinks(my[p].links)
  BY DEF HistoryInv, Sound
<1>4. hist \in [Path -> SUBSET Entry] /\ links \in SUBSET Link
  BY <1>2, WithEntriesType, WithLinksType DEF Typed
<1>5. SoundHistory(hist)
  BY <1>2, <1>3, WithEntriesSound DEF Later
<1>6. SoundLinks(links)
  BY <1>2, <1>3, WithLinksSound
<1>7. \A a \in Path : \A e \in hist[a] : \A j \in my[p].todo \ {i} : e[1] < j
  <2>1. \A a \in Path : \A e \in hist[a] : e \in my[p].hist[a] \/ e[1] = i
    BY DEF WithEntries
  <2>2. \A j \in my[p].todo \ {i} : i < j
    BY <1>1, <1>2 DEF Id
  <2>3. QED
    BY <1>3, <2>1, <2>2 DEF Later
<1> HIDE DEF hist, links
<1>8. new \in Local /\ new.hist = hist /\ new.links = links /\ new.todo = my[p].todo \ {i}
  BY <1>2, <1>4 DEF Local
<1>9. my' = [my EXCEPT ![p] = new]
  BY <1>1 DEF hist, links
<1>10. taken' = taken /\ index' = index /\ sidecar' = sidecar
  BY DEF Record, disk
<1> HIDE DEF new
<1>11. QED
  BY <1>5, <1>6, <1>7, <1>8, <1>9, <1>10, LogFrame DEF Sound, HistoryInv

LEMMA LogSound ==
  ASSUME Typed, HistoryInv, NEW p \in Proc, Log(p)
  PROVE  HistoryInv'
<1>1. my[p] \in Local /\ Sound(my[p].hist, my[p].links) /\ Later(p) /\ Sound(index, sidecar)
  BY DEF Typed, TypeOK, HistoryInv
<1>2. Blank.hist = Empty /\ Blank.links = {} /\ Blank.todo = {} /\ Sound(Empty, {})
  BY DEF Blank, Sound, SoundHistory, SoundLinks, Empty
<1>3. ASSUME NEW a \in Path, LoadIndex(p, a) PROVE HistoryInv'
  <2> DEFINE new == [Blank EXCEPT !.path = a, !.hist = index, !.began = <<Taken, live>>]
  <2>1. <<Taken, live>> \in (SUBSET Id) \X (SUBSET Id) /\ index \in [Path -> SUBSET Entry]
    BY DEF Taken, Typed, TypeOK
  <2>2. new \in Local /\ new.hist = index /\ new.links = {} /\ new.todo = {}
    BY <2>1, BlankIsLocal DEF Blank, Local
  <2>3. /\ my' = [my EXCEPT ![p] = new] /\ taken' = taken
        /\ index' = index /\ sidecar' = sidecar
    BY <1>3 DEF LoadIndex, disk
  <2>4. Sound(index, {})
    BY <1>1 DEF Sound, SoundLinks
  <2> HIDE DEF new
  <2>5. QED
    BY <1>1, <2>2, <2>3, <2>4, LogFrame
<1>4. CASE LoadLinks(p)
  <2> DEFINE new == [my[p] EXCEPT !.links = sidecar]
  <2>1. /\ new \in Local /\ new.hist = my[p].hist /\ new.links = sidecar
        /\ new.todo = my[p].todo
    BY <1>1 DEF Local, Typed, TypeOK
  <2>2. /\ my' = [my EXCEPT ![p] = new] /\ taken' = taken
        /\ index' = index /\ sidecar' = sidecar
    BY <1>4 DEF LoadLinks, disk
  <2>3. Sound(my[p].hist, sidecar)
    BY <1>1 DEF Sound
  <2> HIDE DEF new
  <2>4. QED
    BY <1>1, <2>1, <2>2, <2>3, LogFrame DEF Later
<1>5. CASE Rebuild(p)
  <2> DEFINE new == [my[p] EXCEPT !.hist = Empty, !.links = {}, !.rebuilt = TRUE, !.todo = live]
  <2>1. Empty \in [Path -> SUBSET Entry] /\ live \in SUBSET Id
    BY DEF Empty, Typed, TypeOK
  <2>2. new \in Local /\ new.hist = Empty /\ new.links = {}
    BY <1>1, <2>1 DEF Local
  <2>3. /\ my' = [my EXCEPT ![p] = new] /\ taken' = taken
        /\ index' = index /\ sidecar' = sidecar
    BY <1>5 DEF Rebuild, disk
  <2>4. \A a \in Path : \A e \in new.hist[a] : \A j \in new.todo : e[1] < j
    BY <2>2 DEF Empty
  <2> HIDE DEF new
  <2>5. QED
    BY <1>1, <1>2, <2>2, <2>3, <2>4, LogFrame
<1>6. CASE Record(p)
  BY <1>6, RecordSound
<1>7. CASE RecordFails(p) \/ Report(p) \/ Kill(p)
  <2>1. /\ my' = [my EXCEPT ![p] = Blank] /\ taken' = taken
        /\ index' = index /\ sidecar' = sidecar
    BY <1>7 DEF RecordFails, Report, Kill, End, disk
  <2>2. \A a \in Path : \A e \in Blank.hist[a] : \A j \in Blank.todo : e[1] < j
    BY <1>2
  <2>3. QED
    BY <1>1, <1>2, <2>1, <2>2, BlankIsLocal, LogFrame
<1>8. CASE UseIndex(p) \/ SaveIndex(p) \/ SaveLinks(p)
  <2>1. /\ my' = my /\ taken' = taken
        /\ index' = index \/ index' = my[p].hist
        /\ sidecar' = sidecar \/ sidecar' = my[p].links
    BY <1>8 DEF UseIndex, SaveIndex, SaveLinks, disk
  <2>2. my' = [my EXCEPT ![p] = my[p]]
    BY <2>1 DEF Typed, TypeOK
  <2>3. Sound(index', sidecar')
    BY <1>1, <2>1 DEF Sound
  <2>4. QED
    BY <1>1, <2>1, <2>2, <2>3, LogFrame DEF Later
<1>9. QED
  BY <1>3, <1>4, <1>5, <1>6, <1>7, <1>8 DEF Log

LEMMA NextSound == Typed /\ HistoryInv /\ [Next]_vars => HistoryInv'
<1> SUFFICES ASSUME Typed, HistoryInv, [Next]_vars PROVE HistoryInv'
  OBVIOUS
<1>1. CASE UNCHANGED vars
  BY <1>1 DEF vars, HistoryInv, Sound, SoundHistory, SoundLinks, Taken, Later
<1>2. ASSUME NEW i \in Id, NEW c \in Content, Take(i, c) PROVE HistoryInv'
  BY <1>2, TakeSound
<1>3. ASSUME NEW i \in Id, Remove(i) PROVE HistoryInv'
  BY <1>3 DEF Remove, HistoryInv, Sound, SoundHistory, SoundLinks, Taken, Later
<1>4. ASSUME NEW p \in Proc, Log(p) PROVE HistoryInv'
  BY <1>4, LogSound
<1>5. QED
  BY <1>1, <1>2, <1>3, <1>4 DEF Next

\* Nothing in the index on disk is made up, and no entry repeats the one
\* before it, for any number of overlapping and killed logs and whatever
\* snapshots come and go.
THEOREM IndexTrue == Spec => []IndexSound
<1>1. HistoryInv => IndexSound
  BY DEF HistoryInv, Sound, IndexSound
<1>2. QED
  BY <1>1, InitTyped, InitSound, NextTyped, NextSound, PTL DEF Spec

\* Every rename link on disk is a move of one content from the one path to
\* the other.
THEOREM LinksTrue == Spec => []LinksSound
<1>1. HistoryInv => LinksSound
  BY DEF HistoryInv, Sound, LinksSound
<1>2. QED
  BY <1>1, InitTyped, InitSound, NextTyped, NextSound, PTL DEF Spec

-----------------------------------------------------------------------------
(***************************************************************************)
(* Exactness.  What an undisturbed rebuild has recorded so far is what the *)
(* snapshots it is done with say.  The last entry of a path is then the    *)
(* content it had last, which is what the next snapshot is compared with.  *)
(***************************************************************************)
Present(a, D) == {l \in D : taken[l][a] # Absent}

\* Changes and Moves, of the snapshots in D.
ChangesIn(a, D) ==
  {<<i, taken[i][a]>> : i \in {k \in Present(a, D) :
     \A j \in D : Precedes(Present(a, D), j, k) => taken[j][a] # taken[k][a]}}

MovesIn(D) ==
  {l \in Link : l[3] \in D /\
    \E j \in live : Precedes(live, j, l[3]) /\ Renamed(taken[j], taken[l[3]], l[1], l[2])}

Recorded(a, entries, D) ==
  /\ entries = ChangesIn(a, D)
  /\ Present(a, D) # {} => \E g \in Present(a, D) : /\ \A k \in Present(a, D) : k <= g
                                                    /\ LastIs(entries, taken[g][a])

Done(p) == live \ my[p].todo

RebuildInv(p) ==
  /\ my[p].rebuilt => pc[p] \in {"record", "saveIndex", "saveLinks", "report"}
  /\ pc[p] = "report" => my[p].todo = {} \/ ~ my[p].rebuilt
  /\ my[p].began[1] \subseteq Taken
  /\ my[p].began[1] = Taken => live \subseteq my[p].began[2]
  /\ my[p].rebuilt /\ Quiet(p) =>
       /\ my[p].todo \subseteq live
       /\ \A d \in Done(p) : \A j \in my[p].todo : d < j
       /\ \A a \in Path : Recorded(a, my[p].hist[a], Done(p))
       /\ my[p].links = MovesIn(Done(p))

RebuildsInv == \A p \in Proc : RebuildInv(p)

\* The blob of the last entry is the one that was there last.
LEMMA LastIsPresent ==
  ASSUME Typed, NEW a \in Path, NEW D \in SUBSET Taken, NEW entries, Recorded(a, entries, D), NEW b,
         NEW g \in Present(a, D), \A k \in Present(a, D) : k <= g
  PROVE  LastIs(entries, b) <=> b = taken[g][a]
<1>1. PICK h \in Present(a, D) : /\ \A k \in Present(a, D) : k <= h
                                 /\ LastIs(entries, taken[h][a])
  BY DEF Recorded
<1>2. g \in Int /\ h \in Int /\ g <= h /\ h <= g
  BY <1>1 DEF Present, Taken, Id
<1>3. g = h
  BY <1>2
<1>4. \A e \in entries : e[1] \in Int /\ e[2] = taken[e[1]][a]
  BY DEF Recorded, ChangesIn, Present, Taken, Id
<1>5. ASSUME LastIs(entries, b) PROVE b = taken[g][a]
  <2>1. PICK e \in entries : e[2] = b /\ \A f \in entries : f[1] <= e[1]
    BY <1>5 DEF LastIs
  <2>2. PICK f \in entries : f[2] = taken[g][a] /\ \A x \in entries : x[1] <= f[1]
    BY <1>1, <1>3 DEF LastIs
  <2>3. e[1] = f[1]
    BY <1>4, <2>1, <2>2
  <2>4. QED
    BY <1>4, <2>1, <2>2, <2>3
<1>6. QED
  BY <1>1, <1>3, <1>5

\* One more snapshot, later than all before it.
LEMMA RecordedNext ==
  ASSUME Typed, NEW a \in Path, NEW D \in SUBSET Taken, NEW i \in Taken, \A d \in D : d < i,
         NEW entries, Recorded(a, entries, D)
  PROVE  Recorded(a, IF taken[i][a] = Absent \/ LastIs(entries, taken[i][a]) THEN entries
                     ELSE entries \cup {<<i, taken[i][a]>>}, D \cup {i})
<1> DEFINE E == D \cup {i}
           b == taken[i][a]
           kept(S) == {k \in Present(a, S) : \A j \in S : Precedes(Present(a, S), j, k) => taken[j][a] # taken[k][a]}
<1>1. i \in Int /\ i <= i /\ ~ (i < i) /\ i \notin D
      /\ \A d \in D : d \in Int /\ d < i /\ d <= i /\ ~ (i < d)
  BY DEF Taken, Id
<1>2. \A S : ChangesIn(a, S) = {<<k, taken[k][a]>> : k \in kept(S)}
  BY DEF ChangesIn
<1>3. CASE b = Absent
  <2>1. Present(a, E) = Present(a, D)
    BY <1>3 DEF Present
  <2>2. ChangesIn(a, E) = ChangesIn(a, D)
    <3>1. kept(E) = kept(D)
      BY <1>1, <2>1 DEF Precedes, Present
    <3>2. QED
      BY <1>2, <3>1
  <2>3. QED
    BY <1>3, <2>1, <2>2 DEF Recorded
<1>4. CASE b # Absent
  <2>1. Present(a, E) = Present(a, D) \cup {i} /\ Present(a, D) \subseteq D
    BY <1>4 DEF Present
  <2>2. \A k \in Present(a, D), j \in E : Precedes(Present(a, E), j, k) <=> Precedes(Present(a, D), j, k)
    <3> SUFFICES ASSUME NEW k \in Present(a, D), NEW j \in E
                 PROVE  Precedes(Present(a, E), j, k) <=> Precedes(Present(a, D), j, k)
      OBVIOUS
    <3>1. ~ (i < k)
      BY <1>1, <2>1
    <3> QED
      BY <2>1, <3>1 DEF Precedes
  <2>3. \A k \in Present(a, D) : k \in kept(E) <=> k \in kept(D)
    <3>1. \A k \in Present(a, D), j \in E : Precedes(Present(a, D), j, k) => j \in D
      BY <2>1 DEF Precedes
    <3>2. QED
      BY <2>1, <2>2, <3>1
  <2>4. i \in kept(E) <=> ~ LastIs(entries, b)
    <3>1. CASE Present(a, D) = {}
      <4>1. entries = {}
        BY <3>1 DEF Recorded, ChangesIn
      <4>2. \A j \in E : ~ Precedes(Present(a, E), j, i)
        BY <1>1, <2>1, <3>1 DEF Precedes
      <4>3. QED
        BY <2>1, <4>1, <4>2 DEF LastIs
    <3>2. CASE Present(a, D) # {}
      <4>1. PICK g \in Present(a, D) : \A k \in Present(a, D) : k <= g
        BY <3>2 DEF Recorded
      <4>2. LastIs(entries, b) <=> b = taken[g][a]
        BY <4>1, LastIsPresent
      <4>3. g \in E /\ Precedes(Present(a, E), g, i)
        <5>1. g \in D /\ g < i /\ ~ (i < i)
          BY <1>1, <2>1
        <5>2. QED
          BY <2>1, <4>1, <5>1 DEF Precedes
      <4>4. \A j \in E : Precedes(Present(a, E), j, i) => j = g
        BY <1>1, <2>1, <4>1, <4>3 DEF Precedes
      <4>5. i \in kept(E) <=> taken[g][a] # taken[i][a]
        BY <2>1, <4>3, <4>4
      <4>6. QED
        BY <4>2, <4>5
    <3>3. QED
      BY <3>1, <3>2
  <2>5. kept(E) \subseteq Present(a, D) \cup {i} /\ kept(D) \subseteq Present(a, D)
    BY <2>1
  <2>6. kept(E) = IF LastIs(entries, b) THEN kept(D) ELSE kept(D) \cup {i}
    BY <1>1, <2>1, <2>3, <2>4, <2>5
  <2> HIDE DEF kept
  <2>7. ChangesIn(a, E) = IF LastIs(entries, b) THEN entries ELSE entries \cup {<<i, b>>}
    <3>1. ChangesIn(a, E) = {<<k, taken[k][a]>> : k \in kept(E)}
          /\ entries = {<<k, taken[k][a]>> : k \in kept(D)}
      BY <1>2 DEF Recorded
    <3>2. QED
      BY <2>6, <3>1
  <2> HIDE DEF E, b
  <2>8. \A k \in Present(a, E) : k <= i
    BY <1>1, <2>1
  <2>9. (\A e \in entries : e[1] <= i) /\ i <= i
    BY <1>1 DEF Recorded, ChangesIn, Present
  <2>10. ~ LastIs(entries, b) => LastIs(entries \cup {<<i, b>>}, b)
    <3> DEFINE new == <<i, b>>
    <3>1. new[1] = i /\ new[2] = b
      OBVIOUS
    <3>2. \A f \in entries \cup {new} : f[1] <= new[1]
      BY <2>9, <3>1
    <3> HIDE DEF new
    <3>3. LastIs(entries \cup {new}, b)
      BY <3>1, <3>2 DEF LastIs
    <3>4. QED
      BY <3>3 DEF new
  <2>11. Recorded(a, ChangesIn(a, E), E)
    <3>1. LastIs(ChangesIn(a, E), b) /\ i \in Present(a, E)
      BY <2>1, <2>7, <2>10
    <3>2. QED
      BY <2>8, <3>1 DEF Recorded, b
  <2>12. QED
    BY <1>4, <2>7, <2>11 DEF b, E
<1>5. QED
  BY <1>3, <1>4

LEMMA InitRebuild == Init => RebuildsInv
<1> SUFFICES ASSUME Init, NEW p \in Proc PROVE RebuildInv(p)
  BY DEF RebuildsInv
<1>1. my[p].rebuilt = FALSE /\ my[p].began = <<{}, {}>> /\ live = {} /\ pc[p] = "idle"
  BY DEF Init, Blank
<1>2. QED
  BY <1>1 DEF RebuildInv

\* A log that goes on, or ends, while the snapshots stay as they are.
LEMMA LogRebuild ==
  ASSUME Typed, NEW p \in Proc, RebuildInv(p), Log(p)
  PROVE  RebuildInv(p)'
<1>1. /\ taken' = taken /\ live' = live /\ Taken' = Taken /\ live \subseteq Taken
      /\ my \in [Proc -> Local] /\ pc \in [Proc -> Location] /\ my[p].todo \subseteq Taken
  BY DEF Log, LoadIndex, LoadLinks, UseIndex, Rebuild, Record, RecordFails, SaveIndex,
     SaveLinks, Report, Kill, Taken, disk, Typed, TypeOK
<1>2. my[p] \in Local
  BY <1>1
<1>3. \A a \in Path : \A entries, D : Recorded(a, entries, D)' <=> Recorded(a, entries, D)
  BY <1>1 DEF Recorded, ChangesIn, Present
<1>4. CASE RecordFails(p) \/ Report(p) \/ Kill(p)
  <2>1. my'[p] = Blank
    BY <1>1, <1>4 DEF RecordFails, Report, Kill, End
  <2>2. my'[p].rebuilt = FALSE /\ my'[p].began = <<{}, {}>>
    BY <2>1 DEF Blank
  <2>3. QED
    BY <1>1, <2>2 DEF RebuildInv
<1>5. ASSUME NEW a \in Path, LoadIndex(p, a) PROVE RebuildInv(p)'
  <2>1. my'[p] = [Blank EXCEPT !.path = a, !.hist = index, !.began = <<Taken, live>>]
    BY <1>1, <1>5 DEF LoadIndex
  <2>2. my'[p].rebuilt = FALSE /\ my'[p].began = <<Taken, live>>
    BY <2>1 DEF Blank
  <2>3. QED
    BY <1>1, <2>2 DEF RebuildInv
<1>6. CASE LoadLinks(p) \/ UseIndex(p)
  <2>1. ~ my[p].rebuilt
    BY <1>6 DEF LoadLinks, UseIndex, RebuildInv
  <2>2. my'[p].rebuilt = my[p].rebuilt /\ my'[p].began = my[p].began
    BY <1>1, <1>2, <1>6 DEF LoadLinks, UseIndex, Local
  <2>3. QED
    BY <1>1, <2>1, <2>2 DEF RebuildInv
<1>7. CASE Rebuild(p)
  <2>1. my'[p] = [my[p] EXCEPT !.hist = Empty, !.links = {}, !.rebuilt = TRUE, !.todo = live]
        /\ pc'[p] = IF live = {} THEN "report" ELSE "record"
    BY <1>1, <1>7 DEF Rebuild, Goto
  <2>2. /\ my'[p].hist = Empty /\ my'[p].links = {} /\ my'[p].todo = live
        /\ my'[p].began = my[p].began
    BY <1>2, <2>1 DEF Local
  <2>3. Done(p)' = {}
    BY <1>1, <2>2 DEF Done
  <2>4. \A a \in Path : Recorded(a, Empty[a], {})
    BY DEF Recorded, ChangesIn, Present, Empty
  <2>5. MovesIn({})' = {}
    BY DEF MovesIn
  <2>6. \A a \in Path : Recorded(a, my[p].hist[a], Done(p))'
    BY <1>3, <2>2, <2>3, <2>4
  <2>7. QED
    BY <1>1, <2>1, <2>2, <2>3, <2>5, <2>6 DEF RebuildInv
<1>8. CASE SaveIndex(p) \/ SaveLinks(p)
  <2>1. my' = my /\ pc'[p] \in {"saveLinks", "report", "record"} /\ (pc'[p] = "report" => my[p].todo = {})
    BY <1>1, <1>8 DEF SaveIndex, SaveLinks, Goto
  <2>2. Done(p)' = Done(p) /\ Quiet(p)' = Quiet(p) /\ \A D : MovesIn(D)' = MovesIn(D)
    BY <1>1, <2>1 DEF Done, Quiet, MovesIn
  <2>3. \A a \in Path : Recorded(a, my[p].hist[a], Done(p))' <=> Recorded(a, my[p].hist[a], Done(p))
    BY <1>3, <2>1, <2>2
  <2>4. QED
    BY <1>1, <2>1, <2>2, <2>3 DEF RebuildInv
<1>9. CASE Record(p)
  <2>1. PICK i \in my[p].todo :
          /\ \A j \in my[p].todo : i <= j
          /\ my' = [my EXCEPT ![p].hist = WithEntries(@, i), ![p].links = WithLinks(@, i),
                              ![p].todo = @ \ {i}]
    BY <1>9 DEF Record
  <2> DEFINE hist == WithEntries(my[p].hist, i)
             links == WithLinks(my[p].links, i)
             D == Done(p)
  <2>2. my'[p] = [my[p] EXCEPT !.hist = hist, !.links = links, !.todo = @ \ {i}]
        /\ pc'[p] = "saveIndex"
    BY <1>1, <1>9, <2>1 DEF Record, Goto
  <2>3. /\ my'[p].hist = hist /\ my'[p].links = links /\ my'[p].todo = my[p].todo \ {i}
        /\ my'[p].began = my[p].began /\ my'[p].rebuilt = my[p].rebuilt
    BY <1>2, <2>2 DEF Local
  <2>4. my[p].rebuilt /\ Quiet(p)' => my[p].rebuilt /\ Quiet(p)
    BY <1>1, <2>3 DEF Quiet
  <2>5. ASSUME my[p].rebuilt, Quiet(p)
        PROVE  /\ my'[p].todo \subseteq live
               /\ \A d \in Done(p)' : \A j \in my'[p].todo : d < j
               /\ \A a \in Path : Recorded(a, hist[a], Done(p)')
               /\ links = MovesIn(Done(p)')
    <3>1. /\ my[p].todo \subseteq live
          /\ \A d \in D : \A j \in my[p].todo : d < j
          /\ \A a \in Path : Recorded(a, my[p].hist[a], D)
          /\ my[p].links = MovesIn(D)
      BY <2>5 DEF RebuildInv
    <3>2. Done(p)' = D \cup {i} /\ D \in SUBSET Taken /\ i \in Taken /\ \A d \in D : d < i
      BY <1>1, <2>3, <3>1 DEF Done
    <3>3. \A j \in my[p].todo \ {i} : i < j
      BY <1>1, <2>1 DEF Taken, Id
    <3>4. \A a \in Path : hist[a] = IF taken[i][a] = Absent \/ LastIs(my[p].hist[a], taken[i][a])
                                      THEN my[p].hist[a] ELSE my[p].hist[a] \cup {<<i, taken[i][a]>>}
      BY DEF WithEntries
    <3>5. \A a \in Path : Recorded(a, hist[a], D \cup {i})
      <4> TAKE a \in Path
      <4>1. Recorded(a, my[p].hist[a], D)
        BY <3>1
      <4> HIDE DEF hist, D
      <4>2. Recorded(a, IF taken[i][a] = Absent \/ LastIs(my[p].hist[a], taken[i][a]) THEN my[p].hist[a]
                        ELSE my[p].hist[a] \cup {<<i, taken[i][a]>>}, D \cup {i})
        BY <3>2, <4>1, RecordedNext
      <4>3. QED
        BY <3>4, <4>2
    <3>6. links = MovesIn(D \cup {i})
      BY <3>1 DEF WithLinks, MovesIn
    <3> HIDE DEF hist, links, D
    <3>7. QED
      BY <2>3, <3>1, <3>2, <3>3, <3>5, <3>6
  <2> HIDE DEF hist, links
  <2>6. \A S : MovesIn(S)' = MovesIn(S)
    BY <1>1 DEF MovesIn
  <2>7. my'[p].rebuilt /\ Quiet(p)' =>
          /\ \A a \in Path : Recorded(a, my[p].hist[a], Done(p))'
          /\ my'[p].links = MovesIn(Done(p))'
    BY <1>3, <2>3, <2>4, <2>5, <2>6
  <2>8. QED
    BY <1>1, <2>2, <2>3, <2>4, <2>5, <2>7 DEF RebuildInv
<1>10. QED
  BY <1>4, <1>5, <1>6, <1>7, <1>8, <1>9 DEF Log

\* Steps of others: a rebuild beside which a snapshot came or went is not quiet.
LEMMA NextRebuild == Typed /\ RebuildsInv /\ [Next]_vars => RebuildsInv'
<1> SUFFICES ASSUME Typed, NEW p \in Proc, RebuildInv(p), [Next]_vars PROVE RebuildInv(p)'
  BY DEF RebuildsInv
<1>1. live \subseteq Taken /\ my \in [Proc -> Local] /\ pc \in [Proc -> Location]
  BY DEF Typed, TypeOK
<1>2. CASE taken' = taken /\ live' = live /\ my'[p] = my[p] /\ pc'[p] = pc[p]
  <2>1. Taken' = Taken /\ Done(p)' = Done(p) /\ MovesIn(Done(p))' = MovesIn(Done(p)) /\ Quiet(p)' = Quiet(p)
    BY <1>2 DEF Taken, Done, MovesIn, Quiet
  <2>2. \A a \in Path : Recorded(a, my[p].hist[a], Done(p))' <=> Recorded(a, my[p].hist[a], Done(p))
    BY <1>2, <2>1 DEF Recorded, ChangesIn, Present
  <2>3. QED
    BY <1>2, <2>1, <2>2 DEF RebuildInv
<1>3. ASSUME NEW i \in Id, NEW c \in Content, Take(i, c) PROVE RebuildInv(p)'
  <2>1. Taken' = Taken \cup {i} /\ i \notin Taken /\ my' = my /\ pc' = pc
    BY <1>3, PathAssumption DEF Take, Taken, Typed, TypeOK
  <2>2. my[p].began[1] \subseteq Taken
    BY DEF RebuildInv
  <2>3. my'[p].began[1] # Taken' /\ ~ Quiet(p)'
    BY <2>1, <2>2 DEF Quiet
  <2>4. QED
    BY <2>1, <2>2, <2>3 DEF RebuildInv
<1>4. ASSUME NEW i \in Id, Remove(i) PROVE RebuildInv(p)'
  <2>1. Taken' = Taken /\ live' = live \ {i} /\ i \in live /\ my' = my /\ pc' = pc
    BY <1>4 DEF Remove, Taken
  <2>2. ~ Quiet(p)'
    BY <2>1 DEF Quiet, RebuildInv
  <2>3. QED
    BY <2>1, <2>2 DEF RebuildInv
<1>5. ASSUME NEW q \in Proc, Log(q) PROVE RebuildInv(p)'
  <2>1. CASE q = p
    BY <1>5, <2>1, LogRebuild
  <2>2. CASE q # p
    <3>1. taken' = taken /\ live' = live /\ my'[p] = my[p] /\ pc'[p] = pc[p]
      BY <1>1, <1>5, <2>2 DEF Log, LoadIndex, LoadLinks, UseIndex, Rebuild, Record, RecordFails, SaveIndex,
         SaveLinks, Report, Kill, End, Goto, disk
    <3>2. QED
      BY <1>2, <3>1
  <2>3. QED
    BY <2>1, <2>2
<1>6. QED
  BY <1>2, <1>3, <1>4, <1>5 DEF Next, vars

\* A log that had to rebuild, while no snapshot came or went, prints from
\* exactly the changes and renames of the live snapshots, whatever other logs
\* do to the files meanwhile.
THEOREM RebuildsExactly == Spec => []RebuildExact
<1>1. Typed /\ RebuildsInv => RebuildExact
  <2> SUFFICES ASSUME Typed, NEW p \in Proc, RebuildInv(p), pc[p] = "report", my[p].rebuilt, Quiet(p)
               PROVE  my[p].hist = [a \in Path |-> Changes(a)] /\ my[p].links = Moves
    BY DEF RebuildExact, RebuildsInv
  <2>1. my[p].todo = {} /\ Done(p) = live
    BY DEF RebuildInv, Done
  <2>2. my[p].links = MovesIn(live) /\ \A a \in Path : my[p].hist[a] = ChangesIn(a, live)
    BY <2>1 DEF RebuildInv, Recorded
  <2>3. \A a \in Path : ChangesIn(a, live) = Changes(a)
    BY DEF ChangesIn, Changes, Present
  <2>4. my[p].hist \in [Path -> SUBSET Entry]
    BY DEF Typed, TypeOK, Local
  <2>5. QED
    BY <2>2, <2>3, <2>4 DEF MovesIn, Moves
<1>2. QED
  BY <1>1, InitTyped, InitRebuild, NextTyped, NextRebuild, PTL DEF Spec

-----------------------------------------------------------------------------
(***************************************************************************)
(* Lineage: without a name left or reached twice, the names that NameChain *)
(* finds, first backwards and then onwards, are the least set that has the *)
(* name and with each of its names the older and the newer one.            *)
(***************************************************************************)
LEMMA FollowSteps ==
  ASSUME NEW onward \in [Path -> SUBSET Path], NEW a \in Path, NEW seen \in SUBSET Path
  PROVE  /\ Follow(onward, a, seen) \in SUBSET Path
         /\ seen \cup onward[a] \subseteq Follow(onward, a, seen)
         /\ \A c \in Follow(onward, a, seen) \ seen : onward[c] \subseteq Follow(onward, a, seen)
<1>1. \A b \in seen \cup onward[a] : b \in Follow(onward, a, seen)
  BY DEF Follow
<1>2. ASSUME NEW c \in Follow(onward, a, seen) \ seen, NEW b \in onward[c]
      PROVE  b \in Follow(onward, a, seen)
  <2>1. c \in Path /\ b \in Path
    BY DEF Follow
  <2>2. ASSUME NEW S \in SUBSET (Path \ {b}), seen \subseteq S, onward[a] \subseteq S,
               \A d \in S \ seen : onward[d] \subseteq S
        PROVE  FALSE
    <3>1. CASE c \in S
      BY <2>2, <3>1, <1>2
    <3>2. CASE c \notin S
      BY <2>1, <2>2, <3>2 DEF Follow
    <3>3. QED
      BY <3>1, <3>2
  <2>3. QED
    BY <2>1, <2>2 DEF Follow
<1>3. QED
  BY <1>1, <1>2 DEF Follow

LEMMA FollowLeast ==
  ASSUME NEW onward \in [Path -> SUBSET Path], NEW a \in Path, NEW seen \in SUBSET Path,
         NEW S \in SUBSET Path, seen \cup onward[a] \subseteq S,
         \A c \in S \ seen : onward[c] \subseteq S
  PROVE  Follow(onward, a, seen) \subseteq S
<1> SUFFICES ASSUME NEW b \in Follow(onward, a, seen), b \notin S PROVE FALSE
  OBVIOUS
<1>1. S \in SUBSET (Path \ {b})
  OBVIOUS
<1>2. QED
  BY <1>1 DEF Follow

\* A name that was found is one seen before, or a step led to it.
LEMMA FollowCameFrom ==
  ASSUME NEW onward \in [Path -> SUBSET Path], NEW a \in Path,
         NEW seen \in SUBSET Path, a \in seen,
         NEW b \in Follow(onward, a, seen) \ seen
  PROVE  \E d \in Follow(onward, a, seen) : b \in onward[d]
<1> DEFINE F == Follow(onward, a, seen)
           S == {c \in F : c \in seen \/ \E d \in F : c \in onward[d]}
<1>1. /\ F \in SUBSET Path /\ seen \cup onward[a] \subseteq F
      /\ \A c \in F \ seen : onward[c] \subseteq F
  BY FollowSteps
<1>2. b \in F /\ b \notin seen /\ (F \subseteq S => b \in S)
  OBVIOUS
<1>3. S \in SUBSET Path /\ seen \cup onward[a] \subseteq S
  BY <1>1
<1>4. \A c \in S \ seen : onward[c] \subseteq S
  BY <1>1
<1>5. F \subseteq S
  <2> HIDE DEF S
  <2>1. QED
    BY <1>3, <1>4, FollowLeast
<1>6. QED
  BY <1>2, <1>5

\* back and fwd say the same, and no name has two older or two newer ones.
Paired(back, fwd) ==
  /\ back \in [Path -> SUBSET Path] /\ fwd \in [Path -> SUBSET Path]
  /\ \A a, b \in Path : b \in back[a] <=> a \in fwd[b]
  /\ \A a \in Path : \A b, c \in back[a] : b = c
  /\ \A a \in Path : \A b, c \in fwd[a] : b = c

ClosedUnder(back, fwd, S) ==
  /\ S \in SUBSET Path
  /\ \A c \in S : back[c] \subseteq S /\ fwd[c] \subseteq S

Chain(back, fwd, q) == Follow(fwd, q, Follow(back, q, {q}))

LEMMA ChainIsClosed ==
  ASSUME NEW back, NEW fwd, Paired(back, fwd), NEW q \in Path
  PROVE  ClosedUnder(back, fwd, Chain(back, fwd, q)) /\ q \in Chain(back, fwd, q)
<1> DEFINE A == Follow(back, q, {q})
           D == Follow(fwd, q, A)
<1>0. back \in [Path -> SUBSET Path] /\ fwd \in [Path -> SUBSET Path]
  BY DEF Paired
<1>1. A \in SUBSET Path /\ q \in A /\ \A c \in A : back[c] \subseteq A
  <2>1. /\ A \in SUBSET Path /\ {q} \cup back[q] \subseteq A
        /\ \A c \in A \ {q} : back[c] \subseteq A
    <3>1. PICK one \in SUBSET Path : one = {q}
      OBVIOUS
    <3>2. /\ Follow(back, q, one) \in SUBSET Path /\ one \cup back[q] \subseteq Follow(back, q, one)
          /\ \A c \in Follow(back, q, one) \ one : back[c] \subseteq Follow(back, q, one)
      BY <1>0, FollowSteps
    <3>3. QED
      BY <3>1, <3>2
  <2> HIDE DEF A
  <2>2. QED
    BY <2>1
<1>2. \A c \in A \ {q} : \E d \in A : c \in back[d]
  BY <1>0, FollowCameFrom
<1> HIDE DEF A
<1>3. D \in SUBSET Path /\ A \cup fwd[q] \subseteq D /\ \A c \in D \ A : fwd[c] \subseteq D
  BY <1>0, <1>1, FollowSteps
<1>4. \A c \in D \ A : \E d \in D : c \in fwd[d]
  BY <1>0, <1>1, FollowCameFrom
<1> HIDE DEF D
<1>5. ASSUME NEW c \in D PROVE back[c] \subseteq D
  <2>1. CASE c \in A
    BY <2>1, <1>1, <1>3
  <2>2. CASE c \notin A
    <3>1. PICK d \in D : c \in fwd[d]
      BY <2>2, <1>4
    <3>2. d \in back[c] /\ \A b \in back[c] : b = d
      BY <3>1, <1>3 DEF Paired
    <3>3. QED
      BY <3>2
  <2>3. QED
    BY <2>1, <2>2
<1>6. ASSUME NEW c \in D PROVE fwd[c] \subseteq D
  <2>1. CASE c = q \/ c \notin A
    BY <2>1, <1>3
  <2>2. CASE c \in A \ {q}
    <3>1. PICK d \in A : c \in back[d]
      BY <2>2, <1>2
    <3>2. d \in fwd[c] /\ \A b \in fwd[c] : b = d
      BY <3>1, <1>1, <1>3 DEF Paired
    <3>3. QED
      BY <3>2, <1>3
  <2>3. QED
    BY <2>1, <2>2
<1>7. ClosedUnder(back, fwd, D) /\ q \in D
  BY <1>1, <1>3, <1>5, <1>6 DEF ClosedUnder
<1>8. QED
  BY <1>7 DEF Chain, D, A

LEMMA ChainIsLeast ==
  ASSUME NEW back, NEW fwd, Paired(back, fwd), NEW q \in Path,
         NEW S, ClosedUnder(back, fwd, S), q \in S
  PROVE  Chain(back, fwd, q) \subseteq S
<1> DEFINE A == Follow(back, q, {q})
<1>0. /\ back \in [Path -> SUBSET Path] /\ fwd \in [Path -> SUBSET Path]
      /\ S \in SUBSET Path /\ \A c \in S : back[c] \subseteq S /\ fwd[c] \subseteq S
  BY DEF Paired, ClosedUnder
<1>1. A \in SUBSET Path /\ A \subseteq S
  BY <1>0, FollowSteps, FollowLeast
<1> HIDE DEF A
<1>2. Follow(fwd, q, A) \subseteq S
  BY <1>0, <1>1, FollowLeast
<1>3. QED
  BY <1>2 DEF Chain, A

\* All the names of a chain have the same chain.
LEMMA ChainsAgree ==
  ASSUME NEW back, NEW fwd, Paired(back, fwd), NEW q \in Path, NEW r \in Chain(back, fwd, q)
  PROVE  Chain(back, fwd, r) = Chain(back, fwd, q)
<1> DEFINE Q == Chain(back, fwd, q)
           R == Chain(back, fwd, r)
<1>1. ClosedUnder(back, fwd, Q) /\ q \in Q /\ r \in Path
  BY ChainIsClosed DEF ClosedUnder
<1>2. ClosedUnder(back, fwd, R) /\ r \in R
  BY <1>1, ChainIsClosed
<1>3. R \subseteq Q
  BY <1>1, ChainIsLeast
<1>4. r \in Q /\ (\A S : ClosedUnder(back, fwd, S) /\ q \in S => Q \subseteq S)
  BY ChainIsLeast
<1>5. \A S : ClosedUnder(back, fwd, S) /\ q \in S => Q \subseteq S
  BY <1>4
<1> HIDE DEF Q, R
<1>6. ClosedUnder(back, fwd, Q \ R)
  BY <1>1, <1>2 DEF ClosedUnder, Paired
<1>7. q \in R
  BY <1>1, <1>2, <1>4, <1>6
<1>8. Q \subseteq R
  BY <1>2, <1>5, <1>7
<1>9. R = Q
  BY <1>3, <1>8
<1>10. QED
  BY <1>9 DEF Q, R

\* A name left once and reached once: the last record for it is the only one.
LEMMA UniqueIsPaired ==
  ASSUME NEW links \in SUBSET Link,
         \A k, l \in links : k # l => k[1] # l[1] /\ k[2] # l[2]
  PROVE  Paired(Older(links), Newer(links))
<1>1. ASSUME NEW a \in Path, NEW b \in Path
      PROVE  b \in Older(links)[a] <=> \E i \in Id : <<b, a, i>> \in links
  <2>1. ASSUME NEW i \in Id, <<b, a, i>> \in links, NEW l \in links, l[2] = a
        PROVE  l[3] <= i
    <3>1. l = <<b, a, i>>
      BY <2>1
    <3>2. l[3] = i /\ i \in Int
      BY <3>1 DEF Id
    <3>3. QED
      BY <3>2
  <2>2. QED
    BY <2>1 DEF Older
<1>2. ASSUME NEW a \in Path, NEW b \in Path
      PROVE  a \in Newer(links)[b] <=> \E i \in Id : <<b, a, i>> \in links
  <2>1. ASSUME NEW i \in Id, <<b, a, i>> \in links, NEW l \in links, l[1] = b
        PROVE  l[3] <= i
    <3>1. l = <<b, a, i>>
      BY <2>1
    <3>2. l[3] = i /\ i \in Int
      BY <3>1 DEF Id
    <3>3. QED
      BY <3>2
  <2>2. QED
    BY <2>1 DEF Newer
<1>3. Older(links) \in [Path -> SUBSET Path] /\ Newer(links) \in [Path -> SUBSET Path]
  BY DEF Older, Newer
<1>4. \A a \in Path : \A b, c \in Older(links)[a] : b = c
  <2> SUFFICES ASSUME NEW a \in Path, NEW b \in Older(links)[a], NEW c \in Older(links)[a]
      PROVE b = c
    OBVIOUS
  <2>1. PICK i \in Id : <<b, a, i>> \in links
    BY <1>1, <1>3
  <2>2. PICK j \in Id : <<c, a, j>> \in links
    BY <1>1, <1>3
  <2>3. <<b, a, i>>[2] = <<c, a, j>>[2]
    OBVIOUS
  <2>4. <<b, a, i>> = <<c, a, j>>
    BY <2>1, <2>2, <2>3
  <2>5. QED
    BY <2>4
<1>5. \A a \in Path : \A b, c \in Newer(links)[a] : b = c
  <2> SUFFICES ASSUME NEW a \in Path, NEW b \in Newer(links)[a], NEW c \in Newer(links)[a]
      PROVE b = c
    OBVIOUS
  <2>1. PICK i \in Id : <<a, b, i>> \in links
    BY <1>2, <1>3
  <2>2. PICK j \in Id : <<a, c, j>> \in links
    BY <1>2, <1>3
  <2>3. <<a, b, i>>[1] = <<a, c, j>>[1]
    OBVIOUS
  <2>4. <<a, b, i>> = <<a, c, j>>
    BY <2>1, <2>2, <2>3
  <2>5. QED
    BY <2>4
<1>6. QED
  BY <1>1, <1>2, <1>3, <1>4, <1>5 DEF Paired

LEMMA TypedSameLineage == TypeOK => SameLineage
<1> SUFFICES ASSUME TypeOK, \A k, l \in sidecar : k # l => k[1] # l[1] /\ k[2] # l[2],
                    NEW q \in Path, NEW r \in NameChain(sidecar, q)
    PROVE  r \in Path /\ NameChain(sidecar, r) = NameChain(sidecar, q)
  BY DEF SameLineage
<1>1. Paired(Older(sidecar), Newer(sidecar))
  BY UniqueIsPaired DEF TypeOK
<1>2. \A s \in Path : NameChain(sidecar, s) = Chain(Older(sidecar), Newer(sidecar), s)
  BY DEF NameChain, Chain
<1>3. r \in Path
  BY <1>1, <1>2, ChainIsClosed DEF ClosedUnder
<1>4. QED
  BY <1>1, <1>2, <1>3, ChainsAgree

\* Whatever logs, killed or beside each other, wrote to the rename links: as
\* long as no name was left or reached twice, `vault log` of any of the names
\* of a file follows the links to the same names, chains of any length and
\* cycles of renames included.
THEOREM NamesAgree == Spec => []SameLineage
BY HistoryTyping, TypedSameLineage, PTL

=============================================================================
