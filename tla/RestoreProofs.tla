--------------------------- MODULE RestoreProofs ---------------------------
(***************************************************************************)
(* Theorems about Restore, for every working directory, set of snapshots   *)
(* and set of damaged objects.                                             *)
(***************************************************************************)
EXTENDS Restore, TLAPS

USE RestoreAssumption

InFlight == {"apply", "fetch", "parents", "temp", "replace"}

\* No name of s lies below another one.
NoFileAbove(s) == \A n \in Node : s[n] # Absent => \A m \in Above[n] : s[m] = Absent

\* What the types do not say: at is one file of the snapshot, still to do,
\* and its directory is there once the temp file is in it.
LocalInv ==
  /\ NoFileAbove(my.snap)
  /\ \A n \in my.todo : my.snap[n] # Absent
  /\ \A m, n \in my.at : m = n
  /\ pc \notin {"parents", "temp", "replace"} /\ pc \notin Ended => my.at = {}
  /\ pc \in {"idle", "confirm"} => my.todo = {} /\ my.at = {}
  /\ pc = "replace" => \A n \in my.at : InDirectories(n)

Typed == TypeOK /\ LocalInv

\* How far a restore nobody interfered with has come.
Progress ==
  /\ NothingHalfDone
  /\ pc \in {"idle", "confirm", "apply", "refused"} => fs = before
  /\ pc \in InFlight =>
       /\ \A n \in Node : my.snap[n] # Absent /\ n \notin my.todo => fs[n] = my.snap[n]
       /\ Listing \notin damaged
       /\ \A n \in my.todo : my.snap[n] \notin damaged
  /\ pc \in {"temp", "replace"} => \A n \in my.at : InDirectories(n)
  /\ pc = "done" => fs = Overlay(before, my.snap)
  /\ pc = "failed" => Clash(before, my.snap)

Inv == Typed /\ (quiet => Progress)

LEMMA BlankTyped == Blank \in Local /\ NoFileAbove(Blank.snap)
BY DEF Blank, Local, Flat, NoFileAbove

LEMMA SnapshotLocal ==
  ASSUME NEW s \in Snapshot
  PROVE  [Blank EXCEPT !.snap = s] \in Local /\ NoFileAbove(s)
BY BlankTyped DEF Blank, Local, Flat, NoFileAbove

LEMMA OverlayType ==
  ASSUME NEW t \in Tree, NEW s \in Flat
  PROVE  Overlay(t, s) \in Tree
BY DEF Overlay, Tree, Flat

LEMMA InitInv == Init => Inv
<1> SUFFICES ASSUME Init PROVE Inv
  OBVIOUS
<1>1. Typed
  BY BlankTyped DEF Init, Typed, TypeOK, LocalInv, Location, Ended, Blank, Tree, NoFileAbove
<1>2. Progress
  BY DEF Init, Progress, NothingHalfDone, InFlight
<1> QED
  BY <1>1, <1>2 DEF Inv

-----------------------------------------------------------------------------
(***************************************************************************)
(* The user and the disk                                                   *)
(***************************************************************************)
Outside ==
  \/ \E n \in Node : Delete(n) \/ MakeDir(n) \/ \E b \in Blob : Write(n, b)
  \/ \E o \in Blob \cup {Listing} : Damage(o)

LEMMA OutsideInv == Inv /\ Outside => Inv'
<1> SUFFICES ASSUME Inv, Outside PROVE Inv'
  OBVIOUS
<1> USE DEF Inv, Typed
<1>1. quiet' = FALSE /\ before' = fs' /\ pc' = pc /\ my' = my
  BY DEF Outside, Delete, MakeDir, Write, Damage, Meanwhile
<1>2. /\ fs' \in Tree /\ WellFormed(fs)'
      /\ damaged' \in SUBSET (Blob \cup {Listing})
      /\ (pc = "replace" => \A n \in my.at : InDirectories(n)')
  <2>1. CASE \E n \in Node : Delete(n)
    <3> PICK n \in Node : Delete(n)
      BY <2>1
    <3>1. fs' = [fs EXCEPT ![n] = Absent] /\ UNCHANGED damaged
      BY DEF Delete
    <3>2. fs' \in Tree
      BY <3>1 DEF TypeOK, Tree
    <3>3. WellFormed(fs)'
      <4> SUFFICES ASSUME NEW k \in Node, fs'[k] # Absent, NEW m \in Above[k]
                   PROVE  fs'[m] = Dir
        BY DEF WellFormed
      <4>1. k # n /\ fs[k] # Absent
        BY <3>1 DEF TypeOK, Tree
      <4>2. fs[m] = Dir /\ m \in Node
        BY <4>1 DEF TypeOK, WellFormed
      <4>3. m # n
        BY <4>1 DEF Delete
      <4> QED
        BY <3>1, <4>2, <4>3 DEF TypeOK, Tree
    <3>4. ASSUME pc = "replace", NEW k \in my.at PROVE InDirectories(k)'
      <4>1. k \in Node /\ InDirectories(k)
        BY <3>4 DEF TypeOK, LocalInv, Local
      <4>2. n \notin Above[k]
        BY <3>4, <4>1 DEF Delete
      <4> QED
        BY <4>1, <4>2, <3>1 DEF InDirectories, TypeOK, Tree
    <3> QED
      BY <3>1, <3>2, <3>3, <3>4 DEF TypeOK
  <2>2. CASE \E n \in Node : MakeDir(n) \/ \E b \in Blob : Write(n, b)
    <3> PICK n \in Node : MakeDir(n) \/ \E b \in Blob : Write(n, b)
      BY <2>2
    <3> PICK v \in Blob \cup {Dir} : fs' = [fs EXCEPT ![n] = v] /\ UNCHANGED damaged
      BY DEF MakeDir, Write
    <3>1. InDirectories(n) /\ fs[n] # Dir
      BY DEF MakeDir, Write
    <3>2. fs' \in Tree
      BY DEF TypeOK, Tree
    <3>3. WellFormed(fs)'
      <4> SUFFICES ASSUME NEW k \in Node, fs'[k] # Absent, NEW m \in Above[k]
                   PROVE  fs'[m] = Dir
        BY DEF WellFormed
      <4>1. fs[m] = Dir /\ m \in Node
        BY <3>1 DEF InDirectories, TypeOK, WellFormed, Tree
      <4> QED
        BY <3>1, <4>1 DEF TypeOK, Tree
    <3>4. ASSUME pc = "replace", NEW k \in my.at PROVE InDirectories(k)'
      <4>1. k \in Node /\ InDirectories(k)
        BY <3>4 DEF TypeOK, LocalInv, Local
      <4> QED
        BY <3>1, <4>1 DEF InDirectories, TypeOK, Tree
    <3> QED
      BY <3>2, <3>3, <3>4 DEF TypeOK
  <2>3. CASE \E o \in Blob \cup {Listing} : Damage(o)
    BY <2>3 DEF Damage, TypeOK, LocalInv, WellFormed, InDirectories
  <2> QED
    BY <2>1, <2>2, <2>3 DEF Outside
<1>3. TypeOK'
  BY <1>1, <1>2 DEF TypeOK
<1>4. LocalInv'
  BY <1>1, <1>2 DEF LocalInv
<1> QED
  BY <1>1, <1>3, <1>4

-----------------------------------------------------------------------------
(***************************************************************************)
(* The steps before the first write                                        *)
(***************************************************************************)
LEMMA PreviewInv == ASSUME Inv, NEW s \in Snapshot, Preview(s) PROVE Inv'
<1> USE DEF Inv, Typed
<1> DEFINE blank == [Blank EXCEPT !.snap = s]
<1>1. /\ my' = blank /\ blank.todo = {} /\ blank.at = {} /\ blank.snap = s
      /\ pc' \in {"idle", "done", "confirm", "refused"}
      /\ pc' = "done" => Safe(fs, s) /\ ToWrite(fs, s) \cup Extra(fs, s) = {}
      /\ before' = fs /\ quiet' = TRUE /\ fs' = fs /\ damaged' = damaged
  BY DEF Preview, End, Blank
<1>2. TypeOK'
  BY <1>1, SnapshotLocal DEF TypeOK, Location, Ended, WellFormed
<1>3. LocalInv'
  BY <1>1, SnapshotLocal DEF LocalInv, Ended, NoFileAbove
<1>4. NothingHalfDone'
  BY <1>1 DEF NothingHalfDone
<1>5. ASSUME pc' = "done" PROVE fs = Overlay(fs, s)
  <2>1. \A n \in Node : s[n] # Absent => fs[n] = s[n]
    BY <1>1, <1>5 DEF ToWrite
  <2>2. \A n \in Node : \A m \in Node : s[m] # Absent /\ n \in Above[m] => fs[n] = Dir
    BY <2>1 DEF TypeOK, WellFormed
  <2>3. \A n \in Node : Overlay(fs, s)[n] = fs[n]
    BY <2>1, <2>2 DEF Overlay
  <2> QED
    BY <2>3 DEF Overlay, TypeOK, Tree
<1>6. Progress'
  BY <1>1, <1>4, <1>5 DEF Progress, InFlight
<1> QED
  BY <1>2, <1>3, <1>6

LEMMA BeforeInv == Inv /\ (Cancel \/ Confirm \/ Flatten) => Inv'
<1> SUFFICES ASSUME Inv, Cancel \/ Confirm \/ Flatten PROVE Inv'
  OBVIOUS
<1> USE DEF Inv, Typed
<1>1. fs' = fs /\ damaged' = damaged /\ quiet' = quiet /\ before' = before
  BY DEF Cancel, Confirm, Flatten, history
<1> DEFINE blank == [Blank EXCEPT !.snap = my.snap]
<1>0. my.snap \in Flat /\ blank \in Local /\ blank.snap = my.snap /\ blank.todo = {} /\ blank.at = {}
  BY BlankTyped DEF TypeOK, Local, Blank
<1>2. CASE Cancel \/ (Confirm /\ ~Safe(fs, my.snap))
  <2>1. my' = blank /\ pc' \in {"idle", "refused"} /\ pc = "confirm"
    BY <1>2 DEF Cancel, Confirm, End
  <2>2. TypeOK' /\ LocalInv'
    BY <1>0, <1>1, <2>1 DEF TypeOK, LocalInv, Location, Ended, WellFormed, NoFileAbove
  <2>3. quiet => Progress'
    BY <1>0, <1>1, <2>1 DEF Progress, NothingHalfDone, InFlight
  <2> QED
    BY <1>1, <2>2, <2>3
<1>3. CASE Confirm /\ Safe(fs, my.snap)
  <2>1. /\ pc = "confirm" /\ pc' = "apply"
        /\ my' = [my EXCEPT !.todo = ToWrite(fs, my.snap)]
    BY <1>3 DEF Confirm
  <2>2. /\ my' \in Local /\ my'.snap = my.snap /\ my'.at = {} /\ my.at = {}
        /\ my'.todo = ToWrite(fs, my.snap)
    BY <2>1 DEF TypeOK, LocalInv, Local, ToWrite
  <2>3. TypeOK' /\ LocalInv'
    BY <1>1, <2>1, <2>2 DEF TypeOK, LocalInv, Location, Ended, WellFormed, NoFileAbove, ToWrite
  <2>4. quiet => Progress'
    BY <1>1, <1>3, <2>1, <2>2 DEF Progress, NothingHalfDone, InFlight, ToWrite, Safe
  <2> QED
    BY <1>1, <2>3, <2>4
<1>4. CASE Flatten
  <2>1. pc = "apply" /\ my' = my /\ pc' \in {"failed", "fetch"} /\ (pc' = "failed" => Listing \in damaged)
    BY <1>4 DEF Flatten, Fail
  <2>2. TypeOK' /\ LocalInv'
    BY <1>1, <2>1 DEF TypeOK, LocalInv, Location, Ended, WellFormed, NoFileAbove
  <2>3. quiet => Progress'
    BY <1>1, <2>1 DEF Progress, NothingHalfDone, InFlight
  <2> QED
    BY <1>1, <2>2, <2>3
<1> QED
  BY <1>2, <1>3, <1>4

-----------------------------------------------------------------------------
(***************************************************************************)
(* The writes                                                              *)
(***************************************************************************)
LEMMA FetchInv == ASSUME Inv, NEW n \in Node, Fetch(n) PROVE Inv'
<1> USE DEF Inv, Typed
<1>1. /\ fs' = fs /\ damaged' = damaged /\ quiet' = quiet /\ before' = before
      /\ pc = "fetch" /\ n \in my.todo
  BY DEF Fetch, history
<1>2. CASE my.snap[n] \in damaged
  <2>1. pc' = "failed" /\ my' = my
    BY <1>2 DEF Fetch, Fail
  <2>2. TypeOK' /\ LocalInv'
    BY <1>1, <2>1 DEF TypeOK, LocalInv, Location, Ended, WellFormed, NoFileAbove
  <2>3. ~quiet
    BY <1>1, <1>2 DEF Progress, InFlight
  <2> QED
    BY <1>1, <2>2, <2>3
<1>3. CASE my.snap[n] \notin damaged
  <2>1. pc' = "parents" /\ my' = [my EXCEPT !.at = {n}]
    BY <1>3 DEF Fetch
  <2>2. my' \in Local /\ my'.snap = my.snap /\ my'.todo = my.todo /\ my'.at = {n}
    BY <2>1 DEF TypeOK, Local
  <2>3. TypeOK' /\ LocalInv'
    BY <1>1, <2>1, <2>2 DEF TypeOK, LocalInv, Location, Ended, WellFormed, NoFileAbove
  <2>4. quiet => Progress'
    BY <1>1, <2>1, <2>2 DEF Progress, NothingHalfDone, InFlight
  <2> QED
    BY <1>1, <2>3, <2>4
<1> QED
  BY <1>2, <1>3

LEMMA MakeParentsInv == Inv /\ MakeParents => Inv'
<1> SUFFICES ASSUME Inv, MakeParents PROVE Inv'
  OBVIOUS
<1> USE DEF Inv, Typed
<1> PICK n \in my.at :
      IF \E m \in Above[n] : fs[m] \in Blob
        THEN Fail /\ UNCHANGED fs
        ELSE fs' = WithParents(n) /\ pc' = "temp" /\ UNCHANGED my
  BY DEF MakeParents
<1>1. /\ damaged' = damaged /\ quiet' = quiet /\ before' = before /\ my' = my
      /\ pc = "parents" /\ n \in Node /\ n \in my.todo /\ my.snap[n] # Absent
  BY DEF MakeParents, Fail, history, TypeOK, Local, LocalInv
<1>2. ASSUME quiet, NEW m \in Above[n]
      PROVE  m \in Node /\ my.snap[m] = Absent /\ fs[m] \in {before[m], Dir}
             /\ (fs[m] = before[m] \/ before[m] = Absent)
  BY <1>1, <1>2 DEF LocalInv, NoFileAbove, Progress, NothingHalfDone, Overlay
<1>3. CASE \E m \in Above[n] : fs[m] \in Blob
  <2>1. pc' = "failed" /\ fs' = fs
    BY <1>3 DEF Fail
  <2>2. TypeOK' /\ LocalInv'
    BY <1>1, <2>1 DEF TypeOK, LocalInv, Location, Ended, WellFormed, NoFileAbove
  <2>3. quiet => Clash(before, my.snap)
    BY <1>1, <1>2, <1>3 DEF Clash
  <2>4. quiet => Progress'
    BY <1>1, <2>1, <2>3 DEF Progress, NothingHalfDone, InFlight
  <2> QED
    BY <1>1, <2>2, <2>4
<1>4. CASE ~ \E m \in Above[n] : fs[m] \in Blob
  <2>1. pc' = "temp" /\ fs' = WithParents(n)
    BY <1>4
  <2>2. fs' \in Tree /\ InDirectories(n)'
    BY <1>1, <2>1 DEF WithParents, TypeOK, Tree, InDirectories
  <2>3. WellFormed(fs)'
    <3> SUFFICES ASSUME NEW k \in Node, fs'[k] # Absent, NEW m \in Above[k]
                 PROVE  fs'[m] = Dir
      BY DEF WellFormed
    <3>1. m \in Node /\ (m \in Above[n] \/ fs[m] = Dir)
      BY <1>1, <2>1 DEF WithParents, TypeOK, WellFormed
    <3> QED
      BY <2>1, <3>1 DEF WithParents
  <2>4. TypeOK' /\ LocalInv'
    BY <1>1, <2>1, <2>2, <2>3 DEF TypeOK, LocalInv, Location, Ended, NoFileAbove
  <2>5. ASSUME quiet PROVE Progress'
    <3>1. NothingHalfDone'
      <4> SUFFICES ASSUME NEW k \in Node
                   PROVE  fs'[k] \in {before[k], Overlay(before, my.snap)[k]}
        BY <1>1 DEF NothingHalfDone
      <4>1. CASE k \in Above[n]
        BY <1>1, <1>2, <1>4, <2>1, <2>5, <4>1 DEF WithParents, Overlay, TypeOK, Tree
      <4>2. CASE k \notin Above[n]
        BY <2>1, <2>5, <4>2 DEF WithParents, Progress, NothingHalfDone
      <4> QED
        BY <4>1, <4>2
    <3>2. ASSUME NEW k \in Node, my.snap[k] # Absent, k \notin my.todo
          PROVE  fs'[k] = my.snap[k]
      <4>1. k \notin Above[n]
        BY <1>2, <2>5, <3>2
      <4> QED
        BY <1>1, <2>1, <2>5, <3>2, <4>1 DEF WithParents, Progress, InFlight
    <3>3. \A k \in my.at : InDirectories(k)'
      BY <2>2 DEF LocalInv
    <3> QED
      BY <1>1, <2>1, <2>5, <3>1, <3>2, <3>3 DEF Progress, InFlight
  <2> QED
    BY <1>1, <2>4, <2>5
<1> QED
  BY <1>3, <1>4

LEMMA WriteTempInv == Inv /\ WriteTemp => Inv'
<1> SUFFICES ASSUME Inv, WriteTemp PROVE Inv'
  OBVIOUS
<1> USE DEF Inv, Typed
<1>1. /\ fs' = fs /\ damaged' = damaged /\ quiet' = quiet /\ before' = before /\ my' = my
      /\ pc = "temp" /\ pc' \in {"replace", "failed"}
      /\ pc' = "replace" => \A n \in my.at : InDirectories(n)
      /\ pc' = "failed" => ~ \A n \in my.at : InDirectories(n)
  BY DEF WriteTemp, Fail, history
<1>2. TypeOK' /\ LocalInv'
  BY <1>1 DEF TypeOK, LocalInv, Location, Ended, WellFormed, NoFileAbove, InDirectories
<1>3. quiet => Progress'
  BY <1>1 DEF Progress, NothingHalfDone, InFlight, InDirectories
<1> QED
  BY <1>1, <1>2, <1>3

LEMMA ReplaceInv == Inv /\ Replace => Inv'
<1> SUFFICES ASSUME Inv, Replace PROVE Inv'
  OBVIOUS
<1> USE DEF Inv, Typed
<1> PICK n \in my.at :
      IF fs[n] = Dir
        THEN Fail /\ UNCHANGED fs
        ELSE /\ fs' = [fs EXCEPT ![n] = my.snap[n]]
             /\ pc' = "fetch" /\ my' = [my EXCEPT !.todo = @ \ {n}, !.at = {}]
  BY DEF Replace
<1>1. /\ damaged' = damaged /\ quiet' = quiet /\ before' = before
      /\ pc = "replace" /\ n \in Node /\ n \in my.todo
      /\ my.snap \in Flat /\ my.snap[n] \in Blob /\ InDirectories(n)
  BY DEF Replace, history, TypeOK, Local, Flat, LocalInv
<1>2. CASE fs[n] = Dir
  <2>1. pc' = "failed" /\ my' = my /\ fs' = fs
    BY <1>2 DEF Fail
  <2>2. TypeOK' /\ LocalInv'
    BY <1>1, <2>1 DEF TypeOK, LocalInv, Location, Ended, WellFormed, NoFileAbove
  <2>3. quiet => Clash(before, my.snap)
    <3>1. quiet => fs[n] \in {before[n], my.snap[n]}
      BY <1>1 DEF Progress, NothingHalfDone, Overlay
    <3> QED
      BY <1>1, <1>2, <3>1 DEF Clash
  <2>4. quiet => Progress'
    BY <1>1, <2>1, <2>3 DEF Progress, NothingHalfDone, InFlight
  <2> QED
    BY <1>1, <2>2, <2>4
<1>3. CASE fs[n] # Dir
  <2>1. /\ fs' = [fs EXCEPT ![n] = my.snap[n]]
        /\ pc' = "fetch" /\ my' = [my EXCEPT !.todo = @ \ {n}, !.at = {}]
    BY <1>3
  <2>2. /\ my' \in Local /\ my'.snap = my.snap /\ my'.todo = my.todo \ {n} /\ my'.at = {}
        /\ fs' \in Tree
    BY <1>1, <2>1 DEF TypeOK, Local, Tree
  <2>3. WellFormed(fs)'
    <3> SUFFICES ASSUME NEW k \in Node, fs'[k] # Absent, NEW m \in Above[k]
                 PROVE  fs'[m] = Dir
      BY DEF WellFormed
    <3>1. m \in Node /\ fs[m] = Dir
      BY <1>1, <2>1 DEF TypeOK, WellFormed, InDirectories, Tree
    <3> QED
      BY <1>3, <2>1, <3>1 DEF TypeOK, Tree
  <2>4. TypeOK' /\ LocalInv'
    BY <1>1, <2>1, <2>2, <2>3 DEF TypeOK, LocalInv, Location, Ended, NoFileAbove
  <2>5. ASSUME quiet PROVE Progress'
    <3>1. \A k \in Node : fs'[k] = IF k = n THEN my.snap[n] ELSE fs[k]
      BY <2>1 DEF TypeOK, Tree
    <3>2. NothingHalfDone'
      BY <1>1, <2>2, <2>5, <3>1 DEF Progress, NothingHalfDone, Overlay
    <3>3. \A k \in Node : my.snap[k] # Absent /\ k \notin my'.todo => fs'[k] = my.snap[k]
      BY <1>1, <2>2, <2>5, <3>1 DEF Progress, InFlight
    <3> QED
      BY <1>1, <2>1, <2>2, <2>5, <3>2, <3>3 DEF Progress, InFlight
  <2> QED
    BY <1>1, <2>4, <2>5
<1> QED
  BY <1>2, <1>3

\* With nothing left to do the directory is the overlay: what is not in the
\* snapshot is as before, or a directory above a file that was written.
LEMMA FinishInv == Inv /\ Finish => Inv'
<1> SUFFICES ASSUME Inv, Finish PROVE Inv'
  OBVIOUS
<1> USE DEF Inv, Typed
<1>1. /\ fs' = fs /\ damaged' = damaged /\ quiet' = quiet /\ before' = before /\ my' = my
      /\ pc = "fetch" /\ pc' = "done" /\ my.todo = {}
  BY DEF Finish, history
<1>2. TypeOK' /\ LocalInv'
  BY <1>1 DEF TypeOK, LocalInv, Location, Ended, WellFormed, NoFileAbove
<1>3. ASSUME quiet PROVE fs = Overlay(before, my.snap)
  <2>1. ASSUME NEW n \in Node PROVE fs[n] = Overlay(before, my.snap)[n]
    <3>1. CASE my.snap[n] # Absent
      BY <1>1, <1>3, <3>1 DEF Progress, InFlight, Overlay
    <3>2. CASE my.snap[n] = Absent /\ \E m \in Node : my.snap[m] # Absent /\ n \in Above[m]
      <4> PICK m \in Node : my.snap[m] # Absent /\ n \in Above[m]
        BY <3>2
      <4>1. fs[m] # Absent
        BY <1>1, <1>3 DEF Progress, InFlight
      <4>2. fs[n] = Dir
        BY <4>1 DEF TypeOK, WellFormed
      <4> QED
        BY <1>3, <3>2, <4>2 DEF Progress, NothingHalfDone, Overlay
    <3>3. CASE my.snap[n] = Absent /\ ~ \E m \in Node : my.snap[m] # Absent /\ n \in Above[m]
      BY <1>3, <3>3 DEF Progress, NothingHalfDone, Overlay
    <3> QED
      BY <3>1, <3>2, <3>3
  <2> QED
    BY <2>1 DEF Overlay, TypeOK, Tree
<1>4. quiet => Progress'
  BY <1>1, <1>3 DEF Progress, NothingHalfDone, InFlight
<1> QED
  BY <1>1, <1>2, <1>4

LEMMA StopInv == Inv /\ Stop => Inv'
<1> SUFFICES ASSUME Inv, Stop PROVE Inv'
  OBVIOUS
<1>1. /\ fs' = fs /\ damaged' = damaged /\ quiet' = quiet /\ before' = before /\ my' = my
      /\ pc' = "stopped"
  BY DEF Stop, history
<1> QED
  BY <1>1 DEF Inv, Typed, TypeOK, LocalInv, Location, Ended, WellFormed, NoFileAbove,
              Progress, NothingHalfDone, InFlight

LEMMA NextInv == Inv /\ [Next]_vars => Inv'
<1> SUFFICES ASSUME Inv, [Next]_vars PROVE Inv'
  OBVIOUS
<1>1. CASE Outside
  BY <1>1, OutsideInv
<1>2. ASSUME NEW s \in Snapshot, Preview(s) PROVE Inv'
  BY <1>2, PreviewInv
<1>3. ASSUME NEW n \in Node, Fetch(n) PROVE Inv'
  BY <1>3, FetchInv
<1>4. CASE UNCHANGED vars
  BY <1>4 DEF vars, Inv, Typed, TypeOK, LocalInv, WellFormed, NoFileAbove, InDirectories,
              Progress, NothingHalfDone
<1> QED
  BY <1>1, <1>2, <1>3, <1>4, BeforeInv, MakeParentsInv, WriteTempInv, ReplaceInv, FinishInv,
     StopInv DEF Next, Restoring, Outside

-----------------------------------------------------------------------------
(***************************************************************************)
(* The theorems                                                            *)
(***************************************************************************)
LEMMA Invariance == Spec => []Inv
<1>1. Init => Inv
  BY InitInv
<1>2. Inv /\ [Next]_vars => Inv'
  BY NextInv
<1> QED
  BY <1>1, <1>2, PTL DEF Spec

\* The variables keep their types, and the working directory is one that can
\* exist: nothing ever lies below a file.
THEOREM RestoreTyping == Spec => []TypeOK
<1>1. Inv => TypeOK
  BY DEF Inv, Typed
<1> QED
  BY <1>1, Invariance, PTL

\* A restore that reports success and that nobody interfered with has made
\* every file of the snapshot what it was and left every other file alone.
THEOREM RestoresExactly == Spec => []RestoreExact
<1>1. Inv => RestoreExact
  BY DEF Inv, Progress, RestoreExact
<1> QED
  BY <1>1, Invariance, PTL

\* Wherever a restore stops, each name is as it was before or as the restore
\* would have left it.
THEOREM StopsBetweenFiles == Spec => []NothingHalfDone
<1>1. Inv => NothingHalfDone
  BY DEF Inv, Progress, NothingHalfDone
<1> QED
  BY <1>1, Invariance, PTL

\* Damaged objects stop a restore before its first write; only a clash of a
\* file and a directory stops it later.
THEOREM StopsCleanly == Spec => []AbortsClean
<1>1. Inv => AbortsClean
  BY DEF Inv, Progress, AbortsClean
<1> QED
  BY <1>1, Invariance, PTL

\* Whatever the user does meanwhile, the steps of a restore write files of
\* the snapshot and make directories where there was nothing.
THEOREM WritesOnlySnapshot == Spec => OnlySnapshotWritten
<1> DEFINE Allowed == \A n \in Node :
             \/ fs'[n] = fs[n]
             \/ fs[n] = Absent /\ fs'[n] = Dir
             \/ fs[n] # Dir /\ my.snap[n] # Absent /\ fs'[n] = my.snap[n]
<1>1. Inv /\ [Next]_vars => [pc' # pc => Allowed]_vars
  <2> SUFFICES ASSUME Inv, Next, pc' # pc PROVE Allowed
    BY DEF vars
  <2>1. CASE UNCHANGED fs
    BY <2>1
  <2>2. CASE MakeParents
    BY <2>2 DEF MakeParents, WithParents, Inv, Typed, TypeOK, Tree
  <2>3. CASE Replace
    <3>1. PICK n \in my.at : (fs[n] # Dir /\ fs' = [fs EXCEPT ![n] = my.snap[n]]) \/ UNCHANGED fs
      BY <2>3 DEF Replace
    <3>2. my.snap[n] # Absent
      BY DEF Inv, Typed, TypeOK, LocalInv
    <3> QED
      BY <3>1, <3>2 DEF Inv, Typed, TypeOK, Tree
  <2> QED
    BY <2>1, <2>2, <2>3 DEF Next, Restoring, Preview, Cancel, Confirm, Flatten, Fetch, WriteTemp,
       Finish, Stop, Delete, MakeDir, Write, Damage, Meanwhile
<1>2. Spec => [][pc' # pc => Allowed]_vars
  BY <1>1, Invariance, PTL DEF Spec
<1> QED
  BY <1>2 DEF OnlySnapshotWritten

=============================================================================
