------------------------------ MODULE Restore ------------------------------
(***************************************************************************)
(* `vault restore` (cli.py, cmd_restore, restore.py and diff.py): a        *)
(* preview, the user's answer, a second preview, then the files one by     *)
(* one, in a working directory that the user goes on editing and from a    *)
(* store whose objects may be damaged at any moment.                       *)
(*                                                                         *)
(* Node is the set of names in the working directory, files and            *)
(* directories, and Above[n] the directories on the way to n.  A preview   *)
(* reads the directory in one step.                                        *)
(***************************************************************************)
CONSTANTS Node, Above,
          Blob,
          Listing,    \* the tree objects of the snapshots, taken together
          Absent, Dir,
          Snapshot    \* the flattened trees of the snapshots

Flat == [Node -> Blob \cup {Absent}]
Tree == [Node -> Blob \cup {Absent, Dir}]

\* Nothing lies below a file.
WellFormed(t) == \A n \in Node : t[n] # Absent => \A m \in Above[n] : t[m] = Dir

ASSUME RestoreAssumption ==
  /\ Above \in [Node -> SUBSET Node]
  /\ \A n \in Node : n \notin Above[n] /\ \A m \in Above[n] : Above[m] \subseteq Above[n]
  /\ Absent \notin Blob /\ Dir \notin Blob /\ Listing \notin Blob /\ Absent # Dir
  /\ Snapshot \subseteq Flat
  /\ \A s \in Snapshot, n \in Node : s[n] # Absent => \A m \in Above[n] : s[m] = Absent

VARIABLES fs,       \* the working directory
          damaged,  \* the objects that fail verification
          pc, my,   \* the restore under way, or how the last one ended
          quiet,    \* history: nothing has interfered since it started
          before    \* history: the directory then, as long as quiet

vars == <<fs, damaged, pc, my, quiet, before>>
history == <<quiet, before>>

Ended    == {"idle", "done", "refused", "failed", "stopped"}
Location == Ended \cup {"confirm", "apply", "fetch", "parents", "temp", "replace"}

Local == [snap : Flat, todo : SUBSET Node, at : SUBSET Node]
Blank == [snap |-> [n \in Node |-> Absent], todo |-> {}, at |-> {}]

TypeOK ==
  /\ fs \in Tree /\ WellFormed(fs)
  /\ damaged \in SUBSET (Blob \cup {Listing})
  /\ pc \in Location
  /\ my \in Local
  /\ my.at \subseteq my.todo
  /\ before \in Tree
  /\ quiet \in BOOLEAN

Init ==
  /\ fs \in {t \in Tree : WellFormed(t)}
  /\ damaged = {}
  /\ pc = "idle" /\ my = Blank
  /\ before = fs /\ quiet = TRUE

-----------------------------------------------------------------------------
(***************************************************************************)
(* What may happen meanwhile                                               *)
(***************************************************************************)
Meanwhile == quiet' = FALSE /\ before' = fs' /\ UNCHANGED <<pc, my>>

InDirectories(n) == \A m \in Above[n] : fs[m] = Dir

\* A file is written; a directory is made; a file, or a directory with
\* nothing in it, is removed.
Write(n, b) ==
  /\ InDirectories(n) /\ fs[n] \notin {Dir, b}
  /\ fs' = [fs EXCEPT ![n] = b]
  /\ UNCHANGED damaged /\ Meanwhile

MakeDir(n) ==
  /\ InDirectories(n) /\ fs[n] = Absent
  /\ fs' = [fs EXCEPT ![n] = Dir]
  /\ UNCHANGED damaged /\ Meanwhile

\* A directory that holds the restore's temp file is not empty.
Delete(n) ==
  /\ fs[n] # Absent
  /\ \A m \in Node : n \in Above[m] => fs[m] = Absent /\ ~(pc = "replace" /\ m \in my.at)
  /\ fs' = [fs EXCEPT ![n] = Absent]
  /\ UNCHANGED damaged /\ Meanwhile

Damage(o) ==
  /\ o \notin damaged
  /\ damaged' = damaged \cup {o}
  /\ UNCHANGED fs /\ Meanwhile

-----------------------------------------------------------------------------
(***************************************************************************)
(* The preview                                                             *)
(***************************************************************************)
\* Mutation: files that are there are not compared.
ToWriteMissing(t, s) == {n \in Node : s[n] # Absent /\ t[n] \notin Blob}

\* diff.added + diff.modified: hash_working_directory finds files only.
ToWrite(t, s) == {n \in Node : s[n] # Absent /\ t[n] # s[n]}

\* diff.removed, which is reported and left alone.
Extra(t, s) == {n \in Node : t[n] \in Blob /\ s[n] = Absent}

\* Mutation: only the files to be overwritten are verified.
SafePresent(t, s) ==
  /\ Listing \notin damaged
  /\ \A n \in ToWrite(t, s) : t[n] \in Blob => s[n] \notin damaged

\* preview_restore finds no integrity issue.
Safe(t, s) ==
  /\ Listing \notin damaged
  /\ \A n \in ToWrite(t, s) : s[n] \notin damaged

\* A command ends without a write.
End(l, s) == pc' = l /\ my' = [Blank EXCEPT !.snap = s]

\* A command starts: a refusal, --preview or a directory that is equal end
\* it, otherwise the user is asked.
Preview(s) ==
  /\ pc \in Ended
  /\ before' = fs /\ quiet' = TRUE
  /\ IF Safe(fs, s)
       THEN \/ End("idle", s)
            \/ End(IF ToWrite(fs, s) \cup Extra(fs, s) = {} THEN "done" ELSE "confirm", s)
       ELSE End("refused", s)
  /\ UNCHANGED <<fs, damaged>>

\* Anything but RESTORE is typed.
Cancel ==
  /\ pc = "confirm"
  /\ End("idle", my.snap)
  /\ UNCHANGED <<fs, damaged, history>>

\* apply_restore looks again, so it is not what the user was shown that
\* counts.
Confirm ==
  /\ pc = "confirm"
  /\ IF Safe(fs, my.snap)
       THEN pc' = "apply" /\ my' = [my EXCEPT !.todo = ToWrite(fs, my.snap)]
       ELSE End("refused", my.snap)
  /\ UNCHANGED <<fs, damaged, history>>

-----------------------------------------------------------------------------
(***************************************************************************)
(* apply_restore                                                           *)
(***************************************************************************)
Fail == pc' = "failed" /\ UNCHANGED my

\* The trees are read once more.
Flatten ==
  /\ pc = "apply"
  /\ IF Listing \in damaged THEN Fail ELSE pc' = "fetch" /\ UNCHANGED my
  /\ UNCHANGED <<fs, damaged, history>>

\* store.get of the next file's blob, which verifies it again.
Fetch(n) ==
  /\ pc = "fetch"
  /\ n \in my.todo
  /\ IF my.snap[n] \in damaged THEN Fail ELSE pc' = "parents" /\ my' = [my EXCEPT !.at = {n}]
  /\ UNCHANGED <<fs, damaged, history>>

WithParents(n) == [m \in Node |-> IF m \in Above[n] THEN Dir ELSE fs[m]]

\* Mutation: a file in the way of a directory is removed.
MakeParentsForced ==
  /\ pc = "parents"
  /\ \E n \in my.at : fs' = WithParents(n)
  /\ pc' = "temp"
  /\ UNCHANGED <<damaged, my, history>>

\* dest.parent.mkdir(parents=True, exist_ok=True) raises at a file.
MakeParents ==
  /\ pc = "parents"
  /\ \E n \in my.at :
       IF \E m \in Above[n] : fs[m] \in Blob
         THEN Fail /\ UNCHANGED fs
         ELSE fs' = WithParents(n) /\ pc' = "temp" /\ UNCHANGED my
  /\ UNCHANGED <<damaged, history>>

\* mkstemp in the parent, which the user may have removed.
WriteTemp ==
  /\ pc = "temp"
  /\ IF \A n \in my.at : InDirectories(n) THEN pc' = "replace" /\ UNCHANGED my ELSE Fail
  /\ UNCHANGED <<fs, damaged, history>>

\* Mutation: a file that is there is not replaced but removed.
ReplaceUnlinks ==
  /\ pc = "replace"
  /\ \E n \in my.at :
       IF fs[n] = Dir
         THEN Fail /\ UNCHANGED fs
         ELSE IF fs[n] = Absent
           THEN /\ fs' = [fs EXCEPT ![n] = my.snap[n]]
                /\ pc' = "fetch" /\ my' = [my EXCEPT !.todo = @ \ {n}, !.at = {}]
           ELSE fs' = [fs EXCEPT ![n] = Absent] /\ UNCHANGED <<pc, my>>
  /\ UNCHANGED <<damaged, history>>

\* os.replace(tmp_path, dest) raises when dest is a directory.
Replace ==
  /\ pc = "replace"
  /\ \E n \in my.at :
       IF fs[n] = Dir
         THEN Fail /\ UNCHANGED fs
         ELSE /\ fs' = [fs EXCEPT ![n] = my.snap[n]]
              /\ pc' = "fetch" /\ my' = [my EXCEPT !.todo = @ \ {n}, !.at = {}]
  /\ UNCHANGED <<damaged, history>>

Finish ==
  /\ pc = "fetch"
  /\ my.todo = {}
  /\ pc' = "done" /\ UNCHANGED my
  /\ UNCHANGED <<fs, damaged, history>>

\* A kill, an interrupt or an I/O error.
Stop ==
  /\ pc \notin Ended
  /\ pc' = "stopped" /\ UNCHANGED my
  /\ UNCHANGED <<fs, damaged, history>>

Restoring ==
  \/ \E s \in Snapshot : Preview(s)
  \/ Cancel \/ Confirm \/ Flatten
  \/ \E n \in Node : Fetch(n)
  \/ MakeParents \/ WriteTemp \/ Replace \/ Finish \/ Stop

Next ==
  \/ Restoring
  \/ \E n \in Node : Delete(n) \/ MakeDir(n) \/ \E b \in Blob : Write(n, b)
  \/ \E o \in Blob \cup {Listing} : Damage(o)

Spec == Init /\ [][Next]_vars

-----------------------------------------------------------------------------
(***************************************************************************)
(* Properties                                                              *)
(***************************************************************************)
\* The directory t with the snapshot s laid over it.
Overlay(t, s) ==
  [n \in Node |-> IF s[n] # Absent THEN s[n]
                  ELSE IF t[n] = Absent /\ \E m \in Node : s[m] # Absent /\ n \in Above[m]
                    THEN Dir ELSE t[n]]

\* A directory is where the snapshot has a file, or the other way round.
Clash(t, s) ==
  \E n \in Node : s[n] # Absent /\ (t[n] = Dir \/ \E m \in Above[n] : t[m] \in Blob)

\* A restore that reports success, and that nobody interfered with, has made
\* every file of the snapshot what it was and left every other file alone.
RestoreExact == quiet /\ pc = "done" => fs = Overlay(before, my.snap)

\* "a crash mid-restore never leaves a half-written file in place of a good
\* one" (restore.py): wherever it stops, each name is as it was before or as
\* the restore would have left it.
NothingHalfDone ==
  quiet => \A n \in Node : fs[n] \in {before[n], Overlay(before, my.snap)[n]}

\* "corrupted objects are reported and abort the restore before anything is
\* written" (restore.py): a restore that nobody interfered with leaves a part
\* of its work undone only where a file and a directory clash.
AbortsClean ==
  quiet => /\ pc = "refused" => fs = before
           /\ pc = "failed" => Clash(before, my.snap)

\* "never deletes a file that exists on disk" (restore.py): whatever the user
\* does meanwhile, a step of a restore writes files of the snapshot and makes
\* directories where there was nothing.
OnlySnapshotWritten ==
  [][pc' # pc => \A n \in Node :
       \/ fs'[n] = fs[n]
       \/ fs[n] = Absent /\ fs'[n] = Dir
       \/ fs[n] # Dir /\ my.snap[n] # Absent /\ fs'[n] = my.snap[n]]_vars

=============================================================================
