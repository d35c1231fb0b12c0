---------------------------- MODULE PathHistory ----------------------------
(***************************************************************************)
(* `vault log <path>` (cli.py, cmd_log) and the index it keeps             *)
(* (path_history.py): two files, replaced one after the other once per     *)
(* snapshot of a rebuild, by commands that take no lock and run beside     *)
(* each other, beside `vault snapshot` and beside `vault snapshot-rm`.     *)
(*                                                                         *)
(* A rebuild visits the snapshots in the order of their ids, so the list   *)
(* of a path's entries is a set whose last entry is the one with the       *)
(* greatest id; so is the list of renames, whose later records win.        *)
(***************************************************************************)
EXTENDS Integers, FiniteSets

CONSTANTS Path,
          Blob,
          Absent,     \* no file under a path
          Content,    \* what the tree of a snapshot may flatten to
          NoSnap,     \* no snapshot was taken under an id
          Proc,       \* slots of `vault log` invocations
          MaxId       \* bound: snapshots taken in a behaviour

Id    == 1 .. MaxId
Entry == Id \X Blob
Link  == Path \X Path \X Id     \* <<old path, new path, snapshot>>

ASSUME PathAssumption ==
  /\ MaxId \in Nat
  /\ Absent \notin Blob
  /\ Content \subseteq [Path -> Blob \cup {Absent}]
  /\ NoSnap \notin Content

VARIABLES
  taken,     \* what each snapshot's tree flattens to; trees never change
  live,      \* the ids with a record in snapshots/
  index,     \* path_history.json ({} for a path without a key)
  sidecar,   \* path_renames.json ({} without the file)
  scanned,   \* whether path_renames.json exists
  pc, my

vars == <<taken, live, index, sidecar, scanned, pc, my>>
disk == <<taken, live, index, sidecar, scanned>>

Taken == {i \in Id : taken[i] # NoSnap}
Empty == [a \in Path |-> {}]

Location == {"idle", "loadLinks", "decide", "record", "saveIndex", "saveLinks", "report"}

\* began is history: the snapshots when the invocation started.
Local == [path : Path \cup {Absent}, hist : [Path -> SUBSET Entry], links : SUBSET Link,
          todo : SUBSET Id, rebuilt : BOOLEAN, began : (SUBSET Id) \X (SUBSET Id)]

Blank == [path |-> Absent, hist |-> Empty, links |-> {}, todo |-> {},
          rebuilt |-> FALSE, began |-> <<{}, {}>>]

TypeOK ==
  /\ taken \in [Id -> Content \cup {NoSnap}]
  /\ live \in SUBSET Id
  /\ index \in [Path -> SUBSET Entry]
  /\ sidecar \in SUBSET Link
  /\ scanned \in BOOLEAN
  /\ pc \in [Proc -> Location]
  /\ my \in [Proc -> Local]

Init ==
  /\ taken = [i \in Id |-> NoSnap]
  /\ live = {}
  /\ index = Empty
  /\ sidecar = {} /\ scanned = FALSE
  /\ pc = [p \in Proc |-> "idle"]
  /\ my = [p \in Proc |-> Blank]

Goto(p, l) == pc' = [pc EXCEPT ![p] = l]
End(p)     == Goto(p, "idle") /\ my' = [my EXCEPT ![p] = Blank]

-----------------------------------------------------------------------------
(***************************************************************************)
(* The commands that change the snapshots, each in one step (see Vault).   *)
(***************************************************************************)
\* Mutation: a removed id is given out again.
TakeAgain(i, c) ==
  /\ i \notin live /\ \A j \in live : j < i
  /\ taken' = [taken EXCEPT ![i] = c]
  /\ live' = live \cup {i}
  /\ UNCHANGED <<index, sidecar, scanned, pc, my>>

Take(i, c) ==
  /\ i \notin Taken /\ \A j \in Id : j < i => j \in Taken
  /\ taken' = [taken EXCEPT ![i] = c]
  /\ live' = live \cup {i}
  /\ UNCHANGED <<index, sidecar, scanned, pc, my>>

Remove(i) ==
  /\ i \in live
  /\ live' = live \ {i}
  /\ UNCHANGED <<taken, index, sidecar, scanned, pc, my>>

-----------------------------------------------------------------------------
(***************************************************************************)
(* What one snapshot adds to the index                                     *)
(***************************************************************************)
\* existing[-1][1] is b.
LastIs(entries, b) == \E e \in entries : e[2] = b /\ \A f \in entries : f[1] <= e[1]

\* record_snapshot: an entry for every path whose blob is not the last one.
WithEntries(hist, i) ==
  [a \in Path |->
     IF taken[i][a] = Absent \/ LastIs(hist[a], taken[i][a]) THEN hist[a]
     ELSE hist[a] \cup {<<i, taken[i][a]>>}]

\* The paths of c, absent from d, that hold the blob b.
OnlyIn(c, d, b) == {a \in Path : c[a] = b /\ d[a] = Absent}

\* Mutation: a path that is new counts although the old one is still there.
RenamedCopied(old, new, o, n) ==
  \E b \in Blob : old[o] = b /\ OnlyIn(new, old, b) = {n}

\* _detect_renames: a blob that left exactly one path and appeared at exactly
\* one.
Renamed(old, new, o, n) ==
  \E b \in Blob : OnlyIn(old, new, b) = {o} /\ OnlyIn(new, old, b) = {n}

\* j is the greatest of ids below i.
Precedes(ids, j, i) == j \in ids /\ j < i /\ \A k \in ids : k < i => k <= j

\* _previous_snapshot_flat: list_snapshots() is called again for each
\* snapshot, so it may differ from the list the rebuild works through.
WithLinks(links, i) ==
  links \cup {l \in Link : l[3] = i /\
    \E j \in live : Precedes(live, j, i) /\ Renamed(taken[j], taken[i], l[1], l[2])}

-----------------------------------------------------------------------------
(***************************************************************************)
(* vault log                                                               *)
(***************************************************************************)
\* PathHistoryIndex.__init__ reads the index, then the sidecar.
LoadIndex(p, a) ==
  /\ pc[p] = "idle"
  /\ Goto(p, "loadLinks")
  /\ my' = [my EXCEPT ![p] = [Blank EXCEPT !.path = a, !.hist = index,
                                           !.began = <<Taken, live>>]]
  /\ UNCHANGED disk

LoadLinks(p) ==
  /\ pc[p] = "loadLinks"
  /\ Goto(p, "decide")
  /\ my' = [my EXCEPT ![p].links = sidecar]
  /\ UNCHANGED disk

CacheHit(p) == my[p].hist[my[p].path] # {} /\ scanned

\* The path has entries and the sidecar exists: no rebuild.
UseIndex(p) ==
  /\ pc[p] = "decide"
  /\ CacheHit(p)
  /\ Goto(p, "report")
  /\ UNCHANGED <<disk, my>>

\* Mutation: the rebuild adds to what was loaded.
RebuildKeeping(p) ==
  /\ pc[p] = "decide"
  /\ ~CacheHit(p)
  /\ Goto(p, IF live = {} THEN "report" ELSE "record")
  /\ my' = [my EXCEPT ![p].rebuilt = TRUE, ![p].todo = live]
  /\ UNCHANGED disk

\* rebuild_from_scratch: start empty, list the snapshots.
Rebuild(p) ==
  /\ pc[p] = "decide"
  /\ ~CacheHit(p)
  /\ Goto(p, IF live = {} THEN "report" ELSE "record")
  /\ my' = [my EXCEPT ![p].hist = Empty, ![p].links = {},
                      ![p].rebuilt = TRUE, ![p].todo = live]
  /\ UNCHANGED disk

\* record_snapshot of the next one, in memory.
Record(p) ==
  /\ pc[p] = "record"
  /\ \E i \in my[p].todo :
       /\ \A j \in my[p].todo : i <= j
       /\ my' = [my EXCEPT ![p].hist = WithEntries(@, i), ![p].links = WithLinks(@, i),
                           ![p].todo = @ \ {i}]
  /\ Goto(p, "saveIndex")
  /\ UNCHANGED disk

\* The snapshot was removed since it was listed, and its trees collected.
RecordFails(p) ==
  /\ pc[p] = "record"
  /\ \E i \in my[p].todo \ live : \A j \in my[p].todo : i <= j
  /\ End(p)
  /\ UNCHANGED disk

\* _persist: a temp file of its own replaces the index.
SaveIndex(p) ==
  /\ pc[p] = "saveIndex"
  /\ index' = my[p].hist
  /\ Goto(p, "saveLinks")
  /\ UNCHANGED <<taken, live, sidecar, scanned, my>>

\* _persist_renames, whether or not a rename was found.
SaveLinks(p) ==
  /\ pc[p] = "saveLinks"
  /\ sidecar' = my[p].links /\ scanned' = TRUE
  /\ Goto(p, IF my[p].todo = {} THEN "report" ELSE "record")
  /\ UNCHANGED <<taken, live, index, my>>

\* The lineage is printed.
Report(p) ==
  /\ pc[p] = "report"
  /\ End(p)
  /\ UNCHANGED disk

Kill(p) ==
  /\ pc[p] # "idle"
  /\ End(p)
  /\ UNCHANGED disk

Log(p) ==
  \/ \E a \in Path : LoadIndex(p, a)
  \/ LoadLinks(p) \/ UseIndex(p) \/ Rebuild(p) \/ Record(p) \/ RecordFails(p)
  \/ SaveIndex(p) \/ SaveLinks(p) \/ Report(p) \/ Kill(p)

Next ==
  \/ \E i \in Id, c \in Content : Take(i, c)
  \/ \E i \in Id : Remove(i)
  \/ \E p \in Proc : Log(p)

Spec == Init /\ [][Next]_vars

-----------------------------------------------------------------------------
(***************************************************************************)
(* The lineage of a path (_name_chain)                                     *)
(***************************************************************************)
\* The dictionaries back and fwd: the last record for a name wins.
Older(links) ==
  [a \in Path |-> {o \in Path : \E i \in Id : /\ <<o, a, i>> \in links
                                             /\ \A l \in links : l[2] = a => l[3] <= i}]

Newer(links) ==
  [a \in Path |-> {n \in Path : \E i \in Id : /\ <<a, n, i>> \in links
                                             /\ \A l \in links : l[1] = a => l[3] <= i}]

\* The names seen when the loop has gone onward from a and stopped at a name
\* seen before, or at the last: every name but those that a set closed under
\* its steps can do without.  Each step follows another record, so its limit
\* is not reached.
Follow(onward, a, seen) ==
  {b \in Path : \A S \in SUBSET (Path \ {b}) :
     seen \subseteq S /\ onward[a] \subseteq S => \E c \in S \ seen : ~ (onward[c] \subseteq S)}

\* Mutation: only the earlier names are followed.
NameChainBack(links, a) == Follow(Older(links), a, {a})

\* The earlier names, then the later ones not met on the way back.
NameChain(links, a) == Follow(Newer(links), a, Follow(Older(links), a, {a}))

-----------------------------------------------------------------------------
(***************************************************************************)
(* What an index may say, whoever wrote it                                 *)
(***************************************************************************)
\* Each entry is what its snapshot holds at the path, and an entry differs
\* from the one before it.
SoundHistory(hist) ==
  \A a \in Path : \A e \in hist[a] :
    /\ e[1] \in Taken /\ taken[e[1]][a] = e[2]
    /\ \A f \in hist[a] :
         f[1] < e[1] /\ (\A g \in hist[a] : g[1] < e[1] => g[1] <= f[1]) => f[2] # e[2]

\* A link's content came to the new path in its snapshot, left the old path,
\* and was at the old path and not at the new one in an earlier snapshot.
SoundLinks(links) ==
  \A l \in links :
    /\ l[3] \in Taken /\ taken[l[3]][l[1]] = Absent /\ taken[l[3]][l[2]] # Absent
    /\ \E j \in Taken :
         j < l[3] /\ taken[j][l[1]] = taken[l[3]][l[2]] /\ taken[j][l[2]] = Absent

\* "it never fabricates data (every (snapshot, hash) shown genuinely occurred
\* at that path)" (README.md): whatever rebuilds overlap, are killed or read
\* each other's files, the index on disk says nothing untrue.
IndexSound == SoundHistory(index)

\* The same for the rename links, although each rebuild lists the snapshots
\* anew while others take and remove some.
LinksSound == SoundLinks(sidecar)

(***************************************************************************)
(* What the live snapshots say, by definition                              *)
(***************************************************************************)
\* The changes of a path: the snapshots that hold a blob there which the
\* last snapshot before them that has the path does not.
Changes(a) ==
  {<<i, taken[i][a]>> : i \in {k \in live :
     /\ taken[k][a] # Absent
     /\ \A j \in live :
          Precedes({l \in live : taken[l][a] # Absent}, j, k) => taken[j][a] # taken[k][a]}}

\* The renames between neighbouring snapshots.
Moves ==
  {l \in Link : l[3] \in live /\
    \E j \in live : Precedes(live, j, l[3]) /\ Renamed(taken[j], taken[l[3]], l[1], l[2])}

\* No snapshot was taken or removed while the invocation ran.
Quiet(p) == my[p].began = <<Taken, live>>

\* A log that had to rebuild, while the snapshots stayed as they were, prints
\* from exactly the changes and renames of the live snapshots, whatever other
\* logs did to the files meanwhile.
RebuildExact ==
  \A p \in Proc : pc[p] = "report" /\ my[p].rebuilt /\ Quiet(p) =>
    /\ my[p].hist = [a \in Path |-> Changes(a)]
    /\ my[p].links = Moves

\* "`vault log <either-path>` shows the history across the move" (README.md):
\* as long as no name was left or reached twice, all names of a file lead to
\* the same lineage.
SameLineage ==
  LET unique == \A k, l \in sidecar : k # l => k[1] # l[1] /\ k[2] # l[2]
      names  == [q \in Path |-> NameChain(sidecar, q)]
  IN unique => \A q \in Path : \A r \in names[q] \ {q} : names[r] = names[q]

(***************************************************************************)
(* "If the index is missing or stale, it is rebuilt from real snapshot     *)
(* data" (cli.py, cmd_log): what a log prints for its path are the changes *)
(* of the path in the snapshots that are there.                            *)
(***************************************************************************)
LogCurrent ==
  \A p \in Proc : pc[p] = "report" /\ Quiet(p) => my[p].hist[my[p].path] = Changes(my[p].path)

=============================================================================
