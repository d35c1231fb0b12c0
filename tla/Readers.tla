------------------------------ MODULE Readers ------------------------------
(***************************************************************************)
(* The commands that take no lock (cli.py, _with_repo_lock) beside those   *)
(* of PackedVault that change the repository: list, explain, status, show, *)
(* diff, trace, verify and recover-check, and the inspector of             *)
(* `vault serve`, which answers request after request from the packs it    *)
(* found when it was started.                                              *)
(*                                                                         *)
(* One reader is enough: readers write nothing.  A snapshot record is      *)
(* known by its root tree, as in PackedVault.  A directory listing is a    *)
(* single step, and so are a file's open and its read.                     *)
(***************************************************************************)
EXTENDS PackedVault

CONSTANT MaxBegun   \* bound: commands of PackedVault that begin beside one reader

ASSUME ReadersAssumption == MaxBegun \in Nat

VARIABLES phase, cmd,   \* the reader: what it is doing, and for which command
          rd,           \* its locals
          hist          \* history

reader == <<phase, cmd, rd, hist>>
allVars == <<vars, reader>>

Phase == {"off", "open", "ids", "reading", "objects", "done", "failed"}
Whole == {"list", "status", "trace"}                  \* of all snapshots
Ended == {"done", "failed"}

\* The endpoints of the inspector.
Api == {"list", "explain", "status", "diff", "verify"}
Command == Whole \cup Api \cup {"show", "recover", "none", "serve"}

(***************************************************************************)
(* of: the snapshots, or the object, the command is about.  found: the     *)
(* object to trace exists.  pending: packs not looked at yet; view: those  *)
(* loaded, the others being quarantined.  ids, roots: records to load, and *)
(* loaded.  todo, seen: objects to read, and read.  bad: what the command  *)
(* complains of, the last one being the reason when it failed.  temp: the  *)
(* listing had a `.tmp-` file.                                             *)
(***************************************************************************)
Locals == [of : SUBSET Obj, found : BOOLEAN, pending : SUBSET Name, view : SUBSET Name,
           ids : SUBSET Tree, roots : SUBSET Tree, todo : SUBSET Obj,
           seen : SUBSET Obj, bad : SUBSET Obj, temp : BOOLEAN]

NoLocals == [of |-> {}, found |-> FALSE, pending |-> {}, view |-> {}, ids |-> {},
             roots |-> {}, todo |-> {}, seen |-> {}, bad |-> {}, temp |-> FALSE]

(***************************************************************************)
(* Since the reader opened the store: taken, loose files deleted of which  *)
(* it knows no packed copy; quiet, nobody changed anything; begun, how     *)
(* many commands began to.  kept: the snapshots that are there since the   *)
(* command looked which there are.                                         *)
(***************************************************************************)
Hist == [taken : SUBSET Obj, quiet : BOOLEAN, begun : 0 .. MaxBegun, kept : SUBSET Tree]
NoHist == [taken |-> {}, quiet |-> TRUE, begun |-> 0, kept |-> {}]

ReaderTypeOK ==
  /\ TypeOK
  /\ phase \in Phase /\ cmd \in Command
  /\ rd \in Locals /\ hist \in Hist
  /\ rd.view \subseteq Healthy

ReadersInit ==
  /\ Init
  /\ phase = "off" /\ cmd = "none"
  /\ rd = NoLocals /\ hist = NoHist

-----------------------------------------------------------------------------
(***************************************************************************)
(* The store as the reader sees it                                         *)
(***************************************************************************)
\* Mutation: what a pack holds is looked for among the loose files.
GetsLooseOnly(o) == o \in loose

\* PackAwareObjectStore.get: the first loaded pack that lists the object, and
\* the loose file when none does.
Gets(o) ==
  LET listing == {n \in rd.view : o \in packs[n].claims} IN
  IF listing = {}
    THEN o \in loose
    ELSE o \in Resolved(packs[CHOOSE n \in listing : \A m \in listing : n <= m], loose)

InView(o) == \E n \in rd.view : o \in packs[n].claims

\* has: neither a pack's index nor a directory entry says that it reads.
Has(o) == InView(o) \/ o \in loose

\* Mutation: what the packs hold is not listed.
ListingLooseOnly == loose

\* iter_all_hashes, less the temp files.
Listing == loose \cup UNION {packs[n].claims : n \in rd.view}

\* _engine_and_source, up to the glob of the .pack files.
Open ==
  /\ phase = "off"
  /\ phase' = "open"
  /\ rd' = [NoLocals EXCEPT !.pending = {n \in Name : packs[n].file}]
  /\ hist' = NoHist
  /\ UNCHANGED <<vars, cmd>>

\* Mutation: a pack that cannot be used ends the command.
LoadPackOrFail(n) ==
  /\ phase = "open"
  /\ n \in rd.pending
  /\ IF packs[n].index = "usable"
       THEN /\ rd' = [rd EXCEPT !.pending = @ \ {n}, !.view = @ \cup {n}]
            /\ UNCHANGED phase
       ELSE phase' = "failed" /\ UNCHANGED rd
  /\ UNCHANGED <<vars, cmd, hist>>

\* Mutation: a pack is believed unexamined.
LoadPackTrusting(n) ==
  /\ phase = "open"
  /\ n \in rd.pending
  /\ rd' = [rd EXCEPT !.pending = @ \ {n}, !.view = @ \cup {n}]
  /\ UNCHANGED <<vars, phase, cmd, hist>>

\* _load_one_pack: it is used or quarantined, for the life of the store.
LoadPack(n) ==
  /\ phase = "open"
  /\ n \in rd.pending
  /\ rd' = IF packs[n].index = "usable"
             THEN [rd EXCEPT !.pending = @ \ {n}, !.view = @ \cup {n}]
             ELSE [rd EXCEPT !.pending = @ \ {n}]
  /\ UNCHANGED <<vars, phase, cmd, hist>>

-----------------------------------------------------------------------------
(***************************************************************************)
(* The commands, up to their first access to the repository.  The user     *)
(* names snapshots that exist.                                             *)
(***************************************************************************)
Begin(c, next, locals) ==
  /\ phase = "open" /\ rd.pending = {}
  /\ cmd = "serve" => c \in Api
  /\ cmd' = c /\ phase' = next
  /\ rd' = [locals EXCEPT !.view = rd.view]
  /\ hist' = [hist EXCEPT !.kept = live]
  /\ UNCHANGED vars

\* list_snapshots reads the directory, then loads what it found.
BeginList == Begin("list", "reading", [NoLocals EXCEPT !.ids = live])

\* cmd_status and cmd_info, and /api/status.
BeginStatus == Begin("status", "reading", [NoLocals EXCEPT !.ids = live])

\* has() is called before the snapshots are listed.
BeginTrace(o) == Begin("trace", "ids", [NoLocals EXCEPT !.of = {o}, !.found = Has(o)])

BeginExplain(r) == Begin("explain", "reading", [NoLocals EXCEPT !.of = {r}, !.ids = {r}])

BeginShow(r) == Begin("show", "reading", [NoLocals EXCEPT !.of = {r}, !.ids = {r}])

BeginDiff(a, b) == Begin("diff", "reading", [NoLocals EXCEPT !.of = {a, b}, !.ids = {a, b}])

BeginRecover(r) == Begin("recover", "reading", [NoLocals EXCEPT !.of = {r}, !.ids = {r}])

\* The objects are listed at once, and verified one by one.
BeginVerify ==
  Begin("verify", "objects", [NoLocals EXCEPT !.todo = Listing, !.temp = litter])

Close ==
  /\ phase \in Ended
  /\ phase' = "off" /\ cmd' = "none"
  /\ rd' = NoLocals /\ hist' = NoHist
  /\ UNCHANGED vars

\* The handler of `vault serve` answers, and the next request finds the same
\* store.  An exception that route() does not catch ends the request only.
Answer ==
  /\ phase \in Ended /\ cmd \in Api
  /\ phase' = "open" /\ cmd' = "serve"
  /\ rd' = [NoLocals EXCEPT !.view = rd.view]
  /\ hist' = [hist EXCEPT !.kept = {}]
  /\ UNCHANGED vars

-----------------------------------------------------------------------------
(***************************************************************************)
(* Snapshot records                                                        *)
(***************************************************************************)
\* find_object_locations gets the list after has() was called.
ListIds ==
  /\ phase = "ids"
  /\ phase' = "reading"
  /\ rd' = [rd EXCEPT !.ids = live]
  /\ hist' = [hist EXCEPT !.kept = live]
  /\ UNCHANGED <<vars, cmd>>

\* show, diff, trace and recover-check walk from the roots, once they have
\* loaded the records.
Walks == {"show", "diff", "trace", "recover"}

\* load_snapshot: the record may have been removed, even if the same tree has
\* another snapshot now.  recover-check makes a report of it, the others fail.
LoadRecord(r) ==
  /\ phase = "reading"
  /\ r \in rd.ids
  /\ IF r \in hist.kept
       THEN /\ rd' = [rd EXCEPT !.ids = @ \ {r}, !.roots = @ \cup {r},
                                !.todo = IF cmd \in Walks THEN @ \cup {r} ELSE @]
            /\ UNCHANGED phase
       ELSE /\ rd' = [rd EXCEPT !.bad = {r}, !.todo = {}]
            /\ phase' = IF cmd = "recover" THEN "done" ELSE "failed"
  /\ UNCHANGED <<vars, cmd, hist>>

\* compute_status lists every object next.
ListObjects ==
  /\ phase = "reading" /\ rd.ids = {}
  /\ cmd = "status"
  /\ phase' = "objects"
  /\ rd' = [rd EXCEPT !.todo = Listing, !.temp = litter]
  /\ UNCHANGED <<vars, cmd, hist>>

-----------------------------------------------------------------------------
(***************************************************************************)
(* Objects                                                                 *)
(***************************************************************************)
Reading(o, commands) ==
  /\ phase \in {"reading", "objects"} /\ rd.ids = {}
  /\ o \in rd.todo /\ cmd \in commands

\* o is done with, and more is to come.
Passed(o, more) ==
  rd' = [rd EXCEPT !.seen = @ \cup {o}, !.todo = (@ \cup (more \ rd.seen)) \ {o}]

Complain(o) == rd' = [rd EXCEPT !.bad = @ \cup {o}, !.todo = @ \ {o}]

FailOn(o) == phase' = "failed" /\ Complain(o)

\* Mutation: directories are listed, not entered.
ShowEntryFlat(o) ==
  /\ Reading(o, {"show"})
  /\ IF Gets(o) THEN Passed(o, IF o \in rd.roots THEN Kids[o] \ Tree ELSE {}) /\ UNCHANGED phase
                ELSE FailOn(o)
  /\ UNCHANGED <<vars, cmd, hist>>

\* walk_tree_entries, and cmd_show's get of every file for its size.
ShowEntry(o) ==
  /\ Reading(o, {"show"})
  /\ IF Gets(o) THEN Passed(o, Kids[o]) /\ UNCHANGED phase ELSE FailOn(o)
  /\ UNCHANGED <<vars, cmd, hist>>

\* _flatten_tree reads directories only.
FlattenTree(o) ==
  /\ Reading(o, {"diff"})
  /\ IF Gets(o) THEN Passed(o, Kids[o] \cap Tree) /\ UNCHANGED phase ELSE FailOn(o)
  /\ UNCHANGED <<vars, cmd, hist>>

\* _find_paths_for_hash.
FindPaths(o) ==
  /\ Reading(o, {"trace"})
  /\ IF Gets(o) THEN Passed(o, Kids[o] \cap Tree) /\ UNCHANGED phase ELSE FailOn(o)
  /\ UNCHANGED <<vars, cmd, hist>>

\* compressed_size: a file that has gone raises.
Measure(o) ==
  /\ Reading(o, {"status"})
  /\ IF Has(o) THEN rd' = [rd EXCEPT !.todo = @ \ {o}] /\ UNCHANGED phase ELSE FailOn(o)
  /\ UNCHANGED <<vars, cmd, hist>>

\* A `.tmp-` file has no valid hash: compressed_size raises,
MeasureTemp ==
  /\ phase = "objects" /\ cmd = "status"
  /\ rd.temp
  /\ phase' = "failed"
  /\ UNCHANGED <<vars, cmd, rd, hist>>

\* while verify counts it as corrupted.  It reports and goes on.
VerifyObject(o) ==
  /\ Reading(o, {"verify"})
  /\ IF Gets(o) THEN Passed(o, {}) ELSE Complain(o)
  /\ UNCHANGED <<vars, phase, cmd, hist>>

\* _walk_tree and verify_object: a tree or a file that does not read is an
\* issue, as is the base of a delta (PackedVault, RecoverCheck).  But a loose
\* tree may vanish between get's exists() and its read, which is an OSError
\* that _walk_tree does not catch.
AuditObject(o) ==
  /\ Reading(o, {"recover"})
  /\ \/ Gets(o) /\ Passed(o, Kids[o]) /\ UNCHANGED phase
     \/ ~ Gets(o) /\ Complain(o) /\ UNCHANGED phase
     \/ o \in Tree \cap hist.taken /\ ~ Gets(o) /\ FailOn(o)
  /\ UNCHANGED <<vars, cmd, hist>>

\* The command has all it prints.
End ==
  /\ phase \in {"reading", "objects"} /\ rd.ids = {} /\ rd.todo = {}
  /\ cmd = "status" => phase = "objects" /\ ~ rd.temp
  /\ phase' = "done"
  /\ UNCHANGED <<vars, cmd, rd, hist>>

-----------------------------------------------------------------------------
Opening == Open \/ Answer \/ Close \/ \E n \in Name : LoadPack(n)

Commands ==
  \/ BeginList \/ BeginStatus \/ BeginVerify
  \/ \E o \in Obj : BeginTrace(o)
  \/ \E r \in live : BeginExplain(r) \/ BeginShow(r) \/ BeginRecover(r)
  \/ \E a, b \in live : BeginDiff(a, b)

Records ==
  \/ ListIds \/ ListObjects
  \/ \E r \in Tree : LoadRecord(r)

Objects ==
  \/ MeasureTemp \/ End
  \/ \E o \in Obj :
       \/ ShowEntry(o) \/ FlattenTree(o) \/ FindPaths(o) \/ Measure(o)
       \/ VerifyObject(o) \/ AuditObject(o)

\* Bound: a snapshot that is interrupted leaves a temp file and no objects;
\* those that nothing refers to come from snapshots that were removed.
WriterNext ==
  \/ \E r \in Tree : TakeSnapshot(r) \/ InterruptSnapshot(r, {}) \/ RemoveSnapshot(r)
  \/ Packing \/ Collecting \/ Crash

\* A step of PackedVault, and what it means to the reader.  A command that has
\* ended only prints, so nothing need happen before it has.  Bound: no pack is
\* written over another one, so a pack that has been loaded stays as it is.
Write ==
  /\ phase \notin Ended
  /\ pc = "idle" => hist.begun < MaxBegun
  /\ WriterNext
  /\ ~ reused'
  /\ hist' = IF phase = "off" THEN hist
             ELSE [taken |-> hist.taken \cup {o \in loose \ loose' : ~ InView(o)},
                   quiet |-> FALSE,
                   begun |-> IF pc = "idle" THEN hist.begun + 1 ELSE hist.begun,
                   kept  |-> hist.kept \cap live']
  /\ UNCHANGED <<phase, cmd, rd>>

ReadersNext == Opening \/ Commands \/ Records \/ Objects \/ Write

ReadersSpec == ReadersInit /\ [][ReadersNext]_allVars

-----------------------------------------------------------------------------
(***************************************************************************)
(* Verdicts                                                                *)
(***************************************************************************)
\* Mutation: the root itself is not compared.
TraceReferencesInside ==
  \E t \in rd.seen : rd.of \subseteq Kids[t]

\* _find_paths_for_hash compares the root and the entries of every tree.
TraceReferences ==
  rd.of \subseteq rd.roots \/ \E t \in rd.seen : rd.of \subseteq Kids[t]

\* trace_object.
WouldGcDelete == rd.found /\ ~ TraceReferences

-----------------------------------------------------------------------------
(***************************************************************************)
(* Properties                                                              *)
(***************************************************************************)
\* A command complains of nothing that was not really taken from it: each
\* object it reports, or fails on, was pruned or collected after the reader
\* opened the store, or is a snapshot removed since the command looked.
AlarmsExplained == rd.bad \subseteq hist.taken \cup (rd.ids \ hist.kept)

\* While nobody writes, the reader is never in trouble, whatever killed
\* commands left behind: no object is missed and no command fails.
QuietReadsSucceed == hist.quiet /\ ~ litter => rd.bad = {} /\ phase # "failed"

\* A verify that ends has read every object of the snapshots that were there
\* all the time, except those taken under its hands.
VerifyComplete ==
  phase = "done" /\ cmd = "verify" => Reach(hist.kept) \subseteq rd.seen \cup hist.taken

\* What a listing or a walk prints is what was published, though snapshots
\* come and go and objects move while it runs.
WalkComplete ==
  phase = "done" =>
    /\ cmd \in Whole => hist.kept \subseteq rd.roots
    /\ cmd = "show" => rd.seen = Reach(rd.of)
    /\ cmd = "diff" => rd.seen = Reach(rd.of) \cap Tree
    /\ cmd = "recover" /\ rd.bad = {} => Reach(rd.of) = rd.seen

\* trace's "GC status": while nobody writes and nothing is stored as a delta,
\* an object is said to be collected exactly when the next collection does.
TraceTells ==
  phase = "done" /\ cmd = "trace" /\ hist.quiet /\ rd.found /\ Manifest = {NoBases} =>
    (WouldGcDelete <=> rd.of \subseteq Listed \ Expand(NoBases))

=============================================================================
