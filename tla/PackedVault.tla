---------------------------- MODULE PackedVault ----------------------------
(***************************************************************************)
(* A repository with packs: `vault pack` (cli.py, cmd_pack, and            *)
(* delta_pack.py), the pack-aware store every command reads through        *)
(* (pack_aware_store.py), the delta-aware collection (delta_gc.py) and     *)
(* what recover-check reports.                                             *)
(*                                                                         *)
(* Commands run one at a time and may be killed between any two file       *)
(* system operations.  `vault snapshot`, whose own steps are the subject   *)
(* of Vault, is a single step here, whole or interrupted; live is the set  *)
(* of root trees that some snapshot record names.                          *)
(*                                                                         *)
(* A pack is <name>.pack, <name>.idx and <name>.deltamanifest.json.  The   *)
(* user gives every pack a new name, or takes one that is in use, as the   *)
(* default name of `vault pack` does.                                      *)
(***************************************************************************)
EXTENDS ObjectGraph

CONSTANTS MaxPack,      \* bound: number of pack names
          MaxReused,    \* bound: the names up to it may be used again, while
                        \* there are no packs of other names
          NoObj         \* no base: the entry is stored whole

Name == 1 .. MaxPack
Blob == Obj \ Tree
BaseMap == [Obj -> Obj \cup {NoObj}]
NoBases == [o \in Obj |-> NoObj]

ASSUME PackAssumption ==
  /\ MaxPack \in Nat
  /\ NoObj \notin Obj
  /\ MaxReused \in Nat

VARIABLES loose,    \* objects/
          litter,   \* objects/ has a `.tmp-` file of a killed put()
          live,     \* the roots of the snapshots
          packs,    \* pack/
          reused,   \* history: a pack was written over another one
          pc, my    \* the command under way and its locals

vars == <<loose, litter, live, packs, reused, pc, my>>

(***************************************************************************)
(* file: there is a .pack.  index: "usable" when the .idx parses and its   *)
(* offsets lie inside the .pack, "outside" when some do not, "none" when   *)
(* there is no .idx or it does not parse.  claims: the objects the index   *)
(* lists; bad: those at whose offset the .pack has something else; base:   *)
(* the bases of the entries that are deltas.                               *)
(***************************************************************************)
Pack == [file : BOOLEAN, index : {"none", "outside", "usable"}, claims : SUBSET Obj,
         bad : SUBSET Obj, base : BaseMap, manifest : BaseMap]

NoPack == [file |-> FALSE, index |-> "none", claims |-> {}, bad |-> {},
           base |-> NoBases, manifest |-> NoBases]

Pc == {"idle", "open", "entries", "cutIndex", "index", "cutManifest", "manifest",
       "verify", "prune", "sweep"}

Local == [name : 0 .. MaxPack, todo : SUBSET Obj, base : BaseMap, temp : BOOLEAN]
Blank == [name |-> 0, todo |-> {}, base |-> NoBases, temp |-> FALSE]

TypeOK ==
  /\ loose \in SUBSET Obj
  /\ litter \in BOOLEAN
  /\ live \in SUBSET Tree
  /\ packs \in [Name -> Pack]
  /\ reused \in BOOLEAN
  /\ pc \in Pc
  /\ my \in Local
  /\ pc \in Pc \ {"idle", "sweep"} => my.name \in Name

Init ==
  /\ loose = {} /\ litter = FALSE
  /\ live = {}
  /\ packs = [n \in Name |-> NoPack]
  /\ reused = FALSE
  /\ pc = "idle" /\ my = Blank

-----------------------------------------------------------------------------
(***************************************************************************)
(* Reading                                                                 *)
(***************************************************************************)
\* What DeltaAwarePackedStore.get on pack p returns right: an entry of its
\* index, whose base it gets in turn, and for anything else the loose file.
Resolved(p, inLoose) ==
  LET outside == inLoose \ p.claims
      closed == {S \in SUBSET p.claims :
                   \A o \in p.claims \ p.bad : p.base[o] \in S \cup outside \cup {NoObj} => o \in S}
  IN outside \cup {o \in p.claims : \A S \in closed : o \in S}

\* _load_one_pack: any other pack is quarantined.
Healthy == {n \in Name : packs[n].index = "usable"}

\* _find_in_packs asks the readers in the order of the names.
Claiming(o) == {n \in Healthy : o \in packs[n].claims}
Reader(o)   == CHOOSE n \in Claiming(o) : \A m \in Claiming(o) : n <= m

\* The objects PackAwareObjectStore.get returns: a pack that lists the object
\* is believed, and its loose copy not tried.
Readable ==
  LET got == [n \in Healthy |-> Resolved(packs[n], loose)]
  IN {o \in Obj : IF Claiming(o) = {} THEN o \in loose ELSE o \in got[Reader(o)]}

\* iter_all_hashes, less the temp files.
Listed == loose \cup UNION {packs[n].claims : n \in Healthy}

\* load_all_delta_manifests: where packs disagree, the one read last counts,
\* and the order of pack_dir.glob is not defined.
Manifest ==
  LET bases(o) == {packs[n].manifest[o] : n \in Name} \ {NoObj}
  IN {m \in [Obj -> UNION {bases(o) : o \in Obj} \cup {NoObj}] :
        \A o \in Obj : IF bases(o) = {} THEN m[o] = NoObj ELSE m[o] \in bases(o)}

\* compute_expanded_reachable_objects, after the walk from the roots.
Expand(m) ==
  LET reachable == Reach(live)
      withBases == {S \in SUBSET Obj : reachable \subseteq S /\ \A q \in S : m[q] \in S \cup {NoObj}}
  IN {o \in Obj : \A S \in withBases : o \in S}

\* Every object that could be read still can.
NothingLost == UNCHANGED <<loose, packs>> \/ Readable \subseteq Readable'

TreesReadable == Reach(live) \cap Tree \subseteq Readable

-----------------------------------------------------------------------------
(***************************************************************************)
(* snapshot and snapshot-rm                                                *)
(***************************************************************************)
\* create_snapshot: put() looks for duplicates among the loose files only, so
\* objects that are packed are stored again.
TakeSnapshot(r) ==
  /\ pc = "idle"
  /\ loose' = loose \cup Reach({r})
  /\ live' = live \cup {r}
  /\ UNCHANGED <<litter, packs, pc, my, reused>>

\* It fails or is killed before its record is published.
InterruptSnapshot(r, stored) ==
  /\ pc = "idle"
  /\ stored \subseteq Reach({r}) /\ Closed(stored)
  /\ loose' = loose \cup stored
  /\ \/ UNCHANGED litter
     \/ ~ Reach({r}) \subseteq loose' /\ litter' = TRUE
  /\ UNCHANGED <<live, packs, pc, my, reused>>

RemoveSnapshot(r) ==
  /\ pc = "idle"
  /\ r \in live
  /\ live' = live \ {r}
  /\ UNCHANGED <<loose, litter, packs, pc, my, reused>>

-----------------------------------------------------------------------------
(***************************************************************************)
(* vault pack                                                              *)
(***************************************************************************)
\* Mutation: a base may be in another pack.
EncodingsAnyBase ==
  LET eligible == Readable \cap Reach(live) \cap Blob
  IN {e \in [Obj -> eligible \cup {NoObj}] :
        /\ \A o \in Obj \ (eligible \cap loose) : e[o] = NoObj
        /\ \A S \in SUBSET Obj : S # {} => \E o \in S : e[o] \notin S}

\* The outcome of write_pack's choice for every loose object: whole, or as a
\* delta against a candidate base that is loose too.  Candidates are blobs of
\* the snapshots and go round in no circle (DeltaCandidates).
Encodings ==
  LET eligible == loose \cap Reach(live) \cap Blob
  IN {e \in [Obj -> eligible \cup {NoObj}] :
        /\ \A o \in Obj \ eligible : e[o] = NoObj
        /\ \A S \in SUBSET Obj : S # {} => \E o \in S : e[o] \notin S}

\* cmd_pack up to write_pack.  A tree that cannot be read ends the command
\* here, when there are two snapshots to compare.
BeginPack(n) ==
  /\ pc = "idle"
  /\ loose # {} \/ litter
  /\ IF packs[n].file THEN \A m \in Name : packs[m].file => m <= MaxReused ELSE ~reused
  /\ Cardinality(live) > 1 => TreesReadable
  /\ \E e \in Encodings : my' = [Blank EXCEPT !.name = n, !.todo = loose, !.base = e]
  /\ pc' = "open"
  /\ UNCHANGED <<loose, litter, live, packs, reused>>

\* An index written for a .pack of other entries has offsets outside this one,
\* or finds other entries there, some of them by chance the right ones.  The
\* same entries make the same file, of which only a part may be written.
Misfits(p, whole) ==
  LET same      == p.claims = my.todo /\ p.base = my.base /\ p.bad = {}
      wrong     == IF same THEN {{}} ELSE {B \in SUBSET p.claims : p.claims \ B \subseteq my.todo}
      usable(B) == [p EXCEPT !.index = "usable", !.bad = B,
                             !.base = [o \in Obj |-> IF o \in B THEN @[o] ELSE my.base[o]]]
  IN IF p.index = "none"
       THEN {p}
       ELSE {usable(B) : B \in wrong}
            \cup IF same /\ whole THEN {} ELSE {[p EXCEPT !.index = "outside"]}

NewContent(whole) ==
  \E p \in Misfits(packs[my.name], whole) :
    packs' = [packs EXCEPT ![my.name] = [p EXCEPT !.file = TRUE]]

\* open(pack_path, "wb") truncates what was there.
OpenPack ==
  /\ pc = "open"
  /\ NewContent(FALSE)
  /\ reused' = (reused \/ packs[my.name].file)
  /\ pc' = "entries"
  /\ UNCHANGED <<loose, litter, live, my>>

\* Mutation: the loose files go before the index is written.
WriteEntriesThenPrune ==
  /\ pc = "entries"
  /\ IF litter
       THEN pc' = "idle" /\ my' = Blank /\ UNCHANGED packs
       ELSE pc' = "prune" /\ NewContent(TRUE) /\ UNCHANGED my
  /\ UNCHANGED <<loose, litter, live, reused>>

\* Every entry, until the file is closed.  A `.tmp-` file in the list raises.
WriteEntries ==
  /\ pc = "entries"
  /\ IF litter
       THEN pc' = "idle" /\ my' = Blank /\ UNCHANGED packs
       ELSE pc' = "cutIndex" /\ NewContent(TRUE) /\ UNCHANGED my
  /\ UNCHANGED <<loose, litter, live, reused>>

\* idx_path.write_bytes truncates, then writes.
CutIndex ==
  /\ pc = "cutIndex"
  /\ packs' = [packs EXCEPT ![my.name] =
                [@ EXCEPT !.index = "none", !.claims = {}, !.bad = {}, !.base = NoBases]]
  /\ pc' = "index"
  /\ UNCHANGED <<loose, litter, live, my, reused>>

Indexed(claims) ==
  packs' = [packs EXCEPT ![my.name] =
              [@ EXCEPT !.index = "usable", !.claims = claims, !.base = my.base]]

\* Mutation: entries stored as deltas are left out of the index.
WriteIndexWholeOnly ==
  /\ pc = "index"
  /\ Indexed({o \in my.todo : my.base[o] = NoObj})
  /\ pc' = "cutManifest"
  /\ UNCHANGED <<loose, litter, live, my, reused>>

WriteIndex ==
  /\ pc = "index"
  /\ Indexed(my.todo)
  /\ pc' = "cutManifest"
  /\ UNCHANGED <<loose, litter, live, my, reused>>

\* manifest_path.write_text truncates (the file does not parse and is
\* ignored), then writes.
CutManifest ==
  /\ pc = "cutManifest"
  /\ packs' = [packs EXCEPT ![my.name].manifest = NoBases]
  /\ pc' = "manifest"
  /\ UNCHANGED <<loose, litter, live, my, reused>>

WriteManifest ==
  /\ pc = "manifest"
  /\ packs' = [packs EXCEPT ![my.name].manifest = my.base]
  /\ pc' = "verify"
  /\ UNCHANGED <<loose, litter, live, my, reused>>

\* Every loose object is read back through a reader of the new pack alone.
Verify ==
  /\ pc = "verify"
  /\ IF my.todo \subseteq Resolved(packs[my.name], loose)
       THEN pc' = "prune" /\ UNCHANGED my
       ELSE pc' = "idle" /\ my' = Blank
  /\ UNCHANGED <<loose, litter, live, packs, reused>>

Prune(o) ==
  /\ pc = "prune"
  /\ o \in my.todo
  /\ loose' = loose \ {o}
  /\ my' = [my EXCEPT !.todo = @ \ {o}]
  /\ UNCHANGED <<litter, live, packs, pc, reused>>

EndPack ==
  /\ pc = "prune"
  /\ my.todo = {}
  /\ pc' = "idle" /\ my' = Blank
  /\ UNCHANGED <<loose, litter, live, packs, reused>>

-----------------------------------------------------------------------------
(***************************************************************************)
(* vault gc                                                                *)
(***************************************************************************)
\* Mutation: the walk starts from no snapshot when there are no deltas.
BeginGcNoRoots ==
  /\ pc = "idle"
  /\ TreesReadable
  /\ \E m \in Manifest :
       my' = [Blank EXCEPT !.temp = litter,
                !.todo = Listed \ IF m = NoBases THEN {} ELSE Expand(m)]
  /\ pc' = "sweep"
  /\ UNCHANGED <<loose, litter, live, packs, reused>>

\* run_gc or run_delta_aware_gc up to the sweep; with no deltas Expand adds
\* nothing.  A tree that cannot be read ends the command before.
BeginGc ==
  /\ pc = "idle"
  /\ TreesReadable
  /\ \E m \in Manifest : my' = [Blank EXCEPT !.todo = Listed \ Expand(m), !.temp = litter]
  /\ pc' = "sweep"
  /\ UNCHANGED <<loose, litter, live, packs, reused>>

\* PackAwareObjectStore.delete removes the loose copy only.
Sweep(o) ==
  /\ pc = "sweep"
  /\ o \in my.todo
  /\ loose' = loose \ {o}
  /\ my' = [my EXCEPT !.todo = @ \ {o}]
  /\ UNCHANGED <<litter, live, packs, pc, reused>>

\* compressed_size of a `.tmp-` entry raises.
SweepHitsTemp ==
  /\ pc = "sweep"
  /\ my.temp
  /\ pc' = "idle" /\ my' = Blank
  /\ UNCHANGED <<loose, litter, live, packs, reused>>

EndGc ==
  /\ pc = "sweep"
  /\ my.todo = {} /\ ~ my.temp
  /\ pc' = "idle" /\ my' = Blank
  /\ UNCHANGED <<loose, litter, live, packs, reused>>

Crash ==
  /\ pc # "idle"
  /\ pc' = "idle" /\ my' = Blank
  /\ UNCHANGED <<loose, litter, live, packs, reused>>

-----------------------------------------------------------------------------
Snapshots ==
  \E r \in Tree :
    \/ TakeSnapshot(r)
    \/ \E stored \in SUBSET Reach({r}) : InterruptSnapshot(r, stored)
    \/ RemoveSnapshot(r)

Packing ==
  \/ \E n \in Name : BeginPack(n)
  \/ OpenPack \/ WriteEntries \/ CutIndex \/ WriteIndex
  \/ CutManifest \/ WriteManifest \/ Verify \/ EndPack
  \/ \E o \in Obj : Prune(o)

Collecting ==
  \/ BeginGc \/ SweepHitsTemp \/ EndGc
  \/ \E o \in Obj : Sweep(o)

Next == Snapshots \/ Packing \/ Collecting \/ Crash

Spec == Init /\ [][Next]_vars

-----------------------------------------------------------------------------
(***************************************************************************)
(* Reports                                                                 *)
(***************************************************************************)
\* Mutation: the bases are looked for among the loose files.
RecoverCheckLoose(r, m) ==
  LET objects == Reach({r}) IN
  objects \subseteq Readable /\ {m[o] : o \in objects} \ {NoObj} \subseteq loose

\* check_snapshot_recoverable has nothing to report: every object the tree
\* references reads back, and so does the base of every one that a manifest
\* says is a delta.
RecoverCheck(r, m) ==
  LET objects == Reach({r}) IN
  objects \cup ({m[o] : o \in objects} \ {NoObj}) \subseteq Readable

-----------------------------------------------------------------------------
(***************************************************************************)
(* Properties                                                              *)
(***************************************************************************)
\* As long as every pack has a name of its own:
\* every object of every snapshot can be read through the packs, at every
\* moment of a pack, a collection or what a crash left of them;
SnapshotsReadable == ~reused => Reach(live) \subseteq Readable

\* a healthy pack needs nothing from outside itself, however long its chains
\* of deltas are: neither a collection nor another pack can break it;
PacksSelfContained == ~reused => \A n \in Healthy : packs[n].claims \subseteq Resolved(packs[n], {})

\* only a collection makes an object unreadable; `vault pack`, with its
\* truncations and deletions, never does, whatever moment it is killed at;
OnlyGcForgets == [][pc # "sweep" /\ ~reused' => NothingLost]_vars

\* "if I had to restore this snapshot right now, would it succeed?"
\* (recover_check.py): the audit says so exactly when it would.
RecoverCheckTells ==
  ~reused => \A r \in live, m \in Manifest :
               RecoverCheck(r, m) <=> Reach({r}) \subseteq Readable

\* Verify-before-delete: the deletions of `vault pack` make nothing unreadable,
\* not even over an index that a killed pack left behind under the same name,
\* as long as at most one name is ever used again.
PruneKeeps == [][pc = "prune" => NothingLost]_vars

(***************************************************************************)
(* What the source says and the code does not do.                          *)
(***************************************************************************)
\* "Verify-before-delete ... If anything fails verification, NOTHING is
\* deleted" (cmd_pack): no step of a pack takes an object away.
PackDeletesNothing == [][pc \notin {"idle", "sweep"} => NothingLost]_vars

=============================================================================
