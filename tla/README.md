# ChronoVault in TLA+

A formal model of ChronoVault (`src/vault`): a content-addressed snapshot store
with a repository lock, garbage collection, delta packs and an index of path
histories. The modules below
are checked by TLC on small instances (`*.cfg`); the modules named `...Proofs`
hold theorems about them that TLAPS checks for every value of the constants.
`PROJECT.json` lists runs, mutants, findings, hazards and theorems, and maps
every definition to the lines it stands for.

## 1. The system

One `vault` command is one process. There is no daemon: everything two commands
share is in the `.vault` directory, and they interact through files only. A
command may be killed at any point, and every file system call of one may fall
between any two of another.

| Component | State | Operations | Modelled in |
| --- | --- | --- | --- |
| Repository lock (`experimental/lock.py`) | `repo.lock`, the pid in it; per process the pid read and the deadline | `acquire`, `release`, breaking stale locks | `RepositoryLock` |
| Loose objects (`objects.py`) | `objects/xx/...`, `.tmp-` files | `put` (with deduplication and sync), `get`, `delete`, iteration | `ObjectGraph`, `Vault`, `Durability` |
| Snapshot engine (`snapshot.py`) | `snapshots/<id>`, `.tmp-<id>`, `next_id`, `.next_id-tmp` | `create_snapshot`, `delete_snapshot`, `list_snapshots`, tree walks | `Vault`, `SnapshotHistory`, `Durability`, `Readers` |
| Tree format (`snapshot.py`) | the bytes of a directory | `serialize_tree`, `deserialize_tree`, name checks | `TreeFormat` |
| Collector (`gc.py`) | locals: marked and doomed objects | `run_gc`, `trace_object` | `Vault`, `Durability`, `Readers` |
| Tags, status (`reporting.py`) | `tags.json` | `tag_snapshot`, `compute_status`, `explain_snapshot` | `Vault` (tags), `Readers` |
| Lock scope (`cli.py`) | - | `_with_repo_lock` around snapshot, snapshot-rm, gc, tag, pack, restore | `LockedVault` |
| Commands without the lock (`cli.py`) | what they have listed and read so far | list, explain, status, show, diff, trace, verify, recover-check | `Readers` |
| Inspector (`inspector.py`) | the store it opened when it was started | its requests, one after the other | `Readers` |
| Delta candidates (`delta_pack.py`, `diff.py`) | the dictionary target -> base | `find_delta_candidates` | `DeltaCandidates` |
| Packs (`delta_pack.py`, `pack_aware_store.py`) | `pack/<name>.pack`, `.idx`, `.deltamanifest.json`; quarantine list | `write_pack`, verification, pruning, reading | `PackedVault` |
| Delta-aware collector (`delta_gc.py`) | the merged manifests | `run_delta_aware_gc` | `PackedVault` |
| Audit (`recover_check.py`) | - | `check_snapshot_recoverable` | `PackedVault`, `Readers` |
| Restore (`restore.py`, `diff.py`) | the working directory; the preview's result | `preview_restore`, the prompt, `apply_restore` | `Restore` |
| Path history (`path_history.py`) | `path_history.json`, `path_renames.json`; per log what it loaded or rebuilt | load, rebuild, save, lineage | `PathHistory` |
| Delta encoder (`delta.py`) | locals of the scan | `compute_delta`, `apply_delta` | `DeltaCodec` |
| Pack files and their index (`delta_pack.py`, `packfile.py`) | the bytes of `.pack` and `.idx` | `write_pack`, `to_bytes`, `from_bytes`, `find`, `get` | `PackFormat` |
| Demo, benchmark, stress test, older pack readers | - | drivers, code only tests call | not modelled |

### What is hard, and what makes each part correct

- *Lock.* Creating the file and storing the pid in it are two calls; reading a
  pid, probing the process and unlinking the path are three more, and unlinking
  goes by path. Correct: a holder whose file nobody unlinked owns the path, two
  holders imply a theft, every theft has one of a few known causes, acquiring
  ends, a dead holder's file is removed.
- *Store and snapshots.* Objects are deduplicated by the existence of a file, so
  a tree may be taken as complete because an earlier, interrupted command left
  it there. Correct: every published snapshot has every object it reaches; ids
  only grow and are never used again, although the counter, the temporary record
  and the record are written by separate calls; parents and tags name ids that
  were published.
- *Collector.* Works from the list of snapshots it has read. Correct: what it
  removes is exactly what no snapshot reaches, and a kill half-way leaves
  nothing on which a later snapshot could wrongly rely.
- *Packs.* Objects move from many files to one; the loose copies are deleted
  after a verification that reads through a store which itself falls back to
  loose copies; a delta is readable only through its base. Correct: no step but
  a collection makes an object unreadable, packs need nothing outside
  themselves, bases never form a circle.
- *Path history.* A cache of two files, written without the lock, once per
  snapshot of a rebuild, while snapshots come and go. Correct: whatever overlaps
  or is killed, it says nothing untrue; an undisturbed rebuild is exact; the
  names of a file lead to one lineage.
- *Delta encoder and pack files.* The scan compares a block only when sums
  updated byte by byte meet those of a table; an object is found by a fan-out
  table and a bisection, and read through any number of bases. Correct: the sums
  are those of the window, every byte goes into the delta once, no block that is
  there is missed, every object packed is read back and no other.
- *Restore.* Files are replaced one by one in a directory the user goes on
  editing, from a store that is verified beforehand and may be damaged since.
  Correct: success means the snapshot laid over the directory, each name is
  always as before or as it shall be, and nothing but files of the snapshot is
  written.
- *Reports.* verify, status and recover-check are what a user trusts before
  deleting something. Correct: a repository reported sound is one from which
  every snapshot can be restored, and the other way round.
- *Readers.* They take no lock, open the packs once and then follow what they
  have listed, while objects move from loose files into packs the reader does
  not know and snapshots go. The inspector does so for hours. Correct: a reader
  complains only of what was really taken from it, overlooks nothing that
  stayed, and is exact while nobody writes, whatever a killed command left.
- *Durability.* Objects are synced before they are renamed; the counter, the
  records and every directory are not. A power loss undoes or tears what has not
  reached the disk, in any order, and `put` goes by the existence of a file.
  Correct: objects are whole or absent, a snapshot that has reached the disk
  stays, no later snapshot leans on something that is gone, and a collection
  stops at damage instead of taking it for garbage.
- *Tree format.* Lengths, kinds and hashes are fields between names of any
  bytes. Correct: a directory reads back, in whatever order it was listed, and
  no bytes read as two.

## 2. The modules

`ObjectGraph` has the constants `Obj`, `Tree`, `Kids`. An object's name is the
hash of its bytes, so what a tree lists is a function of its name and hence a
constant; hashes are members of a set. `Reach(roots)` is the result of the
recursive walk of `gc.py`, stated as the least closed set.

`RepositoryLock` models `lock.py`, one system call per step: `Create`
(`O_CREAT|O_EXCL`), `WritePid`, `ReadPid`, `BreakBad` (empty, malformed or
missing file), `ProbeAlive`/`ProbeDead` (`os.kill(pid, 0)`), `BreakDead`,
`Release`, `Exit`, `Expire` (the deadline passes), `Crash`. An inode is
identified with the process that created it; `stolen` is a history variable:
the processes whose file another one unlinked while they held it.

`Vault` models snapshot, snapshot-rm, gc and tag over loose objects with any
number of processes, one file system operation per step, failing steps and
kills included (`PutHit`, `PutTemp`, `PutReplace`, `ReadCounter`,
`WriteCounterTmp`, `MoveCounter`, `ReadLatest`, `WriteRecordTmp`, `Publish`,
`UnlinkRecord`, `SaveTags`, `Mark`, `Scan`, `Sweep`, ...). The walk stores the
entries of a directory before the tree itself, and any order among siblings is
allowed. With `Exclusive = TRUE` commands run one at a time: the service the
lock is meant to give.

`SnapshotHistory` is the abstract specification: a list of complete, immutable
snapshots under growing ids, with `Take` and `Remove` only. `VaultRefinement`
maps `Vault` to it: what an id holds is what could be read of it now. So the
refinement says that deduplication, collection, failed commands and crashes are
invisible.

`LockedVault` composes `Vault` (`Exclusive = FALSE`) with `RepositoryLock`: a
command runs between `Acquire` and `Release` of the real protocol, with
everything that can happen to it.

`DeltaCandidates` is the loop of `find_delta_candidates`: pairs of consecutive
snapshots, and for each the modified paths in any order (`set` iteration
order). `PackFormat` runs it, so that what is packed is what it found. Trees are
abstracted to the function from paths to blobs that `_flatten` computes.

`PackedVault` models repositories with packs. `BeginPack` ... `EndPack` are the
steps of `cmd_pack` and `write_pack`: truncate the `.pack`, write the entries,
truncate and write the index, truncate and write the manifest, verify, delete
the loose files one by one. `BeginGc`, `Sweep`, `EndGc` are the (delta-aware)
collection. `Readable`, `Listed`, `Healthy` are what the pack-aware store
returns, lists and does not quarantine; `RecoverCheck` is the report of
recover-check. `Encodings` leaves open which candidates are
smaller as a delta. `Misfits` says what becomes of an old index when the `.pack`
under it is rewritten: quarantined, or accepted with some entries that are not
there.

`PathHistory` models `vault log`, any number of them at once and none under the
lock, beside `Take` and `Remove` (snapshots in one step each; what a tree
flattens to never changes). `LoadIndex` and `LoadLinks` read the two files;
`UseIndex` is the cache hit of `cmd_log`; otherwise `Rebuild` lists the
snapshots, and `Record`, `SaveIndex`, `SaveLinks` handle them one by one.
`WithEntries` and `WithLinks` are what one snapshot adds. `NameChain` is the
set of names a lineage is read under: `Follow` is the result of a loop of
`_name_chain` that goes on until it meets a name it has seen, first over the
`Older` names, then over the `Newer` ones, stated as what is in every set the
loop cannot leave. Entries are made in the order of ids, so lists are
sets. The history variable `began` (in `my`) keeps the snapshots an invocation
started with.

`DeltaCodec` is the scan of `compute_delta` as a state machine: `Fresh` (the
outer loop), `Copy` and `Slide` (the inner one), `Flush`; the two halves of the
weak checksum are kept apart and `Mod` is their word size (2^16 in the code).
`CodecSpec` is one scan after the other, of any two files.
`PackFormat` runs the whole of `vault pack` on bytes: `FindCandidates` (the loop
of `DeltaCandidates`), then for each hash in order (`NextHash`) `StoreWhole`, or `TryDelta`,
the scan of `DeltaCodec` and `Choose`, then `WriteIndex`. Both files are
sequences of fields, so that offsets and lengths are real positions, and `Find`
and `Get` read them as `PackIndex.find` and `DeltaAwarePackedStore.get` do,
through bases that are deltas themselves. Contents that are directories are made
by `TreeFormat`: `SerializeTree`, with its sorting and its length in bytes, and
`DeserializeTree`, which yields nothing where the code raises.

`Restore` is `vault restore` in a working directory of `Node`s, files and
directories: `Preview`, `Cancel`/`Confirm` (which looks again), `Flatten`, and
for each file `Fetch`, `MakeParents`, `WriteTemp`, `Replace`; `Stop` at any
point. Meanwhile `Write`, `MakeDir`, `Delete` edit the directory and `Damage`
makes an object fail its check. `quiet` and `before` are history variables:
whether any of these has happened since the restore started, and the directory
as it was then. A name that is a directory on one side and a file on the other
is not looked for by the preview and ends a restore after earlier files were
written: `AbortsClean` has this exception and no other.

`Readers` puts one reader beside the steps of `PackedVault`: `Open` and
`LoadPack` (a pack is used or quarantined for the life of the store), then one of
the commands (`BeginList`, `BeginStatus`, `BeginTrace`, ...), `LoadRecord` and the
reads of objects, each by the handler of its command (`ShowEntry`,
`FlattenTree`, `FindPaths`, `Measure`, `VerifyObject`, `AuditObject`), which
differ in what they enter and in what they do with an error. `Answer` is the
inspector: the next request comes to the same store. `Write` is any step of
`PackedVault`, as long as no pack name was used twice: beyond that readers may
fail as `pack_overwrites` shows. The history variable `hist` keeps what a step
took from the reader.

`Durability` is the repository without packs on a disk: `file` is what every
path shows, `disk` what a power loss may leave there. `ReplaceSynced` adds the
new content, `Replace` also a torn one; `WriteBack` is the kernel's,
`PowerLoss` chooses for every path separately, and `Rot` damages an object.
Above them stand `Store`, `TakeId`, `Publish`, `RemoveSnapshot`, `BeginGc`,
`Sweep` and `Kill`, with what each does when a file does not read. Commands run
one at a time. `settled` is a history variable: the snapshots that have reached
the disk, with their objects and a counter ahead of them.

`MC...` modules define the instances; the mutations the properties are tested
against stand beside the definitions they change and are used by no
specification.

## 3. What TLC checks

| Run | Shows | Instance |
| --- | --- | --- |
| `lock` | `ExclusiveUnlessStolen`, `DeadVerdictStands`, `TheftNeedsStaleVerdict`; under fairness `AcquireEnds`, `StaleLockBroken` | 3 processes, distinct pids |
| `vault` | `Restorable`, `ParentIsPredecessor`, `IdsNeverReused`, `GcExact`; `ImplementsHistory`: `Vault` implements `SnapshotHistory` | 4 objects, 2 of them trees, one inside the other; 3 ids, 2 command slots |
| `locked_vault` | `SerialUnlessStolen`, `SafeUnlessStolen` | one blob and one tree, 2 processes with the lock |
| `packed_vault` | until a pack name is used again: `SnapshotsReadable`, `PacksSelfContained`, `RecoverCheckTells`, `OnlyGcForgets`; with one name that may be: `PruneKeeps` | 2 versions of a file; 2 packs, or one pack written over any number of times |
| `pack_format` | `ScanExact`, `NoBlockMissed`, `ReadsBack`, `Acyclic`, `TreesReadBack` | blocks of 3 bytes; bases of 0, 4 and 6 bytes, targets of 2 and 6, each byte 0 or 1, sums mod 2; packs of every subset of 5 hashes; all histories of 3 snapshots, 2 paths, 3 contents; all directories of up to 3 entries with 4 names; all rows of up to 4 bytes of 6 kinds |
| `restore` | `RestoreExact`, `NothingHalfDone`, `AbortsClean`, `OnlySnapshotWritten` | a directory, a file in it and one beside it, 2 contents, 4 snapshots, every working directory |
| `path_history` | `IndexSound`, `LinksSound`, `RebuildExact`, `SameLineage` | all histories of 3 snapshots, 3 paths, 2 contents; one log at a time |
| `readers` | `ReaderTypeOK`, `AlarmsExplained`, `QuietReadsSucceed`, `VerifyComplete`, `WalkComplete`, `TraceTells` | a file in a directory in a directory, either of which may be a snapshot; one pack; one reader, and two commands beside it |
| `durability` | `ObjectsNeverTorn`, `SettledSurvives`, `PublishedComplete`, `DamageStopsGc` | two snapshots' trees over one file, 2 ids, one fault |

The type invariants of the other modules are theorems (section 4), or, as in
`PackedVault`, a part of `ReaderTypeOK`.

Runs that expect a violation check a sentence of the source that the code does
not honour; each is a finding with its quotation:

| Run | The source says | What happens |
| --- | --- | --- |
| `lock_not_exclusive` | exclusive access | a waiter reads the file before the pid is in it, and unlinks it |
| `pack_overwrites` | nothing is deleted before verification | the default pack name truncates the previous pack |
| `log_stale` | a stale index is rebuilt | only a missing one is |

Other places where the models behave unlike what the source says of itself;
they follow from the behaviours above and have no run of their own:

- `lock.py:246` gives every path of the loop the same deadline; `BreakDead`
  returns to the top without looking at it. `AcquireEnds` holds all the same.
- `cli.py:175` says the lock closes the race on the snapshot counter, and
  `gc.py:95` that a collection can never delete what a live snapshot needs. With
  two holders (`MutualExclusion`) two snapshots take one id and a collection
  removes the objects of a snapshot under way. `SafeUnlessStolen` has exactly
  this condition.
- `pack_aware_store.py:65` says loose objects keep serving. `Misfits` lets an
  old index over a rewritten `.pack` pass the structural check, and a pack that
  lists an object is believed before the loose copy (`Readable`): with reused
  names a loose object may be unreadable.
- `recover_check.py:5`: a manifest that outlived its pack makes the audit report
  a missing base for an object that is read from its loose copy: with reused
  names `RecoverCheckTells` fails.
- `gc.py:94`: packed copies of unreachable objects stay (`Sweep` deletes loose
  files only).
- `path_history.py:145` says the mere existence of `path_renames.json` means
  that renames have been scanned for. It is written after the first snapshot of
  a rebuild (`SaveLinks`), so after a kill it stands for a part of them, and
  `cmd_log` believes it (`CacheHit`).
- `reporting.py:36` says integrity reflects whether every referenced object is
  at least present, and line 54 that a presence check follows. There is none:
  without deep verification `integrity_ok` is the constant `True`.
- `delta_pack.py:28` says that a blob used as a base is never delta-encoded, by
  construction, and line 240 that a base is never itself a delta. Line 96 only
  asks whether the base is a target so far: when a file goes back to a content
  it had, a blob that is a base already becomes a target (`Consider`). Such
  chains read back (`ReadsBack`), since they never close (`Acyclic`).
- `cmd_verify` checks the objects the store lists, so one that is gone
  altogether, as after `pack_overwrites`, is not reported.
- `objects.py:18` says a temp file a crash left is invisible to every other
  operation. `iter_all_hashes` lists it (`litter` in `Vault` and `PackedVault`):
  gc and status fail on its name until somebody removes it (`MeasureTemp`), and
  verify counts it as corrupted.
- `SECURITY.md:30` and `FORMAT.md:134` say that no write, those of the records
  and the counter included, leaves a half-written file after a power loss, and
  `README.md:668` that a snapshot is fully present or fully absent. Only objects
  are synced before the rename (`Replace`). A torn record ends `list` and `gc`
  with an error and cannot be removed by `snapshot-rm`, which loads it first; a
  torn `next_id` makes every later snapshot fail (`TakeId`); a lost rename of
  `next_id` makes an id come back, so that a tag may name another snapshot than
  it did; the lost deletion of a record brings back a snapshot whose objects
  may have been collected. `SettledSurvives` says what does hold.
- `vault pack` deletes loose copies, which were synced, once it has read every
  object back from a pack that was not (`cli.py:610`): a power loss soon after
  may take both. Packs are not in `Durability`.
- `put` never repairs a damaged object: a file of that name is taken to be the
  object (`Put`), so snapshots taken later lean on the damaged one.
- `reporting.py:49` measures every file it has listed and does not expect one to
  be gone: status, and the inspector's, ends in a traceback when a collection or
  a pack removes one meanwhile (`Measure`), which `gc.py:107` takes care of.
- `cli.py:182` says the commands without the lock need none. Beside `vault pack`,
  a reader that was opened before reports objects as missing or corrupted that
  are in the new pack, and the inspector goes on doing so until it is started
  again (`AlarmsExplained` has this exception, `taken`).
- `gc.py:130` promises what `vault gc` would do. trace knows nothing of delta
  manifests, so the base of a delta is called collectable while `vault gc` keeps
  it; `TraceTells` is about repositories without deltas.
- A file whose name has a backslash, or is not UTF-8, makes `serialize_tree`
  raise and so every snapshot of its directory fail (`ValidName`).

**Bounds.** Three lock processes give a holder, the waiter that robs it and a
second waiter acting on the same observation; a fourth repeats one of these
roles. `MaxId` bounds the snapshots taken in one behaviour: three give a removed
snapshot between two live ones. The graph has a
directory that is a snapshot on its own and a subdirectory of another one with
a blob beside it, so that removing either snapshot leaves something needed or
something garbage. The graph of the packed instance has two versions of a
file, each of which may be the base of the other, and two packs, so that an
object can be in both. `MaxPack` bounds the names, not the number of `vault
pack` runs; a name is used again only while it is the only one (`MaxReused`). Three snapshots of three paths give a file
that moves twice, moves back, splits or comes back changed; a second log is
where the proofs take over: `IndexSound` and `LinksSound` hold for any number.
Where the number of processes matters in `LockedVault`, the graph
is a tree and a blob. For the encoder, bytes 0 and 1 and sums mod 2
make different blocks collide all the time, as 2^16 does in large files; a base
of 6 bytes has two blocks and one of 4 a short one at its end, and a target of 6
has room for literals, a copy and a tail, or for two copies. Five hashes with
two to a first byte make slices of 0, 1 and 2 entries. A directory with one file
in it gives a restore every kind of clash, and a second file something to have
written before. A directory of three entries is the least in which an entry
between two others can be misread, and four names suffice for one that is a
prefix of another, one that has the bytes of a kind and one that is longer in
bytes than in characters. `MaxBegun` bounds the commands that begin while one
reader is open: two let an object be packed and its snapshot removed, or be
removed and collected. A reader that has ended only prints, so nothing is
interleaved with it. Interrupted snapshots beside a reader leave a temp file and
no objects; those that nothing refers to come from removed snapshots.
`MaxFault = 1` in `durability` gives a power loss or a damaged object at any
point; the theorems of `DurabilityProofs` hold for any number of them. The models
have no other bound; each is finite.

**Deadlock** is not checked where the system stops by itself: in the instances
of `RepositoryLock` and `LockedVault` each process is one invocation and all of
them end, and so does the writing of one pack in `PackFormat`. It is checked for
`Vault`, `PackedVault`, `PathHistory`, `Restore`, `Readers` and `Durability`.

**Fairness.** Only the lock has liveness properties. `FairSpec` assumes weak
fairness of `Acquire` (a process in its retry loop keeps running: the loop
sleeps for a fixed interval and does nothing else), `Expire` (time passes) and
`Exit` (a process that has released ends). It does not assume that a holder
ever releases: `restore` waits for the user's answer under the lock. Nor is a
crash ever assumed to happen.

## 4. What is proved

| Module | Theorem | States |
| --- | --- | --- |
| `RepositoryLockProofs` | `LockTyping`, `PathOwnership`, `Exclusion`, `NoLeftover` | for any processes and any assignment of pids |
| | `DeadVerdict`, `Theft` | with distinct pids |
| `VaultProofs` | `VaultTyping` | for any number of processes, concurrent or not |
| | `Ids`, `NoIdReused`, `SnapshotsRestorable`, `CollectionExact` | for any graph and bound on ids, commands one at a time |
| | `VaultImplementsHistory` | the same |
| | `LockSerializes`, `LockProtects`, `LockedVaultImplementsHistory` | for any number of processes under the lock protocol, any pids; the last from an empty repository, while no lock is stolen |
| `PackedVaultProofs` | `PackTyping`, `SnapshotsStayReadable`, `PacksStandAlone`, `PackingForgetsNothing`, `AuditTells` | for any graph, deltas, number of packs and of runs |
| | `PruningKeeps` | with at most one pack name used again (`OneReused`) |
| | `ReadersTyping`, `ReadersAlarms`, `QuietReaders`, `VerifiesAll`, `WalksAll`, `TraceIsTrusted` | for a reader beside any number of commands |
| `PackFormatProofs` | `CandidatesTyping`, `NoCircles`, `BasesPrecede` | for any paths, contents and number of snapshots |
| | `DeltasAreExact`, `NothingIsMissed` | for any two files, block size and word size of the sums |
| | `PackRunsBoth`, `PackedDeltas` | for any pack: the five above hold while it is written |
| | `PacksReadBack` | for any contents, history, set of hashes and number of first bytes |
| | `TreesAreReadBack` | for any listings, with names of any length up to any limit |
| `PathHistoryProofs` | `HistoryTyping`, `IndexTrue`, `LinksTrue`, `RebuildsExactly`, `NamesAgree` | for any paths, contents, number of snapshots and of logs at once |
| `RestoreProofs` | `RestoreTyping`, `RestoresExactly`, `StopsBetweenFiles`, `StopsCleanly`, `WritesOnlySnapshot` | for any working directory, snapshots and interference |
| `DurabilityProofs` | `TypeCorrect`, `NeverTorn`, `SettledSnapshotsSurvive`, `PublishedOverObjects`, `DamageNeverSpreads` | for any object graph, bound on ids and number of faults |

The arguments:

- *Lock.* `OwnerKeepsPath` is inductive with typing: only `Create` gives the
  path a file and requires it to have none; every unlink of a running holder's
  file is entered in `stolen`. Exclusion follows. `DeadVerdictStands` needs
  `VerdictInv`: a pid in `held` was read from a file whose creator was started.
- *Vault.* `OneAtATime` comes from `Exclusive`. `IdInv` adds, per process, what
  its id and parent are relative to the counter at each point of
  `create_snapshot`. `StoreInv` says what a command in progress may rely on: the
  objects it has stored so far are in the store and closed downwards, the marked
  set of a collection holds everything reachable, and the doomed set nothing of
  it. Each step preserves the part of the acting process (`StepIds`,
  `StepStore`), and the others are idle.
- *Refinement.* Where every snapshot is whole, the mapping equals the reach of
  its root (`HeldIsWhole`), so `Publish` is `Take`, `UnlinkRecord` is `Remove`
  and everything else stutters.
- *Locked vault.* `InsideLock` says that a command runs only in a process that
  holds the lock, and `PathOwnership` that two holders imply a theft: so until
  then commands are serial, and each step of the composition is a step of `Vault`
  with the others idle, which keeps `IdInv` and `StoreInv` by the lemmas above.
  A killed process leaves its command where it was, which is a `Crash` of `Vault`.
- *Packs.* Until a name is used again every pack is `Sound`, wherever a command
  was killed: without an index, or with every base of its deltas in it and a
  manifest that says nothing or the same. `WriterInv` says at which point of
  `cmd_pack` which of its three files are as they shall be. A sound pack reads
  `Alone`, because among the entries that do not resolve one would have a base
  that does (`Encodings` has no circles). So what is listed is readable
  (`SoundReads`), and readability can only end by a collection. While a pack is
  pruned it is `Alone` even over a name used again, but the other packs are only
  if no second name is: with two, a stale index can hide the loose copy of an
  object (TLC shows it with `MaxReused = 2`). That is why `MaxReused` is 1 in the
  run and `OneReused` a hypothesis of the theorem.
- *Readers.* `ViewInv`: whatever the store lists, and whatever a reader is still
  to look at, has it found or is entered in `hist` as taken. What a reader has it
  can read (`GetsIsHas`, from `Sound`). `WalkInv`: each entry of what a walk has
  seen is seen, due or reported, and all of it is reached from the roots, so a
  walk that ends has seen what they reach; `AlarmInv`, `QuietInv` say which
  reports there can be.
- *Candidates.* No circle: a pair is entered only if its base is no target, so
  among the members of a circle the one entered last would have a base that was
  a target already. As an invariant: no non-empty set of targets is closed
  under taking bases.
- *Delta encoding.* `ScanExact` needs little more than types: each step moves a
  part of the target from behind the position to the literals or into an
  operation. That `ApplyDelta` adds the piece of an operation at the end
  (`ApplyAppend`) rests on what concatenating a sequence of sequences is
  (`IsJoin`). For `NoBlockMissed` the invariant (`PassInv`) says that the two
  sums are those of the window and that no window among the literals held back
  is a block. The sums are the point: `Rolled` shows that the two updates of the
  loop give the sums of the next window taken from scratch, modulo any word
  size, from what a sum over an interval is (`IsSum`) and the arithmetic of
  remainders (`ModAdd`). A window equal to a block then has its sums, so it was
  compared and copied.
- *A pack.* `PackRunsBoth` is a refinement with the identity as mapping: steps
  of `PackFormat` are steps of `DeltaCandidates` and of `DeltaCodec`, because a
  scan starts only where the last one was put away (`PackScans`).
- *Reading it back.* `PackIsWritten` says what is in the file: each entry lies
  where the index says, and is the whole object or a delta whose operations make
  it of the object's candidate (from `ScanExact`). Reading undoes each layer. The
  rows of the index lie behind the fan-out table in the order of hashes, each
  number of the table counts the rows up to its first byte, so the slice that
  `find` searches has exactly the hashes of that byte and the search ends at the
  hash or nowhere. Operations lie one behind the other (`LaidOut`), so that
  `deserialize_ops` begins each where the last one ended (`Deserializes`). Last,
  the bases: with each further base allowed, at least one more object resolves
  (else those that do not would be closed under taking bases, against `Acyclic`),
  and there are no more bases in a chain than objects.
- *Directories.* `deserialize_tree` and the decoding of a name both read a thing
  where the last one ended (`ReadAll`), so one lemma serves both: if a thing's
  bytes begin only that thing (`Alone`), what was written is all that is read;
  if nothing begins without its bytes (`Stands`), what is read was written. A
  character of two bytes is told by its first byte, an entry by its length in
  bytes, which is where a length in characters would fail. The order of names is
  total (`LessTotal`), so an entry's place, the number of entries before it, is
  no other's and every place is taken: `sorted` keeps each entry once.
- *Path history.* The files on disk are copies of what some log had in memory,
  so the invariant (`HistoryInv`) asks the same of both. In memory a rebuild adds
  entries in the order of ids: whatever is in it is of an id below all that are
  still to do, which makes the new entry the last one. A link needs only that
  the preceding snapshot was taken and that its content cannot change any more.
  While nothing comes or goes, the index is complete for the ids that are done
  (`RebuildInv`), and at the end exact. Lineage is an argument about graphs: where
  links are one to one, going back from a name and then forward visits the least
  set that is closed under both directions (`ChainIsLeast`), and this set is the
  same from each of its members.
- *Restore.* As long as nothing interferes, what is still to write is untouched,
  what was written is the snapshot's, and directories appear only above files of
  the snapshot (`Progress`); so the directory lies between `before` and the
  overlay at every step, and when nothing is left to write it is the overlay. A
  failure after the first write can then only come from a clash, because the
  objects were sound and nothing has damaged them.

- *Durability.* The invariant looks at `disk`, which holds `file`: for a settled
  snapshot the record and everything the disk may have of it are one tree, its
  objects are `Whole` or `Rotten` in every outcome, and the counter is torn or
  ahead of its id in every outcome (`Kept`). So a power loss changes none of it,
  no command is given its id, and no collection can doom its objects, being of
  a listed root. `Command` adds what a command relies on: the objects a snapshot
  has stored are there until it is published, and a collection runs only with
  all records readable, its doomed set apart from what they reach.
  `PublishedOverObjects` and `DamageNeverSpreads` are read off it.

The proofs rest on the named assumptions of the modules (`PidAssumption`,
`GraphAssumption`, `VaultAssumption`, `LockAssumption`, `RefinementAssumption`,
`PackAssumption`, `ReadersAssumption`, `CandidatesAssumption`, `CodecAssumption`,
`FormatAssumption`, `InputAssumption`, `PathAssumption`, `RestoreAssumption`,
`DurabilityAssumption`, `TreeFormatAssumption`), which say that marker values are
not members of the sets they are added to and that the constants have their
types. `InputAssumption` includes what a directory can list (`Listed`): entries
with valid names, each name once.

Facts about data of any size (sums, concatenations, chains of bases, walks) are
proved by a least counterexample: the library's well-founded induction takes an
operator as a parameter, but its theorem that a set of numbers has a least
element does not (`HasLeast`).

Model-checked only: liveness (TLAPS proves no fairness arguments here).

## 5. Abstractions

- Hashes do not collide, and neither does the strong checksum of a block. File
  contents are represented in `DeltaCodec`, `TreeFormat` and `PackFormat` only;
  compression and the widths of fields are not (but for the longest name).
  Stored bytes rot in `Restore` and in `Durability`.
- In `PackFormat` the loose copies are gone when objects are read, and which of
  a delta and the whole is smaller is left open. The manifest is in
  `PackedVault`.
- In `Restore` a preview reads the directory in one step, there are no symbolic
  links, and the temporary file is not in the directory's listing.
- A whole small file is read in one step. `next_id` and records are written to
  a temporary file and renamed, which are separate steps. Listing `snapshots/`
  is one step.
- A kill stops a process; the operating system keeps what was written. The loss
  of unsynced data with the machine is the subject of `Durability` alone, for
  snapshots, removals and collections over loose objects. Packs
  and tags are not synced either and are not in it.
- In `Durability` a record is known by its root and a put is one step: the temp
  files a kill leaves are in `Vault`. A torn file is an empty or cut one and
  never reads.
- In `Readers` there is one reader, as readers write nothing; listing a directory
  is one step, and so is opening and reading a file. The inspector's requests are
  served one after the other (its server has a thread for each; they share a
  store that nothing changes after it was opened).
- Windows branches of the lock, symbolic links and files that change while they
  are hashed are left out.
- In `PackedVault` commands run one at a time, `vault snapshot` is one step
  (whole or interrupted; `Vault` has its steps), and snapshots are the set of
  their roots.

## 6. Plan

In this order:

1. Power losses for packs: `vault pack` deletes loose copies after a verification
   that reads from the cache, and syncs neither the pack nor its index.
2. `Restore` composed with `vault snapshot`, which takes the temporary file of a
   killed restore for a file of the user.
