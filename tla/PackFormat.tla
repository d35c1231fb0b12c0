---------------------------- MODULE PackFormat ----------------------------
(***************************************************************************)
(* A pack from the history it is written from to what is read back: the    *)
(* candidates (DeltaCandidates), the directories (TreeFormat), the entries *)
(* write_pack chooses                                                      *)
(* (delta_pack.py), the offsets, the index with its fan-out table          *)
(* (packfile.py) and DeltaAwarePackedStore.get.  PackedVault takes for     *)
(* granted what is checked here: an entry whose base is there reads back.  *)
(*                                                                         *)
(* A file is a sequence of fields: bytes, numbers, hashes and the marks    *)
(* below.  Compression gives back what it was given, and sizes of its own: *)
(* which of the delta and the whole is smaller is left open.               *)
(***************************************************************************)
EXTENDS DeltaCodec, DeltaCandidates, TreeFormat

CONSTANTS Hash,      \* hashes, as numbers
          FirstSize, \* hashes with the same first byte
          Firsts,    \* bound: number of first bytes (FANOUT_ENTRIES)
          Input      \* packs to write: the loose contents, the directories
                     \* among them as they were listed, and the snapshots

MarkF == -1
MarkD == -2
MarkC == -3
MarkI == -4
Magic == -5

First(h) == h \div FirstSize

ASSUME FormatAssumption ==
  /\ FirstSize \in Nat \ {0} /\ Firsts \in Nat \ {0}
  /\ Hash \subseteq 0 .. FirstSize * Firsts - 1
  /\ Hash = Blob

\* What is packed are bytes, and there are snapshots of it, or none.
ASSUME InputAssumption ==
  \A input \in Input :
    /\ \A h \in DOMAIN input.content : input.content[h] \in Seq(Int)
    /\ \A h \in DOMAIN input.listing : Listed(input.listing[h])
    /\ DOMAIN input.content \cup DOMAIN input.listing \subseteq Hash
    /\ \E n \in 0 .. MaxSnapshots : input.history \in [1 .. n -> Flat]

VARIABLES content,    \* the loose objects
          listing,    \* history: the entries of those that are trees, as create_snapshot listed them
          pc,
          todo,       \* the hashes still to write, the least of them next
          file,       \* <name>.pack
          entries,    \* hash, offset and length of each entry written
          index       \* <name>.idx

packVars == <<content, listing, pc, todo, file, entries, index>>
vars     == <<candVars, scan, packVars>>

Entry(h, offset, length) == [hash |-> h, offset |-> offset, length |-> length]

Init ==
  /\ \E input \in Input :
       /\ snapshots = input.history /\ listing = input.listing
       /\ content = [h \in DOMAIN input.content \cup DOMAIN listing |->
                       IF h \in DOMAIN listing THEN SerializeTree(listing[h]) ELSE input.content[h]]
  /\ StartFind
  /\ pc = "find"
  /\ todo = DOMAIN content
  /\ file = <<Magic, Cardinality(DOMAIN content)>>
  /\ entries = <<>> /\ index = <<>>
  /\ scan = NoScan

-----------------------------------------------------------------------------
(***************************************************************************)
(* cmd_pack and write_pack                                                 *)
(***************************************************************************)
FindCandidates ==
  /\ pc = "find"
  /\ FindStep
  /\ UNCHANGED <<scan, packVars>>

StartPack ==
  /\ pc = "find" /\ Found
  /\ pc' = "next"
  /\ UNCHANGED <<candVars, scan, content, listing, todo, file, entries, index>>

\* The loop goes through sorted(hashes).
NextHash == Min(todo)

\* An entry is written and goes into the index-to-be.
Emit(entry) ==
  /\ file' = file \o entry
  /\ entries' = Append(entries, Entry(NextHash, Len(file), Len(entry)))
  /\ todo' = todo \ {NextHash}
  /\ pc' = "next"
  /\ UNCHANGED <<candVars, content, listing, index>>

WholeEntry(h) == <<MarkF>> \o content[h]

OpBytes(op) ==
  IF op.op = "copy" THEN <<MarkC, op.offset, op.length>> ELSE <<MarkI, Len(op.data)>> \o op.data

SerializeOps(ops) == FlattenSeq([i \in DOMAIN ops |-> OpBytes(ops[i])])

\* The loop of deserialize_ops, once: the operation that begins at p.
OpAt(data, p) ==
  IF data[p] = MarkC THEN CopyOp(data[p + 1], data[p + 2])
                     ELSE InsertOp(SubSeq(data, p + 2, p + 1 + data[p + 1]))

SizeOf(op) == IF op.op = "copy" THEN 3 ELSE 2 + Len(op.data)

\* deserialize_ops, as far as there is room for an operation.
DeserializeOps(data) ==
  LET from[p \in Nat] ==
        IF p >= Len(data) THEN <<>>
                          ELSE <<OpAt(data, p)>> \o from[p + SizeOf(OpAt(data, p))]
  IN from[1]

DeltaEntry(base, ops) ==
  LET stream == SerializeOps(ops) IN <<MarkD, base, Len(stream)>> \o stream

\* No candidate, or its base is not loose.
StoreWhole ==
  /\ pc = "next" /\ todo # {}
  /\ candidates[NextHash] \notin DOMAIN content
  /\ Emit(WholeEntry(NextHash))
  /\ UNCHANGED scan

TryDelta ==
  /\ pc = "next" /\ todo # {}
  /\ candidates[NextHash] \in DOMAIN content
  /\ StartScan(content[candidates[NextHash]], content[NextHash])
  /\ pc' = "scan"
  /\ UNCHANGED <<candVars, content, listing, todo, file, entries, index>>

ScanStep ==
  /\ pc = "scan"
  /\ Scan
  /\ UNCHANGED <<candVars, packVars>>

\* Whichever is smaller.
Choose ==
  /\ pc = "scan" /\ scan.at = "done"
  /\ \/ Emit(WholeEntry(NextHash))
     \/ Emit(DeltaEntry(candidates[NextHash], scan.ops))
  /\ scan' = NoScan

-----------------------------------------------------------------------------
(***************************************************************************)
(* PackIndex                                                               *)
(***************************************************************************)
\* _build_fanout: the entries of each first byte, added up.
Fanout(es) ==
  LET upTo[b \in 0 .. Firsts - 1] ==
        Cardinality({i \in DOMAIN es : First(es[i].hash) = b}) + IF b = 0 THEN 0 ELSE upTo[b - 1]
  IN upTo

\* sorted, of entries with different hashes.
ByHash(es) ==
  [i \in DOMAIN es |->
     CHOOSE e \in Range(es) : Cardinality({d \in Range(es) : d.hash < e.hash}) = i - 1]

IndexRow(e) == <<e.hash, e.offset, e.length>>

\* to_bytes
IndexBytes ==
  LET es     == ByHash(entries)
      fanout == Fanout(es)
  IN [i \in 1 .. Firsts |-> fanout[i - 1]] \o FlattenSeq([i \in DOMAIN es |-> IndexRow(es[i])])

WriteIndex ==
  /\ pc = "next" /\ todo = {}
  /\ index' = IndexBytes
  /\ pc' = "done"
  /\ UNCHANGED <<candVars, scan, content, listing, todo, file, entries>>

Next == FindCandidates \/ StartPack \/ StoreWhole \/ TryDelta \/ ScanStep \/ Choose \/ WriteIndex

Spec == Init /\ [][Next]_vars

\* from_bytes takes the last fan-out number for the number of entries.
LoadedEntry(i) ==
  LET at == Firsts + 3 * (i - 1) IN Entry(index[at + 1], index[at + 2], index[at + 3])
Loaded == [i \in 1 .. index[Firsts] |-> LoadedEntry(i)]

\* bisect.bisect_left, of a list in order.
BisectLeft(s, h) ==
  CHOOSE p \in 0 .. Len(s) : (\A i \in 1 .. p : s[i] < h) /\ (\A i \in p + 1 .. Len(s) : s[i] >= h)

\* Mutation: a slice begins where the entries of its first byte end.
FindBehind(h) ==
  LET start == index[First(h) + 1]
      slice == [i \in 1 .. index[First(h) + 1] - start |-> Loaded[start + i].hash]
      pos   == BisectLeft(slice, h)
  IN {Loaded[start + pos + 1] : p \in {q \in {pos} : q < Len(slice) /\ slice[q + 1] = h}}

\* PackIndex.find: the entry, if there is one.
Find(h) ==
  LET start == IF First(h) > 0 THEN index[First(h)] ELSE 0
      slice == [i \in 1 .. index[First(h) + 1] - start |-> Loaded[start + i].hash]
      pos   == BisectLeft(slice, h)
  IN {Loaded[start + pos + 1] : p \in {q \in {pos} : q < Len(slice) /\ slice[q + 1] = h}}

-----------------------------------------------------------------------------
(***************************************************************************)
(* DeltaAwarePackedStore.get, the loose copies pruned: the set of what it  *)
(* returns, after at most n bases.                                         *)
(***************************************************************************)
Resolve(raw, bases) ==
  IF raw[1] = MarkF
    THEN {Tail(raw)}
    ELSE {ApplyDelta(base, DeserializeOps(SubSeq(raw, 4, 3 + raw[3]))) : base \in bases[raw[2]]}

\* What it returns for each hash, given what it returns for the bases.
GetGiven(bases) ==
  [h \in Hash |-> UNION {Resolve(Slice(file, e.offset, e.length), bases) : e \in Find(h)}]

Get(h) ==
  LET get[n \in 0 .. Cardinality(DOMAIN content)] ==
        GetGiven(IF n = 0 THEN [b \in Hash |-> {}] ELSE get[n - 1])
  IN get[Cardinality(DOMAIN content)][h]

(***************************************************************************)
(* Properties                                                              *)
(***************************************************************************)
\* Every object that was packed is read back byte for byte, through however
\* many bases, and no other hash is found.
ReadsBack ==
  pc = "done" => \A h \in Hash : Get(h) = IF h \in DOMAIN content THEN {content[h]} ELSE {}

\* A directory stored and read back has the entries it was listed with, each
\* once and in the order of their names, so that its bytes do not depend on the
\* order of the listing.  And whatever bytes an object has, reading them as a
\* directory takes each byte for one thing only, and gives names of single path
\* segments.
TreesReadBack ==
  pc = "done" => \A h \in DOMAIN content : \A data \in Get(h) :
    /\ h \in DOMAIN listing =>
         \E es \in DeserializeTree(data) :
           /\ DeserializeTree(data) = {es}
           /\ Len(es) = Len(listing[h]) /\ Range(es) = Range(listing[h])
           /\ \A i, j \in DOMAIN es : i < j => Less(es[i].name, es[j].name)
    /\ \A es \in DeserializeTree(data) :
         /\ \A i \in DOMAIN es : ValidName(es[i].name)
         /\ FlattenSeq([i \in DOMAIN es |-> EntryBytes(es[i])]) = data

=============================================================================
