----------------------------- MODULE TreeFormat -----------------------------
(***************************************************************************)
(* A directory as bytes: serialize_tree and deserialize_tree of            *)
(* snapshot.py.  A name is a sequence of characters, one of which takes    *)
(* two bytes.  The two bytes of a length are one number here, and so are   *)
(* the 64 digits of a hash; a kind is a byte that names may have as well.  *)
(***************************************************************************)
EXTENDS Integers, SequencesExt

CONSTANT MaxName    \* bytes of the longest name the length field can tell

ASSUME TreeFormatAssumption == MaxName \in Nat

Nul == 0
KindB == 1
KindT == 2
Slash == 3
Backslash == 4
Dot == 5
Wide  == 6     \* the character of two bytes, and its first byte
Trail == 7     \* its second byte

TreeEntry(kind, name, hash) == [kind |-> kind, name |-> name, hash |-> hash]

-----------------------------------------------------------------------------
\* What can be read up to the end of some data.  At each position of it, at has
\* what can begin there, each with the position behind it.
ReadAll(at) ==
  LET from[p \in Nat] ==
        IF p \notin DOMAIN at THEN {<<>>}
        ELSE UNION {{<<x[1]>> \o rest : rest \in from[x[2]]} : x \in at[p]}
  IN from[1]

CharBytes(c) == IF c = Wide THEN <<Wide, Trail>> ELSE <<c>>

\* str.encode
Encode(name) == FlattenSeq([i \in DOMAIN name |-> CharBytes(name[i])])

CharAt(bytes, p) ==
  {<<c, p + Len(CharBytes(c))>> : c \in {b \in {bytes[p]} \ {Trail} :
                                           b = Wide => p < Len(bytes) /\ bytes[p + 1] = Trail}}

\* bytes.decode: the name, if the bytes are one.
Decode(bytes) == ReadAll([p \in DOMAIN bytes |-> CharAt(bytes, p)])

\* _validate_entry_name
ValidName(name) ==
  /\ name \notin {<<>>, <<Dot>>, <<Dot, Dot>>}
  /\ \A i \in DOMAIN name : name[i] \notin {Slash, Backslash, Nul}
  /\ Len(Encode(name)) <= MaxName

\* The order of sorted(), by name: where they part, m ends or has the lesser
\* character.
Less(m, n) ==
  \E i \in DOMAIN n :
    /\ \A j \in 1 .. i - 1 : j \in DOMAIN m /\ m[j] = n[j]
    /\ i \in DOMAIN m => m[i] < n[i]

\* What create_snapshot lists: names of single path segments, each once.
Listed(entries) ==
  /\ entries \in Seq([kind : {KindB, KindT}, name : Seq(Int), hash : Int \ {Nul}])
  /\ \A i \in DOMAIN entries :
       /\ ValidName(entries[i].name)
       /\ \A k \in DOMAIN entries[i].name : entries[i].name[k] # Trail
  /\ \A i, j \in DOMAIN entries : entries[i].name = entries[j].name => i = j

Before(entries, e) == {d \in Range(entries) : Less(d.name, e.name)}

\* sorted(), of entries with different names.
Sorted(entries) ==
  [i \in DOMAIN entries |-> CHOOSE e \in Range(entries) : Cardinality(Before(entries, e)) = i - 1]

\* Mutation: the length is that of the string, not of its bytes.
EntryBytesChars(e) == <<e.kind, Len(e.name)>> \o Encode(e.name) \o <<e.hash>>

EntryBytes(e) == <<e.kind, Len(Encode(e.name))>> \o Encode(e.name) \o <<e.hash>>

\* serialize_tree, of entries whose names are valid; it raises for others.
SerializeTree(entries) ==
  LET sorted == Sorted(entries) IN FlattenSeq([i \in DOMAIN sorted |-> EntryBytes(sorted[i])])

\* The loop of deserialize_tree, once: the entry that begins at p, if one does.
EntryAt(data, p) ==
  LET end == p + 2 + data[p + 1] IN
  IF data[p] \in {KindB, KindT} /\ p < Len(data) /\ end <= Len(data) /\ data[end] # Nul
    THEN {<<TreeEntry(data[p], name, data[end]), end + 1>> :
            name \in {n \in Decode(SubSeq(data, p + 2, end - 1)) : ValidName(n)}}
    ELSE {}

\* deserialize_tree: the entries, or nothing where it raises.
DeserializeTree(data) == ReadAll([p \in DOMAIN data |-> EntryAt(data, p)])

=============================================================================
