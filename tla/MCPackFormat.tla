--------------------------- MODULE MCPackFormat ---------------------------
(***************************************************************************)
(* Instances of PackFormat for TLC.  Pairs is every base with every target *)
(* of some lengths.  Packs is every set of hashes, with contents that      *)
(* share a block, after a history in which each replaced the one before it *)
(* or without a history.  Histories is every history of three snapshots of *)
(* two paths with three contents, so that contents come back at the same   *)
(* path or move to the other one.  Trees is every directory of up to three *)
(* entries, listed in any order, and Damaged every short row of bytes that *)
(* deserialize_tree might be given.                                        *)
(***************************************************************************)
EXTENDS PackFormat, TLC

CONSTANTS BaseLengths, TargetLengths

MCHash == 0 .. 4
MCPath == {"f", "g"}

Files(lengths) == UNION {[1 .. k -> {0, 1}] : k \in lengths}
Only(h)        == [p \in MCPath |-> IF p = "f" THEN h ELSE Absent]
Contents(S)    == [h \in S |-> [i \in 1 .. h + 1 |-> IF i = h THEN 1 ELSE 0]]

Pairs ==
  {[content |-> 0 :> f @@ 1 :> g, history |-> <<Only(0), Only(1)>>, listing |-> <<>>] :
     f \in Files(BaseLengths), g \in Files(TargetLengths)}

Packs ==
  {[content |-> Contents(S), history |-> [i \in 1 .. n |-> Only(i - 1)], listing |-> <<>>] :
     S \in SUBSET MCHash, n \in {0, 5}}

Histories ==
  {[content |-> Contents({0, 3, 4}), history |-> h, listing |-> <<>>] :
     h \in [1 .. 3 -> [MCPath -> {0, 3, 4, Absent}]]}

MCName == {<<KindB>>, <<KindB, KindB>>, <<Dot, KindT>>, <<Wide>>}

Listings ==
  UNION {{[i \in 1 .. k |-> TreeEntry(kinds[i], names[i], i)] :
            kinds \in [1 .. k -> {KindB, KindT}],
            names \in {f \in [1 .. k -> MCName] : IsInjective(f)}} : k \in 0 .. 3}

Trees == {[content |-> 0 :> <<0>>, history |-> <<>>, listing |-> 1 :> l] : l \in Listings}

Damaged ==
  {[content |-> 0 :> d, history |-> <<>>, listing |-> <<>>] :
     d \in UNION {[1 .. k -> {Nul, KindB, KindT, Slash, Dot, Trail}] : k \in 0 .. 4}}

MCInput ==
  {p \in Pairs : p.content[0] # p.content[1]} \cup Packs \cup Histories \cup Trees \cup Damaged

=============================================================================
