--------------------------- MODULE MCPathHistory ---------------------------
(***************************************************************************)
(* Instances of PathHistory for TLC.  A tree holds one blob, at one or two *)
(* paths: from snapshot to snapshot files appear, disappear, are edited,   *)
(* copied, moved, and moved ambiguously.                                   *)
(***************************************************************************)
EXTENDS PathHistory, TLC

CONSTANTS a, b, c, x, y, p1

MCPath  == {a, b, c}
MCBlob  == {x, y}
MCProc  == {p1}

Holding(f, S) == [q \in MCPath |-> IF q \in S THEN f ELSE Absent]

MCContent ==
  {Holding(f, S) : f \in MCBlob, S \in {T \in SUBSET MCPath : Cardinality(T) \in {1, 2}}}

Symmetry == {f @@ g : f \in Permutations(MCPath), g \in Permutations(MCBlob)}

=============================================================================
