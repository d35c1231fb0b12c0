---------------------------- MODULE MCDurability ----------------------------
(***************************************************************************)
(* An instance of Durability for TLC: two directories, one inside the      *)
(* other's snapshot or not, and the file they share.                       *)
(***************************************************************************)
EXTENDS Durability, TLC

CONSTANTS b1, r1, r2

MCObj  == {b1, r1, r2}
MCTree == {r1, r2}
MCKids == b1 :> {} @@ r1 :> {b1} @@ r2 :> {b1}

Symmetry == {f \in Permutations(MCTree) : TRUE}

=============================================================================
