------------------------------ MODULE MCVault ------------------------------
(***************************************************************************)
(* Instances of Vault for TLC: a directory that a snapshot may take on its *)
(* own or inside another one, with a file of its own beside it, so that    *)
(* removing either snapshot leaves objects needed or garbage.              *)
(***************************************************************************)
EXTENDS VaultRefinement, TLC

CONSTANTS b1, b2, r1, r2, p1, p2, t1

MCObj  == {b1, b2, r1, r2}
MCTree == {r1, r2}
MCKids == b1 :> {} @@ b2 :> {} @@ r1 :> {b1} @@ r2 :> {r1, b2}

MCProc == {p1, p2}
MCTag  == {t1}

Symmetry == Permutations(MCProc)

=============================================================================
