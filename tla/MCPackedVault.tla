--------------------------- MODULE MCPackedVault ---------------------------
(***************************************************************************)
(* Instances of PackedVault for TLC: two versions of one file, each in a   *)
(* snapshot of its own, so that one may be stored as a delta against the   *)
(* other and outlive the snapshot its base came from; or two directories   *)
(* that hold the same file, where no delta is possible.                    *)
(***************************************************************************)
EXTENDS PackedVault, TLC

CONSTANTS b1, b2, r1, r2

MCObj  == {b1, b2, r1, r2}
MCTree == {r1, r2}
MCKids == b1 :> {} @@ b2 :> {} @@ r1 :> {b1} @@ r2 :> {b2}

MCOneObj  == {b1, r1, r2}
MCOneKids == b1 :> {} @@ r1 :> {b1} @@ r2 :> {b1}

\* The renamings of hashes that keep the graph.
Symmetry ==
  {f \in Permutations(MCObj) : \A o \in MCObj : {f[k] : k \in MCKids[o]} = MCKids[f[o]]}

=============================================================================
