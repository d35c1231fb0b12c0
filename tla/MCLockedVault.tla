--------------------------- MODULE MCLockedVault ---------------------------
(***************************************************************************)
(* Instances of LockedVault for TLC.                                       *)
(***************************************************************************)
EXTENDS LockedVault, TLC

CONSTANTS b1, r1, p1, p2, i1, i2, t1

MCObj  == {b1, r1}
MCTree == {r1}
MCKids == b1 :> {} @@ r1 :> {b1}

TwoProcs == {p1, p2}
MCTag    == {t1}
MCPid    == {i1, i2}
PidOfTwo == p1 :> i1 @@ p2 :> i2

=============================================================================
