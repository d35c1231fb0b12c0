----------------------------- MODULE MCReaders -----------------------------
(***************************************************************************)
(* An instance of Readers for TLC: a file, a directory that holds it, and  *)
(* a directory that holds the first.  Either may be a snapshot's root.     *)
(***************************************************************************)
EXTENDS Readers, TLC

CONSTANTS b1, r1, r2

MCObj  == {b1, r1, r2}
MCTree == {r1, r2}
MCKids == b1 :> {} @@ r1 :> {b1} @@ r2 :> {r1}

=============================================================================
