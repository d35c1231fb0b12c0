----------------------------- MODULE MCRestore -----------------------------
(***************************************************************************)
(* Instances of Restore for TLC: a file in a directory, a file beside it,  *)
(* and a snapshot in which the directory's name is that of a file.         *)
(***************************************************************************)
EXTENDS Restore, TLC

CONSTANTS d, f, g, x, y

MCNode  == {d, f, g}
MCAbove == d :> {} @@ f :> {d} @@ g :> {}
MCBlob  == {x, y}

MCSnapshot ==
  {d :> Absent @@ f :> x @@ g :> y, d :> Absent @@ f :> x @@ g :> x,
   d :> y @@ f :> Absent @@ g :> x, d :> Absent @@ f :> Absent @@ g :> y}

=============================================================================
