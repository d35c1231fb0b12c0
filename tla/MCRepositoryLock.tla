------------------------ MODULE MCRepositoryLock ------------------------
(***************************************************************************)
(* Instances of RepositoryLock for TLC: three invocations, enough for a    *)
(* holder and two waiters that break the lock on the same observation.     *)
(***************************************************************************)
EXTENDS RepositoryLock, TLC

CONSTANTS p1, p2, p3, i1, i2, i3

MCProc == {p1, p2, p3}
MCPid  == {i1, i2, i3}

DistinctPids == p1 :> i1 @@ p2 :> i2 @@ p3 :> i3

=============================================================================
