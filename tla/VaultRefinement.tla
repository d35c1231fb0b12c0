-------------------------- MODULE VaultRefinement --------------------------
(***************************************************************************)
(* Vault implements SnapshotHistory.  What an id holds is what a restore   *)
(* of it could still read: the objects its root reaches that are in the    *)
(* store.                                                                  *)
(***************************************************************************)
EXTENDS Vault

ASSUME RefinementAssumption == \A S \in SUBSET Obj : S # NoRecord

Readable(i) == Reach({snaps[i].root}) \cap loose

History == INSTANCE SnapshotHistory WITH
  Content <- {Reach({r}) : r \in Tree},
  None    <- NoRecord,
  archive <- [i \in Id |-> IF i \in Live THEN Readable(i) ELSE NoRecord]

\* Commands that run one at a time implement the abstract history: a snapshot
\* appears complete and under a fresh id in the one step that publishes it,
\* and nothing but its own removal ever changes what it holds.
ImplementsHistory == History!Spec

=============================================================================
