-------------------------- MODULE SnapshotHistory --------------------------
(***************************************************************************)
(* What the snapshot engine promises, with no object store in sight: a     *)
(* growing list of snapshots, each of them complete and immutable until it *)
(* is removed, under ids that only increase and are never used twice       *)
(* (snapshot.py, the docstrings of _next_snapshot_id and delete_snapshot). *)
(* Storing, deduplicating, collecting garbage and crashing are invisible.  *)
(***************************************************************************)
EXTENDS Naturals

CONSTANTS Id,          \* snapshot ids
          Content,     \* what a snapshot may hold
          None         \* no snapshot under this id

VARIABLES archive,     \* what each id holds
          used         \* the ids taken so far

vars == <<archive, used>>

Init ==
  /\ archive = [i \in Id |-> None]
  /\ used = {}

Take(i, c) ==
  /\ \A j \in used : j < i
  /\ archive' = [archive EXCEPT ![i] = c]
  /\ used' = used \cup {i}

Remove(i) ==
  /\ archive[i] # None
  /\ archive' = [archive EXCEPT ![i] = None]
  /\ UNCHANGED used

Next == \E i \in Id : Remove(i) \/ \E c \in Content : Take(i, c)

Spec == Init /\ [][Next]_vars

=============================================================================
