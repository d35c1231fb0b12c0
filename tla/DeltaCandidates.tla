-------------------------- MODULE DeltaCandidates --------------------------
(***************************************************************************)
(* find_delta_candidates of src/vault/experimental/delta_pack.py: which    *)
(* blob may be stored as a delta against which other blob.  The loop goes  *)
(* over consecutive snapshots and, in each pair, over the paths whose      *)
(* content changed.  Trees are abstracted to what _flatten makes of them,  *)
(* a map from paths to blobs; the paths of a pair are taken in any order   *)
(* (the code sorts them by name).                                          *)
(***************************************************************************)
EXTENDS Naturals, Sequences

CONSTANTS Path, Blob,
          Absent,        \* the path is not in the snapshot
          NoBase,        \* the blob is no key of candidates
          MaxSnapshots   \* bound: length of the history

ASSUME CandidatesAssumption ==
  /\ Absent \notin Blob
  /\ NoBase \notin Blob
  /\ MaxSnapshots \in Nat

Flat == [Path -> Blob \cup {Absent}]

VARIABLES snapshots,     \* list_snapshots(), flattened; read only
          pair,             \* the loop's index: snapshots pair and pair + 1 are compared
          changed,          \* paths of diff.modified still to look at
          candidates     \* the dict {new blob: old blob}

candVars == <<snapshots, pair, changed, candidates>>

Targets == {b \in Blob : candidates[b] # NoBase}

\* diff_trees(...).modified: in both trees, with different blobs.
Modified(prev, curr) ==
  {p \in Path : prev[p] \in Blob /\ curr[p] \in Blob /\ prev[p] # curr[p]}

CandidatesTypeOK ==
  /\ snapshots \in Seq(Flat)
  /\ pair \in 0 .. Len(snapshots)
  /\ changed \in SUBSET Path
  /\ candidates \in [Blob -> Blob \cup {NoBase}]
  /\ changed # {} => pair \in 1 .. Len(snapshots) - 1 /\ changed \subseteq Modified(snapshots[pair], snapshots[pair + 1])

StartFind ==
  /\ pair = 0
  /\ changed = {}
  /\ candidates = [b \in Blob |-> NoBase]

CandidatesInit ==
  /\ \E n \in 0 .. MaxSnapshots : snapshots \in [1 .. n -> Flat]
  /\ StartFind

NextPair ==
  /\ changed = {}
  /\ pair + 1 < Len(snapshots)
  /\ pair' = pair + 1
  /\ changed' = Modified(snapshots[pair'], snapshots[pair' + 1])
  /\ UNCHANGED <<snapshots, candidates>>

\* Mutation: no look at whether the base is a target itself.
ConsiderUnchecked(p) ==
  /\ p \in changed
  /\ changed' = changed \ {p}
  /\ candidates' = [candidates EXCEPT ![snapshots[pair + 1][p]] = snapshots[pair][p]]
  /\ UNCHANGED <<snapshots, pair>>

\* One changed path: its old blob becomes the base of its new one unless the
\* old one is a target already.  An earlier base of the new blob is replaced.
Consider(p) ==
  /\ p \in changed
  /\ changed' = changed \ {p}
  /\ candidates' = IF snapshots[pair][p] \notin Targets
                     THEN [candidates EXCEPT ![snapshots[pair + 1][p]] = snapshots[pair][p]]
                     ELSE candidates
  /\ UNCHANGED <<snapshots, pair>>

FindStep == NextPair \/ \E p \in Path : Consider(p)

\* The loop has come to its end.
Found == changed = {} /\ pair + 1 >= Len(snapshots)

CandidatesSpec == CandidatesInit /\ [][FindStep]_candVars

-----------------------------------------------------------------------------
\* Deltas never depend on each other in a circle: every set of targets holds
\* one whose base is outside the set.  DeltaAwarePackedStore.get, which
\* resolves a base by calling itself, ends on every pack written from these
\* candidates.  Chains there are: a base that is no target yet may become one.
Acyclic ==
  \A S \in SUBSET Targets : S # {} => \E b \in S : candidates[b] \notin S

\* A base really is the version of some file that the target followed.
BaseIsPredecessor ==
  \A b \in Targets : \E k \in 1 .. Len(snapshots) - 1, p \in Path :
    snapshots[k][p] = candidates[b] /\ snapshots[k + 1][p] = b

=============================================================================
