---------------------------- MODULE ObjectGraph ----------------------------
(***************************************************************************)
(* The content-addressed objects of src/vault/objects.py and the trees     *)
(* that src/vault/snapshot.py makes of them.                               *)
(*                                                                         *)
(* An object is named by the hash of its bytes, so what a tree lists is a  *)
(* function of its name: the children of an object are a constant.  Hashes *)
(* are abstracted to the members of Obj; that no hash is its own           *)
(* descendant is not needed by anything below.                             *)
(***************************************************************************)
EXTENDS Naturals, FiniteSets

CONSTANTS Obj,      \* object hashes
          Tree,     \* the hashes that name directory listings; the others are blobs
          Kids      \* Kids[o]: the hashes a tree's entries name; {} for a blob

ASSUME GraphAssumption ==
  /\ Tree \subseteq Obj
  /\ Kids \in [Obj -> SUBSET Obj]
  /\ \A o \in Obj \ Tree : Kids[o] = {}

Closed(S) == \A o \in S : Kids[o] \subseteq S

\* What a walk from the roots visits (gc.py, the recursion of visit): the
\* least closed set that holds them.
Reach(roots) ==
  {o \in Obj : \A S \in SUBSET Obj : roots \subseteq S /\ Closed(S) => o \in S}

=============================================================================
