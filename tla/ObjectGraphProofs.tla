------------------------- MODULE ObjectGraphProofs -------------------------
(***************************************************************************)
(* Reachability in the object graph: a closure, and the least one.         *)
(***************************************************************************)
EXTENDS ObjectGraph, TLAPS

\* The roots themselves are reachable (gc.py, visit records the tree it is
\* called on).
LEMMA ReachHoldsRoots ==
  ASSUME NEW R \in SUBSET Obj
  PROVE  R \subseteq Reach(R)
BY DEF Reach

\* Whatever a reachable tree lists is reachable (visit's recursion).
LEMMA ReachClosed ==
  ASSUME NEW R \in SUBSET Obj
  PROVE  Closed(Reach(R))
<1> SUFFICES ASSUME NEW o \in Reach(R), NEW k \in Kids[o],
                    NEW S \in SUBSET Obj, R \subseteq S, Closed(S)
             PROVE  k \in S /\ k \in Obj
  BY GraphAssumption DEF Reach, Closed
<1>1. o \in S /\ o \in Obj
  BY DEF Reach
<1>2. QED
  BY <1>1, GraphAssumption DEF Closed

\* Nothing else is reachable.
LEMMA ReachLeast ==
  ASSUME NEW R, NEW S \in SUBSET Obj, R \subseteq S, Closed(S)
  PROVE  Reach(R) \subseteq S
BY DEF Reach

\* More roots reach more.
LEMMA ReachMonotone ==
  ASSUME NEW R, NEW T, R \subseteq T
  PROVE  Reach(R) \subseteq Reach(T)
BY DEF Reach

\* The objects reachable from a set of snapshots are those reachable from
\* one of them.
LEMMA ReachUnion ==
  ASSUME NEW R \in SUBSET Obj
  PROVE  Reach(R) = UNION {Reach({r}) : r \in R}
<1> DEFINE U == UNION {Reach({r}) : r \in R}
<1>1. U \in SUBSET Obj
  BY DEF Reach
<1>2. R \subseteq U
  BY ReachHoldsRoots
<1>3. Closed(U)
  <2> SUFFICES ASSUME NEW r \in R, NEW o \in Reach({r}) PROVE Kids[o] \subseteq Reach({r})
    BY DEF Closed
  <2>1. Closed(Reach({r}))
    BY ReachClosed
  <2>2. QED
    BY <2>1 DEF Closed
<1>4. Reach(R) \subseteq U
  BY <1>1, <1>2, <1>3, ReachLeast
<1>5. U \subseteq Reach(R)
  <2> SUFFICES ASSUME NEW r \in R PROVE Reach({r}) \subseteq Reach(R)
    OBVIOUS
  <2> QED
    BY ReachMonotone
<1>6. QED
  BY <1>4, <1>5

=============================================================================
