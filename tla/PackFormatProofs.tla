------------------------- MODULE PackFormatProofs -------------------------
(***************************************************************************)
(* Which deltas a pack holds, for every history of any length, and what a  *)
(* delta is, for any two files, block size and word size of the checksum.  *)
(* The candidates are predecessors of their targets and never form a       *)
(* circle; the scan gives operations that make the target of the base and  *)
(* leaves no whole block of the base among the literals; and every pack,   *)
(* whatever was packed, reads back through its index, its delta chains and *)
(* the serialised operations to the objects it was written from, of which  *)
(* the directories read as what they were listed as.                       *)
(***************************************************************************)
EXTENDS PackFormat, SequenceTheorems, FiniteSetTheorems,
        WellFoundedInduction, TLAPS

-----------------------------------------------------------------------------
(***************************************************************************)
(* Candidates                                                              *)
(***************************************************************************)
\* The loop stays inside the list and the changed paths are those of the pair
\* it is at.
THEOREM CandidatesTyping == CandidatesSpec => []CandidatesTypeOK
<1>1. CandidatesInit => CandidatesTypeOK
  BY CandidatesAssumption DEF CandidatesInit, StartFind, CandidatesTypeOK, Flat
<1>2. CandidatesTypeOK /\ [FindStep]_candVars => CandidatesTypeOK'
  <2> SUFFICES ASSUME CandidatesTypeOK, [FindStep]_candVars
               PROVE  CandidatesTypeOK'
    OBVIOUS
  <2>1. CASE NextPair
    <3>1. snapshots' = snapshots /\ pair' = pair + 1 /\ pair + 1 < Len(snapshots)
          /\ candidates' = candidates
      BY <2>1 DEF NextPair
    <3>2. Len(snapshots) \in Nat
      BY DEF CandidatesTypeOK
    <3>3. changed' = Modified(snapshots[pair'], snapshots[pair' + 1])
      BY <2>1 DEF NextPair
    <3>4. pair' \in 1 .. Len(snapshots) - 1
      BY <3>1, <3>2 DEF CandidatesTypeOK
    <3>5. Modified(snapshots[pair'], snapshots[pair' + 1]) \subseteq Path
      BY DEF Modified
    <3>6. changed' \subseteq Modified(snapshots'[pair'], snapshots'[pair' + 1])
      BY <3>1, <3>3
    <3> QED
      BY <3>1, <3>2, <3>3, <3>4, <3>5, <3>6 DEF CandidatesTypeOK, Modified
  <2>2. ASSUME NEW p \in Path, Consider(p)
        PROVE  CandidatesTypeOK'
    <3>1. changed' \subseteq changed /\ snapshots' = snapshots /\ pair' = pair /\ p \in changed
      BY <2>2 DEF Consider
    <3>2. snapshots[pair][p] \in Blob /\ snapshots[pair + 1][p] \in Blob
      BY <3>1 DEF CandidatesTypeOK, Modified
    <3>3. candidates' \in [Blob -> Blob \cup {NoBase}]
      BY <2>2, <3>2 DEF Consider, CandidatesTypeOK
    <3> QED
      BY <3>1, <3>3 DEF CandidatesTypeOK, Modified
  <2>3. CASE UNCHANGED candVars
    BY <2>3 DEF candVars, CandidatesTypeOK, Modified
  <2> QED
    BY <2>1, <2>2, <2>3 DEF FindStep
<1> QED
  BY <1>1, <1>2, PTL DEF CandidatesSpec

\* The path that is looked at: both of its blobs are known, and differ.
LEMMA PathFacts ==
  ASSUME CandidatesTypeOK, NEW p \in changed
  PROVE  /\ pair \in 1 .. Len(snapshots) - 1
         /\ p \in Path
         /\ snapshots[pair][p] \in Blob
         /\ snapshots[pair + 1][p] \in Blob
         /\ snapshots[pair][p] # snapshots[pair + 1][p]
BY DEF CandidatesTypeOK, Modified

\* No set of deltas is closed under `base of`, so resolving a base always
\* ends at an entry that is stored whole.
THEOREM NoCircles == CandidatesSpec => []Acyclic
<1>1. CandidatesInit => Acyclic
  BY DEF CandidatesInit, StartFind, Acyclic, Targets
<1>2. CandidatesTypeOK /\ Acyclic /\ [FindStep]_candVars => Acyclic'
  <2> SUFFICES ASSUME CandidatesTypeOK, Acyclic, [FindStep]_candVars,
                      NEW S \in SUBSET Targets', S # {}
               PROVE  \E b \in S : candidates'[b] \notin S
    BY DEF Acyclic
  <2>1. CASE candidates' = candidates
    BY <2>1 DEF Acyclic, Targets
  <2>2. ASSUME NEW p \in Path, Consider(p), snapshots[pair][p] \notin Targets
        PROVE  \E b \in S : candidates'[b] \notin S
    <3> DEFINE old == snapshots[pair][p]
               new == snapshots[pair + 1][p]
    <3>1. old \in Blob /\ new \in Blob /\ old # new
      BY <2>2, PathFacts DEF Consider
    <3>2. candidates' = [candidates EXCEPT ![new] = old]
      BY <2>2 DEF Consider
    <3>3. candidates \in [Blob -> Blob \cup {NoBase}]
      BY DEF CandidatesTypeOK
    <3>4. Targets' = Targets \cup {new}
      BY <3>1, <3>2, <3>3, CandidatesAssumption DEF Targets
    <3>5. CASE new \in S
      <4>1. candidates'[new] = old
        BY <3>1, <3>2, <3>3
      <4>2. old \notin S
        BY <2>2, <3>1, <3>4
      <4> QED
        BY <3>5, <4>1, <4>2
    <3>6. CASE new \notin S
      <4>1. S \in SUBSET Targets
        BY <3>4, <3>6
      <4>2. PICK b \in S : candidates[b] \notin S
        BY <4>1 DEF Acyclic
      <4>3. candidates'[b] = candidates[b]
        BY <3>2, <3>3, <3>6, <4>1 DEF Targets
      <4> QED
        BY <4>2, <4>3
    <3> QED
      BY <3>5, <3>6
  <2> QED
    BY <2>1, <2>2 DEF FindStep, NextPair, Consider, candVars
<1> QED
  BY <1>1, <1>2, CandidatesTyping, PTL DEF CandidatesSpec

\* Every base was the content of a path right before the target was.
THEOREM BasesPrecede == CandidatesSpec => []BaseIsPredecessor
<1>1. CandidatesInit => BaseIsPredecessor
  BY DEF CandidatesInit, StartFind, BaseIsPredecessor, Targets
<1>2. CandidatesTypeOK /\ BaseIsPredecessor /\ [FindStep]_candVars => BaseIsPredecessor'
  <2> SUFFICES ASSUME CandidatesTypeOK, BaseIsPredecessor, [FindStep]_candVars,
                      NEW b \in Targets'
               PROVE  \E k \in 1 .. Len(snapshots') - 1, q \in Path :
                        snapshots'[k][q] = candidates'[b] /\ snapshots'[k + 1][q] = b
    BY DEF BaseIsPredecessor
  <2>0. snapshots' = snapshots
    BY DEF FindStep, NextPair, Consider, candVars
  <2>1. CASE candidates'[b] = candidates[b]
    <3>1. b \in Targets
      BY <2>1 DEF Targets
    <3>2. PICK k \in 1 .. Len(snapshots) - 1, q \in Path :
                 snapshots[k][q] = candidates[b] /\ snapshots[k + 1][q] = b
      BY <3>1 DEF BaseIsPredecessor
    <3> QED
      BY <2>0, <2>1, <3>2
  <2>2. CASE candidates'[b] # candidates[b]
    <3>1. PICK p \in Path : Consider(p) /\ snapshots[pair][p] \notin Targets
      BY <2>2 DEF FindStep, NextPair, Consider, candVars
    <3>2. b = snapshots[pair + 1][p] /\ candidates'[b] = snapshots[pair][p]
      BY <2>2, <3>1 DEF Consider, CandidatesTypeOK, Targets
    <3>3. pair \in 1 .. Len(snapshots) - 1
      BY <3>1, PathFacts DEF Consider
    <3> QED
      BY <2>0, <3>2, <3>3
  <2> QED
    BY <2>1, <2>2
<1> QED
  BY <1>1, <1>2, CandidatesTyping, PTL DEF CandidatesSpec

-----------------------------------------------------------------------------
(***************************************************************************)
(* Induction: among the numbers, and the finite sets, that violate something*)
(* there is a least.                                                       *)
(***************************************************************************)
LessThan == {r \in Nat \X Nat : r[1] < r[2]}

LEMMA HasLeast ==
  ASSUME NEW S \in SUBSET Nat, S # {}
  PROVE  \E n \in S : \A m \in S : n <= m
<1>0. LessThan = OpToRel(<, Nat)
  BY DEF LessThan, OpToRel
<1>1. PICK n \in S : \A m \in S : ~ (<<m, n>> \in LessThan)
  BY <1>0, NatLessThanWellFounded, WFMin
<1>2. \A m \in S : ~ (m < n)
  BY <1>1 DEF LessThan
<1>3. QED
  BY <1>2

\* A finite set in Sets has a least one by the number of elements.
LEMMA HasSmallest ==
  ASSUME NEW Sets, Sets # {}, \A s \in Sets : IsFiniteSet(s)
  PROVE  \E s \in Sets : \A t \in Sets : ~ (\E x \in s : t = s \ {x})
<1> DEFINE Sizes == {Cardinality(s) : s \in Sets}
<1>1. Sizes \in SUBSET Nat /\ Sizes # {}
  BY FS_CardinalityType
<1>2. PICK n \in Sizes : \A m \in Sizes : n <= m
  <2> HIDE DEF Sizes
  <2>1. QED
    BY <1>1, HasLeast
<1>3. PICK s \in Sets : Cardinality(s) = n
  BY <1>2
<1>4. ASSUME NEW x \in s, s \ {x} \in Sets PROVE FALSE
  <2>1. Cardinality(s \ {x}) = Cardinality(s) - 1 /\ Cardinality(s) \in Nat
    BY FS_RemoveElement, FS_CardinalityType
  <2>2. n <= Cardinality(s \ {x})
    BY <1>2, <1>4
  <2>3. QED
    BY <1>3, <2>1, <2>2
<1>5. QED
  BY <1>4

-----------------------------------------------------------------------------
(***************************************************************************)
(* Joining pieces                                                          *)
(***************************************************************************)
\* f holds what the first pieces of ss give, joined, for each number of them.
IsJoin(f, ss, n) == f = [i \in 1 .. n |-> IF i = 1 THEN ss[i] ELSE f[i - 1] \o ss[i]]

LEMMA JoinExists ==
  ASSUME NEW ss
  PROVE  \A n \in Nat : \E f : IsJoin(f, ss, n)
<1> DEFINE Bad == {n \in Nat : ~ \E f : IsJoin(f, ss, n)}
<1> SUFFICES ASSUME Bad # {} PROVE FALSE
  OBVIOUS
<1>1. PICK n \in Bad : \A m \in Bad : n <= m
  <2>1. Bad \in SUBSET Nat
    OBVIOUS
  <2> HIDE DEF Bad
  <2>2. QED
    BY <2>1, HasLeast
<1>2. n \in Nat /\ ~ \E f : IsJoin(f, ss, n)
  BY <1>1
<1>3. CASE n = 0
  <2>1. IsJoin([i \in 1 .. 0 |-> ss], ss, 0)
    BY DEF IsJoin
  <2>2. QED
    BY <1>2, <1>3, <2>1
<1>4. CASE n # 0
  <2>1. n - 1 \in Nat /\ n - 1 \notin Bad
    BY <1>1, <1>2, <1>4
  <2>2. PICK f : IsJoin(f, ss, n - 1)
    BY <2>1
  <2> DEFINE g == [i \in 1 .. n |-> IF i = 1 THEN ss[i] ELSE f[i - 1] \o ss[i]]
  <2>3. ASSUME NEW i \in 1 .. n, i # 1 PROVE g[i - 1] = f[i - 1]
    <3>1. i - 1 \in 1 .. n - 1 /\ i - 1 \in 1 .. n
      BY <1>2, <2>3
    <3>2. f[i - 1] = IF i - 1 = 1 THEN ss[i - 1] ELSE f[i - 1 - 1] \o ss[i - 1]
      BY <2>2, <3>1 DEF IsJoin
    <3>3. QED
      BY <3>1, <3>2
  <2>4. IsJoin(g, ss, n)
    BY <2>3 DEF IsJoin
  <2>5. QED
    BY <1>2, <2>4
<1>5. QED
  BY <1>3, <1>4

AgreeUpTo(ss, tt, k) == \A i \in 1 .. k : ss[i] = tt[i]

LEMMA JoinUnique ==
  ASSUME NEW f, NEW g, NEW ss, NEW tt, NEW k \in Nat, NEW m \in Nat,
         k <= m, IsJoin(f, ss, k), IsJoin(g, tt, m), AgreeUpTo(ss, tt, k)
  PROVE  AgreeUpTo(f, g, k)
<1> DEFINE Bad == {i \in 1 .. k : f[i] # g[i]}
<1> SUFFICES ASSUME Bad # {} PROVE FALSE
  BY DEF AgreeUpTo
<1>1. PICK i \in Bad : \A j \in Bad : i <= j
  <2>1. Bad \in SUBSET Nat
    OBVIOUS
  <2> HIDE DEF Bad
  <2>2. QED
    BY <2>1, HasLeast
<1>2. i \in 1 .. k /\ f[i] # g[i] /\ i \in 1 .. m
  BY <1>1
<1>3. /\ f[i] = IF i = 1 THEN ss[i] ELSE f[i - 1] \o ss[i]
      /\ g[i] = IF i = 1 THEN tt[i] ELSE g[i - 1] \o tt[i]
  BY <1>2 DEF IsJoin
<1>4. i # 1 => f[i - 1] = g[i - 1]
  BY <1>1, <1>2
<1>5. QED
  BY <1>2, <1>3, <1>4 DEF AgreeUpTo

LEMMA JoinType ==
  ASSUME NEW X, NEW ss \in Seq(Seq(X)), NEW f, IsJoin(f, ss, Len(ss))
  PROVE  \A i \in 1 .. Len(ss) : f[i] \in Seq(X)
<1> DEFINE Bad == {i \in 1 .. Len(ss) : f[i] \notin Seq(X)}
<1> SUFFICES ASSUME Bad # {} PROVE FALSE
  OBVIOUS
<1>0. Len(ss) \in Nat
  OBVIOUS
<1>1. PICK i \in Bad : \A j \in Bad : i <= j
  <2>1. Bad \in SUBSET Nat
    BY <1>0
  <2> HIDE DEF Bad
  <2>2. QED
    BY <2>1, HasLeast
<1>2. i \in 1 .. Len(ss) /\ f[i] \notin Seq(X) /\ ss[i] \in Seq(X)
  BY <1>1
<1>3. f[i] = IF i = 1 THEN ss[i] ELSE f[i - 1] \o ss[i]
  BY <1>2 DEF IsJoin
<1>4. i # 1 => f[i - 1] \in Seq(X)
  BY <1>0, <1>1, <1>2
<1>5. i # 1 => f[i - 1] \o ss[i] \in Seq(X)
  BY <1>2, <1>4
<1>6. QED
  BY <1>2, <1>3, <1>5

LEMMA FlattenIsJoin ==
  ASSUME NEW X, NEW ss \in Seq(Seq(X)), Len(ss) # 0
  PROVE  \E f : IsJoin(f, ss, Len(ss)) /\ FlattenSeq(ss) = f[Len(ss)]
<1> DEFINE f == CHOOSE f : f = [i \in 1 .. Len(ss) |-> IF i = 1 THEN ss[i] ELSE f[i - 1] \o ss[i]]
<1>1. \E g : IsJoin(g, ss, Len(ss))
  <2>1. Len(ss) \in Nat
    OBVIOUS
  <2>2. QED
    BY <2>1, JoinExists
<1>2. IsJoin(f, ss, Len(ss))
  BY <1>1 DEF IsJoin
<1>3. FlattenSeq(ss) = f[Len(ss)]
  BY DEF FlattenSeq
<1>4. QED
  BY <1>2, <1>3

\* One more piece is joined to what the others give.
LEMMA FlattenAppend ==
  ASSUME NEW X, NEW ss \in Seq(Seq(X)), NEW s \in Seq(X)
  PROVE  /\ FlattenSeq(ss) \in Seq(X)
         /\ FlattenSeq(Append(ss, s)) = FlattenSeq(ss) \o s
<1>0. PICK tt : tt = Append(ss, s)
  OBVIOUS
<1>1. /\ tt \in Seq(Seq(X)) /\ Len(tt) = Len(ss) + 1 /\ Len(ss) \in Nat
      /\ tt[Len(tt)] = s /\ \A i \in 1 .. Len(ss) : tt[i] = ss[i]
  BY <1>0
<1>2. PICK g : IsJoin(g, tt, Len(tt)) /\ FlattenSeq(tt) = g[Len(tt)]
  <2>1. Len(tt) # 0
    BY <1>1
  <2>2. QED
    BY <1>1, <2>1, FlattenIsJoin
<1>3. FlattenSeq(tt) = IF Len(tt) = 1 THEN s ELSE g[Len(tt) - 1] \o s
  <2>1. Len(tt) \in 1 .. Len(tt) /\ Len(tt) # 0
    BY <1>1
  <2>2. PICK n \in Nat : n = Len(tt)
    BY <1>1
  <2>3. g[n] = IF n = 1 THEN tt[n] ELSE g[n - 1] \o tt[n]
    BY <1>2, <2>1, <2>2 DEF IsJoin
  <2>4. FlattenSeq(tt) = g[n]
    BY <2>1, <2>2, <1>2
  <2>5. QED
    BY <1>1, <2>2, <2>3, <2>4
<1>4. CASE Len(ss) = 0
  <2>1. ss = <<>> /\ FlattenSeq(ss) = ss
    BY <1>4 DEF FlattenSeq
  <2>2. FlattenSeq(ss) \in Seq(X) /\ FlattenSeq(ss) \o s = s
    <3>1. <<>> \in Seq(X) /\ <<>> \o s = s
      OBVIOUS
    <3>2. QED
      BY <2>1, <3>1
  <2>3. FlattenSeq(tt) = s
    BY <1>1, <1>3, <1>4
  <2>4. QED
    BY <1>0, <2>2, <2>3
<1>5. CASE Len(ss) # 0
  <2>1. PICK f : IsJoin(f, ss, Len(ss)) /\ FlattenSeq(ss) = f[Len(ss)]
    BY <1>5, FlattenIsJoin
  <2>2. FlattenSeq(ss) \in Seq(X)
    BY <1>1, <1>5, <2>1, JoinType
  <2>3. f[Len(ss)] = g[Len(ss)]
    <3>1. \A i \in 1 .. Len(ss) : f[i] = g[i]
      <4>1. PICK n \in Nat, m \in Nat : n = Len(ss) /\ m = Len(tt)
        BY <1>1
      <4>2. n \in Nat /\ m \in Nat /\ n <= m /\ \A i \in 1 .. n : ss[i] = tt[i]
        BY <1>1, <4>1
      <4>3. IsJoin(f, ss, n) /\ IsJoin(g, tt, m)
        BY <1>2, <2>1, <4>1
      <4>4. AgreeUpTo(ss, tt, n)
        BY <4>2 DEF AgreeUpTo
      <4>5. AgreeUpTo(f, g, n)
        BY <4>2, <4>3, <4>4, JoinUnique
      <4>6. QED
        BY <4>1, <4>5 DEF AgreeUpTo
    <3>2. QED
      BY <1>1, <1>5, <3>1
  <2>4. QED
    BY <1>0, <1>1, <1>3, <1>5, <2>1, <2>2, <2>3
<1>6. QED
  BY <1>4, <1>5

-----------------------------------------------------------------------------
(***************************************************************************)
(* Sums over a finite set, in whatever order they are taken                *)
(***************************************************************************)
\* f holds the sums of h over the subsets of S.
Taken(s) == CHOOSE x \in s : TRUE
IsSum(f, h, S) ==
  f = [s \in SUBSET S |-> IF s = {} THEN 0 ELSE h[Taken(s)] + f[s \ {Taken(s)}]]

LEMMA TakenIn == \A s : s # {} => Taken(s) \in s
BY DEF Taken

LEMMA SumUnique ==
  ASSUME NEW h, NEW S, NEW T, NEW f, NEW g, IsFiniteSet(S), IsSum(f, h, S), IsSum(g, h, T)
  PROVE  \A s \in SUBSET (S \cap T) : f[s] = g[s]
<1> DEFINE Bad == {s \in SUBSET (S \cap T) : f[s] # g[s]}
<1> SUFFICES ASSUME Bad # {} PROVE FALSE
  OBVIOUS
<1>1. \A s \in Bad : IsFiniteSet(s)
  BY FS_Subset
<1>2. PICK s \in Bad : \A t \in Bad : ~ (\E x \in s : t = s \ {x})
  <2> HIDE DEF Bad
  <2>1. QED
    BY <1>1, HasSmallest
<1>3. /\ f[s] = IF s = {} THEN 0 ELSE h[Taken(s)] + f[s \ {Taken(s)}]
      /\ g[s] = IF s = {} THEN 0 ELSE h[Taken(s)] + g[s \ {Taken(s)}]
  BY DEF IsSum
<1>4. s # {}
  BY <1>3
<1>5. s \ {Taken(s)} \notin Bad
  BY <1>2, <1>4, TakenIn
<1>6. f[s \ {Taken(s)}] = g[s \ {Taken(s)}]
  BY <1>5
<1>7. QED
  BY <1>3, <1>4, <1>6

LEMMA SumExists ==
  ASSUME NEW h, NEW U, IsFiniteSet(U)
  PROVE  \A S \in SUBSET U : \E f : IsSum(f, h, S)
<1> DEFINE Bad == {S \in SUBSET U : ~ \E f : IsSum(f, h, S)}
<1> SUFFICES ASSUME Bad # {} PROVE FALSE
  OBVIOUS
<1>1. \A S \in Bad : IsFiniteSet(S)
  BY FS_Subset
<1>2. PICK S \in Bad : \A T \in Bad : ~ (\E x \in S : T = S \ {x})
  <2> HIDE DEF Bad
  <2>1. QED
    BY <1>1, HasSmallest
<1>3. IsFiniteSet(S) /\ S \in SUBSET U /\ ~ \E f : IsSum(f, h, S)
  BY <1>1, <1>2
<1>4. S # {}
  <2>1. IsSum([s \in SUBSET {} |-> 0], h, {})
    BY DEF IsSum
  <2>2. QED
    BY <1>3, <2>1
<1>5. \A x \in S : \E f : IsSum(f, h, S \ {x})
  BY <1>2, <1>3
<1> DEFINE F(x) == CHOOSE f : IsSum(f, h, S \ {x})
           V(s) == LET x == CHOOSE x \in S : x \notin s IN F(x)[s]
           g == [s \in SUBSET S |->
                   IF s = {} THEN 0 ELSE h[Taken(s)] + V(s \ {Taken(s)})]
<1>6. \A x \in S : IsSum(F(x), h, S \ {x})
  BY <1>5
<1>7. ASSUME NEW s \in SUBSET S, s # S PROVE g[s] = V(s)
  <2>1. PICK x \in S : x \notin s /\ V(s) = F(x)[s]
    BY <1>7
  <2>0. PICK f : f = F(x) /\ IsSum(f, h, S \ {x})
    BY <1>6
  <2>2. s \in SUBSET (S \ {x})
    BY <2>1
  <2>3. f[s] = IF s = {} THEN 0 ELSE h[Taken(s)] + f[s \ {Taken(s)}]
    BY <2>0, <2>2 DEF IsSum
  <2>4. CASE s = {}
    BY <2>0, <2>1, <2>3, <2>4
  <2>5. CASE s # {}
    <3>1. PICK t : t = s \ {Taken(s)}
      OBVIOUS
    <3>2. t \in SUBSET (S \ {x}) /\ x \in S /\ x \notin t
      BY <2>1, <3>1
    <3>3. PICK y \in S : y \notin t /\ V(t) = F(y)[t]
      BY <3>2
    <3>4. IsFiniteSet(S \ {x})
      BY <1>3, FS_Subset
    <3>5. t \in SUBSET ((S \ {x}) \cap (S \ {y}))
      BY <3>2, <3>3
    <3>6. f[t] = F(y)[t]
      <4>1. PICK e : e = F(y) /\ IsSum(e, h, S \ {y})
        BY <1>6
      <4>2. PICK A, B : A = S \ {x} /\ B = S \ {y}
        OBVIOUS
      <4>3. IsFiniteSet(A) /\ IsSum(f, h, A) /\ IsSum(e, h, B) /\ t \in SUBSET (A \cap B)
        BY <2>0, <3>4, <3>5, <4>1, <4>2
      <4>4. f[t] = e[t]
        BY <4>3, SumUnique
      <4>5. QED
        BY <4>1, <4>4
    <3>7. g[s] = h[Taken(s)] + V(t)
      BY <2>5, <3>1
    <3> HIDE DEF F, V, g
    <3>8. QED
      BY <2>0, <2>1, <2>3, <2>5, <3>1, <3>3, <3>6, <3>7
  <2>6. QED
    BY <2>4, <2>5
<1>8. ASSUME NEW s \in SUBSET S, s # {} PROVE V(s \ {Taken(s)}) = g[s \ {Taken(s)}]
  <2>1. s \ {Taken(s)} \in SUBSET S /\ s \ {Taken(s)} # S
    BY <1>8, TakenIn
  <2> HIDE DEF V, g
  <2>2. QED
    BY <1>7, <2>1
<1>9. IsSum(g, h, S)
  <2>1. g = [s \in SUBSET S |-> IF s = {} THEN 0 ELSE h[Taken(s)] + g[s \ {Taken(s)}]]
    <3> HIDE DEF V
    <3>1. \A s \in SUBSET S : s # {} => V(s \ {Taken(s)}) = g[s \ {Taken(s)}]
      BY <1>8
    <3>2. QED
      BY <3>1
  <2> HIDE DEF g
  <2>2. QED
    BY <2>1 DEF IsSum
<1>10. QED
  BY <1>3, <1>9

LEMMA SumIsInt ==
  ASSUME NEW S, IsFiniteSet(S), NEW h, \A x \in S : h[x] \in Int, NEW f, IsSum(f, h, S)
  PROVE  \A s \in SUBSET S : f[s] \in Int
<1> DEFINE Bad == {s \in SUBSET S : f[s] \notin Int}
<1> SUFFICES ASSUME Bad # {} PROVE FALSE
  OBVIOUS
<1>1. \A s \in Bad : IsFiniteSet(s)
  BY FS_Subset
<1>2. PICK s \in Bad : \A t \in Bad : ~ (\E x \in s : t = s \ {x})
  <2> HIDE DEF Bad
  <2>1. QED
    BY <1>1, HasSmallest
<1>3. f[s] = IF s = {} THEN 0 ELSE h[Taken(s)] + f[s \ {Taken(s)}]
  BY DEF IsSum
<1>4. s # {}
  BY <1>3
<1>5. Taken(s) \in S /\ s \ {Taken(s)} \notin Bad
  BY <1>2, <1>4, TakenIn
<1>6. f[s \ {Taken(s)}] \in Int /\ h[Taken(s)] \in Int
  BY <1>5
<1>7. f[s] \in Int
  BY <1>3, <1>4, <1>6
<1>8. QED
  BY <1>7

\* The sum does not depend on the order: any element may be taken first.
LEMMA SumTakes ==
  ASSUME NEW S, IsFiniteSet(S), NEW h, \A x \in S : h[x] \in Int, NEW f, IsSum(f, h, S)
  PROVE  \A s \in SUBSET S : \A y \in s : f[s] = h[y] + f[s \ {y}]
<1> DEFINE Bad == {s \in SUBSET S : ~ \A y \in s : f[s] = h[y] + f[s \ {y}]}
<1> SUFFICES ASSUME Bad # {} PROVE FALSE
  OBVIOUS
<1>1. \A s \in Bad : IsFiniteSet(s)
  BY FS_Subset
<1>2. PICK s \in Bad : \A t \in Bad : ~ (\E x \in s : t = s \ {x})
  <2> HIDE DEF Bad
  <2>1. QED
    BY <1>1, HasSmallest
<1>3. s \in SUBSET S /\ \A x \in s : \A y \in s \ {x} : f[s \ {x}] = h[y] + f[(s \ {x}) \ {y}]
  BY <1>2
<1>4. PICK y \in s : f[s] # h[y] + f[s \ {y}]
  BY <1>2
<1>5. f[s] = h[Taken(s)] + f[s \ {Taken(s)}]
  BY <1>3, <1>4 DEF IsSum
<1>6. PICK x \in s : x = Taken(s)
  BY <1>4, TakenIn
<1>7. y # x
  BY <1>4, <1>5, <1>6
<1>8. /\ f[s \ {x}] = h[y] + f[(s \ {x}) \ {y}]
      /\ f[s \ {y}] = h[x] + f[(s \ {y}) \ {x}]
  BY <1>3, <1>7
<1>9. PICK t : t = (s \ {x}) \ {y} /\ t = (s \ {y}) \ {x}
  OBVIOUS
<1>10. f[t] \in Int /\ h[x] \in Int /\ h[y] \in Int
  BY <1>3, <1>9, SumIsInt
<1>11. f[s] = h[x] + (h[y] + f[t])
  BY <1>5, <1>6, <1>8, <1>9
<1>12. f[s] = h[y] + (h[x] + f[t])
  BY <1>10, <1>11
<1>13. QED
  BY <1>4, <1>8, <1>9, <1>12

\* The sum of h over S.
Total(h, S) == MapThenSumSet(LAMBDA x : h[x], S)

LEMMA TotalIs ==
  ASSUME NEW h, NEW S, IsFiniteSet(S)
  PROVE  \E f : IsSum(f, h, S) /\ Total(h, S) = f[S]
<1> DEFINE g == CHOOSE f : f = [s \in SUBSET S |->
                     IF s = {} THEN 0
                     ELSE h[CHOOSE x \in s : TRUE] + f[s \ {CHOOSE x \in s : TRUE}]]
<1>1. \E f : IsSum(f, h, S)
  BY SumExists
<1>2. IsSum(g, h, S)
  BY <1>1 DEF IsSum, Taken
<1>3. Total(h, S) = g[S]
  BY DEF Total, MapThenSumSet, MapThenFoldSet
<1>4. QED
  BY <1>2, <1>3

LEMMA TotalTakes ==
  ASSUME NEW S, IsFiniteSet(S), NEW h, \A x \in S : h[x] \in Int
  PROVE  /\ Total(h, S) \in Int
         /\ Total(h, {}) = 0
         /\ \A y \in S : Total(h, S) = h[y] + Total(h, S \ {y})
<1>1. PICK f : IsSum(f, h, S) /\ Total(h, S) = f[S]
  BY TotalIs
<1>2. f[S] \in Int
  BY <1>1, SumIsInt
<1>3. Total(h, {}) = 0
  <2>1. IsFiniteSet({})
    BY FS_EmptySet
  <2>2. PICK g : IsSum(g, h, {}) /\ Total(h, {}) = g[{}]
    BY <2>1, TotalIs
  <2>3. QED
    BY <2>2 DEF IsSum
<1>4. ASSUME NEW y \in S PROVE Total(h, S) = h[y] + Total(h, S \ {y})
  <2>1. PICK T : T = S \ {y}
    OBVIOUS
  <2>2. IsFiniteSet(T) /\ T \in SUBSET (S \cap T)
    BY <2>1, FS_Subset
  <2>3. PICK g : IsSum(g, h, T) /\ Total(h, T) = g[T]
    BY <2>2, TotalIs
  <2>4. f[T] = g[T]
    BY <1>1, <2>2, <2>3, SumUnique
  <2>5. f[S] = h[y] + f[T]
    BY <1>1, <2>1, SumTakes
  <2>6. QED
    BY <1>1, <2>1, <2>3, <2>4, <2>5
<1>5. QED
  BY <1>1, <1>2, <1>3, <1>4

-----------------------------------------------------------------------------
(***************************************************************************)
(* Remainders                                                              *)
(***************************************************************************)
LEMMA DivMod == ASSUME NEW x \in Int, NEW M \in Nat \ {0}
 PROVE /\ x % M \in 0 .. M-1 /\ x \div M \in Int 
       /\ x = (M * (x \div M)) + (x % M)
OBVIOUS
LEMMA Times == ASSUME NEW M \in Nat \ {0}, NEW k \in Int
 PROVE M * k \in Int /\ (k >= 1 => M*k >= M) /\ (k <= -1 => M*k <= -M)
OBVIOUS
LEMMA ModShift == ASSUME NEW z \in Int, NEW q \in Int, NEW M \in Nat \ {0}
 PROVE (z + M * q) % M = z % M
<1>1. PICK q1 \in Int, r1 \in 0 .. M-1 : z % M = r1 /\ z = M*q1 + r1
  BY DivMod
<1>0. z + M*q \in Int
  OBVIOUS
<1>2. PICK q2 \in Int, r2 \in 0 .. M-1 : (z+M*q) % M = r2 /\ z + M*q = M*q2 + r2
  BY <1>0, DivMod
<1>3. PICK k \in Int : k = q1 + q - q2
  OBVIOUS
<1>4. M * k = r2 - r1
  <2>1. M * k = M*q1 + M*q - M*q2
    BY <1>3
  <2>2. M*q1 \in Int /\ M*q \in Int /\ M*q2 \in Int
    OBVIOUS
  <2>3. QED BY <1>1, <1>2, <2>1, <2>2
<1>5. k = 0
  BY <1>4, Times
<1>6. QED BY <1>1, <1>2, <1>4, <1>5

LEMMA ModAdd ==
  ASSUME NEW x \in Int, NEW y \in Int, NEW M \in Nat \ {0}
  PROVE  ((x % M) + y) % M = (x + y) % M
<1>1. PICK q \in Int, r \in 0 .. M - 1 : x % M = r /\ x = M * q + r
  BY DivMod
<1>2. r + y \in Int /\ M * q \in Int
  OBVIOUS
<1>3. ((r + y) + M * q) % M = (r + y) % M
  BY <1>2, ModShift
<1>4. (r + y) + M * q = x + y
  BY <1>1, <1>2
<1>5. QED
  BY <1>1, <1>3, <1>4

-----------------------------------------------------------------------------
(***************************************************************************)
(* Slices and what operations give                                         *)
(***************************************************************************)
Op == [op : {"copy"}, offset : Nat, length : Nat] \cup [op : {"insert"}, data : Seq(Int)]

Piece(base, op) ==
  IF op.op = "copy" THEN Slice(base, op.offset, op.length) ELSE op.data

LEMMA MinOfTwo ==
  ASSUME NEW m \in Int, NEW n \in Int
  PROVE  Min({m, n}) = IF m <= n THEN m ELSE n
<1>1. \E x \in {m, n} : \A y \in {m, n} : x =< y
  OBVIOUS
<1>2. PICK x : x = Min({m, n})
  OBVIOUS
<1>3. x \in {m, n} /\ \A y \in {m, n} : x =< y
  BY <1>1, <1>2 DEF Min
<1>4. QED
  BY <1>2, <1>3

LEMMA SliceIs ==
  ASSUME NEW data \in Seq(Int), NEW offset \in Nat, NEW length \in Nat
  PROVE  /\ Slice(data, offset, length) \in Seq(Int)
         /\ offset + length <= Len(data) =>
              /\ Slice(data, offset, length) = SubSeq(data, offset + 1, offset + length)
              /\ Len(Slice(data, offset, length)) = length
         /\ offset + length > Len(data) =>
              /\ Slice(data, offset, length) = SubSeq(data, offset + 1, Len(data))
              /\ Len(Slice(data, offset, length)) < length \/ length = 0
<1>1. Len(data) \in Nat
  OBVIOUS
<1>2. PICK n \in Nat : n = Min({offset + length, Len(data)})
  BY <1>1, MinOfTwo
<1>3. n = IF offset + length <= Len(data) THEN offset + length ELSE Len(data)
  BY <1>1, <1>2, MinOfTwo
<1>4. Slice(data, offset, length) = SubSeq(data, offset + 1, n)
  BY <1>2 DEF Slice
<1>5. \A i \in offset + 1 .. n : data[i] \in Int
  <2>1. ASSUME NEW i \in offset + 1 .. n PROVE i \in 1 .. Len(data)
    BY <1>1, <1>3
  <2>2. QED
    BY <2>1
<1>6. /\ SubSeq(data, offset + 1, n) \in Seq(Int)
      /\ Len(SubSeq(data, offset + 1, n)) = IF offset + 1 <= n THEN n - (offset + 1) + 1 ELSE 0
  BY <1>5, SubSeqProperties
<1>7. QED
  BY <1>1, <1>3, <1>4, <1>6

LEMMA PieceType ==
  ASSUME NEW base \in Seq(Int), NEW op \in Op
  PROVE  Piece(base, op) \in Seq(Int)
<1>1. CASE op \in [op : {"copy"}, offset : Nat, length : Nat]
  <2>1. op.op = "copy" /\ op.offset \in Nat /\ op.length \in Nat
    BY <1>1
  <2>2. QED
    BY <2>1, SliceIs DEF Piece
<1>2. CASE op \in [op : {"insert"}, data : Seq(Int)]
  BY <1>2 DEF Piece
<1>3. QED
  BY <1>1, <1>2 DEF Op

Pieces(base, ops) == [i \in DOMAIN ops |-> Piece(base, ops[i])]

\* An operation adds its piece to the result.
LEMMA ApplyAppend ==
  ASSUME NEW base \in Seq(Int), NEW ops \in Seq(Op), NEW op \in Op
  PROVE  /\ Append(ops, op) \in Seq(Op)
         /\ ApplyDelta(base, ops) \in Seq(Int)
         /\ ApplyDelta(base, Append(ops, op)) = ApplyDelta(base, ops) \o Piece(base, op)
<1>1. \A o \in Seq(Op) : ApplyDelta(base, o) = FlattenSeq(Pieces(base, o))
  BY DEF ApplyDelta, Pieces, Piece
<1>2. ASSUME NEW o \in Seq(Op) PROVE Pieces(base, o) \in Seq(Seq(Int)) /\ Len(Pieces(base, o)) = Len(o)
  <2>1. DOMAIN o = 1 .. Len(o) /\ Len(o) \in Nat
    OBVIOUS
  <2>2. \A i \in 1 .. Len(o) : Piece(base, o[i]) \in Seq(Int)
    BY PieceType
  <2>3. Pieces(base, o) \in [1 .. Len(o) -> Seq(Int)]
    BY <2>1, <2>2 DEF Pieces
  <2>4. QED
    BY <2>1, <2>3
<1>3. Piece(base, op) \in Seq(Int)
  BY PieceType
<1>4. PICK more : more = Append(ops, op)
  OBVIOUS
<1>5. /\ more \in Seq(Op) /\ Len(more) = Len(ops) + 1 /\ Len(ops) \in Nat /\ more[Len(ops) + 1] = op
      /\ \A i \in 1 .. Len(ops) : more[i] = ops[i]
  BY <1>4
<1>6. Pieces(base, more) = Append(Pieces(base, ops), Piece(base, op))
  <2>1. PICK ss \in Seq(Seq(Int)) : ss = Pieces(base, ops) /\ Len(ss) = Len(ops)
    BY <1>2
  <2>2. PICK tt \in Seq(Seq(Int)) : tt = Pieces(base, more) /\ Len(tt) = Len(more)
    BY <1>2, <1>5
  <2>3. PICK uu \in Seq(Seq(Int)) : uu = Append(ss, Piece(base, op))
    <3>1. Append(ss, Piece(base, op)) \in Seq(Seq(Int))
      BY <1>3, AppendProperties
    <3>2. QED
      BY <3>1
  <2>4. /\ Len(uu) = Len(ss) + 1 /\ uu[Len(ss) + 1] = Piece(base, op)
        /\ \A i \in 1 .. Len(ss) : uu[i] = ss[i]
    BY <1>3, <2>3
  <2>5. /\ \A i \in 1 .. Len(ops) : ss[i] = Piece(base, ops[i])
        /\ \A i \in 1 .. Len(more) : tt[i] = Piece(base, more[i])
    BY <1>5, <2>1, <2>2 DEF Pieces
  <2>6. \A i \in 1 .. Len(more) : tt[i] = uu[i]
    <3> SUFFICES ASSUME NEW i \in 1 .. Len(more) PROVE tt[i] = uu[i]
      OBVIOUS
    <3>1. CASE i = Len(ops) + 1
      BY <3>1, <1>5, <2>1, <2>4, <2>5
    <3>2. CASE i # Len(ops) + 1
      <4>1. i \in 1 .. Len(ops)
        BY <3>2, <1>5
      <4>2. QED
        BY <4>1, <1>5, <2>1, <2>4, <2>5
    <3>3. QED
      BY <3>1, <3>2
  <2>7. Len(tt) = Len(uu)
    BY <1>5, <2>1, <2>2, <2>4
  <2>8. tt = uu
    BY <1>5, <2>2, <2>6, <2>7, SeqEqual
  <2>9. QED
    BY <2>1, <2>2, <2>3, <2>8
<1>7. PICK ss \in Seq(Seq(Int)) : ss = Pieces(base, ops)
  BY <1>2
<1>8. /\ FlattenSeq(ss) \in Seq(Int)
      /\ FlattenSeq(Append(ss, Piece(base, op))) = FlattenSeq(ss) \o Piece(base, op)
  BY <1>3, FlattenAppend
<1>9. QED
  BY <1>1, <1>4, <1>5, <1>6, <1>7, <1>8

LEMMA ApplyType ==
  ASSUME NEW base \in Seq(Int), NEW ops \in Seq(Op)
  PROVE  ApplyDelta(base, ops) \in Seq(Int)
<1>1. InsertOp(<<>>) \in Op
  BY DEF InsertOp, Op
<1>2. QED
  BY <1>1, ApplyAppend

LEMMA ApplyNothing == \A base : ApplyDelta(base, <<>>) = <<>>
<1>1. FlattenSeq(<<>>) = <<>>
  BY DEF FlattenSeq
<1>2. \A base : [i \in DOMAIN <<>> |-> Piece(base, <<>>[i])] = <<>>
  OBVIOUS
<1>3. QED
  BY <1>1, <1>2 DEF ApplyDelta, Piece

-----------------------------------------------------------------------------
(***************************************************************************)
(* The checksum of a window and of the window a byte further on            *)
(***************************************************************************)
Weighted(w) == [i \in DOMAIN w |-> (Len(w) - i + 1) * w[i]]

LEMMA WeakIs ==
  ASSUME NEW w \in Seq(Int)
  PROVE  /\ WeakA(w) = Total(w, 1 .. Len(w)) % Mod
         /\ WeakB(w) = Total(Weighted(w), 1 .. Len(w)) % Mod
<1>1. DOMAIN w = 1 .. Len(w)
  OBVIOUS
<1>2. WeakA(w) = Total(w, 1 .. Len(w)) % Mod
  BY <1>1 DEF WeakA, Total
<1> DEFINE F(f) == [s \in SUBSET (DOMAIN w) |->
                      IF s = {} THEN 0
                      ELSE (Len(w) - Taken(s) + 1) * w[Taken(s)] + f[s \ {Taken(s)}]]
           G(f) == [s \in SUBSET (DOMAIN w) |->
                      IF s = {} THEN 0
                      ELSE Weighted(w)[Taken(s)] + f[s \ {Taken(s)}]]
<1>3. ASSUME NEW f PROVE F(f) = G(f)
  <2>1. ASSUME NEW s \in SUBSET (DOMAIN w), s # {}
        PROVE  (Len(w) - Taken(s) + 1) * w[Taken(s)] = Weighted(w)[Taken(s)]
    <3>1. Taken(s) \in DOMAIN w
      BY <2>1, TakenIn
    <3>2. QED
      BY <3>1 DEF Weighted
  <2>2. \A s \in SUBSET (DOMAIN w) :
          (IF s = {} THEN 0 ELSE (Len(w) - Taken(s) + 1) * w[Taken(s)] + f[s \ {Taken(s)}])
            = IF s = {} THEN 0 ELSE Weighted(w)[Taken(s)] + f[s \ {Taken(s)}]
    BY <2>1
  <2>3. QED
    BY <2>2
<1>4. (CHOOSE f : f = F(f)) = (CHOOSE f : f = G(f))
  <2>1. \A f : F(f) = G(f)
    BY <1>3
  <2> HIDE DEF F, G
  <2>2. QED
    BY <2>1
<1>5. MapThenSumSet(LAMBDA i : (Len(w) - i + 1) * w[i], DOMAIN w) = (CHOOSE f : f = F(f))[DOMAIN w]
  BY DEF MapThenSumSet, MapThenFoldSet, Taken
<1>6. Total(Weighted(w), DOMAIN w) = (CHOOSE f : f = G(f))[DOMAIN w]
  BY DEF Total, MapThenSumSet, MapThenFoldSet, Taken
<1> HIDE DEF F, G
<1>7. WeakB(w) = MapThenSumSet(LAMBDA i : (Len(w) - i + 1) * w[i], DOMAIN w) % Mod
  BY DEF WeakB
<1>8. QED
  BY <1>1, <1>2, <1>4, <1>5, <1>6, <1>7

LEMMA WeightedType ==
  ASSUME NEW w \in Seq(Int)
  PROVE  \A i \in 1 .. Len(w) : Weighted(w)[i] \in Int
<1> SUFFICES ASSUME NEW i \in 1 .. Len(w) PROVE Weighted(w)[i] \in Int
  OBVIOUS
<1>1. PICK d \in Int, x \in Int : d = Len(w) - i + 1 /\ x = w[i]
  <2>1. Len(w) - i + 1 \in Int /\ w[i] \in Int
    OBVIOUS
  <2>2. QED
    BY <2>1
<1>2. d * x \in Int
  OBVIOUS
<1>3. QED
  BY <1>1, <1>2 DEF Weighted

\* The sum over the numbers up to k.
UpTo(h, k) == Total(h, 1 .. k)

LEMMA UpToTakes ==
  ASSUME NEW n \in Nat, NEW h, \A i \in 1 .. n : h[i] \in Int, NEW k \in 0 .. n
  PROVE  /\ UpTo(h, k) \in Int
         /\ UpTo(h, 0) = 0
         /\ k # 0 => UpTo(h, k) = UpTo(h, k - 1) + h[k]
<1>1. IsFiniteSet(1 .. k) /\ \A i \in 1 .. k : h[i] \in Int
  BY FS_Interval
<1>2. 1 .. 0 = {}
  OBVIOUS
<1>3. UpTo(h, k) \in Int /\ UpTo(h, 0) = 0
  BY <1>1, <1>2, TotalTakes DEF UpTo
<1>4. ASSUME k # 0 PROVE UpTo(h, k) = UpTo(h, k - 1) + h[k]
  <2>1. (1 .. k) \ {k} = 1 .. k - 1 /\ k \in 1 .. k
    BY <1>4
  <2>2. Total(h, 1 .. k) = h[k] + Total(h, (1 .. k) \ {k})
    BY <1>1, <2>1, TotalTakes
  <2>3. IsFiniteSet(1 .. k - 1) /\ \A i \in 1 .. k - 1 : h[i] \in Int
    BY FS_Interval
  <2>4. Total(h, 1 .. k - 1) \in Int
    BY <2>3, TotalTakes
  <2>5. h[k] \in Int
    BY <1>1, <2>1
  <2>6. Total(h, 1 .. k) = h[k] + Total(h, 1 .. k - 1)
    BY <2>1, <2>2
  <2>7. PICK x \in Int, y \in Int : x = h[k] /\ y = Total(h, 1 .. k - 1)
    BY <2>4, <2>5
  <2>8. x + y = y + x
    OBVIOUS
  <2>9. QED
    BY <2>6, <2>7, <2>8 DEF UpTo
<1>5. QED
  BY <1>3, <1>4

\* w and v are the windows, n bytes long, at a position and at the next one.
LEMMA Shifted ==
  ASSUME NEW n \in Nat \ {0}, NEW w \in Seq(Int), NEW v \in Seq(Int), Len(w) = n, Len(v) = n,
         \A i \in 1 .. n - 1 : v[i] = w[i + 1]
  PROVE  \A k \in 0 .. n - 1 :
           /\ UpTo(v, k) = UpTo(w, k + 1) - w[1]
           /\ UpTo(Weighted(v), k) = UpTo(Weighted(w), k + 1) - n * w[1] + UpTo(w, k + 1) - w[1]
<1> DEFINE Good(k) ==
      /\ UpTo(v, k) = UpTo(w, k + 1) - w[1]
      /\ UpTo(Weighted(v), k) = UpTo(Weighted(w), k + 1) - n * w[1] + UpTo(w, k + 1) - w[1]
    Bad == {k \in 0 .. n - 1 : ~ Good(k)}
<1> SUFFICES ASSUME Bad # {} PROVE FALSE
  OBVIOUS
<1>1. PICK k \in Bad : \A m \in Bad : k <= m
  <2>1. Bad \in SUBSET Nat
    OBVIOUS
  <2> HIDE DEF Bad
  <2>2. QED
    BY <2>1, HasLeast
<1>2. k \in 0 .. n - 1 /\ ~ Good(k) /\ (k # 0 => Good(k - 1))
  <2>1. k # 0 => k - 1 \in 0 .. n - 1 /\ k - 1 \notin Bad
    BY <1>1
  <2> HIDE DEF Good
  <2>2. QED
    BY <1>1, <2>1
<1>3. /\ \A i \in 1 .. n : w[i] \in Int /\ v[i] \in Int
      /\ \A i \in 1 .. n : Weighted(w)[i] = (n - i + 1) * w[i] /\ Weighted(v)[i] = (n - i + 1) * v[i]
  BY DEF Weighted
<1>4. /\ \A i \in 1 .. n : Weighted(w)[i] \in Int
      /\ \A i \in 1 .. n : Weighted(v)[i] \in Int
  BY WeightedType
<1> n \in Nat
  OBVIOUS
<1>8. /\ UpTo(w, 0) = 0 /\ UpTo(Weighted(w), 0) = 0 /\ UpTo(v, 0) = 0 /\ UpTo(Weighted(v), 0) = 0
      /\ \A m \in 0 .. n : UpTo(w, m) \in Int /\ UpTo(Weighted(w), m) \in Int
      /\ \A m \in 0 .. n : UpTo(v, m) \in Int /\ UpTo(Weighted(v), m) \in Int
  <2>0. 0 \in 0 .. n
    OBVIOUS
  <2>1. UpTo(w, 0) = 0 /\ \A m \in 0 .. n : UpTo(w, m) \in Int
    BY <1>3, <2>0, UpToTakes
  <2>2. UpTo(v, 0) = 0 /\ \A m \in 0 .. n : UpTo(v, m) \in Int
    BY <1>3, <2>0, UpToTakes
  <2>3. UpTo(Weighted(w), 0) = 0 /\ \A m \in 0 .. n : UpTo(Weighted(w), m) \in Int
    BY <1>4, <2>0, UpToTakes
  <2>4. UpTo(Weighted(v), 0) = 0 /\ \A m \in 0 .. n : UpTo(Weighted(v), m) \in Int
    BY <1>4, <2>0, UpToTakes
  <2>5. QED
    BY <2>1, <2>2, <2>3, <2>4
<1>9. /\ \A m \in 1 .. n : UpTo(w, m) = UpTo(w, m - 1) + w[m]
      /\ \A m \in 1 .. n : UpTo(Weighted(w), m) = UpTo(Weighted(w), m - 1) + Weighted(w)[m]
      /\ \A m \in 1 .. n : UpTo(v, m) = UpTo(v, m - 1) + v[m]
      /\ \A m \in 1 .. n : UpTo(Weighted(v), m) = UpTo(Weighted(v), m - 1) + Weighted(v)[m]
  <2>0. \A m \in 1 .. n : m \in 0 .. n /\ m # 0
    OBVIOUS
  <2>1. \A m \in 1 .. n : UpTo(w, m) = UpTo(w, m - 1) + w[m]
    BY <1>3, <2>0, UpToTakes
  <2>2. \A m \in 1 .. n : UpTo(v, m) = UpTo(v, m - 1) + v[m]
    BY <1>3, <2>0, UpToTakes
  <2>3. \A m \in 1 .. n : UpTo(Weighted(w), m) = UpTo(Weighted(w), m - 1) + Weighted(w)[m]
    BY <1>4, <2>0, UpToTakes
  <2>4. \A m \in 1 .. n : UpTo(Weighted(v), m) = UpTo(Weighted(v), m - 1) + Weighted(v)[m]
    BY <1>4, <2>0, UpToTakes
  <2>5. QED
    BY <2>1, <2>2, <2>3, <2>4
<1>10. PICK heavy \in Int : heavy = n * w[1]
  <2>1. PICK x \in Int : x = w[1]
    BY <1>3
  <2>2. n * x \in Int
    OBVIOUS
  <2>3. QED
    BY <2>1, <2>2
<1>5. CASE k = 0
  <2>1. 1 \in 1 .. n /\ 1 \in 0 .. n /\ 0 \in 0 .. n /\ 1 - 1 = 0 /\ 0 + 1 = 1
    OBVIOUS
  <2>2. UpTo(w, 1) = w[1] /\ UpTo(Weighted(w), 1) = Weighted(w)[1]
    <3>1. UpTo(w, 1) = UpTo(w, 0) + w[1] /\ UpTo(Weighted(w), 1) = UpTo(Weighted(w), 0) + Weighted(w)[1]
      <4>1. UpTo(w, 1) = UpTo(w, 1 - 1) + w[1] /\ UpTo(Weighted(w), 1) = UpTo(Weighted(w), 1 - 1) + Weighted(w)[1]
        BY <1>9, <2>1
      <4>2. QED
        BY <2>1, <4>1
    <3>2. w[1] \in Int /\ Weighted(w)[1] \in Int
      BY <1>3, <1>4, <2>1
    <3>3. UpTo(w, 0) = 0 /\ UpTo(Weighted(w), 0) = 0
      BY <1>8
    <3>4. PICK x \in Int, y \in Int : x = w[1] /\ y = Weighted(w)[1]
      BY <3>2
    <3>5. 0 + x = x /\ 0 + y = y
      OBVIOUS
    <3>6. QED
      BY <3>1, <3>3, <3>4, <3>5
  <2>3. UpTo(v, 0) = 0 /\ UpTo(Weighted(v), 0) = 0
    BY <1>8, <2>1
  <2>4. Weighted(w)[1] = heavy /\ w[1] \in Int
    <3>1. Weighted(w)[1] = (n - 1 + 1) * w[1] /\ n - 1 + 1 = n
      BY <1>3, <2>1
    <3>2. QED
      BY <1>3, <1>10, <2>1, <3>1
  <2>5. Good(0)
    BY <1>10, <2>1, <2>2, <2>3, <2>4
  <2>6. QED
    BY <1>2, <1>5, <2>5
<1>6. CASE k # 0
  <2>1. k \in 1 .. n - 1 /\ k + 1 \in 1 .. n /\ k \in 1 .. n /\ k \in 0 .. n /\ k + 1 \in 0 .. n
        /\ (k + 1) - 1 = k /\ (k - 1) + 1 = k /\ k + 1 # 0
    BY <1>2, <1>6
  <2>2. /\ UpTo(w, k + 1) = UpTo(w, k) + w[k + 1]
        /\ UpTo(Weighted(w), k + 1) = UpTo(Weighted(w), k) + Weighted(w)[k + 1]
    BY <1>9, <2>1
  <2>3. /\ UpTo(v, k) = UpTo(v, k - 1) + v[k]
        /\ UpTo(Weighted(v), k) = UpTo(Weighted(v), k - 1) + Weighted(v)[k]
    BY <1>9, <2>1
  <2>4. v[k] = w[k + 1] /\ v[k] \in Int /\ w[k + 1] \in Int /\ w[1] \in Int
    <3>1. 1 \in 1 .. n
      OBVIOUS
    <3>2. QED
      BY <1>3, <2>1, <3>1
  <2>5. Weighted(v)[k] = Weighted(w)[k + 1] + w[k + 1]
    <3>1. Weighted(v)[k] = (n - k + 1) * v[k] /\ Weighted(w)[k + 1] = (n - (k + 1) + 1) * w[k + 1]
      BY <1>3, <2>1
    <3>2. n - (k + 1) + 1 = n - k /\ n - k \in Int
      BY <2>1
    <3>3. PICK d \in Int, y \in Int : d = n - k /\ y = w[k + 1]
      BY <2>4, <3>2
    <3>4. (d + 1) * y = (d * y) + y
      OBVIOUS
    <3>5. QED
      BY <2>4, <3>1, <3>2, <3>3, <3>4
  <2>6. /\ UpTo(w, k) \in Int /\ UpTo(v, k - 1) \in Int /\ UpTo(Weighted(w), k) \in Int
        /\ UpTo(Weighted(v), k - 1) \in Int /\ Weighted(w)[k + 1] \in Int
    <3>1. k - 1 \in 0 .. n
      BY <2>1
    <3>2. QED
      BY <1>4, <1>8, <2>1, <3>1
  <2>7. /\ UpTo(v, k - 1) = UpTo(w, k) - w[1]
        /\ UpTo(Weighted(v), k - 1) = UpTo(Weighted(w), k) - n * w[1] + UpTo(w, k) - w[1]
    BY <1>2, <1>6, <2>1
  <2>8. Good(k)
    <3>1. PICK x \in Int, y \in Int, z \in Int : x = w[1] /\ y = w[k + 1] /\ z = Weighted(w)[k + 1]
      BY <2>4, <2>6
    <3>2. PICK A \in Int, B \in Int, C \in Int, D \in Int :
            A = UpTo(w, k) /\ B = UpTo(Weighted(w), k) /\ C = UpTo(v, k - 1) /\ D = UpTo(Weighted(v), k - 1)
      BY <2>6
    <3>3. UpTo(w, k + 1) = A + y /\ UpTo(Weighted(w), k + 1) = B + z
      BY <2>2, <3>1, <3>2
    <3>4. UpTo(v, k) = C + y /\ UpTo(Weighted(v), k) = D + (z + y)
      BY <2>3, <2>4, <2>5, <3>1, <3>2
    <3>5. C = A - x /\ D = B - heavy + A - x
      BY <1>10, <2>7, <3>1, <3>2
    <3>6. C + y = (A + y) - x /\ D + (z + y) = (B + z) - heavy + (A + y) - x
      BY <3>5
    <3>7. QED
      BY <1>10, <3>1, <3>3, <3>4, <3>6
  <2>9. QED
    BY <1>2, <2>8
<1>7. QED
  BY <1>5, <1>6

\* The two updates of the loop: what they make of the sums of a window are
\* the sums of the next one, taken from scratch.
LEMMA Rolled ==
  ASSUME NEW n \in Nat \ {0}, NEW w \in Seq(Int), NEW v \in Seq(Int), Len(w) = n, Len(v) = n,
         \A i \in 1 .. n - 1 : v[i] = w[i + 1]
  PROVE  /\ WeakA(v) = (WeakA(w) - w[1] + v[n]) % Mod
         /\ WeakB(v) = (WeakB(w) - n * w[1] + WeakA(v)) % Mod
<1>1. /\ \A i \in 1 .. n : w[i] \in Int /\ v[i] \in Int
      /\ \A i \in 1 .. n : Weighted(w)[i] \in Int
      /\ \A i \in 1 .. n : Weighted(v)[i] \in Int
  BY WeightedType
<1> n \in Nat
  OBVIOUS
<1>14. Weighted(v)[n] = v[n]
  <2>1. n \in 1 .. n /\ n - n + 1 = 1
    OBVIOUS
  <2>2. Weighted(v)[n] = 1 * v[n]
    BY <2>1 DEF Weighted
  <2>3. QED
    BY <1>1, <2>1, <2>2
<1>2. n \in 0 .. n /\ n # 0 /\ n - 1 \in 0 .. n - 1 /\ n - 1 \in 0 .. n /\ (n - 1) + 1 = n
      /\ 1 \in 1 .. n /\ n \in 1 .. n
  OBVIOUS
<1>3. PICK A \in Int, B \in Int, C \in Int, D \in Int :
        A = UpTo(w, n) /\ B = UpTo(Weighted(w), n) /\ C = UpTo(v, n) /\ D = UpTo(Weighted(v), n)
  <2>1. UpTo(w, n) \in Int /\ UpTo(v, n) \in Int
    BY <1>1, <1>2, UpToTakes
  <2>2. UpTo(Weighted(w), n) \in Int
    BY <1>1, <1>2, UpToTakes
  <2>3. UpTo(Weighted(v), n) \in Int
    BY <1>1, <1>2, UpToTakes
  <2>4. QED
    BY <2>1, <2>2, <2>3
<1>4. PICK c \in Int, d \in Int : c = UpTo(v, n - 1) /\ d = UpTo(Weighted(v), n - 1)
  <2>1. UpTo(v, n - 1) \in Int
    BY <1>1, <1>2, UpToTakes
  <2>2. UpTo(Weighted(v), n - 1) \in Int
    BY <1>1, <1>2, UpToTakes
  <2>3. QED
    BY <2>1, <2>2
<1>5. C = c + v[n] /\ D = d + v[n]
  <2>1. n \in Nat
    OBVIOUS
  <2>2. \A i \in 1 .. n : v[i] \in Int
    BY <1>1
  <2>3. \A i \in 1 .. n : Weighted(v)[i] \in Int
    BY <1>1
  <2>4. UpTo(v, n) = UpTo(v, n - 1) + v[n]
    BY <1>2, <2>1, <2>2, UpToTakes
  <2>5. UpTo(Weighted(v), n) = UpTo(Weighted(v), n - 1) + Weighted(v)[n]
    BY <1>2, <2>1, <2>3, UpToTakes
  <2>6. QED
    BY <1>3, <1>4, <1>14, <2>4, <2>5
<1>6. c = A - w[1] /\ d = B - n * w[1] + A - w[1]
  <2>1. \A k \in 0 .. n - 1 :
          /\ UpTo(v, k) = UpTo(w, k + 1) - w[1]
          /\ UpTo(Weighted(v), k) = UpTo(Weighted(w), k + 1) - n * w[1] + UpTo(w, k + 1) - w[1]
    BY Shifted
  <2>2. QED
    BY <1>2, <1>3, <1>4, <2>1
<1>7. PICK out \in Int, in \in Int, heavy \in Int : out = w[1] /\ in = v[n] /\ heavy = n * w[1]
  <2>1. PICK x \in Int : x = w[1]
    BY <1>1, <1>2
  <2>2. n * x \in Int
    OBVIOUS
  <2>3. QED
    BY <1>1, <1>2, <2>1, <2>2
<1>8. C = A - out + in /\ D = B - heavy + C
  <2>1. C = c + in /\ D = d + in /\ c = A - out /\ d = B - heavy + A - out
    BY <1>5, <1>6, <1>7
  <2>2. QED
    BY <2>1
<1>9. /\ WeakA(w) = A % Mod /\ WeakB(w) = B % Mod /\ WeakA(v) = C % Mod /\ WeakB(v) = D % Mod
  BY <1>3, WeakIs DEF UpTo
<1>10. Mod \in Nat \ {0}
  BY CodecAssumption
<1>11. C % Mod = ((A % Mod) - out + in) % Mod
  <2>1. PICK y \in Int : y = in - out
    OBVIOUS
  <2>2. ((A % Mod) + y) % Mod = (A + y) % Mod
    BY <1>10, ModAdd
  <2>3. A % Mod \in Int
    BY <1>10, DivMod
  <2>4. (A % Mod) + y = (A % Mod) - out + in /\ A + y = C
    BY <1>8, <2>1, <2>3
  <2>5. QED
    BY <2>2, <2>4
<1>12. D % Mod = ((B % Mod) - heavy + (C % Mod)) % Mod
  <2>1. B % Mod \in Int /\ C % Mod \in Int
    BY <1>10, DivMod
  <2>2. PICK r, q : r \in Int /\ q \in Int /\ r = B % Mod /\ q = C % Mod
    BY <2>1
  <2>3. PICK y, z : y \in Int /\ z \in Int /\ y = C - heavy /\ z = r - heavy
    BY <2>2
  <2>4. ((B % Mod) + y) % Mod = (B + y) % Mod
    BY <1>10, <2>3, ModAdd
  <2>5. ((C % Mod) + z) % Mod = (C + z) % Mod
    BY <1>10, <2>3, ModAdd
  <2>6. r + y = C + z /\ q + z = r - heavy + q /\ B + y = D
    BY <1>8, <2>2, <2>3
  <2>7. QED
    BY <2>2, <2>4, <2>5, <2>6
<1>13. QED
  BY <1>7, <1>9, <1>11, <1>12

-----------------------------------------------------------------------------
(***************************************************************************)
(* The scan                                                                *)
(***************************************************************************)
\* Only a whole window is rolled on, and a scan that is done is at the end.
ScanRecord == [at : {"fresh", "roll", "flush", "done"}, base : Seq(Int), target : Seq(Int),
               pos : Nat, a : Int, b : Int, lit : Seq(Int), ops : Seq(Op)]

ScanTypeOK ==
  /\ scan \in ScanRecord
  /\ scan.pos <= Len(scan.target)
  /\ scan.at = "roll" => scan.pos + BlockSize <= Len(scan.target)
  /\ scan.at \in {"flush", "done"} => scan.pos = Len(scan.target)
  /\ scan.at = "done" => scan.lit = <<>>

ScanInv == ScanTypeOK /\ ScanExact

LEMMA WindowIs ==
  ASSUME ScanTypeOK
  PROVE  /\ Window \in Seq(Int)
         /\ scan.pos + BlockSize <= Len(scan.target) =>
              /\ Window = SubSeq(scan.target, scan.pos + 1, scan.pos + BlockSize)
              /\ Len(Window) = BlockSize
         /\ scan.pos + BlockSize > Len(scan.target) =>
              /\ Window = SubSeq(scan.target, scan.pos + 1, Len(scan.target))
              /\ Len(Window) < BlockSize
<1>1. scan.target \in Seq(Int) /\ scan.pos \in Nat /\ BlockSize \in Nat /\ BlockSize # 0
  BY CodecAssumption DEF ScanTypeOK, ScanRecord
<1>2. QED
  BY <1>1, SliceIs DEF Window

\* The target so far, then what follows it.
LEMMA Further ==
  ASSUME NEW data \in Seq(Int), NEW m \in Nat, NEW n \in Nat, m <= n, n <= Len(data)
  PROVE  SubSeq(data, 1, m) \o SubSeq(data, m + 1, n) = SubSeq(data, 1, n)
<1>1. 1 \in 1 .. Len(data) + 1 /\ m \in 1 - 1 .. Len(data) /\ n \in m .. Len(data)
  OBVIOUS
<1>2. QED
  BY <1>1, ConcatAdjacentSubSeq

LEMMA InitScan == scan = NoScan => ScanInv
<1> SUFFICES ASSUME scan = NoScan PROVE ScanInv
  OBVIOUS
<1>1. <<>> \in Seq(Int) /\ <<>> \in Seq(Op) /\ Len(<<>>) = 0
  OBVIOUS
<1>2. ScanTypeOK
  BY <1>1 DEF NoScan, ScanTypeOK, ScanRecord
<1>3. ApplyDelta(scan.base, scan.ops) = <<>>
  BY ApplyNothing DEF NoScan
<1>4. <<>> \o <<>> = SubSeq(<<>>, 1, 0)
  OBVIOUS
<1>5. ScanExact
  BY <1>3, <1>4 DEF ScanExact, NoScan
<1>6. QED
  BY <1>2, <1>5 DEF ScanInv

LEMMA StartInv ==
  ASSUME NEW base \in Seq(Int), NEW target \in Seq(Int), StartScan(base, target)
  PROVE  ScanInv'
<1>1. <<>> \in Seq(Int) /\ <<>> \in Seq(Op) /\ Len(<<>>) = 0 /\ Len(target) \in Nat
  OBVIOUS
<1>2. ApplyDelta(scan'.base, <<>>) = <<>>
  BY ApplyNothing
<1>3. CASE base = <<>>
  <2>1. scan' = [at |-> "flush", base |-> <<>>, target |-> target, pos |-> Len(target),
                 a |-> 0, b |-> 0, lit |-> target, ops |-> <<>>]
    BY <1>3 DEF StartScan, NoScan
  <2>2. ScanTypeOK'
    BY <1>1, <2>1 DEF ScanTypeOK, ScanRecord
  <2>3. <<>> \o target = SubSeq(target, 1, Len(target))
    BY ConcatEmptySeq, SubSeqFull
  <2>4. ScanExact'
    BY <1>2, <2>1, <2>3 DEF ScanExact
  <2>5. QED
    BY <2>2, <2>4 DEF ScanInv
<1>4. CASE base # <<>>
  <2>1. scan' = [at |-> "fresh", base |-> base, target |-> target, pos |-> 0,
                 a |-> 0, b |-> 0, lit |-> <<>>, ops |-> <<>>]
    BY <1>4 DEF StartScan, NoScan
  <2>2. ScanTypeOK'
    BY <1>1, <2>1 DEF ScanTypeOK, ScanRecord
  <2>3. <<>> \o <<>> = SubSeq(target, 1, 0)
    BY SubSeqEmpty
  <2>4. ScanExact'
    BY <1>2, <2>1, <2>3 DEF ScanExact
  <2>5. QED
    BY <2>2, <2>4 DEF ScanInv
<1>5. QED
  BY <1>3, <1>4

LEMMA FlushedIs ==
  ASSUME ScanTypeOK
  PROVE  /\ Flushed \in Seq(Op)
         /\ ApplyDelta(scan.base, Flushed) = ApplyDelta(scan.base, scan.ops) \o scan.lit
<1>1. scan.base \in Seq(Int) /\ scan.ops \in Seq(Op) /\ scan.lit \in Seq(Int)
  BY DEF ScanTypeOK, ScanRecord
<1>2. CASE scan.lit = <<>>
  <2>1. ApplyDelta(scan.base, scan.ops) \in Seq(Int)
    BY <1>1, ApplyType
  <2>2. QED
    BY <1>1, <1>2, <2>1, ConcatEmptySeq DEF Flushed
<1>3. CASE scan.lit # <<>>
  <2>1. PICK op \in Op : op = InsertOp(scan.lit)
    BY <1>1 DEF InsertOp, Op
  <2>2. Piece(scan.base, op) = scan.lit
    BY <2>1 DEF InsertOp, Piece
  <2>3. QED
    BY <1>1, <1>3, <2>1, <2>2, ApplyAppend DEF Flushed
<1>4. QED
  BY <1>2, <1>3

LEMMA WeakType ==
  ASSUME NEW w \in Seq(Int)
  PROVE  WeakA(w) \in Int /\ WeakB(w) \in Int
<1>1. Len(w) \in Nat /\ Mod \in Nat \ {0}
  BY CodecAssumption
<1>2. Total(w, 1 .. Len(w)) \in Int
  <2>1. \A i \in 1 .. Len(w) : w[i] \in Int
    OBVIOUS
  <2>2. Len(w) \in 0 .. Len(w)
    BY <1>1
  <2>3. QED
    BY <1>1, <2>1, <2>2, UpToTakes DEF UpTo
<1>3. Total(Weighted(w), 1 .. Len(w)) \in Int
  <2>1. Len(w) \in 0 .. Len(w)
    BY <1>1
  <2>2. QED
    BY <1>1, <2>1, WeightedType, UpToTakes DEF UpTo
<1>4. PICK x \in Int, y \in Int : x = Total(w, 1 .. Len(w)) /\ y = Total(Weighted(w), 1 .. Len(w))
  BY <1>2, <1>3
<1>5. x % Mod \in Int /\ y % Mod \in Int
  BY <1>1, DivMod
<1>6. QED
  BY <1>4, <1>5, WeakIs

LEMMA FieldTypes ==
  ASSUME ScanTypeOK
  PROVE  /\ scan.base \in Seq(Int) /\ scan.target \in Seq(Int) /\ scan.ops \in Seq(Op)
         /\ scan.lit \in Seq(Int) /\ scan.pos \in Nat /\ scan.pos <= Len(scan.target)
         /\ scan.a \in Int /\ scan.b \in Int
         /\ Len(scan.target) \in Nat /\ BlockSize \in Nat \ {0}
         /\ ApplyDelta(scan.base, scan.ops) \in Seq(Int)
<1>1. /\ scan.base \in Seq(Int) /\ scan.target \in Seq(Int) /\ scan.ops \in Seq(Op)
      /\ scan.lit \in Seq(Int) /\ scan.pos \in Nat /\ scan.pos <= Len(scan.target)
      /\ scan.a \in Int /\ scan.b \in Int
  BY DEF ScanTypeOK, ScanRecord
<1>2. ApplyDelta(scan.base, scan.ops) \in Seq(Int)
  BY <1>1, ApplyType
<1>3. QED
  BY <1>1, <1>2, CodecAssumption

LEMMA Assoc ==
  ASSUME NEW r \in Seq(Int), NEW l \in Seq(Int), NEW m \in Seq(Int)
  PROVE  (r \o l) \o m = r \o (l \o m)
OBVIOUS

LEMMA Single ==
  ASSUME NEW s \in Seq(Int), Len(s) = 1
  PROVE  s = <<s[1]>>
OBVIOUS

LEMMA PartType ==
  ASSUME NEW T \in Seq(Int), NEW m \in Nat, NEW n \in Nat, m <= n, n <= Len(T)
  PROVE  SubSeq(T, m + 1, n) \in Seq(Int)
<1>1. \A i \in m + 1 .. n : T[i] \in Int
  <2>1. \A i \in m + 1 .. n : i \in 1 .. Len(T)
    OBVIOUS
  <2>2. QED
    BY <2>1
<1>2. m + 1 \in Int /\ n \in Int
  OBVIOUS
<1>3. QED
  BY <1>1, <1>2, SubSeqProperties

\* Literals added to a scan are what follows in the target.
Reaches(T, result, lit, m) == result \o lit = SubSeq(T, 1, m)

LEMMA HeldBack ==
  ASSUME NEW T \in Seq(Int), NEW result \in Seq(Int), NEW lit \in Seq(Int),
         NEW m \in Nat, NEW n \in Nat, m <= n, n <= Len(T), Reaches(T, result, lit, m)
  PROVE  result \o (lit \o SubSeq(T, m + 1, n)) = SubSeq(T, 1, n)
<1>1. SubSeq(T, m + 1, n) \in Seq(Int)
  BY PartType
<1>2. (result \o lit) \o SubSeq(T, m + 1, n) = SubSeq(T, 1, n)
  <2>1. result \o lit = SubSeq(T, 1, m)
    BY DEF Reaches
  <2>2. SubSeq(T, 1, m) \o SubSeq(T, m + 1, n) = SubSeq(T, 1, n)
    BY Further
  <2>3. QED
    BY <2>1, <2>2
<1>3. \A more \in Seq(Int) : (result \o lit) \o more = result \o (lit \o more)
  BY Assoc
<1>4. QED
  BY <1>1, <1>2, <1>3, Zenon

LEMMA LongerType ==
  ASSUME NEW T \in Seq(Int), NEW lit \in Seq(Int), NEW m \in Nat, NEW n \in Nat,
         m <= n, n <= Len(T)
  PROVE  lit \o SubSeq(T, m + 1, n) \in Seq(Int)
<1>1. SubSeq(T, m + 1, n) \in Seq(Int)
  BY PartType
<1>2. QED
  BY <1>1, ConcatProperties

LEMMA FreshInv == ScanInv /\ Fresh => ScanInv'
<1> SUFFICES ASSUME ScanInv, Fresh PROVE ScanInv'
  OBVIOUS
<1>0. PICK T \in Seq(Int), result \in Seq(Int), lit \in Seq(Int), m \in Nat, n \in Nat :
        /\ T = scan.target /\ result = ApplyDelta(scan.base, scan.ops) /\ lit = scan.lit
        /\ m = scan.pos /\ n = Len(T) /\ m <= n /\ result \o lit = SubSeq(T, 1, m)
  BY FieldTypes DEF ScanInv, ScanExact
<1>1. CASE Len(Window) < BlockSize
  <2>1. Window = SubSeq(T, m + 1, n)
    BY <1>0, <1>1, WindowIs, FieldTypes DEF ScanInv
  <2>2. /\ lit \o Window \in Seq(Int)
        /\ result \o (lit \o Window) = SubSeq(T, 1, n)
    <3>1. n <= Len(T) /\ m <= n /\ Reaches(T, result, lit, m)
      BY <1>0 DEF Reaches
    <3>2. lit \o SubSeq(T, m + 1, n) \in Seq(Int)
      BY <3>1, LongerType
    <3>3. result \o (lit \o SubSeq(T, m + 1, n)) = SubSeq(T, 1, n)
      BY <3>1, HeldBack
    <3>4. QED
      BY <2>1, <3>2, <3>3, Zenon
  <2>3. scan' = [scan EXCEPT !.lit = lit \o Window, !.pos = n, !.at = "flush"]
    BY <1>0, <1>1 DEF Fresh
  <2>4. /\ scan'.base = scan.base /\ scan'.target = T /\ scan'.ops = scan.ops
        /\ scan'.lit = lit \o Window /\ scan'.pos = n /\ scan'.at = "flush"
    BY <1>0, <2>3 DEF ScanInv, ScanTypeOK, ScanRecord
  <2>5. scan' \in ScanRecord
    BY <1>0, <2>2, <2>3 DEF ScanInv, ScanTypeOK, ScanRecord
  <2>6. ScanTypeOK'
    BY <1>0, <2>4, <2>5 DEF ScanTypeOK
  <2>7. ScanExact'
    BY <1>0, <2>2, <2>4 DEF ScanExact
  <2>8. QED
    BY <2>6, <2>7 DEF ScanInv
<1>2. CASE ~ (Len(Window) < BlockSize)
  <2>1. m + BlockSize <= n
    BY <1>0, <1>2, WindowIs, FieldTypes DEF ScanInv
  <2>2. PICK a \in Int, b \in Int : a = WeakA(Window) /\ b = WeakB(Window)
    BY WindowIs, WeakType DEF ScanInv
  <2>3. scan' = [scan EXCEPT !.a = a, !.b = b, !.at = "roll"]
    BY <1>2, <2>2 DEF Fresh
  <2>4. /\ scan'.base = scan.base /\ scan'.target = T /\ scan'.ops = scan.ops
        /\ scan'.lit = lit /\ scan'.pos = m /\ scan'.at = "roll"
    BY <1>0, <2>3 DEF ScanInv, ScanTypeOK, ScanRecord
  <2>5. scan' \in ScanRecord
    BY <2>3 DEF ScanInv, ScanTypeOK, ScanRecord
  <2>6. ScanTypeOK'
    BY <1>0, <2>1, <2>4, <2>5 DEF ScanTypeOK
  <2>7. ScanExact'
    BY <1>0, <2>4 DEF ScanExact
  <2>8. QED
    BY <2>6, <2>7 DEF ScanInv
<1>3. QED
  BY <1>1, <1>2

\* The block that is copied is the window.
LEMMA FirstMatch ==
  ASSUME ScanTypeOK, Matching # {}
  PROVE  /\ Min(Matching) \in Offsets(scan.base) /\ Min(Matching) \in Nat
         /\ Slice(scan.base, Min(Matching), BlockSize) = Window
<1>1. Matching \in SUBSET Nat
  BY DEF Matching, Offsets
<1>2. \E o \in Matching : \A q \in Matching : o <= q
  <2>1. PICK S : S = Matching
    OBVIOUS
  <2>2. \E o \in S : \A q \in S : o <= q
    BY <1>1, <2>1, HasLeast
  <2>3. QED
    BY <2>1, <2>2
<1>3. Min(Matching) \in Matching
  BY <1>2 DEF Min
<1>4. QED
  BY <1>1, <1>3 DEF Matching

LEMMA CopyInv == ScanInv /\ Copy => ScanInv'
<1> SUFFICES ASSUME ScanInv, Copy PROVE ScanInv'
  OBVIOUS
<1>0. PICK B \in Seq(Int), T \in Seq(Int), result \in Seq(Int), lit \in Seq(Int),
           m \in Nat, n \in Nat, ops \in Seq(Op) :
        /\ B = scan.base /\ T = scan.target /\ result = ApplyDelta(scan.base, scan.ops)
        /\ lit = scan.lit /\ m = scan.pos /\ n = m + BlockSize /\ ops = Flushed
        /\ n <= Len(T) /\ result \o lit = SubSeq(T, 1, m)
        /\ ApplyDelta(B, ops) = result \o lit
  <2>1. scan.at = "roll"
    BY DEF Copy
  <2>2. scan.pos + BlockSize \in Nat /\ scan.pos + BlockSize <= Len(scan.target)
    BY <2>1, FieldTypes DEF ScanInv, ScanTypeOK
  <2>3. QED
    BY <2>2, FieldTypes, FlushedIs DEF ScanInv, ScanExact
<1>1. PICK op \in Op : op = CopyOp(Min(Matching), BlockSize)
  BY FirstMatch, FieldTypes DEF Copy, ScanInv, CopyOp, Op
<1>2. Piece(B, op) = SubSeq(T, m + 1, n)
  <2>1. Piece(B, op) = Slice(B, Min(Matching), BlockSize)
    BY <1>1 DEF CopyOp, Piece
  <2>2. Slice(B, Min(Matching), BlockSize) = Window
    BY <1>0, FirstMatch DEF Copy, ScanInv
  <2>3. Window = SubSeq(T, m + 1, n)
    BY <1>0, WindowIs DEF ScanInv
  <2>4. QED
    BY <2>1, <2>2, <2>3
<1>3. /\ Append(ops, op) \in Seq(Op)
      /\ ApplyDelta(B, Append(ops, op)) = ApplyDelta(B, ops) \o Piece(B, op)
  BY <1>0, ApplyAppend
<1>4. (result \o lit) \o Piece(B, op) = SubSeq(T, 1, n)
  <2>1. m <= n /\ n <= Len(T) /\ Reaches(T, result, lit, m)
    BY <1>0, FieldTypes DEF ScanInv, Reaches
  <2>2. SubSeq(T, 1, m) \o SubSeq(T, m + 1, n) = SubSeq(T, 1, n)
    BY <2>1, Further
  <2>3. result \o lit = SubSeq(T, 1, m)
    BY <1>0
  <2>4. QED
    BY <1>2, <2>2, <2>3, Zenon
<1>5. scan' = [scan EXCEPT !.ops = Append(ops, op), !.lit = <<>>, !.pos = n, !.at = "fresh"]
  BY <1>0, <1>1 DEF Copy
<1>6. /\ scan'.base = B /\ scan'.target = T /\ scan'.ops = Append(ops, op)
      /\ scan'.lit = <<>> /\ scan'.pos = n /\ scan'.at = "fresh"
  BY <1>0, <1>5 DEF ScanInv, ScanTypeOK, ScanRecord
<1>7. scan' \in ScanRecord
  <2>1. <<>> \in Seq(Int)
    OBVIOUS
  <2>2. QED
    BY <1>0, <1>3, <1>5, <2>1 DEF ScanInv, ScanTypeOK, ScanRecord
<1>8. ScanTypeOK'
  BY <1>0, <1>6, <1>7 DEF ScanTypeOK
<1>9. ScanExact'
  <2>1. PICK made : made = ApplyDelta(B, Append(ops, op)) /\ made \in Seq(Int) /\ made = SubSeq(T, 1, n)
    BY <1>0, <1>3, <1>4, ApplyType
  <2>2. made \o <<>> = made
    BY <2>1, ConcatEmptySeq
  <2>3. QED
    BY <1>6, <2>1, <2>2 DEF ScanExact
<1>10. QED
  BY <1>8, <1>9 DEF ScanInv

LEMMA SlideInv == ScanInv /\ Slide => ScanInv'
<1> SUFFICES ASSUME ScanInv, Slide PROVE ScanInv'
  OBVIOUS
<1>0. PICK T \in Seq(Int), result \in Seq(Int), lit \in Seq(Int), m \in Nat, n \in Nat :
        /\ T = scan.target /\ result = ApplyDelta(scan.base, scan.ops) /\ lit = scan.lit
        /\ m = scan.pos /\ n = m + 1 /\ n <= Len(T) /\ result \o lit = SubSeq(T, 1, m)
        /\ m + BlockSize <= Len(T)
  <2>1. scan.at = "roll"
    BY DEF Slide
  <2>2. scan.pos + BlockSize <= Len(scan.target) /\ scan.pos + 1 \in Nat /\ scan.pos + 1 <= Len(scan.target)
    BY <2>1, FieldTypes DEF ScanInv, ScanTypeOK
  <2>3. QED
    BY <2>2, FieldTypes DEF ScanInv, ScanExact
<1>1. PICK out \in Int : out = T[m + 1]
  <2>1. m + 1 \in 1 .. Len(T)
    BY <1>0
  <2>2. QED
    BY <1>0, <2>1
<1>2. PICK longer : longer = Append(lit, out)
  OBVIOUS
<1>3. longer = lit \o SubSeq(T, m + 1, n)
  <2>1. SubSeq(T, m + 1, n) = <<out>>
    <3>1. \A i \in m + 1 .. n : T[i] \in Int
      BY <1>0, <1>1
    <3>2. m + 1 \in Int /\ n \in Int /\ n = m + 1
      BY <1>0
    <3>3. /\ SubSeq(T, m + 1, n) \in Seq(Int) /\ Len(SubSeq(T, m + 1, n)) = 1
          /\ SubSeq(T, m + 1, n)[1] = out
      BY <1>1, <3>1, <3>2, SubSeqProperties
    <3>4. QED
      BY <3>3, Single
  <2>2. Append(lit, out) = lit \o <<out>>
    BY <1>0, AppendIsConcat
  <2>3. QED
    BY <1>2, <2>1, <2>2
<1>4. longer \in Seq(Int) /\ result \o longer = SubSeq(T, 1, n)
  <2>1. m <= n /\ n <= Len(T) /\ Reaches(T, result, lit, m)
    BY <1>0 DEF Reaches
  <2>2. lit \o SubSeq(T, m + 1, n) \in Seq(Int)
    BY <2>1, LongerType
  <2>3. result \o (lit \o SubSeq(T, m + 1, n)) = SubSeq(T, 1, n)
    BY <2>1, HeldBack
  <2>4. QED
    BY <1>3, <2>2, <2>3, Zenon
<1>5. CASE m + 1 + BlockSize > Len(T)
  <2>1. scan' = [scan EXCEPT !.lit = longer, !.pos = n, !.at = "fresh"]
    BY <1>0, <1>1, <1>2, <1>5 DEF Slide
  <2>2. /\ scan'.base = scan.base /\ scan'.target = T /\ scan'.ops = scan.ops
        /\ scan'.lit = longer /\ scan'.pos = n /\ scan'.at = "fresh"
    BY <1>0, <2>1 DEF ScanInv, ScanTypeOK, ScanRecord
  <2>3. scan' \in ScanRecord
    BY <1>0, <1>4, <2>1 DEF ScanInv, ScanTypeOK, ScanRecord
  <2>4. ScanTypeOK'
    BY <1>0, <2>2, <2>3 DEF ScanTypeOK
  <2>5. ScanExact'
    BY <1>0, <1>4, <2>2 DEF ScanExact
  <2>6. QED
    BY <2>4, <2>5 DEF ScanInv
<1>6. CASE ~ (m + 1 + BlockSize > Len(T))
  <2>0. PICK a, b :
          /\ a = (scan.a - out + T[m + 1 + BlockSize]) % Mod
          /\ b = (scan.b - BlockSize * out + a) % Mod
    OBVIOUS
  <2>1. a \in Int /\ b \in Int
    <3>0. BlockSize \in Nat /\ Len(T) \in Nat /\ Mod \in Nat \ {0}
      BY <1>0, CodecAssumption
    <3>1. m + 1 + BlockSize \in 1 .. Len(T) /\ Mod \in Nat \ {0}
      <4>1. PICK l \in Nat, d \in Nat : l = Len(T) /\ d = BlockSize
        BY <3>0
      <4>2. m + 1 + d <= l /\ m \in Nat
        BY <1>0, <1>6, <4>1
      <4>3. m + 1 + d \in 1 .. l
        BY <4>2
      <4>4. QED
        BY <3>0, <4>1, <4>3
    <3>2. PICK in \in Int, x \in Int, y \in Int, d \in Nat :
            in = T[m + 1 + BlockSize] /\ x = scan.a /\ y = scan.b /\ d = BlockSize
      <4>1. T[m + 1 + BlockSize] \in Int
        BY <1>0, <3>1
      <4>2. scan.a \in Int /\ scan.b \in Int
        BY FieldTypes DEF ScanInv
      <4>3. QED
        BY <3>0, <4>1, <4>2
    <3>3. d * out \in Int
      OBVIOUS
    <3>4. a = (x - out + in) % Mod /\ b = (y - d * out + a) % Mod
      BY <2>0, <3>2
    <3>5. x - out + in \in Int
      OBVIOUS
    <3>6. a \in Int
      BY <3>1, <3>4, <3>5, DivMod
    <3>7. y - d * out + a \in Int
      BY <3>3, <3>6
    <3>8. QED
      BY <3>1, <3>4, <3>6, <3>7, DivMod
  <2>2. scan' = [scan EXCEPT !.lit = longer, !.pos = n, !.a = a, !.b = b]
    BY <1>0, <1>1, <1>2, <1>6, <2>0 DEF Slide
  <2>3. /\ scan'.base = scan.base /\ scan'.target = T /\ scan'.ops = scan.ops
        /\ scan'.lit = longer /\ scan'.pos = n /\ scan'.at = "roll"
    BY <1>0, <2>2 DEF ScanInv, ScanTypeOK, ScanRecord, Slide
  <2>4. scan' \in ScanRecord
    BY <1>0, <1>4, <2>1, <2>2 DEF ScanInv, ScanTypeOK, ScanRecord
  <2>5. n + BlockSize <= Len(T)
    BY <1>0, <1>6, CodecAssumption
  <2>6. ScanTypeOK'
    BY <1>0, <2>3, <2>4, <2>5 DEF ScanTypeOK
  <2>7. ScanExact'
    BY <1>0, <1>4, <2>3 DEF ScanExact
  <2>8. QED
    BY <2>6, <2>7 DEF ScanInv
<1>7. QED
  BY <1>5, <1>6

LEMMA FlushInv == ScanInv /\ Flush => ScanInv'
<1> SUFFICES ASSUME ScanInv, Flush PROVE ScanInv'
  OBVIOUS
<1>0. /\ Flushed \in Seq(Op) /\ scan.base \in Seq(Int)
      /\ ApplyDelta(scan.base, Flushed) = SubSeq(scan.target, 1, scan.pos)
  BY FlushedIs, FieldTypes DEF ScanInv, ScanExact
<1>1. scan' = [scan EXCEPT !.ops = Flushed, !.lit = <<>>, !.at = "done"] /\ scan.at = "flush"
  BY DEF Flush
<1>2. /\ scan'.base = scan.base /\ scan'.target = scan.target /\ scan'.ops = Flushed
      /\ scan'.lit = <<>> /\ scan'.pos = scan.pos /\ scan'.at = "done"
  BY <1>1 DEF ScanInv, ScanTypeOK, ScanRecord
<1>3. scan' \in ScanRecord
  <2>1. <<>> \in Seq(Int)
    OBVIOUS
  <2>2. QED
    BY <1>0, <1>1, <2>1 DEF ScanInv, ScanTypeOK, ScanRecord
<1>4. ScanTypeOK'
  BY <1>1, <1>2, <1>3 DEF ScanInv, ScanTypeOK
<1>5. ScanExact'
  <2>1. PICK made : made = ApplyDelta(scan.base, Flushed) /\ made \in Seq(Int)
    BY <1>0, ApplyType
  <2>2. made \o <<>> = made
    BY <2>1, ConcatEmptySeq
  <2>3. QED
    BY <1>0, <1>2, <2>1, <2>2 DEF ScanExact
<1>6. QED
  BY <1>4, <1>5 DEF ScanInv

LEMMA NextScan == ScanInv /\ [CodecNext]_scan => ScanInv'
<1> SUFFICES ASSUME ScanInv, [CodecNext]_scan PROVE ScanInv'
  OBVIOUS
<1>1. CASE UNCHANGED scan
  BY <1>1 DEF ScanInv, ScanTypeOK, ScanExact
<1>2. CASE scan' = NoScan
  <2>1. (scan = NoScan => ScanInv)'
    BY InitScan, PTL
  <2>2. QED
    BY <1>2, <2>1
<1>3. CASE \E base, target \in Seq(Int) : StartScan(base, target)
  BY <1>3, StartInv
<1>4. CASE Scan
  BY <1>4, FreshInv, CopyInv, SlideInv, FlushInv DEF Scan
<1>5. QED
  BY <1>1, <1>2, <1>3, <1>4 DEF CodecNext

\* apply_delta makes of the operations emitted so far, and the literals held
\* back, exactly the target so far, for any base and target, block size and
\* word size of the checksum; at the end of the scan there is nothing held
\* back and the target is complete.
THEOREM DeltasAreExact == CodecSpec => []ScanExact
<1>1. scan = NoScan => ScanInv
  BY InitScan
<1>2. ScanInv /\ [CodecNext]_scan => ScanInv'
  BY NextScan
<1>3. ScanInv => ScanExact
  BY DEF ScanInv
<1>4. QED
  BY <1>1, <1>2, <1>3, PTL DEF CodecSpec

-----------------------------------------------------------------------------
(***************************************************************************)
(* What a scan lets pass                                                   *)
(***************************************************************************)
\* No whole window of the data that starts from one position to before
\* another is a block of the base.
Clean(base, data, from, to) ==
  \A q \in from .. to - 1 : q + BlockSize <= Len(data) =>
    \A o \in Offsets(base) : Slice(data, q, BlockSize) # Slice(base, o, BlockSize)

\* The literals held back are the end of the target so far, and no window
\* that starts among them is a block.
Passed(base, T, lit, pos) ==
  \E s \in Nat : s + Len(lit) = pos /\ lit = SubSeq(T, s + 1, pos) /\ Clean(base, T, s, pos)

CleanData(base, data) ==
  \A o \in Offsets(base), p \in 0 .. Len(data) - BlockSize :
    Slice(data, p, BlockSize) # Slice(base, o, BlockSize)

CleanOps(base, ops) ==
  \A i \in DOMAIN ops : ops[i].op = "insert" => CleanData(base, ops[i].data)

\* The sums that are compared are those of the window.
SumsAreOfWindow == scan.at = "roll" => scan.a = WeakA(Window) /\ scan.b = WeakB(Window)

NothingPassed ==
  /\ Passed(scan.base, scan.target, scan.lit, scan.pos)
  /\ CleanOps(scan.base, scan.ops)

PassInv == SumsAreOfWindow /\ NothingPassed

LEMMA CleanIsNotMissed == NoBlockMissed <=> CleanOps(scan.base, scan.ops)
BY DEF NoBlockMissed, CleanOps, CleanData

LEMMA NothingHeldBack ==
  ASSUME NEW base, NEW T \in Seq(Int), NEW pos \in Nat
  PROVE  Passed(base, T, <<>>, pos)
<1>1. SubSeq(T, pos + 1, pos) = <<>>
  BY SubSeqEmpty
<1>2. pos + Len(<<>>) = pos
  OBVIOUS
<1>3. Clean(base, T, pos, pos)
  BY DEF Clean
<1>4. QED
  BY <1>1, <1>2, <1>3 DEF Passed

LEMMA PassFurther ==
  ASSUME NEW base, NEW T \in Seq(Int), NEW lit \in Seq(Int), NEW pos \in Nat, NEW n \in Nat,
         pos <= n, n <= Len(T), Passed(base, T, lit, pos), Clean(base, T, pos, n)
  PROVE  Passed(base, T, lit \o SubSeq(T, pos + 1, n), n)
<1>1. PICK s \in Nat : s + Len(lit) = pos /\ lit = SubSeq(T, s + 1, pos) /\ Clean(base, T, s, pos)
  BY DEF Passed
<1>2. Len(lit) \in Nat /\ Len(T) \in Nat
  OBVIOUS
<1>3. s <= pos
  BY <1>1, <1>2
<1>4. SubSeq(T, s + 1, pos) \o SubSeq(T, pos + 1, n) = SubSeq(T, s + 1, n)
  <2>1. s + 1 \in 1 .. Len(T) + 1 /\ pos \in (s + 1) - 1 .. Len(T) /\ n \in pos .. Len(T)
    BY <1>2, <1>3
  <2>2. QED
    BY <2>1, ConcatAdjacentSubSeq
<1>5. \A more \in Seq(Int) : Len(lit \o more) = Len(lit) + Len(more)
  BY ConcatProperties
<1>6. SubSeq(T, pos + 1, n) \in Seq(Int) /\ Len(SubSeq(T, pos + 1, n)) = n - pos
  <2>1. \A i \in pos + 1 .. n : T[i] \in Int
    BY <1>2
  <2>2. QED
    BY <2>1, SubSeqProperties
<1>7. s + Len(lit \o SubSeq(T, pos + 1, n)) = n
  BY <1>1, <1>2, <1>5, <1>6
<1>8. Clean(base, T, s, n)
  BY <1>1, <1>3 DEF Clean
<1>9. lit \o SubSeq(T, pos + 1, n) = SubSeq(T, s + 1, n)
  BY <1>1, <1>4, Zenon
<1>10. QED
  BY <1>7, <1>8, <1>9 DEF Passed

LEMMA SliceFits ==
  ASSUME NEW data \in Seq(Int), NEW offset \in Nat, NEW length \in Nat,
         offset + length <= Len(data)
  PROVE  Slice(data, offset, length) = SubSeq(data, offset + 1, offset + length)
BY SliceIs

LEMMA PartIs ==
  ASSUME NEW data \in Seq(Int), NEW from \in Nat, NEW to \in Nat, from <= to, to <= Len(data)
  PROVE  /\ SubSeq(data, from + 1, to) \in Seq(Int)
         /\ Len(SubSeq(data, from + 1, to)) = to - from
         /\ \A i \in 1 .. to - from : SubSeq(data, from + 1, to)[i] = data[from + i]
<1>1. \A i \in from + 1 .. to : data[i] \in Int
  <2>1. \A i \in from + 1 .. to : i \in 1 .. Len(data)
    OBVIOUS
  <2>2. QED
    BY <2>1
<1>2. from + 1 \in Int /\ to \in Int
  OBVIOUS
<1>3. /\ SubSeq(data, from + 1, to) \in Seq(Int)
      /\ Len(SubSeq(data, from + 1, to)) = IF from + 1 <= to THEN to - (from + 1) + 1 ELSE 0
      /\ \A i \in 1 .. to - (from + 1) + 1 :
           SubSeq(data, from + 1, to)[i] = data[(from + 1) + i - 1]
  BY <1>1, <1>2, SubSeqProperties
<1>4. /\ to - (from + 1) + 1 = to - from /\ (~ (from + 1 <= to) => to - from = 0)
      /\ \A i \in 1 .. to - from : (from + 1) + i - 1 = from + i
  OBVIOUS
<1>5. QED
  BY <1>3, <1>4

\* A slice of the literals is a slice of the target.
LEMMA SliceOfPart ==
  ASSUME NEW T \in Seq(Int), NEW s \in Nat, NEW pos \in Nat, s <= pos, pos <= Len(T),
         NEW p \in Nat, NEW k \in Nat, s + p + k <= pos
  PROVE  Slice(SubSeq(T, s + 1, pos), p, k) = Slice(T, s + p, k)
<1>1. PICK part \in Seq(Int) : /\ part = SubSeq(T, s + 1, pos) /\ Len(part) = pos - s
                              /\ \A i \in 1 .. pos - s : part[i] = T[s + i]
  <2>1. /\ SubSeq(T, s + 1, pos) \in Seq(Int)
        /\ Len(SubSeq(T, s + 1, pos)) = pos - s
        /\ \A i \in 1 .. pos - s : SubSeq(T, s + 1, pos)[i] = T[s + i]
    BY PartIs
  <2>2. QED
    BY <2>1, Zenon
<1>2. PICK x \in Nat, y \in Nat, z \in Nat : x = s + p /\ y = x + k /\ z = p + k
  OBVIOUS
<1>3. /\ z <= Len(part) /\ y <= Len(T) /\ p <= z /\ x <= y /\ z - p = k /\ y - x = k
      /\ \A i \in 1 .. k : p + i \in 1 .. pos - s /\ s + (p + i) = x + i
  <2>1. Len(part) = pos - s /\ Len(T) \in Nat
    BY <1>1
  <2>2. QED
    BY <1>2, <2>1
<1>4. Slice(part, p, k) = SubSeq(part, p + 1, z)
  <2>1. p + k <= Len(part)
    BY <1>2, <1>3
  <2>2. Slice(part, p, k) = SubSeq(part, p + 1, p + k)
    BY <2>1, SliceFits
  <2>3. QED
    BY <1>2, <2>2, Zenon
<1>5. Slice(T, x, k) = SubSeq(T, x + 1, y)
  <2>1. x + k <= Len(T)
    BY <1>2, <1>3
  <2>2. Slice(T, x, k) = SubSeq(T, x + 1, x + k)
    BY <2>1, SliceFits
  <2>3. QED
    BY <1>2, <2>2, Zenon
<1>6. /\ SubSeq(part, p + 1, z) \in Seq(Int) /\ Len(SubSeq(part, p + 1, z)) = z - p
      /\ \A i \in 1 .. z - p : SubSeq(part, p + 1, z)[i] = part[p + i]
  BY <1>3, PartIs
<1>7. /\ SubSeq(T, x + 1, y) \in Seq(Int) /\ Len(SubSeq(T, x + 1, y)) = y - x
      /\ \A i \in 1 .. y - x : SubSeq(T, x + 1, y)[i] = T[x + i]
  BY <1>3, PartIs
<1>8. SubSeq(part, p + 1, z) = SubSeq(T, x + 1, y)
  <2>1. PICK u \in Seq(Int) : u = SubSeq(part, p + 1, z)
    BY <1>6
  <2>2. PICK v \in Seq(Int) : v = SubSeq(T, x + 1, y)
    BY <1>7
  <2>3. Len(u) = k /\ Len(v) = k /\ \A i \in 1 .. k : u[i] = part[p + i] /\ v[i] = T[x + i]
    BY <1>3, <1>6, <1>7, <2>1, <2>2
  <2>4. \A i \in 1 .. k : part[p + i] = T[x + i]
    BY <1>1, <1>3
  <2>5. \A i \in 1 .. k : u[i] = v[i]
    BY <2>3, <2>4
  <2>6. u = v
    BY <2>3, <2>5, SeqEqual
  <2>7. QED
    BY <2>1, <2>2, <2>6
<1>9. QED
  BY <1>1, <1>2, <1>4, <1>5, <1>8, Zenon

LEMMA LiteralsClean ==
  ASSUME NEW base \in Seq(Int), NEW T \in Seq(Int), NEW lit \in Seq(Int), NEW pos \in Nat,
         pos <= Len(T), Passed(base, T, lit, pos)
  PROVE  CleanData(base, lit)
<1>1. PICK s \in Nat : s + Len(lit) = pos /\ lit = SubSeq(T, s + 1, pos) /\ Clean(base, T, s, pos)
  BY DEF Passed
<1>2. Len(lit) \in Nat /\ Len(T) \in Nat /\ BlockSize \in Nat \ {0}
  BY CodecAssumption
<1>3. SUFFICES ASSUME NEW o \in Offsets(base), NEW p \in 0 .. Len(lit) - BlockSize
               PROVE  Slice(lit, p, BlockSize) # Slice(base, o, BlockSize)
  BY DEF CleanData
<1>4. /\ p \in Nat /\ s + p \in s .. pos - 1 /\ s + p + BlockSize <= pos
      /\ (s + p) + BlockSize <= Len(T) /\ s <= pos
  BY <1>1, <1>2
<1>5. Slice(T, s + p, BlockSize) # Slice(base, o, BlockSize)
  BY <1>1, <1>4 DEF Clean
<1>6. Slice(SubSeq(T, s + 1, pos), p, BlockSize) = Slice(T, s + p, BlockSize)
  BY <1>2, <1>4, SliceOfPart
<1>7. QED
  BY <1>1, <1>5, <1>6, Zenon

LEMMA AppendClean ==
  ASSUME NEW base \in Seq(Int), NEW ops \in Seq(Op), NEW op \in Op, CleanOps(base, ops),
         op.op = "insert" => CleanData(base, op.data)
  PROVE  CleanOps(base, Append(ops, op))
<1>1. /\ DOMAIN Append(ops, op) = 1 .. Len(ops) + 1
      /\ \A i \in 1 .. Len(ops) : i \in DOMAIN ops /\ Append(ops, op)[i] = ops[i]
      /\ Append(ops, op)[Len(ops) + 1] = op
      /\ \A i \in 1 .. Len(ops) + 1 : i \in 1 .. Len(ops) \/ i = Len(ops) + 1
  OBVIOUS
<1>2. QED
  BY <1>1, Zenon DEF CleanOps

LEMMA FlushedClean ==
  ASSUME ScanTypeOK, NothingPassed
  PROVE  CleanOps(scan.base, Flushed)
<1>1. PICK base \in Seq(Int), T \in Seq(Int), lit \in Seq(Int), pos \in Nat, ops \in Seq(Op) :
        /\ base = scan.base /\ T = scan.target /\ lit = scan.lit /\ pos = scan.pos
        /\ ops = scan.ops /\ pos <= Len(T)
  BY FieldTypes
<1>2. Passed(base, T, lit, pos) /\ CleanOps(base, ops)
  BY <1>1 DEF NothingPassed
<1>3. CleanData(base, lit)
  BY <1>1, <1>2, LiteralsClean
<1>4. CASE lit = <<>>
  BY <1>1, <1>2, <1>4 DEF Flushed
<1>5. CASE lit # <<>>
  <2>1. PICK op \in Op : op = InsertOp(lit)
    BY DEF InsertOp, Op
  <2>2. op.data = lit
    BY <2>1 DEF InsertOp
  <2>3. CleanOps(base, Append(ops, op))
    BY <1>2, <1>3, <2>2, AppendClean
  <2>4. QED
    BY <1>1, <1>5, <2>1, <2>3 DEF Flushed
<1>6. QED
  BY <1>4, <1>5

LEMMA InitPass == scan = NoScan => PassInv
<1> SUFFICES ASSUME scan = NoScan PROVE PassInv
  OBVIOUS
<1>1. /\ scan.at = "done" /\ scan.base = <<>> /\ scan.target = <<>> /\ scan.pos = 0
      /\ scan.lit = <<>> /\ scan.ops = <<>>
  BY DEF NoScan
<1>2. <<>> \in Seq(Int) /\ 0 \in Nat /\ DOMAIN <<>> = {}
  OBVIOUS
<1>3. Passed(<<>>, <<>>, <<>>, 0)
  BY <1>2, NothingHeldBack
<1>4. CleanOps(<<>>, <<>>)
  BY <1>2 DEF CleanOps
<1>5. QED
  BY <1>1, <1>3, <1>4 DEF PassInv, SumsAreOfWindow, NothingPassed

\* Nothing is a block of an empty base.
LEMMA NoOffsets == Offsets(<<>>) = {}
BY DEF Offsets

LEMMA StartPass ==
  ASSUME NEW base \in Seq(Int), NEW target \in Seq(Int), StartScan(base, target)
  PROVE  PassInv'
<1>1. CleanOps(base, <<>>) /\ Len(target) \in Nat /\ <<>> \in Seq(Int)
  BY DEF CleanOps
<1>2. CASE base = <<>>
  <2>1. scan' = [at |-> "flush", base |-> <<>>, target |-> target, pos |-> Len(target),
                 a |-> 0, b |-> 0, lit |-> target, ops |-> <<>>]
    BY <1>2 DEF StartScan, NoScan
  <2>2. Passed(<<>>, target, target, Len(target))
    <3>1. 0 + Len(target) = Len(target) /\ target = SubSeq(target, 0 + 1, Len(target)) /\ 0 \in Nat
      BY <1>1, SubSeqFull
    <3>2. Clean(<<>>, target, 0, Len(target))
      BY NoOffsets DEF Clean
    <3>3. QED
      BY <3>1, <3>2 DEF Passed
  <2>3. QED
    BY <1>1, <1>2, <2>1, <2>2 DEF PassInv, SumsAreOfWindow, NothingPassed
<1>3. CASE base # <<>>
  <2>1. scan' = [at |-> "fresh", base |-> base, target |-> target, pos |-> 0,
                 a |-> 0, b |-> 0, lit |-> <<>>, ops |-> <<>>]
    BY <1>3 DEF StartScan, NoScan
  <2>2. Passed(base, target, <<>>, 0)
    BY NothingHeldBack
  <2>3. QED
    BY <1>1, <2>1, <2>2 DEF PassInv, SumsAreOfWindow, NothingPassed
<1>4. QED
  BY <1>2, <1>3

LEMMA FreshPass == ScanTypeOK /\ PassInv /\ Fresh => PassInv'
<1> SUFFICES ASSUME ScanTypeOK, PassInv, Fresh PROVE PassInv'
  OBVIOUS
<1>0. PICK base \in Seq(Int), T \in Seq(Int), lit \in Seq(Int), m \in Nat, n \in Nat, ops \in Seq(Op) :
        /\ base = scan.base /\ T = scan.target /\ lit = scan.lit /\ ops = scan.ops
        /\ m = scan.pos /\ n = Len(T) /\ m <= n
  BY FieldTypes
<1>1. Passed(base, T, lit, m) /\ CleanOps(base, ops)
  BY <1>0 DEF PassInv, NothingPassed
<1>2. CASE Len(Window) < BlockSize
  <2>1. Window = SubSeq(T, m + 1, n) /\ ~ (m + BlockSize <= n)
    BY <1>0, <1>2, WindowIs, FieldTypes
  <2>2. scan' = [scan EXCEPT !.lit = lit \o Window, !.pos = n, !.at = "flush"]
    BY <1>0, <1>2 DEF Fresh
  <2>3. /\ scan'.base = base /\ scan'.target = T /\ scan'.ops = ops
        /\ scan'.lit = lit \o Window /\ scan'.pos = n /\ scan'.at = "flush"
    BY <1>0, <2>2 DEF ScanTypeOK, ScanRecord
  <2>4. m <= n /\ n <= Len(T) /\ Clean(base, T, m, n)
    <3>1. BlockSize \in Nat
      BY CodecAssumption
    <3>2. \A q \in m .. n - 1 : ~ (q + BlockSize <= n)
      BY <2>1, <3>1
    <3>3. QED
      BY <1>0, <3>2 DEF Clean
  <2>5. Passed(base, T, lit \o SubSeq(T, m + 1, n), n)
    BY <1>1, <2>4, PassFurther
  <2>6. Passed(base, T, lit \o Window, n)
    BY <2>1, <2>5, Zenon
  <2>7. QED
    BY <1>1, <2>3, <2>6 DEF PassInv, SumsAreOfWindow, NothingPassed
<1>3. CASE ~ (Len(Window) < BlockSize)
  <2>1. scan' = [scan EXCEPT !.a = WeakA(Window), !.b = WeakB(Window), !.at = "roll"]
    BY <1>3 DEF Fresh
  <2>2. /\ scan'.base = base /\ scan'.target = T /\ scan'.ops = ops
        /\ scan'.lit = lit /\ scan'.pos = m
        /\ scan'.a = WeakA(Window) /\ scan'.b = WeakB(Window)
    BY <1>0, <2>1 DEF ScanTypeOK, ScanRecord
  <2>3. Window' = Window
    BY <1>0, <2>2 DEF Window
  <2>4. QED
    BY <1>1, <2>2, <2>3 DEF PassInv, SumsAreOfWindow, NothingPassed
<1>4. QED
  BY <1>2, <1>3

LEMMA CopyPass == ScanInv /\ PassInv /\ Copy => PassInv'
<1> SUFFICES ASSUME ScanTypeOK, PassInv, Copy PROVE PassInv'
  BY DEF ScanInv
<1>0. PICK base \in Seq(Int), T \in Seq(Int), n \in Nat, ops \in Seq(Op) :
        /\ base = scan.base /\ T = scan.target /\ n = scan.pos + BlockSize /\ ops = Flushed
  BY FieldTypes, FlushedIs
<1>1. PICK op \in Op : op = CopyOp(Min(Matching), BlockSize)
  BY FirstMatch, FieldTypes DEF Copy, CopyOp, Op
<1>2. op.op # "insert"
  BY <1>1 DEF CopyOp
<1>3. CleanOps(base, ops)
  BY <1>0, FlushedClean DEF PassInv
<1>4. CleanOps(base, Append(ops, op))
  BY <1>2, <1>3, AppendClean
<1>5. scan' = [scan EXCEPT !.ops = Append(ops, op), !.lit = <<>>, !.pos = n, !.at = "fresh"]
  BY <1>0, <1>1 DEF Copy
<1>6. /\ scan'.base = base /\ scan'.target = T /\ scan'.ops = Append(ops, op)
      /\ scan'.lit = <<>> /\ scan'.pos = n /\ scan'.at = "fresh"
  BY <1>0, <1>5 DEF ScanTypeOK, ScanRecord
<1>7. Passed(base, T, <<>>, n)
  BY NothingHeldBack
<1>8. QED
  BY <1>4, <1>6, <1>7 DEF PassInv, SumsAreOfWindow, NothingPassed

LEMMA FlushPass == ScanTypeOK /\ PassInv /\ Flush => PassInv'
<1> SUFFICES ASSUME ScanTypeOK, PassInv, Flush PROVE PassInv'
  OBVIOUS
<1>0. PICK base \in Seq(Int), T \in Seq(Int), m \in Nat, ops \in Seq(Op) :
        /\ base = scan.base /\ T = scan.target /\ m = scan.pos /\ ops = Flushed
  BY FieldTypes, FlushedIs
<1>1. CleanOps(base, ops)
  BY <1>0, FlushedClean DEF PassInv
<1>2. scan' = [scan EXCEPT !.ops = ops, !.lit = <<>>, !.at = "done"]
  BY <1>0 DEF Flush
<1>3. /\ scan'.base = base /\ scan'.target = T /\ scan'.ops = ops
      /\ scan'.lit = <<>> /\ scan'.pos = m /\ scan'.at = "done"
  BY <1>0, <1>2 DEF ScanTypeOK, ScanRecord
<1>4. Passed(base, T, <<>>, m)
  BY NothingHeldBack
<1>5. QED
  BY <1>1, <1>3, <1>4 DEF PassInv, SumsAreOfWindow, NothingPassed

\* A window that matched no block is none of them: one that is has its sums,
\* and was looked at.
LEMMA UnmatchedWindow ==
  ASSUME SumsAreOfWindow, scan.at = "roll", Matching = {}
  PROVE  \A o \in Offsets(scan.base) : Slice(scan.base, o, BlockSize) # Window
<1>1. scan.a = WeakA(Window) /\ scan.b = WeakB(Window)
  BY DEF SumsAreOfWindow
<1>2. SUFFICES ASSUME NEW o \in Offsets(scan.base), Slice(scan.base, o, BlockSize) = Window
               PROVE  FALSE
  OBVIOUS
<1>3. o \in Matching
  BY <1>1, <1>2 DEF Matching
<1>4. QED
  BY <1>3

\* The window one byte on.
LEMMA SlidWindow ==
  ASSUME NEW T \in Seq(Int), NEW m \in Nat, NEW k \in Nat \ {0}, m + 1 + k <= Len(T)
  PROVE  /\ Len(Slice(T, m, k)) = k /\ Len(Slice(T, m + 1, k)) = k
         /\ Slice(T, m, k) \in Seq(Int) /\ Slice(T, m + 1, k) \in Seq(Int)
         /\ Slice(T, m, k)[1] = T[m + 1]
         /\ Slice(T, m + 1, k)[k] = T[m + 1 + k]
         /\ \A i \in 1 .. k - 1 : Slice(T, m + 1, k)[i] = Slice(T, m, k)[i + 1]
<1> k \in Nat
  OBVIOUS
<1>1. PICK x \in Nat, y \in Nat, z \in Nat : x = m + 1 /\ y = m + k /\ z = x + k
  OBVIOUS
<1>2. /\ y <= Len(T) /\ z <= Len(T) /\ m <= y /\ x <= z /\ y - m = k /\ z - x = k
      /\ m + k = y /\ 1 \in 1 .. k /\ k \in 1 .. k
      /\ \A i \in 1 .. k - 1 : i \in 1 .. k /\ i + 1 \in 1 .. k /\ x + i = m + (i + 1)
  BY <1>1, Len(T) \in Nat
<1>3. Slice(T, m, k) = SubSeq(T, m + 1, y)
  <2>1. m + k <= Len(T)
    BY <1>2
  <2>2. Slice(T, m, k) = SubSeq(T, m + 1, m + k)
    BY <2>1, SliceFits
  <2>3. QED
    BY <1>1, <2>2, Zenon
<1>4. Slice(T, x, k) = SubSeq(T, x + 1, z)
  <2>1. x + k <= Len(T)
    BY <1>1, <1>2
  <2>2. Slice(T, x, k) = SubSeq(T, x + 1, x + k)
    BY <2>1, SliceFits
  <2>3. QED
    BY <1>1, <2>2, Zenon
<1>5. /\ SubSeq(T, m + 1, y) \in Seq(Int) /\ Len(SubSeq(T, m + 1, y)) = y - m
      /\ \A i \in 1 .. y - m : SubSeq(T, m + 1, y)[i] = T[m + i]
  BY <1>2, PartIs
<1>6. /\ SubSeq(T, x + 1, z) \in Seq(Int) /\ Len(SubSeq(T, x + 1, z)) = z - x
      /\ \A i \in 1 .. z - x : SubSeq(T, x + 1, z)[i] = T[x + i]
  BY <1>2, PartIs
<1>7. PICK w \in Seq(Int), v \in Seq(Int) : w = Slice(T, m, k) /\ v = Slice(T, x, k)
  BY <1>3, <1>4, <1>5, <1>6
<1>8. /\ Len(w) = k /\ Len(v) = k
      /\ \A i \in 1 .. k : w[i] = T[m + i]
      /\ \A i \in 1 .. k : v[i] = T[x + i]
  BY <1>2, <1>3, <1>4, <1>5, <1>6, <1>7
<1>9. w[1] = T[m + 1] /\ v[k] = T[x + k]
  BY <1>2, <1>8
<1>10. \A i \in 1 .. k - 1 : v[i] = w[i + 1]
  <2>1. TAKE i \in 1 .. k - 1
  <2>2. v[i] = T[x + i] /\ w[i + 1] = T[m + (i + 1)]
    BY <1>2, <1>8
  <2>3. QED
    BY <1>2, <2>2
<1>11. QED
  BY <1>1, <1>7, <1>8, <1>9, <1>10

LEMMA OneMore ==
  ASSUME NEW T \in Seq(Int), NEW lit \in Seq(Int), NEW m \in Nat, m + 1 <= Len(T)
  PROVE  Append(lit, T[m + 1]) = lit \o SubSeq(T, m + 1, m + 1)
<1>1. PICK n \in Nat : n = m + 1
  OBVIOUS
<1>2. n \in 1 .. Len(T) /\ T[n] \in Int /\ m <= n /\ n - m = 1 /\ m + 1 = n /\ n <= Len(T)
  BY <1>1, Len(T) \in Nat
<1>3. /\ SubSeq(T, m + 1, n) \in Seq(Int) /\ Len(SubSeq(T, m + 1, n)) = n - m
      /\ \A i \in 1 .. n - m : SubSeq(T, m + 1, n)[i] = T[m + i]
  BY <1>2, PartIs
<1>4. PICK s \in Seq(Int) : s = SubSeq(T, m + 1, n) /\ Len(s) = 1 /\ s[1] = T[n]
  <2>1. PICK s \in Seq(Int) : s = SubSeq(T, m + 1, n)
    BY <1>3
  <2>2. 1 \in 1 .. n - m
    BY <1>2
  <2>3. SubSeq(T, m + 1, n)[1] = T[n]
    BY <1>2, <1>3, <2>2
  <2>4. Len(s) = 1 /\ s[1] = T[n]
    BY <1>2, <1>3, <2>1, <2>3
  <2>5. QED
    BY <2>1, <2>4
<1>5. s = <<T[n]>>
  BY <1>4, Single
<1>6. Append(lit, T[n]) = lit \o <<T[n]>>
  BY <1>2, AppendIsConcat
<1>7. QED
  BY <1>1, <1>4, <1>5, <1>6, Zenon

LEMMA SlidePass == ScanTypeOK /\ PassInv /\ Slide => PassInv'
<1> SUFFICES ASSUME ScanTypeOK, PassInv, Slide PROVE PassInv'
  OBVIOUS
<1>0. PICK base \in Seq(Int), T \in Seq(Int), lit \in Seq(Int), m \in Nat, n \in Nat,
           ops \in Seq(Op), k \in Nat \ {0} :
        /\ base = scan.base /\ T = scan.target /\ lit = scan.lit /\ ops = scan.ops
        /\ m = scan.pos /\ n = m + 1 /\ n <= Len(T) /\ k = BlockSize /\ m + k <= Len(T)
  <2>1. scan.at = "roll"
    BY DEF Slide
  <2>2. scan.pos + BlockSize <= Len(scan.target) /\ scan.pos + 1 \in Nat /\ scan.pos + 1 <= Len(scan.target)
    BY <2>1, FieldTypes DEF ScanTypeOK
  <2>3. QED
    BY <2>2, FieldTypes
<1>1. Passed(base, T, lit, m) /\ CleanOps(base, ops)
  BY <1>0 DEF PassInv, NothingPassed
<1>2. PICK longer : longer = Append(lit, T[m + 1])
  OBVIOUS
<1>3. Passed(base, T, longer, n)
  <2>1. Window = Slice(T, m, BlockSize)
    BY <1>0 DEF Window
  <2>2. \A o \in Offsets(base) : Slice(base, o, BlockSize) # Slice(T, m, BlockSize)
    BY <1>0, <2>1, UnmatchedWindow DEF PassInv, Slide
  <2>3. \A q \in m .. n - 1 : q = m
    BY <1>0
  <2>4. Clean(base, T, m, n)
    BY <2>2, <2>3 DEF Clean
  <2>5. m <= n /\ n <= Len(T)
    BY <1>0
  <2>6. Passed(base, T, lit \o SubSeq(T, m + 1, n), n)
    BY <1>1, <2>4, <2>5, PassFurther
  <2>7. m + 1 <= Len(T)
    BY <1>0
  <2>8. Append(lit, T[m + 1]) = lit \o SubSeq(T, m + 1, m + 1)
    BY <2>7, OneMore
  <2>9. QED
    BY <1>0, <1>2, <2>6, <2>8, Zenon
<1>4. CASE n + k > Len(T)
  <2>1. scan' = [scan EXCEPT !.lit = longer, !.pos = n, !.at = "fresh"]
    BY <1>0, <1>2, <1>4 DEF Slide
  <2>2. /\ scan'.base = base /\ scan'.target = T /\ scan'.ops = ops
        /\ scan'.lit = longer /\ scan'.pos = n /\ scan'.at = "fresh"
    BY <1>0, <2>1 DEF ScanTypeOK, ScanRecord
  <2>3. QED
    BY <1>1, <1>3, <2>2 DEF PassInv, SumsAreOfWindow, NothingPassed
<1>5. CASE ~ (n + k > Len(T))
  <2>1. PICK w, v : w = Slice(T, m, k) /\ v = Slice(T, m + 1, k)
    OBVIOUS
  <2>2. /\ Len(w) = k /\ Len(v) = k /\ w \in Seq(Int) /\ v \in Seq(Int)
        /\ w[1] = T[m + 1] /\ v[k] = T[m + 1 + k]
        /\ \A i \in 1 .. k - 1 : v[i] = w[i + 1]
    <3>1. m + 1 + k <= Len(T)
      BY <1>0, <1>5, Len(T) \in Nat
    <3>2. /\ Len(Slice(T, m, k)) = k /\ Len(Slice(T, m + 1, k)) = k
          /\ Slice(T, m, k) \in Seq(Int) /\ Slice(T, m + 1, k) \in Seq(Int)
          /\ Slice(T, m, k)[1] = T[m + 1]
          /\ Slice(T, m + 1, k)[k] = T[m + 1 + k]
          /\ \A i \in 1 .. k - 1 : Slice(T, m + 1, k)[i] = Slice(T, m, k)[i + 1]
      BY <3>1, SlidWindow
    <3>3. QED
      BY <2>1, <3>2, Zenon
  <2>3. /\ WeakA(v) = (WeakA(w) - T[m + 1] + T[m + 1 + k]) % Mod
        /\ WeakB(v) = (WeakB(w) - k * T[m + 1] + WeakA(v)) % Mod
    <3>1. /\ WeakA(v) = (WeakA(w) - w[1] + v[k]) % Mod
          /\ WeakB(v) = (WeakB(w) - k * w[1] + WeakA(v)) % Mod
      BY <2>2, Rolled
    <3>2. QED
      BY <2>2, <3>1, Zenon
  <2>4. scan.a = WeakA(w) /\ scan.b = WeakB(w)
    BY <1>0, <2>1 DEF PassInv, SumsAreOfWindow, Slide, Window
  <2>5. scan' = [scan EXCEPT !.lit = longer, !.pos = n, !.a = WeakA(v), !.b = WeakB(v)]
    BY <1>0, <1>2, <1>5, <2>3, <2>4 DEF Slide
  <2>6. /\ scan'.base = base /\ scan'.target = T /\ scan'.ops = ops
        /\ scan'.lit = longer /\ scan'.pos = n /\ scan'.a = WeakA(v) /\ scan'.b = WeakB(v)
    BY <1>0, <2>5 DEF ScanTypeOK, ScanRecord
  <2>7. Window' = v
    BY <1>0, <2>1, <2>6 DEF Window
  <2>8. QED
    BY <1>1, <1>3, <2>6, <2>7 DEF PassInv, SumsAreOfWindow, NothingPassed
<1>6. QED
  BY <1>4, <1>5

LEMMA NextPass == ScanInv /\ PassInv /\ [CodecNext]_scan => PassInv'
<1> SUFFICES ASSUME ScanInv, PassInv, [CodecNext]_scan PROVE PassInv'
  OBVIOUS
<1>1. CASE UNCHANGED scan
  BY <1>1 DEF PassInv, SumsAreOfWindow, NothingPassed, Window
<1>2. CASE scan' = NoScan
  <2>1. (scan = NoScan => PassInv)'
    BY InitPass, PTL
  <2>2. QED
    BY <1>2, <2>1
<1>3. CASE \E base, target \in Seq(Int) : StartScan(base, target)
  BY <1>3, StartPass
<1>4. CASE Scan
  BY <1>4, FreshPass, CopyPass, SlidePass, FlushPass DEF Scan, ScanInv
<1>5. QED
  BY <1>1, <1>2, <1>3, <1>4 DEF CodecNext

\* No whole block of the base is among the data a delta inserts: although the
\* scan compares only blocks whose two rolled sums are those of the window,
\* and never goes back, it misses none, whatever the files, the block size and
\* the word size of the sums.
THEOREM NothingIsMissed == CodecSpec => []NoBlockMissed
<1>1. scan = NoScan => ScanInv /\ PassInv
  BY InitScan, InitPass
<1>2. (ScanInv /\ PassInv) /\ [CodecNext]_scan => (ScanInv /\ PassInv)'
  BY NextScan, NextPass
<1>3. PassInv => NoBlockMissed
  BY CleanIsNotMissed DEF PassInv, NothingPassed
<1>4. QED
  BY <1>1, <1>2, <1>3, PTL DEF CodecSpec

-----------------------------------------------------------------------------
(***************************************************************************)
(* Where the pieces lie in what they give, joined                          *)
(***************************************************************************)
\* at holds where each piece begins, and where the last one ends.
LaidOut(ss, whole, at) ==
  /\ whole \in Seq(Int)
  /\ at \in [1 .. Len(ss) + 1 -> Nat]
  /\ at[1] = 0
  /\ at[Len(ss) + 1] = Len(whole)
  /\ \A i \in 1 .. Len(ss) : at[i + 1] = at[i] + Len(ss[i])
  /\ \A i \in 1 .. Len(ss) : at[i] + Len(ss[i]) <= Len(whole)
  /\ \A i \in 1 .. Len(ss) : \A k \in 1 .. Len(ss[i]) : whole[at[i] + k] = ss[i][k]

LEMMA LayNothing ==
  ASSUME NEW ss \in Seq(Seq(Int)), Len(ss) = 0
  PROVE  \E at : LaidOut(ss, FlattenSeq(ss), at)
<1>1. ss = <<>> /\ FlattenSeq(ss) = ss
  BY DEF FlattenSeq
<1>2. <<>> \in Seq(Int) /\ Len(<<>>) = 0
  OBVIOUS
<1> DEFINE at == [i \in 1 .. 1 |-> 0]
<1>3. at \in [1 .. 1 -> Nat] /\ at[1] = 0
  OBVIOUS
<1>4. PICK n \in Nat : n = Len(ss) /\ n = 0
  OBVIOUS
<1>5. LaidOut(ss, <<>>, at)
  <2>1. at[n + 1] = 0 /\ n + 1 = 1 /\ 1 .. n = {}
    BY <1>3, <1>4
  <2> HIDE DEF at
  <2>2. QED
    BY <2>1, <1>2, <1>3, <1>4 DEF LaidOut
<1>6. QED
  BY <1>1, <1>5

LEMMA LayOneMore ==
  ASSUME NEW ss \in Seq(Seq(Int)), NEW s \in Seq(Int), NEW whole \in Seq(Int), NEW at,
         LaidOut(ss, whole, at)
  PROVE  \E new : LaidOut(Append(ss, s), whole \o s, new)
<1>1. PICK n \in Nat : n = Len(ss)
  OBVIOUS
<1>2. PICK tt \in Seq(Seq(Int)) : tt = Append(ss, s)
  BY AppendProperties
<1>3. Len(tt) = n + 1 /\ tt[n + 1] = s /\ \A i \in 1 .. n : tt[i] = ss[i]
  BY <1>1, <1>2
<1>4. /\ whole \in Seq(Int) /\ at \in [1 .. n + 1 -> Nat] /\ at[1] = 0 /\ at[n + 1] = Len(whole)
      /\ \A i \in 1 .. n : at[i + 1] = at[i] + Len(ss[i])
      /\ \A i \in 1 .. n : at[i] + Len(ss[i]) <= Len(whole)
      /\ \A i \in 1 .. n : \A k \in 1 .. Len(ss[i]) : whole[at[i] + k] = ss[i][k]
  BY <1>1 DEF LaidOut
<1>5. PICK more \in Seq(Int) : more = whole \o s
  <2>1. whole \o s \in Seq(Int)
    OBVIOUS
  <2>2. QED
    BY <2>1
<1>6. PICK l \in Nat, m \in Nat : l = Len(whole) /\ m = Len(s)
  BY <1>4
<1>7. /\ Len(more) = l + m
      /\ \A k \in 1 .. l : more[k] = whole[k]
      /\ \A k \in 1 .. m : more[l + k] = s[k]
  BY <1>4, <1>5, <1>6
<1> DEFINE new == [i \in 1 .. n + 2 |-> IF i = n + 2 THEN l + m ELSE at[i]]
<1>8. new \in [1 .. Len(tt) + 1 -> Nat]
  BY <1>3, <1>4
<1>9. new[1] = 0 /\ new[Len(tt) + 1] = Len(more)
  BY <1>3, <1>4, <1>7
<1>10. ASSUME NEW i \in 1 .. Len(tt)
       PROVE  /\ new[i + 1] = new[i] + Len(tt[i])
              /\ new[i] + Len(tt[i]) <= Len(more)
              /\ \A k \in 1 .. Len(tt[i]) : more[new[i] + k] = tt[i][k]
  <2>1. CASE i = n + 1
    <3>1. new[i] = l /\ new[i + 1] = l + m /\ tt[i] = s
      BY <2>1, <1>3, <1>4, <1>6
    <3> HIDE DEF new
    <3>2. new[i + 1] = new[i] + Len(tt[i]) /\ new[i] + Len(tt[i]) <= Len(more)
      <4>1. Len(tt[i]) = m
        BY <3>1, <1>6
      <4>2. QED
        BY <3>1, <4>1, <1>7
    <3>3. \A k \in 1 .. Len(tt[i]) : more[new[i] + k] = tt[i][k]
      BY <3>1, <1>6, <1>7
    <3>4. QED
      BY <3>2, <3>3
  <2>2. CASE i # n + 1
    <3>1. i \in 1 .. n
      BY <2>2, <1>3
    <3>2. PICK k \in Nat : k = Len(ss[i])
      BY <3>1, <1>1
    <3>3. new[i] = at[i] /\ new[i + 1] = at[i + 1] /\ tt[i] = ss[i]
      BY <3>1, <1>3
    <3>4. at[i] \in Nat /\ at[i + 1] = at[i] + k /\ at[i] + k <= l
      BY <3>1, <3>2, <1>4, <1>6
    <3>5. \A j \in 1 .. k : at[i] + j \in 1 .. l
      BY <3>4
    <3>6. \A j \in 1 .. k : whole[at[i] + j] = ss[i][j]
      BY <3>1, <3>2, <1>4
    <3>7. PICK p \in Nat : p = at[i]
      BY <3>4
    <3>8. \A j \in 1 .. k : more[p + j] = whole[p + j]
      BY <3>5, <3>7, <1>7
    <3> HIDE DEF new
    <3>9. new[i + 1] = new[i] + Len(tt[i]) /\ new[i] + Len(tt[i]) <= Len(more)
      BY <3>2, <3>3, <3>4, <1>7
    <3>10. \A j \in 1 .. Len(tt[i]) : more[new[i] + j] = tt[i][j]
      BY <3>2, <3>3, <3>6, <3>7, <3>8
    <3>11. QED
      BY <3>9, <3>10
  <2>3. QED
    BY <2>1, <2>2
<1>11. LaidOut(tt, more, new)
  <2> HIDE DEF new
  <2>1. QED
    BY <1>8, <1>9, <1>10 DEF LaidOut
<1>12. QED
  BY <1>2, <1>5, <1>11

LEMMA Layout ==
  ASSUME NEW ss \in Seq(Seq(Int))
  PROVE  \E at : LaidOut(ss, FlattenSeq(ss), at)
<1> DEFINE Lies(tt) == \E at : LaidOut(tt, FlattenSeq(tt), at)
           Bad == {n \in Nat : \E tt \in Seq(Seq(Int)) : Len(tt) = n /\ ~ Lies(tt)}
<1> SUFFICES ASSUME ~ Lies(ss) PROVE FALSE
  OBVIOUS
<1>1. Bad \in SUBSET Nat /\ Bad # {}
  <2>1. Len(ss) \in Nat
    OBVIOUS
  <2>2. QED
    BY <2>1
<1>2. PICK n \in Bad : \A m \in Bad : n <= m
  <2> HIDE DEF Bad
  <2>1. QED
    BY <1>1, HasLeast
<1>3. PICK tt \in Seq(Seq(Int)) : Len(tt) = n /\ ~ Lies(tt)
  BY <1>2
<1>4. n \in Nat /\ n # 0
  <2>1. Len(tt) = 0 => Lies(tt)
    BY LayNothing
  <2>2. QED
    BY <2>1, <1>2, <1>3
<1>5. PICK front \in Seq(Seq(Int)), s \in Seq(Int) : tt = Append(front, s)
  <2>1. PICK m \in Nat : m = Len(tt) /\ m # 0 /\ n = m
    BY <1>3, <1>4
  <2> DEFINE all == [i \in 1 .. m - 1 |-> tt[i]]
  <2>2. tt[m] \in Seq(Int) /\ \A i \in 1 .. m - 1 : tt[i] \in Seq(Int)
    BY <2>1
  <2>3. all \in Seq(Seq(Int)) /\ Len(all) = m - 1
    BY <2>1, <2>2
  <2>4. PICK f \in Seq(Seq(Int)) : f = all
    BY <2>3
  <2>5. PICK uu \in Seq(Seq(Int)) : uu = Append(f, tt[m])
    BY <2>2, AppendProperties
  <2>6. Len(uu) = m /\ uu[m] = tt[m] /\ \A i \in 1 .. m - 1 : uu[i] = tt[i]
    BY <2>1, <2>2, <2>3, <2>4, <2>5
  <2>7. \A i \in 1 .. m : uu[i] = tt[i]
    BY <2>1, <2>6
  <2>8. uu = tt
    BY <2>1, <2>6, <2>7, SeqEqual
  <2>9. QED
    BY <2>2, <2>4, <2>5, <2>8
<1>6. Len(front) \in Nat /\ Len(tt) = Len(front) + 1
  BY <1>5, AppendProperties
<1>7. Lies(front)
  <2>1. Len(front) \notin Bad
    <3>1. n <= Len(front) <=> FALSE
      BY <1>3, <1>4, <1>6
    <3> HIDE DEF Bad
    <3>2. QED
      BY <3>1, <1>2
  <2>2. QED
    BY <2>1, <1>6
<1>8. PICK at : LaidOut(front, FlattenSeq(front), at)
  BY <1>7
<1>9. FlattenSeq(tt) = FlattenSeq(front) \o s
  BY <1>5, FlattenAppend
<1>10. FlattenSeq(front) \in Seq(Int)
  BY <1>5, FlattenAppend
<1>11. \E new : LaidOut(Append(front, s), FlattenSeq(front) \o s, new)
  BY <1>8, <1>10, LayOneMore
<1>12. QED
  BY <1>3, <1>5, <1>9, <1>11

-----------------------------------------------------------------------------
(***************************************************************************)
(* Directories in the order of names                                       *)
(***************************************************************************)
\* m comes before n because of their i-th characters.
Parts(m, n, i) ==
  /\ i \in DOMAIN n
  /\ \A j \in 1 .. i - 1 : j \in DOMAIN m /\ m[j] = n[j]
  /\ i \in DOMAIN m => m[i] < n[i]

LEMMA LessParts ==
  ASSUME NEW m, NEW n
  PROVE  Less(m, n) <=> \E i : Parts(m, n, i)
BY DEF Less, Parts

LEMMA LessIrreflexive ==
  ASSUME NEW m \in Seq(Int)
  PROVE  ~ Less(m, m)
<1>1. \A i \in DOMAIN m : m[i] \in Int
  OBVIOUS
<1>2. QED
  BY <1>1 DEF Less

LEMMA LessTransitive ==
  ASSUME NEW l \in Seq(Int), NEW m \in Seq(Int), NEW n \in Seq(Int), Less(l, m), Less(m, n)
  PROVE  Less(l, n)
<1>1. PICK i : Parts(l, m, i)
  BY LessParts
<1>2. PICK k : Parts(m, n, k)
  BY LessParts
<1>3. PICK a \in Nat, b \in Nat, c \in Nat :
        DOMAIN l = 1 .. a /\ DOMAIN m = 1 .. b /\ DOMAIN n = 1 .. c
  <2>1. /\ Len(l) \in Nat /\ DOMAIN l = 1 .. Len(l)
        /\ Len(m) \in Nat /\ DOMAIN m = 1 .. Len(m)
        /\ Len(n) \in Nat /\ DOMAIN n = 1 .. Len(n)
    BY LenProperties
  <2>2. QED
    BY <2>1
<1>4. i \in 1 .. b /\ k \in 1 .. c
  BY <1>1, <1>2, <1>3 DEF Parts
<1>5. /\ \A j \in 1 .. a : l[j] \in Int
      /\ \A j \in 1 .. b : m[j] \in Int
      /\ \A j \in 1 .. c : n[j] \in Int
  BY <1>3
<1>6. /\ \A j \in 1 .. i - 1 : j \in 1 .. a /\ l[j] = m[j]
      /\ i \in 1 .. a => l[i] < m[i]
      /\ \A j \in 1 .. k - 1 : j \in 1 .. b /\ m[j] = n[j]
      /\ k \in 1 .. b => m[k] < n[k]
  BY <1>1, <1>2, <1>3 DEF Parts
<1>7. CASE k <= i
  <2>1. \A j \in 1 .. k - 1 : j \in 1 .. a /\ l[j] = n[j]
    <3> SUFFICES ASSUME NEW j \in 1 .. k - 1 PROVE j \in 1 .. a /\ l[j] = n[j]
      OBVIOUS
    <3>1. j \in 1 .. i - 1
      BY <1>4, <1>7
    <3>2. QED
      BY <3>1, <1>6
  <2>2. k \in 1 .. a => l[k] < n[k]
    <3>1. k \in 1 .. b
      BY <1>4, <1>7
    <3>2. CASE k = i
      BY <3>1, <3>2, <1>4, <1>5, <1>6
    <3>3. CASE k # i
      <4>1. k \in 1 .. i - 1
        BY <3>3, <1>4, <1>7
      <4>2. QED
        BY <3>1, <4>1, <1>6
    <3>4. QED
      BY <3>2, <3>3
  <2>3. Parts(l, n, k)
    BY <2>1, <2>2, <1>3, <1>4 DEF Parts
  <2>4. QED
    BY <2>3, LessParts
<1>8. CASE i < k
  <2>1. i \in 1 .. k - 1 /\ i \in 1 .. c
    BY <1>4, <1>8
  <2>2. m[i] = n[i]
    BY <2>1, <1>6
  <2>3. \A j \in 1 .. i - 1 : j \in 1 .. a /\ l[j] = n[j]
    <3> SUFFICES ASSUME NEW j \in 1 .. i - 1 PROVE j \in 1 .. a /\ l[j] = n[j]
      OBVIOUS
    <3>1. j \in 1 .. k - 1
      BY <1>4, <1>8
    <3>2. QED
      BY <3>1, <1>6
  <2>4. Parts(l, n, i)
    BY <2>1, <2>2, <2>3, <1>3, <1>6 DEF Parts
  <2>5. QED
    BY <2>4, LessParts
<1>9. QED
  BY <1>4, <1>7, <1>8

LEMMA LessTotal ==
  ASSUME NEW m \in Seq(Int), NEW n \in Seq(Int), m # n
  PROVE  Less(m, n) \/ Less(n, m)
<1>1. PICK b \in Nat, c \in Nat :
        DOMAIN m = 1 .. b /\ DOMAIN n = 1 .. c /\ b = Len(m) /\ c = Len(n)
  <2>1. /\ Len(m) \in Nat /\ DOMAIN m = 1 .. Len(m)
        /\ Len(n) \in Nat /\ DOMAIN n = 1 .. Len(n)
    BY LenProperties
  <2>2. QED
    BY <2>1
<1> DEFINE Same(i) == i \in 1 .. b /\ i \in 1 .. c /\ m[i] = n[i]
           Apart == {i \in Nat : i # 0 /\ ~ Same(i)}
<1>2. PICK i \in Apart : \A j \in Apart : i <= j
  <2>1. b + 1 \in Apart
    BY <1>1
  <2>2. Apart \in SUBSET Nat /\ Apart # {}
    BY <2>1
  <2> HIDE DEF Apart
  <2>3. QED
    BY <2>2, HasLeast
<1>3. i \in Nat /\ i # 0 /\ ~ Same(i)
  BY <1>2
<1>4. \A j \in 1 .. i - 1 : Same(j)
  <2> SUFFICES ASSUME NEW j \in 1 .. i - 1 PROVE Same(j)
    OBVIOUS
  <2>1. j \in Nat /\ j # 0 /\ ~ (i <= j)
    BY <1>3
  <2>2. j \notin Apart
    <3> HIDE DEF Apart
    <3>1. QED
      BY <2>1, <1>2
  <2>3. QED
    BY <2>1, <2>2
<1>5. \/ i \in 1 .. b \/ i \in 1 .. c
  <2> SUFFICES ASSUME i \notin 1 .. b, i \notin 1 .. c PROVE FALSE
    OBVIOUS
  <2>1. i > b /\ i > c
    BY <1>3, <1>1
  <2>2. \A j \in 1 .. i - 1 : j <= b /\ j <= c /\ m[j] = n[j]
    BY <1>4
  <2>3. i - 1 = b /\ i - 1 = c
    <3>1. PICK k \in Nat : i = k + 1
      <4>1. i - 1 \in Nat /\ i = (i - 1) + 1
        BY <1>3
      <4>2. QED
        BY <4>1
    <3>2. k >= b /\ k >= c
      BY <2>1, <3>1
    <3>3. k # 0 => k <= b /\ k <= c
      <4>1. k # 0 => k \in 1 .. i - 1
        BY <3>1
      <4> HIDE DEF Same
      <4>2. QED
        BY <4>1, <2>2
    <3>4. k = b /\ k = c
      BY <3>2, <3>3
    <3>5. QED
      BY <3>1, <3>4
  <2>4. \A j \in 1 .. b : m[j] = n[j]
    BY <2>2, <2>3
  <2>5. m = n
    BY <1>1, <2>3, <2>4, SeqEqual
  <2>6. QED
    BY <2>5
<1>6. i \in 1 .. b => m[i] \in Int
  BY <1>1
<1>7. i \in 1 .. c => n[i] \in Int
  BY <1>1
<1>8. Parts(m, n, i) \/ Parts(n, m, i)
  <2>1. \/ i \in 1 .. c /\ (i \in 1 .. b => m[i] < n[i])
        \/ i \in 1 .. b /\ (i \in 1 .. c => n[i] < m[i])
    BY <1>3, <1>5, <1>6, <1>7
  <2>2. QED
    BY <2>1, <1>1, <1>4 DEF Parts
<1>9. QED
  BY <1>8, LessParts

TreeEntries == [kind : {KindB, KindT}, name : Seq(Int), hash : Int \ {Nul}]

LEMMA EntryFields ==
  ASSUME NEW e \in TreeEntries
  PROVE  /\ e.kind \in {KindB, KindT} /\ e.name \in Seq(Int) /\ e.hash \in Int /\ e.hash # Nul
         /\ e = TreeEntry(e.kind, e.name, e.hash)
BY DEF TreeEntries, TreeEntry

LEMMA ListedIs ==
  ASSUME NEW es, Listed(es)
  PROVE  /\ es \in Seq(TreeEntries)
         /\ \A e \in Range(es) : e \in TreeEntries /\ ValidName(e.name)
         /\ \A d, e \in Range(es) : d.name = e.name => d = e
         /\ IsFiniteSet(Range(es)) /\ Cardinality(Range(es)) = Len(es)
<1>1. es \in Seq(TreeEntries)
  BY DEF Listed, TreeEntries
<1>2. PICK n \in Nat : n = Len(es) /\ DOMAIN es = 1 .. n
  <2>1. Len(es) \in Nat /\ DOMAIN es = 1 .. Len(es)
    BY <1>1, LenProperties
  <2>2. QED
    BY <2>1
<1>3. PICK R : R = Range(es) /\ R = {es[i] : i \in 1 .. n}
  BY <1>2 DEF Range
<1>4. \A e \in R : e \in TreeEntries /\ ValidName(e.name)
  <2>1. \A i \in 1 .. n : es[i] \in TreeEntries
    BY <1>1, <1>2
  <2>9. \A i \in 1 .. n : ValidName(es[i].name)
    BY <1>2 DEF Listed
  <2>2. QED
    BY <2>1, <2>9, <1>3
<1>5. \A i, j \in 1 .. n : es[i].name = es[j].name => i = j
  BY <1>2 DEF Listed
<1>6. \A d, e \in R : d.name = e.name => d = e
  BY <1>3, <1>5
<1>7. ExistsBijection(1 .. n, R)
  <2>1. es \in [1 .. n -> R]
    <3>1. es = [i \in 1 .. n |-> es[i]]
      BY <1>1, <1>2
    <3>2. QED
      BY <3>1, <1>3
  <2>2. IsInjective(es)
    BY <1>2, <1>5 DEF IsInjective
  <2>3. es \in Bijection(1 .. n, R)
    BY <2>1, <2>2, <1>3 DEF Bijection, Injection, Surjection
  <2>4. QED
    BY <2>3 DEF ExistsBijection
<1>8. IsFiniteSet(R) /\ Cardinality(R) = n
  BY <1>7, FS_CountingElements, FS_NatBijection
<1>9. QED
  BY <1>1, <1>2, <1>3, <1>4, <1>6, <1>8

\* The entries before another are fewer.
LEMMA FewerBefore ==
  ASSUME NEW es, Listed(es), NEW d \in Range(es), NEW e \in Range(es)
  PROVE  /\ Cardinality(Before(es, e)) \in 0 .. Len(es) - 1
         /\ Less(d.name, e.name) => Cardinality(Before(es, d)) < Cardinality(Before(es, e))
<1>1. PICK R : R = Range(es)
  OBVIOUS
<1>2. /\ IsFiniteSet(R) /\ Cardinality(R) = Len(es)
      /\ \A x \in R : x.name \in Seq(Int)
  BY <1>1, ListedIs, EntryFields
<1>3. /\ Before(es, d) = {x \in R : Less(x.name, d.name)}
      /\ Before(es, e) = {x \in R : Less(x.name, e.name)}
  BY <1>1 DEF Before
<1>4. d \notin Before(es, d) /\ e \notin Before(es, e) /\ d \in R /\ e \in R
  BY <1>1, <1>2, <1>3, LessIrreflexive
<1>5. PICK D, E : D = Before(es, d) /\ E = Before(es, e)
  OBVIOUS
<1>6. IsFiniteSet(D) /\ IsFiniteSet(E) /\ Cardinality(D) \in Nat /\ Cardinality(E) \in Nat
  BY <1>2, <1>3, <1>5, FS_Subset, FS_CardinalityType
<1>7. Cardinality(E) \in 0 .. Len(es) - 1
  <2>1. IsFiniteSet(E \cup {e}) /\ Cardinality(E \cup {e}) = Cardinality(E) + 1
    BY <1>4, <1>5, <1>6, FS_AddElement
  <2>2. Cardinality(E \cup {e}) <= Cardinality(R)
    BY <1>2, <1>3, <1>4, <1>5, FS_Subset
  <2>3. Cardinality(R) \in Nat
    BY <1>2, FS_CardinalityType
  <2>4. QED
    BY <2>1, <2>2, <2>3, <1>2, <1>6
<1>8. ASSUME Less(d.name, e.name) PROVE Cardinality(D) < Cardinality(E)
  <2>1. D \cup {d} \subseteq E
    <3>1. \A x \in D : Less(x.name, e.name)
      BY <1>2, <1>3, <1>4, <1>5, <1>8, LessTransitive
    <3>2. QED
      BY <3>1, <1>3, <1>4, <1>5, <1>8
  <2>2. Cardinality(D \cup {d}) = Cardinality(D) + 1
    BY <1>4, <1>5, <1>6, FS_AddElement
  <2>3. Cardinality(D \cup {d}) <= Cardinality(E)
    BY <2>1, <1>6, FS_Subset
  <2>4. QED
    BY <2>2, <2>3, <1>6
<1>9. QED
  BY <1>5, <1>7, <1>8

LEMMA SortedIs ==
  ASSUME NEW es, Listed(es)
  PROVE  /\ Sorted(es) \in Seq(TreeEntries)
         /\ Len(Sorted(es)) = Len(es)
         /\ Range(Sorted(es)) = Range(es)
         /\ \A i, j \in DOMAIN Sorted(es) : i < j => Less(Sorted(es)[i].name, Sorted(es)[j].name)
<1>1. PICK n \in Nat : n = Len(es) /\ DOMAIN es = 1 .. n
  <2>1. Len(es) \in Nat /\ DOMAIN es = 1 .. Len(es)
    BY ListedIs, LenProperties
  <2>2. QED
    BY <2>1
<1>2. PICK R : R = Range(es)
  OBVIOUS
<1>3. /\ IsFiniteSet(R) /\ Cardinality(R) = n
      /\ \A e \in R : e \in TreeEntries /\ e.name \in Seq(Int)
      /\ \A d, e \in R : d.name = e.name => d = e
  BY <1>1, <1>2, ListedIs, EntryFields
<1> DEFINE rank == [e \in R |-> Cardinality(Before(es, e))]
<1>4. /\ \A e \in R : rank[e] \in 0 .. n - 1
      /\ \A d, e \in R : Less(d.name, e.name) => rank[d] < rank[e]
  BY <1>1, <1>2, FewerBefore
<1>5. rank \in [R -> 0 .. n - 1]
  BY <1>4
<1>6. \A d, e \in R : rank[d] = rank[e] => d = e
  <2> SUFFICES ASSUME NEW d \in R, NEW e \in R, rank[d] = rank[e], d # e PROVE FALSE
    OBVIOUS
  <2>1. d.name # e.name
    BY <1>3
  <2>2. Less(d.name, e.name) \/ Less(e.name, d.name)
    BY <2>1, <1>3, LessTotal
  <2>3. rank[d] < rank[e] \/ rank[e] < rank[d]
    BY <2>2, <1>4
  <2>4. rank[d] \in 0 .. n - 1 /\ rank[e] \in 0 .. n - 1
    BY <1>4
  <2> HIDE DEF rank
  <2>5. QED
    BY <2>3, <2>4
<1>7. \A i \in 1 .. n : \E e \in R : rank[e] = i - 1
  <2> HIDE DEF rank
  <2>1. IsInjective(rank)
    <3>1. DOMAIN rank = R
      BY <1>5
    <3>2. QED
      BY <3>1, <1>6 DEF IsInjective
  <2>2. rank \in Injection(R, 0 .. n - 1)
    BY <2>1, <1>5 DEF Injection
  <2>3. IsFiniteSet(0 .. n - 1) /\ Cardinality(0 .. n - 1) = n
    <3>1. PICK k \in Int : k = n - 1
      OBVIOUS
    <3>2. IsFiniteSet(0 .. k) /\ Cardinality(0 .. k) = IF 0 > k THEN 0 ELSE k - 0 + 1
      BY FS_Interval
    <3>3. QED
      BY <3>1, <3>2
  <2>4. rank \in Surjection(R, 0 .. n - 1)
    BY <2>2, <2>3, <1>3, FS_Injection
  <2>5. \A k \in 0 .. n - 1 : \E e \in R : rank[e] = k
    BY <2>4 DEF Surjection
  <2>6. QED
    BY <2>5
<1>8. PICK s : s = Sorted(es)
  OBVIOUS
<1>9. s = [i \in 1 .. n |-> CHOOSE e \in R : Cardinality(Before(es, e)) = i - 1]
  BY <1>1, <1>2, <1>8 DEF Sorted
<1>10. \A i \in 1 .. n : s[i] \in R /\ rank[s[i]] = i - 1
  <2> SUFFICES ASSUME NEW i \in 1 .. n PROVE s[i] \in R /\ rank[s[i]] = i - 1
    OBVIOUS
  <2>1. \E e \in R : Cardinality(Before(es, e)) = i - 1
    BY <1>7
  <2>2. s[i] \in R /\ Cardinality(Before(es, s[i])) = i - 1
    <3>1. s[i] = CHOOSE e \in R : Cardinality(Before(es, e)) = i - 1
      BY <1>9
    <3>2. QED
      BY <2>1, <3>1
  <2>3. QED
    BY <2>2
<1> HIDE DEF rank
<1>11. s \in [1 .. n -> R]
  <2>1. \A i \in 1 .. n : s[i] \in R
    BY <1>10
  <2>2. DOMAIN s = 1 .. n /\ s = [i \in 1 .. n |-> s[i]]
    BY <1>9
  <2>3. QED
    BY <2>1, <2>2
<1>12. s \in Seq(TreeEntries) /\ Len(s) = n /\ DOMAIN s = 1 .. n
  <2>1. s \in [1 .. n -> TreeEntries]
    BY <1>3, <1>11
  <2>2. QED
    BY <2>1
<1>13. Range(s) = R
  <2>1. ASSUME NEW e \in R PROVE \E i \in 1 .. n : s[i] = e
    <3>1. PICK i \in 1 .. n : i - 1 = rank[e]
      <4>1. PICK k \in 0 .. n - 1 : k = rank[e]
        BY <1>4
      <4>2. k + 1 \in 1 .. n /\ k + 1 - 1 = k
        OBVIOUS
      <4>3. QED
        BY <4>1, <4>2
    <3>2. s[i] \in R /\ rank[s[i]] = rank[e]
      BY <3>1, <1>10
    <3>3. QED
      BY <3>2, <1>6
  <2>2. Range(s) = {s[i] : i \in 1 .. n}
    BY <1>12 DEF Range
  <2>3. \A i \in 1 .. n : s[i] \in R
    BY <1>10
  <2>4. QED
    BY <2>1, <2>2, <2>3
<1>14. ASSUME NEW i \in 1 .. n, NEW j \in 1 .. n, i < j
       PROVE  Less(s[i].name, s[j].name)
  <2>1. s[i] \in R /\ s[j] \in R /\ rank[s[i]] = i - 1 /\ rank[s[j]] = j - 1
    BY <1>10
  <2>2. s[i] # s[j]
    BY <2>1, <1>14
  <2>3. s[i].name # s[j].name
    BY <2>1, <2>2, <1>3
  <2>4. ~ Less(s[j].name, s[i].name)
    <3>1. ~ (j - 1 < i - 1)
      BY <1>14
    <3>2. QED
      BY <3>1, <2>1, <1>4
  <2>5. QED
    BY <2>1, <2>3, <2>4, <1>3, LessTotal
<1>15. QED
  BY <1>1, <1>2, <1>8, <1>12, <1>13, <1>14

-----------------------------------------------------------------------------
(***************************************************************************)
(* Reading, from the first position to the end                             *)
(***************************************************************************)
\* Whatever begins at a position ends behind it, at the end at the latest.
Onward(at, n) ==
  /\ n \in Nat /\ DOMAIN at = 1 .. n
  /\ \A p \in 1 .. n : \A x \in at[p] : x[2] \in p + 1 .. n + 1

\* What can be read from p on, given what can be read further on.
From(f, at, n, p) ==
  IF p \notin 1 .. n THEN {<<>>} ELSE UNION {{<<x[1]>> \o rest : rest \in f[x[2]]} : x \in at[p]}

IsRead(f, at, n, lo) == f = [p \in {q \in Nat : q >= lo} |-> From(f, at, n, p)]

LEMMA FromAgrees ==
  ASSUME NEW f, NEW g, NEW at, NEW n, Onward(at, n), NEW p \in Nat,
         \A q \in Nat : q > p => f[q] = g[q]
  PROVE  From(f, at, n, p) = From(g, at, n, p)
<1>1. ASSUME p \in 1 .. n, NEW x \in at[p] PROVE f[x[2]] = g[x[2]]
  <2>1. n \in Nat /\ x[2] \in p + 1 .. n + 1
    BY <1>1 DEF Onward
  <2>2. x[2] \in Nat /\ x[2] > p
    BY <2>1
  <2>3. QED
    BY <2>2
<1>2. ASSUME p \in 1 .. n
      PROVE  {{<<x[1]>> \o rest : rest \in f[x[2]]} : x \in at[p]}
             = {{<<x[1]>> \o rest : rest \in g[x[2]]} : x \in at[p]}
  <2> DEFINE F(x) == {<<x[1]>> \o rest : rest \in f[x[2]]}
             G(x) == {<<x[1]>> \o rest : rest \in g[x[2]]}
  <2>1. \A x \in at[p] : F(x) = G(x)
    BY <1>1, <1>2
  <2> HIDE DEF F, G
  <2>2. {F(x) : x \in at[p]} = {G(x) : x \in at[p]}
    BY <2>1
  <2>3. QED
    BY <2>2 DEF F, G
<1>3. QED
  BY <1>2 DEF From

LEMMA ReadExists ==
  ASSUME NEW at, NEW n, Onward(at, n)
  PROVE  \A k \in 0 .. n + 1 : \E f : IsRead(f, at, n, n + 1 - k)
<1> DEFINE Bad == {k \in 0 .. n + 1 : ~ \E f : IsRead(f, at, n, n + 1 - k)}
<1> SUFFICES ASSUME Bad # {} PROVE FALSE
  OBVIOUS
<1>0. n \in Nat
  BY DEF Onward
<1>1. PICK k \in Bad : \A m \in Bad : k <= m
  <2>1. Bad \in SUBSET Nat
    BY <1>0
  <2> HIDE DEF Bad
  <2>2. QED
    BY <2>1, HasLeast
<1>2. k \in 0 .. n + 1 /\ ~ \E f : IsRead(f, at, n, n + 1 - k)
  BY <1>1
<1>3. PICK lo \in Nat : lo = n + 1 - k
  <2>1. n + 1 - k \in Nat
    BY <1>0, <1>2
  <2>2. QED
    BY <2>1
<1>4. PICK f : \A p \in Nat : p > lo => f[p] = From(f, at, n, p)
  <2>1. CASE k = 0
    <3> DEFINE f == [p \in Nat |-> {<<>>}]
    <3>1. \A p \in Nat : p > lo => p \notin 1 .. n
      BY <2>1, <1>0, <1>3
    <3>2. \A p \in Nat : p > lo => f[p] = From(f, at, n, p)
      BY <3>1 DEF From
    <3>3. QED
      BY <3>2
  <2>2. CASE k # 0
    <3>1. k - 1 \in 0 .. n + 1 /\ ~ (k <= k - 1)
      BY <1>0, <1>2, <2>2
    <3>2. k - 1 \notin Bad
      <4> HIDE DEF Bad
      <4>1. QED
        BY <3>1, <1>1
    <3>3. n + 1 - (k - 1) = lo + 1
      BY <1>0, <1>2, <1>3
    <3>4. PICK f : IsRead(f, at, n, lo + 1)
      <4>1. \E f : IsRead(f, at, n, n + 1 - (k - 1))
        BY <3>1, <3>2
      <4>2. QED
        BY <3>3, <4>1
    <3>5. ASSUME NEW p \in Nat, p > lo PROVE f[p] = From(f, at, n, p)
      <4>1. p \in {q \in Nat : q >= lo + 1}
        BY <3>5, <1>3
      <4>2. QED
        BY <3>4, <4>1 DEF IsRead
    <3>6. QED
      BY <3>5
  <2>3. QED
    BY <2>1, <2>2
<1> DEFINE g == [p \in {q \in Nat : q >= lo} |-> From(f, at, n, p)]
<1>5. \A p \in Nat : p > lo => g[p] = f[p]
  <2>1. \A p \in Nat : p > lo => p \in {q \in Nat : q >= lo}
    BY <1>3
  <2>2. QED
    BY <2>1, <1>4
<1>6. ASSUME NEW p \in {q \in Nat : q >= lo} PROVE From(f, at, n, p) = From(g, at, n, p)
  <2>1. \A q \in Nat : q > p => f[q] = g[q]
    BY <1>3, <1>5
  <2> HIDE DEF g
  <2>2. QED
    BY <2>1, FromAgrees
<1>7. g = [p \in {q \in Nat : q >= lo} |-> From(g, at, n, p)]
  BY <1>6
<1>8. IsRead(g, at, n, lo)
  <2> HIDE DEF g
  <2>1. QED
    BY <1>7 DEF IsRead
<1>9. QED
  BY <1>2, <1>3, <1>8

LEMMA ReadAllIs ==
  ASSUME NEW at, NEW n, Onward(at, n)
  PROVE  \E f : /\ \A p \in Nat : f[p] = From(f, at, n, p)
                /\ ReadAll(at) = f[1]
<1>1. n + 1 \in 0 .. n + 1 /\ n + 1 - (n + 1) = 0 /\ DOMAIN at = 1 .. n
  BY DEF Onward
<1>2. PICK g : IsRead(g, at, n, 0)
  BY <1>1, ReadExists
<1>3. {q \in Nat : q >= 0} = Nat
  OBVIOUS
<1> DEFINE f == CHOOSE f : f = [p \in Nat |->
                  IF p \notin DOMAIN at THEN {<<>>}
                  ELSE UNION {{<<x[1]>> \o rest : rest \in f[x[2]]} : x \in at[p]}]
<1>4. g = [p \in Nat |->
             IF p \notin DOMAIN at THEN {<<>>}
             ELSE UNION {{<<x[1]>> \o rest : rest \in g[x[2]]} : x \in at[p]}]
  BY <1>1, <1>2, <1>3 DEF IsRead, From
<1>5. f = [p \in Nat |->
             IF p \notin DOMAIN at THEN {<<>>}
             ELSE UNION {{<<x[1]>> \o rest : rest \in f[x[2]]} : x \in at[p]}]
  <2>1. \E h : h = [p \in Nat |->
             IF p \notin DOMAIN at THEN {<<>>}
             ELSE UNION {{<<x[1]>> \o rest : rest \in h[x[2]]} : x \in at[p]}]
    BY <1>4
  <2>2. QED
    BY <2>1
<1>6. ReadAll(at) = f[1]
  BY DEF ReadAll
<1> HIDE DEF f
<1>7. \A p \in Nat : f[p] = From(f, at, n, p)
  <2>1. \A p \in Nat : f[p] = IF p \notin 1 .. n THEN {<<>>}
                               ELSE UNION {{<<x[1]>> \o rest : rest \in f[x[2]]} : x \in at[p]}
    BY <1>1, <1>5
  <2>2. QED
    BY <2>1 DEF From
<1>8. QED
  BY <1>6, <1>7

\* pos holds where each of xs begins, the first one at p, and where the last one
\* ends.
Reads(at, n, p, xs, pos) ==
  /\ pos \in [1 .. Len(xs) + 1 -> Nat]
  /\ pos[1] = p /\ pos[Len(xs) + 1] = n + 1
  /\ \A i \in 1 .. Len(xs) : pos[i] \in 1 .. n /\ <<xs[i], pos[i + 1]>> \in at[pos[i]]

OneAt(at, xs, pos) == \A i \in 1 .. Len(xs) : at[pos[i]] = {<<xs[i], pos[i + 1]>>}

\* Where only one thing begins at each position that is reached, there is only
\* one way to read.
LEMMA OneReading ==
  ASSUME NEW X, NEW at, NEW n, Onward(at, n), NEW xs \in Seq(X), NEW pos,
         Reads(at, n, 1, xs, pos), OneAt(at, xs, pos)
  PROVE  ReadAll(at) = {xs}
<1>1. PICK f : (\A p \in Nat : f[p] = From(f, at, n, p)) /\ ReadAll(at) = f[1]
  BY ReadAllIs
<1>2. PICK m \in Nat : m = Len(xs)
  BY LenProperties
<1>3. /\ pos \in [1 .. m + 1 -> Nat] /\ pos[1] = 1 /\ pos[m + 1] = n + 1
      /\ \A i \in 1 .. m : pos[i] \in 1 .. n /\ at[pos[i]] = {<<xs[i], pos[i + 1]>>}
      /\ n \in Nat
  BY <1>2 DEF Reads, Onward, OneAt
<1> DEFINE Bad == {k \in 0 .. m : f[pos[m - k + 1]] # {SubSeq(xs, m - k + 1, m)}}
<1>4. ASSUME Bad # {} PROVE FALSE
  <2>1. PICK k \in Bad : \A l \in Bad : k <= l
    <3>1. Bad \in SUBSET Nat
      OBVIOUS
    <3> HIDE DEF Bad
    <3>2. QED
      BY <1>4, <3>1, HasLeast
  <2>2. k \in 0 .. m /\ f[pos[m - k + 1]] # {SubSeq(xs, m - k + 1, m)}
    BY <2>1
  <2>3. CASE k = 0
    <3>1. m - k + 1 = m + 1
      BY <2>3
    <3>2. f[n + 1] = {<<>>}
      <4>1. n + 1 \in Nat /\ n + 1 \notin 1 .. n
        BY <1>3
      <4>2. QED
        BY <4>1, <1>1 DEF From
    <3>3. SubSeq(xs, m + 1, m) = <<>>
      BY SubSeqEmpty
    <3>4. QED
      BY <2>2, <3>1, <3>2, <3>3, <1>3
  <2>4. CASE k # 0
    <3>1. PICK i \in 1 .. m : i = m - k + 1 /\ m - (k - 1) + 1 = i + 1
      BY <2>2, <2>4
    <3>2. k - 1 \in 0 .. m /\ k - 1 \notin Bad
      <4>1. k - 1 \in 0 .. m /\ ~ (k <= k - 1)
        BY <2>2, <2>4
      <4> HIDE DEF Bad
      <4>2. QED
        BY <2>1, <4>1
    <3>3. f[pos[i + 1]] = {SubSeq(xs, i + 1, m)}
      BY <3>1, <3>2
    <3>4. PICK p \in Nat, q \in Nat : p = pos[i] /\ q = pos[i + 1]
      <4>1. i \in 1 .. m + 1 /\ i + 1 \in 1 .. m + 1
        OBVIOUS
      <4>2. QED
        BY <4>1, <1>3
    <3>5. p \in 1 .. n /\ at[p] = {<<xs[i], q>>} /\ f[q] = {SubSeq(xs, i + 1, m)}
      BY <3>3, <3>4, <1>3
    <3>6. f[p] = UNION {{<<x[1]>> \o rest : rest \in f[x[2]]} : x \in at[p]}
      BY <3>5, <1>1 DEF From
    <3>7. {{<<x[1]>> \o rest : rest \in f[x[2]]} : x \in at[p]}
          = {{<<xs[i]>> \o SubSeq(xs, i + 1, m)}}
      <4> DEFINE F(x) == {<<x[1]>> \o rest : rest \in f[x[2]]}
      <4>1. PICK r : r = SubSeq(xs, i + 1, m)
        OBVIOUS
      <4>2. F(<<xs[i], q>>) = {<<xs[i]>> \o r}
        BY <3>5, <4>1
      <4> HIDE DEF F
      <4>3. {F(x) : x \in at[p]} = {F(<<xs[i], q>>)}
        BY <3>5
      <4>4. QED
        BY <4>1, <4>2, <4>3 DEF F
    <3>8. f[p] = {<<xs[i]>> \o SubSeq(xs, i + 1, m)}
      BY <3>6, <3>7
    <3>9. <<xs[i]>> \o SubSeq(xs, i + 1, m) = SubSeq(xs, i, m)
      <4>1. i \in 1 .. Len(xs) /\ Len(xs) \in i .. Len(xs)
        BY <1>2
      <4>2. SubSeq(xs, i, Len(xs)) = <<xs[i]>> \o SubSeq(xs, i + 1, Len(xs))
        BY <4>1, SubSeqRecursiveFirst
      <4>3. QED
        BY <1>2, <4>2
    <3>10. QED
      BY <2>2, <3>1, <3>4, <3>8, <3>9
  <2>5. QED
    BY <2>3, <2>4
<1>5. f[1] = {SubSeq(xs, 1, m)}
  <2>1. m \in 0 .. m /\ m - m + 1 = 1
    OBVIOUS
  <2>2. m \notin Bad
    <3> HIDE DEF Bad
    <3>1. QED
      BY <1>4
  <2>3. QED
    BY <2>1, <2>2, <1>3
<1>6. SubSeq(xs, 1, m) = xs
  BY <1>2, SubSeqFull
<1>7. QED
  BY <1>1, <1>5, <1>6

\* Whatever is read is made of what begins at each position that is reached.
LEMMA EveryReading ==
  ASSUME NEW X, NEW at, NEW n, Onward(at, n),
         \A p \in 1 .. n : at[p] \in SUBSET (X \X Nat),
         NEW xs \in ReadAll(at)
  PROVE  xs \in Seq(X) /\ \E pos : Reads(at, n, 1, xs, pos)
<1>1. PICK f : (\A p \in Nat : f[p] = From(f, at, n, p)) /\ ReadAll(at) = f[1]
  BY ReadAllIs
<1>2. n \in Nat
  BY DEF Onward
<1> DEFINE Fine(s, p) == s \in Seq(X) /\ \E pos : Reads(at, n, p, s, pos)
           Bad == {k \in 0 .. n : \E s \in f[n + 1 - k] : ~ Fine(s, n + 1 - k)}
<1>3. ASSUME Bad # {} PROVE FALSE
  <2>1. PICK k \in Bad : \A l \in Bad : k <= l
    <3>1. Bad \in SUBSET Nat
      BY <1>2
    <3> HIDE DEF Bad
    <3>2. QED
      BY <1>3, <3>1, HasLeast
  <2>2. k \in 0 .. n /\ \E s \in f[n + 1 - k] : ~ Fine(s, n + 1 - k)
    BY <2>1
  <2>3. PICK p \in 1 .. n + 1 : p = n + 1 - k
    <3>1. n + 1 - k \in 1 .. n + 1
      BY <1>2, <2>2
    <3>2. QED
      BY <3>1
  <2>4. PICK s \in f[p] : ~ Fine(s, p)
    BY <2>2, <2>3
  <2>5. p \in Nat /\ f[p] = From(f, at, n, p)
    BY <1>1, <1>2
  <2>6. CASE p = n + 1
    <3>1. p \notin 1 .. n
      BY <2>6, <1>2
    <3>2. s = <<>>
      BY <2>4, <2>5, <3>1 DEF From
    <3> DEFINE pos == [i \in 1 .. 1 |-> p]
    <3>3. s \in Seq(X) /\ Len(s) = 0
      BY <3>2
    <3>4. Reads(at, n, p, s, pos)
      <4>1. pos \in [1 .. 0 + 1 -> Nat] /\ pos[1] = p /\ pos[0 + 1] = n + 1 /\ 1 .. 0 = {}
        BY <2>5, <2>6
      <4> HIDE DEF pos
      <4>2. QED
        BY <3>3, <4>1 DEF Reads
    <3> HIDE DEF pos
    <3>5. QED
      BY <2>4, <3>3, <3>4
  <2>7. CASE p # n + 1
    <3>1. p \in 1 .. n
      BY <2>7, <1>2
    <3>2. s \in UNION {{<<x[1]>> \o rest : rest \in f[x[2]]} : x \in at[p]}
      BY <2>4, <2>5, <3>1 DEF From
    <3>3. PICK x \in at[p] : s \in {<<x[1]>> \o rest : rest \in f[x[2]]}
      BY <3>2
    <3>4. PICK rest \in f[x[2]] : s = <<x[1]>> \o rest
      BY <3>3
    <3>5. x[1] \in X /\ x = <<x[1], x[2]>> /\ x[2] \in p + 1 .. n + 1
      BY <3>1, <3>3 DEF Onward
    <3>6. PICK q \in p + 1 .. n + 1 : q = x[2]
      BY <3>5
    <3>7. PICK l \in 0 .. n : n + 1 - l = q /\ ~ (k <= l)
      <4>1. n + 1 - q \in 0 .. n /\ n + 1 - (n + 1 - q) = q
        BY <1>2, <2>3
      <4>2. ~ (k <= n + 1 - q)
        BY <1>2, <2>2, <2>3
      <4>3. QED
        BY <4>1, <4>2
    <3>8. Fine(rest, q)
      <4>1. l \notin Bad
        <5> HIDE DEF Bad
        <5>1. QED
          BY <3>7, <2>1
      <4>2. \A r \in f[n + 1 - l] : Fine(r, n + 1 - l)
        BY <4>1
      <4>3. QED
        BY <3>4, <3>6, <3>7, <4>2
    <3>9. PICK old : rest \in Seq(X) /\ Reads(at, n, q, rest, old)
      BY <3>8
    <3>10. PICK m \in Nat : m = Len(rest)
      BY <3>9
    <3>11. /\ old \in [1 .. m + 1 -> Nat] /\ old[1] = q /\ old[m + 1] = n + 1
           /\ \A i \in 1 .. m : old[i] \in 1 .. n /\ <<rest[i], old[i + 1]>> \in at[old[i]]
      BY <3>9, <3>10 DEF Reads
    <3>12. /\ s \in Seq(X) /\ Len(s) = m + 1 /\ s[1] = x[1]
           /\ \A i \in 1 .. m : s[i + 1] = rest[i]
      <4>1. PICK y \in X : y = x[1]
        BY <3>5
      <4>2. <<y>> \in Seq(X) /\ Len(<<y>>) = 1 /\ <<y>>[1] = y
        OBVIOUS
      <4>3. s = <<y>> \o rest
        BY <3>4, <4>1
      <4>4. s \in Seq(X) /\ Len(s) = 1 + m /\ \A i \in 1 .. 1 + m : s[i] = IF i <= 1 THEN y ELSE rest[i - 1]
        <5>1. PICK one \in Seq(X) : one = <<y>> /\ Len(one) = 1 /\ one[1] = y
          BY <4>2
        <5>2. s = one \o rest
          BY <4>3, <5>1
        <5>3. s \in Seq(X) /\ Len(s) = 1 + m
          BY <5>1, <5>2, <3>9, <3>10
        <5>4. \A i \in 1 .. 1 + m : s[i] = IF i <= 1 THEN one[i] ELSE rest[i - 1]
          BY <5>1, <5>2, <3>9, <3>10, ConcatProperties
        <5>5. QED
          BY <5>1, <5>3, <5>4
      <4>5. \A i \in 1 .. m : i + 1 \in 1 .. 1 + m /\ ~ (i + 1 <= 1) /\ i + 1 - 1 = i
        OBVIOUS
      <4>6. QED
        BY <4>1, <4>4, <4>5
    <3> DEFINE pos == [i \in 1 .. m + 2 |-> IF i = 1 THEN p ELSE old[i - 1]]
    <3>13. pos \in [1 .. m + 2 -> Nat] /\ pos[1] = p /\ pos[m + 2] = n + 1
      <4>1. \A i \in 1 .. m + 2 : i # 1 => i - 1 \in 1 .. m + 1
        OBVIOUS
      <4>2. m + 2 \in 1 .. m + 2 /\ m + 2 # 1 /\ m + 2 - 1 = m + 1 /\ 1 \in 1 .. m + 2
        OBVIOUS
      <4>3. QED
        BY <4>1, <4>2, <3>11, <2>5
    <3>14. ASSUME NEW i \in 1 .. m + 1
           PROVE  pos[i] \in 1 .. n /\ <<s[i], pos[i + 1]>> \in at[pos[i]]
      <4>1. CASE i = 1
        <5>1. pos[i] = p /\ pos[i + 1] = q /\ s[i] = x[1]
          BY <4>1, <3>11, <3>12
        <5> HIDE DEF pos
        <5>2. QED
          BY <5>1, <3>1, <3>3, <3>5, <3>6
      <4>2. CASE i # 1
        <5>1. PICK j \in 1 .. m : i = j + 1
          <6>1. i - 1 \in 1 .. m /\ i = i - 1 + 1
            BY <4>2
          <6>2. QED
            BY <6>1
        <5>2. pos[i] = old[j] /\ pos[i + 1] = old[j + 1] /\ s[i] = rest[j]
          BY <5>1, <3>12
        <5> HIDE DEF pos
        <5>3. QED
          BY <5>2, <3>11
      <4>3. QED
        BY <4>1, <4>2
    <3>15. Reads(at, n, p, s, pos)
      <4> HIDE DEF pos
      <4>1. m + 1 + 1 = m + 2
        OBVIOUS
      <4>2. QED
        BY <4>1, <3>12, <3>13, <3>14 DEF Reads
    <3> HIDE DEF pos
    <3>16. QED
      BY <2>4, <3>12, <3>15
  <2>8. QED
    BY <2>6, <2>7
<1>4. n \in 0 .. n /\ n + 1 - n = 1
  BY <1>2
<1>5. n \notin Bad
  <2> HIDE DEF Bad
  <2>1. QED
    BY <1>3
<1>6. \A s \in f[1] : Fine(s, 1)
  BY <1>4, <1>5
<1>7. QED
  BY <1>1, <1>6

\* What is laid out is the pieces joined.
LEMMA LaidOutOnce ==
  ASSUME NEW ss \in Seq(Seq(Int)), NEW whole, NEW at, LaidOut(ss, whole, at)
  PROVE  whole = FlattenSeq(ss)
<1>1. PICK other, old : other = FlattenSeq(ss) /\ LaidOut(ss, other, old)
  BY Layout
<1>2. PICK n \in Nat : n = Len(ss)
  OBVIOUS
<1>3. PICK size : size = [i \in 1 .. n |-> Len(ss[i])]
  OBVIOUS
<1>4. \A i \in 1 .. n : size[i] \in Nat /\ size[i] = Len(ss[i])
  BY <1>2, <1>3
<1>5. /\ whole \in Seq(Int) /\ at \in [1 .. n + 1 -> Nat]
      /\ at[1] = 0 /\ at[n + 1] = Len(whole)
      /\ \A i \in 1 .. n : at[i + 1] = at[i] + size[i]
      /\ \A i \in 1 .. n : \A k \in 1 .. size[i] : whole[at[i] + k] = ss[i][k]
  BY <1>2, <1>4 DEF LaidOut
<1>6. /\ other \in Seq(Int) /\ old \in [1 .. n + 1 -> Nat]
      /\ old[1] = 0 /\ old[n + 1] = Len(other)
      /\ \A i \in 1 .. n : old[i + 1] = old[i] + size[i]
      /\ \A i \in 1 .. n : \A k \in 1 .. size[i] : other[old[i] + k] = ss[i][k]
  BY <1>1, <1>2, <1>4 DEF LaidOut
<1>7. \A i \in 1 .. n + 1 : at[i] = old[i]
  <2> DEFINE Bad == {i \in 1 .. n + 1 : at[i] # old[i]}
  <2> SUFFICES ASSUME Bad # {} PROVE FALSE
    OBVIOUS
  <2>1. PICK i \in Bad : \A j \in Bad : i <= j
    <3>1. Bad \in SUBSET Nat
      OBVIOUS
    <3> HIDE DEF Bad
    <3>2. QED
      BY <3>1, HasLeast
  <2>2. i \in 1 .. n + 1 /\ at[i] # old[i] /\ i # 1
    BY <2>1, <1>5, <1>6
  <2>3. PICK j \in 1 .. n : i = j + 1
    <3>1. i - 1 \in 1 .. n /\ i = i - 1 + 1
      BY <2>2
    <3>2. QED
      BY <3>1
  <2>4. at[j] = old[j]
    <3>1. j \in 1 .. n + 1 /\ ~ (i <= j)
      BY <2>3
    <3>2. j \notin Bad
      <4> HIDE DEF Bad
      <4>1. QED
        BY <3>1, <2>1
    <3>3. QED
      BY <3>1, <3>2
  <2>5. QED
    BY <2>2, <2>3, <2>4, <1>5, <1>6
<1>8. PICK end \in Nat : end = Len(whole) /\ end = Len(other)
  <2>1. n + 1 \in 1 .. n + 1
    OBVIOUS
  <2>2. Len(whole) = Len(other)
    BY <2>1, <1>5, <1>6, <1>7
  <2>3. QED
    BY <2>2, <1>5
<1>9. ASSUME NEW k \in 1 .. end PROVE whole[k] = other[k]
  <2> DEFINE Behind == {j \in 1 .. n + 1 : k <= at[j]}
  <2>1. n + 1 \in Behind
    BY <1>5, <1>8
  <2>2. PICK j \in Behind : \A l \in Behind : j <= l
    <3>1. Behind \in SUBSET Nat
      OBVIOUS
    <3> HIDE DEF Behind
    <3>2. QED
      BY <2>1, <3>1, HasLeast
  <2>3. j \in 1 .. n + 1 /\ k <= at[j] /\ j # 1
    BY <2>2, <1>5
  <2>4. PICK i \in 1 .. n : j = i + 1
    <3>1. j - 1 \in 1 .. n /\ j = j - 1 + 1
      BY <2>3
    <3>2. QED
      BY <3>1
  <2>5. ~ (k <= at[i])
    <3>1. i \in 1 .. n + 1 /\ ~ (j <= i)
      BY <2>4
    <3>2. i \notin Behind
      <4> HIDE DEF Behind
      <4>1. QED
        BY <3>1, <2>2
    <3>3. QED
      BY <3>1, <3>2
  <2>6. PICK a \in Nat, m \in Nat : a = at[i] /\ a = old[i] /\ m = size[i] /\ at[j] = a + m
    <3>1. i \in 1 .. n + 1
      OBVIOUS
    <3>2. at[i] \in Nat /\ at[i] = old[i]
      BY <3>1, <1>5, <1>7
    <3>3. QED
      BY <3>2, <2>4, <1>4, <1>5
  <2>7. PICK d \in 1 .. m : k = a + d
    <3>1. k - a \in 1 .. m /\ k = a + (k - a)
      BY <2>3, <2>5, <2>6
    <3>2. QED
      BY <3>1
  <2>8. whole[a + d] = ss[i][d] /\ other[a + d] = ss[i][d]
    BY <2>6, <1>5, <1>6
  <2>9. QED
    BY <2>7, <2>8
<1>10. whole = other
  BY <1>5, <1>6, <1>8, <1>9, SeqEqual
<1>11. QED
  BY <1>1, <1>10

\* A piece of the data begins at p.
LiesAt(piece, data, p) ==
  /\ p \in Nat /\ p >= 1 /\ p - 1 + Len(piece) <= Len(data)
  /\ \A k \in 1 .. Len(piece) : data[p - 1 + k] = piece[k]

Joined(bytes, xs) == FlattenSeq([i \in DOMAIN xs |-> bytes[xs[i]]])

LEMMA JoinedLies ==
  ASSUME NEW X, NEW bytes \in [X -> Seq(Int)], NEW xs \in Seq(X)
  PROVE  \E ss \in Seq(Seq(Int)) :
           /\ Len(ss) = Len(xs)
           /\ \A i \in 1 .. Len(xs) : ss[i] = bytes[xs[i]]
           /\ Joined(bytes, xs) = FlattenSeq(ss)
           /\ \E at : LaidOut(ss, Joined(bytes, xs), at)
<1>1. PICK n \in Nat : n = Len(xs) /\ DOMAIN xs = 1 .. n
  OBVIOUS
<1> DEFINE all == [i \in 1 .. n |-> bytes[xs[i]]]
<1>2. \A i \in 1 .. n : bytes[xs[i]] \in Seq(Int)
  BY <1>1
<1>3. all \in Seq(Seq(Int)) /\ Len(all) = n
  BY <1>2
<1>4. Joined(bytes, xs) = FlattenSeq(all)
  BY <1>1 DEF Joined
<1>5. PICK ss \in Seq(Seq(Int)) : ss = all
  BY <1>3
<1>6. PICK at : LaidOut(ss, FlattenSeq(ss), at)
  BY Layout
<1>7. \A i \in 1 .. n : ss[i] = bytes[xs[i]]
  BY <1>5
<1> HIDE DEF all
<1>8. QED
  BY <1>1, <1>3, <1>4, <1>5, <1>6, <1>7

LEMMA JoinedType ==
  ASSUME NEW X, NEW bytes, bytes \in [X -> Seq(Int)], NEW xs \in Seq(X)
  PROVE  Joined(bytes, xs) \in Seq(Int)
BY JoinedLies DEF LaidOut

\* The bytes of each thing.
Table(X, bytes) == bytes \in [X -> Seq(Int)]

\* Each of xs is the only thing that begins where its bytes are.
Alone(bytes, xs, data, at) ==
  \A i \in 1 .. Len(xs) :
    /\ Len(bytes[xs[i]]) # 0
    /\ \A p \in 1 .. Len(data) :
         LiesAt(bytes[xs[i]], data, p) => at[p] = {<<xs[i], p + Len(bytes[xs[i]])>>}

\* Things begin only where their bytes are.
Stands(X, bytes, data, at) ==
  \A p \in 1 .. Len(data) :
    /\ at[p] \in SUBSET (X \X Nat)
    /\ \A x \in at[p] : LiesAt(bytes[x[1]], data, p) /\ x[2] = p + Len(bytes[x[1]])

\* What was written is what is read.
LEMMA ReadsWhatIsWritten ==
  ASSUME NEW X, NEW bytes, Table(X, bytes), NEW xs \in Seq(X), NEW at,
         Onward(at, Len(Joined(bytes, xs))), Alone(bytes, xs, Joined(bytes, xs), at)
  PROVE  ReadAll(at) = {xs}
<1>0. bytes \in [X -> Seq(Int)]
  BY DEF Table
<1>1. PICK m \in Nat : m = Len(xs)
  OBVIOUS
<1>2. PICK ss \in Seq(Seq(Int)) :
        /\ Len(ss) = m
        /\ \A i \in 1 .. m : ss[i] = bytes[xs[i]]
        /\ \E old : LaidOut(ss, Joined(bytes, xs), old)
  BY <1>0, <1>1, JoinedLies
<1>3. PICK old : LaidOut(ss, Joined(bytes, xs), old)
  BY <1>2
<1>4. PICK data \in Seq(Int) : data = Joined(bytes, xs)
  BY <1>0, JoinedType
<1>5. PICK n \in Nat : n = Len(data)
  OBVIOUS
<1>6. PICK size : size = [i \in 1 .. m |-> Len(ss[i])]
  OBVIOUS
<1>7. \A i \in 1 .. m : size[i] = Len(ss[i]) /\ size[i] \in Nat /\ size[i] # 0
  <2>1. \A i \in 1 .. m : size[i] = Len(ss[i])
    BY <1>6
  <2>2. \A i \in 1 .. m : Len(ss[i]) \in Nat
    BY <1>2
  <2>3. \A i \in 1 .. m : Len(ss[i]) # 0
    BY <1>1, <1>2 DEF Alone
  <2>4. QED
    BY <2>1, <2>2, <2>3
<1>8. /\ old \in [1 .. m + 1 -> Nat] /\ old[1] = 0 /\ old[m + 1] = n
      /\ \A i \in 1 .. m : old[i + 1] = old[i] + size[i]
      /\ \A i \in 1 .. m : old[i] + size[i] <= n
      /\ \A i \in 1 .. m : \A k \in 1 .. size[i] : data[old[i] + k] = ss[i][k]
  <2>1. LaidOut(ss, data, old) /\ Len(ss) = m /\ Len(data) = n
    BY <1>2, <1>3, <1>4, <1>5
  <2>2. /\ old \in [1 .. m + 1 -> Nat] /\ old[1] = 0 /\ old[m + 1] = n
        /\ \A i \in 1 .. m : old[i + 1] = old[i] + Len(ss[i])
        /\ \A i \in 1 .. m : old[i] + Len(ss[i]) <= n
        /\ \A i \in 1 .. m : \A k \in 1 .. Len(ss[i]) : data[old[i] + k] = ss[i][k]
    BY <2>1 DEF LaidOut
  <2>3. /\ \A i \in 1 .. m : old[i + 1] = old[i] + size[i]
        /\ \A i \in 1 .. m : old[i] + size[i] <= n
    <3>1. ASSUME NEW i \in 1 .. m PROVE old[i + 1] = old[i] + size[i] /\ old[i] + size[i] <= n
      <4>1. PICK l : l = Len(ss[i]) /\ l = size[i]
        BY <1>7
      <4>2. old[i + 1] = old[i] + l /\ old[i] + l <= n
        BY <2>2, <4>1
      <4>3. QED
        BY <4>1, <4>2
    <3>2. QED
      BY <3>1
  <2>4. ASSUME NEW i \in 1 .. m, NEW k \in 1 .. size[i] PROVE data[old[i] + k] = ss[i][k]
    <3>1. k \in 1 .. Len(ss[i])
      BY <1>7
    <3>2. QED
      BY <3>1, <2>2
  <2>5. QED
    BY <2>2, <2>3, <2>4
<1> DEFINE pos == [i \in 1 .. m + 1 |-> old[i] + 1]
<1>9. pos \in [1 .. m + 1 -> Nat] /\ pos[1] = 1 /\ pos[m + 1] = n + 1
  BY <1>8
<1>10. ASSUME NEW i \in 1 .. m
       PROVE  pos[i] \in 1 .. n /\ at[pos[i]] = {<<xs[i], pos[i + 1]>>}
  <2>1. PICK a \in Nat, l \in Nat : a = old[i] /\ l = size[i] /\ l # 0 /\ old[i + 1] = a + l /\ a + l <= n
    <3>1. i \in 1 .. m + 1
      OBVIOUS
    <3>2. old[i] \in Nat /\ size[i] \in Nat /\ size[i] # 0
      BY <3>1, <1>7, <1>8
    <3>3. old[i + 1] = old[i] + size[i] /\ old[i] + size[i] <= n
      BY <1>8
    <3>4. QED
      BY <3>2, <3>3
  <2>2. pos[i] = a + 1 /\ pos[i + 1] = a + 1 + l
    <3>1. i \in 1 .. m + 1 /\ i + 1 \in 1 .. m + 1
      OBVIOUS
    <3>2. pos[i] = old[i] + 1 /\ pos[i + 1] = old[i + 1] + 1
      BY <3>1
    <3> HIDE DEF pos
    <3>3. QED
      BY <3>2, <2>1
  <2>3. a + 1 \in 1 .. n
    <3>1. l >= 1 /\ a + l <= n
      BY <2>1
    <3>2. QED
      BY <3>1
  <2>4. bytes[xs[i]] = ss[i] /\ Len(ss[i]) = l
    BY <2>1, <1>2, <1>7
  <2>5. LiesAt(ss[i], data, a + 1)
    <3>1. a + 1 \in Nat /\ a + 1 >= 1 /\ a + 1 - 1 = a
      OBVIOUS
    <3>2. \A k \in 1 .. l : data[a + k] = ss[i][k]
      BY <2>1, <1>8
    <3>3. PICK piece, p : piece = ss[i] /\ p = a + 1 /\ p - 1 = a
      BY <3>1
    <3>4. /\ p \in Nat /\ p >= 1 /\ p - 1 + Len(piece) <= Len(data)
          /\ \A k \in 1 .. Len(piece) : data[p - 1 + k] = piece[k]
      BY <3>1, <3>2, <3>3, <2>1, <2>4, <1>5
    <3>5. LiesAt(piece, data, p)
      BY <3>4 DEF LiesAt
    <3>6. QED
      BY <3>3, <3>5
  <2>6. at[a + 1] = {<<xs[i], a + 1 + l>>}
    <3>1. i \in 1 .. Len(xs) /\ a + 1 \in 1 .. Len(data) /\ LiesAt(bytes[xs[i]], data, a + 1)
      BY <2>3, <2>4, <2>5, <1>1, <1>5
    <3>2. Alone(bytes, xs, data, at)
      BY <1>4
    <3>3. at[a + 1] = {<<xs[i], a + 1 + Len(bytes[xs[i]])>>}
      BY <3>1, <3>2 DEF Alone
    <3>4. QED
      BY <3>3, <2>4
  <2> HIDE DEF pos
  <2>7. QED
    BY <2>2, <2>3, <2>6
<1>11. Reads(at, n, 1, xs, pos)
  <2> HIDE DEF pos
  <2>1. QED
    BY <1>1, <1>9, <1>10 DEF Reads
<1>12. Onward(at, n)
  BY <1>4, <1>5
<1> HIDE DEF pos
<1>13. \A i \in 1 .. Len(xs) : at[pos[i]] = {<<xs[i], pos[i + 1]>>}
  BY <1>1, <1>10
<1>14. PICK there : there = pos
  OBVIOUS
<1>15. Reads(at, n, 1, xs, there) /\ OneAt(at, xs, there)
  BY <1>11, <1>13, <1>14 DEF OneAt
<1>16. QED
  BY <1>12, <1>15, OneReading

\* What is read is what was written.
LEMMA WritesWhatIsRead ==
  ASSUME NEW X, NEW bytes, Table(X, bytes), NEW data \in Seq(Int), NEW at,
         Onward(at, Len(data)), Stands(X, bytes, data, at),
         NEW xs \in ReadAll(at)
  PROVE  /\ xs \in Seq(X) /\ Joined(bytes, xs) = data
         /\ \A i \in 1 .. Len(xs) : \E p \in 1 .. Len(data) : \E q : <<xs[i], q>> \in at[p]
<1>1. PICK n \in Nat : n = Len(data)
  OBVIOUS
<1>2. xs \in Seq(X) /\ \E pos : Reads(at, n, 1, xs, pos)
  <2>1. \A p \in 1 .. n : at[p] \in SUBSET (X \X Nat)
    BY <1>1 DEF Stands
  <2>2. Onward(at, n)
    BY <1>1
  <2>3. QED
    BY <2>1, <2>2, EveryReading
<1>3. PICK pos : Reads(at, n, 1, xs, pos)
  BY <1>2
<1>4. PICK m \in Nat : m = Len(xs)
  BY <1>2
<1>5. /\ pos \in [1 .. m + 1 -> Nat] /\ pos[1] = 1 /\ pos[m + 1] = n + 1
      /\ \A i \in 1 .. m : pos[i] \in 1 .. n /\ <<xs[i], pos[i + 1]>> \in at[pos[i]]
  BY <1>3, <1>4 DEF Reads
<1>6. PICK ss \in Seq(Seq(Int)) :
        /\ Len(ss) = m
        /\ \A i \in 1 .. m : ss[i] = bytes[xs[i]]
        /\ Joined(bytes, xs) = FlattenSeq(ss)
  <2>1. bytes \in [X -> Seq(Int)]
    BY DEF Table
  <2>2. QED
    BY <2>1, <1>2, <1>4, JoinedLies
<1> DEFINE old == [i \in 1 .. m + 1 |-> pos[i] - 1]
<1>7. old \in [1 .. m + 1 -> Nat] /\ old[1] = 0 /\ old[m + 1] = n
  <2>1. ASSUME NEW i \in 1 .. m + 1 PROVE pos[i] - 1 \in Nat
    <3>1. CASE i = m + 1
      BY <3>1, <1>5
    <3>2. CASE i # m + 1
      <4>1. i \in 1 .. m
        BY <3>2
      <4>2. pos[i] \in 1 .. n
        BY <4>1, <1>5
      <4>3. QED
        BY <4>2
    <3>3. QED
      BY <3>1, <3>2
  <2>2. QED
    BY <2>1, <1>5
<1>8. ASSUME NEW i \in 1 .. m
      PROVE  /\ old[i + 1] = old[i] + Len(ss[i])
             /\ old[i] + Len(ss[i]) <= n
             /\ \A k \in 1 .. Len(ss[i]) : data[old[i] + k] = ss[i][k]
  <2>1. PICK p \in 1 .. n, q \in Nat : p = pos[i] /\ q = pos[i + 1]
    <3>1. i + 1 \in 1 .. m + 1
      OBVIOUS
    <3>2. pos[i] \in 1 .. n /\ pos[i + 1] \in Nat
      BY <3>1, <1>5
    <3>3. QED
      BY <3>2
  <2>2. <<xs[i], q>> \in at[p]
    BY <2>1, <1>5
  <2>3. LiesAt(bytes[xs[i]], data, p) /\ q = p + Len(bytes[xs[i]])
    <3>1. LiesAt(bytes[<<xs[i], q>>[1]], data, p) /\ <<xs[i], q>>[2] = p + Len(bytes[<<xs[i], q>>[1]])
      BY <2>2, <1>1 DEF Stands
    <3>2. QED
      BY <3>1
  <2>4. PICK l \in Nat : l = Len(ss[i])
    BY <1>6
  <2>5. old[i] = p - 1 /\ old[i + 1] = q - 1
    <3>1. i \in 1 .. m + 1 /\ i + 1 \in 1 .. m + 1
      OBVIOUS
    <3>2. QED
      BY <3>1, <2>1
  <2>6. LiesAt(ss[i], data, p) /\ q = p + l
    BY <2>3, <2>4, <1>6
  <2>7. /\ p - 1 + l <= n
        /\ \A k \in 1 .. l : data[p - 1 + k] = ss[i][k]
    BY <2>4, <2>6, <1>1 DEF LiesAt
  <2> HIDE DEF old
  <2>8. QED
    BY <2>4, <2>5, <2>6, <2>7
<1>9. LaidOut(ss, data, old)
  <2> HIDE DEF old
  <2>1. QED
    BY <1>1, <1>6, <1>7, <1>8 DEF LaidOut
<1>10. data = FlattenSeq(ss)
  BY <1>9, LaidOutOnce
<1>11. \A i \in 1 .. Len(xs) : \E p \in 1 .. Len(data) : \E q : <<xs[i], q>> \in at[p]
  BY <1>1, <1>4, <1>5
<1>12. QED
  BY <1>2, <1>6, <1>10, <1>11

-----------------------------------------------------------------------------
(***************************************************************************)
(* Names                                                                   *)
(***************************************************************************)
CharsToBytes == [c \in Int |-> CharBytes(c)]

CharsOf(bytes) == [p \in DOMAIN bytes |-> CharAt(bytes, p)]

LEMMA CharBytesIs ==
  ASSUME NEW c \in Int
  PROVE  /\ CharBytes(c) \in Seq(Int)
         /\ c = Wide => /\ Len(CharBytes(c)) = 2
                        /\ CharBytes(c)[1] = c /\ CharBytes(c)[2] = Trail
         /\ c # Wide => Len(CharBytes(c)) = 1 /\ CharBytes(c)[1] = c
<1>1. CASE c = Wide
  <2>1. CharBytes(c) = <<c, Trail>> /\ Trail \in Int
    BY <1>1 DEF CharBytes, Trail
  <2>2. QED
    BY <2>1, <1>1
<1>2. CASE c # Wide
  <2>1. CharBytes(c) = <<c>>
    BY <1>2 DEF CharBytes
  <2>2. QED
    BY <2>1, <1>2
<1>3. QED
  BY <1>1, <1>2

LEMMA CharTable ==
  /\ CharsToBytes \in [Int -> Seq(Int)] /\ Table(Int, CharsToBytes)
  /\ \A c \in Int : CharsToBytes[c] = CharBytes(c) /\ Len(CharsToBytes[c]) \in 1 .. 2
  /\ \A c \in Int : Len(CharsToBytes[c]) # 0
<1>1. \A c \in Int : CharBytes(c) \in Seq(Int) /\ Len(CharBytes(c)) \in 1 .. 2
  <2> SUFFICES ASSUME NEW c \in Int PROVE CharBytes(c) \in Seq(Int) /\ Len(CharBytes(c)) \in 1 .. 2
    OBVIOUS
  <2>1. CharBytes(c) \in Seq(Int) /\ (Len(CharBytes(c)) = 1 \/ Len(CharBytes(c)) = 2)
    BY CharBytesIs
  <2>2. QED
    BY <2>1
<1>2. \A c \in Int : Len(CharBytes(c)) # 0
  <2>1. \A c \in Int : Len(CharBytes(c)) = 1 \/ Len(CharBytes(c)) = 2
    BY CharBytesIs
  <2>2. QED
    BY <2>1
<1>3. \A c \in Int : CharsToBytes[c] = CharBytes(c)
  BY DEF CharsToBytes
<1>4. CharsToBytes \in [Int -> Seq(Int)]
  BY <1>1 DEF CharsToBytes
<1>5. QED
  BY <1>1, <1>2, <1>3, <1>4 DEF Table

LEMMA EncodeIs ==
  ASSUME NEW name \in Seq(Int)
  PROVE  Encode(name) = Joined(CharsToBytes, name) /\ Encode(name) \in Seq(Int)
<1>1. \A i \in DOMAIN name : CharsToBytes[name[i]] = CharBytes(name[i])
  BY CharTable
<1>2. [i \in DOMAIN name |-> CharsToBytes[name[i]]] = [i \in DOMAIN name |-> CharBytes(name[i])]
  BY <1>1
<1>3. Encode(name) = Joined(CharsToBytes, name)
  BY <1>2 DEF Encode, Joined
<1>4. Joined(CharsToBytes, name) \in Seq(Int)
  BY CharTable, JoinedType
<1>5. QED
  BY <1>3, <1>4

LEMMA EncodeSome ==
  ASSUME NEW name \in Seq(Int), name # <<>>
  PROVE  Len(Encode(name)) >= 1
<1>1. PICK n \in Nat : n = Len(name) /\ n # 0
  <2>1. Len(name) \in Nat /\ Len(name) # 0
    OBVIOUS
  <2>2. QED
    BY <2>1
<1>2. PICK ss \in Seq(Seq(Int)) :
        /\ Len(ss) = n
        /\ \A i \in 1 .. n : ss[i] = CharsToBytes[name[i]]
        /\ \E at : LaidOut(ss, Joined(CharsToBytes, name), at)
  BY <1>1, CharTable, JoinedLies
<1>3. PICK whole, at : whole = Encode(name) /\ LaidOut(ss, whole, at)
  BY <1>2, EncodeIs
<1>4. 1 \in 1 .. n /\ 1 \in 1 .. n + 1
  BY <1>1
<1>5. Len(ss[1]) \in 1 .. 2
  <2>1. ss[1] = CharsToBytes[name[1]] /\ name[1] \in Int
    BY <1>1, <1>2, <1>4
  <2>2. QED
    BY <2>1, CharTable
<1>6. PICK l \in 1 .. 2 : l = Len(ss[1])
  BY <1>5
<1>7. at[1] = 0 /\ at[1] + l <= Len(whole) /\ Len(whole) \in Nat
  BY <1>2, <1>3, <1>4, <1>6 DEF LaidOut
<1>8. Len(whole) >= 1
  BY <1>7
<1>9. QED
  BY <1>3, <1>8

CharIsRead(c, bytes, p) ==
  c # Trail /\ LiesAt(CharsToBytes[c], bytes, p)
    => CharsOf(bytes)[p] = {<<c, p + Len(CharsToBytes[c])>>}

\* A character is read where its bytes are, and only there.
LEMMA CharsAreRead ==
  ASSUME NEW bytes \in Seq(Int)
  PROVE  /\ Onward(CharsOf(bytes), Len(bytes))
         /\ Stands(Int, CharsToBytes, bytes, CharsOf(bytes))
         /\ \A p \in 1 .. Len(bytes) : \A c \in Int : CharIsRead(c, bytes, p)
<1>1. PICK n \in Nat : n = Len(bytes) /\ DOMAIN bytes = 1 .. n
  OBVIOUS
<1>2. PICK at : at = CharsOf(bytes)
  OBVIOUS
<1>3. DOMAIN at = 1 .. n /\ \A p \in 1 .. n : at[p] = CharAt(bytes, p)
  BY <1>1, <1>2 DEF CharsOf
<1>4. ASSUME NEW p \in 1 .. n
      PROVE  CharAt(bytes, p) =
               IF bytes[p] # Trail /\ (bytes[p] = Wide => p < n /\ bytes[p + 1] = Trail)
                 THEN {<<bytes[p], p + Len(CharBytes(bytes[p]))>>} ELSE {}
  BY <1>1 DEF CharAt
<1>5. ASSUME NEW p \in 1 .. n, NEW x \in at[p]
      PROVE  /\ x \in Int \X Nat /\ x[2] \in p + 1 .. n + 1
             /\ LiesAt(CharsToBytes[x[1]], bytes, p) /\ x[2] = p + Len(CharsToBytes[x[1]])
  <2>1. PICK c \in Int : c = bytes[p]
    BY <1>1
  <2>2. /\ c = Wide => p < n /\ bytes[p + 1] = Trail
        /\ x = <<c, p + Len(CharBytes(c))>>
    BY <1>3, <1>4, <1>5, <2>1
  <2>3. PICK piece : piece = CharBytes(c) /\ piece = CharsToBytes[c]
    BY CharTable
  <2>4. /\ Len(piece) \in 1 .. 2 /\ piece[1] = bytes[p] /\ p - 1 + Len(piece) <= n
        /\ Len(piece) = 2 => piece[2] = bytes[p + 1]
    <3>1. CASE c = Wide
      <4>1. Len(piece) = 2 /\ piece[1] = c /\ piece[2] = Trail
        BY <3>1, <2>3, CharBytesIs
      <4>2. QED
        BY <4>1, <3>1, <2>1, <2>2
    <3>2. CASE c # Wide
      <4>1. Len(piece) = 1 /\ piece[1] = c
        BY <3>2, <2>3, CharBytesIs
      <4>2. QED
        BY <4>1, <2>1
    <3>3. QED
      BY <3>1, <3>2
  <2>5. PICK l \in 1 .. 2 : l = Len(piece)
    BY <2>4
  <2>6. \A k \in 1 .. l : bytes[p - 1 + k] = piece[k]
    <3> SUFFICES ASSUME NEW k \in 1 .. l PROVE bytes[p - 1 + k] = piece[k]
      OBVIOUS
    <3>1. CASE k = 1
      <4>1. p - 1 + k = p
        BY <3>1
      <4>2. QED
        BY <4>1, <3>1, <2>4
    <3>2. CASE k # 1
      <4>1. k = 2 /\ l = 2 /\ p - 1 + k = p + 1
        BY <3>2
      <4>2. QED
        BY <4>1, <2>4, <2>5
    <3>3. QED
      BY <3>1, <3>2
  <2>7. LiesAt(piece, bytes, p)
    <3>1. p \in Nat /\ p >= 1 /\ p - 1 + l <= n
      BY <2>4, <2>5
    <3>2. QED
      BY <3>1, <2>5, <2>6, <1>1 DEF LiesAt
  <2>8. p + l \in Nat /\ p + l \in p + 1 .. n + 1
    BY <2>4, <2>5
  <2>9. x[1] = c /\ x[2] = p + l /\ x = <<x[1], x[2]>>
    BY <2>2, <2>3, <2>5
  <2>10. QED
    BY <2>3, <2>5, <2>7, <2>8, <2>9
<1>6. ASSUME NEW p \in 1 .. n, NEW c \in Int, c # Trail, LiesAt(CharsToBytes[c], bytes, p)
      PROVE  at[p] = {<<c, p + Len(CharsToBytes[c])>>}
  <2>1. PICK piece : piece = CharBytes(c) /\ piece = CharsToBytes[c]
    BY CharTable
  <2>2. PICK l \in 1 .. 2 : l = Len(piece) /\ (c = Wide => l = 2 /\ piece[2] = Trail) /\ piece[1] = c
    <3>1. (c = Wide => Len(piece) = 2 /\ piece[2] = Trail) /\ (c # Wide => Len(piece) = 1) /\ piece[1] = c
      BY <2>1, CharBytesIs
    <3>2. Len(piece) \in 1 .. 2
      BY <3>1
    <3>3. QED
      BY <3>1, <3>2
  <2>3. p - 1 + l <= n /\ \A k \in 1 .. l : bytes[p - 1 + k] = piece[k]
    BY <1>1, <1>6, <2>1, <2>2 DEF LiesAt
  <2>4. bytes[p] = c
    <3>1. 1 \in 1 .. l /\ p - 1 + 1 = p
      OBVIOUS
    <3>2. QED
      BY <3>1, <2>2, <2>3
  <2>5. c = Wide => p < n /\ bytes[p + 1] = Trail
    <3>1. l = 2 => 2 \in 1 .. l /\ p - 1 + 2 = p + 1 /\ p < n
      BY <2>3
    <3>2. QED
      BY <3>1, <2>2, <2>3
  <2>6. QED
    BY <1>3, <1>4, <1>6, <2>1, <2>4, <2>5
<1>7. Onward(at, n)
  BY <1>3, <1>5 DEF Onward
<1>8. Stands(Int, CharsToBytes, bytes, at)
  BY <1>1, <1>5 DEF Stands
<1>9. \A p \in 1 .. n : \A c \in Int : CharIsRead(c, bytes, p)
  BY <1>2, <1>6 DEF CharIsRead
<1>10. QED
  BY <1>1, <1>2, <1>7, <1>8, <1>9

\* No character is the second byte of another.
NoTrail(name) == \A i \in DOMAIN name : name[i] # Trail

LEMMA DecodesEncoded ==
  ASSUME NEW name \in Seq(Int), NoTrail(name)
  PROVE  Decode(Encode(name)) = {name}
<1>1. PICK bytes \in Seq(Int) : bytes = Encode(name) /\ bytes = Joined(CharsToBytes, name)
  BY EncodeIs
<1>2. PICK at : at = CharsOf(bytes)
  OBVIOUS
<1>3. Onward(at, Len(Joined(CharsToBytes, name)))
  BY <1>1, <1>2, CharsAreRead
<1>4. \A i \in 1 .. Len(name) : name[i] \in Int /\ name[i] # Trail
  BY DEF NoTrail
<1>5. Alone(CharsToBytes, name, bytes, at)
  <2> SUFFICES ASSUME NEW i \in 1 .. Len(name)
               PROVE  /\ Len(CharsToBytes[name[i]]) # 0
                      /\ \A p \in 1 .. Len(bytes) :
                           LiesAt(CharsToBytes[name[i]], bytes, p)
                             => at[p] = {<<name[i], p + Len(CharsToBytes[name[i]])>>}
    BY DEF Alone
  <2>1. PICK c \in Int : c = name[i] /\ c # Trail
    BY <1>4
  <2>2. Len(CharsToBytes[c]) # 0
    BY CharTable
  <2>3. ASSUME NEW p \in 1 .. Len(bytes), LiesAt(CharsToBytes[c], bytes, p)
        PROVE  at[p] = {<<c, p + Len(CharsToBytes[c])>>}
    <3>1. CharIsRead(c, bytes, p)
      BY CharsAreRead
    <3>2. QED
      BY <2>1, <2>3, <3>1, <1>2 DEF CharIsRead
  <2>4. QED
    BY <2>1, <2>2, <2>3
<1>6. Alone(CharsToBytes, name, Joined(CharsToBytes, name), at)
  BY <1>1, <1>5
<1>7. ReadAll(at) = {name}
  BY <1>3, <1>6, CharTable, ReadsWhatIsWritten
<1>8. Decode(bytes) = ReadAll(at)
  BY <1>2 DEF Decode, CharsOf
<1>9. QED
  BY <1>1, <1>7, <1>8

LEMMA EncodesDecoded ==
  ASSUME NEW bytes \in Seq(Int), NEW name \in Decode(bytes)
  PROVE  name \in Seq(Int) /\ Encode(name) = bytes
<1>1. PICK at : at = CharsOf(bytes)
  OBVIOUS
<1>2. Onward(at, Len(bytes)) /\ Stands(Int, CharsToBytes, bytes, at)
  BY <1>1, CharsAreRead
<1>3. name \in ReadAll(at)
  BY <1>1 DEF Decode, CharsOf
<1>4. name \in Seq(Int) /\ Joined(CharsToBytes, name) = bytes
  <2>1. Table(Int, CharsToBytes)
    BY CharTable
  <2>2. QED
    BY <2>1, <1>2, <1>3, WritesWhatIsRead
<1>5. QED
  BY <1>4, EncodeIs

-----------------------------------------------------------------------------
(***************************************************************************)
(* Directories, written and read                                           *)
(***************************************************************************)
EntriesToBytes == [e \in TreeEntries |-> EntryBytes(e)]

EntriesOf(data) == [p \in DOMAIN data |-> EntryAt(data, p)]

IsJoined(both, s, t, m, n) ==
  /\ both = s \o t /\ Len(both) = m + n
  /\ \A i \in 1 .. m : both[i] = s[i]
  /\ \A i \in 1 .. n : both[m + i] = t[i]

LEMMA TwoJoined ==
  ASSUME NEW s \in Seq(Int), NEW t \in Seq(Int), NEW m \in Nat, NEW n \in Nat,
         Len(s) = m, Len(t) = n
  PROVE  \E both \in Seq(Int) : IsJoined(both, s, t, m, n)
<1>1. PICK both \in Seq(Int) : both = s \o t
  BY ConcatProperties
<1>2. Len(both) = m + n
  BY <1>1
<1>3. \A i \in 1 .. m : both[i] = s[i]
  BY <1>1
<1>4. \A i \in 1 .. n : both[m + i] = t[i]
  BY <1>1
<1>5. QED
  BY <1>1, <1>2, <1>3, <1>4 DEF IsJoined

\* The bytes of an entry, with a name of l bytes.
IsEntry(piece, e, enc, l) ==
  /\ enc \in Seq(Int) /\ l \in Nat /\ enc = Encode(e.name) /\ l = Len(enc)
  /\ piece \in Seq(Int) /\ Len(piece) = l + 3
  /\ piece[1] = e.kind /\ piece[2] = l /\ piece[l + 3] = e.hash
  /\ \A k \in 1 .. l : piece[k + 2] = enc[k]

LEMMA EntryBytesIs ==
  ASSUME NEW e \in TreeEntries
  PROVE  \E enc, l : IsEntry(EntryBytes(e), e, enc, l)
<1>1. PICK enc \in Seq(Int), l \in Nat : enc = Encode(e.name) /\ l = Len(enc)
  <2>1. Encode(e.name) \in Seq(Int)
    BY EntryFields, EncodeIs
  <2>2. Len(Encode(e.name)) \in Nat
    BY <2>1
  <2>3. QED
    BY <2>1, <2>2
<1>2. PICK kind \in Int, hash \in Int : kind = e.kind /\ hash = e.hash
  <2>1. e.kind \in Int /\ e.hash \in Int
    BY EntryFields DEF KindB, KindT
  <2>2. QED
    BY <2>1
<1>3. PICK front \in Seq(Int), back \in Seq(Int) : front = <<kind, l>> /\ back = <<hash>>
  <2>1. <<kind, l>> \in Seq(Int) /\ <<hash>> \in Seq(Int)
    OBVIOUS
  <2>2. QED
    BY <2>1
<1>4. /\ Len(front) = 2 /\ front[1] = kind /\ front[2] = l
      /\ Len(back) = 1 /\ back[1] = hash
  BY <1>3
<1>14. PICK one \in Nat, two \in Nat : one = 1 /\ two = 2
  OBVIOUS
<1>15. Len(front) = two /\ Len(back) = one /\ Len(enc) = l
  BY <1>1, <1>4, <1>14
<1>16. PICK both \in Seq(Int) : IsJoined(both, front, enc, two, l)
  BY <1>15, TwoJoined
<1>5. /\ both = front \o enc /\ Len(both) = 2 + l
      /\ \A i \in 1 .. 2 : both[i] = front[i]
      /\ \A i \in 1 .. l : both[2 + i] = enc[i]
  BY <1>14, <1>16 DEF IsJoined
<1>6. PICK k \in Nat : k = 2 + l
  OBVIOUS
<1>17. Len(both) = k
  BY <1>5, <1>6
<1>18. PICK piece \in Seq(Int) : IsJoined(piece, both, back, k, one)
  BY <1>15, <1>17, TwoJoined
<1>7. /\ piece = both \o back /\ Len(piece) = k + 1
      /\ \A i \in 1 .. k : piece[i] = both[i]
      /\ \A i \in 1 .. 1 : piece[k + i] = back[i]
  BY <1>14, <1>18 DEF IsJoined
<1>8. EntryBytes(e) = piece
  BY <1>1, <1>2, <1>3, <1>5, <1>7 DEF EntryBytes
<1>9. piece[1] = kind /\ piece[2] = l
  <2>1. 1 \in 1 .. k /\ 2 \in 1 .. k /\ 1 \in 1 .. 2 /\ 2 \in 1 .. 2
    BY <1>6
  <2>2. QED
    BY <2>1, <1>4, <1>5, <1>7
<1>10. piece[l + 3] = hash /\ Len(piece) = l + 3
  <2>1. k + 1 = l + 3 /\ 1 \in 1 .. 1
    BY <1>6
  <2>2. QED
    BY <2>1, <1>4, <1>7
<1>11. ASSUME NEW i \in 1 .. l PROVE piece[i + 2] = enc[i]
  <2>1. 2 + i \in 1 .. k /\ 2 + i = i + 2
    BY <1>6
  <2>2. QED
    BY <2>1, <1>5, <1>7
<1>12. IsEntry(piece, e, enc, l)
  BY <1>1, <1>2, <1>7, <1>9, <1>10, <1>11 DEF IsEntry
<1>13. QED
  BY <1>8, <1>12

LEMMA EntryTable ==
  /\ EntriesToBytes \in [TreeEntries -> Seq(Int)] /\ Table(TreeEntries, EntriesToBytes)
  /\ \A e \in TreeEntries : EntriesToBytes[e] = EntryBytes(e) /\ Len(EntriesToBytes[e]) # 0
<1>1. ASSUME NEW e \in TreeEntries PROVE EntryBytes(e) \in Seq(Int) /\ Len(EntryBytes(e)) # 0
  <2>1. PICK enc, l : IsEntry(EntryBytes(e), e, enc, l)
    BY EntryBytesIs
  <2>2. l \in Nat /\ EntryBytes(e) \in Seq(Int) /\ Len(EntryBytes(e)) = l + 3
    BY <2>1 DEF IsEntry
  <2>3. l + 3 # 0
    BY <2>2
  <2>4. QED
    BY <2>2, <2>3
<1>2. \A e \in TreeEntries : EntriesToBytes[e] = EntryBytes(e)
  BY DEF EntriesToBytes
<1>3. EntriesToBytes \in [TreeEntries -> Seq(Int)]
  BY <1>1 DEF EntriesToBytes
<1>4. QED
  BY <1>1, <1>2, <1>3 DEF Table

\* What begins at p is made of what is there.
LEMMA EntryFound ==
  ASSUME NEW data \in Seq(Int), NEW p \in 1 .. Len(data), NEW x \in EntryAt(data, p)
  PROVE  /\ x \in TreeEntries \X Nat /\ ValidName(x[1].name)
         /\ x[2] \in p + 1 .. Len(data) + 1
         /\ LiesAt(EntriesToBytes[x[1]], data, p) /\ x[2] = p + Len(EntriesToBytes[x[1]])
<1>1. PICK n \in Nat : n = Len(data)
  OBVIOUS
<1>2. PICK l, end, window :
        l = data[p + 1] /\ end = p + 2 + data[p + 1] /\ window = SubSeq(data, p + 2, end - 1)
  OBVIOUS
<1>3. /\ data[p] \in {KindB, KindT} /\ p < n /\ end <= n /\ data[end] # Nul
      /\ x \in {<<TreeEntry(data[p], name, data[end]), end + 1>> :
                  name \in {m \in Decode(window) : ValidName(m)}}
  BY <1>1, <1>2 DEF EntryAt
<1>4. PICK name \in Decode(window) :
        ValidName(name) /\ x = <<TreeEntry(data[p], name, data[end]), end + 1>>
  BY <1>3
<1>5. p \in 1 .. n /\ p + 1 \in 1 .. n /\ l \in Int /\ end = p + 2 + l /\ end \in Int
  <2>1. p \in 1 .. n /\ p + 1 \in 1 .. n
    BY <1>1, <1>3
  <2>2. data[p + 1] \in Int
    BY <2>1, <1>1
  <2>3. QED
    BY <2>1, <2>2, <1>2
<1>6. window \in Seq(Int)
  <2>1. \A i \in p + 2 .. end - 1 : data[i] \in Int
    <3>1. \A i \in p + 2 .. end - 1 : i \in 1 .. n
      BY <1>3, <1>5
    <3>2. QED
      BY <3>1, <1>1
  <2>2. p + 2 \in Int /\ end - 1 \in Int
    BY <1>5
  <2>3. QED
    BY <2>1, <2>2, <1>2, SubSeqProperties
<1>7. name \in Seq(Int) /\ Encode(name) = window
  BY <1>4, <1>6, EncodesDecoded
<1>8. Len(window) >= 1
  <2>1. name # <<>>
    BY <1>4 DEF ValidName
  <2>2. QED
    BY <2>1, <1>7, EncodeSome
<1>9. l \in Nat /\ l >= 1 /\ Len(window) = l /\ \A k \in 1 .. l : window[k] = data[p + 1 + k]
  <2>1. p + 2 \in Int /\ end - 1 \in Int
    BY <1>5
  <2>2. \A i \in p + 2 .. end - 1 : data[i] \in Int
    <3>1. \A i \in p + 2 .. end - 1 : i \in 1 .. n
      BY <1>3, <1>5
    <3>2. QED
      BY <3>1, <1>1
  <2>3. /\ Len(window) = IF p + 2 <= end - 1 THEN end - 1 - (p + 2) + 1 ELSE 0
        /\ \A i \in 1 .. end - 1 - (p + 2) + 1 : window[i] = data[p + 2 + i - 1]
    BY <2>1, <2>2, <1>2, SubSeqProperties
  <2>4. end - 1 - (p + 2) + 1 = l
    BY <1>5
  <2>5. l >= 1 /\ Len(window) = l
    BY <2>3, <2>4, <1>5, <1>8
  <2>6. ASSUME NEW k \in 1 .. l PROVE window[k] = data[p + 1 + k]
    <3>1. window[k] = data[p + 2 + k - 1]
      BY <2>3, <2>4
    <3>2. p + 2 + k - 1 = p + 1 + k
      OBVIOUS
    <3>3. QED
      BY <3>1, <3>2
  <2>7. l \in Nat
    BY <2>5, <1>5
  <2>8. QED
    BY <2>5, <2>6, <2>7
<1>10. end \in 1 .. n /\ end + 1 \in p + 1 .. n + 1
  BY <1>3, <1>5, <1>9
<1>11. PICK e : e = TreeEntry(data[p], name, data[end])
  OBVIOUS
<1>12. /\ e \in TreeEntries
       /\ e.name = name /\ e.kind = data[p] /\ e.hash = data[end]
  <2>1. data[end] \in Int
    BY <1>1, <1>10
  <2>2. QED
    BY <2>1, <1>3, <1>7, <1>11 DEF TreeEntry, TreeEntries
<1>13. PICK piece : piece = EntryBytes(e) /\ piece = EntriesToBytes[e]
  BY <1>12, EntryTable
<1>14. /\ Len(piece) = l + 3
       /\ piece[1] = data[p] /\ piece[2] = l /\ piece[l + 3] = data[end]
       /\ \A k \in 1 .. l : piece[k + 2] = window[k]
  <2>1. PICK enc, m : IsEntry(EntryBytes(e), e, enc, m)
    BY <1>12, EntryBytesIs
  <2>2. IsEntry(piece, e, enc, m)
    BY <2>1, <1>13
  <2>3. enc = window /\ m = l
    BY <2>2, <1>7, <1>9, <1>12 DEF IsEntry
  <2>4. IsEntry(piece, e, window, l)
    BY <2>2, <2>3
  <2>5. QED
    BY <2>4, <1>12 DEF IsEntry
<1>15. ASSUME NEW k \in 1 .. l + 3 PROVE data[p - 1 + k] = piece[k]
  <2>1. CASE k = 1
    <3>1. p - 1 + k = p
      BY <2>1
    <3>2. QED
      BY <2>1, <3>1, <1>14
  <2>2. CASE k = 2
    <3>1. p - 1 + k = p + 1
      BY <2>2
    <3>2. QED
      BY <2>2, <3>1, <1>2, <1>14
  <2>3. CASE k = l + 3
    <3>1. p - 1 + k = end
      BY <2>3, <1>5, <1>9
    <3>2. QED
      BY <2>3, <3>1, <1>14
  <2>4. CASE k # 1 /\ k # 2 /\ k # l + 3
    <3>1. PICK j \in 1 .. l : k = j + 2
      <4>1. k - 2 \in 1 .. l /\ k = k - 2 + 2
        BY <2>4, <1>9
      <4>2. QED
        BY <4>1
    <3>2. p - 1 + k = p + 1 + j
      BY <3>1
    <3>3. QED
      BY <3>1, <3>2, <1>9, <1>14
  <2>5. QED
    BY <2>1, <2>2, <2>3, <2>4
<1>16. LiesAt(piece, data, p)
  <2>1. p \in Nat /\ p >= 1 /\ p - 1 + (l + 3) <= n
    BY <1>3, <1>5, <1>9
  <2>2. QED
    BY <2>1, <1>1, <1>14, <1>15 DEF LiesAt
<1>17. end + 1 \in Nat /\ end + 1 = p + (l + 3)
  BY <1>5, <1>9
<1>18. x = <<e, end + 1>> /\ x[1] = e /\ x[2] = end + 1
  BY <1>4, <1>11
<1>19. QED
  BY <1>1, <1>4, <1>10, <1>12, <1>13, <1>14, <1>16, <1>17, <1>18

\* An entry is the only one that begins where its bytes are.
LEMMA EntryIsRead ==
  ASSUME NEW data \in Seq(Int), NEW p \in 1 .. Len(data), NEW e \in TreeEntries,
         ValidName(e.name), NoTrail(e.name), LiesAt(EntriesToBytes[e], data, p)
  PROVE  EntryAt(data, p) = {<<e, p + Len(EntriesToBytes[e])>>}
<1>1. PICK n \in Nat : n = Len(data)
  OBVIOUS
<1>2. PICK piece : piece = EntryBytes(e) /\ piece = EntriesToBytes[e]
  BY EntryTable
<1>17. PICK enc \in Seq(Int), l \in Nat : IsEntry(piece, e, enc, l)
  <2>1. PICK enc, l : IsEntry(EntryBytes(e), e, enc, l)
    BY EntryBytesIs
  <2>2. enc \in Seq(Int) /\ l \in Nat
    BY <2>1 DEF IsEntry
  <2>3. IsEntry(piece, e, enc, l)
    BY <2>1, <1>2
  <2>4. QED
    BY <2>2, <2>3
<1>3. /\ enc \in Seq(Int) /\ l \in Nat /\ enc = Encode(e.name) /\ l = Len(enc)
      /\ piece \in Seq(Int) /\ Len(piece) = l + 3
      /\ piece[1] = e.kind /\ piece[2] = l /\ piece[l + 3] = e.hash
      /\ \A k \in 1 .. l : piece[k + 2] = enc[k]
  BY <1>17 DEF IsEntry
<1>4. p \in 1 .. n /\ p - 1 + (l + 3) <= n /\ \A k \in 1 .. l + 3 : data[p - 1 + k] = piece[k]
  BY <1>1, <1>2, <1>3 DEF LiesAt
<1>5. PICK end \in 1 .. n : end = p + 2 + l
  <2>1. p + 2 + l \in 1 .. n
    BY <1>4
  <2>2. QED
    BY <2>1
<1>6. data[p] = e.kind /\ data[p + 1] = l /\ data[end] = e.hash
  <2>1. 1 \in 1 .. l + 3 /\ 2 \in 1 .. l + 3 /\ l + 3 \in 1 .. l + 3
    OBVIOUS
  <2>2. p - 1 + 1 = p /\ p - 1 + 2 = p + 1 /\ p - 1 + (l + 3) = end
    BY <1>4, <1>5
  <2>3. data[p - 1 + 1] = piece[1] /\ data[p - 1 + 2] = piece[2] /\ data[p - 1 + (l + 3)] = piece[l + 3]
    BY <2>1, <1>4
  <2>4. QED
    BY <2>2, <2>3, <1>3
<1>7. PICK window : window = SubSeq(data, p + 2, end - 1)
  OBVIOUS
<1>8. window = enc
  <2>1. p + 2 \in Int /\ end - 1 \in Int /\ end - 1 - (p + 2) + 1 = l
    BY <1>4, <1>5
  <2>2. \A i \in p + 2 .. end - 1 : data[i] \in Int
    <3>1. \A i \in p + 2 .. end - 1 : i \in 1 .. n
      BY <1>4, <1>5
    <3>2. QED
      BY <3>1, <1>1
  <2>3. /\ window \in Seq(Int)
        /\ Len(window) = IF p + 2 <= end - 1 THEN end - 1 - (p + 2) + 1 ELSE 0
        /\ \A i \in 1 .. end - 1 - (p + 2) + 1 : window[i] = data[p + 2 + i - 1]
    BY <2>1, <2>2, <1>7, SubSeqProperties
  <2>4. Len(window) = l
    BY <2>1, <2>3, <1>4, <1>5
  <2>5. ASSUME NEW k \in 1 .. l PROVE window[k] = enc[k]
    <3>1. window[k] = data[p + 2 + k - 1]
      BY <2>1, <2>3
    <3>2. k + 2 \in 1 .. l + 3 /\ p - 1 + (k + 2) = p + 2 + k - 1
      BY <1>4
    <3>3. QED
      BY <3>1, <3>2, <1>3, <1>4
  <2>6. QED
    BY <2>3, <2>4, <2>5, <1>3, SeqEqual
<1>9. Decode(window) = {e.name}
  BY <1>3, <1>8, EntryFields, DecodesEncoded
<1>10. /\ data[p] \in {KindB, KindT} /\ p < Len(data) /\ end <= Len(data) /\ data[end] # Nul
       /\ end = p + 2 + data[p + 1]
  BY <1>1, <1>4, <1>5, <1>6, EntryFields
<1>11. EntryAt(data, p) =
         {<<TreeEntry(data[p], name, data[end]), end + 1>> :
            name \in {m \in Decode(window) : ValidName(m)}}
  BY <1>7, <1>10 DEF EntryAt
<1>12. {m \in Decode(window) : ValidName(m)} = {e.name}
  BY <1>9
<1>13. EntryAt(data, p) = {<<TreeEntry(data[p], e.name, data[end]), end + 1>>}
  BY <1>11, <1>12
<1>14. TreeEntry(data[p], e.name, data[end]) = e
  BY <1>6, EntryFields
<1>15. end + 1 = p + Len(EntriesToBytes[e])
  BY <1>2, <1>3, <1>4, <1>5
<1>16. QED
  BY <1>13, <1>14, <1>15

LEMMA EntriesAreRead ==
  ASSUME NEW data \in Seq(Int)
  PROVE  /\ Onward(EntriesOf(data), Len(data))
         /\ Stands(TreeEntries, EntriesToBytes, data, EntriesOf(data))
         /\ DeserializeTree(data) = ReadAll(EntriesOf(data))
<1>1. PICK n \in Nat : n = Len(data) /\ DOMAIN data = 1 .. n
  OBVIOUS
<1>2. PICK at : at = EntriesOf(data)
  OBVIOUS
<1>3. DOMAIN at = 1 .. n /\ \A p \in 1 .. n : at[p] = EntryAt(data, p)
  BY <1>1, <1>2 DEF EntriesOf
<1>4. ASSUME NEW p \in 1 .. n, NEW x \in at[p]
      PROVE  /\ x \in TreeEntries \X Nat /\ x[2] \in p + 1 .. n + 1
             /\ LiesAt(EntriesToBytes[x[1]], data, p) /\ x[2] = p + Len(EntriesToBytes[x[1]])
  <2>1. p \in 1 .. Len(data) /\ x \in EntryAt(data, p)
    BY <1>1, <1>3
  <2>2. QED
    BY <2>1, <1>1, EntryFound
<1>5. Onward(at, n)
  BY <1>3, <1>4 DEF Onward
<1>6. Stands(TreeEntries, EntriesToBytes, data, at)
  <2>1. \A p \in 1 .. n : at[p] \in SUBSET (TreeEntries \X Nat)
    BY <1>4
  <2>2. QED
    BY <2>1, <1>1, <1>4 DEF Stands
<1>7. DeserializeTree(data) = ReadAll(EntriesOf(data))
  BY DEF DeserializeTree, EntriesOf
<1>8. QED
  BY <1>1, <1>2, <1>5, <1>6, <1>7

LEMMA SerializeIs ==
  ASSUME NEW es, Listed(es)
  PROVE  /\ SerializeTree(es) = Joined(EntriesToBytes, Sorted(es))
         /\ SerializeTree(es) \in Seq(Int)
<1>1. PICK s \in Seq(TreeEntries) : s = Sorted(es)
  BY SortedIs
<1>2. \A i \in DOMAIN s : EntriesToBytes[s[i]] = EntryBytes(s[i])
  BY EntryTable
<1>3. [i \in DOMAIN s |-> EntriesToBytes[s[i]]] = [i \in DOMAIN s |-> EntryBytes(s[i])]
  BY <1>2
<1>4. SerializeTree(es) = Joined(EntriesToBytes, s)
  BY <1>1, <1>3 DEF SerializeTree, Joined
<1>5. Joined(EntriesToBytes, s) \in Seq(Int)
  BY EntryTable, JoinedType
<1>6. QED
  BY <1>1, <1>4, <1>5

\* A listing that is written is all that is read, in the order of its names.
LEMMA ReadsTheListing ==
  ASSUME NEW es, Listed(es)
  PROVE  DeserializeTree(SerializeTree(es)) = {Sorted(es)}
<1>1. PICK data \in Seq(Int) : data = SerializeTree(es)
  BY SerializeIs
<1>2. PICK s \in Seq(TreeEntries) : s = Sorted(es) /\ Range(s) = Range(es)
  BY SortedIs
<1>3. data = Joined(EntriesToBytes, s)
  BY <1>1, <1>2, SerializeIs
<1>4. PICK at : at = EntriesOf(data)
  OBVIOUS
<1>5. ASSUME NEW i \in 1 .. Len(s)
      PROVE  s[i] \in TreeEntries /\ ValidName(s[i].name) /\ NoTrail(s[i].name)
  <2>1. s[i] \in Range(es)
    <3>1. i \in DOMAIN s
      OBVIOUS
    <3>2. s[i] \in Range(s)
      BY <3>1 DEF Range
    <3>3. QED
      BY <3>2, <1>2
  <2>2. PICK j \in DOMAIN es : s[i] = es[j]
    BY <2>1 DEF Range
  <2>3. ValidName(es[j].name) /\ NoTrail(es[j].name)
    BY DEF Listed, NoTrail
  <2>4. QED
    BY <2>2, <2>3
<1>6. Alone(EntriesToBytes, s, data, at)
  <2> SUFFICES ASSUME NEW i \in 1 .. Len(s)
               PROVE  /\ Len(EntriesToBytes[s[i]]) # 0
                      /\ \A p \in 1 .. Len(data) :
                           LiesAt(EntriesToBytes[s[i]], data, p)
                             => at[p] = {<<s[i], p + Len(EntriesToBytes[s[i]])>>}
    BY DEF Alone
  <2>1. PICK e \in TreeEntries : e = s[i] /\ ValidName(e.name) /\ NoTrail(e.name)
    BY <1>5
  <2>2. Len(EntriesToBytes[e]) # 0
    BY EntryTable
  <2>3. ASSUME NEW p \in 1 .. Len(data), LiesAt(EntriesToBytes[e], data, p)
        PROVE  at[p] = {<<e, p + Len(EntriesToBytes[e])>>}
    <3>1. EntryAt(data, p) = {<<e, p + Len(EntriesToBytes[e])>>}
      BY <2>1, <2>3, EntryIsRead
    <3>2. at[p] = EntryAt(data, p)
      BY <1>4 DEF EntriesOf
    <3>3. QED
      BY <3>1, <3>2
  <2>4. QED
    BY <2>1, <2>2, <2>3
<1>7. Onward(at, Len(Joined(EntriesToBytes, s)))
  BY <1>3, <1>4, EntriesAreRead
<1>8. Alone(EntriesToBytes, s, Joined(EntriesToBytes, s), at)
  BY <1>3, <1>6
<1>9. ReadAll(at) = {s}
  BY <1>7, <1>8, EntryTable, ReadsWhatIsWritten
<1>10. QED
  BY <1>1, <1>2, <1>4, <1>9, EntriesAreRead

\* Whatever is read is what the bytes are made of, and has valid names.
LEMMA ReadsTheBytes ==
  ASSUME NEW data \in Seq(Int), NEW es \in DeserializeTree(data)
  PROVE  /\ \A i \in DOMAIN es : ValidName(es[i].name)
         /\ FlattenSeq([i \in DOMAIN es |-> EntryBytes(es[i])]) = data
<1>1. PICK at : at = EntriesOf(data)
  OBVIOUS
<1>2. /\ Onward(at, Len(data)) /\ Stands(TreeEntries, EntriesToBytes, data, at)
      /\ es \in ReadAll(at)
  BY <1>1, EntriesAreRead
<1>3. Table(TreeEntries, EntriesToBytes)
  BY EntryTable
<1>4. /\ es \in Seq(TreeEntries) /\ Joined(EntriesToBytes, es) = data
      /\ \A i \in 1 .. Len(es) : \E p \in 1 .. Len(data) : \E q : <<es[i], q>> \in at[p]
  BY <1>2, <1>3, WritesWhatIsRead
<1>5. ASSUME NEW i \in DOMAIN es PROVE ValidName(es[i].name)
  <2>1. i \in 1 .. Len(es)
    BY <1>4
  <2>2. PICK p \in 1 .. Len(data) : \E q : <<es[i], q>> \in at[p]
    BY <2>1, <1>4
  <2>3. PICK q : <<es[i], q>> \in at[p]
    BY <2>2
  <2>4. at[p] = EntryAt(data, p)
    BY <1>1 DEF EntriesOf
  <2>5. PICK x \in EntryAt(data, p) : x = <<es[i], q>>
    BY <2>3, <2>4
  <2>6. ValidName(x[1].name)
    BY EntryFound
  <2>7. QED
    BY <2>5, <2>6
<1>6. \A i \in DOMAIN es : EntriesToBytes[es[i]] = EntryBytes(es[i])
  BY <1>4, EntryTable
<1>7. [i \in DOMAIN es |-> EntriesToBytes[es[i]]] = [i \in DOMAIN es |-> EntryBytes(es[i])]
  BY <1>6
<1>8. FlattenSeq([i \in DOMAIN es |-> EntryBytes(es[i])]) = data
  BY <1>4, <1>7 DEF Joined
<1>9. QED
  BY <1>5, <1>8

-----------------------------------------------------------------------------
(***************************************************************************)
(* A pack                                                                  *)
(***************************************************************************)
\* What is scanned while a pack is written: contents, which are bytes, and
\* one pair of them after the other.
PackScans ==
  /\ pc # "scan" => scan = NoScan
  /\ DOMAIN content \subseteq Hash
  /\ \A h \in DOMAIN content : content[h] \in Seq(Int)
  /\ todo \subseteq DOMAIN content

LEMMA HashesAre == Hash \subseteq Nat
BY FormatAssumption

LEMMA NextHashIsDue ==
  PackScans /\ todo # {} => NextHash \in todo /\ \A h \in todo : NextHash <= h
<1> SUFFICES ASSUME PackScans, todo # {} PROVE NextHash \in todo /\ \A h \in todo : NextHash <= h
  OBVIOUS
<1>1. PICK S : S = todo
  OBVIOUS
<1>2. S \in SUBSET Nat /\ S # {}
  BY <1>1, HashesAre DEF PackScans
<1>3. \E o \in S : \A q \in S : o <= q
  BY <1>2, HasLeast
<1>4. QED
  BY <1>1, <1>3 DEF NextHash, Min

LEMMA InitScans == Init => CandidatesInit /\ scan = NoScan /\ PackScans
<1> SUFFICES ASSUME Init PROVE CandidatesInit /\ scan = NoScan /\ PackScans
  OBVIOUS
<1>1. PICK input \in Input :
        /\ snapshots = input.history /\ listing = input.listing
        /\ content = [h \in DOMAIN input.content \cup DOMAIN listing |->
                        IF h \in DOMAIN listing THEN SerializeTree(listing[h]) ELSE input.content[h]]
  BY DEF Init
<1>2. /\ \A h \in DOMAIN input.content : input.content[h] \in Seq(Int)
      /\ \A h \in DOMAIN input.listing : SerializeTree(input.listing[h]) \in Seq(Int)
      /\ DOMAIN input.content \cup DOMAIN input.listing \subseteq Hash
      /\ \E n \in 0 .. MaxSnapshots : input.history \in [1 .. n -> Flat]
  BY InputAssumption, SerializeIs
<1>3. CandidatesInit
  BY <1>1, <1>2 DEF Init, CandidatesInit
<1>4. \A h \in DOMAIN content : content[h] \in Seq(Int)
  BY <1>1, <1>2
<1>5. DOMAIN content \subseteq Hash
  BY <1>1, <1>2
<1>6. QED
  BY <1>3, <1>4, <1>5 DEF Init, PackScans

LEMMA NextScans ==
  PackScans /\ [Next]_vars => PackScans' /\ [FindStep]_candVars /\ [CodecNext]_scan
<1> SUFFICES ASSUME PackScans, [Next]_vars
             PROVE  PackScans' /\ [FindStep]_candVars /\ [CodecNext]_scan
  OBVIOUS
<1>1. CASE FindCandidates
  BY <1>1 DEF FindCandidates, packVars, PackScans
<1>2. CASE StartPack
  BY <1>2 DEF StartPack, PackScans
<1>3. CASE StoreWhole
  BY <1>3 DEF StoreWhole, Emit, PackScans
<1>4. CASE TryDelta
  <2>1. NextHash \in DOMAIN content /\ candidates[NextHash] \in DOMAIN content /\ pc = "next"
    BY <1>4, NextHashIsDue DEF TryDelta, PackScans
  <2>2. PICK base \in Seq(Int), target \in Seq(Int) : StartScan(base, target)
    BY <1>4, <2>1 DEF TryDelta, PackScans
  <2>3. scan = NoScan
    BY <2>1 DEF PackScans
  <2>4. scan.at = "done"
    BY <2>3 DEF NoScan
  <2>5. CodecNext
    BY <2>2, <2>4 DEF CodecNext
  <2>6. QED
    BY <1>4, <2>5 DEF TryDelta, PackScans
<1>5. CASE ScanStep
  BY <1>5 DEF ScanStep, packVars, PackScans, CodecNext
<1>6. CASE Choose
  BY <1>6 DEF Choose, Emit, PackScans, CodecNext
<1>7. CASE WriteIndex
  BY <1>7 DEF WriteIndex, PackScans
<1>8. CASE UNCHANGED vars
  BY <1>8 DEF vars, packVars, PackScans
<1>9. QED
  BY <1>1, <1>2, <1>3, <1>4, <1>5, <1>6, <1>7, <1>8 DEF Next

\* Writing a pack is the search for candidates, then one scan after the other:
\* nothing cmd_pack and write_pack do around them disturbs either.
THEOREM PackRunsBoth == Spec => CandidatesSpec /\ CodecSpec
<1>1. Init => CandidatesInit /\ scan = NoScan /\ PackScans
  BY InitScans
<1>2. PackScans /\ [Next]_vars => PackScans' /\ [FindStep]_candVars /\ [CodecNext]_scan
  BY NextScans
<1>3. QED
  BY <1>1, <1>2, PTL DEF Spec, CandidatesSpec, CodecSpec

\* So while a pack is written its deltas are exact, miss no block of their
\* bases and never need each other in a circle.
THEOREM PackedDeltas == Spec => []ScanExact /\ []NoBlockMissed /\ []Acyclic
BY PackRunsBoth, DeltasAreExact, NothingIsMissed, NoCircles, PTL

-----------------------------------------------------------------------------
(***************************************************************************)
(* Operations, written and read                                            *)
(***************************************************************************)
LEMMA OpCases ==
  ASSUME NEW op \in Op
  PROVE  \/ \E o \in Nat, l \in Nat : op = CopyOp(o, l)
         \/ \E data \in Seq(Int) : op = InsertOp(data)
<1>1. CASE op \in [op : {"copy"}, offset : Nat, length : Nat]
  <2>1. op = CopyOp(op.offset, op.length) /\ op.offset \in Nat /\ op.length \in Nat
    BY <1>1 DEF CopyOp
  <2>2. QED
    BY <2>1
<1>2. CASE op \in [op : {"insert"}, data : Seq(Int)]
  <2>1. op = InsertOp(op.data) /\ op.data \in Seq(Int)
    BY <1>2 DEF InsertOp
  <2>2. QED
    BY <2>1
<1>3. QED
  BY <1>1, <1>2 DEF Op

LEMMA CopyBytes ==
  ASSUME NEW o \in Nat, NEW l \in Nat
  PROVE  OpBytes(CopyOp(o, l)) = <<MarkC, o, l>> /\ SizeOf(CopyOp(o, l)) = 3
BY DEF OpBytes, SizeOf, CopyOp

LEMMA InsertBytes ==
  ASSUME NEW data \in Seq(Int)
  PROVE  /\ OpBytes(InsertOp(data)) = <<MarkI, Len(data)>> \o data
         /\ SizeOf(InsertOp(data)) = 2 + Len(data)
BY DEF OpBytes, SizeOf, InsertOp

LEMMA OpBytesType ==
  ASSUME NEW op \in Op
  PROVE  OpBytes(op) \in Seq(Int) /\ Len(OpBytes(op)) = SizeOf(op) /\ SizeOf(op) \in Nat /\ SizeOf(op) >= 2
<1>1. CASE \E o \in Nat, l \in Nat : op = CopyOp(o, l)
  <2>1. PICK o \in Nat, l \in Nat : op = CopyOp(o, l)
    BY <1>1
  <2>2. <<MarkC, o, l>> \in Seq(Int) /\ Len(<<MarkC, o, l>>) = 3
    BY DEF MarkC
  <2>3. OpBytes(op) = <<MarkC, o, l>> /\ SizeOf(op) = 3
    BY <2>1, CopyBytes
  <2>4. PICK b \in Seq(Int) : b = <<MarkC, o, l>>
    BY <2>2
  <2>5. QED
    BY <2>2, <2>3, <2>4
<1>2. CASE \E data \in Seq(Int) : op = InsertOp(data)
  <2>1. PICK data \in Seq(Int) : op = InsertOp(data)
    BY <1>2
  <2>2. PICK n \in Nat : n = Len(data)
    OBVIOUS
  <2>3. PICK head \in Seq(Int) : head = <<MarkI, n>> /\ Len(head) = 2
    <3>1. <<MarkI, n>> \in Seq(Int) /\ Len(<<MarkI, n>>) = 2
      BY DEF MarkI
    <3>2. QED
      BY <3>1
  <2>4. head \o data \in Seq(Int) /\ Len(head \o data) = 2 + n
    BY <2>2, <2>3
  <2>5. OpBytes(op) = head \o data /\ SizeOf(op) = 2 + n
    <3>1. OpBytes(InsertOp(data)) = <<MarkI, Len(data)>> \o data /\ SizeOf(InsertOp(data)) = 2 + Len(data)
      BY InsertBytes
    <3>2. QED
      BY <2>1, <2>2, <2>3, <3>1, Zenon
  <2>6. QED
    BY <2>4, <2>5
<1>3. QED
  BY <1>1, <1>2, OpCases

\* What lies at p is the operation that was written there.
LEMMA OpReadsBack ==
  ASSUME NEW op \in Op, NEW data \in Seq(Int), NEW p \in Nat,
         p + SizeOf(op) <= Len(data),
         \A k \in 1 .. SizeOf(op) : data[p + k] = OpBytes(op)[k]
  PROVE  OpAt(data, p + 1) = op
<1>1. CASE \E o \in Nat, l \in Nat : op = CopyOp(o, l)
  <2>1. PICK o \in Nat, l \in Nat : op = CopyOp(o, l)
    BY <1>1
  <2>2. SizeOf(op) = 3 /\ OpBytes(op) = <<MarkC, o, l>>
    BY <2>1, CopyBytes
  <2>3. data[p + 1] = MarkC /\ data[p + 2] = o /\ data[p + 3] = l
    BY <2>2
  <2>4. (p + 1) + 1 = p + 2 /\ (p + 1) + 2 = p + 3
    OBVIOUS
  <2>5. QED
    BY <2>1, <2>3, <2>4 DEF OpAt
<1>2. CASE \E d \in Seq(Int) : op = InsertOp(d)
  <2>1. PICK d \in Seq(Int) : op = InsertOp(d)
    BY <1>2
  <2>2. PICK n \in Nat : n = Len(d)
    OBVIOUS
  <2>3. SizeOf(op) = 2 + n /\ OpBytes(op) = <<MarkI, n>> \o d
    BY <2>1, <2>2, InsertBytes
  <2>4. PICK head \in Seq(Int) : head = <<MarkI, n>> /\ Len(head) = 2 /\ head[1] = MarkI /\ head[2] = n
    <3>1. <<MarkI, n>> \in Seq(Int) /\ Len(<<MarkI, n>>) = 2
      BY DEF MarkI
    <3>2. QED
      BY <3>1
  <2>5. PICK b \in Seq(Int) : b = head \o d
    <3>1. head \o d \in Seq(Int)
      OBVIOUS
    <3>2. QED
      BY <3>1
  <2>6. b[1] = MarkI /\ b[2] = n /\ \A k \in 1 .. n : b[2 + k] = d[k]
    BY <2>2, <2>4, <2>5
  <2>7. \A k \in 1 .. 2 + n : data[p + k] = b[k]
    BY <2>3, <2>4, <2>5
  <2>8. data[p + 1] = MarkI /\ data[p + 2] = n /\ \A k \in 1 .. n : data[p + 2 + k] = d[k]
    <3>1. data[p + 1] = MarkI /\ data[p + 2] = n
      BY <2>6, <2>7
    <3>2. ASSUME NEW k \in 1 .. n PROVE data[p + 2 + k] = d[k]
      <4>1. 2 + k \in 1 .. 2 + n /\ p + (2 + k) = p + 2 + k
        OBVIOUS
      <4>2. QED
        BY <4>1, <2>6, <2>7
    <3>3. QED
      BY <3>1, <3>2
  <2>9. PICK l \in Nat : l = Len(data) /\ p + 2 + n <= l
    BY <2>3
  <2>10. PICK from \in Nat, to \in Nat : from = p + 3 /\ to = p + 2 + n
    OBVIOUS
  <2>11. \A i \in from .. to : data[i] \in Int
    BY <2>9, <2>10
  <2>12. /\ SubSeq(data, from, to) \in Seq(Int)
         /\ Len(SubSeq(data, from, to)) = n
         /\ \A k \in 1 .. n : SubSeq(data, from, to)[k] = data[p + 2 + k]
    <3>1. Len(SubSeq(data, from, to)) = IF from <= to THEN to - from + 1 ELSE 0
      BY <2>11, SubSeqProperties
    <3>2. SubSeq(data, from, to) \in Seq(Int)
      BY <2>11, SubSeqProperties
    <3>3. \A k \in 1 .. to - from + 1 : SubSeq(data, from, to)[k] = data[from + k - 1]
      BY <2>11, SubSeqProperties
    <3>4. \A k \in 1 .. n : SubSeq(data, from, to)[k] = data[p + 2 + k]
      <4>1. to - from + 1 = n /\ \A k \in 1 .. n : from + k - 1 = p + 2 + k
        BY <2>10
      <4>2. QED
        BY <3>3, <4>1
    <3>5. QED
      BY <2>10, <3>1, <3>2, <3>4
  <2>13. PICK part \in Seq(Int) : part = SubSeq(data, from, to)
    BY <2>12
  <2>14. Len(part) = n /\ \A k \in 1 .. n : part[k] = d[k]
    BY <2>8, <2>12, <2>13
  <2>15. part = d
    BY <2>2, <2>14, SeqEqual
  <2>16. (p + 1) + 1 = p + 2 /\ (p + 1) + 2 = from /\ (p + 1) + 1 + n = to
    BY <2>10
  <2>17. OpAt(data, p + 1) = InsertOp(SubSeq(data, from, to))
    <3>1. data[p + 1] # MarkC
      BY <2>8 DEF MarkI, MarkC
    <3>2. QED
      BY <2>8, <2>16, <3>1 DEF OpAt
  <2>18. QED
    BY <2>1, <2>13, <2>15, <2>17
<1>3. QED
  BY <1>1, <1>2, OpCases

\* Whatever is in a stream, no operation in it is empty.
LEMMA OpMovesOn ==
  ASSUME NEW data \in Seq(Int), NEW p \in Nat, p < Len(data)
  PROVE  SizeOf(OpAt(data, p)) \in Nat /\ SizeOf(OpAt(data, p)) >= 2
<1>1. CASE data[p] = MarkC
  BY <1>1 DEF OpAt, SizeOf, CopyOp
<1>2. CASE data[p] # MarkC
  <2>1. data[p + 1] \in Int
    OBVIOUS
  <2>2. PICK n \in Int : n = data[p + 1]
    BY <2>1
  <2>3. PICK part : part = SubSeq(data, p + 2, p + 1 + n)
    OBVIOUS
  <2>4. Len(part) \in Nat
    BY <2>3
  <2>5. OpAt(data, p) = InsertOp(part)
    BY <1>2, <2>2, <2>3 DEF OpAt
  <2>6. QED
    BY <2>4, <2>5 DEF SizeOf, InsertOp
<1>3. QED
  BY <1>1, <1>2

-----------------------------------------------------------------------------
\* f holds what there is from each position on, the least of them lo.
IsWalk(f, head, nxt, end, lo) ==
  f = [p \in {q \in Nat : q >= lo} |-> IF p >= end THEN <<>> ELSE <<head[p]>> \o f[nxt[p]]]

LEMMA WalkExists ==
  ASSUME NEW end \in Nat, NEW head, NEW nxt,
         \A p \in Nat : p < end => nxt[p] \in Nat /\ nxt[p] > p
  PROVE  \A k \in 0 .. end : \E f : IsWalk(f, head, nxt, end, end - k)
<1> DEFINE Bad == {k \in 0 .. end : ~ \E f : IsWalk(f, head, nxt, end, end - k)}
<1> SUFFICES ASSUME Bad # {} PROVE FALSE
  OBVIOUS
<1>1. PICK k \in Bad : \A m \in Bad : k <= m
  <2>1. Bad \in SUBSET Nat
    OBVIOUS
  <2> HIDE DEF Bad
  <2>2. QED
    BY <2>1, HasLeast
<1>2. k \in 0 .. end /\ ~ \E f : IsWalk(f, head, nxt, end, end - k)
  BY <1>1
<1>3. CASE k = 0
  <2> DEFINE f == [p \in {q \in Nat : q >= end} |-> <<>>]
  <2>1. f = [p \in {q \in Nat : q >= end} |-> IF p >= end THEN <<>> ELSE <<head[p]>> \o f[nxt[p]]]
    OBVIOUS
  <2>2. IsWalk(f, head, nxt, end, end)
    <3> HIDE DEF f
    <3>1. QED
      BY <2>1 DEF IsWalk
  <2>3. end - k = end
    BY <1>3
  <2>4. QED
    BY <1>2, <2>2, <2>3
<1>4. CASE k # 0
  <2>1. k - 1 \in 0 .. end /\ k - 1 \notin Bad
    BY <1>1, <1>2, <1>4
  <2>2. PICK lo \in Nat : lo = end - k /\ lo < end /\ end - (k - 1) = lo + 1
    BY <1>2, <1>4
  <2>3. PICK f : IsWalk(f, head, nxt, end, lo + 1)
    <3>1. \E f : IsWalk(f, head, nxt, end, end - (k - 1))
      BY <2>1
    <3>2. QED
      BY <2>2, <3>1
  <2>4. PICK h : h = <<head[lo]>> \o f[nxt[lo]]
    OBVIOUS
  <2> DEFINE g == [p \in {q \in Nat : q >= lo} |-> IF p = lo THEN h ELSE f[p]]
  <2>5. ASSUME NEW p \in Nat, p >= lo
        PROVE  g[p] = IF p >= end THEN <<>> ELSE <<head[p]>> \o g[nxt[p]]
    <3>1. p < end => nxt[p] \in Nat /\ nxt[p] > p
      OBVIOUS
    <3>2. p < end => g[nxt[p]] = f[nxt[p]]
      BY <3>1, <2>5, <2>2
    <3>3. CASE p = lo
      BY <3>2, <3>3, <2>2, <2>4
    <3>4. CASE p # lo
      <4>1. p \in {q \in Nat : q >= lo + 1}
        BY <2>2, <2>5, <3>4
      <4>2. f[p] = IF p >= end THEN <<>> ELSE <<head[p]>> \o f[nxt[p]]
        BY <4>1, <2>3 DEF IsWalk
      <4>3. g[p] = f[p]
        BY <2>5, <3>4
      <4>4. QED
        BY <3>2, <4>2, <4>3
    <3>5. QED
      BY <3>3, <3>4
  <2>6. g = [p \in {q \in Nat : q >= lo} |-> IF p >= end THEN <<>> ELSE <<head[p]>> \o g[nxt[p]]]
    <3>1. \A p \in {q \in Nat : q >= lo} : g[p] = IF p >= end THEN <<>> ELSE <<head[p]>> \o g[nxt[p]]
      BY <2>5
    <3>2. g = [p \in {q \in Nat : q >= lo} |-> g[p]]
      OBVIOUS
    <3> HIDE DEF g
    <3>3. QED
      BY <3>1, <3>2
  <2>7. IsWalk(g, head, nxt, end, lo)
    <3> HIDE DEF g
    <3>1. QED
      BY <2>6 DEF IsWalk
  <2>8. QED
    BY <1>2, <2>2, <2>7
<1>5. QED
  BY <1>3, <1>4

\* f holds the operations from each position of the data on.
IsDeserialized(f, data) ==
  f = [p \in Nat |-> IF p >= Len(data) THEN <<>>
                                       ELSE <<OpAt(data, p)>> \o f[p + SizeOf(OpAt(data, p))]]

LEMMA DeserializeIs ==
  ASSUME NEW data \in Seq(Int)
  PROVE  \E f : IsDeserialized(f, data) /\ DeserializeOps(data) = f[1]
<1> DEFINE head == [p \in Nat |-> OpAt(data, p)]
           nxt  == [p \in Nat |-> p + SizeOf(OpAt(data, p))]
           f    == CHOOSE f : f = [p \in Nat |-> IF p >= Len(data) THEN <<>>
                                  ELSE <<OpAt(data, p)>> \o f[p + SizeOf(OpAt(data, p))]]
<1>1. PICK end \in Nat : end = Len(data)
  OBVIOUS
<1>2. \A p \in Nat : p < end => nxt[p] \in Nat /\ nxt[p] > p
  BY <1>1, OpMovesOn
<1>3. \E g : IsWalk(g, head, nxt, end, end - end)
  <2>1. end \in 0 .. end
    OBVIOUS
  <2> HIDE DEF head, nxt
  <2>2. QED
    BY <1>2, <2>1, WalkExists
<1>4. PICK g : IsWalk(g, head, nxt, end, 0)
  <2>1. end - end = 0
    OBVIOUS
  <2> HIDE DEF head, nxt
  <2>2. QED
    BY <1>3, <2>1
<1>5. {q \in Nat : q >= 0} = Nat
  OBVIOUS
<1>6. g = [p \in Nat |-> IF p >= end THEN <<>> ELSE <<head[p]>> \o g[nxt[p]]]
  <2> HIDE DEF head, nxt
  <2>1. QED
    BY <1>4, <1>5 DEF IsWalk
<1>7. g = [p \in Nat |-> IF p >= Len(data) THEN <<>>
                                           ELSE <<OpAt(data, p)>> \o g[p + SizeOf(OpAt(data, p))]]
  BY <1>1, <1>6
<1>8. IsDeserialized(f, data)
  BY <1>7 DEF IsDeserialized
<1>9. DeserializeOps(data) = f[1]
  BY DEF DeserializeOps
<1>10. QED
  BY <1>8, <1>9

LEMMA OpsAreLaidOut ==
  ASSUME NEW ops \in Seq(Op)
  PROVE  \E ss \in Seq(Seq(Int)) :
           /\ Len(ss) = Len(ops)
           /\ \A i \in 1 .. Len(ops) : ss[i] = OpBytes(ops[i])
           /\ \E at : LaidOut(ss, SerializeOps(ops), at)
<1>1. PICK n \in Nat : n = Len(ops) /\ DOMAIN ops = 1 .. n
  OBVIOUS
<1> DEFINE all == [i \in 1 .. n |-> OpBytes(ops[i])]
<1>2. \A i \in 1 .. n : OpBytes(ops[i]) \in Seq(Int)
  BY <1>1, OpBytesType
<1>3. all \in Seq(Seq(Int)) /\ Len(all) = n
  BY <1>2
<1>4. SerializeOps(ops) = FlattenSeq(all)
  BY <1>1 DEF SerializeOps
<1>5. PICK ss \in Seq(Seq(Int)) : ss = all
  BY <1>3
<1>6. PICK at : LaidOut(ss, FlattenSeq(ss), at)
  BY Layout
<1>7. \A i \in 1 .. n : ss[i] = OpBytes(ops[i])
  BY <1>5
<1> HIDE DEF all
<1>8. QED
  BY <1>1, <1>3, <1>4, <1>5, <1>6, <1>7

LEMMA SerializedType ==
  ASSUME NEW ops \in Seq(Op)
  PROVE  SerializeOps(ops) \in Seq(Int)
BY OpsAreLaidOut DEF LaidOut

\* The operations are read back as they were written.
LEMMA Deserializes ==
  ASSUME NEW ops \in Seq(Op)
  PROVE  DeserializeOps(SerializeOps(ops)) = ops
<1>1. PICK n \in Nat : n = Len(ops)
  OBVIOUS
<1>a. PICK ss \in Seq(Seq(Int)) :
        /\ Len(ss) = n
        /\ \A i \in 1 .. n : ss[i] = OpBytes(ops[i])
        /\ \E at : LaidOut(ss, SerializeOps(ops), at)
  BY <1>1, OpsAreLaidOut
<1>b. PICK at : LaidOut(ss, SerializeOps(ops), at)
  BY <1>a
<1>2. /\ Len(ss) = n
      /\ \A i \in 1 .. n : ss[i] = OpBytes(ops[i])
      /\ LaidOut(ss, SerializeOps(ops), at)
  BY <1>a, <1>b
<1>3. PICK data \in Seq(Int) : data = SerializeOps(ops)
  BY SerializedType
<1>4. PICK end \in Nat : end = Len(data)
  OBVIOUS
<1>5. \A i \in 1 .. n :
        ops[i] \in Op /\ Len(ss[i]) = SizeOf(ops[i]) /\ SizeOf(ops[i]) \in Nat /\ SizeOf(ops[i]) >= 2
  <2> SUFFICES ASSUME NEW i \in 1 .. n
               PROVE  ops[i] \in Op /\ Len(ss[i]) = SizeOf(ops[i]) /\ SizeOf(ops[i]) \in Nat /\ SizeOf(ops[i]) >= 2
    OBVIOUS
  <2>1. PICK op \in Op : op = ops[i]
    BY <1>1
  <2>2. ss[i] = OpBytes(op)
    BY <1>2, <2>1
  <2>3. QED
    BY <2>1, <2>2, OpBytesType
<1>6. /\ at \in [1 .. n + 1 -> Nat] /\ at[1] = 0 /\ at[n + 1] = end
      /\ \A i \in 1 .. n : at[i + 1] = at[i] + SizeOf(ops[i])
      /\ \A i \in 1 .. n : at[i] + SizeOf(ops[i]) <= end
      /\ \A i \in 1 .. n : \A k \in 1 .. SizeOf(ops[i]) : data[at[i] + k] = OpBytes(ops[i])[k]
  BY <1>2, <1>3, <1>4, <1>5 DEF LaidOut
<1>7. \A i \in 1 .. n : OpAt(data, at[i] + 1) = ops[i]
  <2> SUFFICES ASSUME NEW i \in 1 .. n PROVE OpAt(data, at[i] + 1) = ops[i]
    OBVIOUS
  <2>1. PICK op \in Op : op = ops[i]
    BY <1>5
  <2>2. PICK p \in Nat : p = at[i]
    <3>1. i \in 1 .. n + 1
      OBVIOUS
    <3>2. at[i] \in Nat
      BY <1>6, <3>1
    <3>3. QED
      BY <3>2
  <2>3. p + SizeOf(op) <= Len(data)
    BY <1>4, <1>6, <2>1, <2>2
  <2>4. \A k \in 1 .. SizeOf(op) : data[p + k] = OpBytes(op)[k]
    BY <1>6, <2>1, <2>2
  <2>5. OpAt(data, p + 1) = op
    BY <2>3, <2>4, OpReadsBack
  <2>6. QED
    BY <2>1, <2>2, <2>5
<1>8. PICK f : IsDeserialized(f, data) /\ DeserializeOps(data) = f[1]
  BY DeserializeIs
<1>9. \A p \in Nat : f[p] = IF p >= end THEN <<>> ELSE <<OpAt(data, p)>> \o f[p + SizeOf(OpAt(data, p))]
  BY <1>4, <1>8 DEF IsDeserialized
<1> DEFINE Bad == {k \in 0 .. n : f[at[n - k + 1] + 1] # SubSeq(ops, n - k + 1, n)}
<1>10. ASSUME Bad # {} PROVE FALSE
  <2>1. PICK k \in Bad : \A m \in Bad : k <= m
    <3>1. Bad \in SUBSET Nat
      OBVIOUS
    <3> HIDE DEF Bad
    <3>2. QED
      BY <1>10, <3>1, HasLeast
  <2>2. k \in 0 .. n /\ f[at[n - k + 1] + 1] # SubSeq(ops, n - k + 1, n)
    BY <2>1
  <2>3. CASE k = 0
    <3>1. at[n - k + 1] + 1 = end + 1 /\ n - k + 1 = n + 1
      BY <1>6, <2>3
    <3>2. f[end + 1] = <<>>
      <4>1. end + 1 \in Nat /\ end + 1 >= end
        OBVIOUS
      <4>2. QED
        BY <1>9, <4>1
    <3>3. SubSeq(ops, n + 1, n) = <<>>
      BY <1>1
    <3>4. QED
      BY <2>2, <3>1, <3>2, <3>3
  <2>4. CASE k # 0
    <3>1. PICK i \in 1 .. n : i = n - k + 1 /\ n - (k - 1) + 1 = i + 1
      BY <2>2, <2>4
    <3>2. k - 1 \in 0 .. n /\ k - 1 \notin Bad
      <4>1. k - 1 \in 0 .. n /\ ~ (k <= k - 1)
        BY <2>2, <2>4
      <4> HIDE DEF Bad
      <4>2. QED
        BY <2>1, <4>1
    <3>3. f[at[i + 1] + 1] = SubSeq(ops, i + 1, n)
      BY <3>1, <3>2
    <3>4. PICK p \in Nat, size \in Nat : p = at[i] /\ size = SizeOf(ops[i])
      <4>1. i \in 1 .. n + 1
        OBVIOUS
      <4>2. at[i] \in Nat /\ SizeOf(ops[i]) \in Nat
        BY <1>5, <1>6, <4>1
      <4>3. QED
        BY <4>2
    <3>5. p + 1 < end /\ at[i + 1] = p + size
      BY <1>5, <1>6, <3>4
    <3>6. OpAt(data, p + 1) = ops[i]
      BY <1>7, <3>4
    <3>7. f[p + 1] = <<OpAt(data, p + 1)>> \o f[p + 1 + SizeOf(OpAt(data, p + 1))]
      <4>1. p + 1 \in Nat /\ ~ (p + 1 >= end)
        BY <3>5
      <4>2. QED
        BY <1>9, <4>1
    <3>8. p + 1 + size = at[i + 1] + 1
      BY <3>5
    <3>9. f[p + 1] = <<ops[i]>> \o SubSeq(ops, i + 1, n)
      BY <3>3, <3>4, <3>6, <3>7, <3>8
    <3>10. <<ops[i]>> \o SubSeq(ops, i + 1, n) = SubSeq(ops, i, n)
      <4>1. i \in 1 .. Len(ops) /\ Len(ops) \in i .. Len(ops)
        BY <1>1
      <4>2. SubSeq(ops, i, Len(ops)) = <<ops[i]>> \o SubSeq(ops, i + 1, Len(ops))
        BY <4>1, SubSeqRecursiveFirst
      <4>3. QED
        BY <1>1, <4>2
    <3>11. QED
      BY <2>2, <3>1, <3>4, <3>9, <3>10
  <2>5. QED
    BY <2>3, <2>4
<1>11. f[1] = SubSeq(ops, 1, n)
  <2>1. n \in 0 .. n /\ n \notin Bad
    <3>1. n \in 0 .. n
      OBVIOUS
    <3> HIDE DEF Bad
    <3>2. QED
      BY <1>10, <3>1
  <2>2. n - n + 1 = 1 /\ at[1] + 1 = 1
    BY <1>6
  <2>3. QED
    BY <2>1, <2>2
<1>12. SubSeq(ops, 1, n) = ops
  BY <1>1, SubSeqFull
<1>13. QED
  BY <1>3, <1>8, <1>11, <1>12

-----------------------------------------------------------------------------
(***************************************************************************)
(* The index                                                               *)
(***************************************************************************)
IndexEntry == [hash : Hash, offset : Nat, length : Nat]

InOrder(es) == \A i, j \in 1 .. Len(es) : i < j => es[i].hash < es[j].hash

LEMMA FieldsAre ==
  ASSUME NEW e \in IndexEntry
  PROVE  e.hash \in Hash /\ e.offset \in Nat /\ e.length \in Nat
BY DEF IndexEntry

LEMMA FirstType ==
  ASSUME NEW h \in Hash
  PROVE  First(h) \in 0 .. Firsts - 1
<1>1. FirstSize \in Nat \ {0} /\ Firsts \in Nat \ {0}
  BY FormatAssumption
<1>2. PICK m \in Int : m = FirstSize * Firsts
  BY <1>1
<1>3. h \in Int /\ 0 <= h /\ h <= m - 1
  <2>1. h \in 0 .. FirstSize * Firsts - 1
    BY FormatAssumption
  <2>2. QED
    BY <1>2, <2>1
<1>4. PICK q \in Int, r \in 0 .. FirstSize - 1 : h \div FirstSize = q /\ h = FirstSize * q + r
  BY <1>1, <1>3, DivMod
<1>5. q >= 0
  <2>1. q <= -1 => FirstSize * q <= - FirstSize
    BY <1>1, Times
  <2>2. FirstSize * q \in Int
    BY <1>1
  <2>3. QED
    BY <1>1, <1>3, <1>4, <2>1, <2>2
<1>6. q <= Firsts - 1
  <2>1. PICK k \in Int : k = q - Firsts
    BY <1>1
  <2>2. FirstSize * k \in Int /\ FirstSize * q \in Int /\ FirstSize * k = FirstSize * q - m
    BY <1>1, <1>2, <2>1
  <2>3. k >= 1 => FirstSize * k >= FirstSize
    BY <1>1, Times
  <2>4. k = 0 => FirstSize * k = 0
    BY <1>1
  <2>5. ~ (k >= 0)
    BY <1>1, <1>2, <1>3, <1>4, <2>1, <2>2, <2>3, <2>4
  <2>6. QED
    BY <1>1, <2>1, <2>5
<1>7. QED
  BY <1>1, <1>4, <1>5, <1>6 DEF First

LEMMA FirstInOrder ==
  ASSUME NEW g \in Hash, NEW h \in Hash, g <= h
  PROVE  First(g) <= First(h)
<1>1. FirstSize \in Nat \ {0} /\ g \in Int /\ h \in Int
  BY FormatAssumption, HashesAre
<1>2. PICK p \in Int, r \in 0 .. FirstSize - 1 : g \div FirstSize = p /\ g = FirstSize * p + r
  BY <1>1, DivMod
<1>3. PICK q \in Int, t \in 0 .. FirstSize - 1 : h \div FirstSize = q /\ h = FirstSize * q + t
  BY <1>1, DivMod
<1>4. PICK k \in Int : k = p - q
  OBVIOUS
<1>5. FirstSize * k = FirstSize * p - FirstSize * q /\ FirstSize * p \in Int /\ FirstSize * q \in Int
  BY <1>1, <1>4
<1>6. k >= 1 => FirstSize * k >= FirstSize
  BY <1>1, Times
<1>7. ~ (k >= 1)
  BY <1>1, <1>2, <1>3, <1>5, <1>6
<1>8. QED
  BY <1>2, <1>3, <1>4, <1>7 DEF First

\* A set of numbers with every smaller one from 1 on is counted by its last.
LEMMA Counted ==
  ASSUME NEW n \in Nat, NEW S \in SUBSET (1 .. n), \A i \in S : \A k \in 1 .. i : k \in S
  PROVE  S = 1 .. Cardinality(S) /\ Cardinality(S) \in 0 .. n
<1> DEFINE Out == (1 .. n + 1) \ S
<1>1. n + 1 \in Out /\ Out \in SUBSET Nat
  OBVIOUS
<1>2. PICK m \in Out : \A k \in Out : m <= k
  <2> HIDE DEF Out
  <2>1. QED
    BY <1>1, HasLeast
<1>3. m \in 1 .. n + 1 /\ m \notin S /\ \A k \in 1 .. m - 1 : k \in S
  <2>1. m \in 1 .. n + 1 /\ m \notin S
    BY <1>2
  <2>2. ASSUME NEW k \in 1 .. m - 1, k \notin S PROVE FALSE
    <3>1. k \in Out /\ ~ (m <= k)
      BY <2>1, <2>2
    <3> HIDE DEF Out
    <3>2. QED
      BY <1>2, <3>1
  <2>3. QED
    BY <2>1, <2>2
<1>4. ASSUME NEW i \in S PROVE i \in 1 .. m - 1
  <2>1. i \in 1 .. n /\ (m <= i => m \in 1 .. i)
    BY <1>3
  <2>2. ~ (m <= i)
    BY <1>3, <2>1
  <2>3. QED
    BY <1>3, <2>1, <2>2
<1>5. S = 1 .. m - 1
  BY <1>3, <1>4
<1>6. Cardinality(1 .. m - 1) = m - 1
  <2>1. m - 1 \in Int /\ 1 \in Int
    BY <1>3
  <2>2. Cardinality(1 .. m - 1) = IF 1 > m - 1 THEN 0 ELSE m - 1 - 1 + 1
    BY <2>1, FS_Interval
  <2>3. QED
    BY <1>3, <2>2
<1>7. QED
  BY <1>3, <1>5, <1>6

\* The entries whose hash begins with b or less.
Below(es, b) == {i \in DOMAIN es : First(es[i].hash) <= b}

LEMMA BelowCounted ==
  ASSUME NEW es \in Seq(IndexEntry), InOrder(es), NEW b \in Int
  PROVE  Below(es, b) = 1 .. Cardinality(Below(es, b)) /\ Cardinality(Below(es, b)) \in 0 .. Len(es)
<1>1. PICK n \in Nat : n = Len(es) /\ DOMAIN es = 1 .. n
  OBVIOUS
<1>2. PICK S \in SUBSET (1 .. n) : S = Below(es, b)
  BY <1>1 DEF Below
<1>3. ASSUME NEW i \in S, NEW k \in 1 .. i PROVE k \in S
  <2>1. k \in 1 .. n /\ i \in 1 .. n /\ (k = i \/ k < i)
    BY <1>2
  <2>2. PICK g \in Hash, h \in Hash : g = es[k].hash /\ h = es[i].hash
    <3>1. es[k] \in IndexEntry /\ es[i] \in IndexEntry
      BY <1>1, <2>1
    <3>2. es[k].hash \in Hash /\ es[i].hash \in Hash
      BY <3>1, FieldsAre
    <3>3. QED
      BY <3>2
  <2>3. g \in Int /\ h \in Int
    BY <2>2, HashesAre
  <2>4. g <= h
    BY <1>1, <2>1, <2>2, <2>3 DEF InOrder
  <2>5. First(g) <= First(h) /\ First(h) <= b
    BY <1>2, <2>2, <2>4, FirstInOrder DEF Below
  <2>6. First(g) \in Int /\ First(h) \in Int
    BY FirstType
  <2>7. First(g) <= b
    BY <2>5, <2>6
  <2>8. QED
    BY <1>1, <1>2, <2>1, <2>2, <2>7 DEF Below
<1>4. S = 1 .. Cardinality(S) /\ Cardinality(S) \in 0 .. n
  BY <1>3, Counted
<1>5. QED
  BY <1>1, <1>2, <1>4

IsFanout(f, es) ==
  f = [b \in 0 .. Firsts - 1 |->
         Cardinality({i \in DOMAIN es : First(es[i].hash) = b}) + IF b = 0 THEN 0 ELSE f[b - 1]]

LEMMA BelowAdds ==
  ASSUME NEW es \in Seq(IndexEntry), NEW b \in 0 .. Firsts - 1
  PROVE  /\ Cardinality(Below(es, b)) =
              Cardinality({i \in DOMAIN es : First(es[i].hash) = b})
                + IF b = 0 THEN 0 ELSE Cardinality(Below(es, b - 1))
         /\ Cardinality(Below(es, b)) \in Nat
         /\ Cardinality({i \in DOMAIN es : First(es[i].hash) = b}) \in Nat
<1>1. PICK n \in Nat : n = Len(es) /\ DOMAIN es = 1 .. n
  OBVIOUS
<1>2. \A i \in 1 .. n : First(es[i].hash) \in 0 .. Firsts - 1
  <2> SUFFICES ASSUME NEW i \in 1 .. n PROVE First(es[i].hash) \in 0 .. Firsts - 1
    OBVIOUS
  <2>1. es[i].hash \in Hash
    <3>1. es[i] \in IndexEntry
      BY <1>1
    <3>2. QED
      BY <3>1, FieldsAre
  <2>2. QED
    BY <2>1, FirstType
<1>3. PICK E : E = {i \in DOMAIN es : First(es[i].hash) = b}
  OBVIOUS
<1>4. PICK B : B = Below(es, b)
  OBVIOUS
<1>5. PICK L : L = Below(es, b - 1)
  OBVIOUS
<1>6. E \in SUBSET (1 .. n) /\ B \in SUBSET (1 .. n) /\ L \in SUBSET (1 .. n)
  BY <1>1, <1>3, <1>4, <1>5 DEF Below
<1>7. /\ IsFiniteSet(E) /\ IsFiniteSet(B) /\ IsFiniteSet(L)
      /\ Cardinality(E) \in Nat /\ Cardinality(B) \in Nat /\ Cardinality(L) \in Nat
  <2>1. IsFiniteSet(1 .. n)
    BY FS_Interval
  <2>2. IsFiniteSet(E) /\ IsFiniteSet(B) /\ IsFiniteSet(L)
    BY <1>6, <2>1, FS_Subset
  <2>3. QED
    BY <2>2, FS_CardinalityType
<1>8. Firsts \in Nat
  BY FormatAssumption
<1>9. CASE b = 0
  <2>1. B = E
    BY <1>1, <1>2, <1>3, <1>4, <1>9 DEF Below
  <2>2. PICK e \in Nat : e = Cardinality(E)
    BY <1>7
  <2>3. e + 0 = e
    OBVIOUS
  <2>4. QED
    BY <1>3, <1>4, <1>7, <1>9, <2>1, <2>2, <2>3
<1>10. CASE b # 0
  <2>1. B = E \cup L
    BY <1>1, <1>2, <1>3, <1>4, <1>5, <1>8 DEF Below
  <2>2. E \cap L = {}
    BY <1>1, <1>2, <1>3, <1>5, <1>8 DEF Below
  <2>3. Cardinality({}) = 0
    BY FS_EmptySet
  <2>4. Cardinality(E \cup L) = Cardinality(E) + Cardinality(L) - Cardinality(E \cap L)
    BY <1>7, FS_Union
  <2>5. Cardinality(B) = Cardinality(E) + Cardinality(L)
    <3>1. Cardinality(E \cap L) = 0 /\ Cardinality(B) = Cardinality(E \cup L)
      BY <2>1, <2>2, <2>3
    <3>2. PICK e \in Nat, l \in Nat : e = Cardinality(E) /\ l = Cardinality(L)
      BY <1>7
    <3>3. e + l - 0 = e + l
      OBVIOUS
    <3>4. QED
      BY <2>4, <3>1, <3>2, <3>3
  <2>6. QED
    BY <1>3, <1>4, <1>5, <1>7, <1>10, <2>5
<1>11. QED
  BY <1>9, <1>10

LEMMA FanoutIs ==
  ASSUME NEW es \in Seq(IndexEntry)
  PROVE  \A b \in 0 .. Firsts - 1 : Fanout(es)[b] = Cardinality(Below(es, b))
<1> DEFINE g == [b \in 0 .. Firsts - 1 |-> Cardinality(Below(es, b))]
           f == CHOOSE f : f = [b \in 0 .. Firsts - 1 |->
                 Cardinality({i \in DOMAIN es : First(es[i].hash) = b}) + IF b = 0 THEN 0 ELSE f[b - 1]]
<1>0. Firsts \in Nat
  BY FormatAssumption
<1>1. ASSUME NEW b \in 0 .. Firsts - 1
      PROVE  g[b] = Cardinality({i \in DOMAIN es : First(es[i].hash) = b}) + IF b = 0 THEN 0 ELSE g[b - 1]
  <2>1. Cardinality(Below(es, b)) =
              Cardinality({i \in DOMAIN es : First(es[i].hash) = b})
                + IF b = 0 THEN 0 ELSE Cardinality(Below(es, b - 1))
    BY BelowAdds
  <2>2. b # 0 => b - 1 \in 0 .. Firsts - 1
    BY <1>0
  <2>3. QED
    BY <2>1, <2>2
<1>2. IsFanout(g, es)
  BY <1>1 DEF IsFanout
<1>3. IsFanout(f, es)
  <2> HIDE DEF g
  <2>1. QED
    BY <1>2 DEF IsFanout
<1>4. Fanout(es) = f
  BY DEF Fanout
<1>5. PICK h : h = f /\ IsFanout(h, es)
  BY <1>3
<1> HIDE DEF f, g
<1> DEFINE Bad == {b \in 0 .. Firsts - 1 : h[b] # g[b]}
<1>6. ASSUME Bad # {} PROVE FALSE
  <2>1. PICK b \in Bad : \A c \in Bad : b <= c
    <3>1. Bad \in SUBSET Nat
      BY <1>0
    <3> HIDE DEF Bad
    <3>2. QED
      BY <1>6, <3>1, HasLeast
  <2>2. b \in 0 .. Firsts - 1 /\ h[b] # g[b]
    BY <2>1
  <2>3. ASSUME b # 0 PROVE h[b - 1] = g[b - 1]
    <3>1. b - 1 \in 0 .. Firsts - 1 /\ ~ (b <= b - 1)
      BY <1>0, <2>2, <2>3
    <3>2. b - 1 \notin Bad
      <4> HIDE DEF Bad
      <4>1. QED
        BY <2>1, <3>1
    <3>3. QED
      BY <3>1, <3>2
  <2>4. h[b] = Cardinality({i \in DOMAIN es : First(es[i].hash) = b}) + IF b = 0 THEN 0 ELSE h[b - 1]
    BY <1>5, <2>2 DEF IsFanout
  <2>5. g[b] = Cardinality({i \in DOMAIN es : First(es[i].hash) = b}) + IF b = 0 THEN 0 ELSE g[b - 1]
    BY <1>1, <2>2
  <2>6. QED
    BY <2>2, <2>3, <2>4, <2>5
<1>7. \A b \in 0 .. Firsts - 1 : h[b] = g[b]
  BY <1>6
<1>8. QED
  BY <1>4, <1>5, <1>7 DEF g

\* Entries that come in order are as they were when they are sorted.
LEMMA ByHashIs ==
  ASSUME NEW es \in Seq(IndexEntry), InOrder(es)
  PROVE  ByHash(es) = es
<1>1. PICK n \in Nat : n = Len(es) /\ DOMAIN es = 1 .. n
  OBVIOUS
<1>2. PICK R : R = Range(es) /\ R = {es[j] : j \in 1 .. n}
  BY <1>1 DEF Range
<1>3. \A i, j \in 1 .. n : i < j => es[i].hash < es[j].hash
  BY <1>1 DEF InOrder
<1>4. \A i \in 1 .. n : es[i].hash \in Int
  <2>1. \A i \in 1 .. n : es[i] \in IndexEntry
    BY <1>1
  <2>2. \A i \in 1 .. n : es[i].hash \in Hash
    BY <2>1, FieldsAre
  <2>3. \A h \in Hash : h \in Int
    BY HashesAre
  <2>4. QED
    BY <2>2, <2>3
<1>5. ASSUME NEW j \in 1 .. n
      PROVE  Cardinality({d \in R : d.hash < es[j].hash}) = j - 1
  <2> DEFINE D == {d \in R : d.hash < es[j].hash}
             f == [k \in 1 .. j - 1 |-> es[k]]
  <2>1. f \in [1 .. j - 1 -> D]
    BY <1>2, <1>3
  <2>2. \A k, l \in 1 .. j - 1 : f[k] = f[l] => k = l
    <3> SUFFICES ASSUME NEW k \in 1 .. j - 1, NEW l \in 1 .. j - 1, es[k] = es[l] PROVE k = l
      OBVIOUS
    <3>1. ~ (k < l) /\ ~ (l < k)
      BY <1>3, <1>4
    <3>2. QED
      BY <3>1
  <2>3. \A d \in D : \E k \in 1 .. j - 1 : f[k] = d
    <3> SUFFICES ASSUME NEW d \in D PROVE \E k \in 1 .. j - 1 : f[k] = d
      OBVIOUS
    <3>1. PICK k \in 1 .. n : d = es[k] /\ es[k].hash < es[j].hash
      BY <1>2
    <3>2. ~ (j < k) /\ j # k
      BY <3>1, <1>3, <1>4
    <3>3. k \in 1 .. j - 1
      BY <3>2
    <3>4. QED
      BY <3>1, <3>3
  <2>4. f \in Bijection(1 .. j - 1, D)
    <3> HIDE DEF D, f
    <3>1. DOMAIN f = 1 .. j - 1
      BY <2>1
    <3>2. IsInjective(f)
      BY <2>2, <3>1 DEF IsInjective
    <3>3. QED
      BY <2>1, <2>3, <3>2 DEF Bijection, Injection, Surjection
  <2>5. ExistsBijection(1 .. j - 1, D)
    BY <2>4 DEF ExistsBijection
  <2>6. j - 1 \in Nat
    OBVIOUS
  <2> HIDE DEF D, f
  <2>7. Cardinality(D) = j - 1
    BY <2>5, <2>6, FS_CountingElements
  <2>8. QED
    BY <2>7 DEF D
<1>6. ASSUME NEW i \in 1 .. n
      PROVE  (CHOOSE e \in R : Cardinality({d \in R : d.hash < e.hash}) = i - 1) = es[i]
  <2>1. es[i] \in R /\ Cardinality({d \in R : d.hash < es[i].hash}) = i - 1
    BY <1>2, <1>5
  <2>2. ASSUME NEW e \in R, Cardinality({d \in R : d.hash < e.hash}) = i - 1 PROVE e = es[i]
    <3>1. PICK j \in 1 .. n : e = es[j]
      BY <1>2
    <3>2. j - 1 = i - 1
      BY <1>5, <2>2, <3>1
    <3>3. j = i
      BY <3>2
    <3>4. QED
      BY <3>1, <3>3
  <2>3. QED
    BY <2>1, <2>2
<1>7. ByHash(es) = [i \in 1 .. n |-> es[i]]
  BY <1>1, <1>2, <1>6 DEF ByHash
<1>8. es = [i \in 1 .. n |-> es[i]]
  BY <1>1
<1>9. QED
  BY <1>7, <1>8

\* Where a hash belongs in a list in order.
LEMMA BisectIs ==
  ASSUME NEW s \in Seq(Int), NEW h \in Int, \A i, j \in 1 .. Len(s) : i < j => s[i] < s[j]
  PROVE  /\ BisectLeft(s, h) \in 0 .. Len(s)
         /\ \A i \in 1 .. BisectLeft(s, h) : s[i] < h
         /\ \A i \in BisectLeft(s, h) + 1 .. Len(s) : s[i] >= h
<1>1. PICK n \in Nat : n = Len(s)
  OBVIOUS
<1> DEFINE Ends == {p \in 0 .. n : p < n => s[p + 1] >= h}
<1>2. Ends \in SUBSET Nat /\ n \in Ends
  OBVIOUS
<1>3. PICK p \in Ends : \A q \in Ends : p <= q
  <2> HIDE DEF Ends
  <2>1. QED
    BY <1>2, HasLeast
<1>4. p \in 0 .. n /\ (p < n => s[p + 1] >= h)
  BY <1>3
<1>5. ASSUME NEW i \in 1 .. p PROVE s[i] < h
  <2>1. i - 1 \in 0 .. n /\ i - 1 < n /\ ~ (p <= i - 1) /\ (i - 1) + 1 = i
    BY <1>4
  <2>2. i - 1 \notin Ends
    <3> HIDE DEF Ends
    <3>1. QED
      BY <1>3, <2>1
  <2>3. ~ (s[i] >= h) /\ s[i] \in Int
    BY <1>1, <1>4, <2>1, <2>2
  <2>4. QED
    BY <2>3
<1>6. ASSUME NEW i \in p + 1 .. n PROVE s[i] >= h
  <2>1. p + 1 \in 1 .. n /\ i \in 1 .. n /\ (i = p + 1 \/ p + 1 < i)
    BY <1>4
  <2>2. s[p + 1] >= h /\ s[p + 1] \in Int /\ s[i] \in Int
    BY <1>1, <1>4, <2>1
  <2>3. i # p + 1 => s[p + 1] < s[i]
    BY <1>1, <2>1
  <2>4. QED
    BY <2>1, <2>2, <2>3
<1>7. \E q \in 0 .. Len(s) : (\A i \in 1 .. q : s[i] < h) /\ (\A i \in q + 1 .. Len(s) : s[i] >= h)
  BY <1>1, <1>4, <1>5, <1>6
<1>8. QED
  BY <1>7 DEF BisectLeft

LEMMA RowIs ==
  ASSUME NEW e \in IndexEntry
  PROVE  IndexRow(e) \in Seq(Int) /\ Len(IndexRow(e)) = 3
<1>1. e.hash \in Int /\ e.offset \in Int /\ e.length \in Int
  <2>1. \A h \in Hash : h \in Int
    BY HashesAre
  <2>2. QED
    BY <2>1, FieldsAre
<1>2. PICK a \in Int, b \in Int, c \in Int : a = e.hash /\ b = e.offset /\ c = e.length
  BY <1>1
<1>3. <<a, b, c>> \in Seq(Int) /\ Len(<<a, b, c>>) = 3
  OBVIOUS
<1>4. QED
  BY <1>2, <1>3 DEF IndexRow

Rows(es) == [i \in DOMAIN es |-> IndexRow(es[i])]

LEMMA RowsLie ==
  ASSUME NEW es \in Seq(IndexEntry)
  PROVE  /\ FlattenSeq(Rows(es)) \in Seq(Int)
         /\ Len(FlattenSeq(Rows(es))) = 3 * Len(es)
         /\ \A i \in 1 .. Len(es) :
              /\ FlattenSeq(Rows(es))[3 * (i - 1) + 1] = es[i].hash
              /\ FlattenSeq(Rows(es))[3 * (i - 1) + 2] = es[i].offset
              /\ FlattenSeq(Rows(es))[3 * (i - 1) + 3] = es[i].length
<1>1. PICK n \in Nat : n = Len(es) /\ DOMAIN es = 1 .. n
  OBVIOUS
<1>2. \A i \in 1 .. n : es[i] \in IndexEntry
  BY <1>1
<1>3. \A i \in 1 .. n : IndexRow(es[i]) \in Seq(Int)
  BY <1>2, RowIs
<1>4. \A i \in 1 .. n : Len(IndexRow(es[i])) = 3
  BY <1>2, RowIs
<1>5. PICK rows \in Seq(Seq(Int)) : rows = Rows(es) /\ Len(rows) = n
  <2>1. Rows(es) \in [1 .. n -> Seq(Int)]
    BY <1>1, <1>3 DEF Rows
  <2>2. QED
    BY <2>1
<1>6. \A i \in 1 .. n : rows[i] = IndexRow(es[i])
  BY <1>1, <1>5 DEF Rows
<1>7. PICK at : LaidOut(rows, FlattenSeq(rows), at)
  BY Layout
<1>8. PICK whole : whole = FlattenSeq(rows)
  OBVIOUS
<1>9. /\ whole \in Seq(Int)
      /\ at \in [1 .. n + 1 -> Nat] /\ at[1] = 0 /\ at[n + 1] = Len(whole)
      /\ \A i \in 1 .. n : at[i + 1] = at[i] + 3
      /\ \A i \in 1 .. n : \A k \in 1 .. 3 : whole[at[i] + k] = rows[i][k]
  <2>1. LaidOut(rows, whole, at)
    BY <1>7, <1>8
  <2>2. \A i \in 1 .. n : Len(rows[i]) = 3
    BY <1>4, <1>6
  <2>3. QED
    BY <1>5, <2>1, <2>2 DEF LaidOut
<1>10. \A i \in 1 .. n + 1 : at[i] = 3 * (i - 1)
  <2> DEFINE Bad == {i \in 1 .. n + 1 : at[i] # 3 * (i - 1)}
  <2>1. ASSUME Bad # {} PROVE FALSE
    <3>1. PICK i \in Bad : \A j \in Bad : i <= j
      <4>1. Bad \in SUBSET Nat
        OBVIOUS
      <4> HIDE DEF Bad
      <4>2. QED
        BY <2>1, <4>1, HasLeast
    <3>2. i \in 1 .. n + 1 /\ at[i] # 3 * (i - 1)
      BY <3>1
    <3>3. i # 1
      BY <1>9, <3>2
    <3>4. i - 1 \in 1 .. n /\ i - 1 \in 1 .. n + 1 /\ ~ (i <= i - 1) /\ (i - 1) + 1 = i
      BY <3>2, <3>3
    <3>5. i - 1 \notin Bad
      <4> HIDE DEF Bad
      <4>1. QED
        BY <3>1, <3>4
    <3>6. at[i - 1] = 3 * ((i - 1) - 1)
      BY <3>4, <3>5
    <3>7. at[i] = at[i - 1] + 3
      BY <1>9, <3>4
    <3>8. QED
      BY <3>2, <3>6, <3>7
  <2>2. QED
    BY <2>1
<1>11. Len(whole) = 3 * n
  <2>1. n + 1 \in 1 .. n + 1 /\ (n + 1) - 1 = n
    OBVIOUS
  <2>2. QED
    BY <1>9, <1>10, <2>1
<1>12. ASSUME NEW i \in 1 .. n
       PROVE  /\ whole[3 * (i - 1) + 1] = es[i].hash
              /\ whole[3 * (i - 1) + 2] = es[i].offset
              /\ whole[3 * (i - 1) + 3] = es[i].length
  <2>1. at[i] = 3 * (i - 1)
    BY <1>10
  <2>2. \A k \in 1 .. 3 : whole[3 * (i - 1) + k] = IndexRow(es[i])[k]
    BY <1>6, <1>9, <2>1
  <2>3. IndexRow(es[i]) = <<es[i].hash, es[i].offset, es[i].length>>
    BY DEF IndexRow
  <2>4. QED
    BY <2>2, <2>3
<1>13. QED
  BY <1>1, <1>5, <1>8, <1>9, <1>11, <1>12

\* The index was written, of entries in order.
Indexed ==
  /\ entries \in Seq(IndexEntry)
  /\ InOrder(entries)
  /\ index = IndexBytes

LEMMA IndexHolds ==
  ASSUME Indexed
  PROVE  /\ \A b \in 0 .. Firsts - 1 : index[b + 1] = Cardinality(Below(entries, b))
         /\ \A i \in 1 .. Len(entries) : LoadedEntry(i) = entries[i]
<1>1. PICK es \in Seq(IndexEntry) : es = entries
  BY DEF Indexed
<1>2. InOrder(es)
  BY <1>1 DEF Indexed
<1>3. PICK n \in Nat : n = Len(es) /\ DOMAIN es = 1 .. n
  OBVIOUS
<1>4. PICK m \in Nat : m = Firsts
  BY FormatAssumption
<1>5. \A b \in 0 .. m - 1 : Fanout(es)[b] = Cardinality(Below(es, b))
  BY <1>4, FanoutIs
<1>6. \A b \in 0 .. m - 1 : Cardinality(Below(es, b)) \in Nat
  <2>1. \A b \in 0 .. Firsts - 1 : Cardinality(Below(es, b)) \in Nat
    BY BelowAdds
  <2>2. QED
    BY <1>4, <2>1
<1>7. PICK head \in Seq(Int) : head = [i \in 1 .. m |-> Fanout(es)[i - 1]] /\ Len(head) = m
  <2>1. ASSUME NEW i \in 1 .. m PROVE Fanout(es)[i - 1] \in Int
    <3>1. i - 1 \in 0 .. m - 1
      OBVIOUS
    <3>2. QED
      BY <1>5, <1>6, <3>1
  <2>2. [i \in 1 .. m |-> Fanout(es)[i - 1]] \in [1 .. m -> Int]
    BY <2>1
  <2>3. PICK f \in [1 .. m -> Int] : f = [i \in 1 .. m |-> Fanout(es)[i - 1]]
    BY <2>2
  <2>4. f \in Seq(Int) /\ Len(f) = m
    BY <2>3
  <2>5. QED
    BY <2>3, <2>4
<1>8. PICK tail \in Seq(Int) : tail = FlattenSeq(Rows(es))
  BY RowsLie
<1>9. index = head \o tail
  <2>1. ByHash(entries) = es
    BY <1>1, <1>2, ByHashIs
  <2>2. index = [i \in 1 .. Firsts |-> Fanout(es)[i - 1]] \o FlattenSeq([i \in DOMAIN es |-> IndexRow(es[i])])
    BY <2>1 DEF Indexed, IndexBytes
  <2>3. QED
    BY <1>4, <1>7, <1>8, <2>2 DEF Rows
<1>10. PICK idx \in Seq(Int) : idx = head \o tail
  <2>1. head \o tail \in Seq(Int)
    OBVIOUS
  <2>2. QED
    BY <2>1
<1>11. Len(tail) = 3 * n
  BY <1>3, <1>8, RowsLie
<1>12. ASSUME NEW i \in 1 .. n
       PROVE  /\ tail[3 * (i - 1) + 1] = es[i].hash
              /\ tail[3 * (i - 1) + 2] = es[i].offset
              /\ tail[3 * (i - 1) + 3] = es[i].length
  BY <1>3, <1>8, RowsLie
<1>13. /\ \A i \in 1 .. m : idx[i] = head[i]
       /\ \A k \in 1 .. 3 * n : idx[m + k] = tail[k]
  BY <1>7, <1>10, <1>11
<1>14. ASSUME NEW b \in 0 .. m - 1 PROVE index[b + 1] = Cardinality(Below(es, b))
  <2>1. b + 1 \in 1 .. m /\ (b + 1) - 1 = b
    OBVIOUS
  <2>2. QED
    BY <1>5, <1>7, <1>9, <1>10, <1>13, <2>1
<1>15. ASSUME NEW i \in 1 .. n PROVE LoadedEntry(i) = es[i]
  <2>1. PICK k \in Nat : k = 3 * (i - 1) /\ k + 1 \in 1 .. 3 * n /\ k + 2 \in 1 .. 3 * n /\ k + 3 \in 1 .. 3 * n
    OBVIOUS
  <2>2. /\ m + k + 1 = m + (k + 1) /\ m + k + 2 = m + (k + 2) /\ m + k + 3 = m + (k + 3)
    OBVIOUS
  <2>3. idx[m + k + 1] = es[i].hash /\ idx[m + k + 2] = es[i].offset /\ idx[m + k + 3] = es[i].length
    BY <1>12, <1>13, <2>1, <2>2
  <2>4. LoadedEntry(i) = Entry(es[i].hash, es[i].offset, es[i].length)
    BY <1>4, <1>9, <1>10, <2>1, <2>3 DEF LoadedEntry
  <2>5. es[i] \in IndexEntry
    BY <1>3
  <2>6. PICK e \in IndexEntry : e = es[i]
    BY <2>5
  <2>7. e = Entry(e.hash, e.offset, e.length)
    BY DEF Entry, IndexEntry
  <2>8. QED
    BY <2>4, <2>6, <2>7
<1>16. QED
  BY <1>1, <1>3, <1>4, <1>14, <1>15

LEMMA LoadedIs ==
  ASSUME Indexed
  PROVE  Loaded = entries
<1>1. PICK es \in Seq(IndexEntry) : es = entries
  BY DEF Indexed
<1>2. InOrder(es)
  BY <1>1 DEF Indexed
<1>3. PICK n \in Nat : n = Len(es) /\ DOMAIN es = 1 .. n
  OBVIOUS
<1>4. PICK m \in Nat \ {0} : m = Firsts
  BY FormatAssumption
<1>5. Below(es, m - 1) = 1 .. n
  <2>1. ASSUME NEW i \in 1 .. n PROVE First(es[i].hash) <= m - 1
    <3>1. es[i] \in IndexEntry
      BY <1>3
    <3>2. es[i].hash \in Hash
      BY <3>1, FieldsAre
    <3>3. First(es[i].hash) \in 0 .. Firsts - 1
      BY <3>2, FirstType
    <3>4. QED
      BY <1>4, <3>3
  <2>2. QED
    BY <1>3, <2>1 DEF Below
<1>6. Cardinality(1 .. n) = n
  <2>1. Cardinality(1 .. n) = IF 1 > n THEN 0 ELSE n - 1 + 1
    BY FS_Interval
  <2>2. QED
    BY <2>1
<1>7. index[m] = n
  <2>1. m - 1 \in 0 .. Firsts - 1 /\ (m - 1) + 1 = m
    BY <1>4
  <2>2. index[(m - 1) + 1] = Cardinality(Below(entries, m - 1))
    BY <2>1, IndexHolds
  <2>3. QED
    BY <1>1, <1>5, <1>6, <2>1, <2>2
<1>8. \A i \in 1 .. n : LoadedEntry(i) = es[i]
  BY <1>1, <1>3, IndexHolds
<1>9. Loaded = [i \in 1 .. n |-> es[i]]
  BY <1>4, <1>7, <1>8 DEF Loaded
<1>10. es = [i \in 1 .. n |-> es[i]]
  BY <1>3
<1>11. QED
  BY <1>1, <1>9, <1>10

\* What a search for h from start + 1 to end comes to.
Search(es, start, end, h) ==
  LET slice == [i \in 1 .. end - start |-> es[start + i].hash]
      pos   == BisectLeft(slice, h)
  IN {es[start + pos + 1] : p \in {q \in {pos} : q < Len(slice) /\ slice[q + 1] = h}}

\* The entries from start + 1 to end are those whose hash begins as h does,
\* and find looks among them.
LookedAt(h, start, end) ==
  /\ start <= end /\ end <= Len(entries)
  /\ Below(entries, First(h) - 1) = 1 .. start
  /\ Below(entries, First(h)) = 1 .. end
  /\ Find(h) = Search(entries, start, end, h)

LEMMA FindLooks ==
  ASSUME Indexed, NEW h \in Hash
  PROVE  \E start \in Nat, end \in Nat : LookedAt(h, start, end)
<1>1. PICK es \in Seq(IndexEntry) : es = entries /\ InOrder(es)
  BY DEF Indexed
<1>2. PICK n \in Nat : n = Len(es) /\ DOMAIN es = 1 .. n
  OBVIOUS
<1>3. PICK b \in 0 .. Firsts - 1 : b = First(h)
  BY FirstType
<1>4. PICK start \in 0 .. n : start = Cardinality(Below(es, b - 1)) /\ Below(es, b - 1) = 1 .. start
  <2>1. b - 1 \in Int
    OBVIOUS
  <2>2. Below(es, b - 1) = 1 .. Cardinality(Below(es, b - 1)) /\ Cardinality(Below(es, b - 1)) \in 0 .. n
    BY <1>1, <1>2, <2>1, BelowCounted
  <2>3. QED
    BY <2>2
<1>5. PICK end \in 0 .. n : end = Cardinality(Below(es, b)) /\ Below(es, b) = 1 .. end
  <2>1. b \in Int
    OBVIOUS
  <2>2. Below(es, b) = 1 .. Cardinality(Below(es, b)) /\ Cardinality(Below(es, b)) \in 0 .. n
    BY <1>1, <1>2, <2>1, BelowCounted
  <2>3. QED
    BY <2>2
<1>6. \A i \in 1 .. n : First(es[i].hash) \in 0 .. Firsts - 1
  <2> SUFFICES ASSUME NEW i \in 1 .. n PROVE First(es[i].hash) \in 0 .. Firsts - 1
    OBVIOUS
  <2>1. es[i] \in IndexEntry
    BY <1>2
  <2>2. es[i].hash \in Hash
    BY <2>1, FieldsAre
  <2>3. QED
    BY <2>2, FirstType
<1>7. start <= end
  <2>1. \A i \in 1 .. n : First(es[i].hash) <= b - 1 => First(es[i].hash) <= b
    BY <1>6
  <2>2. \A i \in 1 .. start : i \in 1 .. end
    BY <1>2, <1>4, <1>5, <2>1 DEF Below
  <2>3. start # 0 => start \in 1 .. start
    OBVIOUS
  <2>4. QED
    BY <2>2, <2>3
<1>8. index[b + 1] = end
  BY <1>1, <1>3, <1>5, IndexHolds
<1>9. (IF b > 0 THEN index[b] ELSE 0) = start
  <2>1. CASE b = 0
    <3>1. \A i \in 1 .. n : ~ (First(es[i].hash) <= b - 1)
      BY <2>1, <1>6
    <3>2. Below(es, b - 1) = {}
      BY <1>2, <3>1 DEF Below
    <3>3. ~ (1 \in 1 .. start)
      BY <1>4, <3>2
    <3>4. start = 0
      BY <3>3
    <3>5. QED
      BY <2>1, <3>4
  <2>2. CASE b # 0
    <3>1. b - 1 \in 0 .. Firsts - 1 /\ (b - 1) + 1 = b /\ b > 0
      <4>1. Firsts \in Nat
        BY FormatAssumption
      <4>2. QED
        BY <2>2, <4>1
    <3>2. index[(b - 1) + 1] = Cardinality(Below(entries, b - 1))
      BY <3>1, IndexHolds
    <3>3. QED
      BY <1>1, <1>4, <3>1, <3>2
  <2>3. QED
    BY <2>1, <2>2
<1>10. Loaded = es
  BY <1>1, LoadedIs
<1>11. Find(h) = Search(es, start, end, h)
  <2>1. Find(h) = Search(Loaded, IF First(h) > 0 THEN index[First(h)] ELSE 0, index[First(h) + 1], h)
    BY Zenon DEF Find, Search
  <2>2. QED
    BY <2>1, <1>3, <1>8, <1>9, <1>10, Zenon
<1>12. LookedAt(h, start, end)
  <2>1. start \in Nat /\ end \in Nat /\ end <= n
    OBVIOUS
  <2>2. QED
    BY <2>1, <1>1, <1>2, <1>3, <1>4, <1>5, <1>7, <1>11 DEF LookedAt
<1>13. QED
  <2>1. start \in Nat /\ end \in Nat
    OBVIOUS
  <2>2. QED
    BY <2>1, <1>12

\* find finds the entry of a hash that was packed,
LEMMA FindPacked ==
  ASSUME Indexed, NEW j \in 1 .. Len(entries)
  PROVE  Find(entries[j].hash) = {entries[j]}
<1>1. PICK es \in Seq(IndexEntry) : es = entries /\ InOrder(es)
  BY DEF Indexed
<1>2. PICK n \in Nat : n = Len(es) /\ DOMAIN es = 1 .. n /\ j \in 1 .. n
  BY <1>1
<1>3. \A i \in 1 .. n : es[i].hash \in Hash /\ es[i].hash \in Int
  <2>1. \A i \in 1 .. n : es[i] \in IndexEntry
    BY <1>2
  <2>2. \A i \in 1 .. n : es[i].hash \in Hash
    BY <2>1, FieldsAre
  <2>3. \A h \in Hash : h \in Int
    BY HashesAre
  <2>4. QED
    BY <2>2, <2>3
<1>4. PICK h \in Hash : h = es[j].hash /\ h \in Int
  BY <1>2, <1>3
<1>5. PICK start \in Nat, end \in Nat : LookedAt(h, start, end)
  BY FindLooks
<1>6. /\ start <= end /\ end <= n
      /\ Below(es, First(h) - 1) = 1 .. start
      /\ Below(es, First(h)) = 1 .. end
      /\ Find(h) = Search(es, start, end, h)
  BY <1>1, <1>2, <1>5 DEF LookedAt
<1>7. j \in start + 1 .. end
  <2>1. First(h) \in Int
    BY FirstType
  <2>2. First(h) <= First(h) /\ ~ (First(h) <= First(h) - 1)
    BY <2>1
  <2>3. j \in 1 .. end /\ j \notin 1 .. start
    BY <1>2, <1>4, <1>6, <2>2 DEF Below
  <2>4. QED
    BY <2>3
<1> DEFINE all == [i \in 1 .. end - start |-> es[start + i].hash]
<1>8. PICK m \in Nat, k \in Nat : m = end - start /\ k \in 1 .. m /\ k = j - start /\ start + k = j
  BY <1>6, <1>7
<1>9. PICK slice \in Seq(Int) : slice = all /\ Len(slice) = m
  <2>1. \A i \in 1 .. m : start + i \in 1 .. n
    BY <1>6, <1>8
  <2>2. \A i \in 1 .. m : es[start + i].hash \in Int
    BY <1>3, <2>1
  <2>3. all \in [1 .. m -> Int]
    BY <1>8, <2>2
  <2>4. PICK f \in [1 .. m -> Int] : f = all
    BY <2>3
  <2>5. f \in Seq(Int) /\ Len(f) = m
    OBVIOUS
  <2>6. QED
    BY <2>4, <2>5
<1>10. \A i \in 1 .. m : slice[i] = es[start + i].hash
  BY <1>8, <1>9
<1>11. \A i, l \in 1 .. Len(slice) : i < l => slice[i] < slice[l]
  <2> SUFFICES ASSUME NEW i \in 1 .. m, NEW l \in 1 .. m, i < l PROVE slice[i] < slice[l]
    BY <1>9
  <2>1. start + i \in 1 .. n /\ start + l \in 1 .. n /\ start + i < start + l
    BY <1>6, <1>8
  <2>2. es[start + i].hash < es[start + l].hash
    BY <1>1, <1>2, <2>1 DEF InOrder
  <2>3. QED
    BY <1>10, <2>2
<1>12. PICK pos \in Int : pos = BisectLeft(slice, h) /\ pos \in 0 .. m
  <2>1. BisectLeft(slice, h) \in 0 .. m
    BY <1>4, <1>9, <1>11, BisectIs
  <2>2. QED
    BY <2>1
<1>13. pos \in 0 .. m
  BY <1>12
<1>14. \A i \in 1 .. pos : slice[i] < h
  BY <1>4, <1>9, <1>11, <1>12, BisectIs
<1>15. \A i \in pos + 1 .. m : slice[i] >= h
  BY <1>4, <1>9, <1>11, <1>12, BisectIs
<1>16. slice[k] = h
  BY <1>4, <1>8, <1>10
<1>17. k = pos + 1
  <2>1. ~ (k \in 1 .. pos)
    BY <1>4, <1>14, <1>16
  <2>2. k \in pos + 1 .. m
    BY <1>8, <1>13, <2>1
  <2>3. pos + 1 \in 1 .. m /\ pos + 1 \in pos + 1 .. m
    BY <1>8, <1>13, <2>2
  <2>4. slice[pos + 1] >= h /\ slice[pos + 1] \in Int
    <3>1. slice[pos + 1] >= h
      BY <1>15, <2>3
    <3>2. slice[pos + 1] \in Int
      <4> HIDE DEF all
      <4>1. \A i \in 1 .. m : slice[i] \in Int
        BY <1>9
      <4>2. QED
        BY <2>3, <4>1
    <3>3. QED
      BY <3>1, <3>2
  <2>5. pos + 1 < k => slice[pos + 1] < slice[k]
    BY <1>8, <1>9, <1>11, <2>3
  <2>6. ~ (pos + 1 < k)
    BY <1>4, <1>16, <2>4, <2>5
  <2>7. QED
    BY <1>8, <1>13, <2>2, <2>6
<1>18. Find(h) = {es[start + pos + 1] : p \in {q \in {pos} : q < Len(slice) /\ slice[q + 1] = h}}
  BY <1>6, <1>9, <1>12, Zenon DEF Search
<1>19. start + pos + 1 = j /\ pos < Len(slice) /\ slice[pos + 1] = h
  BY <1>8, <1>9, <1>13, <1>16, <1>17
<1>20. Find(h) = {es[j]}
  BY <1>18, <1>19
<1>21. QED
  BY <1>1, <1>4, <1>20

\* and nothing else.
LEMMA FindNothing ==
  ASSUME Indexed, NEW h \in Hash, \A j \in 1 .. Len(entries) : entries[j].hash # h
  PROVE  Find(h) = {}
<1>1. PICK es \in Seq(IndexEntry) : es = entries /\ InOrder(es)
  BY DEF Indexed
<1>2. PICK n \in Nat : n = Len(es) /\ DOMAIN es = 1 .. n
  BY <1>1
<1>3. \A i \in 1 .. n : es[i].hash \in Int
  <2>1. \A i \in 1 .. n : es[i] \in IndexEntry
    BY <1>2
  <2>2. \A i \in 1 .. n : es[i].hash \in Hash
    BY <2>1, FieldsAre
  <2>3. \A g \in Hash : g \in Int
    BY HashesAre
  <2>4. QED
    BY <2>2, <2>3
<1>4. h \in Int
  BY HashesAre
<1>5. PICK start \in Nat, end \in Nat : LookedAt(h, start, end)
  BY FindLooks
<1>6. /\ start <= end /\ end <= n
      /\ Find(h) = Search(es, start, end, h)
  BY <1>1, <1>2, <1>5 DEF LookedAt
<1> DEFINE all == [i \in 1 .. end - start |-> es[start + i].hash]
<1>7. PICK m \in Nat : m = end - start
  BY <1>6
<1>8. PICK slice \in Seq(Int) : slice = all /\ Len(slice) = m
  <2>1. \A i \in 1 .. m : start + i \in 1 .. n
    BY <1>6, <1>7
  <2>2. \A i \in 1 .. m : es[start + i].hash \in Int
    BY <1>3, <2>1
  <2>3. all \in [1 .. m -> Int]
    BY <1>7, <2>2
  <2>4. PICK f \in [1 .. m -> Int] : f = all
    BY <2>3
  <2>5. f \in Seq(Int) /\ Len(f) = m
    OBVIOUS
  <2>6. QED
    BY <2>4, <2>5
<1>9. \A i \in 1 .. m : slice[i] = es[start + i].hash
  BY <1>7, <1>8
<1>10. \A i \in 1 .. m : slice[i] # h
  <2>1. \A i \in 1 .. m : start + i \in 1 .. n
    BY <1>6, <1>7
  <2>2. QED
    BY <1>1, <1>2, <1>9, <2>1
<1>11. \A i, l \in 1 .. Len(slice) : i < l => slice[i] < slice[l]
  <2> SUFFICES ASSUME NEW i \in 1 .. m, NEW l \in 1 .. m, i < l PROVE slice[i] < slice[l]
    BY <1>8
  <2>1. start + i \in 1 .. n /\ start + l \in 1 .. n /\ start + i < start + l
    BY <1>6, <1>7
  <2>2. es[start + i].hash < es[start + l].hash
    BY <1>1, <1>2, <2>1 DEF InOrder
  <2>3. QED
    BY <1>9, <2>2
<1>12. PICK pos : pos = BisectLeft(slice, h)
  OBVIOUS
<1>13. pos \in 0 .. m
  BY <1>4, <1>8, <1>11, <1>12, BisectIs
<1>14. Find(h) = {es[start + pos + 1] : p \in {q \in {pos} : q < Len(slice) /\ slice[q + 1] = h}}
  BY <1>6, <1>8, <1>12, Zenon DEF Search
<1>15. ~ (pos < Len(slice) /\ slice[pos + 1] = h)
  <2>1. pos < m => pos + 1 \in 1 .. m
    BY <1>13
  <2>2. QED
    BY <1>8, <1>10, <2>1
<1>16. QED
  BY <1>14, <1>15

-----------------------------------------------------------------------------
(***************************************************************************)
(* What is written                                                         *)
(***************************************************************************)
LEMMA SliceOfLonger ==
  ASSUME NEW data \in Seq(Int), NEW more \in Seq(Int), NEW offset \in Nat, NEW length \in Nat,
         offset + length <= Len(data)
  PROVE  Slice(data \o more, offset, length) = Slice(data, offset, length)
<1>1. PICK whole \in Seq(Int) : whole = data \o more
  <2>1. data \o more \in Seq(Int)
    OBVIOUS
  <2>2. QED
    BY <2>1
<1>2. PICK n \in Nat : n = Len(data)
  OBVIOUS
<1>3. Len(whole) \in Nat /\ n <= Len(whole) /\ \A k \in 1 .. n : whole[k] = data[k]
  BY <1>1, <1>2
<1>4. offset + length <= Len(whole)
  BY <1>2, <1>3
<1>5. PICK from \in Nat, to \in Nat : from = offset + 1 /\ to = offset + length
  OBVIOUS
<1>6. Slice(whole, offset, length) = SubSeq(whole, from, to)
  <2>1. Slice(whole, offset, length) = SubSeq(whole, offset + 1, offset + length)
    BY <1>4, SliceFits
  <2>2. QED
    BY <1>5, <2>1
<1>7. Slice(data, offset, length) = SubSeq(data, from, to)
  <2>1. Slice(data, offset, length) = SubSeq(data, offset + 1, offset + length)
    BY SliceFits
  <2>2. QED
    BY <1>5, <2>1
<1>8. \A k \in from .. to : data[k] \in Int /\ whole[k] = data[k]
  <2>1. \A k \in from .. to : k \in 1 .. n
    BY <1>2, <1>5
  <2>2. \A k \in 1 .. n : data[k] \in Int
    BY <1>2
  <2>3. QED
    BY <1>3, <2>1, <2>2
<1>9. SubSeq(whole, from, to) = SubSeq(data, from, to)
  <2>1. [k \in 1 .. to - from + 1 |-> whole[from + k - 1]] = [k \in 1 .. to - from + 1 |-> data[from + k - 1]]
    <3>1. ASSUME NEW k \in 1 .. to - from + 1 PROVE whole[from + k - 1] = data[from + k - 1]
      <4>1. from + k - 1 \in from .. to
        OBVIOUS
      <4>2. QED
        BY <1>8, <4>1
    <3>2. QED
      BY <3>1
  <2>2. PICK w \in Seq(Int), d \in Seq(Int) : w = SubSeq(whole, from, to) /\ d = SubSeq(data, from, to)
    <3>1. \A k \in from .. to : whole[k] \in Int
      BY <1>8
    <3>2. SubSeq(whole, from, to) \in Seq(Int)
      BY <3>1, SubSeqProperties
    <3>3. SubSeq(data, from, to) \in Seq(Int)
      BY <1>8, SubSeqProperties
    <3>4. QED
      BY <3>2, <3>3
  <2>3. Len(w) = Len(d)
    BY <2>2
  <2>4. \A k \in 1 .. Len(w) : w[k] = d[k]
    <3>1. \A k \in 1 .. Len(w) : from + k - 1 \in from .. to /\ w[k] = whole[from + k - 1] /\ d[k] = data[from + k - 1]
      BY <2>2
    <3>2. QED
      BY <1>8, <3>1
  <2>5. w = d
    BY <2>3, <2>4, SeqEqual
  <2>6. QED
    BY <2>2, <2>5
<1>10. QED
  BY <1>1, <1>6, <1>7, <1>9

LEMMA SliceOfEnd ==
  ASSUME NEW data \in Seq(Int), NEW more \in Seq(Int)
  PROVE  Slice(data \o more, Len(data), Len(more)) = more
<1>1. PICK whole \in Seq(Int) : whole = data \o more
  <2>1. data \o more \in Seq(Int)
    OBVIOUS
  <2>2. QED
    BY <2>1
<1>2. PICK n \in Nat, l \in Nat : n = Len(data) /\ l = Len(more)
  OBVIOUS
<1>3. Len(whole) = n + l /\ \A k \in 1 .. l : whole[n + k] = more[k]
  BY <1>1, <1>2
<1>4. Slice(whole, n, l) = SubSeq(whole, n + 1, n + l) /\ Len(Slice(whole, n, l)) = l
  <2>1. n + l <= Len(whole)
    BY <1>3
  <2>2. QED
    BY <2>1, SliceFits
<1>5. PICK w : w = Slice(whole, n, l)
  OBVIOUS
<1>6. w \in Seq(Int) /\ Len(w) = l
  <2>1. w \in Seq(Int)
    BY <1>5, SliceIs
  <2>2. QED
    BY <1>4, <1>5, <2>1
<1>7. \A k \in 1 .. l : w[k] = more[k]
  <2>1. w = SubSeq(whole, n + 1, n + l)
    BY <1>4, <1>5
  <2>2. \A k \in n + 1 .. n + l : whole[k] \in Int
    BY <1>3
  <2>3. \A k \in 1 .. n + l - (n + 1) + 1 : SubSeq(whole, n + 1, n + l)[k] = whole[n + 1 + k - 1]
    BY <2>2, SubSeqProperties
  <2>4. ASSUME NEW k \in 1 .. l PROVE w[k] = more[k]
    <3>1. k \in 1 .. n + l - (n + 1) + 1 /\ n + 1 + k - 1 = n + k
      OBVIOUS
    <3>2. w[k] = whole[n + k]
      BY <2>1, <2>3, <3>1
    <3>3. QED
      BY <1>3, <3>2
  <2>5. QED
    BY <2>4
<1>8. w = more
  BY <1>2, <1>6, <1>7, SeqEqual
<1>9. QED
  BY <1>1, <1>2, <1>5, <1>8

LEMMA WholeEntryIs ==
  ASSUME NEW h, content[h] \in Seq(Int)
  PROVE  WholeEntry(h) \in Seq(Int) /\ WholeEntry(h)[1] = MarkF /\ Tail(WholeEntry(h)) = content[h]
<1>1. PICK data \in Seq(Int) : data = content[h]
  OBVIOUS
<1>2. PICK mark \in Int : mark = MarkF
  BY DEF MarkF
<1>3. PICK e : e = <<mark>> \o data
  OBVIOUS
<1>4. /\ e \in Seq(Int) /\ Len(e) = 1 + Len(data) /\ e[1] = mark
      /\ \A k \in 1 .. Len(data) : e[1 + k] = data[k]
  BY <1>3
<1>5. PICK t \in Seq(Int) : t = Tail(e) /\ Len(t) = Len(data) /\ \A k \in 1 .. Len(data) : t[k] = e[1 + k]
  <2>1. e # <<>>
    BY <1>4
  <2>2. Tail(e) \in Seq(Int)
    BY <1>4, <2>1, HeadTailProperties
  <2>3. Len(Tail(e)) = Len(e) - 1
    BY <1>4, <2>1, HeadTailProperties
  <2>4. \A k \in 1 .. Len(Tail(e)) : Tail(e)[k] = e[k + 1]
    BY <1>4, <2>1, HeadTailProperties
  <2>5. Len(Tail(e)) = Len(data)
    BY <1>4, <2>3
  <2>6. \A k \in 1 .. Len(data) : k + 1 = 1 + k /\ Tail(e)[k] = e[k + 1]
    BY <2>4, <2>5
  <2>7. QED
    BY <2>2, <2>5, <2>6
<1>6. t = data
  BY <1>4, <1>5, SeqEqual
<1>7. QED
  BY <1>1, <1>2, <1>3, <1>4, <1>5, <1>6 DEF WholeEntry

LEMMA DeltaEntryIs ==
  ASSUME NEW base \in Nat, NEW ops \in Seq(Op)
  PROVE  /\ DeltaEntry(base, ops) \in Seq(Int)
         /\ DeltaEntry(base, ops)[1] # MarkF
         /\ DeltaEntry(base, ops)[2] = base
         /\ SubSeq(DeltaEntry(base, ops), 4, 3 + DeltaEntry(base, ops)[3]) = SerializeOps(ops)
<1>1. PICK stream \in Seq(Int) : stream = SerializeOps(ops)
  BY SerializedType
<1>2. PICK n \in Nat : n = Len(stream)
  OBVIOUS
<1>3. PICK head \in Seq(Int) : head = <<MarkD, base, n>> /\ Len(head) = 3 /\ head[1] = MarkD /\ head[2] = base /\ head[3] = n
  <2>1. <<MarkD, base, n>> \in Seq(Int) /\ Len(<<MarkD, base, n>>) = 3
    BY DEF MarkD
  <2>2. QED
    BY <2>1
<1>4. PICK e \in Seq(Int) : e = head \o stream
  <2>1. head \o stream \in Seq(Int)
    OBVIOUS
  <2>2. QED
    BY <2>1
<1>5. e = DeltaEntry(base, ops)
  BY <1>1, <1>2, <1>3, <1>4 DEF DeltaEntry
<1>6. /\ Len(e) = 3 + n /\ e[1] = MarkD /\ e[2] = base /\ e[3] = n
      /\ \A k \in 1 .. n : e[3 + k] = stream[k]
  BY <1>2, <1>3, <1>4
<1>7. SubSeq(e, 4, 3 + n) = stream
  <2>1. \A k \in 4 .. 3 + n : e[k] \in Int
    BY <1>6
  <2>2. PICK w \in Seq(Int) : w = SubSeq(e, 4, 3 + n)
    <3>1. SubSeq(e, 4, 3 + n) \in Seq(Int)
      BY <2>1, SubSeqProperties
    <3>2. QED
      BY <3>1
  <2>3. Len(w) = n
    <3>1. Len(w) = IF 4 <= 3 + n THEN 3 + n - 4 + 1 ELSE 0
      BY <2>1, <2>2, SubSeqProperties
    <3>2. QED
      BY <3>1
  <2>4. \A k \in 1 .. 3 + n - 4 + 1 : w[k] = e[4 + k - 1]
    BY <2>1, <2>2, SubSeqProperties
  <2>5. ASSUME NEW k \in 1 .. n PROVE w[k] = stream[k]
    <3>1. k \in 1 .. 3 + n - 4 + 1 /\ 4 + k - 1 = 3 + k
      OBVIOUS
    <3>2. QED
      BY <1>6, <2>4, <3>1
  <2>6. w = stream
    BY <1>2, <2>3, <2>5, SeqEqual
  <2>7. QED
    BY <2>2, <2>6
<1>8. MarkD # MarkF
  BY DEF MarkD, MarkF
<1>9. QED
  BY <1>1, <1>5, <1>6, <1>7, <1>8

\* The bytes of an entry are the object, whole or as a delta that gives it.
WrittenIs(raw, h) ==
  \/ raw = WholeEntry(h)
  \/ /\ candidates[h] \in DOMAIN content
     /\ \E ops \in Seq(Op) :
          /\ raw = DeltaEntry(candidates[h], ops)
          /\ ApplyDelta(content[candidates[h]], ops) = content[h]

\* The entries so far: in order, of the objects that are no longer to do, and
\* each where the index-to-be says.
EntriesInOrder ==
  /\ file \in Seq(Int)
  /\ entries \in Seq(IndexEntry)
  /\ InOrder(entries)
  /\ \A i \in 1 .. Len(entries) : \A h \in todo : entries[i].hash < h

EntriesWritten ==
  \A i \in 1 .. Len(entries) :
    /\ entries[i].hash \in DOMAIN content
    /\ entries[i].offset + entries[i].length <= Len(file)
    /\ WrittenIs(Slice(file, entries[i].offset, entries[i].length), entries[i].hash)

AllWritten ==
  \A h \in DOMAIN content : h \in todo \/ \E i \in 1 .. Len(entries) : entries[i].hash = h

\* A scan is of the next object and its base.
ScansNext ==
  pc = "scan" =>
    /\ todo # {}
    /\ candidates[NextHash] \in DOMAIN content
    /\ scan.base = content[candidates[NextHash]]
    /\ scan.target = content[NextHash]

PackWritten ==
  /\ EntriesInOrder
  /\ EntriesWritten
  /\ AllWritten
  /\ ScansNext
  /\ pc = "find" => entries = <<>>
  /\ pc = "done" => todo = {} /\ index = IndexBytes

LEMMA InitWritten == Init => PackWritten
<1> SUFFICES ASSUME Init PROVE PackWritten
  OBVIOUS
<1>1. /\ pc = "find" /\ todo = DOMAIN content /\ entries = <<>>
      /\ file = <<Magic, Cardinality(DOMAIN content)>>
  BY DEF Init
<1>2. Cardinality(DOMAIN content) \in Int
  <2>1. DOMAIN content \subseteq Hash
    BY InitScans DEF PackScans
  <2>2. IsFiniteSet(Hash)
    <3>1. PICK n \in Int : n = FirstSize * Firsts - 1
      BY FormatAssumption
    <3>2. IsFiniteSet(0 .. n) /\ Hash \subseteq 0 .. n
      BY <3>1, FS_Interval, FormatAssumption
    <3>3. QED
      BY <3>2, FS_Subset
  <2>3. IsFiniteSet(DOMAIN content)
    BY <2>1, <2>2, FS_Subset
  <2>4. QED
    BY <2>3, FS_CardinalityType
<1>3. file \in Seq(Int)
  <2>1. PICK c \in Int, m \in Int : c = Cardinality(DOMAIN content) /\ m = Magic
    BY <1>2 DEF Magic
  <2>2. <<m, c>> \in Seq(Int)
    OBVIOUS
  <2>3. QED
    BY <1>1, <2>1, <2>2
<1>4. <<>> \in Seq(IndexEntry) /\ Len(<<>>) = 0 /\ 1 .. 0 = {}
  OBVIOUS
<1>5. EntriesInOrder /\ EntriesWritten
  BY <1>1, <1>3, <1>4 DEF EntriesInOrder, EntriesWritten, InOrder
<1>6. QED
  BY <1>1, <1>5 DEF PackWritten, AllWritten, ScansNext

\* An entry written at the end leaves the others where they are.
LEMMA EmitWrites ==
  ASSUME PackScans, PackWritten, todo # {}, NEW entry \in Seq(Int), Emit(entry), WrittenIs(entry, NextHash)
  PROVE  PackWritten'
<1>1. PICK es \in Seq(IndexEntry), data \in Seq(Int) : es = entries /\ data = file
  BY DEF PackWritten, EntriesInOrder
<1>2. PICK n \in Nat, l \in Nat, m \in Nat : n = Len(es) /\ l = Len(data) /\ m = Len(entry)
  OBVIOUS
<1>3. PICK h : h = NextHash
  OBVIOUS
<1>4. h \in todo /\ \A k \in todo : h <= k
  BY <1>3, NextHashIsDue
<1>5. h \in DOMAIN content /\ h \in Hash /\ todo \subseteq Hash
  BY <1>4 DEF PackScans
<1>6. PICK e \in IndexEntry : e = Entry(h, l, m) /\ e.hash = h /\ e.offset = l /\ e.length = m
  <2>1. [hash |-> h, offset |-> l, length |-> m] \in [hash : Hash, offset : Nat, length : Nat]
    BY <1>5
  <2>2. PICK e : e = [hash |-> h, offset |-> l, length |-> m]
    OBVIOUS
  <2>3. e.hash = h /\ e.offset = l /\ e.length = m /\ e \in IndexEntry /\ e = Entry(h, l, m)
    BY <2>1, <2>2 DEF Entry, IndexEntry
  <2>4. QED
    BY <2>3
<1>7. PICK new \in Seq(IndexEntry) : new = Append(es, e)
  BY AppendProperties
<1>8. Len(new) = n + 1 /\ new[n + 1] = e /\ \A i \in 1 .. n : new[i] = es[i]
  BY <1>2, <1>7
<1>9. PICK longer \in Seq(Int) : longer = data \o entry
  <2>1. data \o entry \in Seq(Int)
    OBVIOUS
  <2>2. QED
    BY <2>1
<1>10. Len(longer) = l + m
  BY <1>2, <1>9
<1>11. /\ file' = longer /\ entries' = new /\ todo' = todo \ {h} /\ pc' = "next"
       /\ content' = content /\ candidates' = candidates
  BY <1>1, <1>2, <1>3, <1>6, <1>7, <1>9 DEF Emit, candVars
<1>12. \A i \in 1 .. n : es[i] \in IndexEntry /\ es[i].hash \in Hash /\ es[i].offset \in Nat /\ es[i].length \in Nat
  <2>1. \A i \in 1 .. n : es[i] \in IndexEntry
    BY <1>2
  <2>2. QED
    BY <2>1, FieldsAre
<1>13. \A k \in Hash : k \in Int
  BY HashesAre
<1>14. /\ \A i \in 1 .. n : \A k \in todo : es[i].hash < k
       /\ \A i, j \in 1 .. n : i < j => es[i].hash < es[j].hash
  BY <1>1, <1>2 DEF PackWritten, EntriesInOrder, InOrder
<1>15. EntriesInOrder'
  <2>1. ASSUME NEW i \in 1 .. n + 1, NEW k \in todo \ {h} PROVE new[i].hash < k
    <3>1. CASE i = n + 1
      <4>1. h <= k /\ h # k /\ h \in Int /\ k \in Int
        BY <1>4, <1>5, <1>13
      <4>2. QED
        BY <3>1, <4>1, <1>6, <1>8
    <3>2. CASE i # n + 1
      <4>1. i \in 1 .. n
        BY <3>2
      <4>2. QED
        BY <4>1, <1>8, <1>14
    <3>3. QED
      BY <3>1, <3>2
  <2>2. ASSUME NEW i \in 1 .. n + 1, NEW j \in 1 .. n + 1, i < j PROVE new[i].hash < new[j].hash
    <3>1. i \in 1 .. n
      BY <2>2
    <3>2. CASE j = n + 1
      BY <3>1, <3>2, <1>4, <1>6, <1>8, <1>14
    <3>3. CASE j # n + 1
      <4>1. j \in 1 .. n
        BY <3>3
      <4>2. QED
        BY <2>2, <3>1, <4>1, <1>8, <1>14
    <3>4. QED
      BY <3>2, <3>3
  <2>3. InOrder(new)
    BY <2>2, <1>8 DEF InOrder
  <2>4. QED
    BY <2>1, <2>3, <1>8, <1>11 DEF EntriesInOrder
<1>16. \A raw, k : WrittenIs(raw, k)' <=> WrittenIs(raw, k)
  BY <1>11 DEF WrittenIs, WholeEntry
<1>17. EntriesWritten'
  <2>1. ASSUME NEW i \in 1 .. n + 1
        PROVE  /\ new[i].hash \in DOMAIN content
               /\ new[i].offset + new[i].length <= Len(longer)
               /\ WrittenIs(Slice(longer, new[i].offset, new[i].length), new[i].hash)
    <3>1. CASE i = n + 1
      <4>1. new[i].hash = h /\ new[i].offset = l /\ new[i].length = m
        BY <3>1, <1>6, <1>8
      <4>2. Slice(longer, l, m) = entry
        BY <1>2, <1>9, SliceOfEnd
      <4>3. QED
        BY <4>1, <4>2, <1>3, <1>5, <1>10
    <3>2. CASE i # n + 1
      <4>1. i \in 1 .. n /\ new[i] = es[i]
        <5>1. i \in 1 .. n
          BY <3>2
        <5>2. QED
          BY <5>1, <1>8
      <4>2. PICK o \in Nat, s \in Nat : o = es[i].offset /\ s = es[i].length
        BY <4>1, <1>12
      <4>3. es[i].hash \in DOMAIN content /\ o + s <= l /\ WrittenIs(Slice(data, o, s), es[i].hash)
        BY <4>1, <4>2, <1>1, <1>2 DEF PackWritten, EntriesWritten
      <4>4. Slice(longer, o, s) = Slice(data, o, s)
        <5>1. o + s <= Len(data)
          BY <4>3, <1>2
        <5>2. Slice(data \o entry, o, s) = Slice(data, o, s)
          BY <5>1, SliceOfLonger
        <5>3. QED
          BY <5>2, <1>9
      <4>5. o + s <= Len(longer)
        BY <4>3, <1>10
      <4>6. QED
        BY <4>1, <4>2, <4>3, <4>4, <4>5
    <3>3. QED
      BY <3>1, <3>2
  <2>2. \A i \in 1 .. n + 1 : WrittenIs(Slice(longer, new[i].offset, new[i].length), new[i].hash)'
    BY <2>1, <1>16, <1>11
  <2>3. QED
    BY <2>1, <2>2, <1>8, <1>11 DEF EntriesWritten
<1>18. AllWritten'
  <2>1. ASSUME NEW k \in DOMAIN content, k \notin todo \ {h} PROVE \E i \in 1 .. n + 1 : new[i].hash = k
    <3>1. CASE k = h
      <4>1. n + 1 \in 1 .. n + 1
        OBVIOUS
      <4>2. QED
        BY <3>1, <4>1, <1>6, <1>8
    <3>2. CASE k # h
      <4>1. PICK i \in 1 .. n : es[i].hash = k
        BY <2>1, <3>2, <1>1, <1>2 DEF PackWritten, AllWritten
      <4>2. i \in 1 .. n + 1 /\ new[i] = es[i]
        BY <1>8
      <4>3. QED
        BY <4>1, <4>2
    <3>3. QED
      BY <3>1, <3>2
  <2>2. QED
    BY <2>1, <1>8, <1>11 DEF AllWritten
<1>19. QED
  BY <1>11, <1>15, <1>17, <1>18 DEF PackWritten, ScansNext

LEMMA ScanKeeps ==
  ASSUME ScanTypeOK, Scan
  PROVE  scan'.base = scan.base /\ scan'.target = scan.target
<1>1. PICK s \in ScanRecord : s = scan
  BY DEF ScanTypeOK
<1>2. CASE Fresh
  BY <1>1, <1>2 DEF Fresh, ScanRecord
<1>3. CASE Copy
  BY <1>1, <1>3 DEF Copy, ScanRecord
<1>4. CASE Slide
  BY <1>1, <1>4 DEF Slide, ScanRecord
<1>5. CASE Flush
  BY <1>1, <1>5 DEF Flush, ScanRecord
<1>6. QED
  BY <1>2, <1>3, <1>4, <1>5 DEF Scan

LEMMA NextWritten ==
  PackScans /\ ScanInv /\ PackWritten /\ [Next]_vars => PackWritten'
<1> SUFFICES ASSUME PackScans, ScanInv, PackWritten, [Next]_vars PROVE PackWritten'
  OBVIOUS
<1>1. CASE FindCandidates
  <2>1. pc = "find" /\ UNCHANGED <<scan, packVars>> /\ entries = <<>>
    BY <1>1 DEF FindCandidates, PackWritten
  <2>2. /\ pc' = pc /\ entries' = entries /\ file' = file /\ todo' = todo /\ content' = content
        /\ index' = index /\ scan' = scan
    BY <2>1 DEF packVars
  <2>3. Len(entries) = 0 /\ 1 .. 0 = {}
    BY <2>1
  <2>4. EntriesWritten'
    BY <2>2, <2>3 DEF EntriesWritten
  <2>5. QED
    BY <2>1, <2>2, <2>4 DEF PackWritten, EntriesInOrder, InOrder, AllWritten, ScansNext
<1>2. CASE StartPack
  <2>1. /\ pc' = "next" /\ entries' = entries /\ file' = file /\ todo' = todo /\ content' = content
        /\ index' = index /\ candidates' = candidates
    BY <1>2 DEF StartPack, candVars
  <2>2. EntriesWritten'
    BY <2>1 DEF PackWritten, EntriesWritten, WrittenIs, WholeEntry
  <2>3. QED
    BY <2>1, <2>2 DEF PackWritten, EntriesInOrder, InOrder, AllWritten, ScansNext
<1>3. CASE StoreWhole
  <2>1. todo # {} /\ Emit(WholeEntry(NextHash))
    BY <1>3 DEF StoreWhole
  <2>2. NextHash \in DOMAIN content
    BY <2>1, NextHashIsDue DEF PackScans
  <2>3. WholeEntry(NextHash) \in Seq(Int)
    BY <2>2, WholeEntryIs DEF PackScans
  <2>4. WrittenIs(WholeEntry(NextHash), NextHash)
    BY DEF WrittenIs
  <2>5. QED
    BY <2>1, <2>3, <2>4, EmitWrites
<1>4. CASE TryDelta
  <2>1. /\ pc = "next" /\ pc' = "scan" /\ entries' = entries /\ file' = file /\ todo' = todo
        /\ content' = content /\ index' = index /\ candidates' = candidates
        /\ todo # {} /\ candidates[NextHash] \in DOMAIN content
        /\ StartScan(content[candidates[NextHash]], content[NextHash])
    BY <1>4 DEF TryDelta, candVars
  <2>2. PICK base, target : base = content[candidates[NextHash]] /\ target = content[NextHash]
    OBVIOUS
  <2>3. scan'.base = base /\ scan'.target = target
    <3>1. StartScan(base, target)
      BY <2>1, <2>2
    <3>2. QED
      BY <3>1 DEF StartScan, NoScan
  <2>4. NextHash' = NextHash
    BY <2>1 DEF NextHash
  <2>5. ScansNext'
    BY <2>1, <2>2, <2>3, <2>4 DEF ScansNext
  <2>6. EntriesWritten'
    BY <2>1 DEF PackWritten, EntriesWritten, WrittenIs, WholeEntry
  <2>7. QED
    BY <2>1, <2>5, <2>6 DEF PackWritten, EntriesInOrder, InOrder, AllWritten
<1>5. CASE ScanStep
  <2>1. /\ pc = "scan" /\ Scan /\ pc' = pc /\ entries' = entries /\ file' = file /\ todo' = todo
        /\ content' = content /\ index' = index /\ candidates' = candidates
    BY <1>5 DEF ScanStep, candVars, packVars
  <2>2. scan'.base = scan.base /\ scan'.target = scan.target
    BY <2>1, ScanKeeps DEF ScanInv
  <2>3. NextHash' = NextHash
    BY <2>1 DEF NextHash
  <2>4. ScansNext'
    BY <2>1, <2>2, <2>3 DEF PackWritten, ScansNext
  <2>5. EntriesWritten'
    BY <2>1 DEF PackWritten, EntriesWritten, WrittenIs, WholeEntry
  <2>6. QED
    BY <2>1, <2>4, <2>5 DEF PackWritten, EntriesInOrder, InOrder, AllWritten
<1>6. CASE Choose
  <2>1. pc = "scan" /\ scan.at = "done"
    BY <1>6 DEF Choose
  <2>2. /\ todo # {} /\ candidates[NextHash] \in DOMAIN content
        /\ scan.base = content[candidates[NextHash]] /\ scan.target = content[NextHash]
    BY <2>1 DEF PackWritten, ScansNext
  <2>3. NextHash \in DOMAIN content
    BY <2>2, NextHashIsDue DEF PackScans
  <2>4. CASE Emit(WholeEntry(NextHash))
    <3>1. WholeEntry(NextHash) \in Seq(Int)
      BY <2>3, WholeEntryIs DEF PackScans
    <3>2. WrittenIs(WholeEntry(NextHash), NextHash)
      BY DEF WrittenIs
    <3>3. QED
      BY <2>2, <2>4, <3>1, <3>2, EmitWrites
  <2>5. CASE Emit(DeltaEntry(candidates[NextHash], scan.ops))
    <3>1. PICK ops \in Seq(Op) : ops = scan.ops
      BY DEF ScanInv, ScanTypeOK, ScanRecord
    <3>2. PICK base \in Nat : base = candidates[NextHash]
      BY <2>2, HashesAre DEF PackScans
    <3>3. DeltaEntry(base, ops) \in Seq(Int)
      BY DeltaEntryIs
    <3>4. ApplyDelta(scan.base, scan.ops) = scan.target
      <4>1. /\ scan.target \in Seq(Int) /\ scan.base \in Seq(Int) /\ scan.lit = <<>>
            /\ scan.pos = Len(scan.target)
        BY <2>1 DEF ScanInv, ScanTypeOK, ScanRecord
      <4>2. PICK target \in Seq(Int), from \in Seq(Int) : target = scan.target /\ from = scan.base
        BY <4>1
      <4>3. PICK made \in Seq(Int) : made = ApplyDelta(from, ops)
        BY ApplyType
      <4>4. made \o <<>> = SubSeq(target, 1, Len(target))
        BY <3>1, <4>1, <4>2, <4>3 DEF ScanInv, ScanExact
      <4>5. made \o <<>> = made
        OBVIOUS
      <4>6. SubSeq(target, 1, Len(target)) = target
        BY SubSeqFull
      <4>7. QED
        BY <3>1, <4>2, <4>3, <4>4, <4>5, <4>6
    <3>5. WrittenIs(DeltaEntry(base, ops), NextHash)
      BY <2>2, <3>1, <3>2, <3>4 DEF WrittenIs
    <3>6. Emit(DeltaEntry(base, ops))
      BY <2>5, <3>1, <3>2
    <3>7. QED
      BY <2>2, <3>3, <3>5, <3>6, EmitWrites
  <2>6. QED
    BY <1>6, <2>4, <2>5 DEF Choose
<1>7. CASE WriteIndex
  <2>1. /\ pc' = "done" /\ entries' = entries /\ file' = file /\ todo' = todo /\ todo = {}
        /\ content' = content /\ index' = IndexBytes /\ candidates' = candidates
    BY <1>7 DEF WriteIndex, candVars
  <2>2. EntriesWritten'
    BY <2>1 DEF PackWritten, EntriesWritten, WrittenIs, WholeEntry
  <2>3. IndexBytes' = IndexBytes
    BY <2>1 DEF IndexBytes
  <2>4. QED
    BY <2>1, <2>2, <2>3 DEF PackWritten, EntriesInOrder, InOrder, AllWritten, ScansNext
<1>8. CASE UNCHANGED vars
  <2>1. /\ pc' = pc /\ entries' = entries /\ file' = file /\ todo' = todo /\ scan' = scan
        /\ content' = content /\ index' = index /\ candidates' = candidates
    BY <1>8 DEF vars, candVars, packVars
  <2>2. EntriesWritten'
    BY <2>1 DEF PackWritten, EntriesWritten, WrittenIs, WholeEntry
  <2>3. NextHash' = NextHash /\ IndexBytes' = IndexBytes
    BY <2>1 DEF NextHash, IndexBytes
  <2>4. QED
    BY <2>1, <2>2, <2>3 DEF PackWritten, EntriesInOrder, InOrder, AllWritten, ScansNext
<1>9. QED
  BY <1>1, <1>2, <1>3, <1>4, <1>5, <1>6, <1>7, <1>8 DEF Next

LEMMA PackIsWritten == Spec => [](PackScans /\ PackWritten)
<1>1. Init => ScanInv /\ PackScans /\ PackWritten
  BY InitScans, InitScan, InitWritten
<1>2. ScanInv /\ PackScans /\ PackWritten /\ [Next]_vars => (ScanInv /\ PackScans /\ PackWritten)'
  BY NextScans, NextScan, NextWritten
<1>3. QED
  BY <1>1, <1>2, PTL DEF Spec

-----------------------------------------------------------------------------
(***************************************************************************)
(* What is read back                                                       *)
(***************************************************************************)
Whole(h) == \A bases : GetGiven(bases)[h] = {content[h]}

Delta(h) ==
  /\ candidates[h] \in DOMAIN content
  /\ \E ops \in Seq(Op) :
       /\ ApplyDelta(content[candidates[h]], ops) = content[h]
       /\ \A bases : GetGiven(bases)[h] = {ApplyDelta(base, ops) : base \in bases[candidates[h]]}

LEMMA NotPacked ==
  ASSUME PackScans, PackWritten, pc = "done", NEW h \in Hash, h \notin DOMAIN content
  PROVE  \A bases : GetGiven(bases)[h] = {}
<1>1. Indexed
  BY DEF PackWritten, EntriesInOrder, Indexed
<1>2. \A j \in 1 .. Len(entries) : entries[j].hash # h
  BY DEF PackWritten, EntriesWritten
<1>3. Find(h) = {}
  BY <1>1, <1>2, FindNothing
<1>4. QED
  BY <1>3 DEF GetGiven

LEMMA Packed ==
  ASSUME PackScans, PackWritten, pc = "done", NEW h \in DOMAIN content
  PROVE  Whole(h) \/ Delta(h)
<1>1. Indexed
  BY DEF PackWritten, EntriesInOrder, Indexed
<1>2. h \in Hash /\ content[h] \in Seq(Int)
  BY DEF PackScans
<1>3. PICK j \in 1 .. Len(entries) : entries[j].hash = h
  BY DEF PackWritten, AllWritten
<1>4. Find(h) = {entries[j]}
  BY <1>1, <1>3, FindPacked
<1>5. PICK raw : raw = Slice(file, entries[j].offset, entries[j].length)
  OBVIOUS
<1>6. WrittenIs(raw, h)
  BY <1>3, <1>5 DEF PackWritten, EntriesWritten
<1>7. \A bases : GetGiven(bases)[h] = Resolve(raw, bases)
  <2> TAKE bases
  <2>1. GetGiven(bases)[h] = UNION {Resolve(Slice(file, e.offset, e.length), bases) : e \in Find(h)}
    BY <1>2 DEF GetGiven
  <2>2. {Resolve(Slice(file, e.offset, e.length), bases) : e \in Find(h)} = {Resolve(raw, bases)}
    BY <1>4, <1>5
  <2>3. UNION {Resolve(raw, bases)} = Resolve(raw, bases)
    OBVIOUS
  <2>4. QED
    BY <2>1, <2>2, <2>3
<1>8. CASE raw = WholeEntry(h)
  <2>1. raw[1] = MarkF /\ Tail(raw) = content[h]
    BY <1>2, <1>8, WholeEntryIs
  <2>2. \A bases : Resolve(raw, bases) = {content[h]}
    BY <2>1 DEF Resolve
  <2>3. QED
    BY <1>7, <2>2 DEF Whole
<1>9. CASE raw # WholeEntry(h)
  <2>1. PICK ops \in Seq(Op) :
          raw = DeltaEntry(candidates[h], ops) /\ ApplyDelta(content[candidates[h]], ops) = content[h]
    BY <1>6, <1>9 DEF WrittenIs
  <2>2. candidates[h] \in DOMAIN content
    BY <1>6, <1>9 DEF WrittenIs
  <2>3. PICK base \in Nat : base = candidates[h]
    BY <2>2, HashesAre DEF PackScans
  <2>4. PICK e : e = DeltaEntry(base, ops)
    OBVIOUS
  <2>5. e[1] # MarkF /\ e[2] = base /\ SubSeq(e, 4, 3 + e[3]) = SerializeOps(ops)
    BY <2>4, DeltaEntryIs
  <2>6. DeserializeOps(SerializeOps(ops)) = ops
    BY Deserializes
  <2>7. raw = e
    BY <2>1, <2>3, <2>4
  <2>8. \A bases : Resolve(raw, bases) = {ApplyDelta(b, ops) : b \in bases[base]}
    BY <2>5, <2>6, <2>7 DEF Resolve
  <2>9. QED
    BY <1>7, <2>1, <2>2, <2>3, <2>8 DEF Delta
<1>10. QED
  BY <1>8, <1>9

-----------------------------------------------------------------------------
Nothing == [b \in Hash |-> {}]

\* f holds what is returned after each number of bases, up to last.
IsGet(f, last) == f = [n \in 0 .. last |-> GetGiven(IF n = 0 THEN Nothing ELSE f[n - 1])]

LEMMA GetExists == \A last \in Nat : \E f : IsGet(f, last)
<1> DEFINE Bad == {n \in Nat : ~ \E f : IsGet(f, n)}
<1> SUFFICES ASSUME Bad # {} PROVE FALSE
  OBVIOUS
<1>1. PICK n \in Bad : \A m \in Bad : n <= m
  <2>1. Bad \in SUBSET Nat
    OBVIOUS
  <2> HIDE DEF Bad
  <2>2. QED
    BY <2>1, HasLeast
<1>2. n \in Nat /\ ~ \E f : IsGet(f, n)
  BY <1>1
<1>3. CASE n = 0
  <2> DEFINE f == [m \in 0 .. 0 |-> GetGiven(Nothing)]
  <2>1. \A m \in 0 .. 0 : m = 0
    OBVIOUS
  <2>2. f = [m \in 0 .. 0 |-> GetGiven(IF m = 0 THEN Nothing ELSE f[m - 1])]
    BY <2>1
  <2>3. IsGet(f, 0)
    <3> HIDE DEF f
    <3>1. QED
      BY <2>2 DEF IsGet
  <2>4. QED
    BY <1>2, <1>3, <2>3
<1>4. CASE n # 0
  <2>1. n - 1 \in Nat /\ n - 1 \notin Bad
    <3>1. n - 1 \in Nat /\ ~ (n <= n - 1)
      BY <1>2, <1>4
    <3> HIDE DEF Bad
    <3>2. QED
      BY <1>1, <3>1
  <2>2. PICK f : IsGet(f, n - 1)
    BY <2>1
  <2> DEFINE g == [m \in 0 .. n |-> GetGiven(IF m = 0 THEN Nothing ELSE f[m - 1])]
  <2>3. ASSUME NEW m \in 0 .. n, m # 0 PROVE g[m - 1] = f[m - 1]
    <3>1. m - 1 \in 0 .. n - 1 /\ m - 1 \in 0 .. n
      BY <1>2, <2>3
    <3>2. f[m - 1] = GetGiven(IF m - 1 = 0 THEN Nothing ELSE f[m - 1 - 1])
      BY <2>2, <3>1 DEF IsGet
    <3>3. QED
      BY <3>1, <3>2
  <2>4. g = [m \in 0 .. n |-> GetGiven(IF m = 0 THEN Nothing ELSE g[m - 1])]
    BY <2>3
  <2>5. IsGet(g, n)
    <3> HIDE DEF g
    <3>1. QED
      BY <2>4 DEF IsGet
  <2>6. QED
    BY <1>2, <2>5
<1>5. QED
  BY <1>3, <1>4

LEMMA GetIs ==
  ASSUME NEW last \in Nat, last = Cardinality(DOMAIN content)
  PROVE  \E f : IsGet(f, last) /\ \A h : Get(h) = f[last][h]
<1> DEFINE f == CHOOSE f : f = [n \in 0 .. Cardinality(DOMAIN content) |->
                                  GetGiven(IF n = 0 THEN [b \in Hash |-> {}] ELSE f[n - 1])]
<1>1. \E g : IsGet(g, last)
  BY GetExists
<1>2. IsGet(f, last)
  BY <1>1 DEF IsGet, Nothing
<1>3. \A h : Get(h) = f[last][h]
  BY DEF Get
<1>4. QED
  BY <1>2, <1>3

LEMMA DeltaNeeds ==
  ASSUME NEW h, Delta(h), NEW bases, bases[candidates[h]] = {}
  PROVE  GetGiven(bases)[h] = {}
BY DEF Delta

LEMMA DeltaGives ==
  ASSUME NEW h, Delta(h), NEW bases, bases[candidates[h]] = {content[candidates[h]]}
  PROVE  GetGiven(bases)[h] = {content[h]}
<1>1. PICK ops \in Seq(Op) :
        /\ ApplyDelta(content[candidates[h]], ops) = content[h]
        /\ \A b : GetGiven(b)[h] = {ApplyDelta(base, ops) : base \in b[candidates[h]]}
  BY DEF Delta
<1>2. GetGiven(bases)[h] = {ApplyDelta(base, ops) : base \in {content[candidates[h]]}}
  BY <1>1
<1>3. {ApplyDelta(base, ops) : base \in {content[candidates[h]]}} = {ApplyDelta(content[candidates[h]], ops)}
  OBVIOUS
<1>4. QED
  BY <1>1, <1>2, <1>3

\* Each number of bases resolves one more object, until none is left: the
\* objects that are left are deltas, and one of them has a base that is not.
LEMMA WrittenReadsBack ==
  PackScans /\ PackWritten /\ Acyclic => ReadsBack
<1> SUFFICES ASSUME PackScans, PackWritten, Acyclic, pc = "done"
             PROVE  \A h \in Hash : Get(h) = IF h \in DOMAIN content THEN {content[h]} ELSE {}
  BY DEF ReadsBack
<1>1. PICK D : D = DOMAIN content
  OBVIOUS
<1>2. D \subseteq Hash
  BY <1>1 DEF PackScans
<1>3. IsFiniteSet(D)
  <2>1. PICK n \in Int : n = FirstSize * Firsts - 1
    BY FormatAssumption
  <2>2. IsFiniteSet(0 .. n) /\ Hash \subseteq 0 .. n
    BY <2>1, FS_Interval, FormatAssumption
  <2>3. D \in SUBSET (0 .. n)
    BY <1>2, <2>2
  <2>4. QED
    BY <2>2, <2>3, FS_Subset
<1>4. PICK last \in Nat : last = Cardinality(D)
  BY <1>3, FS_CardinalityType
<1>5. PICK f : IsGet(f, last) /\ \A h : Get(h) = f[last][h]
  BY <1>1, <1>4, GetIs
<1>6. \A n \in 0 .. last : f[n] = GetGiven(IF n = 0 THEN Nothing ELSE f[n - 1])
  BY <1>5 DEF IsGet
<1>7. \A h \in D : (Whole(h) \/ Delta(h)) /\ content[h] \in Seq(Int)
  BY <1>1, Packed DEF PackScans
<1>8. \A n \in 0 .. last : \A h \in D : Whole(h) => f[n][h] = {content[h]}
  BY <1>6 DEF Whole
<1>9. \A h \in D : Delta(h) => candidates[h] \in D
  BY <1>1 DEF Delta
<1>10. \A n \in 0 .. last : n # 0 => n - 1 \in 0 .. last
  OBVIOUS
\* An object is not returned or returned as it was.
<1>11. \A n \in 0 .. last : \A h \in D : f[n][h] = {} \/ f[n][h] = {content[h]}
  <2> DEFINE Bad == {n \in 0 .. last : ~ \A h \in D : f[n][h] = {} \/ f[n][h] = {content[h]}}
  <2> SUFFICES ASSUME Bad # {} PROVE FALSE
    OBVIOUS
  <2>1. PICK n \in Bad : \A m \in Bad : n <= m
    <3>1. Bad \in SUBSET Nat
      OBVIOUS
    <3> HIDE DEF Bad
    <3>2. QED
      BY <3>1, HasLeast
  <2>2. PICK h \in D : n \in 0 .. last /\ ~ (f[n][h] = {} \/ f[n][h] = {content[h]})
    BY <2>1
  <2>3. Delta(h)
    BY <1>7, <1>8, <2>2
  <2>4. PICK c \in D : c = candidates[h]
    BY <1>9, <2>3
  <2>5. PICK bases : bases = IF n = 0 THEN Nothing ELSE f[n - 1]
    OBVIOUS
  <2>6. bases[c] = {} \/ bases[c] = {content[c]}
    <3>1. CASE n = 0
      BY <3>1, <1>2, <2>5 DEF Nothing
    <3>2. CASE n # 0
      <4>1. n - 1 \in 0 .. last /\ ~ (n <= n - 1)
        BY <3>2, <2>2, <1>10
      <4>2. n - 1 \notin Bad
        <5> HIDE DEF Bad
        <5>1. QED
          BY <4>1, <2>1
      <4>3. QED
        BY <3>2, <4>1, <4>2, <2>5
    <3>3. QED
      BY <3>1, <3>2
  <2>7. GetGiven(bases)[h] = {} \/ GetGiven(bases)[h] = {content[h]}
    BY <2>3, <2>4, <2>6, DeltaNeeds, DeltaGives
  <2>8. f[n] = GetGiven(bases)
    BY <1>6, <2>2, <2>5
  <2>9. QED
    BY <2>2, <2>7, <2>8
\* With its base it is returned, and not without.
<1>12. \A n \in 0 .. last : \A h \in D :
         Delta(h) /\ n # 0 /\ f[n - 1][candidates[h]] = {content[candidates[h]]} => f[n][h] = {content[h]}
  BY <1>6, DeltaGives
<1>13. \A n \in 0 .. last : \A h \in D :
         Delta(h) /\ f[n][h] = {content[h]} => n # 0 /\ f[n - 1][candidates[h]] = {content[candidates[h]]}
  <2> SUFFICES ASSUME NEW n \in 0 .. last, NEW h \in D, Delta(h), f[n][h] = {content[h]}
               PROVE  n # 0 /\ f[n - 1][candidates[h]] = {content[candidates[h]]}
    OBVIOUS
  <2>1. PICK bases : bases = IF n = 0 THEN Nothing ELSE f[n - 1]
    OBVIOUS
  <2>2. f[n] = GetGiven(bases)
    BY <1>6, <2>1
  <2>3. bases[candidates[h]] # {}
    BY <2>2, DeltaNeeds
  <2>4. candidates[h] \in D /\ candidates[h] \in Hash
    BY <1>2, <1>9
  <2>5. n # 0
    BY <2>1, <2>3, <2>4 DEF Nothing
  <2>6. QED
    BY <1>10, <1>11, <2>1, <2>3, <2>4, <2>5
<1> DEFINE Left(n) == {h \in D : f[n][h] # {content[h]}}
\* What was returned stays returned,
<1>14. \A n \in 0 .. last : n # 0 => Left(n) \subseteq Left(n - 1)
  <2> DEFINE Bad == {n \in 0 .. last : n # 0 /\ ~ (Left(n) \subseteq Left(n - 1))}
  <2> SUFFICES ASSUME Bad # {} PROVE FALSE
    OBVIOUS
  <2>1. PICK n \in Bad : \A m \in Bad : n <= m
    <3>1. Bad \in SUBSET Nat
      OBVIOUS
    <3> HIDE DEF Bad
    <3>2. QED
      BY <3>1, HasLeast
  <2>2. n \in 0 .. last /\ n # 0
    BY <2>1
  <2>3. PICK h \in D : f[n][h] # {content[h]} /\ f[n - 1][h] = {content[h]}
    BY <2>1
  <2>4. Delta(h)
    BY <1>7, <1>8, <2>2, <2>3
  <2>5. PICK m \in 0 .. last : m = n - 1
    BY <1>10, <2>2
  <2>6. m # 0 /\ f[m - 1][candidates[h]] = {content[candidates[h]]}
    BY <1>13, <2>3, <2>4, <2>5
  <2>7. m \notin Bad
    <3>1. ~ (n <= m)
      BY <2>2, <2>5
    <3> HIDE DEF Bad
    <3>2. QED
      BY <3>1, <2>1
  <2>8. Left(m) \subseteq Left(m - 1)
    BY <2>6, <2>7
  <2>9. candidates[h] \in D
    BY <1>9, <2>4
  <2>10. f[m][candidates[h]] = {content[candidates[h]]}
    BY <2>6, <2>8, <2>9
  <2>11. f[n][h] = {content[h]}
    BY <1>12, <2>2, <2>4, <2>5, <2>10
  <2>12. QED
    BY <2>3, <2>11
\* and something more is returned, as long as something is left.
<1>15. \A n \in 0 .. last : n # 0 /\ Left(n - 1) # {} => \E h \in Left(n - 1) : h \notin Left(n)
  <2> SUFFICES ASSUME NEW n \in 0 .. last, n # 0, Left(n - 1) # {}
               PROVE  \E h \in Left(n - 1) : h \notin Left(n)
    OBVIOUS
  <2>1. PICK m \in 0 .. last : m = n - 1
    BY <1>10
  <2>2. ASSUME NEW h \in Left(m) PROVE Delta(h) /\ h \in Targets
    <3>1. h \in D /\ Delta(h)
      BY <1>7, <1>8
    <3>2. candidates[h] \in Blob /\ h \in Blob
      BY <1>2, <1>9, <3>1, FormatAssumption
    <3>3. QED
      BY <3>1, <3>2, CandidatesAssumption DEF Targets
  <2>3. Left(m) \in SUBSET Targets /\ Left(m) # {}
    BY <2>1, <2>2
  <2>4. PICK h \in Left(m) : candidates[h] \notin Left(m)
    <3> HIDE DEF Left
    <3>1. QED
      BY <2>3 DEF Acyclic
  <2>5. h \in D /\ Delta(h) /\ candidates[h] \in D
    BY <1>9, <2>2
  <2>6. f[m][candidates[h]] = {content[candidates[h]]}
    BY <2>4, <2>5
  <2>7. f[n][h] = {content[h]}
    BY <1>12, <2>1, <2>5, <2>6
  <2>8. QED
    BY <2>1, <2>4, <2>7
<1>16. \A n \in 0 .. last : IsFiniteSet(Left(n)) /\ Cardinality(Left(n)) \in Nat
  <2>1. \A n \in 0 .. last : Left(n) \in SUBSET D
    OBVIOUS
  <2> HIDE DEF Left
  <2>2. \A n \in 0 .. last : IsFiniteSet(Left(n))
    BY <1>3, <2>1, FS_Subset
  <2>3. QED
    BY <2>2, FS_CardinalityType
<1>17. \A n \in 0 .. last : Cardinality(Left(n)) <= last - n
  <2> DEFINE Bad == {n \in 0 .. last : ~ (Cardinality(Left(n)) <= last - n)}
  <2> SUFFICES ASSUME Bad # {} PROVE FALSE
    OBVIOUS
  <2>1. PICK n \in Bad : \A m \in Bad : n <= m
    <3>1. Bad \in SUBSET Nat
      OBVIOUS
    <3> HIDE DEF Bad
    <3>2. QED
      BY <3>1, HasLeast
  <2>2. n \in 0 .. last /\ ~ (Cardinality(Left(n)) <= last - n)
    BY <2>1
  <2>3. CASE n = 0
    <3>1. Left(0) \in SUBSET D
      OBVIOUS
    <3> HIDE DEF Left
    <3>2. Cardinality(Left(0)) <= last
      BY <1>3, <1>4, <3>1, FS_Subset
    <3>3. QED
      BY <2>2, <2>3, <3>2
  <2>4. CASE n # 0
    <3>1. PICK m \in 0 .. last : m = n - 1 /\ ~ (n <= m)
      BY <1>10, <2>2, <2>4
    <3>2. m \notin Bad
      <4> HIDE DEF Bad
      <4>1. QED
        BY <3>1, <2>1
    <3>3. Cardinality(Left(m)) <= last - m
      BY <3>2
    <3> HIDE DEF Left, Bad
    <3>4. PICK S, T : S = Left(m) /\ T = Left(n)
      OBVIOUS
    <3>5. /\ IsFiniteSet(S) /\ IsFiniteSet(T) /\ T \in SUBSET S
          /\ Cardinality(S) \in Nat /\ Cardinality(T) \in Nat
      BY <1>14, <1>16, <2>2, <2>4, <3>1, <3>4
    <3>6. CASE S = {}
      <4>1. Cardinality(T) = 0
        BY <3>5, <3>6, FS_EmptySet
      <4>2. QED
        BY <2>2, <3>4, <4>1
    <3>7. CASE S # {}
      <4>1. \E h \in S : h \notin T
        BY <1>15, <2>2, <2>4, <3>1, <3>4, <3>7
      <4>2. S # T
        BY <4>1
      <4>3. Cardinality(T) <= Cardinality(S)
        BY <3>5, FS_Subset
      <4>4. Cardinality(T) # Cardinality(S)
        BY <3>5, <4>2, FS_Subset
      <4>5. QED
        BY <2>2, <3>1, <3>3, <3>4, <3>5, <4>3, <4>4
    <3>8. QED
      BY <3>6, <3>7
  <2>5. QED
    BY <2>3, <2>4
<1>18. Left(last) = {}
  <2>1. last \in 0 .. last /\ last - last = 0
    OBVIOUS
  <2> HIDE DEF Left
  <2>2. Cardinality(Left(last)) <= 0 /\ IsFiniteSet(Left(last)) /\ Cardinality(Left(last)) \in Nat
    BY <1>16, <1>17, <2>1
  <2>3. Cardinality(Left(last)) = 0
    BY <2>2
  <2>4. QED
    BY <2>2, <2>3, FS_EmptySet
<1>19. ASSUME NEW h \in Hash PROVE Get(h) = IF h \in DOMAIN content THEN {content[h]} ELSE {}
  <2>1. CASE h \in D
    BY <1>1, <1>5, <1>18, <2>1
  <2>2. CASE h \notin D
    <3>1. \A bases : GetGiven(bases)[h] = {}
      BY <1>1, <2>2, NotPacked
    <3>2. last \in 0 .. last
      OBVIOUS
    <3>3. f[last][h] = {}
      BY <1>6, <3>1, <3>2
    <3>4. QED
      BY <1>1, <1>5, <2>2, <3>3
  <2>3. QED
    BY <2>1, <2>2
<1>20. QED
  BY <1>19

\* Every object that is packed is read back byte for byte, through however many
\* bases, from what the pack and its index hold, and no other hash is found:
\* for every history, any contents, any block size and word size of the
\* checksum, any number of first bytes, and whichever of the delta and the
\* whole each entry holds.
THEOREM PacksReadBack == Spec => []ReadsBack
<1>1. Spec => []Acyclic
  BY PackRunsBoth, NoCircles, PTL
<1>2. QED
  BY <1>1, PackIsWritten, WrittenReadsBack, PTL

-----------------------------------------------------------------------------
(***************************************************************************)
(* Directories, packed and read back                                       *)
(***************************************************************************)
\* Directories stay what they were listed as.
TreesStored ==
  \A h \in DOMAIN listing :
    Listed(listing[h]) /\ h \in DOMAIN content /\ content[h] = SerializeTree(listing[h])

LEMMA TreesAreStored == Spec => []TreesStored
<1>1. Init => TreesStored
  <2> SUFFICES ASSUME Init PROVE TreesStored
    OBVIOUS
  <2>1. PICK input \in Input :
          /\ listing = input.listing
          /\ content = [h \in DOMAIN input.content \cup DOMAIN listing |->
                          IF h \in DOMAIN listing THEN SerializeTree(listing[h]) ELSE input.content[h]]
    BY DEF Init
  <2>2. \A h \in DOMAIN input.listing : Listed(input.listing[h])
    BY InputAssumption
  <2>3. QED
    BY <2>1, <2>2 DEF TreesStored
<1>2. TreesStored /\ [Next]_vars => TreesStored'
  <2>1. [Next]_vars => content' = content /\ listing' = listing
    BY DEF Next, FindCandidates, StartPack, StoreWhole, TryDelta, ScanStep, Choose, WriteIndex,
           Emit, vars, packVars
  <2>2. QED
    BY <2>1 DEF TreesStored
<1>3. QED
  BY <1>1, <1>2, PTL DEF Spec

\* A directory that is packed and read back has the entries it was listed
\* with, each once and in the order of their names, and whatever is read as a
\* directory is made of every byte that is there: for every listing, names and
\* contents of any length.
THEOREM TreesAreReadBack == Spec => []TreesReadBack
<1>1. PackScans /\ ReadsBack /\ TreesStored => TreesReadBack
  <2> SUFFICES ASSUME PackScans, ReadsBack, TreesStored, pc = "done",
                      NEW h \in DOMAIN content, NEW data \in Get(h)
               PROVE  /\ h \in DOMAIN listing =>
                           \E es \in DeserializeTree(data) :
                             /\ DeserializeTree(data) = {es}
                             /\ Len(es) = Len(listing[h]) /\ Range(es) = Range(listing[h])
                             /\ \A i, j \in DOMAIN es : i < j => Less(es[i].name, es[j].name)
                      /\ \A es \in DeserializeTree(data) :
                           /\ \A i \in DOMAIN es : ValidName(es[i].name)
                           /\ FlattenSeq([i \in DOMAIN es |-> EntryBytes(es[i])]) = data
    BY DEF TreesReadBack
  <2>1. data = content[h] /\ data \in Seq(Int)
    BY DEF ReadsBack, PackScans
  <2>2. ASSUME h \in DOMAIN listing
        PROVE  \E es \in DeserializeTree(data) :
                 /\ DeserializeTree(data) = {es}
                 /\ Len(es) = Len(listing[h]) /\ Range(es) = Range(listing[h])
                 /\ \A i, j \in DOMAIN es : i < j => Less(es[i].name, es[j].name)
    <3>1. PICK all : all = listing[h] /\ Listed(all) /\ data = SerializeTree(all)
      BY <2>1, <2>2 DEF TreesStored
    <3>2. DeserializeTree(data) = {Sorted(all)}
      BY <3>1, ReadsTheListing
    <3>3. PICK es : es = Sorted(all)
      OBVIOUS
    <3>4. /\ Len(es) = Len(all) /\ Range(es) = Range(all)
          /\ \A i, j \in DOMAIN es : i < j => Less(es[i].name, es[j].name)
      BY <3>1, <3>3, SortedIs
    <3>5. es \in DeserializeTree(data) /\ DeserializeTree(data) = {es}
      BY <3>2, <3>3
    <3>6. QED
      BY <3>1, <3>4, <3>5
  <2>3. QED
    BY <2>1, <2>2, ReadsTheBytes
<1>2. QED
  BY <1>1, PackIsWritten, PacksReadBack, TreesAreStored, PTL

=============================================================================
