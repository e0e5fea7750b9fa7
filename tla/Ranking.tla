------------------------------- MODULE Ranking -------------------------------
(***************************************************************************)
(* Lemmas about the position of an element in a finite set that is totally *)
(* ordered.  Coordinator cuts off the parents of a milestone by it, and    *)
(* Broadcast removes transactions from the mempool by it.  The order is a  *)
(* set of pairs, << x, y >> if x comes before y.                           *)
(***************************************************************************)
EXTENDS Integers, FiniteSets, FiniteSetTheorems, TLAPS

TotalOrderOn(R, S) ==
    /\ \A x \in S : << x, x >> \notin R
    /\ \A x, y, z \in S : << x, y >> \in R /\ << y, z >> \in R => << x, z >> \in R
    /\ \A x, y \in S : x = y \/ << x, y >> \in R \/ << y, x >> \in R

(* The elements before x.                                                  *)
Predecessors(R, S, x) == { y \in S : << y, x >> \in R }

Rank(R, S) == [x \in S |-> Cardinality(Predecessors(R, S, x))]

LEMMA RankType ==
  ASSUME NEW S, IsFiniteSet(S), NEW R, TotalOrderOn(R, S)
  PROVE  Rank(R, S) \in [S -> 0 .. Cardinality(S) - 1]
<1>1. ASSUME NEW x \in S
      PROVE  Cardinality(Predecessors(R, S, x)) \in 0 .. Cardinality(S) - 1
  <2>1. Predecessors(R, S, x) \subseteq S \ {x}
    BY DEF Predecessors, TotalOrderOn
  <2>2. IsFiniteSet(S \ {x}) /\ Cardinality(S \ {x}) = Cardinality(S) - 1
    BY FS_RemoveElement
  <2>3. /\ IsFiniteSet(Predecessors(R, S, x))
        /\ Cardinality(Predecessors(R, S, x)) <= Cardinality(S \ {x})
    BY <2>1, <2>2, FS_Subset
  <2> QED
    BY <2>2, <2>3, FS_CardinalityType
<1> QED
  BY <1>1 DEF Rank

(* Who comes later has a larger rank.                                      *)
LEMMA RankGrows ==
  ASSUME NEW S, IsFiniteSet(S), NEW R, TotalOrderOn(R, S),
         NEW x \in S, NEW y \in S, << x, y >> \in R
  PROVE  Rank(R, S)[x] < Rank(R, S)[y]
<1>1. Predecessors(R, S, x) \subseteq Predecessors(R, S, y) /\ x \in Predecessors(R, S, y)
  BY DEF Predecessors, TotalOrderOn
<1>2. x \notin Predecessors(R, S, x)
  BY DEF Predecessors, TotalOrderOn
<1>3. IsFiniteSet(Predecessors(R, S, x)) /\ IsFiniteSet(Predecessors(R, S, y))
  BY FS_Subset DEF Predecessors
<1>4. Cardinality(Predecessors(R, S, x)) <= Cardinality(Predecessors(R, S, y))
  BY <1>1, <1>3, FS_Subset
<1>5. Cardinality(Predecessors(R, S, x)) # Cardinality(Predecessors(R, S, y))
  BY <1>1, <1>2, <1>3, FS_Subset
<1>6. Cardinality(Predecessors(R, S, x)) \in Nat /\ Cardinality(Predecessors(R, S, y)) \in Nat
  BY <1>3, FS_CardinalityType
<1> QED
  BY <1>4, <1>5, <1>6 DEF Rank

(* Ranks are different, and each number below the cardinality is one.      *)
LEMMA RankBijective ==
  ASSUME NEW S, IsFiniteSet(S), NEW R, TotalOrderOn(R, S)
  PROVE  /\ \A x, y \in S : Rank(R, S)[x] = Rank(R, S)[y] => x = y
         /\ \A n \in 0 .. Cardinality(S) - 1 : \E x \in S : Rank(R, S)[x] = n
<1> DEFINE rank == Rank(R, S)
           T == 0 .. Cardinality(S) - 1
<1>1. rank \in [S -> T]
  BY RankType
<1>2. ASSUME NEW x \in S, NEW y \in S, rank[x] = rank[y]
      PROVE  x = y
  <2>1. rank[x] \in T /\ rank[y] \in T
    BY <1>1
  <2>2. ~ (rank[x] < rank[y]) /\ ~ (rank[y] < rank[x])
    BY <1>2, <2>1
  <2> QED
    BY <2>2, RankGrows DEF TotalOrderOn
<1>3. Cardinality(S) \in Nat
  BY FS_CardinalityType
<1>4. IsFiniteSet(T) /\ Cardinality(T) = Cardinality(S)
  BY <1>3, FS_Interval
<1>5. rank \in Injection(S, T)
  BY <1>1, <1>2 DEF Injection, IsInjective
<1>6. rank \in Surjection(S, T)
  BY <1>4, <1>5, FS_Injection
<1> QED
  BY <1>2, <1>6 DEF Surjection

(* The elements can be listed in their order, each at its rank, and a      *)
(* prefix of the list holds those of small rank.                           *)
LEMMA Listing ==
  ASSUME NEW S, IsFiniteSet(S), NEW R, TotalOrderOn(R, S)
  PROVE  \E s \in [1 .. Cardinality(S) -> S] :
            /\ \A i, j \in 1 .. Cardinality(S) : i < j => << s[i], s[j] >> \in R
            /\ \A k \in 0 .. Cardinality(S) :
                  { s[i] : i \in 1 .. k } = { x \in S : Rank(R, S)[x] < k }
<1> DEFINE rank == Rank(R, S)
           n == Cardinality(S)
           s == [i \in 1 .. n |-> CHOOSE x \in S : rank[x] = i - 1]
<1>1. rank \in [S -> 0 .. n - 1] /\ n \in Nat
  BY RankType, FS_CardinalityType
<1>2. ASSUME NEW i \in 1 .. n
      PROVE  s[i] \in S /\ rank[s[i]] = i - 1
  <2>1. i - 1 \in 0 .. n - 1
    BY <1>1
  <2>2. \E x \in S : rank[x] = i - 1
    BY <2>1, RankBijective
  <2> QED
    BY <2>2
<1>3. s \in [1 .. n -> S]
  BY <1>2
<1> HIDE DEF s
<1>4. ASSUME NEW i \in 1 .. n, NEW j \in 1 .. n, i < j
      PROVE  << s[i], s[j] >> \in R
  <2>1. rank[s[i]] < rank[s[j]]
    BY <1>1, <1>2, <1>4
  <2>2. ~ (rank[s[j]] < rank[s[i]]) /\ s[i] # s[j]
    BY <1>1, <1>2, <2>1
  <2> QED
    BY <1>2, <2>2, RankGrows DEF TotalOrderOn
<1>5. ASSUME NEW k \in 0 .. n
      PROVE  { s[i] : i \in 1 .. k } = { x \in S : rank[x] < k }
  <2>1. ASSUME NEW i \in 1 .. k
        PROVE  s[i] \in S /\ rank[s[i]] < k
    BY <1>1, <1>2
  <2>2. ASSUME NEW x \in S, rank[x] < k
        PROVE  \E i \in 1 .. k : x = s[i]
    <3>1. rank[x] + 1 \in 1 .. k /\ rank[x] + 1 \in 1 .. n
      BY <1>1, <2>2
    <3>2. rank[s[rank[x] + 1]] = rank[x]
      BY <1>1, <1>2, <3>1
    <3>3. s[rank[x] + 1] = x
      BY <1>2, <3>1, <3>2, RankBijective
    <3> QED
      BY <3>1, <3>3
  <2> QED
    BY <2>1, <2>2
<1> QED
  BY <1>3, <1>4, <1>5
=============================================================================
