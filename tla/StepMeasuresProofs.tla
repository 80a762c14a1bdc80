------------------------- MODULE StepMeasuresProofs -------------------------
(***************************************************************************)
(* Proofs about what is measured of a step, for any number of callers and  *)
(* calls and any turns.                                                    *)
(***************************************************************************)
EXTENDS StepMeasures, FiniteSetTheorems, WellFoundedInduction, SequenceTheorems, TLAPS

-----------------------------------------------------------------------------
(* Finite sets of numbers.                                                 *)

(* A nonempty set of natural numbers has a least element. *)
LEMMA LeastNat ==
    ASSUME NEW T \in SUBSET Nat, T # {}
    PROVE  \E m \in T : \A n \in T : m <= n
<1> DEFINE Before == OpToRel(<, Nat)
<1>1. IsWellFoundedOn(Before, Nat)
  BY NatLessThanWellFounded
<1>2. PICK m \in T : \A n \in T : <<n, m>> \notin Before
  <2> HIDE DEF Before
  <2>1. QED
    BY <1>1, WFMin
<1>3. \A n \in T : ~(n < m)
  BY <1>2 DEF OpToRel
<1>4. QED
  BY <1>3

(* A finite set of numbers has a least one: the one that the fewest of     *)
(* them do not exceed.                                                     *)
LEMMA LeastOfFinite ==
    ASSUME NEW S \in SUBSET Int, IsFiniteSet(S), S # {}
    PROVE  Min(S) \in S /\ \A y \in S : Min(S) <= y
<1> DEFINE Below(x) == {y \in S : y <= x}
           Counts == {Cardinality(Below(x)) : x \in S}
<1>1. \A x \in S : IsFiniteSet(Below(x)) /\ Cardinality(Below(x)) \in Nat
  BY FS_Subset, FS_CardinalityType
<1>2. PICK x \in S : \A z \in S : Cardinality(Below(x)) <= Cardinality(Below(z))
  <2>1. Counts \in SUBSET Nat /\ Counts # {}
    BY <1>1
  <2>2. PICK m \in Counts : \A n \in Counts : m <= n
    <3> HIDE DEF Counts
    <3>1. QED
      BY <2>1, LeastNat
  <2> HIDE DEF Below
  <2>3. PICK x \in S : m = Cardinality(Below(x))
    BY <2>2
  <2>4. \A z \in S : Cardinality(Below(z)) \in Counts
    OBVIOUS
  <2> HIDE DEF Counts
  <2>5. QED
    BY <2>2, <2>3, <2>4
<1>3. ASSUME NEW z \in S, ~(x <= z)
      PROVE  FALSE
  <2>0. \A y \in S : (y <= z => y <= x) /\ x <= x
    BY <1>3
  <2>1. Below(z) \in SUBSET Below(x) /\ x \in Below(x) /\ x \notin Below(z)
    BY <1>3, <2>0
  <2>2. Cardinality(Below(z)) <= Cardinality(Below(x)) /\ Cardinality(Below(z)) # Cardinality(Below(x))
    <3> HIDE DEF Below
    <3>1. QED
      BY <1>1, <2>1, FS_Subset
  <2>3. Cardinality(Below(z)) \in Nat /\ Cardinality(Below(x)) \in Nat
        /\ Cardinality(Below(x)) <= Cardinality(Below(z))
    BY <1>1, <1>2, <1>3
  <2> HIDE DEF Below
  <2>4. QED
    BY <2>2, <2>3
<1> HIDE DEF Below, Counts
<1>4. \A z \in S : x <= z
  BY <1>3
<1>5. QED
  BY <1>4 DEF Min

(* And a greatest one. *)
LEMMA GreatestOfFinite ==
    ASSUME NEW S \in SUBSET Int, IsFiniteSet(S), S # {}
    PROVE  \E m \in S : \A y \in S : y <= m
<1> DEFINE neg == [x \in S |-> 0 - x]
           N == {0 - x : x \in S}
<1>1. N \in SUBSET Int /\ N # {}
  <2>1. \A x \in S : 0 - x \in Int
    OBVIOUS
  <2>2. PICK x \in S : TRUE
    OBVIOUS
  <2>3. 0 - x \in N
    OBVIOUS
  <2>4. QED
    BY <2>1, <2>3
<1>2. IsFiniteSet(N)
  <2>1. neg \in Surjection(S, N)
    BY DEF Surjection
  <2>2. QED
    BY <2>1, FS_Surjection
<1>3. PICK n \in N : \A z \in N : n <= z
  <2> HIDE DEF N
  <2>1. QED
    BY <1>1, <1>2, LeastOfFinite
<1>4. PICK m \in S : n = 0 - m
  BY <1>3
<1>5. QED
  BY <1>3, <1>4

(* Two sets that one counts the other have the same size. *)
LEMMA SameSize ==
    ASSUME NEW S, NEW T, IsFiniteSet(S), NEW f \in [S -> T],
           \A x, y \in S : f[x] = f[y] => x = y,
           \A z \in T : \E x \in S : f[x] = z
    PROVE  IsFiniteSet(T) /\ Cardinality(T) = Cardinality(S)
<1>1. f \in Bijection(S, T)
  BY DEF Bijection, Injection, Surjection, IsInjective
<1>2. ExistsBijection(S, T)
  BY <1>1 DEF ExistsBijection
<1>3. QED
  BY <1>2, FS_Bijection

(* A set is the size of its two parts. *)
LEMMA TwoParts ==
    ASSUME NEW S, IsFiniteSet(S), NEW A, NEW B, S = A \cup B, A \cap B = {}
    PROVE  /\ IsFiniteSet(A) /\ IsFiniteSet(B)
           /\ Cardinality(A) \in Nat /\ Cardinality(B) \in Nat
           /\ Cardinality(S) = Cardinality(A) + Cardinality(B)
<1>1. IsFiniteSet(A) /\ IsFiniteSet(B)
  BY FS_Subset
<1>2. Cardinality(A \cup B) = Cardinality(A) + Cardinality(B) - Cardinality(A \cap B)
  BY <1>1, FS_Union
<1>3. Cardinality(A \cap B) = 0
  BY FS_EmptySet
<1>4. Cardinality(A) \in Nat /\ Cardinality(B) \in Nat
  BY <1>1, FS_CardinalityType
<1>5. Cardinality(S) = Cardinality(A) + Cardinality(B)
  BY <1>2, <1>3, <1>4
<1>6. QED
  BY <1>1, <1>4, <1>5

(* A function is its values. *)
LEMMA SameFunction ==
    ASSUME NEW D, NEW R, NEW F \in [D -> R], NEW G \in [D -> R], \A x \in D : F[x] = G[x]
    PROVE  F = G
OBVIOUS

-----------------------------------------------------------------------------
(* Samples and their sorting.                                              *)

IsSample(f) == IsFiniteSet(DOMAIN f) /\ \A x \in DOMAIN f : f[x] \in Int

(* As many values do not exceed v in both. *)
SameSample(f, g) ==
    Size(f) = Size(g) /\ \A v \in Int : AtMost(f, v) = AtMost(g, v)

(* The value at a rank: a number at least as great is one that at least    *)
(* that many values do not exceed.                                         *)
IsAtRank(f, rank, a) ==
    /\ a \in Values(f) /\ a \in Int
    /\ \A v \in Int : AtMost(f, v) >= rank <=> a <= v

(* How many values do not exceed a bound rises with the bound, up to all.  *)
LEMMA SampleCounts ==
    ASSUME NEW f, IsSample(f)
    PROVE  /\ Size(f) \in Nat
           /\ \A v \in Int : AtMost(f, v) \in 0..Size(f)
           /\ \A v, w \in Int : v <= w => AtMost(f, v) <= AtMost(f, w)
<1> DEFINE Upto(v) == {x \in DOMAIN f : f[x] <= v}
<1>1. Size(f) \in Nat
  BY FS_CardinalityType DEF IsSample, Size
<1>2. ASSUME NEW v \in Int
      PROVE  /\ IsFiniteSet(Upto(v)) /\ AtMost(f, v) = Cardinality(Upto(v))
             /\ AtMost(f, v) \in 0..Size(f)
  <2>1. Upto(v) \in SUBSET (DOMAIN f)
    OBVIOUS
  <2>2. AtMost(f, v) = Cardinality(Upto(v))
    BY DEF AtMost
  <2> HIDE DEF Upto
  <2>3. IsFiniteSet(Upto(v)) /\ Cardinality(Upto(v)) <= Size(f) /\ Cardinality(Upto(v)) \in Nat
    BY <2>1, FS_Subset, FS_CardinalityType DEF IsSample, Size
  <2>4. QED
    BY <1>1, <2>2, <2>3
<1>3. ASSUME NEW v \in Int, NEW w \in Int, v <= w
      PROVE  AtMost(f, v) <= AtMost(f, w)
  <2>1. \A x \in DOMAIN f : f[x] <= v => f[x] <= w
    BY <1>3 DEF IsSample
  <2>2. Upto(v) \in SUBSET Upto(w)
    BY <2>1
  <2> HIDE DEF Upto
  <2>3. QED
    BY <1>2, <2>2, FS_Subset
<1>4. QED
  BY <1>1, <1>2, <1>3

(* A sample has a value at every rank. *)
LEMMA ValueAtRank ==
    ASSUME NEW f, IsSample(f), NEW rank \in 1..Size(f)
    PROVE  IsAtRank(f, rank, Min({v \in Values(f) : AtMost(f, v) >= rank}))
<1> DEFINE V == {v \in Values(f) : AtMost(f, v) >= rank}
<1>1. Values(f) \in SUBSET Int /\ IsFiniteSet(Values(f))
  <2>1. [x \in DOMAIN f |-> f[x]] \in Surjection(DOMAIN f, Values(f))
    BY DEF Surjection, Values
  <2>2. IsFiniteSet(Values(f))
    BY <2>1, FS_Surjection DEF IsSample
  <2>3. QED
    BY <2>2 DEF Values, IsSample
<1>2. ASSUME NEW v \in Int, AtMost(f, v) >= rank
      PROVE  \E a \in V : a <= v
  <2> DEFINE Below == {u \in Values(f) : u <= v}
  <2>1. Below # {}
    <3>1. CASE {x \in DOMAIN f : f[x] <= v} = {}
      <4>1. AtMost(f, v) = 0
        BY <3>1, FS_EmptySet DEF AtMost
      <4>2. rank >= 1 /\ rank \in Int
        BY SampleCounts
      <4>3. QED
        BY <1>2, <4>1, <4>2
    <3>2. CASE {x \in DOMAIN f : f[x] <= v} # {}
      BY <3>2 DEF Values
    <3>3. QED
      BY <3>1, <3>2
  <2>2. IsFiniteSet(Below) /\ Below \in SUBSET Int
    <3>1. Below \in SUBSET Values(f)
      OBVIOUS
    <3> HIDE DEF Below
    <3>2. QED
      BY <1>1, <3>1, FS_Subset
  <2>3. PICK a \in Below : \A u \in Below : u <= a
    <3> HIDE DEF Below
    <3>1. QED
      BY <2>1, <2>2, GreatestOfFinite
  <2>4. a \in Values(f) /\ a \in Int /\ a <= v
    BY <1>1, <2>3
  <2>5. \A x \in DOMAIN f : f[x] <= v => f[x] <= a
    BY <2>3 DEF Values
  <2>6. \A x \in DOMAIN f : f[x] <= a => f[x] <= v
    BY <2>4 DEF IsSample
  <2>7. {x \in DOMAIN f : f[x] <= v} = {x \in DOMAIN f : f[x] <= a}
    BY <2>5, <2>6
  <2>8. AtMost(f, a) = AtMost(f, v)
    BY <2>7 DEF AtMost
  <2>9. a \in V
    BY <1>2, <2>4, <2>8
  <2>10. QED
    BY <2>4, <2>9
<1>3. V # {}
  <2>1. DOMAIN f # {}
    BY FS_EmptySet DEF Size
  <2>2. PICK m \in Values(f) : \A y \in Values(f) : y <= m
    BY <1>1, <2>1, GreatestOfFinite DEF Values
  <2>3. {x \in DOMAIN f : f[x] <= m} = DOMAIN f
    BY <2>2 DEF Values
  <2>4. AtMost(f, m) = Size(f)
    BY <2>3 DEF AtMost, Size
  <2>5. Size(f) >= rank
    BY SampleCounts
  <2>6. QED
    BY <2>2, <2>4, <2>5
<1>4. V \in SUBSET Values(f)
  OBVIOUS
<1>5. Min(V) \in V /\ \A y \in V : Min(V) <= y
  <2> HIDE DEF V
  <2>1. V \in SUBSET Int /\ IsFiniteSet(V)
    BY <1>1, <1>4, FS_Subset
  <2>2. QED
    BY <1>3, <2>1, LeastOfFinite
<1>6. Min(V) \in Values(f) /\ Min(V) \in Int /\ AtMost(f, Min(V)) >= rank
  BY <1>1, <1>5
<1>7. ASSUME NEW v \in Int
      PROVE  AtMost(f, v) >= rank <=> Min(V) <= v
  <2>1. ASSUME AtMost(f, v) >= rank
        PROVE  Min(V) <= v
    <3>1. PICK a \in V : a <= v
      BY <1>2, <2>1
    <3>2. Min(V) <= a /\ a \in Int
      BY <1>1, <1>4, <1>5
    <3> HIDE DEF V
    <3>3. QED
      BY <1>6, <3>1, <3>2
  <2> HIDE DEF V
  <2>2. ASSUME Min(V) <= v
        PROVE  AtMost(f, v) >= rank
    <3>1. AtMost(f, Min(V)) <= AtMost(f, v)
      BY <1>6, <2>2, SampleCounts
    <3>2. AtMost(f, Min(V)) \in Int /\ AtMost(f, v) \in Int /\ rank \in Int
      BY <1>6, SampleCounts
    <3>3. QED
      BY <1>6, <3>1, <3>2
  <2>3. QED
    BY <2>1, <2>2
<1>8. QED
  <2> HIDE DEF V
  <2>1. IsAtRank(f, rank, Min(V))
    BY <1>6, <1>7 DEF IsAtRank
  <2>2. QED
    BY <2>1 DEF V

(* What sorting gives: as many values, each at its rank. *)
LEMMA SortedType ==
    ASSUME NEW f, IsSample(f)
    PROVE  /\ SortedDs(f) \in [1..Size(f) -> Int] /\ SortedDs(f) \in Seq(Int)
           /\ Len(SortedDs(f)) = Size(f) /\ Size(SortedDs(f)) = Size(f)
           /\ \A rank \in 1..Size(f) : IsAtRank(f, rank, SortedDs(f)[rank])
           /\ IsSample(SortedDs(f))
<1>1. ASSUME NEW rank \in 1..Size(f)
      PROVE  IsAtRank(f, rank, SortedDs(f)[rank])
  <2>1. SortedDs(f)[rank] = Min({v \in Values(f) : AtMost(f, v) >= rank})
    BY DEF SortedDs
  <2>2. QED
    BY <2>1, ValueAtRank
<1>2. SortedDs(f) \in [1..Size(f) -> Int]
  <2>1. \A rank \in 1..Size(f) : SortedDs(f)[rank] \in Int
    BY <1>1 DEF IsAtRank
  <2>2. SortedDs(f) = [rank \in 1..Size(f) |-> SortedDs(f)[rank]]
    BY DEF SortedDs
  <2>3. QED
    BY <2>1, <2>2, Zenon
<1>3. Size(f) \in Nat
  BY SampleCounts
<1>4. SortedDs(f) \in Seq(Int) /\ Len(SortedDs(f)) = Size(f) /\ DOMAIN SortedDs(f) = 1..Size(f)
  BY <1>2, <1>3, SeqDef, LenProperties
<1>5. IsFiniteSet(1..Size(f)) /\ Cardinality(1..Size(f)) = Size(f)
  BY <1>3, FS_Interval
<1>6. QED
  BY <1>1, <1>2, <1>4, <1>5 DEF IsSample, Size

(* Sorting a sample keeps how many values do not exceed any number. *)
LEMMA SortedCounts ==
    ASSUME NEW f, IsSample(f)
    PROVE  SameSample(SortedDs(f), f)
<1>1. ASSUME NEW v \in Int
      PROVE  AtMost(SortedDs(f), v) = AtMost(f, v)
  <2>1. AtMost(f, v) \in Nat /\ Size(f) \in Nat /\ AtMost(f, v) <= Size(f)
    BY SampleCounts
  <2>2. DOMAIN SortedDs(f) = 1..Size(f)
    BY SortedType
  <2>3. \A rank \in 1..Size(f) : SortedDs(f)[rank] <= v <=> AtMost(f, v) >= rank
    BY SortedType DEF IsAtRank
  <2>4. {rank \in 1..Size(f) : SortedDs(f)[rank] <= v} = 1..AtMost(f, v)
    <3>1. \A rank \in 1..Size(f) : SortedDs(f)[rank] <= v <=> rank \in 1..AtMost(f, v)
      BY <2>1, <2>3
    <3>2. 1..AtMost(f, v) \subseteq 1..Size(f)
      BY <2>1
    <3>3. QED
      BY <3>1, <3>2
  <2>5. Cardinality(1..AtMost(f, v)) = AtMost(f, v)
    BY <2>1, FS_Interval
  <2>6. QED
    BY <2>2, <2>4, <2>5 DEF AtMost
<1>2. QED
  BY <1>1, SortedType DEF SameSample

(* Samples that count the same sort the same. *)
LEMMA SameSorts ==
    ASSUME NEW f, IsSample(f), NEW g, IsSample(g), SameSample(f, g)
    PROVE  SortedDs(f) = SortedDs(g)
<1>1. Size(f) = Size(g)
  BY DEF SameSample
<1>2. ASSUME NEW rank \in 1..Size(f)
      PROVE  SortedDs(f)[rank] = SortedDs(g)[rank]
  <2>1. IsAtRank(f, rank, SortedDs(f)[rank]) /\ IsAtRank(g, rank, SortedDs(g)[rank])
    BY <1>1, SortedType
  <2>2. PICK a \in Int, b \in Int : a = SortedDs(f)[rank] /\ b = SortedDs(g)[rank]
    BY <2>1 DEF IsAtRank
  <2>3. \A v \in Int : a <= v <=> b <= v
    BY <2>1, <2>2 DEF IsAtRank, SameSample
  <2>4. a <= b /\ b <= a
    BY <2>3
  <2>5. a = b
    BY <2>4
  <2>6. QED
    BY <2>2, <2>5
<1>3. /\ SortedDs(f) \in [1..Size(f) -> Int] /\ SortedDs(g) \in [1..Size(f) -> Int]
  BY <1>1, SortedType
<1> DEFINE D == 1..Size(f)
<1>4. /\ SortedDs(f) \in [D -> Int] /\ SortedDs(g) \in [D -> Int]
      /\ \A rank \in D : SortedDs(f)[rank] = SortedDs(g)[rank]
  BY <1>2, <1>3
<1> HIDE DEF D
<1>5. QED
  BY <1>4, SameFunction

(* So they have the same percentiles. *)
LEMMA SameSummaries ==
    ASSUME NEW f, IsSample(f), NEW g, IsSample(g), SameSample(f, g)
    PROVE  Summarize(f) = Summarize(g)
<1>1. SortedDs(f) = SortedDs(g) /\ Size(f) = Size(g)
  BY SameSorts DEF SameSample
<1>2. \A p : Percentile(f, p) = Percentile(g, p)
  BY <1>1 DEF Percentile
<1>3. QED
  BY <1>1, <1>2 DEF Summarize

(* metrics.Percentile reads a sorted copy of what was measured: as long,   *)
(* in ascending order, with every value as often.                          *)
THEOREM SortedIsASort ==
    ASSUME NEW f, IsSample(f)
    PROVE  /\ Len(SortedDs(f)) = Size(f)
           /\ \A i, j \in 1..Size(f) : i <= j => SortedDs(f)[i] <= SortedDs(f)[j]
           /\ \A v \in Int : Cardinality({i \in 1..Size(f) : SortedDs(f)[i] = v})
                             = Cardinality({x \in DOMAIN f : f[x] = v})
<1>1. IsSample(SortedDs(f)) /\ Len(SortedDs(f)) = Size(f) /\ DOMAIN SortedDs(f) = 1..Size(f)
  BY SortedType
<1>2. ASSUME NEW i \in 1..Size(f), NEW j \in 1..Size(f), i <= j
      PROVE  SortedDs(f)[i] <= SortedDs(f)[j]
  <2>1. PICK a \in Int, b \in Int : /\ a = SortedDs(f)[i] /\ b = SortedDs(f)[j]
                                    /\ IsAtRank(f, i, a) /\ IsAtRank(f, j, b)
    BY SortedType DEF IsAtRank
  <2>2. AtMost(f, b) >= j
    BY <2>1 DEF IsAtRank
  <2>3. AtMost(f, b) \in Int /\ i \in Int /\ j \in Int
    BY SampleCounts
  <2>4. AtMost(f, b) >= i
    BY <1>2, <2>2, <2>3
  <2>5. QED
    BY <2>1, <2>4 DEF IsAtRank
<1>3. ASSUME NEW g, IsSample(g), NEW v \in Int
      PROVE  Cardinality({x \in DOMAIN g : g[x] = v}) = AtMost(g, v) - AtMost(g, v - 1)
  <2> DEFINE A == {x \in DOMAIN g : g[x] = v}
             B == {x \in DOMAIN g : g[x] <= v - 1}
             C == {x \in DOMAIN g : g[x] <= v}
  <2>1. \A x \in DOMAIN g : g[x] \in Int
    BY <1>3 DEF IsSample
  <2>9. \A n \in Int : (n <= v <=> n = v \/ n <= v - 1) /\ ~(n = v /\ n <= v - 1)
    OBVIOUS
  <2>2. \A x \in DOMAIN g : (g[x] <= v <=> g[x] = v \/ g[x] <= v - 1) /\ ~(g[x] = v /\ g[x] <= v - 1)
    BY <2>1, <2>9
  <2>3. C = A \cup B /\ A \cap B = {}
    BY <2>2
  <2>4. IsFiniteSet(C)
    <3>1. C \in SUBSET (DOMAIN g)
      OBVIOUS
    <3> HIDE DEF C
    <3>2. QED
      BY <1>3, <3>1, FS_Subset DEF IsSample
  <2>5. AtMost(g, v) = Cardinality(C) /\ AtMost(g, v - 1) = Cardinality(B)
    BY DEF AtMost
  <2> HIDE DEF A, B, C
  <2>6. Cardinality(C) = Cardinality(A) + Cardinality(B) /\ Cardinality(A) \in Nat /\ Cardinality(B) \in Nat
    BY <2>3, <2>4, TwoParts
  <2>7. Cardinality(A) = AtMost(g, v) - AtMost(g, v - 1)
    BY <2>5, <2>6
  <2>8. QED
    BY <2>7 DEF A
<1>4. ASSUME NEW v \in Int
      PROVE  Cardinality({i \in 1..Size(f) : SortedDs(f)[i] = v}) = Cardinality({x \in DOMAIN f : f[x] = v})
  <2>1. v - 1 \in Int
    OBVIOUS
  <2>2. AtMost(SortedDs(f), v) = AtMost(f, v) /\ AtMost(SortedDs(f), v - 1) = AtMost(f, v - 1)
    BY <2>1, SortedCounts DEF SameSample
  <2>3. Cardinality({i \in DOMAIN SortedDs(f) : SortedDs(f)[i] = v}) = AtMost(f, v) - AtMost(f, v - 1)
    BY <1>1, <1>3, <2>2
  <2>4. Cardinality({x \in DOMAIN f : f[x] = v}) = AtMost(f, v) - AtMost(f, v - 1)
    BY <1>3
  <2>5. QED
    BY <1>1, <2>3, <2>4
<1>5. QED
  BY <1>1, <1>2, <1>4

-----------------------------------------------------------------------------
(* Percentiles.                                                            *)

(* The rank of the value that m hundredths of n do not exceed. *)
Rank(m, n) == Min({Max({(m + 99) \div 100, 1}), n})

(* Dividing by 100, rounded up.                                            *)
LEMMA DivideBy100 ==
    ASSUME NEW m \in Nat
    PROVE  /\ (m + 99) \div 100 \in Nat
           /\ 100 * ((m + 99) \div 100) >= m /\ 100 * ((m + 99) \div 100) < m + 100
OBVIOUS

(* The counts whose hundredfold is at least m are those from the rank on.  *)
LEMMA RankEdges ==
    ASSUME NEW n \in Nat \ {0}, NEW m \in Nat, m <= 100 * n
    PROVE  /\ Rank(m, n) \in 1..n
           /\ \A c \in 1..n : 100 * c >= m <=> c >= Rank(m, n)
<1>1. PICK k \in Nat : /\ k = (m + 99) \div 100 /\ 100 * k >= m /\ 100 * k < m + 100
  BY DivideBy100
<1>2. PICK r \in Nat : /\ r = Max({k, 1}) /\ r >= k /\ r >= 1 /\ (r = k \/ r = 1)
  <2>1. Max({k, 1}) \in {k, 1} /\ \A y \in {k, 1} : Max({k, 1}) >= y
    <3>1. \E x \in {k, 1} : \A y \in {k, 1} : x >= y
      OBVIOUS
    <3>2. QED
      BY <3>1 DEF Max
  <2>2. QED
    BY <2>1
<1>3. k <= n
  BY <1>1
<1>4. r <= n
  BY <1>2, <1>3
<1>5. Min({r, n}) = r
  <2>1. \A y \in {r, n} : r <= y
    BY <1>4
  <2>2. Min({r, n}) \in {r, n} /\ \A y \in {r, n} : Min({r, n}) <= y
    BY <2>1 DEF Min
  <2>3. QED
    BY <1>4, <2>2
<1>6. Rank(m, n) = r
  BY <1>1, <1>2, <1>5 DEF Rank
<1>7. ASSUME NEW c \in 1..n
      PROVE  100 * c >= m <=> c >= r
  <2>1. 100 * c >= m <=> c >= k
    BY <1>1
  <2>2. QED
    BY <1>2, <2>1
<1>8. QED
  BY <1>2, <1>4, <1>6, <1>7

(* The rank rises with what it is the rank of. *)
LEMMA RanksRise ==
    ASSUME NEW n \in Nat \ {0}, NEW m \in Nat, NEW l \in Nat, m <= l, l <= 100 * n
    PROVE  Rank(m, n) <= Rank(l, n)
<1>1. m <= 100 * n
  OBVIOUS
<1>2. PICK a \in 1..n, b \in 1..n : a = Rank(m, n) /\ b = Rank(l, n)
  BY <1>1, RankEdges
<1>3. 100 * b >= l
  BY <1>2, RankEdges
<1>4. 100 * b >= m
  BY <1>3
<1>5. b >= a
  BY <1>1, <1>2, <1>4, RankEdges
<1>6. QED
  BY <1>2, <1>5

(* A percentile is the value at its rank, and the least that enough of the *)
(* values do not exceed.                                                   *)
IsNearest(f, p) ==
    /\ Percentile(f, p) = SortedDs(f)[Rank(p * Size(f), Size(f))]
    /\ Percentile(f, p) \in Int
    /\ Percentile(f, p) = Min({v \in Values(f) : 100 * AtMost(f, v) >= p * Size(f)})
Hundredths(f, p) == p \in Int /\ p * Size(f) \in Nat /\ p * Size(f) <= 100 * Size(f)

(* The value at the rank is the least that enough values do not exceed.    *)
LEMMA NearestRank ==
    ASSUME NEW f, IsSample(f), Size(f) # 0, NEW p, Hundredths(f, p)
    PROVE  IsNearest(f, p)
<1>0. p \in Int /\ p * Size(f) \in Nat /\ p * Size(f) <= 100 * Size(f)
  BY DEF Hundredths
<1>1. PICK n \in Nat \ {0} : n = Size(f)
  BY SampleCounts
<1>2. PICK m \in Nat : m = p * Size(f) /\ m <= 100 * n
  BY <1>0, <1>1
<1>3. PICK r \in 1..n : r = Rank(m, n) /\ \A c \in 1..n : 100 * c >= m <=> c >= r
  BY <1>2, RankEdges
<1>4. Percentile(f, p) = SortedDs(f)[r]
  BY <1>1, <1>2, <1>3 DEF Percentile, Rank
<1>5. SortedDs(f)[r] = Min({v \in Values(f) : AtMost(f, v) >= r}) /\ SortedDs(f)[r] \in Int
  <2>1. r \in 1..Size(f)
    BY <1>1
  <2>2. QED
    BY <2>1, SortedType DEF SortedDs
<1>6. ASSUME NEW v \in Values(f)
      PROVE  AtMost(f, v) \in 1..n
  <2>1. PICK x \in DOMAIN f : v = f[x]
    BY DEF Values
  <2>2. v \in Int
    BY <2>1 DEF IsSample
  <2>3. PICK c \in Int : c = AtMost(f, v) /\ c >= 0 /\ c <= n
    BY <1>1, <2>2, SampleCounts
  <2>4. c # 0
    <3>1. x \in {y \in DOMAIN f : f[y] <= v}
      BY <2>1, <2>2
    <3>2. IsFiniteSet({y \in DOMAIN f : f[y] <= v})
      <4>1. {y \in DOMAIN f : f[y] <= v} \in SUBSET (DOMAIN f)
        OBVIOUS
      <4>2. QED
        BY <4>1, FS_Subset DEF IsSample
    <3>3. Cardinality({y \in DOMAIN f : f[y] <= v}) # 0
      BY <3>1, <3>2, FS_EmptySet
    <3>4. QED
      BY <2>3, <3>3 DEF AtMost
  <2>5. c \in 1..n
    BY <2>3, <2>4
  <2>6. QED
    BY <2>3, <2>5
<1>7. \A v \in Values(f) : 100 * AtMost(f, v) >= m <=> AtMost(f, v) >= r
  BY <1>3, <1>6
<1>8. {v \in Values(f) : 100 * AtMost(f, v) >= m} = {v \in Values(f) : AtMost(f, v) >= r}
  BY <1>7
<1>9. QED
  BY <1>1, <1>2, <1>3, <1>4, <1>5, <1>8 DEF IsNearest

(* Percentiles rise. *)
LEMMA PercentilesRise ==
    ASSUME NEW f, IsSample(f), Size(f) # 0, NEW p, Hundredths(f, p), NEW q, Hundredths(f, q),
           p * Size(f) <= q * Size(f)
    PROVE  Percentile(f, p) <= Percentile(f, q)
<1>1. PICK n \in Nat \ {0} : n = Size(f)
  BY SampleCounts
<1>2. PICK m \in Nat, l \in Nat : /\ m = p * Size(f) /\ l = q * Size(f)
                                  /\ m <= l /\ l <= 100 * n /\ m <= 100 * n
  BY <1>1 DEF Hundredths
<1>3. PICK a \in 1..n, b \in 1..n : a = Rank(m, n) /\ b = Rank(l, n) /\ a <= b
  <2>1. Rank(m, n) \in 1..n /\ Rank(l, n) \in 1..n
    BY <1>2, RankEdges
  <2>2. Rank(m, n) <= Rank(l, n)
    BY <1>2, RanksRise
  <2>3. QED
    BY <2>1, <2>2
<1>4. SortedDs(f)[a] <= SortedDs(f)[b]
  <2>1. a \in 1..Size(f) /\ b \in 1..Size(f)
    BY <1>1
  <2>2. QED
    BY <1>3, <2>1, SortedIsASort, Zenon
<1>5. IsNearest(f, p) /\ IsNearest(f, q)
  BY NearestRank
<1>6. Percentile(f, p) = SortedDs(f)[a] /\ Percentile(f, q) = SortedDs(f)[b]
  BY <1>1, <1>2, <1>3, <1>5 DEF IsNearest
<1>7. QED
  BY <1>4, <1>6

-----------------------------------------------------------------------------
(* Rounding.                                                               *)

(* Dividing by 10 and by 100, the half away from zero.                     *)
LEMMA DivideBy10 ==
    ASSUME NEW d \in Nat
    PROVE  \E k \in Nat : k = (d + 5) \div 10 /\ 10 * k >= d - 4 /\ 10 * k <= d + 5
OBVIOUS

(* The same, of hundreds.                                                  *)
LEMMA DivideBy100Half ==
    ASSUME NEW d \in Nat
    PROVE  \E k \in Nat : k = (d + 50) \div 100 /\ 100 * k >= d - 49 /\ 100 * k <= d + 50
OBVIOUS

(* What a rounding to tens and one to hundreds are, sign apart. *)
LEMMA RoundedTens ==
    ASSUME NEW d \in Int
    PROVE  \E k \in Int : /\ RoundTo(10, d) = 10 * k
                          /\ d >= 0 => k >= 0 /\ 10 * k >= d - 4 /\ 10 * k <= d + 5
                          /\ d < 0 => k <= 0 /\ 10 * k <= d + 4 /\ 10 * k >= d - 5
<1>1. 10 \div 2 = 5
  OBVIOUS
<1>2. CASE d >= 0
  <2>1. PICK k \in Nat : k = (d + 5) \div 10 /\ 10 * k >= d - 4 /\ 10 * k <= d + 5
    BY <1>2, DivideBy10
  <2>2. RoundTo(10, d) = k * 10
    BY <1>1, <1>2, <2>1 DEF RoundTo
  <2>3. RoundTo(10, d) = 10 * k /\ k \in Int /\ k >= 0
    BY <2>2
  <2>4. QED
    BY <1>2, <2>1, <2>3
<1>3. CASE d < 0
  <2>1. PICK e \in Nat : e = -d
    BY <1>3
  <2>2. PICK k \in Nat : k = (e + 5) \div 10 /\ 10 * k >= e - 4 /\ 10 * k <= e + 5
    BY DivideBy10
  <2>3. RoundTo(10, d) = -(k * 10)
    BY <1>1, <1>3, <2>1, <2>2 DEF RoundTo
  <2>4. PICK j \in Int : j = -k
    OBVIOUS
  <2>5. RoundTo(10, d) = 10 * j /\ j <= 0 /\ 10 * j <= d + 4 /\ 10 * j >= d - 5
    BY <2>1, <2>2, <2>3, <2>4
  <2>6. QED
    BY <1>3, <2>5
<1>4. QED
  BY <1>2, <1>3

(* The same, of a rounding to hundreds.                                    *)
LEMMA RoundedHundreds ==
    ASSUME NEW d \in Int
    PROVE  \E k \in Int : /\ RoundTo(100, d) = 100 * k
                          /\ d >= 0 => k >= 0 /\ 100 * k >= d - 49 /\ 100 * k <= d + 50
                          /\ d < 0 => k <= 0 /\ 100 * k <= d + 49 /\ 100 * k >= d - 50
<1>1. 100 \div 2 = 50
  OBVIOUS
<1>2. CASE d >= 0
  <2>1. PICK k \in Nat : k = (d + 50) \div 100 /\ 100 * k >= d - 49 /\ 100 * k <= d + 50
    BY <1>2, DivideBy100Half
  <2>2. RoundTo(100, d) = k * 100
    BY <1>1, <1>2, <2>1 DEF RoundTo
  <2>3. RoundTo(100, d) = 100 * k /\ k \in Int /\ k >= 0
    BY <2>2
  <2>4. QED
    BY <1>2, <2>1, <2>3
<1>3. CASE d < 0
  <2>1. PICK e \in Nat : e = -d
    BY <1>3
  <2>2. PICK k \in Nat : k = (e + 50) \div 100 /\ 100 * k >= e - 49 /\ 100 * k <= e + 50
    BY DivideBy100Half
  <2>3. RoundTo(100, d) = -(k * 100)
    BY <1>1, <1>3, <2>1, <2>2 DEF RoundTo
  <2>4. PICK j \in Int : j = -k
    OBVIOUS
  <2>5. RoundTo(100, d) = 100 * j /\ j <= 0 /\ 100 * j <= d + 49 /\ 100 * j >= d - 50
    BY <2>1, <2>2, <2>3, <2>4
  <2>6. QED
    BY <1>3, <2>5
<1>4. QED
  BY <1>2, <1>3

(* A longer time is not written as a shorter one. *)
LEMMA RoundingRises ==
    ASSUME NEW a \in Int, NEW b \in Int, a <= b
    PROVE  RoundTo(100, a) \in Int /\ RoundTo(100, b) \in Int /\ RoundTo(100, a) <= RoundTo(100, b)
<1>1. PICK k \in Int : /\ RoundTo(100, a) = 100 * k
                       /\ a >= 0 => k >= 0 /\ 100 * k >= a - 49 /\ 100 * k <= a + 50
                       /\ a < 0 => k <= 0 /\ 100 * k <= a + 49 /\ 100 * k >= a - 50
  BY RoundedHundreds
<1>2. PICK j \in Int : /\ RoundTo(100, b) = 100 * j
                       /\ b >= 0 => j >= 0 /\ 100 * j >= b - 49 /\ 100 * j <= b + 50
                       /\ b < 0 => j <= 0 /\ 100 * j <= b + 49 /\ 100 * j >= b - 50
  BY RoundedHundreds
<1>3. 100 * k <= 100 * j
  <2>1. CASE a >= 0
    BY <1>1, <1>2, <2>1
  <2>2. CASE a < 0 /\ b >= 0
    BY <1>1, <1>2, <2>2
  <2>3. CASE a < 0 /\ b < 0
    BY <1>1, <1>2, <2>3
  <2>4. QED
    BY <2>1, <2>2, <2>3
<1>4. QED
  BY <1>1, <1>2, <1>3

(* A wait is written as a wait, at most half a hundredth of a millisecond  *)
(* away, and on the same side of a line of whole hundredths or on it.      *)
LEMMA WrittenWaits ==
    ASSUME NEW d \in Int
    PROVE  /\ RoundTo(10, d) \in Int
           /\ RoundTo(10, d) > 0 => d > 0
           /\ \A line \in Nat : d <= 10 * line => RoundTo(10, d) <= 10 * line
           /\ d > 0 => RoundTo(10, d) >= 0
<1>1. PICK k \in Int : /\ RoundTo(10, d) = 10 * k
                       /\ d >= 0 => k >= 0 /\ 10 * k >= d - 4 /\ 10 * k <= d + 5
                       /\ d < 0 => k <= 0 /\ 10 * k <= d + 4 /\ 10 * k >= d - 5
  BY RoundedTens
<1>2. 10 * k > 0 => d > 0
  BY <1>1
<1>3. ASSUME NEW line \in Nat, d <= 10 * line
      PROVE  10 * k <= 10 * line
  BY <1>1, <1>3
<1>4. QED
  BY <1>1, <1>2, <1>3

(* A sequence of numbers is a sample. *)
LEMMA SequenceSample ==
    ASSUME NEW s \in Seq(Int)
    PROVE  /\ IsSample(s) /\ DOMAIN s = 1..Len(s) /\ Size(s) = Len(s) /\ Len(s) \in Nat
<1>1. PICK n \in Nat : n = Len(s)
  BY LenProperties
<1>2. DOMAIN s = 1..n /\ \A i \in 1..n : s[i] \in Int
  BY <1>1, LenProperties, ElementOfSeq
<1>3. IsFiniteSet(1..n) /\ Cardinality(1..n) = n
  <2>1. 1 \in Int /\ n \in Int
    OBVIOUS
  <2>2. IsFiniteSet(1..n) /\ Cardinality(1..n) = IF 1 > n THEN 0 ELSE n - 1 + 1
    BY <2>1, FS_Interval
  <2>3. QED
    BY <2>2
<1>4. QED
  BY <1>1, <1>2, <1>3 DEF IsSample, Size

(* Of a sequence of numbers the percentiles are nearest ranks and rise. *)
LEMMA NearestRankOfSamples ==
    ASSUME live.samples \in Seq(Int)
    PROVE  PercentileIsNearestRank
<1> DEFINE ds == live.samples
           P == {0, 50, 90, 95, 99, 100}
<1>1. /\ IsSample(ds) /\ DOMAIN ds = 1..Len(ds) /\ Size(ds) = Len(ds) /\ Len(ds) \in Nat
  BY SequenceSample
<1>2. ToSet(ds) = Values(ds)
  BY <1>1 DEF ToSet, Values
<1>3. ds = <<>> => Size(ds) = 0
  BY <1>1
<1>4. Len(ds) = 0 => ds = <<>>
  BY EmptySeq
<1> HIDE DEF ds
<1>5. ASSUME ds # <<>>, NEW p \in P
      PROVE  Percentile(ds, p) = Min({v \in ToSet(ds) :
                100 * Cardinality({i \in DOMAIN ds : ds[i] <= v}) >= p * Len(ds)})
  <2>1. PICK n \in Nat : n = Size(ds) /\ n # 0 /\ n = Len(ds)
    BY <1>1, <1>4, <1>5
  <2>2. p \in Int /\ p * n \in Nat /\ p * n <= 100 * n
    BY <2>1
  <2>3. Size(ds) # 0 /\ Hundredths(ds, p)
    BY <2>1, <2>2 DEF Hundredths
  <2>4. Percentile(ds, p) = Min({v \in Values(ds) : 100 * AtMost(ds, v) >= p * Size(ds)})
    BY <1>1, <2>3, NearestRank DEF IsNearest
  <2>5. QED
    BY <1>2, <2>1, <2>4 DEF AtMost
<1>6. \A p, q \in P : p <= q => RoundTo(100, Percentile(ds, p)) <= RoundTo(100, Percentile(ds, q))
  <2>1. SUFFICES ASSUME NEW p \in P, NEW q \in P, p <= q
                 PROVE  RoundTo(100, Percentile(ds, p)) <= RoundTo(100, Percentile(ds, q))
    OBVIOUS
  <2>2. CASE Size(ds) = 0
    <3>1. Percentile(ds, p) = 0 /\ Percentile(ds, q) = 0
      BY <2>2 DEF Percentile
    <3>2. RoundTo(100, 0) <= RoundTo(100, 0)
      BY RoundingRises
    <3>3. QED
      BY <3>1, <3>2
  <2>3. CASE Size(ds) # 0
    <3>1. PICK n \in Nat : n = Size(ds) /\ n # 0
      BY <1>1, <2>3
    <3>2. /\ p \in Int /\ p * n \in Nat /\ p * n <= 100 * n
          /\ q \in Int /\ q * n \in Nat /\ q * n <= 100 * n /\ p * n <= q * n
      BY <2>1, <3>1
    <3>3. Size(ds) # 0 /\ Hundredths(ds, p) /\ Hundredths(ds, q) /\ p * Size(ds) <= q * Size(ds)
      BY <3>1, <3>2 DEF Hundredths
    <3>4. Percentile(ds, p) \in Int /\ Percentile(ds, q) \in Int
      BY <1>1, <3>3, NearestRank DEF IsNearest
    <3>5. Percentile(ds, p) <= Percentile(ds, q)
      BY <1>1, <3>3, PercentilesRise
    <3>6. QED
      BY <3>4, <3>5, RoundingRises
  <2>4. QED
    BY <2>2, <2>3
<1>7. LET s == Summarize(ds)
      IN  s.p50 <= s.p90 /\ s.p90 <= s.p95 /\ s.p95 <= s.p99 /\ s.p99 <= s.top
  BY <1>6 DEF Summarize
<1>8. QED
  BY <1>5, <1>7 DEF PercentileIsNearestRank, ds

-----------------------------------------------------------------------------
(* Counting turns: those of some calls, or of one, that are in a set G.    *)

(* A turn as it was taken, or as it came over the wire. *)
TurnsRead == TurnKinds \cup {Written(t) : t \in TurnKinds}

IsCalls(calls) ==
    IsFiniteSet(DOMAIN calls) /\ \A i \in DOMAIN calls : calls[i] \in Seq(TurnsRead)
PlacesIn(calls, G) == {x \in AllTurns(calls) : Turn(calls, x) \in G}
CountIn(calls, G) == Cardinality(PlacesIn(calls, G))
Those(s, G) == {k \in DOMAIN s : s[k] \in G}
One(s, G) == Cardinality(Those(s, G))
Without(calls, c) == [i \in DOMAIN calls \ {c} |-> calls[i]]

(* A turn's place is its call and its number in the call.                  *)
LEMMA Places ==
    ASSUME NEW calls
    PROVE  /\ \A x \in AllTurns(calls) : /\ x = <<x[1], x[2]>> /\ x[1] \in DOMAIN calls
                                         /\ x[2] \in DOMAIN calls[x[1]]
           /\ \A i \in DOMAIN calls : \A k \in DOMAIN calls[i] : <<i, k>> \in AllTurns(calls)
<1>1. ASSUME NEW x \in AllTurns(calls)
      PROVE  x = <<x[1], x[2]>> /\ x[1] \in DOMAIN calls /\ x[2] \in DOMAIN calls[x[1]]
  <2>1. PICK i \in DOMAIN calls : x \in {i} \X DOMAIN calls[i]
    BY DEF AllTurns
  <2>2. x = <<x[1], x[2]>> /\ x[1] = i /\ x[2] \in DOMAIN calls[i]
    BY <2>1
  <2>3. QED
    BY <2>2
<1>2. ASSUME NEW i \in DOMAIN calls, NEW k \in DOMAIN calls[i]
      PROVE  <<i, k>> \in AllTurns(calls)
  <2>1. <<i, k>> \in {i} \X DOMAIN calls[i]
    OBVIOUS
  <2>2. {i} \X DOMAIN calls[i] \in {{j} \X DOMAIN calls[j] : j \in DOMAIN calls}
    OBVIOUS
  <2>3. QED
    BY <2>1, <2>2, Zenon DEF AllTurns
<1>3. QED
  BY <1>1, <1>2

(* Some calls have finitely many turns.                                    *)
LEMMA PlacesFinite ==
    ASSUME NEW calls, IsCalls(calls)
    PROVE  IsFiniteSet(AllTurns(calls))
<1> DEFINE Of(i) == {i} \X DOMAIN calls[i]
           All == {Of(i) : i \in DOMAIN calls}
<1>1. \A i \in DOMAIN calls : IsFiniteSet(Of(i))
  <2>1. SUFFICES ASSUME NEW i \in DOMAIN calls
                 PROVE  IsFiniteSet({i} \X DOMAIN calls[i])
    OBVIOUS
  <2>2. PICK s \in Seq(TurnsRead) : s = calls[i]
    BY DEF IsCalls
  <2>3. PICK n \in Nat : DOMAIN s = 1..n
    BY LenProperties
  <2>4. IsFiniteSet(1..n)
    BY FS_Interval
  <2>5. IsFiniteSet({i} \X DOMAIN s)
    BY <2>3, <2>4, FS_Singleton, FS_Product
  <2>6. QED
    BY <2>2, <2>5
<1>2. IsFiniteSet(All)
  <2>1. [i \in DOMAIN calls |-> Of(i)] \in Surjection(DOMAIN calls, All)
    BY DEF Surjection
  <2> HIDE DEF All, Of
  <2>2. QED
    BY <2>1, FS_Surjection DEF IsCalls
<1>3. \A T \in All : IsFiniteSet(T)
  BY <1>1
<1>4. IsFiniteSet(UNION All)
  <2> HIDE DEF All
  <2>1. QED
    BY <1>2, <1>3, FS_UNION
<1>5. QED
  BY <1>4 DEF AllTurns

(* The turns of a kind are a number, of some calls and of one.             *)
LEMMA CountsAreNumbers ==
    ASSUME NEW calls, IsCalls(calls), NEW G
    PROVE  IsFiniteSet(PlacesIn(calls, G)) /\ CountIn(calls, G) \in Nat
<1>1. PlacesIn(calls, G) \in SUBSET AllTurns(calls)
  BY DEF PlacesIn
<1>2. IsFiniteSet(PlacesIn(calls, G))
  BY <1>1, PlacesFinite, FS_Subset
<1>3. QED
  BY <1>2, FS_CardinalityType DEF CountIn

(* The turns of a kind, of one call.                                       *)
LEMMA OneIsNumber ==
    ASSUME NEW s \in Seq(TurnsRead), NEW G
    PROVE  IsFiniteSet(Those(s, G)) /\ One(s, G) \in Nat
<1>1. PICK n \in Nat : DOMAIN s = 1..n
  BY LenProperties
<1>2. IsFiniteSet(1..n)
  BY FS_Interval
<1>3. Those(s, G) \in SUBSET (1..n)
  BY <1>1 DEF Those
<1>4. IsFiniteSet(Those(s, G))
  BY <1>2, <1>3, FS_Subset
<1>5. QED
  BY <1>4, FS_CardinalityType DEF One

(* Counting over some calls is counting over one of them and over the rest. *)
LEMMA CountWithout ==
    ASSUME NEW calls, IsCalls(calls), NEW c \in DOMAIN calls, NEW G
    PROVE  /\ IsCalls(Without(calls, c))
           /\ CountIn(calls, G) = CountIn(Without(calls, c), G) + One(calls[c], G)
           /\ CountIn(Without(calls, c), G) \in Nat /\ One(calls[c], G) \in Nat
<1> DEFINE rest == Without(calls, c)
           A == PlacesIn(rest, G)
           B == {x \in PlacesIn(calls, G) : x[1] = c}
<1>1. DOMAIN rest = DOMAIN calls \ {c} /\ \A i \in DOMAIN rest : rest[i] = calls[i]
  BY DEF Without
<1>2. IsCalls(rest)
  BY <1>1, FS_RemoveElement DEF IsCalls
<1> HIDE DEF rest
<1>3. A = {x \in PlacesIn(calls, G) : x[1] # c}
  <2>1. ASSUME NEW x \in A
        PROVE  x \in PlacesIn(calls, G) /\ x[1] # c
    <3>1. x \in AllTurns(rest) /\ Turn(rest, x) \in G
      BY DEF PlacesIn
    <3>2. x = <<x[1], x[2]>> /\ x[1] \in DOMAIN rest /\ x[2] \in DOMAIN rest[x[1]]
      BY <3>1, Places
    <3>3. x[1] \in DOMAIN calls /\ x[1] # c /\ x[2] \in DOMAIN calls[x[1]]
          /\ Turn(calls, x) \in G
      BY <1>1, <3>1, <3>2 DEF Turn
    <3>4. x \in AllTurns(calls)
      BY <3>2, <3>3, Places, Zenon
    <3>5. QED
      BY <3>3, <3>4 DEF PlacesIn
  <2>2. ASSUME NEW x \in PlacesIn(calls, G), x[1] # c
        PROVE  x \in A
    <3>1. x \in AllTurns(calls) /\ Turn(calls, x) \in G
      BY DEF PlacesIn
    <3>2. x = <<x[1], x[2]>> /\ x[1] \in DOMAIN calls /\ x[2] \in DOMAIN calls[x[1]]
      BY <3>1, Places
    <3>3. x[1] \in DOMAIN rest /\ x[2] \in DOMAIN rest[x[1]] /\ Turn(rest, x) \in G
      BY <1>1, <2>2, <3>1, <3>2 DEF Turn
    <3>4. x \in AllTurns(rest)
      BY <3>2, <3>3, Places, Zenon
    <3>5. QED
      BY <3>3, <3>4 DEF PlacesIn
  <2>3. QED
    BY <2>1, <2>2
<1>4. PlacesIn(calls, G) = A \cup B /\ A \cap B = {}
  <2> DEFINE P == PlacesIn(calls, G)
  <2>1. A = {x \in P : x[1] # c}
    BY <1>3
  <2> HIDE DEF P, A
  <2>2. QED
    BY <2>1 DEF P
<1>5. IsFiniteSet(PlacesIn(calls, G))
  BY CountsAreNumbers
<1>6. /\ Cardinality(A) \in Nat /\ Cardinality(B) \in Nat
      /\ CountIn(calls, G) = Cardinality(A) + Cardinality(B)
  <2> HIDE DEF A, B
  <2>1. QED
    BY <1>4, <1>5, TwoParts DEF CountIn
<1>7. Cardinality(B) = One(calls[c], G)
  <2> DEFINE T == Those(calls[c], G)
             f == [k \in T |-> <<c, k>>]
  <2>1. IsFiniteSet(T)
    <3>1. calls[c] \in Seq(TurnsRead)
      BY DEF IsCalls
    <3>2. QED
      BY <3>1, OneIsNumber
  <2>2. \A k \in T : <<c, k>> \in B
    <3>1. SUFFICES ASSUME NEW k \in T
                   PROVE  <<c, k>> \in B
      OBVIOUS
    <3>2. k \in DOMAIN calls[c] /\ calls[c][k] \in G
      BY DEF Those
    <3>3. <<c, k>> \in AllTurns(calls)
      BY <3>2, Places
    <3>4. QED
      BY <3>2, <3>3 DEF PlacesIn, Turn
  <2>3. \A x \in B : x[2] \in T /\ x = <<c, x[2]>>
    <3>1. SUFFICES ASSUME NEW x \in B
                   PROVE  x[2] \in T /\ x = <<c, x[2]>>
      OBVIOUS
    <3>2. x \in AllTurns(calls) /\ Turn(calls, x) \in G /\ x[1] = c
      BY DEF PlacesIn
    <3>3. x = <<x[1], x[2]>> /\ x[2] \in DOMAIN calls[x[1]]
      BY <3>2, Places
    <3>4. QED
      BY <3>2, <3>3 DEF Turn, Those
  <2>4. f \in [T -> B] /\ \A x, y \in T : f[x] = f[y] => x = y
    BY <2>2
  <2>5. \A z \in B : \E x \in T : f[x] = z
    BY <2>3
  <2> HIDE DEF T, f, B
  <2>6. Cardinality(B) = Cardinality(T)
    BY <2>1, <2>4, <2>5, SameSize
  <2>7. QED
    BY <2>6 DEF T, One
<1>8. QED
  BY <1>2, <1>6, <1>7 DEF CountIn, rest

(* A turn more. *)
LEMMA OneMore ==
    ASSUME NEW s \in Seq(TurnsRead), NEW t \in TurnsRead, NEW G
    PROVE  /\ Append(s, t) \in Seq(TurnsRead)
           /\ One(Append(s, t), G) = One(s, G) + (IF t \in G THEN 1 ELSE 0)
<1>1. PICK n \in Nat : n = Len(s) /\ DOMAIN s = 1..n
  BY LenProperties
<1>2. PICK r \in Seq(TurnsRead) : r = Append(s, t)
  BY AppendProperties
<1>3. DOMAIN r = 1..(n + 1) /\ r[n + 1] = t /\ \A k \in 1..n : r[k] = s[k]
  <2>1. Len(r) = n + 1 /\ DOMAIN r = 1..Len(r)
    BY <1>1, <1>2, AppendProperties, LenProperties
  <2>2. r[n + 1] = t /\ \A k \in 1..n : r[k] = s[k]
    BY <1>1, <1>2, AppendProperties
  <2>3. QED
    BY <2>1, <2>2
<1>4. DOMAIN r = DOMAIN s \cup {n + 1} /\ n + 1 \notin DOMAIN s
  BY <1>1, <1>3
<1>5. \A k \in DOMAIN s : r[k] = s[k]
  BY <1>1, <1>3
<1>6. IsFiniteSet(Those(s, G)) /\ One(s, G) \in Nat
  BY OneIsNumber
<1>7. CASE t \in G
  <2>1. Those(r, G) = Those(s, G) \cup {n + 1} /\ n + 1 \notin Those(s, G)
    BY <1>3, <1>4, <1>5, <1>7 DEF Those
  <2>2. Cardinality(Those(r, G)) = Cardinality(Those(s, G)) + 1
    BY <1>6, <2>1, FS_AddElement
  <2>3. QED
    BY <1>2, <1>7, <2>2 DEF One
<1>8. CASE t \notin G
  <2>1. Those(r, G) = Those(s, G)
    BY <1>3, <1>4, <1>5, <1>8 DEF Those
  <2>2. One(r, G) = One(s, G) + 0
    BY <1>6, <2>1 DEF One
  <2>3. QED
    BY <1>2, <1>8, <2>2
<1>9. QED
  BY <1>7, <1>8

(* A call without turns has none of any kind.                              *)
LEMMA OneOfNone ==
    ASSUME NEW G
    PROVE  <<>> \in Seq(TurnsRead) /\ One(<<>>, G) = 0
<1>1. Those(<<>>, G) = {}
  BY DEF Those
<1>2. QED
  BY <1>1, FS_EmptySet DEF One

(* Adding a value to a sequence, or one sequence to another, adds to what  *)
(* does not exceed a number.                                               *)
LEMMA OneValueMore ==
    ASSUME NEW s \in Seq(Int), NEW a \in Int
    PROVE  /\ Append(s, a) \in Seq(Int) /\ IsSample(Append(s, a))
           /\ Size(Append(s, a)) = Len(s) + 1
           /\ \A v \in Int : AtMost(Append(s, a), v) = AtMost(s, v) + (IF a <= v THEN 1 ELSE 0)
<1>1. PICK n \in Nat : n = Len(s) /\ DOMAIN s = 1..n
  BY LenProperties
<1>2. PICK r \in Seq(Int) : r = Append(s, a)
  BY AppendProperties
<1>3. Len(r) = n + 1 /\ DOMAIN r = 1..(n + 1) /\ r[n + 1] = a /\ \A k \in 1..n : r[k] = s[k]
  <2>1. Len(r) = n + 1 /\ DOMAIN r = 1..Len(r)
    BY <1>1, <1>2, AppendProperties, LenProperties
  <2>2. r[n + 1] = a /\ \A k \in 1..n : r[k] = s[k]
    BY <1>1, <1>2, AppendProperties
  <2>3. QED
    BY <2>1, <2>2
<1>4. DOMAIN r = DOMAIN s \cup {n + 1} /\ n + 1 \notin DOMAIN s
  BY <1>1, <1>3
<1>5. \A k \in DOMAIN s : r[k] = s[k]
  BY <1>1, <1>3
<1>6. ASSUME NEW v \in Int
      PROVE  AtMost(r, v) = AtMost(s, v) + (IF a <= v THEN 1 ELSE 0)
  <2> DEFINE S == {x \in DOMAIN s : s[x] <= v}
             R == {x \in DOMAIN r : r[x] <= v}
  <2>1. IsFiniteSet(S) /\ Cardinality(S) \in Nat
    <3>1. S \in SUBSET (DOMAIN s) /\ IsFiniteSet(DOMAIN s)
      BY SequenceSample DEF IsSample
    <3> HIDE DEF S
    <3>2. QED
      BY <3>1, FS_Subset, FS_CardinalityType
  <2>2. AtMost(s, v) = Cardinality(S) /\ AtMost(r, v) = Cardinality(R)
    BY DEF AtMost
  <2>3. CASE a <= v
    <3>1. R = S \cup {n + 1} /\ n + 1 \notin S
      BY <1>3, <1>4, <1>5, <2>3
    <3> HIDE DEF R, S
    <3>2. Cardinality(R) = Cardinality(S) + 1
      BY <2>1, <3>1, FS_AddElement
    <3>3. QED
      BY <2>2, <2>3, <3>2
  <2>4. CASE ~(a <= v)
    <3>1. R = S
      BY <1>3, <1>4, <1>5, <2>4
    <3> HIDE DEF R, S
    <3>2. QED
      BY <2>1, <2>2, <2>4, <3>1
  <2>5. QED
    BY <2>3, <2>4
<1>7. QED
  BY <1>1, <1>2, <1>3, <1>6, SequenceSample

(* One sequence after another has the values of both.                      *)
LEMMA MoreValues ==
    ASSUME NEW s \in Seq(Int), NEW t \in Seq(Int)
    PROVE  /\ s \o t \in Seq(Int) /\ Len(s \o t) = Len(s) + Len(t)
           /\ \A v \in Int : AtMost(s \o t, v) = AtMost(s, v) + AtMost(t, v)
<1>1. PICK n \in Nat, m \in Nat : /\ n = Len(s) /\ DOMAIN s = 1..n
                                  /\ m = Len(t) /\ DOMAIN t = 1..m
  BY LenProperties
<1>2. PICK r \in Seq(Int) : r = s \o t
  BY ConcatProperties
<1>3. Len(r) = n + m /\ DOMAIN r = 1..(n + m)
  <2>1. Len(r) = n + m /\ DOMAIN r = 1..Len(r)
    BY <1>1, <1>2, ConcatProperties, LenProperties
  <2>2. QED
    BY <2>1
<1>4. \A k \in 1..(n + m) : r[k] = IF k <= n THEN s[k] ELSE t[k - n]
  BY <1>1, <1>2, ConcatProperties
<1>5. (\A k \in 1..n : r[k] = s[k]) /\ (\A k \in 1..m : r[n + k] = t[k])
  <2>1. ASSUME NEW k \in 1..m
        PROVE  r[n + k] = t[k]
    <3>1. n + k \in 1..(n + m) /\ ~(n + k <= n) /\ (n + k) - n = k
      OBVIOUS
    <3>2. r[n + k] = t[(n + k) - n]
      BY <1>4, <3>1
    <3>3. QED
      BY <3>1, <3>2
  <2>2. \A k \in 1..n : k \in 1..(n + m) /\ k <= n
    OBVIOUS
  <2>3. QED
    BY <1>4, <2>1, <2>2
<1>6. ASSUME NEW v \in Int
      PROVE  AtMost(r, v) = AtMost(s, v) + AtMost(t, v)
  <2> DEFINE Rv == {x \in DOMAIN r : r[x] <= v}
             Sv == {x \in DOMAIN s : s[x] <= v}
             Tv == {x \in DOMAIN t : t[x] <= v}
             Uv == {x \in Rv : ~(x <= n)}
             f == [k \in Tv |-> n + k]
  <2>1. IsFiniteSet(Rv) /\ IsFiniteSet(Tv)
    <3>1. Rv \in SUBSET (DOMAIN r) /\ IsFiniteSet(DOMAIN r) /\ Tv \in SUBSET (DOMAIN t) /\ IsFiniteSet(DOMAIN t)
      BY SequenceSample DEF IsSample
    <3> HIDE DEF Rv, Tv
    <3>2. QED
      BY <3>1, FS_Subset
  <2>2. Sv = {x \in Rv : x <= n}
    BY <1>1, <1>3, <1>5
  <2>3. Rv = Sv \cup Uv /\ Sv \cap Uv = {}
    <3> HIDE DEF Rv
    <3>1. QED
      BY <2>2
  <2>4. f \in [Tv -> Uv] /\ \A x, y \in Tv : f[x] = f[y] => x = y
    <3>1. \A k \in Tv : n + k \in Uv
      <4>1. SUFFICES ASSUME NEW k \in Tv
                     PROVE  n + k \in Uv
        OBVIOUS
      <4>2. k \in 1..m /\ t[k] <= v
        BY <1>1
      <4>3. n + k \in 1..(n + m) /\ ~(n + k <= n) /\ r[n + k] = t[k]
        BY <1>5, <4>2
      <4>4. QED
        BY <1>3, <4>2, <4>3
    <3>2. \A x, y \in Tv : n + x = n + y => x = y
      BY <1>1
    <3>3. QED
      BY <3>1, <3>2
  <2>5. \A z \in Uv : \E x \in Tv : f[x] = z
    <3>1. SUFFICES ASSUME NEW z \in Uv
                   PROVE  \E x \in Tv : f[x] = z
      OBVIOUS
    <3>2. z \in 1..(n + m) /\ ~(z <= n) /\ r[z] <= v
      BY <1>3
    <3>3. PICK k \in 1..m : z = n + k
      <4>1. z - n \in 1..m /\ z = n + (z - n)
        BY <3>2
      <4>2. QED
        BY <4>1
    <3>4. k \in Tv
      BY <1>1, <1>5, <3>2, <3>3
    <3>5. QED
      BY <3>3, <3>4
  <2>6. AtMost(r, v) = Cardinality(Rv) /\ AtMost(s, v) = Cardinality(Sv) /\ AtMost(t, v) = Cardinality(Tv)
    BY DEF AtMost
  <2> HIDE DEF Rv, Sv, Tv, Uv, f
  <2>7. Cardinality(Uv) = Cardinality(Tv)
    BY <2>1, <2>4, <2>5, SameSize
  <2>8. Cardinality(Rv) = Cardinality(Sv) + Cardinality(Uv)
    <3>1. IsFiniteSet(Rv) /\ Rv = Sv \cup Uv /\ Sv \cap Uv = {}
      BY <2>1, <2>3
    <3>2. QED
      BY <3>1, TwoParts
  <2>9. QED
    BY <2>6, <2>7, <2>8, Zenon
<1>7. QED
  BY <1>1, <1>2, <1>3, <1>6

-----------------------------------------------------------------------------
(* The inductive invariant.                                                *)

(* The turns of the calls that ended and of the calls in progress, and how *)
(* many of either kind of call are in a set.                               *)
Ended == TurnsOf(outcomes, DOMAIN outcomes)
Going == [c \in Callers |-> calling[c].turns]
Measured(G) == CountIn(Ended, G) + CountIn(Going, G)

(* What a reader counts. *)
FailedTurns == {t \in TurnsRead : t.failed}
TalkedOver == {t \in TurnsRead : ~t.failed /\ t.yielded}
FineTurns == {t \in TurnsRead : ~t.failed /\ ~t.yielded}
Timed == {t \in TurnsRead : ~t.yielded /\ t.ttfa > 0}
TimedTo(v) == {t \in Timed : t.ttfa <= v}
Heard == {t \in TurnsRead : ~(t.yielded \/ Written(t).ttfa <= 0)}
HeardTo(v) == {t \in Heard : Written(t).ttfa <= v}

OnCall == [began : Nat, turns : Seq(TurnsRead)]
Outcome == [failed : BOOLEAN, began : Nat, turns : Seq(TurnsRead)]
Kinds == {"ok", "failed", "talked_over"}

MeasuresType ==
    /\ calling \in [Callers -> OnCall]
    /\ began \in Nat
    /\ outcomes \in Seq(Outcome)
    /\ missing \in Nat
    /\ live \in [by : [Kinds -> Nat], samples : Seq(Int)]
    /\ collected \in [total : Nat, failed : Nat, samples : Seq(Int)]

(* No two calls began at once, and only a call without a turn failed. *)
CallsInv ==
    /\ \A c \in Callers : Idle(c) => calling[c] = NoCall
    /\ \A c \in Callers : calling[c].began <= began
    /\ \A c, d \in Callers : ~Idle(c) /\ calling[c].began = calling[d].began => c = d
    /\ \A i \in DOMAIN outcomes :
        /\ 1 <= outcomes[i].began /\ outcomes[i].began <= began
        /\ outcomes[i].failed <=> outcomes[i].turns = <<>>
        /\ \A c \in Callers : calling[c].began # outcomes[i].began
        /\ \A j \in DOMAIN outcomes : outcomes[i].began = outcomes[j].began => i = j

(* The live metrics have counted every turn taken. *)
LiveInv ==
    /\ live.by["failed"] = Measured(FailedTurns)
    /\ live.by["talked_over"] = Measured(TalkedOver)
    /\ live.by["ok"] = Measured(FineTurns)
    /\ Len(live.samples) = Measured(Timed)
    /\ \A v \in Int : AtMost(live.samples, v) = Measured(TimedTo(v))

(* The collector has counted every turn of the calls that ended. *)
CollectedInv ==
    /\ collected.total = CountIn(Ended, TurnsRead)
    /\ collected.failed = CountIn(Ended, FailedTurns)
    /\ Len(collected.samples) = CountIn(Ended, Heard)
    /\ \A v \in Int : AtMost(collected.samples, v) = CountIn(Ended, HeardTo(v))

(* The dispatcher has each call once, and the ones it missed at the end.   *)
FleetInv ==
    /\ \A c \in Callers : calling[c] = NoCall
    /\ missing \in 0..Len(outcomes)
    /\ Len(outcomes) < StepCalls => missing = 0
    /\ \A i \in DOMAIN outcomes :
        /\ outcomes[i].began = 0 <=> i > Len(outcomes) - missing
        /\ outcomes[i].failed <=> outcomes[i].turns = <<>>
        /\ outcomes[i].turns # <<>> => outcomes[i].began # 0
        /\ \A j \in DOMAIN outcomes :
               outcomes[i].began # 0 /\ outcomes[i].began = outcomes[j].began => i = j

MeasuresInv ==
    /\ MeasuresType
    /\ IF fleet THEN FleetInv
                ELSE missing = 0 /\ CallsInv /\ LiveInv /\ CollectedInv

-----------------------------------------------------------------------------
(* What a step does to the counts.                                         *)

(* One call's turns change. *)
LEMMA CountChanges ==
    ASSUME NEW calls, IsCalls(calls), NEW other, IsCalls(other),
           DOMAIN other = DOMAIN calls, NEW c \in DOMAIN calls,
           \A i \in DOMAIN calls \ {c} : other[i] = calls[i], NEW G
    PROVE  CountIn(other, G) = CountIn(calls, G) - One(calls[c], G) + One(other[c], G)
<1>1. Without(other, c) = Without(calls, c)
  BY DEF Without
<1>2. PICK w \in Nat, a \in Nat, b \in Nat :
        /\ w = CountIn(Without(calls, c), G) /\ a = One(calls[c], G) /\ b = One(other[c], G)
        /\ CountIn(calls, G) = w + a /\ CountIn(other, G) = w + b
  <2>1. /\ CountIn(calls, G) = CountIn(Without(calls, c), G) + One(calls[c], G)
        /\ CountIn(Without(calls, c), G) \in Nat /\ One(calls[c], G) \in Nat
    BY CountWithout
  <2>2. /\ CountIn(other, G) = CountIn(Without(other, c), G) + One(other[c], G)
        /\ One(other[c], G) \in Nat
    BY CountWithout
  <2>3. QED
    BY <1>1, <2>1, <2>2
<1>3. w + b = (w + a) - a + b
  OBVIOUS
<1>4. QED
  BY <1>2, <1>3

(* One call more. *)
LEMMA CountGrows ==
    ASSUME NEW calls, IsCalls(calls), calls = [i \in DOMAIN calls |-> calls[i]],
           NEW other, IsCalls(other), NEW c, c \notin DOMAIN calls,
           DOMAIN other = DOMAIN calls \cup {c},
           \A i \in DOMAIN calls : other[i] = calls[i], NEW G
    PROVE  CountIn(other, G) = CountIn(calls, G) + One(other[c], G)
<1>1. Without(other, c) = calls
  <2>1. DOMAIN other \ {c} = DOMAIN calls
    OBVIOUS
  <2>2. Without(other, c) = [i \in DOMAIN calls |-> calls[i]]
    BY <2>1 DEF Without
  <2>3. QED
    BY <2>2
<1>2. c \in DOMAIN other
  OBVIOUS
<1>3. QED
  BY <1>1, <1>2, CountWithout

(* Calls without turns have none.                                          *)
LEMMA CountOfSilence ==
    ASSUME NEW calls, \A i \in DOMAIN calls : calls[i] = <<>>, NEW G
    PROVE  AllTurns(calls) = {} /\ CountIn(calls, G) = 0
<1>1. AllTurns(calls) = {}
  BY Places
<1>2. PlacesIn(calls, G) = {}
  BY <1>1 DEF PlacesIn
<1>3. QED
  BY <1>1, <1>2, FS_EmptySet DEF CountIn

(* What is counted is the turns of some calls.                             *)
LEMMA CallsOfStep ==
    ASSUME NEW os \in Seq(Outcome), NEW at \in [Callers -> OnCall]
    PROVE  /\ IsCalls(TurnsOf(os, DOMAIN os)) /\ IsCalls([c \in Callers |-> at[c].turns])
           /\ \A i \in DOMAIN os : os[i] \in Outcome /\ os[i].turns \in Seq(TurnsRead)
           /\ \E n \in Nat : n = Len(os) /\ DOMAIN os = 1..n
<1>1. PICK n \in Nat : n = Len(os) /\ DOMAIN os = 1..n
  BY LenProperties
<1>2. IsFiniteSet(1..n)
  BY FS_Interval
<1>3. \A i \in 1..n : os[i] \in Outcome
  BY <1>1, ElementOfSeq
<1>4. \A i \in DOMAIN os : os[i] \in Outcome /\ os[i].turns \in Seq(TurnsRead)
  BY <1>1, <1>3 DEF Outcome
<1>5. \A c \in Callers : at[c].turns \in Seq(TurnsRead)
  BY DEF OnCall
<1>6. IsFiniteSet(Callers)
  BY MeasuresAssumption
<1>7. IsCalls(TurnsOf(os, DOMAIN os))
  BY <1>1, <1>2, <1>4 DEF IsCalls, TurnsOf
<1>8. IsCalls([c \in Callers |-> at[c].turns])
  BY <1>5, <1>6 DEF IsCalls
<1>9. QED
  BY <1>1, <1>4, <1>7, <1>8

(* So the counts of the invariant are of calls,                            *)
LEMMA CallsAreCalls ==
    MeasuresType => IsCalls(Ended) /\ IsCalls(Going)
BY CallsOfStep DEF MeasuresType, Ended, Going

(* and they are after a step that keeps the types.                         *)
LEMMA CallsStayCalls ==
    MeasuresType' => IsCalls(Ended)' /\ IsCalls(Going)'
<1>1. SUFFICES ASSUME outcomes' \in Seq(Outcome), calling' \in [Callers -> OnCall]
               PROVE  IsCalls(Ended') /\ IsCalls(Going')
  BY DEF MeasuresType
<1>2. Ended' = TurnsOf(outcomes', DOMAIN outcomes') /\ Going' = [c \in Callers |-> calling'[c].turns]
  BY DEF Ended, Going
<1>3. QED
  BY <1>1, <1>2, CallsOfStep

(* Nothing has been measured at the start.                                 *)
LEMMA StartCounts ==
    ASSUME MeasuresInit, NEW G
    PROVE  Measured(G) = 0 /\ CountIn(Ended, G) = 0
<1>1. \A i \in DOMAIN Ended : Ended[i] = <<>>
  <2>1. DOMAIN Ended = {}
    BY DEF MeasuresInit, Ended, TurnsOf
  <2>2. QED
    BY <2>1
<1>2. \A c \in DOMAIN Going : Going[c] = <<>>
  BY DEF MeasuresInit, Going, NoCall
<1>3. CountIn(Ended, G) = 0 /\ CountIn(Going, G) = 0
  BY <1>1, <1>2, CountOfSilence
<1>4. QED
  BY <1>3 DEF Measured

(* A call that begins changes no count.                                    *)
LEMMA BeginCounts ==
    ASSUME MeasuresType, CallsInv, NEW c \in Callers, BeginCall(c), NEW G
    PROVE  Measured(G)' = Measured(G) /\ CountIn(Ended, G)' = CountIn(Ended, G)
<1>1. Ended' = Ended
  BY DEF BeginCall, Ended
<1>2. calling[c].turns = <<>>
  BY DEF BeginCall, CallsInv, NoCall
<1>3. calling' = [calling EXCEPT ![c] = [NoCall EXCEPT !.began = began + 1]]
      /\ calling \in [Callers -> OnCall]
  BY DEF BeginCall, MeasuresType
<1>4. \A d \in Callers : calling'[d].turns = calling[d].turns
  BY <1>2, <1>3 DEF NoCall
<1>5. Going' = Going
  BY <1>4 DEF Going
<1>6. QED
  BY <1>1, <1>5 DEF Measured

(* A turn is counted once, where it belongs.                               *)
LEMMA TakeCounts ==
    ASSUME MeasuresType, MeasuresType', NEW c \in Callers, NEW kind \in TurnsRead,
           TakeTurn(c, kind), NEW G
    PROVE  /\ Measured(G) \in Nat
           /\ Measured(G)' = Measured(G) + (IF kind \in G THEN 1 ELSE 0)
           /\ CountIn(Ended, G)' = CountIn(Ended, G)
<1>1. Ended' = Ended
  BY DEF TakeTurn, Ended
<1>2. calling' = [calling EXCEPT ![c].turns = Append(@, kind)] /\ calling \in [Callers -> OnCall]
  BY DEF TakeTurn, MeasuresType
<1>3. calling[c] \in OnCall
  BY <1>2
<1>4. PICK s \in Seq(TurnsRead) : s = calling[c].turns
  BY <1>3 DEF OnCall
<1>5. calling'[c].turns = Append(s, kind) /\ \A d \in Callers \ {c} : calling'[d] = calling[d]
  BY <1>2, <1>4 DEF OnCall
<1>6. /\ IsCalls(Going) /\ IsCalls(Going)' /\ DOMAIN Going = Callers /\ DOMAIN Going' = Callers
      /\ Going[c] = s /\ Going'[c] = Append(s, kind)
      /\ \A d \in Callers \ {c} : Going'[d] = Going[d]
  <2>1. IsCalls(Going) /\ IsCalls(Going)'
    BY CallsAreCalls, CallsStayCalls
  <2>2. Going = [d \in Callers |-> calling[d].turns] /\ Going' = [d \in Callers |-> calling'[d].turns]
    BY DEF Going
  <2>3. QED
    BY <1>4, <1>5, <2>1, <2>2
<1>7. CountIn(Going', G) = CountIn(Going, G) - One(s, G) + One(Append(s, kind), G)
  <2>1. /\ IsCalls(Going) /\ IsCalls(Going') /\ DOMAIN Going' = DOMAIN Going /\ c \in DOMAIN Going
        /\ \A d \in DOMAIN Going \ {c} : Going'[d] = Going[d]
    BY <1>6
  <2>2. CountIn(Going', G) = CountIn(Going, G) - One(Going[c], G) + One(Going'[c], G)
    BY <2>1, CountChanges
  <2>3. QED
    BY <1>6, <2>2
<1>8. One(Append(s, kind), G) = One(s, G) + (IF kind \in G THEN 1 ELSE 0)
  BY OneMore
<1>9. One(s, G) \in Nat /\ CountIn(Going, G) \in Nat /\ CountIn(Ended, G) \in Nat
  BY <1>6, OneIsNumber, CountsAreNumbers, CallsAreCalls
<1>10. CountIn(Going', G) = CountIn(Going, G) + (IF kind \in G THEN 1 ELSE 0)
  BY <1>7, <1>8, <1>9
<1>11. QED
  BY <1>1, <1>9, <1>10 DEF Measured

(* A call that ends takes its turns to those that ended.                   *)
LEMMA EndCounts ==
    ASSUME MeasuresType, MeasuresType', NEW c \in Callers, EndCall(c), NEW G
    PROVE  /\ Measured(G)' = Measured(G)
           /\ calling[c].turns \in Seq(TurnsRead)
           /\ CountIn(Ended, G) \in Nat /\ One(calling[c].turns, G) \in Nat
           /\ CountIn(Ended, G)' = CountIn(Ended, G) + One(calling[c].turns, G)
<1>1. calling \in [Callers -> OnCall] /\ calling' = [calling EXCEPT ![c] = NoCall]
  BY DEF EndCall, MeasuresType
<1>2. calling[c] \in OnCall
  BY <1>1
<1>3. PICK s \in Seq(TurnsRead) : s = calling[c].turns
  BY <1>2 DEF OnCall
<1>4. PICK os \in Seq(Outcome), o \in Outcome :
        /\ os = outcomes /\ outcomes' = Append(os, o) /\ o.turns = s
  <2>1. outcomes \in Seq(Outcome)
    BY DEF MeasuresType
  <2>2. outcomes' = Append(outcomes, [failed |-> calling[c].turns = <<>>,
                           began |-> calling[c].began, turns |-> calling[c].turns])
    BY DEF EndCall
  <2>3. [failed |-> calling[c].turns = <<>>, began |-> calling[c].began,
         turns |-> calling[c].turns] \in Outcome
    BY <1>2 DEF OnCall, Outcome
  <2>4. QED
    BY <1>3, <2>1, <2>2, <2>3
<1>5. PICK n \in Nat : n = Len(os) /\ DOMAIN os = 1..n
  BY LenProperties
<1>6. DOMAIN outcomes' = 1..(n + 1) /\ outcomes'[n + 1] = o /\ \A i \in 1..n : outcomes'[i] = os[i]
  <2>1. Append(os, o) \in Seq(Outcome) /\ Len(Append(os, o)) = n + 1
    BY <1>5, AppendProperties
  <2>2. DOMAIN Append(os, o) = 1..(n + 1)
    BY <2>1, LenProperties
  <2>3. Append(os, o)[n + 1] = o /\ \A i \in 1..n : Append(os, o)[i] = os[i]
    BY <1>5, AppendProperties
  <2>4. QED
    BY <1>4, <2>2, <2>3
<1>7. DOMAIN outcomes' = DOMAIN outcomes \cup {n + 1} /\ n + 1 \notin DOMAIN outcomes
      /\ \A i \in DOMAIN outcomes : outcomes'[i] = outcomes[i]
  BY <1>4, <1>5, <1>6
<1>8. /\ IsCalls(Ended) /\ IsCalls(Ended)' /\ Ended = [i \in DOMAIN Ended |-> Ended[i]]
      /\ n + 1 \notin DOMAIN Ended /\ DOMAIN Ended' = DOMAIN Ended \cup {n + 1}
      /\ (\A i \in DOMAIN Ended : Ended'[i] = Ended[i]) /\ Ended'[n + 1] = s
  <2>1. IsCalls(Ended) /\ IsCalls(Ended)'
    BY CallsAreCalls, CallsStayCalls
  <2>2. Ended = [i \in DOMAIN outcomes |-> outcomes[i].turns]
        /\ Ended' = [i \in DOMAIN outcomes' |-> outcomes'[i].turns]
    BY DEF Ended, TurnsOf
  <2>3. outcomes'[n + 1].turns = s
    BY <1>4, <1>6
  <2>4. QED
    BY <1>7, <2>1, <2>2, <2>3
<1>9. CountIn(Ended', G) = CountIn(Ended, G) + One(s, G)
  BY <1>8, CountGrows
<1>10. /\ IsCalls(Going) /\ IsCalls(Going)' /\ DOMAIN Going = Callers /\ DOMAIN Going' = Callers
       /\ Going[c] = s /\ Going'[c] = <<>>
       /\ \A d \in Callers \ {c} : Going'[d] = Going[d]
  <2>1. IsCalls(Going) /\ IsCalls(Going)'
    BY CallsAreCalls, CallsStayCalls
  <2>2. Going = [d \in Callers |-> calling[d].turns] /\ Going' = [d \in Callers |-> calling'[d].turns]
    BY DEF Going
  <2>3. calling'[c].turns = <<>> /\ \A d \in Callers \ {c} : calling'[d] = calling[d]
    BY <1>1 DEF NoCall
  <2>4. QED
    BY <1>3, <2>1, <2>2, <2>3
<1>11. CountIn(Going', G) = CountIn(Going, G) - One(s, G) + One(<<>>, G)
  BY <1>10, CountChanges
<1>12. One(<<>>, G) = 0 /\ One(s, G) \in Nat /\ CountIn(Going, G) \in Nat /\ CountIn(Ended, G) \in Nat
  BY <1>8, <1>10, OneOfNone, OneIsNumber, CountsAreNumbers
<1>13. CountIn(Ended', G) + CountIn(Going', G) = CountIn(Ended, G) + CountIn(Going, G)
  BY <1>9, <1>11, <1>12
<1>14. QED
  BY <1>3, <1>9, <1>12, <1>13 DEF Measured

-----------------------------------------------------------------------------
(* What a turn is, and what is read of the turns of one call.              *)

(* A turn that was written is a turn. *)
LEMMA TurnsAreTurns ==
    \A t \in TurnsRead : IsTurn(t)
<1>1. \A t \in TurnKinds : IsTurn(t)
  BY MeasuresAssumption
<1>2. ASSUME NEW t \in TurnKinds
      PROVE  IsTurn(Written(t))
  <2>1. IsTurn(t)
    BY <1>1
  <2>2. RoundTo(10, t.ttfa) \in Int
    BY <2>1, WrittenWaits DEF IsTurn
  <2>3. t.rtt \in Nat => RoundTo(10, t.rtt) \in Nat
    BY RoundedTens
  <2>4. PICK r \in Nat \cup {Unmeasured} :
          r = IF t.rtt = Unmeasured THEN Unmeasured ELSE RoundTo(10, t.rtt)
    BY <2>1, <2>3 DEF IsTurn
  <2>5. PICK d \in Int : d = RoundTo(10, t.ttfa)
    BY <2>2
  <2>6. Written(t) = [t EXCEPT !.ttfa = d, !.rtt = r]
    BY <2>4, <2>5 DEF Written
  <2>7. QED
    BY <2>1, <2>6 DEF IsTurn
<1>3. QED
  BY <1>1, <1>2 DEF TurnsRead

(* The fields of a turn, and of a turn as it is written.                   *)
LEMMA TurnFacts ==
    ASSUME NEW t \in TurnsRead
    PROVE  /\ t.ttfa \in Int /\ t.failed \in BOOLEAN /\ t.yielded \in BOOLEAN
           /\ Written(t).ttfa = RoundTo(10, t.ttfa) /\ Written(t).ttfa \in Int
           /\ Written(t).yielded = t.yielded /\ Written(t).reply = t.reply
<1>1. IsTurn(t)
  BY TurnsAreTurns
<1>2. /\ t.ttfa \in Int /\ t.failed \in BOOLEAN /\ t.yielded \in BOOLEAN
      /\ {"ttfa", "yielded", "reply"} \subseteq DOMAIN t
  BY <1>1 DEF IsTurn
<1>3. RoundTo(10, t.ttfa) \in Int
  BY <1>2, WrittenWaits
<1>4. /\ Written(t).ttfa = RoundTo(10, t.ttfa)
      /\ Written(t).yielded = t.yielded /\ Written(t).reply = t.reply
  BY <1>2 DEF Written
<1>5. QED
  BY <1>2, <1>3, <1>4

(* The figures of one call's turns that the collector adds. *)
WaitsHeard(ts) ==
    [k \in {k \in DOMAIN ts : ~(ts[k].yielded \/ Written(ts[k]).ttfa <= 0)}
        |-> Written(ts[k]).ttfa]

(* They are the turns of the call that are heard, as long as written.      *)
LEMMA HeardOfCall ==
    ASSUME NEW ts \in Seq(TurnsRead)
    PROVE  /\ IsSample(WaitsHeard(ts)) /\ Size(WaitsHeard(ts)) = One(ts, Heard)
           /\ \A v \in Int : AtMost(WaitsHeard(ts), v) = One(ts, HeardTo(v))
           /\ Len(ts) = One(ts, TurnsRead)
           /\ Cardinality({k \in DOMAIN ts : ts[k].failed}) = One(ts, FailedTurns)
<1>1. PICK n \in Nat : n = Len(ts) /\ DOMAIN ts = 1..n
  BY LenProperties
<1>2. \A k \in DOMAIN ts : ts[k] \in TurnsRead
  BY <1>1, ElementOfSeq
<1>3. {k \in DOMAIN ts : ~(ts[k].yielded \/ Written(ts[k]).ttfa <= 0)} = Those(ts, Heard)
  BY <1>2 DEF Those, Heard
<1>4. WaitsHeard(ts) = [k \in Those(ts, Heard) |-> Written(ts[k]).ttfa]
  BY <1>3 DEF WaitsHeard
<1>5. \A k \in Those(ts, Heard) : k \in DOMAIN ts /\ ts[k] \in Heard
  BY DEF Those
<1>6. IsSample(WaitsHeard(ts)) /\ Size(WaitsHeard(ts)) = One(ts, Heard)
  <2>1. \A k \in Those(ts, Heard) : Written(ts[k]).ttfa \in Int
    BY <1>2, <1>5, TurnFacts
  <2>2. IsFiniteSet(Those(ts, Heard))
    BY OneIsNumber
  <2>3. QED
    BY <1>4, <2>1, <2>2 DEF IsSample, Size, One
<1>7. ASSUME NEW v \in Int
      PROVE  AtMost(WaitsHeard(ts), v) = One(ts, HeardTo(v))
  <2>1. {k \in Those(ts, Heard) : Written(ts[k]).ttfa <= v} = Those(ts, HeardTo(v))
    BY <1>5 DEF Those, HeardTo
  <2>2. {k \in DOMAIN WaitsHeard(ts) : WaitsHeard(ts)[k] <= v} = Those(ts, HeardTo(v))
    BY <1>4, <2>1
  <2>3. QED
    BY <2>2 DEF AtMost, One
<1>8. Len(ts) = One(ts, TurnsRead)
  <2>1. Those(ts, TurnsRead) = 1..n
    BY <1>1, <1>2 DEF Those
  <2>2. Cardinality(1..n) = n
    BY SequenceSample, FS_Interval
  <2>3. QED
    BY <1>1, <2>1, <2>2 DEF One
<1>9. Cardinality({k \in DOMAIN ts : ts[k].failed}) = One(ts, FailedTurns)
  <2>1. {k \in DOMAIN ts : ts[k].failed} = Those(ts, FailedTurns)
    BY <1>2 DEF Those, FailedTurns
  <2>2. QED
    BY <2>1 DEF One
<1>10. QED
  BY <1>6, <1>7, <1>8, <1>9

-----------------------------------------------------------------------------
(* The types are kept. *)

(* A call that begins.                                                     *)
LEMMA BeginKeepsTypes ==
    ASSUME MeasuresType, NEW c \in Callers, BeginCall(c)
    PROVE  MeasuresType'
<1>1. began' = began + 1 /\ began \in Nat
  BY DEF MeasuresType, BeginCall
<1>2. [NoCall EXCEPT !.began = began + 1] \in OnCall
  <2>1. <<>> \in Seq(TurnsRead)
    BY OneOfNone
  <2>2. PICK e \in Seq(TurnsRead) : e = <<>>
    BY <2>1, Zenon
  <2>7. PICK b \in Nat : b = began + 1
    BY <1>1
  <2>3. NoCall = [began |-> 0, turns |-> e]
    BY <2>2, Zenon DEF NoCall
  <2>5. [NoCall EXCEPT !.began = b] = [began |-> b, turns |-> e]
    BY <2>3
  <2>6. [NoCall EXCEPT !.began = began + 1] \in OnCall
    BY <2>5, <2>7 DEF OnCall
  <2>4. QED
    BY <2>6
<1>3. calling' \in [Callers -> OnCall]
  BY <1>2 DEF MeasuresType, BeginCall
<1>4. QED
  BY <1>1, <1>3 DEF MeasuresType, BeginCall

(* What ObserveTurn gives. *)
LEMMA Observed ==
    ASSUME NEW l \in [by : [Kinds -> Nat], samples : Seq(Int)], NEW t \in TurnsRead
    PROVE  /\ ObserveTurn(l, t) \in [by : [Kinds -> Nat], samples : Seq(Int)]
           /\ \A o \in Kinds : ObserveTurn(l, t).by[o] = l.by[o] +
                (IF o = (IF t.failed THEN "failed" ELSE IF t.yielded THEN "talked_over" ELSE "ok")
                 THEN 1 ELSE 0)
           /\ ObserveTurn(l, t).samples = IF t.yielded \/ t.ttfa <= 0 THEN l.samples
                                          ELSE SortedDs(Append(l.samples, t.ttfa))
<1> DEFINE outcome == IF t.failed THEN "failed" ELSE IF t.yielded THEN "talked_over" ELSE "ok"
           counted == [l EXCEPT !.by[outcome] = @ + 1]
<1>1. PICK by \in [Kinds -> Nat], s \in Seq(Int) : l = [by |-> by, samples |-> s]
  OBVIOUS
<1>2. outcome \in Kinds
  BY DEF Kinds
<1> HIDE DEF outcome
<1>3. /\ counted = [by |-> [by EXCEPT ![outcome] = @ + 1], samples |-> s]
      /\ [by EXCEPT ![outcome] = @ + 1] \in [Kinds -> Nat]
      /\ \A o \in Kinds : [by EXCEPT ![outcome] = @ + 1][o] = by[o] + (IF o = outcome THEN 1 ELSE 0)
  <2>1. counted = [by |-> [by EXCEPT ![outcome] = @ + 1], samples |-> s]
    BY <1>1
  <2>2. \A o \in Kinds : by[o] \in Nat /\ by[o] + 1 \in Nat
    OBVIOUS
  <2>3. [by EXCEPT ![outcome] = @ + 1] \in [Kinds -> Nat]
    BY <2>2
  <2>4. ASSUME NEW o \in Kinds
        PROVE  [by EXCEPT ![outcome] = @ + 1][o] = by[o] + (IF o = outcome THEN 1 ELSE 0)
    <3>1. CASE o = outcome
      BY <1>2, <3>1
    <3>2. CASE o # outcome
      <4>1. [by EXCEPT ![outcome] = @ + 1][o] = by[o]
        BY <3>2
      <4>2. QED
        BY <2>2, <3>2, <4>1
    <3>3. QED
      BY <3>1, <3>2
  <2>5. QED
    BY <2>1, <2>3, <2>4
<1>4. SortedDs(Append(s, t.ttfa)) \in Seq(Int)
  BY TurnFacts, OneValueMore, SortedType
<1>5. ObserveTurn(l, t) = IF t.yielded \/ t.ttfa <= 0 THEN counted
                          ELSE [counted EXCEPT !.samples = SortedDs(Append(@, t.ttfa))]
  BY DEF ObserveTurn, outcome
<1>6. ObserveTurn(l, t) = [by |-> [by EXCEPT ![outcome] = @ + 1],
                           samples |-> IF t.yielded \/ t.ttfa <= 0 THEN s
                                       ELSE SortedDs(Append(s, t.ttfa))]
  <2>1. PICK by2 : by2 = [by EXCEPT ![outcome] = @ + 1]
    OBVIOUS
  <2>2. counted = [by |-> by2, samples |-> s]
    BY <1>3, <2>1, Zenon
  <2> HIDE DEF counted
  <2>3. [counted EXCEPT !.samples = SortedDs(Append(@, t.ttfa))]
        = [by |-> by2, samples |-> SortedDs(Append(s, t.ttfa))]
    BY <2>2
  <2>4. CASE t.yielded \/ t.ttfa <= 0
    BY <1>5, <2>1, <2>2, <2>4, Zenon
  <2>5. CASE ~(t.yielded \/ t.ttfa <= 0)
    BY <1>5, <2>1, <2>3, <2>5, Zenon
  <2>6. QED
    BY <2>4, <2>5
<1>7. /\ ObserveTurn(l, t) \in [by : [Kinds -> Nat], samples : Seq(Int)]
      /\ ObserveTurn(l, t).by = [by EXCEPT ![outcome] = @ + 1] /\ l.by = by /\ l.samples = s
      /\ ObserveTurn(l, t).samples = IF t.yielded \/ t.ttfa <= 0 THEN s
                                     ELSE SortedDs(Append(s, t.ttfa))
  <2>1. PICK by2 \in [Kinds -> Nat], s2 \in Seq(Int) :
          /\ by2 = [by EXCEPT ![outcome] = @ + 1]
          /\ s2 = IF t.yielded \/ t.ttfa <= 0 THEN s ELSE SortedDs(Append(s, t.ttfa))
    BY <1>3, <1>4
  <2>2. ObserveTurn(l, t) = [by |-> by2, samples |-> s2]
    BY <1>6, <2>1, Zenon
  <2>3. /\ ObserveTurn(l, t) \in [by : [Kinds -> Nat], samples : Seq(Int)]
        /\ ObserveTurn(l, t).by = by2 /\ ObserveTurn(l, t).samples = s2
        /\ l.by = by /\ l.samples = s
    BY <1>1, <2>2
  <2>4. QED
    BY <2>1, <2>3, Zenon
<1>8. \A o \in Kinds : ObserveTurn(l, t).by[o] = l.by[o] + (IF o = outcome THEN 1 ELSE 0)
  BY <1>3, <1>7, Zenon
<1>9. QED
  BY <1>7, <1>8, Zenon DEF outcome

(* A turn that is taken.                                                   *)
LEMMA TakeKeepsTypes ==
    ASSUME MeasuresType, NEW c \in Callers, NEW kind \in TurnsRead, TakeTurn(c, kind)
    PROVE  MeasuresType'
<1>1. calling \in [Callers -> OnCall] /\ calling' = [calling EXCEPT ![c].turns = Append(@, kind)]
  BY DEF MeasuresType, TakeTurn
<1>2. PICK b \in Nat, s \in Seq(TurnsRead) : calling[c] = [began |-> b, turns |-> s]
  BY <1>1 DEF OnCall
<1>3. Append(s, kind) \in Seq(TurnsRead)
  BY OneMore
<1>4. [calling[c] EXCEPT !.turns = Append(@, kind)] \in OnCall
  BY <1>2, <1>3 DEF OnCall
<1>5. calling' \in [Callers -> OnCall]
  BY <1>1, <1>4
<1>6. live' \in [by : [Kinds -> Nat], samples : Seq(Int)]
  BY Observed DEF MeasuresType, TakeTurn
<1>7. QED
  BY <1>5, <1>6 DEF MeasuresType, TakeTurn

(* What the collector gives. *)
LEMMA Collects ==
    ASSUME NEW c \in [total : Nat, failed : Nat, samples : Seq(Int)], NEW ts \in Seq(TurnsRead)
    PROVE  /\ Collect(c, ts) \in [total : Nat, failed : Nat, samples : Seq(Int)]
           /\ Collect(c, ts).total = c.total + One(ts, TurnsRead)
           /\ Collect(c, ts).failed = c.failed + One(ts, FailedTurns)
           /\ Len(Collect(c, ts).samples) = Len(c.samples) + One(ts, Heard)
           /\ \A v \in Int : AtMost(Collect(c, ts).samples, v)
                             = AtMost(c.samples, v) + One(ts, HeardTo(v))
<1>1. PICK n \in Nat, m \in Nat, s \in Seq(Int) : c = [total |-> n, failed |-> m, samples |-> s]
  OBVIOUS
<1>2. Collect(c, ts) = [total |-> n + Len(ts),
        failed |-> m + Cardinality({k \in DOMAIN ts : ts[k].failed}),
        samples |-> s \o SortedDs(WaitsHeard(ts))]
  BY <1>1 DEF Collect, WaitsHeard
<1>3. PICK a \in Nat, b \in Nat : /\ a = One(ts, TurnsRead) /\ a = Len(ts)
                                  /\ b = One(ts, FailedTurns)
                                  /\ b = Cardinality({k \in DOMAIN ts : ts[k].failed})
  BY HeardOfCall, OneIsNumber
<1>4. PICK r \in Seq(Int) : /\ r = SortedDs(WaitsHeard(ts)) /\ Len(r) = One(ts, Heard)
                            /\ \A v \in Int : AtMost(r, v) = One(ts, HeardTo(v))
  <2>1. IsSample(WaitsHeard(ts))
    BY HeardOfCall
  <2>2. /\ SortedDs(WaitsHeard(ts)) \in Seq(Int) /\ Len(SortedDs(WaitsHeard(ts))) = One(ts, Heard)
    BY <2>1, HeardOfCall, SortedType
  <2>3. \A v \in Int : AtMost(SortedDs(WaitsHeard(ts)), v) = One(ts, HeardTo(v))
    BY <2>1, HeardOfCall, SortedCounts DEF SameSample
  <2>4. QED
    BY <2>2, <2>3
<1>5. /\ s \o r \in Seq(Int) /\ Len(s \o r) = Len(s) + Len(r)
      /\ \A v \in Int : AtMost(s \o r, v) = AtMost(s, v) + AtMost(r, v)
  BY MoreValues
<1>6. Collect(c, ts) = [total |-> n + a, failed |-> m + b, samples |-> s \o r]
  BY <1>2, <1>3, <1>4
<1>7. n + a \in Nat /\ m + b \in Nat
  OBVIOUS
<1>8. Collect(c, ts) \in [total : Nat, failed : Nat, samples : Seq(Int)]
  BY <1>5, <1>6, <1>7
<1>9. /\ Collect(c, ts).total = c.total + One(ts, TurnsRead)
      /\ Collect(c, ts).failed = c.failed + One(ts, FailedTurns)
  <2>1. /\ Collect(c, ts).total = n + a /\ Collect(c, ts).failed = m + b
        /\ c.total = n /\ c.failed = m
    BY <1>1, <1>6
  <2>2. QED
    BY <1>3, <2>1, Zenon
<1>10. /\ Len(Collect(c, ts).samples) = Len(c.samples) + One(ts, Heard)
       /\ \A v \in Int : AtMost(Collect(c, ts).samples, v)
                          = AtMost(c.samples, v) + One(ts, HeardTo(v))
  <2>1. Collect(c, ts).samples = s \o r /\ c.samples = s
    <3>1. PICK q : q = s \o r
      OBVIOUS
    <3>2. Collect(c, ts) = [total |-> n + a, failed |-> m + b, samples |-> q]
      BY <1>6, <3>1, Zenon
    <3>3. Collect(c, ts).samples = q /\ c.samples = s
      BY <1>1, <3>2
    <3>4. QED
      BY <3>1, <3>3, Zenon
  <2>2. Len(Collect(c, ts).samples) = Len(c.samples) + One(ts, Heard)
    BY <1>4, <1>5, <2>1, Zenon
  <2>3. ASSUME NEW v \in Int
        PROVE  AtMost(Collect(c, ts).samples, v) = AtMost(c.samples, v) + One(ts, HeardTo(v))
    <3>1. AtMost(s \o r, v) = AtMost(s, v) + AtMost(r, v)
      BY <1>5, Zenon
    <3>2. AtMost(r, v) = One(ts, HeardTo(v))
      BY <1>4, Zenon
    <3>3. QED
      BY <2>1, <3>1, <3>2, Zenon
  <2>4. QED
    BY <2>2, <2>3, Zenon
<1>11. QED
  BY <1>8, <1>9, <1>10

(* A call that ends.                                                       *)
LEMMA EndKeepsTypes ==
    ASSUME MeasuresType, NEW c \in Callers, EndCall(c)
    PROVE  MeasuresType'
<1>1. calling \in [Callers -> OnCall] /\ calling' = [calling EXCEPT ![c] = NoCall]
  BY DEF MeasuresType, EndCall
<1>2. calling[c] \in OnCall
  BY <1>1
<1>3. PICK b \in Nat, s \in Seq(TurnsRead) : calling[c] = [began |-> b, turns |-> s]
  BY <1>2 DEF OnCall
<1>4. NoCall \in OnCall
  BY OneOfNone DEF NoCall, OnCall
<1>5. calling' \in [Callers -> OnCall]
  BY <1>1, <1>4
<1>6. outcomes' \in Seq(Outcome)
  <2>1. [failed |-> s = <<>>, began |-> b, turns |-> s] \in Outcome
    BY DEF Outcome
  <2>2. outcomes' = Append(outcomes, [failed |-> s = <<>>, began |-> b, turns |-> s])
    BY <1>3 DEF EndCall
  <2>3. QED
    BY <2>1, <2>2, AppendProperties DEF MeasuresType
<1>7. collected' \in [total : Nat, failed : Nat, samples : Seq(Int)]
  BY <1>3, Collects DEF MeasuresType, EndCall
<1>8. QED
  BY <1>5, <1>6, <1>7 DEF MeasuresType, EndCall

(* The start.                                                              *)
LEMMA StartKeepsTypes ==
    MeasuresInit => MeasuresType
<1>1. SUFFICES ASSUME MeasuresInit
               PROVE  MeasuresType
  OBVIOUS
<1>2. PICK e \in Seq(TurnsRead) : e = <<>>
  BY OneOfNone, Zenon
<1>3. calling \in [Callers -> OnCall]
  <2>1. NoCall = [began |-> 0, turns |-> e]
    BY <1>2, Zenon DEF NoCall
  <2>2. NoCall \in OnCall
    BY <2>1 DEF OnCall
  <2>3. QED
    BY <1>1, <2>2 DEF MeasuresInit
<1>4. outcomes \in Seq(Outcome)
  BY <1>1, EmptySeq DEF MeasuresInit
<1>5. PICK s \in Seq(Int) : s = <<>>
  <2>1. <<>> \in Seq(Int)
    BY EmptySeq
  <2>2. QED
    BY <2>1, Zenon
<1>6. live \in [by : [Kinds -> Nat], samples : Seq(Int)]
  <2>1. PICK by : by = [o \in {"ok", "failed", "talked_over"} |-> 0]
    OBVIOUS
  <2>2. by \in [Kinds -> Nat]
    BY <2>1 DEF Kinds
  <2>3. live = [by |-> by, samples |-> s]
    BY <1>1, <1>5, <2>1, Zenon DEF MeasuresInit
  <2>4. QED
    BY <2>2, <2>3
<1>7. collected \in [total : Nat, failed : Nat, samples : Seq(Int)]
  <2>1. collected = [total |-> 0, failed |-> 0, samples |-> s]
    BY <1>1, <1>5, Zenon DEF MeasuresInit
  <2>2. QED
    BY <2>1
<1>8. QED
  BY <1>1, <1>3, <1>4, <1>6, <1>7 DEF MeasuresType, MeasuresInit

-----------------------------------------------------------------------------
(* The calls: one begins at a time, and a call that ended had begun.       *)

(* What CallsInv says, of any callers and outcomes. *)
CallsAre(at, b, os) ==
    /\ \A c \in Callers : at[c].began = 0 => at[c] = NoCall
    /\ \A c \in Callers : at[c].began <= b
    /\ \A c, d \in Callers : at[c].began # 0 /\ at[c].began = at[d].began => c = d
    /\ \A i \in DOMAIN os :
        /\ 1 <= os[i].began /\ os[i].began <= b
        /\ os[i].failed <=> os[i].turns = <<>>
        /\ \A c \in Callers : at[c].began # os[i].began
        /\ \A j \in DOMAIN os : os[i].began = os[j].began => i = j

(* It is CallsInv of the callers and outcomes, before a step and after.    *)
LEMMA CallsInvIsCallsAre ==
    /\ CallsInv <=> CallsAre(calling, began, outcomes)
    /\ CallsInv' <=> CallsAre(calling', began', outcomes')
BY DEF CallsInv, CallsAre, Idle

(* A call that begins is the only one that begins then. *)
LEMMA BeginKeepsCalls ==
    ASSUME MeasuresType, CallsInv, NEW c \in Callers, BeginCall(c)
    PROVE  CallsInv'
<1>1. PICK b \in Nat : b = began
  BY DEF MeasuresType
<1>2. /\ began' = b + 1 /\ outcomes' = outcomes
      /\ calling' = [calling EXCEPT ![c] = [NoCall EXCEPT !.began = b + 1]]
      /\ calling \in [Callers -> OnCall] /\ outcomes \in Seq(Outcome)
  BY <1>1 DEF BeginCall, MeasuresType
<1>3. /\ calling'[c].began = b + 1 /\ \A d \in Callers \ {c} : calling'[d] = calling[d]
  BY <1>2 DEF NoCall
<1>4. \A d \in Callers : calling[d].began \in Nat /\ calling[d].began <= b
  BY <1>1, <1>2 DEF CallsInv, OnCall
<1>5. \A i \in DOMAIN outcomes : outcomes[i].began \in Nat /\ outcomes[i].began <= b
  <2>1. \A i \in DOMAIN outcomes : outcomes[i] \in Outcome
    BY <1>2, CallsOfStep
  <2>2. QED
    BY <1>1, <2>1 DEF CallsInv, Outcome
<1>6. /\ \A d \in Callers : calling'[d].began = 0 => calling'[d] = NoCall
      /\ \A d \in Callers : calling'[d].began <= b + 1
      /\ \A d, e \in Callers : calling'[d].began # 0 /\ calling'[d].began = calling'[e].began => d = e
  <2>1. \A d \in Callers : calling'[d].began = 0 => calling'[d] = NoCall
    <3>1. SUFFICES ASSUME NEW d \in Callers, calling'[d].began = 0
                   PROVE  calling'[d] = NoCall
      OBVIOUS
    <3>2. d # c
      BY <1>3, <3>1
    <3>3. QED
      BY <1>3, <3>1, <3>2 DEF CallsInv, Idle
  <2>2. \A d \in Callers : calling'[d].began <= b + 1
    BY <1>3, <1>4
  <2>3. \A d, e \in Callers : calling'[d].began # 0 /\ calling'[d].began = calling'[e].began => d = e
    <3>1. SUFFICES ASSUME NEW d \in Callers, NEW e \in Callers, calling'[d].began # 0,
                          calling'[d].began = calling'[e].began
                   PROVE  d = e
      OBVIOUS
    <3>2. CASE d = c /\ e = c
      BY <3>2
    <3>3. CASE d = c /\ e # c
      BY <1>3, <1>4, <3>1, <3>3
    <3>4. CASE d # c /\ e = c
      BY <1>3, <1>4, <3>1, <3>4
    <3>5. CASE d # c /\ e # c
      BY <1>3, <3>1, <3>5 DEF CallsInv, Idle
    <3>6. QED
      BY <3>2, <3>3, <3>4, <3>5
  <2>4. QED
    BY <2>1, <2>2, <2>3
<1>7. ASSUME NEW i \in DOMAIN outcomes
      PROVE  /\ 1 <= outcomes[i].began /\ outcomes[i].began <= b + 1
             /\ outcomes[i].failed <=> outcomes[i].turns = <<>>
             /\ \A d \in Callers : calling'[d].began # outcomes[i].began
             /\ \A j \in DOMAIN outcomes : outcomes[i].began = outcomes[j].began => i = j
  <2>1. \A d \in Callers : calling'[d].began # outcomes[i].began
    BY <1>3, <1>5 DEF CallsInv
  <2>2. outcomes[i].began <= b + 1
    BY <1>5
  <2>3. QED
    BY <2>1, <2>2 DEF CallsInv
<1>8. CallsAre(calling', b + 1, outcomes)
  BY <1>6, <1>7 DEF CallsAre
<1>9. QED
  BY <1>2, <1>8, CallsInvIsCallsAre

(* A turn changes no call's beginning. *)
LEMMA TakeKeepsCalls ==
    ASSUME MeasuresType, CallsInv, NEW c \in Callers, NEW kind \in TurnsRead, TakeTurn(c, kind)
    PROVE  CallsInv'
<1>1. /\ began' = began /\ outcomes' = outcomes /\ ~(calling[c].began = 0)
      /\ calling' = [calling EXCEPT ![c].turns = Append(@, kind)]
      /\ calling \in [Callers -> OnCall]
  BY DEF TakeTurn, MeasuresType, Idle
<1>2. \A d \in Callers : calling'[d].began = calling[d].began
  BY <1>1 DEF OnCall
<1>3. \A d \in Callers : calling'[d].began = 0 => calling'[d] = NoCall
  <2>1. SUFFICES ASSUME NEW d \in Callers, calling'[d].began = 0
                 PROVE  calling'[d] = NoCall
    OBVIOUS
  <2>2. d # c /\ calling[d].began = 0
    BY <1>1, <1>2, <2>1
  <2>3. calling'[d] = calling[d]
    BY <1>1, <2>2
  <2>4. QED
    BY <2>2, <2>3 DEF CallsInv, Idle
<1>4. CallsAre(calling, began, outcomes)
  BY CallsInvIsCallsAre
<1>5. CallsAre(calling', began, outcomes)
  BY <1>2, <1>3, <1>4 DEF CallsAre
<1>6. QED
  BY <1>1, <1>5, CallsInvIsCallsAre

(* The call that ends had begun, alone, and fails when it has no turn. *)
LEMMA EndKeepsCalls ==
    ASSUME MeasuresType, CallsInv, NEW c \in Callers, EndCall(c)
    PROVE  CallsInv'
<1>1. /\ began' = began /\ ~(calling[c].began = 0)
      /\ calling' = [calling EXCEPT ![c] = NoCall] /\ calling \in [Callers -> OnCall]
      /\ outcomes \in Seq(Outcome) /\ began \in Nat
  BY DEF EndCall, MeasuresType, Idle
<1>2. PICK f \in BOOLEAN, b \in Nat, s \in Seq(TurnsRead) :
        /\ f = (s = <<>>) /\ b = calling[c].began /\ s = calling[c].turns
  BY <1>1 DEF OnCall
<1>3. PICK o \in Outcome : o = [failed |-> f, began |-> b, turns |-> s]
  BY DEF Outcome
<1>4. outcomes' = Append(outcomes, o)
  <2>1. outcomes' = Append(outcomes, [failed |-> calling[c].turns = <<>>,
                           began |-> calling[c].began, turns |-> calling[c].turns])
    BY DEF EndCall
  <2>2. QED
    BY <1>2, <1>3, <2>1, Zenon
<1>5. PICK n \in Nat : DOMAIN outcomes = 1..n /\ n = Len(outcomes)
  BY <1>1, LenProperties
<1>6. DOMAIN outcomes' = 1..(n + 1) /\ outcomes'[n + 1] = o
      /\ \A i \in 1..n : outcomes'[i] = outcomes[i]
  <2>1. Append(outcomes, o) \in Seq(Outcome) /\ Len(Append(outcomes, o)) = n + 1
    BY <1>1, <1>5, AppendProperties
  <2>2. DOMAIN Append(outcomes, o) = 1..(n + 1)
    BY <2>1, LenProperties
  <2>3. Append(outcomes, o)[n + 1] = o /\ \A i \in 1..n : Append(outcomes, o)[i] = outcomes[i]
    BY <1>1, <1>5, AppendProperties
  <2>4. QED
    BY <1>4, <2>2, <2>3
<1>7. o.began = b /\ (o.failed <=> o.turns = <<>>)
  BY <1>2, <1>3
<1>8. 1 <= b /\ b <= began /\ \A d \in Callers \ {c} : calling[d].began # b
  BY <1>1, <1>2 DEF CallsInv, Idle
<1>9. /\ calling'[c] = NoCall /\ calling'[c].began = 0
      /\ \A d \in Callers \ {c} : calling'[d] = calling[d]
  BY <1>1 DEF NoCall
<1>10. /\ \A d \in Callers : calling'[d].began = 0 => calling'[d] = NoCall
       /\ \A d \in Callers : calling'[d].began <= began
       /\ \A d, e \in Callers : calling'[d].began # 0 /\ calling'[d].began = calling'[e].began => d = e
  BY <1>1, <1>9 DEF CallsInv, Idle
<1>11. ASSUME NEW i \in 1..n
       PROVE  /\ 1 <= outcomes[i].began /\ outcomes[i].began <= began
              /\ outcomes[i].failed <=> outcomes[i].turns = <<>>
              /\ \A d \in Callers : calling'[d].began # outcomes[i].began
              /\ \A j \in 1..n : outcomes[i].began = outcomes[j].began => i = j
              /\ outcomes[i].began # b
  <2>1. /\ 1 <= outcomes[i].began /\ outcomes[i].began <= began
        /\ outcomes[i].failed <=> outcomes[i].turns = <<>>
        /\ \A d \in Callers : calling[d].began # outcomes[i].began
        /\ \A j \in 1..n : outcomes[i].began = outcomes[j].began => i = j
    BY <1>5 DEF CallsInv
  <2>2. outcomes[i].began # 0
    <3>1. outcomes[i] \in Outcome
      BY <1>1, <1>5, CallsOfStep
    <3>2. outcomes[i].began \in Nat
      BY <3>1 DEF Outcome
    <3>3. QED
      BY <2>1, <3>2
  <2>3. \A d \in Callers : calling'[d].began # outcomes[i].began
    BY <1>9, <2>1, <2>2
  <2>4. QED
    BY <1>2, <2>1, <2>3
<1>12. \A d \in Callers : calling'[d].began # b
  BY <1>8, <1>9
<1>13. ASSUME NEW i \in 1..(n + 1)
       PROVE  /\ 1 <= outcomes'[i].began /\ outcomes'[i].began <= began
              /\ outcomes'[i].failed <=> outcomes'[i].turns = <<>>
              /\ \A d \in Callers : calling'[d].began # outcomes'[i].began
              /\ \A j \in 1..(n + 1) : outcomes'[i].began = outcomes'[j].began => i = j
  <2>1. \A j \in 1..(n + 1) : j \in 1..n \/ j = n + 1
    OBVIOUS
  <2>2. CASE i \in 1..n
    BY <1>6, <1>7, <1>11, <2>1, <2>2
  <2>3. CASE i = n + 1
    <3>1. \A j \in 1..n : outcomes'[j].began # b
      BY <1>6, <1>11
    <3>2. outcomes'[i] = o
      BY <1>6, <2>3
    <3>3. QED
      BY <1>7, <1>8, <1>12, <2>1, <2>3, <3>1, <3>2
  <2>4. QED
    BY <2>1, <2>2, <2>3
<1>14. CallsAre(calling', began, outcomes')
  BY <1>6, <1>10, <1>13 DEF CallsAre
<1>15. QED
  BY <1>1, <1>14, CallsInvIsCallsAre

-----------------------------------------------------------------------------
(* The live metrics and the collector keep count.                          *)

(* An empty sample has no values. *)
LEMMA NothingMeasured ==
    Len(<<>>) = 0 /\ \A v \in Int : AtMost(<<>>, v) = 0
<1>1. \A v \in Int : {x \in DOMAIN <<>> : <<>>[x] <= v} = {}
  OBVIOUS
<1>2. QED
  BY <1>1, FS_EmptySet, EmptySeq DEF AtMost

(* At the start nothing has been counted. *)
LEMMA StartsUncounted ==
    MeasuresInit => LiveInv /\ CollectedInv
<1>1. SUFFICES ASSUME MeasuresInit
               PROVE  LiveInv /\ CollectedInv
  OBVIOUS
<1>2. \A G : Measured(G) = 0 /\ CountIn(Ended, G) = 0
  BY <1>1, StartCounts
<1>3. /\ live.by["failed"] = 0 /\ live.by["talked_over"] = 0 /\ live.by["ok"] = 0
      /\ live.samples = <<>>
  BY <1>1 DEF MeasuresInit
<1>4. collected.total = 0 /\ collected.failed = 0 /\ collected.samples = <<>>
  BY <1>1 DEF MeasuresInit
<1>5. LiveInv
  BY <1>2, <1>3, NothingMeasured, Zenon DEF LiveInv
<1>6. CollectedInv
  BY <1>2, <1>4, NothingMeasured, Zenon DEF CollectedInv
<1>7. QED
  BY <1>5, <1>6

(* A call that begins has no turn to count. *)
LEMMA BeginKeepsCounts ==
    ASSUME MeasuresType, CallsInv, LiveInv, CollectedInv, NEW c \in Callers, BeginCall(c)
    PROVE  LiveInv' /\ CollectedInv'
<1>1. \A G : Measured(G)' = Measured(G) /\ CountIn(Ended, G)' = CountIn(Ended, G)
  BY BeginCounts
<1>2. live' = live /\ collected' = collected
  BY DEF BeginCall
<1>3. LiveInv /\ CollectedInv
  OBVIOUS
<1>4. LiveInv'
  BY <1>1, <1>2, <1>3, Zenon DEF LiveInv
<1>5. CollectedInv'
  BY <1>1, <1>2, <1>3, Zenon DEF CollectedInv
<1>6. QED
  BY <1>4, <1>5

(* The live metrics count the turn that is taken, once. *)
LEMMA TakeKeepsCounts ==
    ASSUME MeasuresType, LiveInv, CollectedInv, MeasuresType',
           NEW c \in Callers, NEW kind \in TurnsRead, TakeTurn(c, kind)
    PROVE  LiveInv' /\ CollectedInv'
<1>1. \A G : /\ Measured(G) \in Nat
             /\ Measured(G)' = Measured(G) + (IF kind \in G THEN 1 ELSE 0)
             /\ CountIn(Ended, G)' = CountIn(Ended, G)
  BY TakeCounts
<1>2. live' = ObserveTurn(live, kind) /\ collected' = collected
      /\ live \in [by : [Kinds -> Nat], samples : Seq(Int)]
  BY DEF TakeTurn, MeasuresType
<1>3. LiveInv /\ CollectedInv
  OBVIOUS
<1>4. /\ kind \in FailedTurns <=> kind.failed
      /\ kind \in TalkedOver <=> ~kind.failed /\ kind.yielded
      /\ kind \in FineTurns <=> ~kind.failed /\ ~kind.yielded
      /\ kind \in Timed <=> ~(kind.yielded \/ kind.ttfa <= 0)
      /\ \A v : kind \in TimedTo(v) <=> kind \in Timed /\ kind.ttfa <= v
  <2>1. kind.ttfa \in Int
    BY TurnFacts
  <2>2. QED
    BY <2>1 DEF FailedTurns, TalkedOver, FineTurns, Timed, TimedTo
<1>5. \A o \in Kinds : live'.by[o] = live.by[o] +
        (IF o = (IF kind.failed THEN "failed" ELSE IF kind.yielded THEN "talked_over" ELSE "ok")
         THEN 1 ELSE 0)
  BY <1>2, Observed
<1>6. /\ live'.by["failed"] = Measured(FailedTurns)'
      /\ live'.by["talked_over"] = Measured(TalkedOver)'
      /\ live'.by["ok"] = Measured(FineTurns)'
  <2>1. {"failed", "talked_over", "ok"} \subseteq Kinds
    BY DEF Kinds
  <2>2. live'.by["failed"] = live.by["failed"] + (IF kind \in FailedTurns THEN 1 ELSE 0)
    BY <1>4, <1>5, <2>1
  <2>3. live'.by["talked_over"] = live.by["talked_over"] + (IF kind \in TalkedOver THEN 1 ELSE 0)
    BY <1>4, <1>5, <2>1
  <2>4. live'.by["ok"] = live.by["ok"] + (IF kind \in FineTurns THEN 1 ELSE 0)
    BY <1>4, <1>5, <2>1
  <2>5. /\ live.by["failed"] = Measured(FailedTurns) /\ live.by["talked_over"] = Measured(TalkedOver)
        /\ live.by["ok"] = Measured(FineTurns)
    BY <1>3 DEF LiveInv
  <2>6. QED
    BY <1>1, <2>2, <2>3, <2>4, <2>5, Zenon
<1>7. PICK s \in Seq(Int), w \in Int : s = live.samples /\ w = kind.ttfa
  BY <1>2, TurnFacts
<1>8. live'.samples = IF kind \in Timed THEN SortedDs(Append(s, w)) ELSE s
  <2>1. live'.samples = IF kind.yielded \/ kind.ttfa <= 0 THEN s ELSE SortedDs(Append(s, w))
    BY <1>2, <1>7, Observed
  <2>2. QED
    BY <1>4, <2>1
<1>9. /\ Len(live'.samples) = Len(s) + (IF kind \in Timed THEN 1 ELSE 0)
      /\ \A v \in Int : AtMost(live'.samples, v)
                        = AtMost(s, v) + (IF kind \in TimedTo(v) THEN 1 ELSE 0)
  <2>1. PICK n \in Nat : n = Len(s)
    BY LenProperties
  <2>2. CASE kind \in Timed
    <3>1. /\ Append(s, w) \in Seq(Int) /\ IsSample(Append(s, w)) /\ Size(Append(s, w)) = n + 1
          /\ \A v \in Int : AtMost(Append(s, w), v) = AtMost(s, v) + (IF w <= v THEN 1 ELSE 0)
      BY <2>1, OneValueMore
    <3>2. Len(SortedDs(Append(s, w))) = n + 1
      BY <3>1, SortedType
    <3>3. \A v \in Int : AtMost(SortedDs(Append(s, w)), v) = AtMost(Append(s, w), v)
      BY <3>1, SortedCounts DEF SameSample
    <3>4. live'.samples = SortedDs(Append(s, w))
      BY <1>8, <2>2
    <3>5. \A v \in Int : kind \in TimedTo(v) <=> w <= v
      BY <1>4, <1>7, <2>2
    <3>6. Len(live'.samples) = Len(s) + (IF kind \in Timed THEN 1 ELSE 0)
      BY <2>1, <2>2, <3>2, <3>4, Zenon
    <3>7. \A v \in Int : AtMost(live'.samples, v)
                         = AtMost(s, v) + (IF kind \in TimedTo(v) THEN 1 ELSE 0)
      BY <3>1, <3>3, <3>4, <3>5, Zenon
    <3>8. QED
      BY <3>6, <3>7, Zenon
  <2>3. CASE kind \notin Timed
    <3>1. live'.samples = s /\ \A v : kind \notin TimedTo(v)
      BY <1>4, <1>8, <2>3
    <3>2. \A v \in Int : AtMost(s, v) \in Nat
      BY SequenceSample, SampleCounts
    <3>3. Len(live'.samples) = Len(s) + (IF kind \in Timed THEN 1 ELSE 0)
      <4>1. n = n + 0
        OBVIOUS
      <4>2. QED
        BY <2>1, <2>3, <3>1, <4>1, Zenon
    <3>4. ASSUME NEW v \in Int
          PROVE  AtMost(live'.samples, v) = AtMost(s, v) + (IF kind \in TimedTo(v) THEN 1 ELSE 0)
      <4>1. PICK m \in Nat : m = AtMost(s, v)
        BY <3>2
      <4>2. m = m + 0
        OBVIOUS
      <4>3. QED
        BY <3>1, <4>1, <4>2, Zenon
    <3>5. QED
      BY <3>3, <3>4, Zenon
  <2>4. QED
    BY <2>2, <2>3
<1>10. Len(live'.samples) = Measured(Timed)'
  <2>1. Len(s) = Measured(Timed)
    BY <1>3, <1>7 DEF LiveInv
  <2>2. QED
    BY <1>1, <1>9, <2>1, Zenon
<1>11. ASSUME NEW v \in Int
       PROVE  AtMost(live'.samples, v) = Measured(TimedTo(v))'
  <2>1. AtMost(s, v) = Measured(TimedTo(v))
    BY <1>3, <1>7 DEF LiveInv
  <2>2. QED
    BY <1>1, <1>9, <2>1, Zenon
<1>12. LiveInv'
  BY <1>6, <1>10, <1>11, Zenon DEF LiveInv
<1>13. CollectedInv'
  BY <1>1, <1>2, <1>3, Zenon DEF CollectedInv
<1>14. QED
  BY <1>12, <1>13

(* A call that ends takes its turns to those that ended, and the collector *)
(* counts them then. *)
LEMMA EndKeepsCounts ==
    ASSUME MeasuresType, LiveInv, CollectedInv, MeasuresType', NEW c \in Callers, EndCall(c)
    PROVE  LiveInv' /\ CollectedInv'
<1>1. PICK ts \in Seq(TurnsRead) : ts = calling[c].turns
  <2>1. calling[c].turns \in Seq(TurnsRead)
    BY EndCounts
  <2>2. QED
    BY <2>1
<1>2. \A G : /\ Measured(G)' = Measured(G)
             /\ CountIn(Ended, G) \in Nat /\ One(ts, G) \in Nat
             /\ CountIn(Ended, G)' = CountIn(Ended, G) + One(ts, G)
  BY <1>1, EndCounts
<1>3. live' = live /\ collected' = Collect(collected, ts)
      /\ collected \in [total : Nat, failed : Nat, samples : Seq(Int)]
  BY <1>1 DEF EndCall, MeasuresType
<1>4. LiveInv /\ CollectedInv
  OBVIOUS
<1>5. LiveInv'
  BY <1>2, <1>3, <1>4, Zenon DEF LiveInv
<1>6. /\ collected'.total = collected.total + One(ts, TurnsRead)
      /\ collected'.failed = collected.failed + One(ts, FailedTurns)
      /\ Len(collected'.samples) = Len(collected.samples) + One(ts, Heard)
      /\ \A v \in Int : AtMost(collected'.samples, v)
                        = AtMost(collected.samples, v) + One(ts, HeardTo(v))
  BY <1>3, Collects, Zenon
<1>7. /\ collected'.total = CountIn(Ended, TurnsRead)'
      /\ collected'.failed = CountIn(Ended, FailedTurns)'
      /\ Len(collected'.samples) = CountIn(Ended, Heard)'
  BY <1>2, <1>4, <1>6, Zenon DEF CollectedInv
<1>8. ASSUME NEW v \in Int
      PROVE  AtMost(collected'.samples, v) = CountIn(Ended, HeardTo(v))'
  <2>1. AtMost(collected.samples, v) = CountIn(Ended, HeardTo(v))
    BY <1>4 DEF CollectedInv
  <2>2. QED
    BY <1>2, <1>6, <2>1, Zenon
<1>9. CollectedInv'
  BY <1>7, <1>8, Zenon DEF CollectedInv
<1>10. QED
  BY <1>5, <1>9

-----------------------------------------------------------------------------
(* The dispatcher's outcomes.                                              *)

(* What came over the wire are turns. *)
LEMMA TurnsOfResult ==
    ASSUME NEW ts \in BoundedSeq(TurnKinds, MaxTurns)
    PROVE  AsWritten(ts) \in Seq(TurnsRead) /\ (ts = <<>> <=> AsWritten(ts) = <<>>)
<1>1. PICK n \in 0..MaxTurns : ts \in [1..n -> TurnKinds]
  BY DEF BoundedSeq, SeqOf
<1>2. n \in Nat
  BY MeasuresAssumption, <1>1
<1>3. AsWritten(ts) = [k \in 1..n |-> Written(ts[k])]
  BY <1>1 DEF AsWritten
<1>4. \A k \in 1..n : Written(ts[k]) \in TurnsRead
  BY <1>1 DEF TurnsRead
<1>5. AsWritten(ts) \in [1..n -> TurnsRead]
  BY <1>3, <1>4
<1>6. AsWritten(ts) \in Seq(TurnsRead) /\ Len(AsWritten(ts)) = n
  BY <1>2, <1>5, SeqDef, LenProperties
<1>7. ts \in Seq(TurnKinds) /\ Len(ts) = n
  BY <1>1, <1>2, SeqDef, LenProperties
<1>8. ts = <<>> <=> n = 0
  BY <1>7, EmptySeq
<1>9. AsWritten(ts) = <<>> <=> n = 0
  BY <1>6, EmptySeq
<1>10. QED
  BY <1>6, <1>8, <1>9

(* A result is taken once, and not after the step gave up.                 *)
LEMMA ResultKeepsFleet ==
    ASSUME MeasuresType, FleetInv, NEW seq \in 1..StepCalls,
           NEW ts \in BoundedSeq(TurnKinds, MaxTurns), TakeResult(seq, ts)
    PROVE  MeasuresType' /\ FleetInv'
<1>1. PICK w \in Seq(TurnsRead) : w = AsWritten(ts) /\ (ts = <<>> <=> w = <<>>)
  BY TurnsOfResult
<1>2. PICK f \in BOOLEAN : f <=> w = <<>>
  OBVIOUS
<1>3. seq \in Nat /\ seq # 0 /\ StepCalls \in Nat
  BY MeasuresAssumption
<1>4. PICK o \in Outcome : /\ o.failed = f /\ o.began = seq /\ o.turns = w
                           /\ o = [failed |-> f, began |-> seq, turns |-> w]
  BY <1>3 DEF Outcome
<1>5. PICK os \in Seq(Outcome), n \in Nat :
        /\ os = outcomes /\ n = Len(outcomes) /\ DOMAIN outcomes = 1..n /\ n < StepCalls
        /\ \A i \in 1..n : outcomes[i] \in Outcome
  BY LenProperties, ElementOfSeq DEF MeasuresType, TakeResult
<1>6. outcomes' = Append(os, o)
  <2>1. outcomes' = Append(outcomes, [failed |-> ts = <<>>, began |-> seq, turns |-> AsWritten(ts)])
    BY DEF TakeResult
  <2>2. f = (ts = <<>>)
    BY <1>1, <1>2
  <2>3. QED
    BY <1>1, <1>4, <1>5, <2>1, <2>2, Zenon
<1>7. /\ outcomes' \in Seq(Outcome) /\ Len(outcomes') = n + 1 /\ DOMAIN outcomes' = 1..(n + 1)
      /\ outcomes'[n + 1] = o /\ \A i \in 1..n : outcomes'[i] = outcomes[i]
  <2>1. Append(os, o) \in Seq(Outcome) /\ Len(Append(os, o)) = n + 1
    BY <1>5, AppendProperties
  <2>2. DOMAIN Append(os, o) = 1..(n + 1)
    BY <2>1, LenProperties
  <2>3. Append(os, o)[n + 1] = o /\ \A i \in 1..n : Append(os, o)[i] = os[i]
    BY <1>5, AppendProperties
  <2>4. QED
    BY <1>5, <1>6, <2>1, <2>2, <2>3
<1>8. /\ fleet' = fleet /\ calling' = calling /\ began' = began /\ missing' = missing
      /\ live' = live /\ collected' = collected
  BY DEF TakeResult
<1>9. MeasuresType'
  BY <1>7, <1>8 DEF MeasuresType
<1>10. missing = 0 /\ \A c \in Callers : calling[c] = NoCall
  BY <1>5 DEF FleetInv
<1>11. \A i \in 1..n : /\ outcomes[i].began # 0 /\ outcomes[i].began # seq
                       /\ outcomes[i].failed <=> outcomes[i].turns = <<>>
                       /\ \A j \in 1..n : outcomes[i].began = outcomes[j].began => i = j
  <2>1. \A i \in 1..n : ~(i > n - 0)
    OBVIOUS
  <2>2. \A i \in 1..n : outcomes[i].began # 0
    BY <1>5, <1>10, <2>1 DEF FleetInv
  <2>3. \A i \in 1..n : outcomes[i].began # seq
    BY <1>5 DEF TakeResult
  <2>4. \A i \in 1..n : /\ outcomes[i].failed <=> outcomes[i].turns = <<>>
                        /\ \A j \in 1..n : outcomes[i].began = outcomes[j].began => i = j
    BY <1>5, <2>2 DEF FleetInv
  <2>5. QED
    BY <2>2, <2>3, <2>4
<1>12. ASSUME NEW i \in 1..(n + 1)
       PROVE  /\ outcomes'[i].began # 0
              /\ outcomes'[i].failed <=> outcomes'[i].turns = <<>>
              /\ \A j \in 1..(n + 1) : outcomes'[i].began = outcomes'[j].began => i = j
  <2>1. \A j \in 1..(n + 1) : j \in 1..n \/ j = n + 1
    OBVIOUS
  <2>2. o.began # 0 /\ (o.failed <=> o.turns = <<>>)
    BY <1>2, <1>3, <1>4
  <2>3. CASE i \in 1..n
    BY <1>4, <1>7, <1>11, <2>1, <2>3
  <2>4. CASE i = n + 1
    <3>1. \A j \in 1..n : outcomes'[j].began # seq
      BY <1>7, <1>11
    <3>2. QED
      BY <1>4, <1>7, <2>1, <2>2, <2>4, <3>1
  <2>5. QED
    BY <2>1, <2>3, <2>4
<1>13. \A i \in 1..(n + 1) : ~(i > (n + 1) - 0)
  OBVIOUS
<1>14. FleetInv'
  <2>1. missing' = 0 /\ missing' \in 0..Len(outcomes')
    BY <1>7, <1>8, <1>10
  <2>2. QED
    BY <1>7, <1>8, <1>10, <1>12, <1>13, <2>1 DEF FleetInv
<1>15. QED
  BY <1>9, <1>14

(* The calls that nobody reported are put last, once. *)
LEMMA GiveUpKeepsFleet ==
    ASSUME MeasuresType, FleetInv, GiveUp
    PROVE  MeasuresType' /\ FleetInv'
<1>1. PICK os \in Seq(Outcome), n \in Nat :
        /\ os = outcomes /\ n = Len(outcomes) /\ DOMAIN outcomes = 1..n /\ n < StepCalls
        /\ \A i \in 1..n : outcomes[i] \in Outcome
  BY LenProperties, ElementOfSeq DEF MeasuresType, GiveUp
<1>2. PICK k \in Nat : k = StepCalls - n /\ missing' = k /\ n + k = StepCalls
  BY <1>1, MeasuresAssumption DEF GiveUp
<1>3. NotReported \in Outcome /\ NotReported.began = 0
      /\ NotReported.failed = TRUE /\ NotReported.turns = <<>>
  <2>1. PICK e \in Seq(TurnsRead) : e = <<>>
    BY OneOfNone, Zenon
  <2>2. NotReported = [failed |-> TRUE, began |-> 0, turns |-> e]
    BY <2>1, Zenon DEF NotReported
  <2>3. QED
    BY <2>1, <2>2 DEF Outcome
<1> DEFINE late == [i \in 1..k |-> NotReported]
<1>4. late \in Seq(Outcome) /\ Len(late) = k /\ \A i \in 1..k : late[i] = NotReported
  <2>1. late \in [1..k -> Outcome]
    BY <1>3
  <2>2. QED
    BY <2>1, SeqDef, LenProperties
<1>5. outcomes' = os \o late
  BY <1>1, <1>2 DEF GiveUp
<1> HIDE DEF late
<1>6. /\ outcomes' \in Seq(Outcome) /\ Len(outcomes') = n + k /\ DOMAIN outcomes' = 1..(n + k)
      /\ \A i \in 1..n : outcomes'[i] = outcomes[i]
      /\ \A i \in (n + 1)..(n + k) : outcomes'[i] = NotReported
  <2>1. os \o late \in Seq(Outcome) /\ Len(os \o late) = n + k
    BY <1>1, <1>4, ConcatProperties
  <2>2. DOMAIN (os \o late) = 1..(n + k)
    BY <2>1, LenProperties
  <2>3. \A i \in 1..(n + k) : (os \o late)[i] = IF i <= n THEN os[i] ELSE late[i - n]
    BY <1>1, <1>4, ConcatProperties
  <2>4. \A i \in 1..n : i \in 1..(n + k) /\ i <= n
    OBVIOUS
  <2>5. \A i \in (n + 1)..(n + k) : i \in 1..(n + k) /\ ~(i <= n) /\ i - n \in 1..k
    OBVIOUS
  <2>6. QED
    BY <1>1, <1>4, <1>5, <2>1, <2>2, <2>3, <2>4, <2>5
<1>7. /\ fleet' = fleet /\ calling' = calling /\ began' = began
      /\ live' = live /\ collected' = collected
  BY DEF GiveUp
<1>8. MeasuresType'
  BY <1>2, <1>6, <1>7 DEF MeasuresType
<1>9. missing = 0 /\ \A c \in Callers : calling[c] = NoCall
  BY <1>1 DEF FleetInv
<1>10. \A i \in 1..n : /\ outcomes[i].began # 0
                       /\ outcomes[i].failed <=> outcomes[i].turns = <<>>
                       /\ \A j \in 1..n : outcomes[i].began = outcomes[j].began => i = j
  BY <1>1, <1>9 DEF FleetInv
<1>11. ASSUME NEW i \in 1..(n + k)
       PROVE  /\ outcomes'[i].began = 0 <=> i > n
              /\ outcomes'[i].failed <=> outcomes'[i].turns = <<>>
              /\ outcomes'[i].turns # <<>> => outcomes'[i].began # 0
              /\ \A j \in 1..(n + k) :
                    outcomes'[i].began # 0 /\ outcomes'[i].began = outcomes'[j].began => i = j
  <2>1. \A j \in 1..(n + k) : (j \in 1..n /\ ~(j > n)) \/ (j \in (n + 1)..(n + k) /\ j > n)
    OBVIOUS
  <2>2. CASE i \in 1..n
    BY <1>3, <1>6, <1>10, <2>1, <2>2
  <2>3. CASE i \in (n + 1)..(n + k)
    BY <1>3, <1>6, <2>1, <2>3
  <2>4. QED
    BY <2>1, <2>2, <2>3
<1>12. (n + k) - k = n /\ k \in 0..(n + k) /\ ~(n + k < StepCalls)
  <2>1. (n + k) - k = n /\ k \in 0..(n + k) /\ ~(n + k < n + k)
    OBVIOUS
  <2>2. QED
    BY <1>2, <2>1, Zenon
<1>13. FleetInv'
  BY <1>2, <1>6, <1>7, <1>9, <1>11, <1>12 DEF FleetInv
<1>14. QED
  BY <1>8, <1>13

(* The readers of a step never lose count.  When this process places the   *)
(* calls, the live metrics have at every moment counted each turn taken,   *)
(* by outcome and by every bound on its wait, and the collector each turn  *)
(* of the calls that ended; no two calls began at once, and only a call    *)
(* that had no turn failed.  When the fleet does, no call is answered      *)
(* twice, and the calls without a time are those the step missed           *)
(* (telemetry.ObserveTurn, the collector's aggregator, runStep,            *)
(* dispatchStep).                                                          *)
THEOREM ReadersKeepCount ==
    MeasuresSpec => []MeasuresInv
<1>1. MeasuresInit => MeasuresInv
  <2>1. SUFFICES ASSUME MeasuresInit
                 PROVE  MeasuresInv
    OBVIOUS
  <2>2. MeasuresType /\ LiveInv /\ CollectedInv
    BY <2>1, StartKeepsTypes, StartsUncounted
  <2>3. CallsInv
    BY <2>1 DEF MeasuresInit, CallsInv, Idle, NoCall
  <2>4. missing = 0
    BY <2>1 DEF MeasuresInit
  <2>5. FleetInv
    <3>1. outcomes = <<>> /\ Len(outcomes) = 0 /\ DOMAIN outcomes = {}
      BY <2>1 DEF MeasuresInit
    <3>2. \A c \in Callers : calling[c] = NoCall
      BY <2>1 DEF MeasuresInit
    <3>3. QED
      BY <2>4, <3>1, <3>2 DEF FleetInv
  <2>6. QED
    BY <2>2, <2>3, <2>4, <2>5 DEF MeasuresInv
<1>2. MeasuresInv /\ [MeasuresNext]_measureVars => MeasuresInv'
  <2>1. SUFFICES ASSUME MeasuresInv, [MeasuresNext]_measureVars
                 PROVE  MeasuresInv'
    OBVIOUS
  <2>2. ASSUME NEW c \in Callers, ~fleet \/ BeginCall(c) \/ ~Idle(c)
        PROVE  ~fleet /\ missing = 0 /\ MeasuresType /\ CallsInv /\ LiveInv /\ CollectedInv
    <3>1. fleet => Idle(c)
      BY <2>1 DEF MeasuresInv, FleetInv, NoCall, Idle
    <3>2. ~fleet
      BY <2>2, <3>1 DEF BeginCall
    <3>3. QED
      BY <2>1, <3>2 DEF MeasuresInv
  <2>3. ASSUME NEW c \in Callers, BeginCall(c)
        PROVE  MeasuresInv'
    <3>1. MeasuresType'
      BY <2>2, <2>3, BeginKeepsTypes
    <3>2. CallsInv'
      BY <2>2, <2>3, BeginKeepsCalls
    <3>3. LiveInv' /\ CollectedInv'
      BY <2>2, <2>3, BeginKeepsCounts
    <3>4. ~fleet' /\ missing' = 0
      BY <2>2, <2>3 DEF BeginCall
    <3>5. QED
      BY <3>1, <3>2, <3>3, <3>4 DEF MeasuresInv
  <2>4. ASSUME NEW c \in Callers, NEW kind \in TurnKinds, TakeTurn(c, kind)
        PROVE  MeasuresInv'
    <3>1. /\ ~fleet /\ missing = 0 /\ MeasuresType /\ CallsInv /\ LiveInv /\ CollectedInv
          /\ kind \in TurnsRead
      BY <2>2, <2>4 DEF TakeTurn, TurnsRead
    <3>2. MeasuresType'
      BY <2>4, <3>1, TakeKeepsTypes
    <3>3. CallsInv'
      BY <2>4, <3>1, TakeKeepsCalls
    <3>4. LiveInv' /\ CollectedInv'
      BY <2>4, <3>1, <3>2, TakeKeepsCounts
    <3>5. ~fleet' /\ missing' = 0
      BY <2>4, <3>1 DEF TakeTurn
    <3>6. QED
      BY <3>2, <3>3, <3>4, <3>5 DEF MeasuresInv
  <2>5. ASSUME NEW c \in Callers, EndCall(c)
        PROVE  MeasuresInv'
    <3>1. ~fleet /\ missing = 0 /\ MeasuresType /\ CallsInv /\ LiveInv /\ CollectedInv
      BY <2>2, <2>5 DEF EndCall
    <3>2. MeasuresType'
      BY <2>5, <3>1, EndKeepsTypes
    <3>3. CallsInv'
      BY <2>5, <3>1, EndKeepsCalls
    <3>4. LiveInv' /\ CollectedInv'
      BY <2>5, <3>1, <3>2, EndKeepsCounts
    <3>5. ~fleet' /\ missing' = 0
      BY <2>5, <3>1 DEF EndCall
    <3>6. QED
      BY <3>2, <3>3, <3>4, <3>5 DEF MeasuresInv
  <2>6. ASSUME NEW seq \in 1..StepCalls, NEW ts \in BoundedSeq(TurnKinds, MaxTurns),
               TakeResult(seq, ts)
        PROVE  MeasuresInv'
    <3>1. MeasuresType /\ FleetInv /\ fleet'
      BY <2>1, <2>6 DEF MeasuresInv, TakeResult
    <3>2. QED
      BY <2>6, <3>1, ResultKeepsFleet DEF MeasuresInv
  <2>7. ASSUME GiveUp
        PROVE  MeasuresInv'
    <3>1. MeasuresType /\ FleetInv /\ fleet'
      BY <2>1, <2>7 DEF MeasuresInv, GiveUp
    <3>2. QED
      BY <2>7, <3>1, GiveUpKeepsFleet DEF MeasuresInv
  <2>8. CASE UNCHANGED measureVars
    BY <2>1, <2>8 DEF measureVars, MeasuresInv, MeasuresType, CallsInv, LiveInv, CollectedInv,
                      FleetInv, Idle, Measured, Ended, Going
  <2>9. QED
    BY <2>1, <2>3, <2>4, <2>5, <2>6, <2>7, <2>8 DEF MeasuresNext
<1>3. QED
  BY <1>1, <1>2, PTL DEF MeasuresSpec

(* In every state of a step, a percentile of the waits measured so far is  *)
(* the smallest value that at least p hundredths of them do not exceed,    *)
(* and the summary's figures rise (metrics.Percentile, Summarize).         *)
THEOREM RanksHold ==
    MeasuresSpec => []PercentileIsNearestRank
<1>1. MeasuresInv => PercentileIsNearestRank
  <2>1. SUFFICES ASSUME live \in [by : [Kinds -> Nat], samples : Seq(Int)]
                 PROVE  PercentileIsNearestRank
    BY DEF MeasuresInv, MeasuresType
  <2>2. live.samples \in Seq(Int)
    BY <2>1
  <2>3. QED
    BY <2>2, NearestRankOfSamples
<1>2. QED
  BY <1>1, ReadersKeepCount, PTL

-----------------------------------------------------------------------------
(* The total of a table that splits a set is the size of the set.          *)

AnyOf(s) == CHOOSE x \in s : TRUE

(* What the fold of Total unrolls to. *)
Unrolls(f, g) ==
    g = [s \in SUBSET (DOMAIN f) |-> IF s = {} THEN 0 ELSE f[AnyOf(s)] + g[s \ {AnyOf(s)}]]

(* What holds of the empty set, and of a set once it holds of the set      *)
(* without one element, holds of every subset of a finite set.             *)
LEMMA SubsetInduction ==
    ASSUME NEW D, IsFiniteSet(D), NEW G, {} \in G,
           \A s \in SUBSET D : s # {} /\ s \ {AnyOf(s)} \in G => s \in G
    PROVE  D \in G
<1> DEFINE Out == (SUBSET D) \ G
           Sizes == {Cardinality(s) : s \in Out}
<1>1. \A s \in SUBSET D : IsFiniteSet(s) /\ Cardinality(s) \in Nat
  BY FS_Subset, FS_CardinalityType
<1>2. SUFFICES ASSUME D \in Out
               PROVE  FALSE
  OBVIOUS
<1>3. Sizes \in SUBSET Nat /\ Sizes # {}
  BY <1>1, <1>2
<1> HIDE DEF Sizes
<1>4. PICK m \in Sizes : \A n \in Sizes : m <= n
  BY <1>3, LeastNat
<1>5. PICK s \in Out : m = Cardinality(s)
  BY <1>4 DEF Sizes
<1>6. AnyOf(s) \in s /\ s \ {AnyOf(s)} \in Out
  <2>1. s # {}
    BY <1>5
  <2>2. AnyOf(s) \in s
    BY <2>1 DEF AnyOf
  <2>3. QED
    BY <1>5, <2>1, <2>2
<1>7. Cardinality(s \ {AnyOf(s)}) = Cardinality(s) - 1
  BY <1>1, <1>5, <1>6, FS_RemoveElement
<1>8. Cardinality(s \ {AnyOf(s)}) \in Sizes
  BY <1>6 DEF Sizes
<1>9. m \in Nat /\ m <= m - 1
  BY <1>3, <1>4, <1>5, <1>7, <1>8
<1>10. QED
  BY <1>9

(* When f counts the elements of S that h sends to each key, its total     *)
(* counts each element of S once. *)
LEMMA TotalOfParts ==
    ASSUME NEW S, IsFiniteSet(S), NEW f, IsFiniteSet(DOMAIN f), NEW h \in [S -> DOMAIN f],
           \A d \in DOMAIN f : f[d] = Cardinality({x \in S : h[x] = d})
    PROVE  Total(f) = Cardinality(S)
<1> DEFINE D == DOMAIN f
           Into(s) == {x \in S : h[x] \in s}
           sum == [s \in SUBSET D |-> Cardinality(Into(s))]
<1>1. \A s : IsFiniteSet(Into(s)) /\ Cardinality(Into(s)) \in Nat
  BY FS_Subset, FS_CardinalityType
<1>2. ASSUME NEW s \in SUBSET D, s # {}
      PROVE  Cardinality(Into(s)) = f[AnyOf(s)] + Cardinality(Into(s \ {AnyOf(s)}))
  <2>1. AnyOf(s) \in s
    BY <1>2 DEF AnyOf
  <2>2. PICK d \in s : d = AnyOf(s)
    BY <2>1
  <2>3. /\ Into(s) = {x \in S : h[x] = d} \cup Into(s \ {d})
        /\ {x \in S : h[x] = d} \cap Into(s \ {d}) = {}
    OBVIOUS
  <2>4. f[d] = Cardinality({x \in S : h[x] = d})
    OBVIOUS
  <2>5. IsFiniteSet(Into(s))
    BY <1>1
  <2> DEFINE One1 == {x \in S : h[x] = d}
  <2> HIDE DEF Into, One1
  <2>6. Into(s) = One1 \cup Into(s \ {d}) /\ One1 \cap Into(s \ {d}) = {}
    BY <2>3 DEF One1
  <2>7. Cardinality(Into(s)) = Cardinality(One1) + Cardinality(Into(s \ {d}))
    BY <2>5, <2>6, TwoParts
  <2>8. QED
    BY <2>2, <2>4, <2>7 DEF One1
<1>3. Unrolls(f, sum)
  <2>1. Cardinality(Into({})) = 0
    BY FS_EmptySet
  <2>2. \A s \in SUBSET D : s # {} => s \ {AnyOf(s)} \in SUBSET D
    OBVIOUS
  <2>3. ASSUME NEW s \in SUBSET D
        PROVE  sum[s] = IF s = {} THEN 0 ELSE f[AnyOf(s)] + sum[s \ {AnyOf(s)}]
    <3>1. CASE s = {}
      BY <2>1, <3>1
    <3>2. CASE s # {}
      <4>1. sum[s] = Cardinality(Into(s)) /\ sum[s \ {AnyOf(s)}] = Cardinality(Into(s \ {AnyOf(s)}))
        BY <2>2, <3>2
      <4> HIDE DEF sum, Into
      <4>2. QED
        BY <1>2, <3>2, <4>1
    <3>3. QED
      BY <3>1, <3>2
  <2>4. sum = [s \in SUBSET D |-> sum[s]]
    OBVIOUS
  <2> HIDE DEF sum
  <2>5. QED
    BY <2>3, <2>4 DEF Unrolls
<1>4. Total(f) = (CHOOSE g : Unrolls(f, g))[D]
  BY DEF Total, MapThenSumSet, MapThenFoldSet, Unrolls, AnyOf
<1>5. PICK g : g = (CHOOSE q : Unrolls(f, q))
  OBVIOUS
<1>6. Unrolls(f, g)
  <2> HIDE DEF sum
  <2>1. QED
    BY <1>3, <1>5, Zenon
<1> DEFINE Same == {s \in SUBSET D : g[s] = sum[s]}
<1>7. {} \in Same
  <2>1. g[{}] = 0
    BY <1>6 DEF Unrolls
  <2>2. sum[{}] = 0
    BY <1>3 DEF Unrolls
  <2>3. QED
    BY <2>1, <2>2
<1>8. \A s \in SUBSET D : s # {} /\ s \ {AnyOf(s)} \in Same => s \in Same
  <2> HIDE DEF sum
  <2>1. SUFFICES ASSUME NEW s \in SUBSET D, s # {}, s \ {AnyOf(s)} \in Same
                 PROVE  s \in Same
    OBVIOUS
  <2>2. g[s] = f[AnyOf(s)] + g[s \ {AnyOf(s)}]
    BY <1>6, <2>1 DEF Unrolls
  <2>3. sum[s] = f[AnyOf(s)] + sum[s \ {AnyOf(s)}]
    BY <1>3, <2>1 DEF Unrolls
  <2>4. QED
    BY <2>1, <2>2, <2>3
<1>9. D \in Same
  <2> HIDE DEF Same, sum
  <2>1. QED
    BY <1>7, <1>8, SubsetInduction
<1>10. sum[D] = Cardinality(S)
  <2>1. Into(D) = S
    OBVIOUS
  <2>2. QED
    BY <2>1
<1>11. QED
  <2> HIDE DEF sum
  <2>1. QED
    BY <1>4, <1>5, <1>9, <1>10

-----------------------------------------------------------------------------
(* The order in which calls began.                                         *)

(* A set of one size is that of its only element. *)
LEMMA OnlyOne ==
    ASSUME NEW S, NEW e \in S, \A x \in S : x = e
    PROVE  IsFiniteSet(S) /\ Cardinality(S) = 1
<1>1. S = {e}
  OBVIOUS
<1>2. QED
  BY <1>1, FS_Singleton

(* Calls none of which began at once are put in order, each at one place. *)
LEMMA EachInItsPlace ==
    ASSUME NEW os, NEW some, IsFiniteSet(some), \A i \in some : os[i].began \in Int,
           \A i, j \in some : os[i].began = os[j].began => i = j
    PROVE  /\ Cardinality(some) \in Nat /\ DOMAIN ByStart(os, some) = 1..Cardinality(some)
           /\ Size(ByStart(os, some)) = Cardinality(some)
           /\ \A rank \in 1..Cardinality(some) : ByStart(os, some)[rank] \in some
           /\ \A p, q \in 1..Cardinality(some) : ByStart(os, some)[p] = ByStart(os, some)[q] => p = q
           /\ \A i \in some : \E rank \in 1..Cardinality(some) : ByStart(os, some)[rank] = i
<1> DEFINE starts == [i \in some |-> os[i].began]
           times == SortedDs(starts)
           ord == ByStart(os, some)
<1>1. PICK n \in Nat : n = Cardinality(some)
  BY FS_CardinalityType
<1>2. IsSample(starts) /\ Size(starts) = n /\ DOMAIN starts = some
  BY <1>1 DEF IsSample, Size
<1>3. \A i \in some : starts[i] = os[i].began
  OBVIOUS
<1> HIDE DEF starts
<1>4. DOMAIN times = 1..n /\ \A rank \in 1..n : times[rank] \in Int /\ times[rank] \in Values(starts)
  <2>1. times \in [1..n -> Int] /\ \A rank \in 1..n : IsAtRank(starts, rank, times[rank])
    BY <1>2, SortedType
  <2>2. QED
    BY <2>1 DEF IsAtRank
<1>5. \A v \in Int : Cardinality({rank \in 1..n : times[rank] = v})
                     = Cardinality({i \in some : starts[i] = v})
  BY <1>2, SortedIsASort
<1>6. ord = [rank \in 1..n |-> CHOOSE i \in some : os[i].began = times[rank]]
  BY <1>4 DEF ByStart, starts
<1> HIDE DEF times, ord
<1>7. ASSUME NEW rank \in 1..n
      PROVE  ord[rank] \in some /\ os[ord[rank]].began = times[rank]
  <2>1. PICK i \in some : starts[i] = times[rank]
    BY <1>2, <1>4 DEF Values
  <2>2. os[i].began = times[rank]
    BY <1>3, <2>1
  <2>3. ord[rank] = CHOOSE j \in some : os[j].began = times[rank]
    BY <1>6
  <2>4. QED
    BY <2>2, <2>3
<1>8. ASSUME NEW i \in some
      PROVE  \E e \in 1..n : /\ times[e] = os[i].began
                             /\ \A rank \in 1..n : times[rank] = os[i].began => rank = e
  <2> DEFINE v == os[i].began
             R == {rank \in 1..n : times[rank] = v}
             I == {j \in some : starts[j] = v}
  <2>1. i \in I /\ \A x \in I : x = i
    BY <1>3
  <2>2. Cardinality(I) = 1
    <3> HIDE DEF I
    <3>1. QED
      BY <2>1, OnlyOne
  <2>3. Cardinality(R) = 1
    BY <1>5, <2>2
  <2>4. IsFiniteSet(R)
    <3>1. IsFiniteSet(1..n) /\ R \in SUBSET (1..n)
      BY FS_Interval
    <3> HIDE DEF R
    <3>2. QED
      BY <3>1, FS_Subset
  <2>5. PICK e : R = {e}
    <3> HIDE DEF R
    <3>1. QED
      BY <2>3, <2>4, FS_Singleton
  <2>6. e \in R /\ \A rank \in R : rank = e
    BY <2>5
  <2>7. QED
    BY <2>6
<1>9. \A p, q \in 1..n : ord[p] = ord[q] => p = q
  <2>1. SUFFICES ASSUME NEW p \in 1..n, NEW q \in 1..n, ord[p] = ord[q]
                 PROVE  p = q
    OBVIOUS
  <2>2. times[p] = os[ord[p]].began /\ times[q] = os[ord[p]].began /\ ord[p] \in some
    BY <1>7, <2>1
  <2>3. QED
    BY <1>8, <2>2
<1>10. ASSUME NEW i \in some
       PROVE  \E rank \in 1..n : ord[rank] = i
  <2>1. PICK e \in 1..n : times[e] = os[i].began
    BY <1>8
  <2>2. ord[e] \in some /\ os[ord[e]].began = os[i].began
    BY <1>7, <2>1
  <2>3. QED
    BY <2>2
<1>11. DOMAIN ord = 1..n /\ Size(ord) = n
  <2>1. DOMAIN ord = 1..n
    BY <1>6
  <2>2. Cardinality(1..n) = n
    BY FS_Interval
  <2>3. QED
    BY <2>1, <2>2 DEF Size
<1>12. QED
  BY <1>1, <1>7, <1>9, <1>10, <1>11 DEF ord

-----------------------------------------------------------------------------
(* The turns of a step whose calls have ended.                             *)

(* The calls that have a time; every call with a turn has. *)
Placed(os) == {i \in DOMAIN os : os[i].began # 0}
IsStep(os) ==
    /\ os \in Seq(Outcome)
    /\ \A i \in DOMAIN os : os[i].failed <=> os[i].turns = <<>>
    /\ \A i \in DOMAIN os : os[i].turns # <<>> => i \in Placed(os)
    /\ \A i, j \in Placed(os) : os[i].began = os[j].began => i = j

(* A call that failed has no turn: the turns of the calls that connected   *)
(* are all the turns. *)
LEMMA TurnsOfStep ==
    ASSUME NEW os, IsStep(os)
    PROVE  /\ IsCalls(TurnsByCall(os)) /\ IsFiniteSet(AllTurns(TurnsByCall(os)))
           /\ DOMAIN TurnsByCall(os) = Connected(os) /\ Connected(os) \in SUBSET (DOMAIN os)
           /\ IsFiniteSet(DOMAIN os)
           /\ \A i \in DOMAIN TurnsByCall(os) : TurnsByCall(os)[i] = os[i].turns
           /\ \A x \in AllTurns(TurnsByCall(os)) :
                /\ Turn(TurnsByCall(os), x) \in TurnsRead
                /\ x = <<x[1], x[2]>> /\ x[1] \in DOMAIN os /\ x[2] \in DOMAIN os[x[1]].turns
                /\ ~os[x[1]].failed /\ Turn(TurnsByCall(os), x) = os[x[1]].turns[x[2]]
           /\ \A G : CountIn(TurnsOf(os, DOMAIN os), G) = CountIn(TurnsByCall(os), G)
<1> DEFINE calls == TurnsByCall(os)
           all == TurnsOf(os, DOMAIN os)
<1>1. PICK n \in Nat : DOMAIN os = 1..n /\ \A i \in 1..n : os[i] \in Outcome /\ os[i].turns \in Seq(TurnsRead)
  <2>1. os \in Seq(Outcome)
    BY DEF IsStep
  <2>2. PICK n \in Nat : n = Len(os) /\ DOMAIN os = 1..n
    BY <2>1, LenProperties
  <2>3. \A i \in 1..n : os[i] \in Outcome
    BY <2>1, <2>2, ElementOfSeq
  <2>4. QED
    BY <2>2, <2>3 DEF Outcome
<1>2. IsFiniteSet(DOMAIN os) /\ Connected(os) \in SUBSET (DOMAIN os) /\ IsFiniteSet(Connected(os))
  <2>1. IsFiniteSet(1..n)
    BY FS_Interval
  <2>2. Connected(os) \in SUBSET (1..n)
    BY <1>1 DEF Connected
  <2>3. QED
    BY <1>1, <2>1, <2>2, FS_Subset
<1>3. /\ DOMAIN calls = Connected(os) /\ \A i \in Connected(os) : calls[i] = os[i].turns
      /\ DOMAIN all = DOMAIN os /\ \A i \in DOMAIN os : all[i] = os[i].turns
  BY DEF TurnsByCall, TurnsOf
<1> HIDE DEF calls, all
<1>4. IsCalls(calls)
  BY <1>1, <1>2, <1>3 DEF IsCalls
<1>5. ASSUME NEW x \in AllTurns(calls)
      PROVE  /\ x = <<x[1], x[2]>> /\ x[1] \in Connected(os) /\ x[2] \in DOMAIN os[x[1]].turns
             /\ Turn(calls, x) = os[x[1]].turns[x[2]] /\ Turn(calls, x) \in TurnsRead
             /\ x \in AllTurns(all) /\ Turn(all, x) = Turn(calls, x)
  <2>1. x = <<x[1], x[2]>> /\ x[1] \in Connected(os) /\ x[2] \in DOMAIN os[x[1]].turns
    BY <1>3, Places
  <2>2. os[x[1]].turns \in Seq(TurnsRead) /\ x[1] \in DOMAIN os
    BY <1>1, <1>2, <2>1
  <2>3. os[x[1]].turns[x[2]] \in TurnsRead
    BY <2>1, <2>2, LenProperties, ElementOfSeq
  <2>4. <<x[1], x[2]>> \in AllTurns(all)
    BY <1>3, <2>1, <2>2, Places
  <2>5. x \in AllTurns(all)
    BY <2>1, <2>4, Zenon
  <2>6. QED
    BY <1>3, <2>1, <2>2, <2>3, <2>5 DEF Turn
<1>6. ASSUME NEW x \in AllTurns(all)
      PROVE  x \in AllTurns(calls)
  <2>1. x = <<x[1], x[2]>> /\ x[1] \in DOMAIN os /\ x[2] \in DOMAIN os[x[1]].turns
    BY <1>3, Places
  <2>2. ~os[x[1]].failed
    <3>1. SUFFICES ASSUME os[x[1]].turns = <<>>
                   PROVE  FALSE
      BY <2>1 DEF IsStep
    <3>2. DOMAIN os[x[1]].turns = {}
      BY <3>1
    <3>3. QED
      BY <2>1, <3>2
  <2>3. x[1] \in DOMAIN calls /\ x[2] \in DOMAIN calls[x[1]]
    BY <1>3, <2>1, <2>2 DEF Connected
  <2>4. <<x[1], x[2]>> \in AllTurns(calls)
    BY <2>3, Places
  <2>5. QED
    BY <2>1, <2>4, Zenon
<1>7. \A G : PlacesIn(all, G) = PlacesIn(calls, G)
  BY <1>5, <1>6 DEF PlacesIn
<1>8. \A G : CountIn(all, G) = CountIn(calls, G)
  BY <1>7 DEF CountIn
<1>9. IsFiniteSet(AllTurns(calls))
  BY <1>4, PlacesFinite
<1>10. \A x \in AllTurns(calls) : ~os[x[1]].failed
  BY <1>5 DEF Connected
<1>11. QED
  BY <1>2, <1>3, <1>4, <1>5, <1>8, <1>9, <1>10 DEF calls, all

(* Some of the turns are no more than all of them, and those of two kinds  *)
(* that have nothing in common are as many as the two together. *)
LEMMA CountsOfKinds ==
    ASSUME NEW calls, IsCalls(calls), NEW G, NEW H
    PROVE  /\ CountIn(calls, G) \in Nat
           /\ G \subseteq H => CountIn(calls, G) <= CountIn(calls, H)
           /\ G \cap H = {} => CountIn(calls, G \cup H) = CountIn(calls, G) + CountIn(calls, H)
<1>1. \A K : IsFiniteSet(PlacesIn(calls, K)) /\ CountIn(calls, K) \in Nat
  BY CountsAreNumbers
<1>2. ASSUME G \subseteq H
      PROVE  CountIn(calls, G) <= CountIn(calls, H)
  <2>1. PlacesIn(calls, G) \in SUBSET PlacesIn(calls, H)
    BY <1>2 DEF PlacesIn
  <2>2. QED
    BY <1>1, <2>1, FS_Subset DEF CountIn
<1>3. ASSUME G \cap H = {}
      PROVE  CountIn(calls, G \cup H) = CountIn(calls, G) + CountIn(calls, H)
  <2>1. PICK A, B, C : A = PlacesIn(calls, G) /\ B = PlacesIn(calls, H) /\ C = PlacesIn(calls, G \cup H)
    OBVIOUS
  <2>2. C = A \cup B /\ A \cap B = {}
    BY <1>3, <2>1 DEF PlacesIn
  <2>3. IsFiniteSet(C)
    BY <1>1, <2>1
  <2>4. Cardinality(C) = Cardinality(A) + Cardinality(B)
    BY <2>2, <2>3, TwoParts
  <2>5. QED
    BY <2>1, <2>4 DEF CountIn
<1>4. QED
  BY <1>1, <1>2, <1>3

-----------------------------------------------------------------------------
(* What the readers of a finished step report, as counts of its turns.     *)

Yielded == {t \in TurnsRead : t.yielded}

(* A summary has the number of what it summarizes. *)
LEMMA SummaryNumber ==
    ASSUME NEW ds
    PROVE  Summarize(ds).n = Size(ds)
BY DEF Summarize

(* As many waits are taken as there are turns they are taken of. *)
LEMMA WaitsTaken ==
    ASSUME NEW calls, NEW places
    PROVE  /\ DOMAIN TtfasOf(calls, places) = places
           /\ Size(TtfasOf(calls, places)) = Cardinality(places)
           /\ Summarize(TtfasOf(calls, places)).n = Cardinality(places)
<1>1. DOMAIN TtfasOf(calls, places) = places
  BY DEF TtfasOf
<1>2. QED
  BY <1>1, SummaryNumber DEF Size

(* buildStepReport *)
LEMMA ReportOfStep ==
    ASSUME NEW os, IsStep(os)
    PROVE  /\ StepReport(os).attempted = Len(os)
           /\ StepReport(os).turns = CountIn(TurnsByCall(os), TurnsRead)
           /\ StepReport(os).failed = CountIn(TurnsByCall(os), FailedTurns)
           /\ StepReport(os).yielded = CountIn(TurnsByCall(os), Yielded)
           /\ StepReport(os).ttfa
              = Summarize(TtfasOf(TurnsByCall(os), PlacesIn(TurnsByCall(os), Timed)))
           /\ StepReport(os).ttfa.n = CountIn(TurnsByCall(os), Timed)
           /\ StepReport(os).agentTtfa.n <= StepReport(os).ttfa.n
           /\ StepReport(os).agentTtfa.n <= StepReport(os).rtt.n
<1> DEFINE calls == TurnsByCall(os)
           at(x) == Turn(calls, x)
           ts == ConnectedTurns(os)
           waited == {x \in ts : ~at(x).yielded}
           timed == {x \in waited : at(x).ttfa > 0}
           pinged == {x \in waited : at(x).rtt # Unmeasured}
           rtts == [x \in pinged |-> at(x).rtt]
           agents == [x \in timed \cap pinged |-> at(x).ttfa - at(x).rtt]
<1>1. ts = AllTurns(calls) /\ IsFiniteSet(ts) /\ \A x \in ts : at(x) \in TurnsRead
  BY TurnsOfStep DEF ConnectedTurns
<1>2. StepReport(os) =
        [attempted |-> Len(os), connected |-> Cardinality(Connected(os)),
         turns |-> Cardinality(ts),
         failed |-> Cardinality({x \in ts : at(x).failed}),
         yielded |-> Cardinality({x \in ts : at(x).yielded}),
         ttfa |-> Summarize(TtfasOf(calls, timed)), rtt |-> Summarize(rtts),
         agentTtfa |-> Summarize(agents)]
  BY Zenon DEF StepReport
<1> HIDE DEF calls, ts
<1>3. ts = PlacesIn(calls, TurnsRead)
  BY <1>1 DEF PlacesIn
<1>4. {x \in ts : at(x).failed} = PlacesIn(calls, FailedTurns)
  BY <1>1 DEF PlacesIn, FailedTurns
<1>5. {x \in ts : at(x).yielded} = PlacesIn(calls, Yielded)
  BY <1>1 DEF PlacesIn, Yielded
<1>6. timed = PlacesIn(calls, Timed)
  BY <1>1 DEF PlacesIn, Timed
<1>7. Cardinality(timed \cap pinged) <= Cardinality(timed)
      /\ Cardinality(timed \cap pinged) <= Cardinality(pinged)
  <2>1. IsFiniteSet(timed) /\ IsFiniteSet(pinged)
    <3>1. timed \in SUBSET ts /\ pinged \in SUBSET ts
      OBVIOUS
    <3> HIDE DEF timed, pinged
    <3>2. QED
      BY <1>1, <3>1, FS_Subset
  <2> HIDE DEF timed, pinged
  <2>2. timed \cap pinged \in SUBSET timed /\ timed \cap pinged \in SUBSET pinged
    OBVIOUS
  <2>3. QED
    BY <2>1, <2>2, FS_Subset
<1>8. Size(rtts) = Cardinality(pinged) /\ Size(agents) = Cardinality(timed \cap pinged)
  BY DEF Size
<1> HIDE DEF timed, pinged, rtts, agents
<1> DEFINE report == StepReport(os)
<1>9. /\ report.attempted = Len(os) /\ report.turns = Cardinality(ts)
      /\ report.failed = Cardinality({x \in ts : at(x).failed})
      /\ report.yielded = Cardinality({x \in ts : at(x).yielded})
      /\ report.ttfa = Summarize(TtfasOf(calls, timed))
      /\ report.rtt = Summarize(rtts) /\ report.agentTtfa = Summarize(agents)
  BY <1>2
<1> HIDE DEF report
<1>10. report.ttfa.n = Cardinality(timed) /\ report.rtt.n = Size(rtts) /\ report.agentTtfa.n = Size(agents)
  BY <1>9, WaitsTaken, SummaryNumber
<1>11. /\ report.attempted = Len(os) /\ report.turns = CountIn(calls, TurnsRead)
       /\ report.failed = CountIn(calls, FailedTurns) /\ report.yielded = CountIn(calls, Yielded)
       /\ report.ttfa = Summarize(TtfasOf(calls, PlacesIn(calls, Timed)))
       /\ report.ttfa.n = CountIn(calls, Timed)
  BY <1>3, <1>4, <1>5, <1>6, <1>9, <1>10 DEF CountIn
<1>12. report.agentTtfa.n <= report.ttfa.n /\ report.agentTtfa.n <= report.rtt.n
  BY <1>7, <1>8, <1>10
<1>13. QED
  BY <1>11, <1>12 DEF report, calls

(* analyzeCalls, of any turns. *)
WaitsOf(calls) == {x \in AllTurns(calls) : ~(Turn(calls, x).yielded \/ Turn(calls, x).ttfa <= 0)}
RepeatsOf(calls) == [i \in DOMAIN calls |-> RepeatedReplies(calls[i])]

(* Its bands and turns count the waits, and its repeats the calls.         *)
LEMMA Analyzed ==
    ASSUME NEW calls
    PROVE  /\ DOMAIN AnalyzeCalls(calls).bands = Bands
           /\ \A b \in Bands : AnalyzeCalls(calls).bands[b]
                = Cardinality({x \in WaitsOf(calls) : Band(Turn(calls, x).ttfa) = b})
           /\ DOMAIN AnalyzeCalls(calls).turns = {x[2] : x \in WaitsOf(calls)}
           /\ \A n \in DOMAIN AnalyzeCalls(calls).turns : AnalyzeCalls(calls).turns[n].n
                = Cardinality({x \in WaitsOf(calls) : x[2] = n})
           /\ AnalyzeCalls(calls).repeated = Total(RepeatsOf(calls))
           /\ AnalyzeCalls(calls).callsWith
              = Cardinality({i \in DOMAIN calls : RepeatsOf(calls)[i] > 0})
<1> DEFINE waits == WaitsOf(calls)
           repeats == RepeatsOf(calls)
           bands == [b \in Bands |-> Cardinality({x \in waits : Band(Turn(calls, x).ttfa) = b})]
           turns == [n \in {x[2] : x \in waits} |->
                        Summarize(TtfasOf(calls, {x \in waits : x[2] = n}))]
           tot == Total(repeats)
           with == Cardinality({i \in DOMAIN calls : repeats[i] > 0})
<1>1. AnalyzeCalls(calls) = [bands |-> bands, turns |-> turns, repeated |-> tot, callsWith |-> with]
  BY Zenon DEF AnalyzeCalls, WaitsOf, RepeatsOf
<1>2. /\ DOMAIN bands = Bands
      /\ \A b \in Bands : bands[b] = Cardinality({x \in waits : Band(Turn(calls, x).ttfa) = b})
  OBVIOUS
<1>3. /\ DOMAIN turns = {x[2] : x \in waits}
      /\ \A n \in DOMAIN turns : turns[n].n = Cardinality({x \in waits : x[2] = n})
  BY WaitsTaken
<1> HIDE DEF bands, turns, waits, repeats, tot, with
<1>4. /\ AnalyzeCalls(calls).bands = bands /\ AnalyzeCalls(calls).turns = turns
      /\ AnalyzeCalls(calls).repeated = tot /\ AnalyzeCalls(calls).callsWith = with
  BY <1>1
<1>5. QED
  BY <1>2, <1>3, <1>4, Zenon DEF waits, repeats, tot, with

(* The turns with a wait are those the summary takes. *)
LEMMA WaitsOfStep ==
    ASSUME NEW os, IsStep(os)
    PROVE  /\ WaitsOf(TurnsByCall(os)) = PlacesIn(TurnsByCall(os), Timed)
           /\ IsFiniteSet(WaitsOf(TurnsByCall(os)))
           /\ Cardinality(WaitsOf(TurnsByCall(os))) = CountIn(TurnsByCall(os), Timed)
<1>1. \A x \in AllTurns(TurnsByCall(os)) : /\ Turn(TurnsByCall(os), x) \in TurnsRead
                                           /\ Turn(TurnsByCall(os), x).ttfa \in Int
  BY TurnsOfStep, TurnFacts
<1>2. WaitsOf(TurnsByCall(os)) = PlacesIn(TurnsByCall(os), Timed)
  BY <1>1 DEF WaitsOf, PlacesIn, Timed
<1>3. IsCalls(TurnsByCall(os))
  BY TurnsOfStep
<1>4. IsFiniteSet(PlacesIn(TurnsByCall(os), Timed))
  BY <1>3, CountsAreNumbers
<1>5. QED
  BY <1>2, <1>4 DEF CountIn

(* There are four bands. *)
LEMMA BandsFinite ==
    IsFiniteSet(Bands)
<1>1. \A a, b : IsFiniteSet({a} \cup {b})
  BY FS_Singleton, FS_Union
<1>2. PICK A, B : A = {"quick"} \cup {"usual"} /\ B = {"slow"} \cup {"dead_air"}
  OBVIOUS
<1>3. IsFiniteSet(A) /\ IsFiniteSet(B)
  BY <1>1, <1>2
<1>4. Bands = A \cup B
  BY <1>2 DEF Bands
<1>5. IsFiniteSet(A \cup B)
  BY <1>3, FS_Union
<1>6. QED
  BY <1>4, <1>5

(* The bands and the turns one by one split the waits. *)
LEMMA WaitsSplit ==
    ASSUME NEW calls, IsFiniteSet(WaitsOf(calls))
    PROVE  /\ Total(AnalyzeCalls(calls).bands) = Cardinality(WaitsOf(calls))
           /\ Total([n \in DOMAIN AnalyzeCalls(calls).turns |-> AnalyzeCalls(calls).turns[n].n])
              = Cardinality(WaitsOf(calls))
<1> DEFINE W == WaitsOf(calls)
           bands == AnalyzeCalls(calls).bands
           turns == AnalyzeCalls(calls).turns
           ns == [n \in DOMAIN turns |-> turns[n].n]
           band(x) == Band(Turn(calls, x).ttfa)
           inBand == [x \in W |-> band(x)]
           inTurn == [x \in W |-> x[2]]
<1>1. /\ DOMAIN bands = Bands
      /\ \A b \in Bands : bands[b] = Cardinality({x \in W : band(x) = b})
      /\ DOMAIN turns = {x[2] : x \in W}
      /\ \A n \in DOMAIN turns : turns[n].n = Cardinality({x \in W : x[2] = n})
  BY Analyzed, Zenon
<1> HIDE DEF bands, turns
<1>2. inBand \in [W -> DOMAIN bands]
  <2>1. \A x \in W : band(x) \in Bands
    BY DEF Band, Bands
  <2> HIDE DEF band, W
  <2>2. QED
    BY <1>1, <2>1
<1>3. \A b \in DOMAIN bands : bands[b] = Cardinality({x \in W : inBand[x] = b})
  <2>1. SUFFICES ASSUME NEW b \in DOMAIN bands
                 PROVE  bands[b] = Cardinality({x \in W : inBand[x] = b})
    OBVIOUS
  <2>2. {x \in W : inBand[x] = b} = {x \in W : band(x) = b}
    OBVIOUS
  <2> HIDE DEF inBand, band, W
  <2>3. QED
    BY <1>1, <2>2
<1>4. IsFiniteSet(DOMAIN bands)
  BY <1>1, BandsFinite
<1>5. inTurn \in [W -> DOMAIN ns] /\ IsFiniteSet(DOMAIN ns)
  <2>1. inTurn \in Surjection(W, DOMAIN ns)
    BY <1>1 DEF Surjection
  <2>2. IsFiniteSet(W)
    OBVIOUS
  <2> HIDE DEF inTurn, ns, W
  <2>3. QED
    BY <2>1, <2>2, FS_Surjection DEF Surjection
<1>6. \A n \in DOMAIN ns : ns[n] = Cardinality({x \in W : inTurn[x] = n})
  <2>1. SUFFICES ASSUME NEW n \in DOMAIN turns
                 PROVE  turns[n].n = Cardinality({x \in W : inTurn[x] = n})
    OBVIOUS
  <2>2. {x \in W : inTurn[x] = n} = {x \in W : x[2] = n}
    OBVIOUS
  <2> HIDE DEF inTurn, W
  <2>3. QED
    BY <1>1, <2>2
<1>7. Total(bands) = Cardinality(W)
  <2>1. IsFiniteSet(W)
    OBVIOUS
  <2> HIDE DEF inBand, W
  <2>2. QED
    BY <1>2, <1>3, <1>4, <2>1, TotalOfParts
<1>8. Total(ns) = Cardinality(W)
  <2>1. IsFiniteSet(W)
    OBVIOUS
  <2> HIDE DEF inTurn, ns, W
  <2>2. QED
    BY <1>5, <1>6, <2>1, TotalOfParts
<1>9. QED
  BY <1>7, <1>8 DEF bands, turns

(* summarizeNodes counts a visit for every turn. *)
LEMMA VisitsAddUp ==
    ASSUME NEW os, IsStep(os)
    PROVE  Total([n \in DOMAIN NodeStats(os, <<>>) |-> NodeStats(os, <<>>)[n].visits])
           = CountIn(TurnsByCall(os), TurnsRead)
<1> DEFINE calls == TurnsByCall(os)
           T == AllTurns(calls)
           node(x) == Turn(calls, x).node
           seen == {node(x) : x \in T}
           nodes == NodeStats(os, <<>>)
           visits == [n \in DOMAIN nodes |-> nodes[n].visits]
           visit == [x \in T |-> node(x)]
<1>1. TurnsOf(os, {i \in DOMAIN os : ~os[i].failed}) = calls
  BY DEF TurnsByCall, Connected
<1>2. ToSet(<<>>) = {}
  BY DEF ToSet
<1>3. DOMAIN nodes = seen /\ \A n \in seen : nodes[n].visits = Cardinality({x \in T : node(x) = n})
  <2> DEFINE stat(n) == [visits |-> Cardinality({x \in T : node(x) = n}),
        checked |-> Cardinality({x \in T : node(x) = n /\ Turn(calls, x).check # "none"}),
        passed |-> Cardinality({x \in T : node(x) = n /\ Turn(calls, x).check = "met"})]
  <2>1. nodes = IF seen = {} THEN <<>> ELSE [n \in ToSet(<<>>) \cup seen |-> stat(n)]
    BY <1>1, Zenon DEF NodeStats
  <2>2. CASE seen = {}
    <3>1. nodes = <<>>
      BY <2>1, <2>2
    <3>2. DOMAIN nodes = {}
      BY <3>1
    <3>3. QED
      BY <2>2, <3>2
  <2>3. CASE seen # {}
    <3>1. nodes = [n \in seen |-> stat(n)]
      <4>1. ToSet(<<>>) \cup seen = seen
        BY <1>2
      <4> HIDE DEF seen, stat, nodes
      <4>2. QED
        BY <2>1, <2>3, <4>1
    <3>2. \A n : stat(n).visits = Cardinality({x \in T : node(x) = n})
      OBVIOUS
    <3> HIDE DEF seen, stat, nodes
    <3>3. DOMAIN nodes = seen /\ \A n \in seen : nodes[n].visits = stat(n).visits
      BY <3>1
    <3>4. QED
      BY <3>2, <3>3
  <2>4. QED
    BY <2>2, <2>3
<1>4. IsFiniteSet(T) /\ \A x \in T : Turn(calls, x) \in TurnsRead
  BY TurnsOfStep
<1>5. Cardinality(T) = CountIn(calls, TurnsRead)
  <2>1. T = PlacesIn(calls, TurnsRead)
    BY <1>4 DEF PlacesIn
  <2>2. QED
    BY <2>1 DEF CountIn
<1> HIDE DEF calls, nodes
<1>6. visit \in [T -> DOMAIN visits] /\ IsFiniteSet(DOMAIN visits)
  <2>1. visit \in Surjection(T, DOMAIN visits)
    BY <1>3 DEF Surjection
  <2> HIDE DEF visit, visits, T
  <2>2. QED
    BY <1>4, <2>1, FS_Surjection DEF Surjection
<1>7. \A n \in DOMAIN visits : visits[n] = Cardinality({x \in T : visit[x] = n})
  <2>1. SUFFICES ASSUME NEW n \in seen
                 PROVE  nodes[n].visits = Cardinality({x \in T : visit[x] = n})
    BY <1>3
  <2>2. {x \in T : visit[x] = n} = {x \in T : node(x) = n}
    OBVIOUS
  <2> HIDE DEF visit, T, seen, node
  <2>3. QED
    BY <1>3, <2>2
<1>8. Total(visits) = Cardinality(T)
  <2> HIDE DEF visit, visits, T
  <2>1. QED
    BY <1>4, <1>6, <1>7, TotalOfParts
<1>9. QED
  BY <1>5, <1>8 DEF calls, nodes

(* The turns with a wait of some of the calls. *)
LEMMA WaitsOfSome ==
    ASSUME NEW os, IsStep(os), NEW H \in SUBSET Connected(os)
    PROVE  /\ WaitsOf(TurnsOf(os, H)) = {x \in WaitsOf(TurnsByCall(os)) : x[1] \in H}
           /\ Size(PhaseTTFA(TurnsOf(os, H))) = Cardinality(WaitsOf(TurnsOf(os, H)))
<1> DEFINE calls == TurnsByCall(os)
           some == TurnsOf(os, H)
<1>1. /\ DOMAIN calls = Connected(os) /\ DOMAIN some = H
      /\ (\A i \in Connected(os) : calls[i] = os[i].turns) /\ \A i \in H : some[i] = os[i].turns
  BY DEF TurnsByCall, TurnsOf
<1> HIDE DEF calls, some
<1>2. ASSUME NEW x
      PROVE  x \in AllTurns(some) <=> x \in AllTurns(calls) /\ x[1] \in H
  <2>1. ASSUME x \in AllTurns(some)
        PROVE  x \in AllTurns(calls) /\ x[1] \in H
    <3>1. x = <<x[1], x[2]>> /\ x[1] \in H /\ x[2] \in DOMAIN some[x[1]]
      BY <1>1, <2>1, Places
    <3>2. x[1] \in DOMAIN calls /\ x[2] \in DOMAIN calls[x[1]]
      BY <1>1, <3>1
    <3>3. <<x[1], x[2]>> \in AllTurns(calls)
      BY <3>2, Places
    <3>4. QED
      BY <3>1, <3>3, Zenon
  <2>2. ASSUME x \in AllTurns(calls), x[1] \in H
        PROVE  x \in AllTurns(some)
    <3>1. x = <<x[1], x[2]>> /\ x[2] \in DOMAIN calls[x[1]]
      BY <2>2, Places
    <3>2. x[1] \in DOMAIN some /\ x[2] \in DOMAIN some[x[1]]
      BY <1>1, <2>2, <3>1
    <3>3. <<x[1], x[2]>> \in AllTurns(some)
      BY <3>2, Places
    <3>4. QED
      BY <3>1, <3>3, Zenon
  <2>3. QED
    BY <2>1, <2>2
<1>3. \A x \in AllTurns(some) : Turn(some, x) = Turn(calls, x)
  BY <1>1, <1>2 DEF Turn
<1>4. WaitsOf(some) = {x \in WaitsOf(calls) : x[1] \in H}
  BY <1>2, <1>3 DEF WaitsOf
<1>5. PhaseTTFA(some) = TtfasOf(some, WaitsOf(some))
  BY DEF PhaseTTFA, WaitsOf
<1>6. QED
  BY <1>4, <1>5, WaitsTaken DEF calls, some

(* The places of some of the calls of a step in the order they began. *)
LEMMA StepInOrder ==
    ASSUME NEW os, IsStep(os), NEW some \in SUBSET Placed(os)
    PROVE  \E n \in Nat :
             /\ n = Cardinality(some) /\ DOMAIN ByStart(os, some) = 1..n
             /\ Size(ByStart(os, some)) = n
             /\ \A rank \in 1..n : ByStart(os, some)[rank] \in some
             /\ \A p, q \in 1..n : ByStart(os, some)[p] = ByStart(os, some)[q] => p = q
             /\ \A i \in some : \E rank \in 1..n : ByStart(os, some)[rank] = i
<1>1. some \in SUBSET (DOMAIN os) /\ IsFiniteSet(some)
  <2>1. some \in SUBSET (DOMAIN os)
    BY DEF Placed
  <2>2. QED
    BY <2>1, TurnsOfStep, FS_Subset
<1>2. \A i \in some : os[i].began \in Int
  <2>1. os \in Seq(Outcome)
    BY DEF IsStep
  <2>2. \A i \in DOMAIN os : os[i] \in Outcome
    BY <2>1, LenProperties, ElementOfSeq
  <2>3. QED
    BY <1>1, <2>2 DEF Outcome
<1>3. \A i, j \in some : os[i].began = os[j].began => i = j
  BY DEF IsStep
<1>4. QED
  BY <1>1, <1>2, <1>3, EachInItsPlace

(* summarizePhase splits the turns with a wait in two. *)
LEMMA HalvesAddUp ==
    ASSUME NEW os, IsStep(os), Phase(os).split
    PROVE  CountIn(TurnsByCall(os), Timed) = Phase(os).first.n + Phase(os).second.n
<1> DEFINE some == {i \in DOMAIN os : ~(os[i].failed \/ os[i].turns = <<>> \/ os[i].began = 0)}
           ord == ByStart(os, some)
           mid == Size(ord) \div 2
           H(ranks) == {ord[rank] : rank \in ranks}
           half(ranks) == Summarize(PhaseTTFA(TurnsOf(os, H(ranks))))
           W == WaitsOf(TurnsByCall(os))
<1>1. some = Connected(os)
  BY DEF IsStep, Connected, Placed
<1>2. PICK n \in Nat : /\ DOMAIN ord = 1..n /\ Size(ord) = n
                       /\ \A rank \in 1..n : ord[rank] \in some
                       /\ \A p, q \in 1..n : ord[p] = ord[q] => p = q
                       /\ \A i \in some : \E rank \in 1..n : ord[rank] = i
  <2>1. some \in SUBSET Placed(os)
    BY DEF Placed
  <2> HIDE DEF some
  <2>2. QED
    BY <2>1, StepInOrder
<1>3. PICK m \in 0..n : m = mid
  <2>1. n \div 2 \in 0..n
    OBVIOUS
  <2>2. mid = n \div 2
    BY <1>2, Zenon
  <2> HIDE DEF mid
  <2>3. QED
    BY <2>1, <2>2
<1>4. Phase(os).first = half(1..m) /\ Phase(os).second = half((m + 1)..n)
  <2>1. PICK drift : Phase(os) =
          IF Size(ord) < 2
          THEN [split |-> FALSE, first |-> Summarize(<<>>), second |-> Summarize(<<>>),
                drift |-> "unknown"]
          ELSE [split |-> TRUE, first |-> half(1..mid), second |-> half((mid + 1)..Size(ord)),
                drift |-> drift]
    BY Zenon DEF Phase
  <2> HIDE DEF half, ord, mid
  <2>2. ~(Size(ord) < 2)
    <3>1. SUFFICES ASSUME Size(ord) < 2
                   PROVE  FALSE
      OBVIOUS
    <3>2. Phase(os).split = FALSE
      BY <2>1, <3>1
    <3>3. QED
      BY <3>2
  <2>3. Phase(os).first = half(1..mid) /\ Phase(os).second = half((mid + 1)..Size(ord))
    BY <2>1, <2>2
  <2>4. QED
    BY <1>2, <1>3, <2>3
<1>5. PICK A, B : A = H(1..m) /\ B = H((m + 1)..n)
  OBVIOUS
<1>6. A \cup B = Connected(os) /\ A \cap B = {}
  <2>1. \A rank \in 1..n : rank \in 1..m \/ rank \in (m + 1)..n
    OBVIOUS
  <2>2. \A p \in 1..m, q \in (m + 1)..n : p \in 1..n /\ q \in 1..n /\ p # q
    OBVIOUS
  <2>3. (1..m) \cup ((m + 1)..n) = 1..n
    OBVIOUS
  <2> HIDE DEF ord, some
  <2>4. A \cup B = some
    BY <1>2, <1>5, <2>1, <2>3
  <2>5. A \cap B = {}
    BY <1>2, <1>5, <2>2
  <2>6. QED
    BY <1>1, <2>4, <2>5
<1>7. /\ half(1..m).n = Cardinality(WaitsOf(TurnsOf(os, A)))
      /\ half((m + 1)..n).n = Cardinality(WaitsOf(TurnsOf(os, B)))
      /\ WaitsOf(TurnsOf(os, A)) = {x \in W : x[1] \in A}
      /\ WaitsOf(TurnsOf(os, B)) = {x \in W : x[1] \in B}
  <2>1. A \in SUBSET Connected(os) /\ B \in SUBSET Connected(os)
    BY <1>6
  <2>2. half(1..m) = Summarize(PhaseTTFA(TurnsOf(os, A)))
        /\ half((m + 1)..n) = Summarize(PhaseTTFA(TurnsOf(os, B)))
    BY <1>5, Zenon
  <2> HIDE DEF half
  <2>3. QED
    BY <2>1, <2>2, WaitsOfSome, SummaryNumber
<1>8. \A x \in W : x[1] \in Connected(os)
  BY TurnsOfStep, Places DEF WaitsOf
<1>9. IsFiniteSet(W) /\ Cardinality(W) = CountIn(TurnsByCall(os), Timed)
  BY WaitsOfStep
<1> HIDE DEF half, W, H, mid
<1>10. PICK WA, WB : WA = {x \in W : x[1] \in A} /\ WB = {x \in W : x[1] \in B}
  OBVIOUS
<1>11. W = WA \cup WB /\ WA \cap WB = {}
  BY <1>6, <1>8, <1>10
<1>12. Cardinality(W) = Cardinality(WA) + Cardinality(WB)
  BY <1>9, <1>11, TwoParts
<1>13. QED
  BY <1>4, <1>7, <1>9, <1>10, <1>12

(* summarizeTimeline has a point for every call that has a time, with its  *)
(* turns that have a wait. *)
LEMMA LineAddsUp ==
    ASSUME NEW os, IsStep(os)
    PROVE  /\ Size(Timeline(os)) = Cardinality(Placed(os))
           /\ Total([i \in DOMAIN Timeline(os) |-> Timeline(os)[i].timed])
              = CountIn(TurnsByCall(os), Timed)
<1> DEFINE ord == ByStart(os, Placed(os))
           line == Timeline(os)
           K(o) == {k \in DOMAIN o.turns : ~o.turns[k].yielded /\ o.turns[k].ttfa > 0}
           ttfas(o) == [k \in K(o) |-> o.turns[k].ttfa]
           W == WaitsOf(TurnsByCall(os))
           timed == [i \in DOMAIN line |-> line[i].timed]
<1>1. PICK n \in Nat : /\ n = Cardinality(Placed(os)) /\ DOMAIN ord = 1..n
                       /\ \A rank \in 1..n : ord[rank] \in Placed(os)
                       /\ \A p, q \in 1..n : ord[p] = ord[q] => p = q
                       /\ \A i \in Placed(os) : \E rank \in 1..n : ord[rank] = i
  <2>1. Placed(os) \in SUBSET Placed(os)
    OBVIOUS
  <2>2. QED
    BY <2>1, StepInOrder
<1>2. Placed(os) \in SUBSET (DOMAIN os)
  BY DEF Placed
<1>3. DOMAIN line = 1..n /\ \A rank \in 1..n : line[rank].timed = Cardinality(K(os[ord[rank]]))
  <2> DEFINE fails(o) == o.failed \/ \E k \in DOMAIN o.turns : o.turns[k].failed
             median(o) == RoundTo(100, RoundTo(10, Percentile(ttfas(o), 50)))
             point(o) == [at |-> o.began, failed |-> fails(o), timed |-> Size(ttfas(o)), ttfa |-> median(o)]
  <2>1. line = [rank \in DOMAIN ord |-> point(os[ord[rank]])]
    BY Zenon DEF Timeline, Placed
  <2>2. \A o : point(o).timed = Cardinality(K(o))
    <3>1. \A o : Size(ttfas(o)) = Cardinality(K(o))
      BY DEF Size
    <3> HIDE DEF ttfas, K, fails, median
    <3>2. QED
      BY <3>1
  <2> HIDE DEF point, ord, line, K
  <2>3. QED
    BY <1>1, <2>1, <2>2
<1> HIDE DEF line, ord
<1>4. ASSUME NEW x \in W
      PROVE  /\ x = <<x[1], x[2]>> /\ x[1] \in Placed(os) /\ x[2] \in K(os[x[1]])
  <2>1. x \in AllTurns(TurnsByCall(os)) /\ ~(Turn(TurnsByCall(os), x).yielded \/ Turn(TurnsByCall(os), x).ttfa <= 0)
    BY DEF WaitsOf
  <2>2. /\ x = <<x[1], x[2]>> /\ x[1] \in DOMAIN os /\ x[2] \in DOMAIN os[x[1]].turns
        /\ Turn(TurnsByCall(os), x) = os[x[1]].turns[x[2]] /\ Turn(TurnsByCall(os), x) \in TurnsRead
    BY <2>1, TurnsOfStep
  <2>3. os[x[1]].turns[x[2]].ttfa \in Int
    BY <2>2, TurnFacts
  <2>4. x[1] \in Placed(os)
    BY <2>2, TurnsOfStep DEF IsStep
  <2>5. QED
    BY <2>1, <2>2, <2>3, <2>4
<1>5. ASSUME NEW i \in Placed(os), NEW k \in K(os[i])
      PROVE  <<i, k>> \in W
  <2>1. os[i].turns # <<>>
    <3>1. SUFFICES ASSUME os[i].turns = <<>>
                   PROVE  FALSE
      OBVIOUS
    <3>2. DOMAIN os[i].turns = {}
      BY <3>1
    <3>3. QED
      BY <3>2
  <2>2. i \in Connected(os)
    BY <1>2, <2>1 DEF IsStep, Connected
  <2>3. i \in DOMAIN TurnsByCall(os) /\ TurnsByCall(os)[i] = os[i].turns
    BY <2>2, TurnsOfStep
  <2>4. <<i, k>> \in AllTurns(TurnsByCall(os)) /\ Turn(TurnsByCall(os), <<i, k>>) = os[i].turns[k]
    BY <2>3, Places DEF Turn
  <2>5. Turn(TurnsByCall(os), <<i, k>>) \in TurnsRead
    BY <2>4, TurnsOfStep
  <2>6. os[i].turns[k].ttfa \in Int
    BY <2>4, <2>5, TurnFacts
  <2>7. ~(os[i].turns[k].yielded \/ os[i].turns[k].ttfa <= 0)
    BY <2>6
  <2>8. QED
    BY <2>4, <2>7, Zenon DEF WaitsOf
<1>6. IsFiniteSet(W) /\ Cardinality(W) = CountIn(TurnsByCall(os), Timed)
  BY WaitsOfStep
<1> HIDE DEF W, K
<1>7. ASSUME NEW rank \in 1..n
      PROVE  Cardinality(K(os[ord[rank]])) = Cardinality({x \in W : x[1] = ord[rank]})
  <2>1. PICK i \in Placed(os) : i = ord[rank]
    BY <1>1
  <2> DEFINE Wi == {x \in W : x[1] = i}
             f == [x \in Wi |-> x[2]]
  <2>2. f \in [Wi -> K(os[i])]
    BY <1>4
  <2>3. \A x, y \in Wi : f[x] = f[y] => x = y
    <3>1. SUFFICES ASSUME NEW x \in Wi, NEW y \in Wi, x[2] = y[2]
                   PROVE  x = y
      OBVIOUS
    <3>2. x = <<x[1], x[2]>> /\ y = <<y[1], y[2]>> /\ x[1] = y[1]
      BY <1>4
    <3>3. QED
      BY <3>1, <3>2, Zenon
  <2>4. \A k \in K(os[i]) : \E x \in Wi : f[x] = k
    <3>1. SUFFICES ASSUME NEW k \in K(os[i])
                   PROVE  \E x \in Wi : x[2] = k
      OBVIOUS
    <3>2. <<i, k>> \in W /\ <<i, k>>[1] = i /\ <<i, k>>[2] = k
      BY <1>5
    <3>3. QED
      BY <3>2
  <2>5. IsFiniteSet(Wi)
    <3>1. Wi \in SUBSET W
      OBVIOUS
    <3> HIDE DEF Wi
    <3>2. QED
      BY <1>6, <3>1, FS_Subset
  <2> HIDE DEF f, Wi
  <2>6. Cardinality(K(os[i])) = Cardinality(Wi)
    BY <2>2, <2>3, <2>4, <2>5, SameSize
  <2>7. QED
    BY <2>1, <2>6 DEF Wi
<1> DEFINE place == [x \in W |-> CHOOSE rank \in 1..n : ord[rank] = x[1]]
<1>8. \A x \in W : place[x] \in 1..n /\ \A rank \in 1..n : place[x] = rank <=> x[1] = ord[rank]
  <2>1. SUFFICES ASSUME NEW x \in W
                 PROVE  place[x] \in 1..n /\ \A rank \in 1..n : place[x] = rank <=> x[1] = ord[rank]
    OBVIOUS
  <2>2. \E rank \in 1..n : ord[rank] = x[1]
    BY <1>1, <1>4
  <2>3. place[x] \in 1..n /\ ord[place[x]] = x[1]
    BY <2>2
  <2> HIDE DEF place
  <2>4. QED
    BY <1>1, <2>3
<1>9. /\ DOMAIN timed = 1..n /\ IsFiniteSet(DOMAIN timed) /\ place \in [W -> DOMAIN timed]
  <2>1. DOMAIN timed = 1..n
    BY <1>3
  <2>2. IsFiniteSet(1..n)
    BY FS_Interval
  <2>3. place \in [W -> 1..n]
    BY <1>8
  <2> HIDE DEF timed, place
  <2>4. QED
    BY <2>1, <2>2, <2>3
<1>10. \A rank \in DOMAIN timed : timed[rank] = Cardinality({x \in W : place[x] = rank})
  <2>1. SUFFICES ASSUME NEW rank \in 1..n
                 PROVE  timed[rank] = Cardinality({x \in W : place[x] = rank})
    BY <1>9
  <2>2. timed[rank] = Cardinality(K(os[ord[rank]]))
    BY <1>3
  <2> HIDE DEF place, timed
  <2>3. {x \in W : place[x] = rank} = {x \in W : x[1] = ord[rank]}
    BY <1>8
  <2>4. QED
    BY <1>7, <2>2, <2>3
<1>11. Total(timed) = Cardinality(W)
  <2> HIDE DEF timed, place
  <2>1. QED
    BY <1>6, <1>9, <1>10, TotalOfParts
<1>12. Size(line) = n
  <2>1. Cardinality(1..n) = n
    BY FS_Interval
  <2>2. QED
    BY <1>3, <2>1 DEF Size
<1>13. QED
  BY <1>1, <1>6, <1>11, <1>12 DEF line

-----------------------------------------------------------------------------
(* What a refresh works out again from the calls log.                      *)

Unheard == Timed \ Heard
InBand(b) == {t \in Timed : Band(t.ttfa) = b}
HeardInBand(b) == {t \in Heard : Band(Written(t).ttfa) = b}
Moved == {t \in TurnsRead : Band(Written(t).ttfa) # Band(t.ttfa)}

(* A wait written and read again stays a wait unless it is written as      *)
(* nothing, and leaves the quickest band for none and the slowest for some *)
(* other only. *)
LEMMA KindsHeard ==
    /\ Heard \subseteq Timed
    /\ InBand("quick") \subseteq HeardInBand("quick") \cup Unheard
    /\ HeardInBand("quick") \cup Unheard \subseteq InBand("quick") \cup Moved
    /\ HeardInBand("dead_air") \subseteq InBand("dead_air")
    /\ InBand("dead_air") \subseteq HeardInBand("dead_air") \cup Moved
<1>1. ASSUME NEW t \in TurnsRead
      PROVE  /\ t \in Heard => t \in Timed
             /\ t \in InBand("quick") => t \in HeardInBand("quick") \cup Unheard
             /\ t \in HeardInBand("quick") \cup Unheard => t \in InBand("quick") \cup Moved
             /\ t \in HeardInBand("dead_air") => t \in InBand("dead_air")
             /\ t \in InBand("dead_air") => t \in HeardInBand("dead_air") \cup Moved
  <2>1. PICK d \in Int, w \in Int : d = t.ttfa /\ w = Written(t).ttfa /\ w = RoundTo(10, d)
    BY TurnFacts
  <2>2. PICK y \in BOOLEAN : y = t.yielded
    BY TurnFacts
  <2>3. w > 0 => d > 0
    BY <2>1, WrittenWaits
  <2>4. \A line \in Nat : d <= 10 * line => w <= 10 * line
    BY <2>1, WrittenWaits
  <2>5. d <= 800000 => w <= 800000
    <3>1. PICK line \in Nat : line = 80000
      OBVIOUS
    <3>2. d <= 10 * line => w <= 10 * line
      BY <2>4
    <3>3. QED
      BY <3>1, <3>2
  <2>6. d <= 2000000 => w <= 2000000
    <3>1. PICK line \in Nat : line = 200000
      OBVIOUS
    <3>2. d <= 10 * line => w <= 10 * line
      BY <2>4
    <3>3. QED
      BY <3>1, <3>2
  <2>7. \A e \in Int : /\ Band(e) = "quick" <=> e <= 800000
                       /\ Band(e) = "dead_air" <=> e > 2000000
    BY DEF Band, WaitTarget, WaitRepeat, DeadAir
  <2>8. /\ t \in Timed <=> ~y /\ d > 0
        /\ t \in Heard <=> ~y /\ w > 0
        /\ \A b : t \in InBand(b) <=> t \in Timed /\ Band(d) = b
        /\ \A b : t \in HeardInBand(b) <=> t \in Heard /\ Band(w) = b
        /\ t \in Unheard <=> t \in Timed /\ t \notin Heard
        /\ t \in Moved <=> Band(w) # Band(d)
    <3>1. t \in Timed <=> ~y /\ d > 0
      BY <2>1, <2>2 DEF Timed
    <3>2. t \in Heard <=> ~y /\ w > 0
      <4>1. t \in Heard <=> ~(y \/ w <= 0)
        BY <2>1, <2>2, Zenon DEF Heard
      <4>2. QED
        BY <4>1
    <3>3. QED
      BY <2>1, <3>1, <3>2, Zenon DEF InBand, HeardInBand, Unheard, Moved
  <2>9. t \in Heard => t \in Timed
    BY <2>3, <2>8
  <2>10. t \in InBand("quick") => t \in HeardInBand("quick") \cup Unheard
    BY <2>1, <2>5, <2>7, <2>8
  <2>11. t \in HeardInBand("quick") \cup Unheard => t \in InBand("quick") \cup Moved
    <3>1. t \in HeardInBand("quick") => t \in InBand("quick") \cup Moved
      BY <2>8, <2>9
    <3>2. t \in Unheard => Band(w) = "quick"
      BY <2>1, <2>7, <2>8
    <3>3. t \in Unheard => t \in InBand("quick") \cup Moved
      BY <2>8, <3>2
    <3>4. QED
      BY <3>1, <3>3
  <2>12. t \in HeardInBand("dead_air") => t \in InBand("dead_air")
    BY <2>1, <2>6, <2>7, <2>8, <2>9
  <2>13. t \in InBand("dead_air") => t \in HeardInBand("dead_air") \cup Moved
    BY <2>1, <2>7, <2>8
  <2>14. QED
    BY <2>9, <2>10, <2>11, <2>12, <2>13
<1>2. Heard \subseteq TurnsRead /\ Timed \subseteq TurnsRead
  BY DEF Heard, Timed
<1>3. \A b : InBand(b) \subseteq TurnsRead /\ HeardInBand(b) \subseteq TurnsRead
  BY <1>2 DEF InBand, HeardInBand
<1>4. Unheard \subseteq TurnsRead
  BY <1>2 DEF Unheard
<1>5. QED
  BY <1>1, <1>2, <1>3, <1>4

(* The counts of a step's kinds of turns, before a refresh and after. *)
LEMMA CountsHeard ==
    ASSUME NEW calls, IsCalls(calls)
    PROVE  LET n(G) == CountIn(calls, G)
           IN /\ n(Heard) + n(Unheard) = n(Timed) /\ n(Unheard) \in Nat /\ n(Moved) \in Nat
              /\ n(HeardInBand("quick")) + n(Unheard)
                    \in n(InBand("quick"))..(n(InBand("quick")) + n(Moved))
              /\ n(HeardInBand("dead_air"))
                    \in (n(InBand("dead_air")) - n(Moved))..n(InBand("dead_air"))
<1> DEFINE n(G) == CountIn(calls, G)
<1>1. \A G : n(G) \in Nat
  BY CountsAreNumbers
<1>2. ASSUME NEW G, NEW H
      PROVE  n(G \cup H) <= n(G) + n(H)
  <2>1. G \cap (H \ G) = {} /\ G \cup (H \ G) = G \cup H /\ H \ G \subseteq H
    OBVIOUS
  <2>2. n(G \cup (H \ G)) = n(G) + n(H \ G)
    BY <2>1, CountsOfKinds
  <2>3. n(H \ G) <= n(H)
    BY <2>1, CountsOfKinds
  <2>4. n(G \cup H) = n(G) + n(H \ G)
    BY <2>1, <2>2
  <2> HIDE DEF n
  <2>5. QED
    BY <1>1, <2>3, <2>4
<1>3. \A G, H : G \subseteq H => n(G) <= n(H)
  BY CountsOfKinds
<1>4. n(Heard) + n(Unheard) = n(Timed)
  <2>1. Heard \cap Unheard = {} /\ Heard \cup Unheard = Timed
    BY KindsHeard DEF Unheard
  <2>2. n(Heard \cup Unheard) = n(Heard) + n(Unheard)
    BY <2>1, CountsOfKinds
  <2>3. QED
    BY <2>1, <2>2
<1> DEFINE HQ == HeardInBand("quick")
           Q == InBand("quick")
           HD == HeardInBand("dead_air")
           D == InBand("dead_air")
<1>5. n(HQ \cup Unheard) = n(HQ) + n(Unheard)
  <2>1. HQ \cap Unheard = {}
    BY DEF HeardInBand, Unheard
  <2> HIDE DEF HQ
  <2>2. QED
    BY <2>1, CountsOfKinds
<1>6. /\ Q \subseteq HQ \cup Unheard /\ HQ \cup Unheard \subseteq Q \cup Moved
      /\ HD \subseteq D /\ D \subseteq HD \cup Moved
  BY KindsHeard
<1> HIDE DEF HQ, Q, HD, D, n
<1>7. n(Q) <= n(HQ) + n(Unheard) /\ n(HQ) + n(Unheard) <= n(Q) + n(Moved)
  <2>1. n(Q) <= n(HQ \cup Unheard) /\ n(HQ \cup Unheard) <= n(Q \cup Moved)
    BY <1>3, <1>6
  <2>2. n(Q \cup Moved) <= n(Q) + n(Moved)
    BY <1>2
  <2>3. QED
    BY <1>1, <1>5, <2>1, <2>2
<1>8. n(HD) <= n(D) /\ n(D) <= n(HD) + n(Moved)
  <2>1. n(HD) <= n(D) /\ n(D) <= n(HD \cup Moved)
    BY <1>3, <1>6
  <2>2. n(HD \cup Moved) <= n(HD) + n(Moved)
    BY <1>2
  <2>3. QED
    BY <1>1, <2>1, <2>2
<1>9. /\ n(HQ) + n(Unheard) \in n(Q)..(n(Q) + n(Moved))
      /\ n(HD) \in (n(D) - n(Moved))..n(D)
  <2>1. PICK hq \in Nat, u \in Nat, q \in Nat, m \in Nat, hd \in Nat, d \in Nat :
          /\ hq = n(HQ) /\ u = n(Unheard) /\ q = n(Q) /\ m = n(Moved) /\ hd = n(HD) /\ d = n(D)
    BY <1>1
  <2>2. hq + u \in q..(q + m) /\ hd \in (d - m)..d
    BY <1>7, <1>8, <2>1
  <2>3. QED
    BY <2>1, <2>2, Zenon
<1>10. QED
  BY <1>1, <1>4, <1>9, Zenon DEF n, HQ, Q, HD, D

(* The turns that a refresh reads of the calls log. *)
ReadAgain(os) ==
    TurnsOf(CallRecords(os), {i \in DOMAIN CallRecords(os) : ~CallRecords(os)[i].error})

(* They are the turns the report was made of, each as it was written. *)
LEMMA TurnsReadAgain ==
    ASSUME NEW os, IsStep(os)
    PROVE  /\ Refreshed(CallRecords(os)) = AnalyzeCalls(ReadAgain(os))
           /\ DOMAIN ReadAgain(os) = Connected(os)
           /\ \A i \in Connected(os) :
                ReadAgain(os)[i] = [k \in DOMAIN os[i].turns |-> Written(os[i].turns[k])]
           /\ AllTurns(ReadAgain(os)) = AllTurns(TurnsByCall(os))
           /\ \A x \in AllTurns(TurnsByCall(os)) :
                Turn(ReadAgain(os), x) = Written(Turn(TurnsByCall(os), x))
<1> DEFINE records == CallRecords(os)
           again == ReadAgain(os)
           calls == TurnsByCall(os)
           written(ts) == [k \in DOMAIN ts |-> Written(ts[k])]
           record(o) == [error |-> o.failed, began |-> o.began, turns |-> written(o.turns)]
<1>1. Refreshed(records) = AnalyzeCalls(again)
  BY Zenon DEF Refreshed, ReadAgain
<1>2. DOMAIN records = DOMAIN os /\ \A i \in DOMAIN os : records[i] = record(os[i])
  BY DEF CallRecords, AsWritten
<1>3. \A o : record(o).error = o.failed /\ record(o).turns = written(o.turns)
  <2> HIDE DEF written
  <2>1. QED
    OBVIOUS
<1>4. \A i \in DOMAIN os : records[i].error = os[i].failed /\ records[i].turns = written(os[i].turns)
  <2> HIDE DEF record, records, written
  <2>1. QED
    BY <1>2, <1>3
<1>5. {i \in DOMAIN records : ~records[i].error} = Connected(os)
  <2> HIDE DEF record, records, written
  <2>1. QED
    BY <1>2, <1>4 DEF Connected
<1>6. again = TurnsOf(records, Connected(os))
  <2>1. again = TurnsOf(records, {i \in DOMAIN records : ~records[i].error})
    BY DEF ReadAgain
  <2> HIDE DEF records, again
  <2>2. QED
    BY <1>5, <2>1
<1>7. /\ DOMAIN again = Connected(os)
      /\ \A i \in Connected(os) : again[i] = written(os[i].turns)
  <2>1. Connected(os) \in SUBSET (DOMAIN os)
    BY DEF Connected
  <2> HIDE DEF records, again, written
  <2>2. DOMAIN again = Connected(os) /\ \A i \in Connected(os) : again[i] = records[i].turns
    BY <1>6 DEF TurnsOf
  <2>3. QED
    BY <1>4, <2>1, <2>2
<1>8. DOMAIN calls = Connected(os) /\ \A i \in Connected(os) : calls[i] = os[i].turns
  BY TurnsOfStep
<1>9. \A ts : DOMAIN written(ts) = DOMAIN ts /\ \A k \in DOMAIN ts : written(ts)[k] = Written(ts[k])
  OBVIOUS
<1> HIDE DEF records, again, calls, written
<1>10. ASSUME NEW x
       PROVE  x \in AllTurns(again) <=> x \in AllTurns(calls)
  <2>1. ASSUME x \in AllTurns(again)
        PROVE  x \in AllTurns(calls)
    <3>1. x = <<x[1], x[2]>> /\ x[1] \in DOMAIN again /\ x[2] \in DOMAIN again[x[1]]
      BY <2>1, Places
    <3>2. x[1] \in DOMAIN calls /\ x[2] \in DOMAIN calls[x[1]]
      BY <1>7, <1>8, <1>9, <3>1
    <3>3. <<x[1], x[2]>> \in AllTurns(calls)
      BY <3>2, Places
    <3>4. QED
      BY <3>1, <3>3, Zenon
  <2>2. ASSUME x \in AllTurns(calls)
        PROVE  x \in AllTurns(again)
    <3>1. x = <<x[1], x[2]>> /\ x[1] \in DOMAIN calls /\ x[2] \in DOMAIN calls[x[1]]
      BY <2>2, Places
    <3>2. x[1] \in DOMAIN again /\ x[2] \in DOMAIN again[x[1]]
      BY <1>7, <1>8, <1>9, <3>1
    <3>3. <<x[1], x[2]>> \in AllTurns(again)
      BY <3>2, Places
    <3>4. QED
      BY <3>1, <3>3, Zenon
  <2>3. QED
    BY <2>1, <2>2
<1>11. AllTurns(again) = AllTurns(calls)
  <2>1. AllTurns(again) \subseteq AllTurns(calls) /\ AllTurns(calls) \subseteq AllTurns(again)
    BY <1>10
  <2>2. QED
    BY <2>1
<1>12. ASSUME NEW x \in AllTurns(calls)
       PROVE  Turn(again, x) = Written(Turn(calls, x))
  <2>1. x[1] \in Connected(os) /\ x[2] \in DOMAIN os[x[1]].turns
    BY <1>8, Places
  <2>2. again[x[1]][x[2]] = Written(os[x[1]].turns[x[2]]) /\ calls[x[1]] = os[x[1]].turns
    BY <1>7, <1>8, <1>9, <2>1
  <2>3. QED
    BY <2>2 DEF Turn
<1>13. QED
  BY <1>1, <1>7, <1>11, <1>12, Zenon DEF records, again, calls, written

(* The waits it finds, by band, and those it does not. *)
LEMMA WaitsReadAgain ==
    ASSUME NEW os, IsStep(os)
    PROVE  /\ WaitsOf(ReadAgain(os)) = PlacesIn(TurnsByCall(os), Heard)
           /\ IsFiniteSet(WaitsOf(ReadAgain(os)))
           /\ Cardinality(WaitsOf(ReadAgain(os))) = CountIn(TurnsByCall(os), Heard)
           /\ \A b \in Bands :
                /\ AnalyzeCalls(TurnsByCall(os)).bands[b] = CountIn(TurnsByCall(os), InBand(b))
                /\ AnalyzeCalls(ReadAgain(os)).bands[b] = CountIn(TurnsByCall(os), HeardInBand(b))
           /\ Lost(os) = PlacesIn(TurnsByCall(os), Unheard)
           /\ Cardinality({x \in AllTurns(TurnsByCall(os)) :
                Band(Written(Turn(TurnsByCall(os), x)).ttfa) # Band(Turn(TurnsByCall(os), x).ttfa)})
              = CountIn(TurnsByCall(os), Moved)
<1> DEFINE calls == TurnsByCall(os)
           again == ReadAgain(os)
           T == AllTurns(calls)
<1>1. ASSUME NEW x \in T
      PROVE  /\ Turn(calls, x) \in TurnsRead /\ Turn(again, x) = Written(Turn(calls, x))
             /\ Turn(again, x).yielded = Turn(calls, x).yielded
             /\ Turn(calls, x).ttfa \in Int /\ Turn(again, x).ttfa \in Int
  <2>1. Turn(calls, x) \in TurnsRead /\ Turn(again, x) = Written(Turn(calls, x))
    BY TurnsOfStep, TurnsReadAgain
  <2>2. QED
    BY <2>1, TurnFacts
<1>2. AllTurns(again) = T /\ IsCalls(calls)
  BY TurnsReadAgain, TurnsOfStep
<1> HIDE DEF calls, again
<1>3. WaitsOf(again) = PlacesIn(calls, Heard)
  BY <1>1, <1>2 DEF WaitsOf, PlacesIn, Heard
<1>4. WaitsOf(calls) = PlacesIn(calls, Timed)
  BY WaitsOfStep DEF calls
<1>5. ASSUME NEW b \in Bands
      PROVE  /\ AnalyzeCalls(calls).bands[b] = CountIn(calls, InBand(b))
             /\ AnalyzeCalls(again).bands[b] = CountIn(calls, HeardInBand(b))
  <2>1. /\ AnalyzeCalls(calls).bands[b]
           = Cardinality({x \in WaitsOf(calls) : Band(Turn(calls, x).ttfa) = b})
        /\ AnalyzeCalls(again).bands[b]
           = Cardinality({x \in WaitsOf(again) : Band(Turn(again, x).ttfa) = b})
    <3>1. \A cs : \A a \in Bands : AnalyzeCalls(cs).bands[a]
             = Cardinality({x \in WaitsOf(cs) : Band(Turn(cs, x).ttfa) = a})
      BY Analyzed, Zenon
    <3>2. QED
      BY <3>1, Zenon
  <2>2. {x \in WaitsOf(calls) : Band(Turn(calls, x).ttfa) = b} = PlacesIn(calls, InBand(b))
    BY <1>4 DEF PlacesIn, InBand
  <2>3. {x \in WaitsOf(again) : Band(Turn(again, x).ttfa) = b} = PlacesIn(calls, HeardInBand(b))
    BY <1>1, <1>3 DEF PlacesIn, HeardInBand
  <2>4. QED
    BY <2>1, <2>2, <2>3 DEF CountIn
<1>6. Lost(os) = PlacesIn(calls, Unheard)
  <2>1. Lost(os) = {x \in T : /\ ~Turn(calls, x).yielded /\ Turn(calls, x).ttfa > 0
                              /\ Written(Turn(calls, x)).ttfa <= 0}
    BY Zenon DEF Lost, calls
  <2>2. \A x \in T : Turn(calls, x) \in Unheard <=>
          /\ ~Turn(calls, x).yielded /\ Turn(calls, x).ttfa > 0
          /\ Written(Turn(calls, x)).ttfa <= 0
    BY <1>1 DEF Unheard, Timed, Heard
  <2>3. QED
    BY <2>1, <2>2 DEF PlacesIn
<1>7. {x \in T : Band(Written(Turn(calls, x)).ttfa) # Band(Turn(calls, x).ttfa)} = PlacesIn(calls, Moved)
  BY <1>1 DEF PlacesIn, Moved
<1>8. IsFiniteSet(PlacesIn(calls, Heard))
  BY <1>2, CountsAreNumbers
<1>9. QED
  BY <1>3, <1>5, <1>6, <1>7, <1>8 DEF CountIn, calls, again

(* The same replies repeat. *)
LEMMA RepeatsReadAgain ==
    ASSUME NEW os, IsStep(os)
    PROVE  RepeatsOf(ReadAgain(os)) = RepeatsOf(TurnsByCall(os))
<1>1. ASSUME NEW i \in Connected(os)
      PROVE  RepeatedReplies(ReadAgain(os)[i]) = RepeatedReplies(TurnsByCall(os)[i])
  <2>1. PICK ts : ts = TurnsByCall(os)[i]
    OBVIOUS
  <2>2. PICK n \in Nat : DOMAIN ts = 1..n /\ \A k \in 1..n : ts[k] \in TurnsRead
    <3>1. ts \in Seq(TurnsRead)
      BY <2>1, TurnsOfStep DEF IsCalls
    <3>2. QED
      BY <3>1, LenProperties, ElementOfSeq
  <2>3. PICK us : us = ReadAgain(os)[i]
    OBVIOUS
  <2>4. us = [k \in DOMAIN ts |-> Written(ts[k])]
    BY <2>1, <2>3, TurnsReadAgain, TurnsOfStep
  <2>5. DOMAIN us = 1..n /\ \A k \in 1..n : us[k].reply = ts[k].reply
    BY <2>2, <2>4, TurnFacts
  <2> DEFINE R(s) == {k \in DOMAIN s :
                s[k].reply # <<>> /\ \E j \in 1..(k - 1) :
                    s[j].reply # <<>> /\ SameReply(s[j].reply, s[k].reply)}
  <2>6. \A k \in 1..n : \A j \in 1..(k - 1) : j \in 1..n
    OBVIOUS
  <2>7. R(us) = R(ts)
    BY <2>2, <2>5, <2>6
  <2>8. RepeatedReplies(us) = Cardinality(R(us)) /\ RepeatedReplies(ts) = Cardinality(R(ts))
    BY DEF RepeatedReplies
  <2>9. QED
    BY <2>1, <2>3, <2>7, <2>8
<1>2. /\ RepeatsOf(ReadAgain(os)) = [i \in Connected(os) |-> RepeatedReplies(ReadAgain(os)[i])]
      /\ RepeatsOf(TurnsByCall(os)) = [i \in Connected(os) |-> RepeatedReplies(TurnsByCall(os)[i])]
  BY TurnsReadAgain, TurnsOfStep DEF RepeatsOf
<1>3. QED
  BY <1>1, <1>2

(* A refresh of a step's report loses the turns written as nothing, and    *)
(* moves the others to a quicker band when it moves them. *)
LEMMA RefreshOfStep ==
    ASSUME NEW os, IsStep(os)
    PROVE  LET calls == TurnsByCall(os)
               was == AnalyzeCalls(calls)
               now == Refreshed(CallRecords(os))
               lost == Cardinality(Lost(os))
               onLine == Cardinality({x \in AllTurns(calls) :
                             Band(Written(Turn(calls, x)).ttfa) # Band(Turn(calls, x).ttfa)})
           IN /\ DOMAIN now.turns \subseteq DOMAIN was.turns
              /\ lost = 0 => DOMAIN now.turns = DOMAIN was.turns
              /\ <<now.repeated, now.callsWith>> = <<was.repeated, was.callsWith>>
              /\ Total(now.bands) + lost = Total(was.bands)
              /\ now.bands["quick"] + lost \in was.bands["quick"]..(was.bands["quick"] + onLine)
              /\ now.bands["dead_air"] \in (was.bands["dead_air"] - onLine)..was.bands["dead_air"]
<1> DEFINE calls == TurnsByCall(os)
           again == ReadAgain(os)
           was == AnalyzeCalls(calls)
           now == AnalyzeCalls(again)
           lost == Cardinality(Lost(os))
           onLine == Cardinality({x \in AllTurns(calls) :
                         Band(Written(Turn(calls, x)).ttfa) # Band(Turn(calls, x).ttfa)})
           n(G) == CountIn(calls, G)
<1>1. Refreshed(CallRecords(os)) = now
  BY TurnsReadAgain
<1>2. IsCalls(calls)
  BY TurnsOfStep
<1>3. lost = n(Unheard) /\ onLine = n(Moved) /\ Lost(os) = PlacesIn(calls, Unheard)
  BY WaitsReadAgain DEF CountIn
<1>4. /\ WaitsOf(calls) = PlacesIn(calls, Timed) /\ WaitsOf(again) = PlacesIn(calls, Heard)
      /\ IsFiniteSet(WaitsOf(calls)) /\ IsFiniteSet(WaitsOf(again))
      /\ Cardinality(WaitsOf(calls)) = n(Timed) /\ Cardinality(WaitsOf(again)) = n(Heard)
  BY WaitsOfStep, WaitsReadAgain
<1>5. /\ n(Heard) + n(Unheard) = n(Timed) /\ n(Unheard) \in Nat
      /\ n(HeardInBand("quick")) + n(Unheard)
            \in n(InBand("quick"))..(n(InBand("quick")) + n(Moved))
      /\ n(HeardInBand("dead_air"))
            \in (n(InBand("dead_air")) - n(Moved))..n(InBand("dead_air"))
  BY <1>2, CountsHeard
<1>6. \A b \in {"quick", "dead_air"} : was.bands[b] = n(InBand(b)) /\ now.bands[b] = n(HeardInBand(b))
  BY WaitsReadAgain DEF Bands
<1>7. /\ DOMAIN was.turns = {x[2] : x \in WaitsOf(calls)}
      /\ DOMAIN now.turns = {x[2] : x \in WaitsOf(again)}
      /\ Total(was.bands) = Cardinality(WaitsOf(calls))
      /\ Total(now.bands) = Cardinality(WaitsOf(again))
  <2>1. \A cs : DOMAIN AnalyzeCalls(cs).turns = {x[2] : x \in WaitsOf(cs)}
    BY Analyzed, Zenon
  <2>2. Total(was.bands) = Cardinality(WaitsOf(calls)) /\ Total(now.bands) = Cardinality(WaitsOf(again))
    BY <1>4, WaitsSplit
  <2>3. QED
    BY <2>1, <2>2, Zenon
<1>8. now.repeated = was.repeated /\ now.callsWith = was.callsWith
  <2>1. RepeatsOf(again) = RepeatsOf(calls) /\ DOMAIN again = DOMAIN calls
    BY RepeatsReadAgain, TurnsReadAgain, TurnsOfStep
  <2>2. \A cs : /\ AnalyzeCalls(cs).repeated = Total(RepeatsOf(cs))
                /\ AnalyzeCalls(cs).callsWith
                   = Cardinality({i \in DOMAIN cs : RepeatsOf(cs)[i] > 0})
    BY Analyzed, Zenon
  <2>3. PICK r, D : r = RepeatsOf(calls) /\ r = RepeatsOf(again) /\ D = DOMAIN calls /\ D = DOMAIN again
    BY <2>1
  <2>4. now.repeated = Total(r) /\ was.repeated = Total(r)
    BY <2>2, <2>3, Zenon
  <2>5. /\ now.callsWith = Cardinality({i \in D : r[i] > 0})
        /\ was.callsWith = Cardinality({i \in D : r[i] > 0})
    <3> HIDE DEF again, calls
    <3>1. QED
      BY <2>2, <2>3
  <2>6. QED
    BY <2>4, <2>5, Zenon
<1>9. PlacesIn(calls, Heard) \subseteq PlacesIn(calls, Timed)
  BY KindsHeard DEF PlacesIn
<1>10. lost = 0 => PlacesIn(calls, Timed) = PlacesIn(calls, Heard)
  <2>1. SUFFICES ASSUME lost = 0
                 PROVE  PlacesIn(calls, Timed) \subseteq PlacesIn(calls, Heard)
    BY <1>9
  <2>2. IsFiniteSet(PlacesIn(calls, Unheard))
    BY <1>2, CountsAreNumbers
  <2>3. PlacesIn(calls, Unheard) = {}
    BY <1>3, <2>1, <2>2, FS_EmptySet
  <2>4. QED
    BY <2>3 DEF PlacesIn, Unheard
<1> HIDE DEF calls, again, was, now, lost, onLine, n
<1>11. DOMAIN now.turns \subseteq DOMAIN was.turns
  BY <1>4, <1>7, <1>9
<1>12. lost = 0 => DOMAIN now.turns = DOMAIN was.turns
  BY <1>4, <1>7, <1>10
<1>13. Total(now.bands) + lost = Total(was.bands)
  BY <1>3, <1>4, <1>5, <1>7
<1>14. now.bands["quick"] + lost \in was.bands["quick"]..(was.bands["quick"] + onLine)
  BY <1>3, <1>5, <1>6
<1>15. now.bands["dead_air"] \in (was.bands["dead_air"] - onLine)..was.bands["dead_air"]
  BY <1>3, <1>5, <1>6
<1>16. <<now.repeated, now.callsWith>> = <<was.repeated, was.callsWith>>
  BY <1>8
<1>17. /\ DOMAIN now.turns \subseteq DOMAIN was.turns
       /\ lost = 0 => DOMAIN now.turns = DOMAIN was.turns
       /\ <<now.repeated, now.callsWith>> = <<was.repeated, was.callsWith>>
       /\ Total(now.bands) + lost = Total(was.bands)
       /\ now.bands["quick"] + lost \in was.bands["quick"]..(was.bands["quick"] + onLine)
       /\ now.bands["dead_air"] \in (was.bands["dead_air"] - onLine)..was.bands["dead_air"]
  BY <1>11, <1>12, <1>13, <1>14, <1>15, <1>16
<1>18. QED
  BY <1>1, <1>17, Zenon DEF calls, was, now, lost, onLine

-----------------------------------------------------------------------------
(* The figures of a step agree.                                            *)

(* The prices and the conversation's figures count the same turns. *)
LEMMA TalkOfStep ==
    ASSUME NEW os, IsStep(os)
    PROVE  /\ Conversation(os).turns = CountIn(TurnsByCall(os), TurnsRead)
           /\ Billed(os).turns = CountIn(TurnsByCall(os), TurnsRead)
           /\ Conversation(os).interruptions = CountIn(TurnsByCall(os), Yielded)
           /\ Conversation(os).deadAir = CountIn(TurnsByCall(os), InBand("dead_air"))
<1> DEFINE calls == TurnsOf(os, {i \in DOMAIN os : ~os[i].failed})
           T == AllTurns(calls)
           yields == {x \in T : Turn(calls, x).yielded}
           waits == {x \in T : ~Turn(calls, x).yielded /\ Turn(calls, x).ttfa > DeadAir}
           turns == Cardinality(T)
           inter == Cardinality(yields)
           dead == Cardinality(waits)
           paid == Cardinality({i \in DOMAIN os : ~os[i].failed})
<1>1. Conversation(os) = [turns |-> turns, interruptions |-> inter, deadAir |-> dead]
      /\ Billed(os) = [calls |-> paid, turns |-> turns]
  BY Zenon DEF Conversation, Billed
<1>2. calls = TurnsByCall(os)
  BY DEF TurnsByCall, Connected
<1> HIDE DEF calls
<1>3. \A x \in T : Turn(calls, x) \in TurnsRead /\ Turn(calls, x).ttfa \in Int
  BY <1>2, TurnsOfStep, TurnFacts
<1>4. T = PlacesIn(calls, TurnsRead)
  BY <1>3 DEF PlacesIn
<1>5. yields = PlacesIn(calls, Yielded)
  BY <1>3 DEF PlacesIn, Yielded
<1>6. waits = PlacesIn(calls, InBand("dead_air"))
  <2>1. ASSUME NEW x \in T
        PROVE  Turn(calls, x) \in InBand("dead_air")
               <=> ~Turn(calls, x).yielded /\ Turn(calls, x).ttfa > DeadAir
    <3>1. PICK d \in Int : d = Turn(calls, x).ttfa
      BY <1>3
    <3>2. Band(d) = "dead_air" <=> d > DeadAir
      BY DEF Band, WaitTarget, WaitRepeat, DeadAir
    <3>3. d > DeadAir => d > 0
      BY DEF DeadAir
    <3>4. QED
      BY <1>3, <3>1, <3>2, <3>3 DEF InBand, Timed
  <2>2. QED
    BY <2>1 DEF PlacesIn
<1> HIDE DEF turns, inter, dead, paid, T, yields, waits
<1>7. /\ Conversation(os).turns = turns /\ Conversation(os).interruptions = inter
      /\ Conversation(os).deadAir = dead /\ Billed(os).turns = turns
  BY <1>1
<1>8. turns = CountIn(calls, TurnsRead) /\ inter = CountIn(calls, Yielded)
      /\ dead = CountIn(calls, InBand("dead_air"))
  BY <1>4, <1>5, <1>6 DEF CountIn, turns, inter, dead
<1>9. QED
  BY <1>2, <1>7, <1>8

(* The live counters split the turns by what became of them. *)
LEMMA OutcomesAddUp ==
    ASSUME NEW calls, IsCalls(calls), NEW by \in [Kinds -> Nat],
           \A x \in AllTurns(calls) : Turn(calls, x) \in TurnsRead,
           by["failed"] = CountIn(calls, FailedTurns),
           by["talked_over"] = CountIn(calls, TalkedOver), by["ok"] = CountIn(calls, FineTurns)
    PROVE  Total(by) = CountIn(calls, TurnsRead)
<1> DEFINE T == AllTurns(calls)
           outcome(t) == IF t.failed THEN "failed" ELSE IF t.yielded THEN "talked_over" ELSE "ok"
           became == [x \in T |-> outcome(Turn(calls, x))]
<1>1. IsFiniteSet(T) /\ T = PlacesIn(calls, TurnsRead)
  BY PlacesFinite DEF PlacesIn
<1>2. DOMAIN by = Kinds
  OBVIOUS
<1>3. IsFiniteSet(Kinds)
  <2>1. \A a, b : IsFiniteSet({a} \cup {b})
    BY FS_Singleton, FS_Union
  <2>2. PICK A, B : A = {"ok"} \cup {"failed"} /\ B = {"talked_over"}
    OBVIOUS
  <2>3. IsFiniteSet(A) /\ IsFiniteSet(B)
    BY <2>1, <2>2, FS_Singleton
  <2>4. Kinds = A \cup B
    BY <2>2 DEF Kinds
  <2>5. IsFiniteSet(A \cup B)
    BY <2>3, FS_Union
  <2>6. QED
    BY <2>4, <2>5
<1>4. became \in [T -> Kinds]
  BY DEF Kinds
<1>5. \A x \in T : /\ became[x] = "failed" <=> Turn(calls, x) \in FailedTurns
                   /\ became[x] = "talked_over" <=> Turn(calls, x) \in TalkedOver
                   /\ became[x] = "ok" <=> Turn(calls, x) \in FineTurns
  BY DEF FailedTurns, TalkedOver, FineTurns
<1> HIDE DEF became
<1>6. /\ {x \in T : became[x] = "failed"} = PlacesIn(calls, FailedTurns)
      /\ {x \in T : became[x] = "talked_over"} = PlacesIn(calls, TalkedOver)
      /\ {x \in T : became[x] = "ok"} = PlacesIn(calls, FineTurns)
  BY <1>5 DEF PlacesIn
<1>7. \A o \in Kinds : by[o] = Cardinality({x \in T : became[x] = o})
  BY <1>6 DEF Kinds, CountIn
<1>8. Total(by) = Cardinality(T)
  <2> HIDE DEF T
  <2>1. QED
    BY <1>1, <1>2, <1>3, <1>4, <1>7, TotalOfParts
<1>9. QED
  BY <1>1, <1>8 DEF CountIn

(* The waits of a step, of which the live metrics have as many to every    *)
(* bound. *)
LEMMA WaitsMeasured ==
    ASSUME NEW calls, IsCalls(calls), NEW s \in Seq(Int),
           \A x \in AllTurns(calls) : Turn(calls, x) \in TurnsRead,
           Len(s) = CountIn(calls, Timed),
           \A v \in Int : AtMost(s, v) = CountIn(calls, TimedTo(v))
    PROVE  Summarize(TtfasOf(calls, PlacesIn(calls, Timed))) = Summarize(s)
<1> DEFINE P == PlacesIn(calls, Timed)
           ds == TtfasOf(calls, P)
<1>1. DOMAIN ds = P /\ Size(ds) = Cardinality(P) /\ \A x \in P : ds[x] = Turn(calls, x).ttfa
  BY WaitsTaken DEF TtfasOf
<1>2. IsFiniteSet(P) /\ \A x \in P : Turn(calls, x).ttfa \in Int
  BY CountsAreNumbers, TurnFacts DEF PlacesIn, Timed
<1> HIDE DEF ds
<1>3. IsSample(ds)
  BY <1>1, <1>2 DEF IsSample
<1>4. ASSUME NEW v \in Int
      PROVE  AtMost(ds, v) = AtMost(s, v)
  <2>1. {x \in DOMAIN ds : ds[x] <= v} = PlacesIn(calls, TimedTo(v))
    BY <1>1 DEF PlacesIn, TimedTo
  <2>2. QED
    BY <2>1 DEF AtMost, CountIn
<1>5. IsSample(s) /\ Size(s) = Len(s)
  BY SequenceSample
<1>6. SameSample(ds, s)
  BY <1>1, <1>4, <1>5 DEF SameSample, CountIn
<1>7. QED
  BY <1>3, <1>5, <1>6, SameSummaries DEF ds

(* At rest every turn is of a call that ended, and the calls without a     *)
(* time are those the step missed. *)
LEMMA AtRest ==
    ASSUME MeasuresInv
    PROVE  /\ IsStep(outcomes)
           /\ Cardinality(Placed(outcomes)) + missing = Len(outcomes)
           /\ ~fleet /\ Resting => \A G : Measured(G) = CountIn(TurnsByCall(outcomes), G)
           /\ \A G : CountIn(Ended, G) = CountIn(TurnsByCall(outcomes), G)
<1>1. PICK n \in Nat : /\ n = Len(outcomes) /\ DOMAIN outcomes = 1..n
                       /\ outcomes \in Seq(Outcome) /\ missing \in Nat
                       /\ \A i \in 1..n : outcomes[i].began \in Nat
  <2>1. outcomes \in Seq(Outcome) /\ missing \in Nat
    BY DEF MeasuresInv, MeasuresType
  <2>2. PICK n \in Nat : n = Len(outcomes) /\ DOMAIN outcomes = 1..n
    BY <2>1, LenProperties
  <2>3. \A i \in 1..n : outcomes[i] \in Outcome
    BY <2>1, <2>2, ElementOfSeq
  <2>4. QED
    BY <2>1, <2>2, <2>3 DEF Outcome
<1>2. /\ missing \in 0..n
      /\ \A i \in 1..n : /\ outcomes[i].began # 0 <=> i <= n - missing
                         /\ outcomes[i].failed <=> outcomes[i].turns = <<>>
                         /\ outcomes[i].turns # <<>> => outcomes[i].began # 0
                         /\ \A j \in 1..n : outcomes[i].began # 0
                               /\ outcomes[i].began = outcomes[j].began => i = j
  <2>1. CASE fleet
    <3>1. missing \in 0..n
      BY <1>1, <2>1 DEF MeasuresInv, FleetInv
    <3>2. \A i \in 1..n : ~(i > n - missing) <=> i <= n - missing
      BY <1>1
    <3>3. QED
      BY <1>1, <2>1, <3>1, <3>2 DEF MeasuresInv, FleetInv
  <2>2. CASE ~fleet
    <3>1. missing = 0 /\ CallsInv
      BY <2>2 DEF MeasuresInv
    <3>2. \A i \in 1..n : outcomes[i].began # 0 /\ i <= n - 0
      BY <1>1, <3>1 DEF CallsInv
    <3>3. \A i \in 1..n : /\ outcomes[i].failed <=> outcomes[i].turns = <<>>
                          /\ \A j \in 1..n : outcomes[i].began = outcomes[j].began => i = j
      BY <1>1, <3>1 DEF CallsInv
    <3>4. QED
      BY <3>1, <3>2, <3>3
  <2>3. QED
    BY <2>1, <2>2
<1>3. IsStep(outcomes)
  BY <1>1, <1>2 DEF IsStep, Placed
<1>4. Cardinality(Placed(outcomes)) + missing = Len(outcomes)
  <2>1. PICK l \in 0..n : l = missing
    BY <1>2
  <2>2. n - l \in Nat /\ (n - l) + l = n /\ n - l <= n
    OBVIOUS
  <2>3. PICK m \in Nat : m = n - missing /\ m + missing = n /\ m <= n
    BY <2>1, <2>2, Zenon
  <2>4. \A i \in 1..n : i <= m <=> i \in 1..m
    OBVIOUS
  <2>5. \A i \in 1..m : i \in 1..n
    BY <2>3
  <2>6. Placed(outcomes) = 1..m
    BY <1>1, <1>2, <2>3, <2>4, <2>5 DEF Placed
  <2>7. Cardinality(1..m) = m
    BY FS_Interval
  <2>8. QED
    BY <1>1, <2>3, <2>6, <2>7, Zenon
<1>5. \A G : CountIn(Ended, G) = CountIn(TurnsByCall(outcomes), G)
  BY <1>3, TurnsOfStep DEF Ended
<1>6. ASSUME ~fleet, Resting, NEW G
      PROVE  Measured(G) = CountIn(TurnsByCall(outcomes), G)
  <2>1. \A c \in DOMAIN Going : Going[c] = <<>>
    BY <1>6 DEF Resting, MeasuresInv, CallsInv, NoCall, Going
  <2>2. CountIn(Going, G) = 0
    BY <2>1, CountOfSilence
  <2>3. IsCalls(TurnsByCall(outcomes))
    BY <1>3, TurnsOfStep
  <2>4. CountIn(TurnsByCall(outcomes), G) \in Nat
    BY <2>3, CountsAreNumbers
  <2>5. Measured(G) = CountIn(TurnsByCall(outcomes), G) + 0
    BY <1>5, <2>2, Zenon DEF Measured
  <2>6. QED
    BY <2>4, <2>5
<1>7. QED
  BY <1>3, <1>4, <1>5, <1>6

(* When no call is in progress, all the readers have the same turns. *)
LEMMA ReadersAgree ==
    MeasuresInv => SamplesAgree
<1>1. SUFFICES ASSUME MeasuresInv, Resting
               PROVE  LET r == StepReport(outcomes)
                          a == AnalyzeCalls(TurnsByCall(outcomes))
                          p == Phase(outcomes)
                          line == Timeline(outcomes)
                          nodes == NodeStats(outcomes, <<>>)
                      IN /\ r.ttfa.n = Total(a.bands)
                         /\ r.ttfa.n = Total([n \in DOMAIN a.turns |-> a.turns[n].n])
                         /\ p.split => r.ttfa.n = p.first.n + p.second.n
                         /\ r.ttfa.n = Total([i \in DOMAIN line |-> line[i].timed])
                         /\ r.agentTtfa.n <= r.ttfa.n /\ r.agentTtfa.n <= r.rtt.n
                         /\ r.turns = Conversation(outcomes).turns /\ r.turns = Billed(outcomes).turns
                         /\ r.turns = Total([n \in DOMAIN nodes |-> nodes[n].visits])
                         /\ r.yielded = Conversation(outcomes).interruptions
                         /\ a.bands["dead_air"] = Conversation(outcomes).deadAir
                         /\ Size(line) + missing = r.attempted
                         /\ fleet \/
                            /\ r.ttfa = Summarize(live.samples)
                            /\ r.ttfa.n = Len(collected.samples) + Cardinality(Lost(outcomes))
                            /\ r.turns = collected.total /\ r.turns = Total(live.by)
                            /\ r.failed = collected.failed /\ r.failed = live.by["failed"]
  BY Zenon DEF SamplesAgree
<1> DEFINE calls == TurnsByCall(outcomes)
           r == StepReport(outcomes)
           a == AnalyzeCalls(calls)
           p == Phase(outcomes)
           line == Timeline(outcomes)
           nodes == NodeStats(outcomes, <<>>)
           n(G) == CountIn(calls, G)
<1>2. IsStep(outcomes) /\ Cardinality(Placed(outcomes)) + missing = Len(outcomes)
  BY <1>1, AtRest
<1>3. /\ IsCalls(calls) /\ \A x \in AllTurns(calls) : Turn(calls, x) \in TurnsRead
  BY <1>2, TurnsOfStep
<1>4. /\ r.attempted = Len(outcomes) /\ r.turns = n(TurnsRead) /\ r.failed = n(FailedTurns)
      /\ r.yielded = n(Yielded) /\ r.ttfa.n = n(Timed)
      /\ r.ttfa = Summarize(TtfasOf(calls, PlacesIn(calls, Timed)))
      /\ r.agentTtfa.n <= r.ttfa.n /\ r.agentTtfa.n <= r.rtt.n
  BY <1>2, ReportOfStep
<1>5. /\ Total(a.bands) = n(Timed)
      /\ Total([k \in DOMAIN a.turns |-> a.turns[k].n]) = n(Timed)
  BY <1>2, WaitsOfStep, WaitsSplit
<1>6. p.split => n(Timed) = p.first.n + p.second.n
  BY <1>2, HalvesAddUp
<1>7. /\ Size(line) = Cardinality(Placed(outcomes))
      /\ Total([i \in DOMAIN line |-> line[i].timed]) = n(Timed)
  BY <1>2, LineAddsUp
<1>8. Total([k \in DOMAIN nodes |-> nodes[k].visits]) = n(TurnsRead)
  BY <1>2, VisitsAddUp
<1>9. /\ Conversation(outcomes).turns = n(TurnsRead) /\ Billed(outcomes).turns = n(TurnsRead)
      /\ Conversation(outcomes).interruptions = n(Yielded)
      /\ Conversation(outcomes).deadAir = n(InBand("dead_air"))
  BY <1>2, TalkOfStep
<1>10. a.bands["dead_air"] = n(InBand("dead_air"))
  BY <1>2, WaitsReadAgain DEF Bands
<1>11. ASSUME ~fleet
       PROVE  /\ r.ttfa = Summarize(live.samples)
              /\ n(Timed) = Len(collected.samples) + Cardinality(Lost(outcomes))
              /\ n(TurnsRead) = collected.total /\ n(TurnsRead) = Total(live.by)
              /\ n(FailedTurns) = collected.failed /\ n(FailedTurns) = live.by["failed"]
  <2>1. (\A G : Measured(G) = n(G)) /\ \A G : CountIn(Ended, G) = n(G)
    BY <1>1, <1>11, AtRest
  <2>2. PICK by \in [Kinds -> Nat], s \in Seq(Int) : by = live.by /\ s = live.samples
    BY <1>1 DEF MeasuresInv, MeasuresType
  <2>3. LiveInv /\ CollectedInv
    BY <1>1, <1>11 DEF MeasuresInv
  <2>4. /\ by["failed"] = n(FailedTurns) /\ by["talked_over"] = n(TalkedOver) /\ by["ok"] = n(FineTurns)
        /\ Len(s) = n(Timed) /\ \A v \in Int : AtMost(s, v) = n(TimedTo(v))
    BY <2>1, <2>2, <2>3, Zenon DEF LiveInv
  <2>5. r.ttfa = Summarize(live.samples)
    BY <1>3, <1>4, <2>2, <2>4, WaitsMeasured
  <2>6. Total(live.by) = n(TurnsRead)
    BY <1>3, <2>2, <2>4, OutcomesAddUp
  <2>7. /\ collected.total = n(TurnsRead) /\ collected.failed = n(FailedTurns)
        /\ Len(collected.samples) = n(Heard)
    BY <2>1, <2>3, Zenon DEF CollectedInv
  <2>8. Cardinality(Lost(outcomes)) = n(Unheard)
    BY <1>2, WaitsReadAgain DEF CountIn
  <2>9. n(Heard) + n(Unheard) = n(Timed)
    BY <1>3, CountsHeard
  <2>10. n(Timed) = Len(collected.samples) + Cardinality(Lost(outcomes))
    BY <2>7, <2>8, <2>9, Zenon
  <2> HIDE DEF calls, r, n
  <2>11. QED
    BY <2>2, <2>4, <2>5, <2>6, <2>7, <2>10, Zenon
<1> HIDE DEF calls, r, a, p, line, nodes, n
<1>12. fleet \/
       /\ r.ttfa = Summarize(live.samples)
       /\ r.ttfa.n = Len(collected.samples) + Cardinality(Lost(outcomes))
       /\ r.turns = collected.total /\ r.turns = Total(live.by)
       /\ r.failed = collected.failed /\ r.failed = live.by["failed"]
  BY <1>4, <1>11, Zenon
<1>13. /\ r.ttfa.n = Total(a.bands)
       /\ r.ttfa.n = Total([k \in DOMAIN a.turns |-> a.turns[k].n])
       /\ p.split => r.ttfa.n = p.first.n + p.second.n
       /\ r.ttfa.n = Total([i \in DOMAIN line |-> line[i].timed])
       /\ r.agentTtfa.n <= r.ttfa.n /\ r.agentTtfa.n <= r.rtt.n
       /\ r.turns = Conversation(outcomes).turns /\ r.turns = Billed(outcomes).turns
       /\ r.turns = Total([k \in DOMAIN nodes |-> nodes[k].visits])
       /\ r.yielded = Conversation(outcomes).interruptions
       /\ a.bands["dead_air"] = Conversation(outcomes).deadAir
       /\ Size(line) + missing = r.attempted
  BY <1>2, <1>4, <1>5, <1>6, <1>7, <1>8, <1>9, <1>10, Zenon
<1>14. QED
  BY <1>12, <1>13, Zenon DEF calls, r, a, p, line, nodes

(* Whatever the turns, however many calls are made at once, and whether    *)
(* this process or the fleet made them and however many of those nobody    *)
(* reported, the figures of a step agree: when no call is in progress      *)
(* every reader has counted the same turns, the timeline has every call    *)
(* but the missed ones, and at any time a refresh of the calls logged so   *)
(* far loses or moves no turn but by the log's rounding                    *)
(* (buildStepReport, summarizePhase, analyzeCalls, summarizeTimeline,      *)
(* summarizeNodes, summarizeConversation, summarizeCost, Refresh,          *)
(* telemetry.ObserveTurn, the collector's aggregator). *)
THEOREM FiguresHold ==
    MeasuresSpec => []FiguresAgree
<1>1. MeasuresInv => SamplesAgree
  BY ReadersAgree
<1>2. MeasuresInv => RefreshKeepsTheFigures
  <2>1. SUFFICES ASSUME IsStep(outcomes)
                 PROVE  RefreshKeepsTheFigures
    BY AtRest
  <2>2. QED
    BY <2>1, RefreshOfStep, Zenon DEF RefreshKeepsTheFigures
<1>3. MeasuresInv => FiguresAgree
  BY <1>1, <1>2 DEF FiguresAgree
<1>4. QED
  BY <1>3, ReadersKeepCount, PTL

=============================================================================
