----------------------------- MODULE SearchProofs -----------------------------
(***************************************************************************)
(* Theorems about the search, for any index that Index::load accepts, any  *)
(* distances and any configuration.                                        *)
(***************************************************************************)
EXTENDS Search, FiniteSetTheorems, WellFoundedInduction, TLAPS

-----------------------------------------------------------------------------
\* A finite set has an element that nothing in it is beyond: a smallest
\* non-empty part that is closed upwards has only such elements.
LEMMA ExtremeExists ==
  ASSUME NEW S, IsFiniteSet(S), S # {}, NEW R,
         \A a, b, c \in S : <<a, b>> \in R /\ <<b, c>> \in R => <<a, c>> \in R,
         \A a \in S : <<a, a>> \notin R
  PROVE  \E x \in S : \A y \in S : <<x, y>> \notin R
<1>. DEFINE F == {U \in SUBSET S : U # {} /\ \A u \in U, v \in S : <<u, v>> \in R => v \in U}
<1>1. IsWellFoundedOn(StrictSubsetOrdering(S), SUBSET S)
  BY FS_StrictSubsetOrderingWellFounded, FS_FiniteSubsetsOfFinite
<1>2. F \subseteq SUBSET S /\ S \in F
  OBVIOUS
<1>3. PICK U \in F : \A V \in F : ~ (<<V, U>> \in StrictSubsetOrdering(S))
  <2>. HIDE DEF F
  <2>. QED
    BY <1>1, <1>2, WFMin
<1>4. PICK u \in U : TRUE
  BY <1>3
<1>. DEFINE V == {v \in U : <<u, v>> \in R}
<1>5. V \subseteq U /\ V # U
  BY <1>3, <1>4
<1>6. \A a \in V, b \in S : <<a, b>> \in R => b \in V
  BY <1>3, <1>4
<1>7. V = {}
  <2>. SUFFICES ASSUME V # {} PROVE FALSE
    OBVIOUS
  <2>1. V \in F
    BY <1>3, <1>5, <1>6
  <2>2. <<V, U>> \in StrictSubsetOrdering(S)
    BY <1>3, <1>5 DEF StrictSubsetOrdering
  <2>. QED
    BY <1>3, <2>1, <2>2
<1>8. \A y \in S : <<u, y>> \notin R
  BY <1>3, <1>4, <1>7
<1>. QED
  BY <1>3, <1>4, <1>8

\* By distance and then by id is a strict total order.
LEMMA BeforeOrder ==
  ASSUME NEW d \in [Nodes -> Nat]
  PROVE  /\ \A a \in Nodes : ~Before(d, a, a)
         /\ \A a, b, c \in Nodes : Before(d, a, b) /\ Before(d, b, c) => Before(d, a, c)
         /\ \A a, b \in Nodes : a = b \/ Before(d, a, b) \/ Before(d, b, a)
<1>1. Nodes \subseteq Int /\ \A a \in Nodes : d[a] \in Int
  BY BuildAssumption DEF Nodes
<1>. QED
  BY <1>1 DEF Before

\* The nodes of an index are finitely many.
LEMMA NodesFinite ==
  IsFiniteSet(Nodes) /\ Cardinality(Nodes) = Size
<1>1. IsFiniteSet(0..Size - 1) /\ Cardinality(0..Size - 1) = Size
  <2>1. Size \in Int /\ Size - 1 \in Int /\ ~ (0 > Size - 1)
    BY BuildAssumption
  <2>2. /\ IsFiniteSet(0..Size - 1)
        /\ Cardinality(0..Size - 1) = IF 0 > Size - 1 THEN 0 ELSE Size - 1 - 0 + 1
    BY <2>1, FS_Interval
  <2>. QED
    BY <2>1, <2>2
<1>. QED
  BY <1>1 DEF Nodes

\* Of any nodes there is a nearest one, in any order of distances.
LEMMA NearestExists ==
  ASSUME NEW d \in [Nodes -> Nat], NEW S \in SUBSET Nodes, S # {}
  PROVE  \E n \in S : \A m \in S : ~Before(d, m, n)
<1>. DEFINE R == {p \in Nodes \X Nodes : Before(d, p[2], p[1])}
<1>1. \A a, b \in S : <<a, b>> \in R <=> Before(d, b, a)
  OBVIOUS
<1>2. IsFiniteSet(S)
  BY NodesFinite, FS_Subset
<1>3. \A a, b, c \in S : <<a, b>> \in R /\ <<b, c>> \in R => <<a, c>> \in R
  BY <1>1, BeforeOrder
<1>4. \A a \in S : <<a, a>> \notin R
  BY <1>1, BeforeOrder
<1>. HIDE DEF R
<1>5. \E x \in S : \A y \in S : <<x, y>> \notin R
  BY <1>2, <1>3, <1>4, ExtremeExists
<1>. QED
  BY <1>1, <1>5

\* And a farthest one.
LEMMA FarthestExists ==
  ASSUME NEW d \in [Nodes -> Nat], NEW S \in SUBSET Nodes, S # {}
  PROVE  \E n \in S : \A m \in S : ~Before(d, n, m)
<1>. DEFINE R == {p \in Nodes \X Nodes : Before(d, p[1], p[2])}
<1>1. \A a, b \in S : <<a, b>> \in R <=> Before(d, a, b)
  OBVIOUS
<1>2. IsFiniteSet(S)
  BY NodesFinite, FS_Subset
<1>3. \A a, b, c \in S : <<a, b>> \in R /\ <<b, c>> \in R => <<a, c>> \in R
  BY <1>1, BeforeOrder
<1>4. \A a \in S : <<a, a>> \notin R
  BY <1>1, BeforeOrder
<1>. HIDE DEF R
<1>5. \E x \in S : \A y \in S : <<x, y>> \notin R
  BY <1>2, <1>3, <1>4, ExtremeExists
<1>. QED
  BY <1>1, <1>5

-----------------------------------------------------------------------------
\* By distance and then by id no two nodes have the same rank, a nearer one
\* has a smaller one, and no rank below the number of nodes is left out.
LEMMA RankFacts ==
  ASSUME NEW d \in [Nodes -> Nat], NEW S \in SUBSET Nodes
  PROVE  /\ Cardinality(S) \in Nat
         /\ \A a \in S : Rank(d, S, a) \in 0..Cardinality(S) - 1
         /\ \A a, b \in S : Before(d, a, b) <=> Rank(d, S, a) < Rank(d, S, b)
         /\ \A a, b \in S : Rank(d, S, a) = Rank(d, S, b) => a = b
         /\ \A i \in 0..Cardinality(S) - 1 : \E a \in S : Rank(d, S, a) = i
<1>. DEFINE Closer(a) == {b \in S : Before(d, b, a)}
            size == Cardinality(S)
<1>1. IsFiniteSet(S) /\ size \in Nat
  BY NodesFinite, FS_Subset, FS_CardinalityType
<1>2. \A a \in S : /\ IsFiniteSet(Closer(a)) /\ Cardinality(Closer(a)) \in Nat
                   /\ Rank(d, S, a) = Cardinality(Closer(a))
  BY <1>1, FS_Subset, FS_CardinalityType DEF Rank
<1>3. ASSUME NEW T, IsFiniteSet(T), NEW U \in SUBSET T, NEW x \in T, x \notin U
      PROVE  Cardinality(U) < Cardinality(T)
  <2>1. Cardinality(U) <= Cardinality(T) /\ Cardinality(U) # Cardinality(T)
    BY <1>3, FS_Subset
  <2>2. Cardinality(U) \in Nat /\ Cardinality(T) \in Nat
    BY <1>3, FS_Subset, FS_CardinalityType
  <2>. QED
    BY <2>1, <2>2
<1>4. ASSUME NEW a \in S
      PROVE  Rank(d, S, a) \in 0..size - 1
  <2>1. Closer(a) \in SUBSET S /\ a \notin Closer(a)
    BY BeforeOrder
  <2>2. Cardinality(Closer(a)) < size
    BY <1>1, <1>3, <2>1
  <2>. HIDE DEF Closer, size
  <2>. QED
    BY <1>1, <1>2, <2>2
<1>5. ASSUME NEW a \in S, NEW b \in S, Before(d, a, b)
      PROVE  Rank(d, S, a) < Rank(d, S, b)
  <2>1. Closer(a) \in SUBSET Closer(b) /\ a \in Closer(b) /\ a \notin Closer(a)
    BY <1>5, BeforeOrder
  <2>2. Cardinality(Closer(a)) < Cardinality(Closer(b))
    BY <1>2, <1>3, <2>1
  <2>. HIDE DEF Closer
  <2>. QED
    BY <1>2, <2>2
<1>. HIDE DEF Closer
<1>6. \A a \in S : Rank(d, S, a) \in Nat
  BY <1>2
<1>7. \A a, b \in S : a = b \/ Rank(d, S, a) < Rank(d, S, b) \/ Rank(d, S, b) < Rank(d, S, a)
  BY <1>5, BeforeOrder
<1>8. \A a, b \in S : Rank(d, S, a) = Rank(d, S, b) => a = b
  BY <1>6, <1>7
<1>9. \A a, b \in S : Before(d, a, b) <=> Rank(d, S, a) < Rank(d, S, b)
  <2>. SUFFICES ASSUME NEW a \in S, NEW b \in S, Rank(d, S, a) < Rank(d, S, b), ~Before(d, a, b)
                PROVE  FALSE
    BY <1>5
  <2>1. a = b \/ Rank(d, S, b) < Rank(d, S, a)
    BY <1>5, BeforeOrder
  <2>. QED
    BY <1>6, <2>1
<1>10. \A i \in 0..size - 1 : \E a \in S : Rank(d, S, a) = i
  <2>. DEFINE f == [a \in S |-> Rank(d, S, a)]
  <2>1. f \in Injection(S, 0..size - 1)
    BY <1>4, <1>8 DEF Injection, IsInjective
  <2>2. IsFiniteSet(0..size - 1) /\ Cardinality(0..size - 1) = size
    <3>. HIDE DEF size
    <3>1. size - 1 \in Int /\ 0 \in Int
      BY <1>1
    <3>2. /\ IsFiniteSet(0..size - 1)
          /\ Cardinality(0..size - 1) = IF 0 > size - 1 THEN 0 ELSE size - 1 - 0 + 1
      BY <3>1, FS_Interval
    <3>. QED
      BY <1>1, <3>2
  <2>3. f \in Surjection(S, 0..size - 1)
    <3>. HIDE DEF f
    <3>. QED
      BY <2>1, <2>2, FS_Injection
  <2>. QED
    BY <2>3 DEF Surjection
<1>. HIDE DEF size
<1>11. size \in Nat /\ \A a \in S : Rank(d, S, a) \in 0..size - 1
  BY <1>1, <1>4
<1>. QED
  BY <1>8, <1>9, <1>10, <1>11, Zenon DEF size

\* The k nearest are k, if there are as many, and each of them is nearer than
\* any node that is not among them.
LEMMA FirstFacts ==
  ASSUME NEW d \in [Nodes -> Nat], NEW S \in SUBSET Nodes, NEW k \in Nat
  PROVE  /\ First(d, S, k) \in SUBSET S
         /\ \A a \in First(d, S, k), b \in S \ First(d, S, k) : Before(d, a, b)
         /\ S # First(d, S, k) => Cardinality(First(d, S, k)) = k
<1>. DEFINE F == First(d, S, k)
<1>1. \A a \in S : Rank(d, S, a) \in Nat /\ (a \in F <=> Rank(d, S, a) < k)
  <2>1. \A a \in S : Rank(d, S, a) \in 0..Cardinality(S) - 1
    BY RankFacts
  <2>2. \A a \in S : Rank(d, S, a) \in Nat
    BY <2>1
  <2>3. \A a \in S : a \in F <=> Rank(d, S, a) < k
    BY DEF First
  <2>. QED
    BY <2>2, <2>3
<1>2. F \in SUBSET S
  BY DEF First
<1>3. \A a \in F, b \in S \ F : Before(d, a, b)
  <2>. SUFFICES ASSUME NEW a \in F, NEW b \in S \ F PROVE Before(d, a, b)
    OBVIOUS
  <2>1. Rank(d, S, a) < k /\ ~ (Rank(d, S, b) < k)
    BY <1>1, <1>2
  <2>2. Rank(d, S, a) < Rank(d, S, b)
    BY <1>1, <1>2, <2>1
  <2>. QED
    BY <1>2, <2>2, RankFacts
<1>4. S # F => Cardinality(F) = k
  <2>. SUFFICES ASSUME S # F PROVE Cardinality(F) = k
    OBVIOUS
  <2>1. PICK b \in S : ~ (Rank(d, S, b) < k)
    BY <1>1, <1>2
  <2>2. \A i \in 0..k - 1 : i \in 0..Cardinality(S) - 1
    BY <2>1, RankFacts
  <2>. DEFINE f == [a \in F |-> Rank(d, S, a)]
  <2>3. f \in Injection(F, 0..k - 1)
    <3>1. \A a \in F : Rank(d, S, a) \in 0..k - 1
      BY <1>1, <1>2
    <3>. QED
      BY <1>2, <3>1, RankFacts DEF Injection, IsInjective
  <2>4. f \in Surjection(F, 0..k - 1)
    <3>. SUFFICES ASSUME NEW i \in 0..k - 1 PROVE \E a \in F : f[a] = i
      BY <2>3 DEF Surjection, Injection
    <3>1. PICK a \in S : Rank(d, S, a) = i
      BY <2>2, RankFacts
    <3>. QED
      BY <1>1, <3>1
  <2>5. IsFiniteSet(0..k - 1) /\ Cardinality(0..k - 1) = k
    <3>1. k - 1 \in Int /\ 0 \in Int
      OBVIOUS
    <3>2. /\ IsFiniteSet(0..k - 1)
          /\ Cardinality(0..k - 1) = IF 0 > k - 1 THEN 0 ELSE k - 1 - 0 + 1
      BY <3>1, FS_Interval
    <3>. QED
      BY <3>2
  <2>. HIDE DEF f, F
  <2>. QED
    BY <2>3, <2>4, <2>5, FS_Injection
<1>. QED
  BY <1>2, <1>3, <1>4

\* Sorting a set of nodes gives a list of its elements.
LEMMA SortedFacts ==
  ASSUME NEW d \in [Nodes -> Nat], NEW S \in SUBSET Nodes
  PROVE  /\ Sorted(d, S) \in Seq(S)
         /\ {Sorted(d, S)[i] : i \in DOMAIN Sorted(d, S)} = S
<1>. DEFINE size == Cardinality(S)
            s == Sorted(d, S)
<1>1. size \in Nat
  BY RankFacts
<1>2. DOMAIN s = 1..size
  BY DEF Sorted
<1>3. ASSUME NEW i \in 1..size
      PROVE  s[i] \in S /\ Rank(d, S, s[i]) = i - 1
  <2>1. i - 1 \in 0..size - 1
    BY <1>1
  <2>2. \E a \in S : Rank(d, S, a) = i - 1
    BY <2>1, RankFacts
  <2>3. s[i] = CHOOSE a \in S : Rank(d, S, a) = i - 1
    BY DEF Sorted
  <2>. QED
    BY <2>2, <2>3
<1>4. s \in Seq(S)
  <2>1. s = [i \in 1..size |-> s[i]]
    BY DEF Sorted
  <2>2. s \in [1..size -> S]
    <3>. HIDE DEF s
    <3>. QED
      BY <1>3, <2>1
  <2>. HIDE DEF s, size
  <2>. QED
    BY <1>1, <2>2
<1>5. \A a \in S : \E i \in 1..size : s[i] = a
  <2>. SUFFICES ASSUME NEW a \in S PROVE \E i \in 1..size : s[i] = a
    OBVIOUS
  <2>1. Rank(d, S, a) \in 0..size - 1
    BY RankFacts
  <2>. DEFINE i == Rank(d, S, a) + 1
  <2>2. i \in 1..size /\ i - 1 = Rank(d, S, a)
    BY <1>1, <2>1
  <2>. HIDE DEF i
  <2>3. s[i] \in S /\ Rank(d, S, s[i]) = Rank(d, S, a)
    BY <1>3, <2>2
  <2>4. s[i] = a
    <3>1. \A x, y \in S : Rank(d, S, x) = Rank(d, S, y) => x = y
      BY RankFacts
    <3>. HIDE DEF s
    <3>. QED
      BY <2>3, <3>1
  <2>. QED
    BY <2>2, <2>4
<1>. HIDE DEF s, size
<1>6. {s[i] : i \in DOMAIN s} = S
  BY <1>2, <1>3, <1>5
<1>. QED
  BY <1>4, <1>6 DEF s

-----------------------------------------------------------------------------
\* The shortlist S is the best of C, a list of Beam.
Best(S, C) ==
  /\ S \subseteq C
  /\ \A m \in C \ S : Cardinality(S) >= Beam /\ \A s \in S : Nearer(s, m)

InputsOK == query \in Queries /\ config \in Configs

\* The order that the search compares by is a strict total order.
LEMMA NearerOrder ==
  ASSUME InputsOK
  PROVE  /\ query.approx \in [Nodes -> Nat]
         /\ \A a \in Nodes : ~Nearer(a, a)
         /\ \A a, b, c \in Nodes : Nearer(a, b) /\ Nearer(b, c) => Nearer(a, c)
         /\ \A a, b \in Nodes : a = b \/ Nearer(a, b) \/ Nearer(b, a)
<1>1. query.approx \in [Nodes -> Nat]
  BY SearchAssumption DEF InputsOK
<1>. QED
  BY <1>1, BeforeOrder DEF Nearer

\* A valid configuration gives a beam between 1 and the size of the index.
LEMMA BeamType ==
  ASSUME InputsOK, ValidConfig
  PROVE  Beam \in Nat /\ Beam >= 1
<1>1. /\ config.top_k \in Nat /\ config.ef_search \in Nat
      /\ config.ratio[1] \in Nat /\ config.ratio[2] \in Nat
  BY SearchAssumption DEF InputsOK
<1>2. /\ config.ef_search >= 1 /\ config.ratio[1] >= 1
      /\ config.ratio[2] >= config.ratio[1]
  BY <1>1 DEF ValidConfig
<1>3. ExactBudget \in Nat /\ ExactBudget >= 1
  BY <1>1, <1>2, BuildAssumption DEF ExactBudget
<1>4. \A e, a, b \in Nat : e >= 1 /\ b >= a => e * b \in Nat /\ e * b >= a
  <2>. SUFFICES ASSUME NEW e \in Nat, NEW a \in Nat, NEW b \in Nat, e >= 1, b >= a
                PROVE  e * b \in Nat /\ e * b >= a
    OBVIOUS
  <2>1. PICK k \in Nat : e = k + 1
    <3>1. e - 1 \in Nat /\ e = (e - 1) + 1
      OBVIOUS
    <3>. QED
      BY <3>1
  <2>2. k * b \in Nat
    OBVIOUS
  <2>3. (k + 1) * b = k * b + b
    OBVIOUS
  <2>. QED
    BY <2>1, <2>2, <2>3
<1>5. ExactBudget * config.ratio[2] \in Nat /\ ExactBudget * config.ratio[2] >= config.ratio[1]
  BY <1>1, <1>2, <1>3, <1>4
<1>6. ASSUME NEW x \in Nat, NEW y \in Nat, y >= 1, x >= y
      PROVE  Ceiling(x, y) \in Nat \ {0}
  <2>1. (x + y - 1) \div y \in Nat /\ (x + y - 1) \div y >= 1
    BY <1>6
  <2>. QED
    BY <2>1 DEF Ceiling
<1>7. Ceiling(ExactBudget * config.ratio[2], config.ratio[1]) \in Nat \ {0}
  BY <1>1, <1>2, <1>5, <1>6
<1>. QED
  BY <1>7, BuildAssumption DEF Beam

\* Also for a configuration that is refused.
LEMMA BeamNat ==
  ASSUME InputsOK
  PROVE  Beam \in Nat
<1>1. /\ config.ef_search \in Nat /\ config.ratio[1] \in Nat /\ config.ratio[2] \in Nat
      /\ Size \in Nat
  BY SearchAssumption, BuildAssumption DEF InputsOK
<1>2. ExactBudget \in Nat
  BY <1>1 DEF ExactBudget
<1>3. ExactBudget * config.ratio[2] \in Nat /\ (config.ratio[1] = 0 => Size * config.ratio[1] = 0)
  BY <1>1, <1>2
<1>4. ASSUME NEW x \in Nat, NEW y \in Nat \ {0}
      PROVE  Ceiling(x, y) \in Nat
  <2>1. (x + y - 1) \div y \in Nat
    OBVIOUS
  <2>. QED
    BY <2>1 DEF Ceiling
<1>5. CASE config.ratio[1] = 0
  BY <1>1, <1>3, <1>5 DEF Beam
<1>6. CASE config.ratio[1] # 0
  <2>1. Ceiling(ExactBudget * config.ratio[2], config.ratio[1]) \in Nat
    BY <1>1, <1>3, <1>4, <1>6
  <2>. QED
    BY <1>1, <2>1 DEF Beam
<1>. QED
  BY <1>5, <1>6

\* Offering one more node keeps the shortlist the best and within the beam,
\* whether or not the node was compared before.
LEMMA OfferKeepsBest ==
  ASSUME InputsOK, ValidConfig, NEW C \in SUBSET Nodes, Best(shortlist, C),
         Cardinality(shortlist) <= Beam, NEW n \in Nodes, n \notin C
  PROVE  /\ Offered(n) \subseteq shortlist \cup {n}
         /\ Cardinality(Offered(n)) <= Beam
         /\ Best(Offered(n), C \cup {n})
<1>. DEFINE S == shortlist \cup {n}
<1>1. shortlist \subseteq C /\ n \notin shortlist
  BY DEF Best
<1>2. S \in SUBSET Nodes /\ IsFiniteSet(S) /\ IsFiniteSet(shortlist)
  BY <1>1, NodesFinite, FS_Subset
<1>3. /\ Cardinality(shortlist) \in Nat /\ Cardinality(S) = Cardinality(shortlist) + 1
      /\ Beam \in Nat
  BY <1>1, <1>2, FS_AddElement, FS_CardinalityType, BeamType
<1>4. CASE ~ (Cardinality(S) > Beam)
  <2>1. Offered(n) = S
    BY <1>4 DEF Offered
  <2>2. \A m \in C \ shortlist : FALSE
    BY <1>3, <1>4 DEF Best
  <2>. QED
    BY <1>1, <1>3, <1>4, <2>1, <2>2 DEF Best
<1>5. CASE Cardinality(S) > Beam
  <2>1. Offered(n) = S \ Farthest(S)
    BY <1>5 DEF Offered
  <2>2. PICK w \in S : \A m \in S : ~Nearer(w, m)
    BY <1>2, NearerOrder, FarthestExists DEF Nearer
  <2>3. \A s \in S \ {w} : Nearer(s, w)
    BY <1>2, <2>2, NearerOrder
  <2>4. Farthest(S) = {w}
    BY <1>2, <2>2, <2>3 DEF Farthest
  <2>5. Offered(n) = S \ {w}
    BY <2>1, <2>4
  <2>6. Cardinality(Offered(n)) = Beam
    <3>1. Cardinality(S \ {w}) = Cardinality(S) - 1
      BY <1>2, <2>2, FS_RemoveElement
    <3>. QED
      BY <1>3, <1>5, <2>5, <3>1
  <2>7. ASSUME NEW m \in (C \cup {n}) \ Offered(n), NEW s \in Offered(n)
        PROVE  Nearer(s, m)
    <3>1. CASE m = w
      BY <2>3, <2>5, <3>1
    <3>2. CASE m # w
      <4>1. m \in C \ shortlist
        BY <2>5, <2>7, <3>2
      <4>2. \A t \in shortlist : Nearer(t, m)
        BY <4>1 DEF Best
      <4>3. CASE s \in shortlist
        BY <4>2, <4>3
      <4>4. CASE s = n
        <5>1. w \in shortlist /\ Nearer(n, w)
          BY <2>2, <2>3, <2>5, <4>4
        <5>. QED
          BY <1>1, <4>1, <4>2, <4>4, <5>1, NearerOrder
      <4>. QED
        BY <2>5, <4>3, <4>4
    <3>. QED
      BY <3>1, <3>2
  <2>. QED
    BY <1>1, <1>3, <2>5, <2>6, <2>7 DEF Best
<1>. QED
  BY <1>4, <1>5

-----------------------------------------------------------------------------
\* The links of a built index end at nodes: those of the pruned and reversed
\* links that are nearest.
LEMMA BuiltLinks ==
  ASSUME NEW c \in Corpora, NEW n \in Nodes
  PROVE  /\ c.gap[n] \in [Nodes -> Nat] /\ Linked(c.graph.base, c.gap, n) \in SUBSET Nodes
         /\ Links(c.graph.base, c.gap, n) \in Seq(Nodes)
         /\ LET list == Links(c.graph.base, c.gap, n)
            IN  {list[i] : i \in DOMAIN list}
                  = First(c.gap[n], Linked(c.graph.base, c.gap, n), MaximumDegree)
<1>. DEFINE near == First(c.gap[n], Linked(c.graph.base, c.gap, n), MaximumDegree)
<1>1. Exported(c.graph) /\ c.gap \in [Nodes -> [Nodes -> Nat]]
  BY SearchAssumption
<1>2. c.gap[n] \in [Nodes -> Nat] /\ c.graph.base \in [Nodes -> SUBSET Nodes]
  BY <1>1 DEF Exported
<1>3. Linked(c.graph.base, c.gap, n) \in SUBSET Nodes
  BY <1>2 DEF Linked, Kept, First
<1>4. near \in SUBSET Nodes
  BY <1>3 DEF First
<1>5. /\ Sorted(c.gap[n], near) \in Seq(near)
      /\ LET list == Sorted(c.gap[n], near) IN {list[i] : i \in DOMAIN list} = near
  <2>. HIDE DEF near
  <2>. QED
    BY <1>2, <1>4, SortedFacts
<1>6. Seq(near) \subseteq Seq(Nodes)
  <2>. HIDE DEF near
  <2>. QED
    BY <1>4
<1>7. Links(c.graph.base, c.gap, n) = Sorted(c.gap[n], near)
  BY DEF Links
<1>. HIDE DEF near
<1>. QED
  BY <1>2, <1>3, <1>5, <1>6, <1>7 DEF near

\* What load accepts has been accepted, and a built index is accepted.
LEMMA BuiltAccepted ==
  ASSUME NEW c \in Corpora
  PROVE  /\ Acceptable(Built(c.graph, c.gap))
         /\ Len(Built(c.graph, c.gap).layers) = MaximumLevel(c.graph)
         /\ \A l \in 1..MaximumLevel(c.graph) :
              DOMAIN Built(c.graph, c.gap).layers[l] = LayerNodes(c.graph, l)
<1>. DEFINE g == c.graph
            top == MaximumLevel(g)
            layers == [l \in 1..top |-> UpperLayer(g, l)]
            built == Built(g, c.gap)
<1>1. Exported(g) /\ built.links \in [Nodes -> Seq(Nodes)]
  BY SearchAssumption, BuiltLinks DEF Built
<1>2. built.layers = layers /\ built.entry = g.entry
  BY DEF Built
<1>3. top \in Nat /\ \A n \in Nodes : g.level[n] \in Nat
  BY <1>1 DEF Exported, MaximumLevel
<1>4. DOMAIN layers = 1..top /\ Len(layers) = top
  BY <1>3
<1>5. \A l \in 1..top : DOMAIN layers[l] = LayerNodes(g, l)
  BY DEF UpperLayer
<1>6. ASSUME NEW l \in 1..top
      PROVE  /\ LayerNodes(g, l) \in SUBSET Nodes
             /\ g.entry \in LayerNodes(g, l)
             /\ \A n \in LayerNodes(g, l) : layers[l][n] \in SUBSET LayerNodes(g, l)
  <2>1. l \in Nat /\ l >= 1 /\ l <= top
    BY <1>3
  <2>2. LayerNodes(g, l) \in SUBSET Nodes
    BY DEF LayerNodes
  <2>3. g.entry \in LayerNodes(g, l)
    BY <1>1, <2>1 DEF LayerNodes, Exported, MaximumLevel
  <2>4. ASSUME NEW n \in LayerNodes(g, l)
        PROVE  layers[l][n] \in SUBSET LayerNodes(g, l)
    <3>1. n \in Nodes /\ l \in 1..g.level[n]
      BY <1>3, <2>1 DEF LayerNodes
    <3>2. layers[l][n] = g.upper[l][n]
      BY DEF UpperLayer
    <3>. QED
      BY <1>1, <3>1, <3>2 DEF Exported, LayerNodes
  <2>. QED
    BY <2>2, <2>3, <2>4
<1>. HIDE DEF built, layers, top, g
<1>7. Acceptable(built)
  <2>1. g.entry \in Nodes
    BY <1>1 DEF Exported
  <2>. QED
    BY <1>1, <1>2, <1>4, <1>5, <1>6, <2>1 DEF Acceptable
<1>8. \A l \in 1..top : DOMAIN built.layers[l] = LayerNodes(g, l)
  BY <1>2, <1>5
<1>. QED
  BY <1>2, <1>4, <1>7, <1>8 DEF g, built, top

-----------------------------------------------------------------------------
\* What holds at which point, apart from the shortlist.
PhaseOK ==
  /\ pc \notin {"validate", "rejected"} => ValidConfig
  /\ pc \in {"validate", "embed"} => routed = index.entry
  /\ pc \in {"validate", "embed", "route"} => expanded = {} /\ next = 0
  /\ pc = "scan" => Scans /\ next <= Size
  /\ pc \in {"beam", "links"} => ~Scans

\* The layers of a built index are nested, so the route is on each of them.
RouteOK ==
  corpus # None =>
    /\ pc # "lost"
    /\ pc = "route" /\ layer > 0 => routed \in DOMAIN index.layers[layer]

ListOK == Searching => Best(shortlist, Considered)

Walking == pc \in {"beam", "links", "recompute", "answered"} /\ ~Scans

\* The inner loop has visited the links before its position.
LoopOK ==
  pc = "links" =>
    /\ current \in Nodes /\ next >= 1
    /\ \A i \in DOMAIN index.links[current] :
         i < next => index.links[current][i] \in visited

\* Shortlisted nodes wait in the frontier until they are expanded; when the
\* beam is over none of them waits any more.
WalkOK ==
  Walking =>
    /\ routed \in visited
    /\ shortlist \subseteq expanded \cup frontier
    /\ \A n \in expanded : Targets(n) \subseteq visited \/ (pc = "links" /\ n = current)
    /\ pc \in {"recompute", "answered"} => shortlist \subseteq expanded

IInv == SearchTypeOK /\ PhaseOK /\ RouteOK /\ ListOK /\ LoopOK /\ WalkOK

\* A well-typed state has typed inputs.
LEMMA TypeInputs ==
  ASSUME SearchTypeOK
  PROVE  /\ InputsOK /\ Acceptable(index)
         /\ index.links \in [Nodes -> Seq(Nodes)]
         /\ \A n \in Nodes : Targets(n) \subseteq Nodes
<1>1. Acceptable(index)
  BY SearchAssumption, BuiltAccepted DEF SearchTypeOK
<1>2. index.links \in [Nodes -> Seq(Nodes)]
  BY <1>1 DEF Acceptable
<1>3. \A n \in Nodes : Targets(n) \subseteq Nodes
  BY <1>2 DEF Targets
<1>. QED
  BY <1>1, <1>2, <1>3 DEF SearchTypeOK, InputsOK

\* What depends on the inputs alone is the same after a step.
LEMMA InputsKept ==
  ASSUME UNCHANGED inputs
  PROVE  /\ Beam' = Beam /\ ExactBudget' = ExactBudget
         /\ Scans' <=> Scans
         /\ ValidConfig' <=> ValidConfig
         /\ corpus' = corpus /\ index' = index /\ query' = query /\ config' = config
BY DEF inputs, Beam, ExactBudget, Scans, ValidConfig

\* What is best after a step may be told with the query before it.
LEMMA BestPrimed ==
  ASSUME UNCHANGED inputs, Best(shortlist', Considered')
  PROVE  Best(shortlist, Considered)'
BY InputsKept DEF Best, Nearer

\* The invariant holds in the beginning.
LEMMA InitInv == Init => IInv
<1> SUFFICES ASSUME Init PROVE IInv
  OBVIOUS
<1>1. InputsOK /\ Cardinality(shortlist) <= Beam
  <2>1. InputsOK
    BY DEF Init, InputsOK
  <2>. QED
    BY <2>1, BeamNat, FS_EmptySet DEF Init
<1>2. Acceptable(index)
  BY SearchAssumption, BuiltAccepted DEF Init
<1>3. SearchTypeOK
  <2>1. index.entry \in Nodes /\ Len(index.layers) \in Nat
    BY <1>2, BuiltAccepted, SearchAssumption DEF Acceptable
  <2>. QED
    BY <1>1, <2>1 DEF Init, SearchTypeOK, Final
<1>4. PhaseOK /\ RouteOK
  BY DEF Init, PhaseOK, RouteOK
<1>5. ListOK /\ LoopOK /\ WalkOK
  BY DEF Init, ListOK, LoopOK, WalkOK, Searching, Walking
<1>. QED
  BY <1>3, <1>4, <1>5 DEF IInv

\* Steps before the scan or the beam begins.
LEMMA EarlyKeeps ==
  ASSUME IInv, Validate \/ EmbedQuery \/ Hop \/ Descend \/ LoseRoute
  PROVE  IInv'
<1> USE DEF Goto
<1>1. /\ UNCHANGED <<inputs, visited, frontier, shortlist, current, next, expanded,
                     candidates, ranked>>
      /\ pc' \in {"embed", "rejected", "route", "lost"}
      /\ pc \in {"validate", "embed", "route"}
  BY DEF Validate, EmbedQuery, Hop, Descend, LoseRoute
<1>2. InputsOK /\ Acceptable(index) /\ index' = index /\ Beam' = Beam
  BY <1>1, TypeInputs, InputsKept DEF IInv
<1>3. SearchTypeOK'
  <2>1. layer' \in 0..Len(index.layers)
    <3>1. Len(index.layers) \in Nat
      BY BuiltAccepted, SearchAssumption, <1>2 DEF Acceptable
    <3>. QED
      BY <3>1 DEF IInv, SearchTypeOK, Validate, EmbedQuery, Hop, Descend, LoseRoute
  <2>2. routed' \in Nodes
    <3>1. CASE Hop
      <4>1. layer \in DOMAIN index.layers
        BY <1>2, <3>1 DEF IInv, SearchTypeOK, Hop, Acceptable
      <4>2. \A n \in DOMAIN index.layers[layer] : index.layers[layer][n] \in SUBSET Nodes
        BY <1>2, <4>1 DEF Acceptable
      <4>. QED
        BY <3>1, <4>2 DEF Hop
    <3>. QED
      BY <3>1 DEF IInv, SearchTypeOK, Validate, EmbedQuery, Descend, LoseRoute
  <2>. QED
    BY <1>1, <1>2, <2>1, <2>2 DEF IInv, SearchTypeOK, inputs, Final
<1>4. PhaseOK'
  BY <1>1, InputsKept DEF IInv, PhaseOK, Validate, EmbedQuery, Hop, Descend, LoseRoute
<1>5. RouteOK'
  <2> SUFFICES ASSUME corpus # None
               PROVE  /\ pc' # "lost"
                      /\ pc' = "route" /\ layer' > 0 => routed' \in DOMAIN index.layers[layer']
    BY <1>1, <1>2, InputsKept DEF RouteOK
  <2>1. corpus \in Corpora /\ index = Built(corpus.graph, corpus.gap)
    BY DEF IInv, SearchTypeOK
  <2>. DEFINE g == corpus.graph
              top == MaximumLevel(g)
  <2>2. /\ Len(index.layers) = top /\ Acceptable(index)
        /\ \A l \in 1..top : DOMAIN index.layers[l] = LayerNodes(g, l)
    BY <2>1, BuiltAccepted
  <2>3. top \in Nat /\ \A n \in Nodes : g.level[n] \in Nat
    BY <2>1, SearchAssumption DEF Exported, MaximumLevel
  <2>4. layer \in 0..top /\ DOMAIN index.layers = 1..top
    BY <2>2 DEF IInv, SearchTypeOK, Acceptable
  <2>5. CASE Validate
    BY <2>5 DEF Validate
  <2>6. CASE EmbedQuery
    <3>1. routed' = index.entry /\ layer' = top
      BY <2>2, <2>6 DEF EmbedQuery, IInv, PhaseOK
    <3>2. top > 0 => top \in DOMAIN index.layers
      BY <2>3, <2>4
    <3>. QED
      BY <2>2, <2>6, <3>1, <3>2 DEF EmbedQuery, Acceptable
  <2>7. CASE Hop
    <3>1. layer \in DOMAIN index.layers /\ layer' = layer /\ pc' = "route"
      BY <2>3, <2>4, <2>7 DEF Hop
    <3>2. routed' \in index.layers[layer][routed] /\ routed \in DOMAIN index.layers[layer]
      BY <2>7 DEF Hop
    <3>3. index.layers[layer][routed] \in SUBSET DOMAIN index.layers[layer]
      BY <2>2, <3>1, <3>2 DEF Acceptable
    <3>. QED
      BY <3>1, <3>2, <3>3
  <2>8. CASE Descend
    <3>1. layer > 0 /\ routed \in DOMAIN index.layers[layer]
      BY <2>8 DEF Descend
    <3>2. layer \in 1..top /\ routed \in LayerNodes(g, layer)
      BY <2>2, <2>3, <2>4, <3>1
    <3>3. layer' = layer - 1 /\ routed' = routed /\ pc' = "route"
      BY <2>8 DEF Descend
    <3>4. layer - 1 > 0 => layer - 1 \in 1..top /\ routed \in LayerNodes(g, layer - 1)
      BY <2>3, <3>2 DEF LayerNodes
    <3>. QED
      BY <2>2, <3>3, <3>4
  <2>9. CASE LoseRoute
    BY <2>9 DEF LoseRoute, IInv, RouteOK
  <2>. QED
    BY <2>5, <2>6, <2>7, <2>8, <2>9
<1>6. ListOK' /\ LoopOK' /\ WalkOK'
  BY <1>1 DEF ListOK, LoopOK, WalkOK, Searching, Walking
<1>. QED
  BY <1>3, <1>4, <1>5, <1>6 DEF IInv

\* The routed entry is the best of itself.
LEMMA EnterKeeps ==
  ASSUME IInv, Enter
  PROVE  IInv'
<1> USE DEF Goto
<1>1. UNCHANGED <<inputs, layer, routed, current, next, expanded, candidates, ranked>>
  BY DEF Enter
<1>2. InputsOK /\ ValidConfig /\ routed \in Nodes /\ next = 0 /\ expanded = {}
  BY TypeInputs DEF IInv, PhaseOK, SearchTypeOK, Enter
<1>3. Beam' = Beam /\ Beam \in Nat /\ Beam >= 1 /\ Size \in Nat /\ (Scans' <=> Scans)
  BY <1>1, <1>2, InputsKept, BeamType, BuildAssumption
<1>4. Cardinality(shortlist') <= Beam' /\ shortlist' \subseteq Nodes
  <2>1. shortlist' \in {{}, {routed}}
    BY DEF Enter
  <2>2. Cardinality({}) = 0 /\ Cardinality({routed}) = 1
    BY FS_EmptySet, FS_Singleton
  <2>. QED
    BY <1>2, <1>3, <2>1, <2>2
<1>5. SearchTypeOK'
  <2>1. visited' \subseteq Nodes /\ frontier' \subseteq Nodes
    BY <1>2 DEF Enter
  <2>2. pc' \in {"scan", "beam"}
    BY DEF Enter
  <2>. QED
    BY <1>1, <1>4, <2>1, <2>2 DEF IInv, SearchTypeOK, inputs
<1>6. PhaseOK' /\ RouteOK'
  <2>1. pc' = (IF Scans THEN "scan" ELSE "beam")
    BY DEF Enter
  <2>2. PhaseOK'
    <3>1. ValidConfig' /\ next' = 0 /\ (Scans' <=> Scans) /\ Size' = Size /\ 0 <= Size
      BY <1>1, <1>2, <1>3, InputsKept
    <3>. QED
      BY <2>1, <3>1 DEF PhaseOK
  <2>3. RouteOK'
    BY <2>1 DEF RouteOK
  <2>. QED
    BY <2>2, <2>3
<1>7. ListOK'
  <2>1. CASE Scans
    <3>1. shortlist' = {} /\ Considered' = {n \in Nodes : n < 0}
      BY <1>1, <1>2, <1>3, <2>1 DEF Enter, Considered
    <3>2. \A n \in Nodes : ~(n < 0)
      BY BuildAssumption DEF Nodes
    <3>. QED
      BY <3>1, <3>2 DEF ListOK, Best
  <2>2. CASE ~Scans
    <3>1. shortlist' = {routed} /\ Considered' = {routed}
      BY <1>3, <2>2 DEF Enter, Considered
    <3>. QED
      BY <3>1 DEF ListOK, Best
  <2>. QED
    BY <2>1, <2>2
<1>8. LoopOK' /\ WalkOK'
  <2>1. pc' # "links" /\ (~Scans => pc' = "beam" /\ shortlist' = {routed})
    BY DEF Enter
  <2>2. visited' = {routed} /\ frontier' = {routed} /\ routed' = routed /\ expanded' = {}
    BY <1>2 DEF Enter
  <2>. QED
    BY <1>3, <2>1, <2>2 DEF LoopOK, WalkOK, Walking
<1>. QED
  BY <1>5, <1>6, <1>7, <1>8 DEF IInv

\* The scan offers the next node.
LEMMA ScanKeeps ==
  ASSUME IInv, ScanNode
  PROVE  IInv'
<1>1. /\ UNCHANGED <<inputs, pc, layer, routed, visited, frontier, current, expanded,
                     candidates, ranked>>
      /\ pc = "scan" /\ next < Size /\ next' = next + 1 /\ shortlist' = Offered(next)
  BY DEF ScanNode
<1>2. /\ InputsOK /\ ValidConfig /\ Scans /\ next \in Nat /\ Size \in Nat
      /\ Cardinality(shortlist) <= Beam /\ shortlist \subseteq Nodes
  BY <1>1, TypeInputs, BuildAssumption DEF IInv, PhaseOK, SearchTypeOK
<1>3. next \in Nodes /\ next \notin Considered /\ Considered \in SUBSET Nodes
  BY <1>1, <1>2 DEF Considered, Nodes
<1>4. Best(shortlist, Considered)
  BY <1>1 DEF IInv, ListOK, Searching
<1>5. /\ Offered(next) \subseteq shortlist \cup {next}
      /\ Cardinality(Offered(next)) <= Beam
      /\ Best(Offered(next), Considered \cup {next})
  BY <1>2, <1>3, <1>4, OfferKeepsBest
<1>6. Beam' = Beam /\ (Scans' <=> Scans) /\ (ValidConfig' <=> ValidConfig)
  BY <1>1, InputsKept
<1>7. SearchTypeOK'
  <2>1. shortlist' \subseteq Nodes /\ Cardinality(shortlist') <= Beam'
    BY <1>1, <1>2, <1>3, <1>5, <1>6
  <2>. QED
    BY <1>1, <1>2, <2>1 DEF IInv, SearchTypeOK, inputs
<1>8. PhaseOK' /\ RouteOK'
  <2>1. next' <= Size
    BY <1>1, <1>2
  <2>. QED
    BY <1>1, <1>2, <1>6, <2>1 DEF IInv, PhaseOK, RouteOK, inputs
<1>9. ListOK'
  <2>1. Considered' = Considered \cup {next}
    BY <1>1, <1>2, <1>3, <1>6 DEF Considered, Nodes
  <2>2. Best(shortlist', Considered')
    BY <1>1, <1>5, <2>1
  <2>. QED
    BY <1>1, <2>2, BestPrimed DEF ListOK
<1>10. LoopOK' /\ WalkOK'
  BY <1>1, <1>2, <1>6 DEF LoopOK, WalkOK, Walking
<1>. QED
  BY <1>7, <1>8, <1>9, <1>10 DEF IInv

\* A step that leaves the shortlist and what was considered alone keeps the
\* shortlist the best.
LEMMA ListStays ==
  ASSUME IInv, UNCHANGED <<inputs, shortlist, visited>>, Searching,
         next' = next \/ ~Scans
  PROVE  ListOK'
<1>1. Best(shortlist, Considered)
  BY DEF IInv, ListOK
<1>2. Considered' = Considered /\ shortlist' = shortlist
  BY InputsKept DEF Considered
<1>. QED
  BY <1>1, <1>2, BestPrimed DEF ListOK

\* What is expanded leaves the frontier; its links are visited next.
LEMMA ExpandKeeps ==
  ASSUME IInv, Expand
  PROVE  IInv'
<1>1. PICK n \in frontier : current' = n /\ frontier' = frontier \ {n}
                            /\ expanded' = expanded \cup {n}
  BY DEF Expand
<1>2. /\ UNCHANGED <<inputs, layer, routed, visited, shortlist, candidates, ranked>>
      /\ pc = "beam" /\ pc' = "links" /\ next' = 1
  BY DEF Expand, Goto
<1>3. ~Scans /\ Walking /\ ValidConfig /\ n \in Nodes
  BY <1>2 DEF IInv, PhaseOK, Walking, SearchTypeOK
<1>4. Beam' = Beam /\ (Scans' <=> Scans) /\ (ValidConfig' <=> ValidConfig) /\ index' = index
  BY <1>2, InputsKept
<1>5. SearchTypeOK'
  BY <1>1, <1>2, <1>3, <1>4 DEF IInv, SearchTypeOK, inputs
<1>6. PhaseOK' /\ RouteOK'
  BY <1>2, <1>3, <1>4 DEF PhaseOK, RouteOK
<1>7. ListOK'
  BY <1>2, <1>3, ListStays DEF Searching
<1>8. LoopOK'
  <2>1. \A i \in DOMAIN index.links[n] : ~ (i < 1)
    BY <1>3, TypeInputs DEF IInv
  <2>. QED
    BY <1>1, <1>2, <1>3, <1>4, <2>1 DEF LoopOK
<1>9. WalkOK'
  <2>1. /\ routed \in visited /\ shortlist \subseteq expanded \cup frontier
        /\ \A m \in expanded : Targets(m) \subseteq visited
    BY <1>2, <1>3 DEF IInv, WalkOK
  <2>2. \A m \in expanded : Targets(m)' = Targets(m)
    BY <1>4 DEF Targets
  <2>. QED
    BY <1>1, <1>2, <2>1, <2>2 DEF WalkOK
<1>. QED
  BY <1>5, <1>6, <1>7, <1>8, <1>9 DEF IInv

\* A link is followed: its node is new or not, competitive or not.
LEMMA VisitLinkKeeps ==
  ASSUME IInv, VisitLink
  PROVE  IInv'
<1>. DEFINE n == index.links[current][next]
<1>1. /\ UNCHANGED <<inputs, pc, layer, routed, current, expanded, candidates, ranked>>
      /\ pc = "links" /\ next <= Len(index.links[current])
      /\ visited' = visited \cup {n} /\ next' = next + 1
  BY DEF VisitLink
<1>2. /\ InputsOK /\ ValidConfig /\ ~Scans /\ next \in Nat
      /\ Cardinality(shortlist) <= Beam /\ shortlist \subseteq Nodes
      /\ current \in Nodes /\ index.links[current] \in Seq(Nodes) /\ visited \subseteq Nodes
  BY <1>1, TypeInputs DEF IInv, PhaseOK, SearchTypeOK, LoopOK
<1>3. Beam' = Beam /\ (Scans' <=> Scans) /\ (ValidConfig' <=> ValidConfig) /\ index' = index
  BY <1>1, InputsKept
<1>4. next >= 1 /\ next \in DOMAIN index.links[current] /\ n \in Nodes
  BY <1>1, <1>2 DEF IInv, LoopOK
<1>5. Considered = visited /\ Considered' = visited \cup {n}
      /\ Best(shortlist, visited)
  BY <1>1, <1>2, <1>3 DEF Considered, IInv, ListOK, Searching
<1>6. /\ shortlist' \subseteq shortlist \cup {n} /\ Cardinality(shortlist') <= Beam
      /\ frontier' \subseteq frontier \cup {n} /\ frontier \subseteq frontier'
      /\ n \in shortlist' => n \in shortlist \/ n \in frontier'
      /\ Best(shortlist', visited \cup {n})
  <2>1. CASE n \notin visited /\ Competitive(n)
    <3>1. frontier' = frontier \cup {n} /\ shortlist' = Offered(n)
      BY <2>1 DEF VisitLink
    <3>2. /\ Offered(n) \subseteq shortlist \cup {n} /\ Cardinality(Offered(n)) <= Beam
          /\ Best(Offered(n), visited \cup {n})
      BY <1>2, <1>4, <1>5, <2>1, OfferKeepsBest
    <3>. QED
      BY <3>1, <3>2
  <2>2. CASE n \in visited
    <3>1. frontier' = frontier /\ shortlist' = shortlist /\ visited \cup {n} = visited
      BY <2>2 DEF VisitLink
    <3>. QED
      BY <1>2, <1>5, <3>1
  <2>3. CASE n \notin visited /\ ~Competitive(n)
    <3>1. frontier' = frontier /\ shortlist' = shortlist
      BY <2>3 DEF VisitLink
    <3>2. Full /\ \A s \in shortlist : ~Nearer(n, s)
      BY <2>3 DEF Competitive
    <3>3. n \notin shortlist
      BY <1>5, <2>3 DEF Best
    <3>4. \A s \in shortlist : Nearer(s, n)
      BY <1>2, <1>4, <3>2, <3>3, NearerOrder
    <3>5. Best(shortlist, visited \cup {n})
      BY <1>5, <3>2, <3>4 DEF Best, Full
    <3>. QED
      BY <1>2, <3>1, <3>5
  <2>. QED
    BY <2>1, <2>2, <2>3
<1>7. SearchTypeOK'
  <2>1. visited' \subseteq Nodes /\ frontier' \subseteq Nodes /\ shortlist' \subseteq Nodes
    BY <1>1, <1>2, <1>4, <1>6 DEF IInv, SearchTypeOK
  <2>. QED
    BY <1>1, <1>2, <1>3, <1>6, <2>1 DEF IInv, SearchTypeOK, inputs
<1>8. PhaseOK' /\ RouteOK'
  BY <1>1, <1>2, <1>3 DEF PhaseOK, RouteOK
<1>9. ListOK'
  BY <1>1, <1>5, <1>6, BestPrimed DEF ListOK
<1>10. LoopOK'
  <2>1. \A i \in DOMAIN index.links[current] :
          i < next + 1 => i < next \/ i = next
    BY <1>2
  <2>. QED
    BY <1>1, <1>2, <1>3, <2>1 DEF IInv, LoopOK
<1>11. WalkOK'
  <2>1. /\ routed \in visited /\ shortlist \subseteq expanded \cup frontier
        /\ \A m \in expanded : Targets(m) \subseteq visited \/ m = current
    BY <1>1, <1>2 DEF IInv, WalkOK, Walking
  <2>2. \A m \in expanded : Targets(m)' = Targets(m)
    BY <1>3 DEF Targets
  <2>3. shortlist' \subseteq expanded \cup frontier'
    BY <1>6, <2>1
  <2>. QED
    BY <1>1, <2>1, <2>2, <2>3 DEF WalkOK
<1>. QED
  BY <1>7, <1>8, <1>9, <1>10, <1>11 DEF IInv

\* At the end of the inner loop all links of the node have been visited.
LEMMA LinksDoneKeeps ==
  ASSUME IInv, LinksDone
  PROVE  IInv'
<1>1. /\ UNCHANGED <<inputs, layer, routed, visited, frontier, shortlist, current, next,
                     expanded, candidates, ranked>>
      /\ pc = "links" /\ pc' = "beam" /\ next > Len(index.links[current])
  BY DEF LinksDone, Goto
<1>2. /\ ~Scans /\ ValidConfig /\ current \in Nodes /\ next \in Nat
      /\ index.links[current] \in Seq(Nodes)
  BY <1>1, TypeInputs DEF IInv, PhaseOK, LoopOK, SearchTypeOK
<1>3. Beam' = Beam /\ (Scans' <=> Scans) /\ (ValidConfig' <=> ValidConfig) /\ index' = index
  BY <1>1, InputsKept
<1>4. SearchTypeOK'
  BY <1>1, <1>3 DEF IInv, SearchTypeOK, inputs
<1>5. PhaseOK' /\ RouteOK' /\ LoopOK'
  BY <1>1, <1>2, <1>3 DEF PhaseOK, RouteOK, LoopOK
<1>6. ListOK'
  BY <1>1, ListStays DEF Searching
<1>7. WalkOK'
  <2>1. \A i \in DOMAIN index.links[current] : i < next
    BY <1>1, <1>2
  <2>2. Targets(current) \subseteq visited
    BY <1>1, <2>1 DEF IInv, LoopOK, Targets
  <2>3. /\ routed \in visited /\ shortlist \subseteq expanded \cup frontier
        /\ \A m \in expanded : Targets(m) \subseteq visited
    BY <1>1, <1>2, <2>2 DEF IInv, WalkOK, Walking
  <2>4. \A m \in expanded : Targets(m)' = Targets(m)
    BY <1>3 DEF Targets
  <2>. QED
    BY <1>1, <2>3, <2>4 DEF WalkOK
<1>. QED
  BY <1>4, <1>5, <1>6, <1>7 DEF IInv

\* When the beam stops nothing of the shortlist waits in the frontier: the
\* nearest that waits is farther than all of it.
LEMMA ChooseKeeps ==
  ASSUME IInv, Choose
  PROVE  IInv'
<1>1. /\ UNCHANGED <<inputs, layer, routed, visited, frontier, shortlist, current, next,
                     expanded, ranked>>
      /\ pc \in {"scan", "beam"} /\ pc' = "recompute"
      /\ candidates' = First(query.approx, shortlist, ExactBudget)
      /\ pc = "beam" => \A n \in frontier : NearestInFrontier(n) => Hopeless(n)
  BY DEF Choose
<1>2. /\ InputsOK /\ ValidConfig /\ frontier \subseteq Nodes /\ shortlist \subseteq Nodes
      /\ pc = "scan" => Scans
  BY <1>1, TypeInputs DEF IInv, PhaseOK, SearchTypeOK
<1>3. Beam' = Beam /\ (Scans' <=> Scans) /\ (ValidConfig' <=> ValidConfig) /\ index' = index
  BY <1>1, InputsKept
<1>4. SearchTypeOK'
  <2>1. candidates' \subseteq Nodes
    BY <1>1, <1>2 DEF First
  <2>. QED
    BY <1>1, <1>3, <2>1 DEF IInv, SearchTypeOK, inputs
<1>5. PhaseOK' /\ RouteOK' /\ LoopOK'
  BY <1>1, <1>2, <1>3 DEF PhaseOK, RouteOK, LoopOK
<1>6. ListOK'
  BY <1>1, ListStays DEF Searching
<1>7. WalkOK'
  <2>. SUFFICES ASSUME ~Scans PROVE WalkOK'
    BY <1>3 DEF WalkOK, Walking
  <2>1. pc = "beam" /\ Walking
    BY <1>1, <1>2 DEF Walking
  <2>2. /\ routed \in visited /\ shortlist \subseteq expanded \cup frontier
        /\ \A m \in expanded : Targets(m) \subseteq visited
    BY <2>1 DEF IInv, WalkOK
  <2>3. shortlist \cap frontier = {}
    <3>. SUFFICES ASSUME NEW s \in shortlist, s \in frontier PROVE FALSE
      OBVIOUS
    <3>1. PICK m \in frontier : \A other \in frontier : ~Nearer(other, m)
      BY <1>2, NearerOrder, NearestExists DEF Nearer
    <3>2. Hopeless(m)
      BY <1>1, <2>1, <3>1 DEF NearestInFrontier
    <3>. QED
      BY <3>1, <3>2 DEF Hopeless
  <2>4. \A m \in expanded : Targets(m)' = Targets(m)
    BY <1>3 DEF Targets
  <2>. QED
    BY <1>1, <2>2, <2>3, <2>4 DEF WalkOK
<1>. QED
  BY <1>4, <1>5, <1>6, <1>7 DEF IInv

\* Recomputation and its end leave the shortlist as it is.
LEMMA LateKeeps ==
  ASSUME IInv, Recompute \/ Answer \/ Throw
  PROVE  IInv'
<1>1. /\ UNCHANGED <<inputs, layer, routed, visited, frontier, shortlist, current, next,
                     expanded>>
      /\ pc \in {"embed", "recompute"} /\ pc' \in {"recompute", "answered", "failed"}
      /\ pc = "embed" => pc' = "failed"
  BY DEF Recompute, Answer, Throw, Goto
<1>2. /\ candidates' \subseteq candidates /\ ranked' \subseteq ranked \cup candidates
  BY DEF Recompute, Answer, Throw, First
<1>3. Beam' = Beam /\ (Scans' <=> Scans) /\ (ValidConfig' <=> ValidConfig) /\ index' = index
  BY <1>1, InputsKept
<1>4. SearchTypeOK'
  BY <1>1, <1>2, <1>3 DEF IInv, SearchTypeOK, inputs, Final
<1>5. PhaseOK' /\ RouteOK' /\ LoopOK'
  BY <1>1, <1>3 DEF IInv, PhaseOK, RouteOK, LoopOK
<1>6. CASE pc = "embed"
  BY <1>1, <1>4, <1>5, <1>6 DEF IInv, ListOK, WalkOK, Searching, Walking
<1>7. CASE pc = "recompute"
  <2>1. ListOK'
    BY <1>1, <1>7, ListStays DEF Searching
  <2>2. WalkOK'
    <3>. SUFFICES ASSUME ~Scans PROVE WalkOK'
      BY <1>3 DEF WalkOK, Walking
    <3>1. /\ routed \in visited /\ shortlist \subseteq expanded
          /\ \A m \in expanded : Targets(m) \subseteq visited
      BY <1>7 DEF IInv, WalkOK, Walking
    <3>2. \A m \in expanded : Targets(m)' = Targets(m)
      BY <1>3 DEF Targets
    <3>. QED
      BY <1>1, <3>1, <3>2 DEF WalkOK
  <2>. QED
    BY <1>4, <1>5, <2>1, <2>2 DEF IInv
<1>. QED
  BY <1>1, <1>6, <1>7

\* A step that changes nothing.
LEMMA StutterKeeps ==
  ASSUME IInv, UNCHANGED vars
  PROVE  IInv'
<1>1. UNCHANGED <<inputs, pc, layer, routed, visited, frontier, shortlist, current, next,
                  expanded, candidates, ranked>>
  BY DEF vars
<1>2. Beam' = Beam /\ (Scans' <=> Scans) /\ (ValidConfig' <=> ValidConfig) /\ index' = index
  BY <1>1, InputsKept
<1>3. SearchTypeOK' /\ PhaseOK' /\ RouteOK' /\ LoopOK'
  BY <1>1, <1>2 DEF IInv, SearchTypeOK, PhaseOK, RouteOK, LoopOK, inputs
<1>4. ListOK'
  <2>1. CASE Searching
    BY <1>1, <2>1, ListStays
  <2>2. CASE ~Searching
    BY <1>1, <2>2 DEF ListOK, Searching
  <2>. QED
    BY <2>1, <2>2
<1>5. WalkOK'
  <2>1. \A m \in expanded : Targets(m)' = Targets(m)
    BY <1>2 DEF Targets
  <2>. QED
    BY <1>1, <1>2, <2>1 DEF IInv, WalkOK, Walking
<1>. QED
  BY <1>3, <1>4, <1>5 DEF IInv

\* The types, the phases, the route, the shortlist, the inner loop and the
\* frontier together are an inductive invariant of the search.
THEOREM Invariance == Spec => []IInv
<1>1. IInv /\ [Next \/ Done]_vars => IInv'
  <2> SUFFICES ASSUME IInv, [Next \/ Done]_vars PROVE IInv'
    OBVIOUS
  <2>1. CASE Next
    BY <2>1, EarlyKeeps, EnterKeeps, ScanKeeps, ExpandKeeps, VisitLinkKeeps,
       LinksDoneKeeps, ChooseKeeps, LateKeeps DEF Next
  <2>2. CASE Done \/ UNCHANGED vars
    BY <2>2, StutterKeeps DEF Done
  <2>. QED
    BY <2>1, <2>2
<1>. QED
  BY InitInv, <1>1, PTL DEF Spec

-----------------------------------------------------------------------------
\* Whatever the index, the distances and the configuration: the search is well
\* typed and its shortlist never exceeds the beam.
THEOREM TypeCorrect == Spec => []SearchTypeOK
<1>1. IInv => SearchTypeOK
  BY DEF IInv
<1>. QED
  BY <1>1, Invariance, PTL

\* The shortlist is at every point the best of what was considered.
THEOREM ShortlistHolds == Spec => []ShortlistIsBest
<1>1. IInv => ShortlistIsBest
  BY DEF IInv, ListOK, Best, ShortlistIsBest, Full
<1>. QED
  BY <1>1, Invariance, PTL

\* The beam never stops before the shortlist is a local optimum of its graph.
LEMMA BeamComplete ==
  ASSUME IInv, pc \in {"recompute", "answered"}, ~Scans
  PROVE  /\ routed \in visited /\ shortlist \subseteq visited /\ visited \subseteq Nodes
         /\ \A s \in shortlist : Targets(s) \subseteq visited
         /\ \A m \in visited \ shortlist : Full /\ \A s \in shortlist : Nearer(s, m)
<1>1. Walking /\ Searching /\ Considered = visited
  BY DEF Walking, Searching, Considered
<1>2. Best(shortlist, visited)
  BY <1>1 DEF IInv, ListOK
<1>3. /\ routed \in visited /\ shortlist \subseteq expanded
      /\ \A m \in expanded : Targets(m) \subseteq visited
  BY <1>1 DEF IInv, WalkOK
<1>. QED
  BY <1>2, <1>3 DEF Best, Full, IInv, SearchTypeOK

\* No link of the final shortlist leads to a node that belongs on it
\* (index.cpp:1166-1174).
THEOREM LocallyBestHolds == Spec => []LocallyBest
<1>1. IInv => LocallyBest
  BY BeamComplete DEF LocallyBest
<1>. QED
  BY <1>1, Invariance, PTL

\* A beam as long as the index finds all that its graph leads to.
THEOREM FindsReachableHolds == Spec => []FindsReachable
<1>1. IInv => FindsReachable
  <2>. SUFFICES ASSUME IInv, pc \in {"recompute", "answered"}, ~Scans, Beam = Size
                PROVE  Reachable \subseteq shortlist
    BY DEF FindsReachable
  <2>1. visited \subseteq shortlist
    <3>. SUFFICES ASSUME NEW m \in visited, m \notin shortlist PROVE FALSE
      OBVIOUS
    <3>1. shortlist \in SUBSET Nodes /\ m \in Nodes /\ Cardinality(shortlist) >= Size
      BY BeamComplete DEF Full
    <3>2. IsFiniteSet(shortlist) /\ Cardinality(shortlist) <= Size
          /\ (Cardinality(shortlist) = Size => shortlist = Nodes)
      BY <3>1, NodesFinite, FS_Subset
    <3>3. Cardinality(shortlist) \in Nat /\ Size \in Nat
      BY <3>2, FS_CardinalityType, BuildAssumption
    <3>. QED
      BY <3>1, <3>2, <3>3
  <2>2. shortlist \in SUBSET Nodes /\ routed \in shortlist /\ Closed(shortlist)
    BY <2>1, BeamComplete DEF Closed
  <2>. QED
    BY <2>2 DEF Reachable
<1>. QED
  BY <1>1, Invariance, PTL

\* Whatever levels hnswlib drew: an index that was built is accepted and never
\* loses the route.
THEOREM RouteHolds == Spec => []RouteNeverLost
<1>1. IInv => RouteNeverLost
  BY TypeInputs DEF IInv, RouteOK, RouteNeverLost
<1>. QED
  BY <1>1, Invariance, PTL

-----------------------------------------------------------------------------
\* The nearest k of a list that is the best of what was considered are the
\* nearest k of all that was considered, as long as k is within the beam.
LEMMA FirstOfBest ==
  ASSUME InputsOK, NEW C \in SUBSET Nodes, NEW S, Best(S, C),
         NEW k \in Nat, k <= Beam, Beam \in Nat
  PROVE  First(query.approx, S, k) = First(query.approx, C, k)
<1>. DEFINE Closer(T, a) == {b \in T : Before(query.approx, b, a)}
<1>1. S \subseteq C /\ IsFiniteSet(C) /\ IsFiniteSet(S)
  BY NodesFinite, FS_Subset DEF Best
<1>2. ASSUME NEW a \in S
      PROVE  Closer(S, a) = Closer(C, a)
  <2>1. \A m \in C \ S : ~Nearer(m, a)
    <3>. SUFFICES ASSUME NEW m \in C \ S, Nearer(m, a) PROVE FALSE
      OBVIOUS
    <3>1. Nearer(a, m)
      BY DEF Best
    <3>. QED
      BY <1>1, <3>1, NearerOrder
  <2>. QED
    BY <1>1, <2>1 DEF Nearer
<1>3. ASSUME NEW a \in C \ S
      PROVE  ~ (Cardinality(Closer(C, a)) < k)
  <2>1. S \subseteq Closer(C, a) /\ Closer(C, a) \subseteq C
    BY <1>1 DEF Best, Nearer
  <2>2. IsFiniteSet(Closer(C, a))
    BY <1>1, <2>1, FS_Subset
  <2>3. Cardinality(S) <= Cardinality(Closer(C, a))
    BY <2>1, <2>2, FS_Subset
  <2>4. Cardinality(S) \in Nat /\ Cardinality(Closer(C, a)) \in Nat
    BY <1>1, <2>2, FS_CardinalityType
  <2>5. Cardinality(S) >= Beam
    BY DEF Best
  <2>. HIDE DEF Closer
  <2>. QED
    BY <2>3, <2>4, <2>5
<1>4. \A T : First(query.approx, T, k) = {a \in T : Cardinality(Closer(T, a)) < k}
  BY DEF First, Rank
<1>. HIDE DEF Closer
<1>. QED
  BY <1>1, <1>2, <1>3, <1>4

\* A division that rounds up loses nothing.
LEMMA CeilingAtLeast ==
  ASSUME NEW e \in Nat, NEW x \in Nat, NEW y \in Nat \ {0}, x >= e * y
  PROVE  Ceiling(x, y) >= e
<1>. DEFINE q == (x + y - 1) \div y
<1>1. q \in Nat /\ e * y \in Nat
  OBVIOUS
<1>2. y * q <= x + y - 1 /\ x + y - 1 < y * q + y
  <2>1. \A n \in Nat, m \in Nat \ {0} : m * (n \div m) <= n /\ n < m * (n \div m) + m
    BY SMT
  <2>2. x + y - 1 \in Nat
    OBVIOUS
  <2>. QED
    BY <2>1, <2>2
<1>3. \A a, b \in Nat : a < b => y * a + y <= b * y
  <2>. SUFFICES ASSUME NEW a \in Nat, NEW b \in Nat, a < b PROVE y * a + y <= b * y
    OBVIOUS
  <2>1. PICK k \in Nat : b = a + 1 + k
    <3>1. b - a - 1 \in Nat /\ b = a + 1 + (b - a - 1)
      OBVIOUS
    <3>. QED
      BY <3>1
  <2>2. k * y \in Nat /\ (a + 1 + k) * y = y * a + y + k * y
    OBVIOUS
  <2>. QED
    BY <2>1, <2>2
<1>. HIDE DEF q
<1>4. ~ (q < e)
  <2>. SUFFICES ASSUME q < e PROVE FALSE
    OBVIOUS
  <2>1. y * q + y <= e * y
    BY <1>1, <1>3
  <2>2. y * q \in Nat
    BY <1>1
  <2>. HIDE DEF q
  <2>. QED
    BY <1>1, <1>2, <2>1, <2>2
<1>. QED
  BY <1>1, <1>4 DEF Ceiling, q

\* The shortlist is no shorter than what is recomputed of it.
LEMMA BeamCovers ==
  ASSUME InputsOK, ValidConfig
  PROVE  ExactBudget \in Nat /\ ExactBudget <= Beam
<1>1. /\ config.ef_search \in Nat /\ config.ratio[1] \in Nat \ {0} /\ config.ratio[2] \in Nat
      /\ config.ratio[2] >= config.ratio[1] /\ Size \in Nat
  BY SearchAssumption, BuildAssumption DEF InputsOK, ValidConfig
<1>2. ExactBudget \in Nat /\ ExactBudget <= Size
  BY <1>1 DEF ExactBudget
<1>3. \A e, a, b \in Nat : b >= a => e * b \in Nat /\ e * b >= e * a
  <2>. SUFFICES ASSUME NEW e \in Nat, NEW a \in Nat, NEW b \in Nat, b >= a
                PROVE  e * b \in Nat /\ e * b >= e * a
    OBVIOUS
  <2>1. PICK k \in Nat : b = a + k
    <3>1. b - a \in Nat /\ b = a + (b - a)
      OBVIOUS
    <3>. QED
      BY <3>1
  <2>2. e * k \in Nat /\ e * a \in Nat /\ e * (a + k) = e * a + e * k
    OBVIOUS
  <2>. QED
    BY <2>1, <2>2
<1>4. Ceiling(ExactBudget * config.ratio[2], config.ratio[1]) >= ExactBudget
  <2>1. /\ ExactBudget * config.ratio[2] \in Nat
        /\ ExactBudget * config.ratio[2] >= ExactBudget * config.ratio[1]
    BY <1>1, <1>2, <1>3
  <2>. QED
    BY <1>1, <1>2, <2>1, CeilingAtLeast
<1>5. Beam \in Nat
  BY BeamNat
<1>. QED
  BY <1>2, <1>4, <1>5 DEF Beam

\* What is recomputed of the shortlist.
Budgeted == First(query.approx, shortlist, ExactBudget)

\* No batch loses a candidate, and a scan is only over with the last node.
AnswerOK ==
  /\ pc = "recompute" => candidates \cup ranked = Budgeted
  /\ pc = "answered" => ranked = First(query.exact, Budgeted, config.top_k)
  /\ pc \in {"recompute", "answered"} /\ Scans => next = Size
  /\ pc \notin {"recompute", "answered", "failed"} => ranked = {}

LEMMA BudgetedKept ==
  ASSUME UNCHANGED <<inputs, shortlist>>
  PROVE  Budgeted' = Budgeted
BY InputsKept DEF Budgeted

\* Batches move candidates over until none is left.
LEMMA AnswerKeeps ==
  ASSUME IInv, AnswerOK, [Next \/ Done]_vars
  PROVE  AnswerOK'
<1>1. CASE Choose
  <2>1. /\ UNCHANGED <<inputs, shortlist, next, ranked>> /\ pc' = "recompute"
        /\ candidates' = Budgeted
        /\ (pc = "scan" /\ next = Size) \/ pc = "beam"
    BY <1>1 DEF Choose, Budgeted
  <2>2. ranked = {} /\ Budgeted' = Budgeted /\ (Scans' <=> Scans)
    BY <2>1, BudgetedKept, InputsKept DEF AnswerOK
  <2>3. Scans => next' = Size
    BY <2>1 DEF IInv, PhaseOK
  <2>. QED
    BY <2>1, <2>2, <2>3 DEF AnswerOK
<1>2. CASE Recompute
  <2>1. /\ UNCHANGED <<inputs, shortlist, next, pc>> /\ pc = "recompute"
        /\ candidates' \cup ranked' = candidates \cup ranked
    BY <1>2 DEF Recompute, First
  <2>2. Budgeted' = Budgeted /\ (Scans' <=> Scans)
    BY <2>1, BudgetedKept, InputsKept
  <2>. QED
    BY <2>1, <2>2 DEF AnswerOK
<1>3. CASE Answer
  <2>1. /\ UNCHANGED <<inputs, shortlist, next>> /\ pc = "recompute" /\ pc' = "answered"
        /\ candidates = {} /\ ranked' = First(query.exact, ranked, config.top_k)
    BY <1>3 DEF Answer, Goto
  <2>2. Budgeted' = Budgeted /\ (Scans' <=> Scans) /\ query' = query /\ config' = config
    BY <2>1, BudgetedKept, InputsKept
  <2>3. ranked = Budgeted
    BY <2>1 DEF AnswerOK
  <2>. QED
    BY <2>1, <2>2, <2>3 DEF AnswerOK
<1>4. CASE Throw
  BY <1>4 DEF Throw, Goto, AnswerOK
<1>5. CASE Validate \/ EmbedQuery \/ Hop \/ Descend \/ LoseRoute \/ Enter \/ ScanNode
           \/ Expand \/ VisitLink \/ LinksDone
  <2>1. /\ ranked' = ranked /\ pc \notin {"recompute", "answered", "failed"}
        /\ pc' \notin {"recompute", "answered", "failed"}
    BY <1>5 DEF Validate, EmbedQuery, Hop, Descend, LoseRoute, Enter, ScanNode, Expand,
       VisitLink, LinksDone, Goto
  <2>. QED
    BY <2>1 DEF AnswerOK
<1>6. CASE Done \/ UNCHANGED vars
  <2>1. UNCHANGED <<inputs, shortlist, next, pc, candidates, ranked>>
    BY <1>6 DEF Done, vars
  <2>2. Budgeted' = Budgeted /\ (Scans' <=> Scans) /\ query' = query /\ config' = config
    BY <2>1, BudgetedKept, InputsKept
  <2>. QED
    BY <2>1, <2>2 DEF AnswerOK
<1>. QED
  BY <1>1, <1>2, <1>3, <1>4, <1>5, <1>6 DEF Next

\* Whatever beam, budget and batches: the answer is the nearest by code, as
\* many as may be recomputed, ranked by exact distance; a scan has left no
\* node of the corpus out (index.cpp:1126-1276).
THEOREM AnswerHolds == Spec => []AnswerIsReference
<1>1. Init => AnswerOK
  BY DEF Init, AnswerOK
<1>2. IInv /\ AnswerOK => AnswerIsReference
  <2>. SUFFICES ASSUME IInv, AnswerOK, pc = "answered"
                PROVE  Budgeted = First(query.approx, IF Scans THEN Nodes ELSE shortlist,
                                        ExactBudget)
    BY DEF AnswerIsReference, AnswerOK
  <2>1. CASE ~Scans
    BY <2>1 DEF Budgeted
  <2>2. CASE Scans
    <3>1. next = Size /\ Considered = Nodes
      <4>1. next = Size
        BY <2>2 DEF AnswerOK
      <4>2. \A n \in Nodes : n < Size
        BY BuildAssumption DEF Nodes
      <4>. QED
        BY <2>2, <4>1, <4>2 DEF Considered
    <3>2. Best(shortlist, Nodes)
      BY <3>1 DEF IInv, ListOK, Searching
    <3>3. InputsOK /\ ValidConfig
      BY TypeInputs DEF IInv, PhaseOK
    <3>4. ExactBudget \in Nat /\ ExactBudget <= Beam /\ Beam \in Nat
      BY <3>3, BeamCovers, BeamNat
    <3>. QED
      BY <2>2, <3>2, <3>3, <3>4, FirstOfBest DEF Budgeted
  <2>. QED
    BY <2>1, <2>2
<1>3. AnswerOK /\ IInv /\ [Next \/ Done]_vars => AnswerOK'
  BY AnswerKeeps
<1>. QED
  BY <1>1, <1>2, <1>3, Invariance, PTL DEF Spec

\* A link that is stored at one end only is missing at an end whose list is
\* full of nearer ones (index.cpp:591-629): both ends knew of it before the cap.
THEOREM OneWayHolds == Spec => []OneWayOnlyWhenFull
<1>1. IInv => OneWayOnlyWhenFull
  <2>. SUFFICES ASSUME IInv, corpus # None, NEW a \in Nodes, NEW b \in Nodes,
                       a \in Targets(b), b \notin Targets(a)
                PROVE  /\ Cardinality(Targets(a)) = MaximumDegree
                       /\ \A c \in Targets(a) : Before(corpus.gap[a], c, b)
    BY DEF OneWayOnlyWhenFull
  <2>. DEFINE base == corpus.graph.base
              gap == corpus.gap
  <2>1. corpus \in Corpora /\ index = Built(corpus.graph, corpus.gap)
    BY DEF IInv, SearchTypeOK
  <2>2. \A n \in Nodes : /\ gap[n] \in [Nodes -> Nat] /\ Linked(base, gap, n) \in SUBSET Nodes
                         /\ Targets(n) = First(gap[n], Linked(base, gap, n), MaximumDegree)
    <3>. SUFFICES ASSUME NEW n \in Nodes
                  PROVE  /\ gap[n] \in [Nodes -> Nat] /\ Linked(base, gap, n) \in SUBSET Nodes
                         /\ Targets(n) = First(gap[n], Linked(base, gap, n), MaximumDegree)
      OBVIOUS
    <3>1. index.links[n] = Links(base, gap, n)
      BY <2>1 DEF Built
    <3>2. Targets(n) = {Links(base, gap, n)[i] : i \in DOMAIN Links(base, gap, n)}
      BY <3>1 DEF Targets
    <3>. QED
      BY <2>1, <3>2, BuiltLinks
  <2>3. a \in Linked(base, gap, b)
    BY <2>2 DEF First
  <2>4. b \in Linked(base, gap, a)
    BY <2>3 DEF Linked
  <2>5. MaximumDegree \in Nat
    BY BuildAssumption DEF MaximumDegree
  <2>. HIDE DEF base, gap
  <2>. QED
    BY <2>2, <2>4, <2>5, FirstFacts DEF gap
<1>. QED
  BY <1>1, Invariance, PTL
===============================================================================
