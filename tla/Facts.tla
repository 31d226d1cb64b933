------------------------------- MODULE Facts --------------------------------
(***************************************************************************)
(* Facts about numbers, finite sets, sequences and sums of amounts that the  *)
(* proofs of the other modules need.  Induction is stated with a set of the  *)
(* things that satisfy the claim (T, C below) in place of a predicate.       *)
(***************************************************************************)
EXTENDS SequencesExt, SequenceTheorems, FiniteSetTheorems, WellFoundedInduction, TLAPS

(* Every non-empty set of naturals has a least element. *)
LEMMA LeastExists ==
  ASSUME NEW T, T \subseteq Nat, T # {}
  PROVE  \E x \in T : \A y \in T : x <= y
<1> DEFINE R == OpToRel(<, Nat)
<1>1. IsWellFoundedOn(R, Nat)
  BY NatLessThanWellFounded
<1>2. \A x, y \in Nat : x < y => <<x, y>> \in R
  BY DEF OpToRel
<1> HIDE DEF R
<1>3. PICK x \in T : \A y \in T : ~ (<<y, x>> \in R)
  BY <1>1, WFMin
<1>4. ASSUME NEW y \in T PROVE x <= y
  <2>1. x \in Nat /\ y \in Nat /\ ~(y < x)
    BY <1>2, <1>3
  <2> QED
    BY <2>1
<1> QED
  BY <1>4

(* Min is the least element of a set of numbers, *)
LEMMA MinIs ==
  ASSUME NEW T, T \subseteq Nat, T # {}
  PROVE  Min(T) \in T /\ \A y \in T : Min(T) <= y
<1>1. \E x \in T : \A y \in T : x <= y
  BY LeastExists
<1> QED
  BY <1>1 DEF Min

(* and Max the greatest of a set that has an upper bound. *)
LEMMA MaxIs ==
  ASSUME NEW n \in Nat, NEW T, T \subseteq 0..n, T # {}
  PROVE  Max(T) \in T /\ \A y \in T : Max(T) >= y
<1> DEFINE D == {n - x : x \in T}
<1>1. D \subseteq Nat /\ D # {}
  <2>1. PICK x \in T : TRUE
    OBVIOUS
  <2>2. n - x \in D
    BY <2>1
  <2>3. ASSUME NEW y \in T PROVE n - y \in Nat
    <3>1. y \in 0..n
      OBVIOUS
    <3> QED
      BY <3>1
  <2> QED
    BY <2>2, <2>3
<1> HIDE DEF D
<1>2. PICK d \in D : \A e \in D : d <= e
  BY <1>1, LeastExists
<1>3. PICK x \in T : d = n - x
  BY <1>2 DEF D
<1>4. ASSUME NEW y \in T PROVE x >= y
  <2>1. n - y \in D
    BY DEF D
  <2>2. n - x <= n - y /\ x \in Nat /\ y \in Nat
    BY <1>2, <1>3, <2>1
  <2> QED
    BY <2>2
<1> QED
  BY <1>3, <1>4 DEF Max

(* What holds of 0 and goes from each number to the next holds of all. *)
LEMMA Climbing ==
  ASSUME NEW T, 0 \in T, \A n \in Nat : n \in T => n + 1 \in T
  PROVE  Nat \subseteq T
<1> DEFINE U == Nat \ T
<1>1. ASSUME U # {} PROVE FALSE
  <2>1. PICK m \in U : \A y \in U : m <= y
    BY <1>1, LeastExists
  <2>2. m \in Nat /\ m # 0 /\ m \notin T
    BY <2>1
  <2>3. m - 1 \in Nat /\ ~(m <= m - 1) /\ (m - 1) + 1 = m
    BY <2>2
  <2>4. m - 1 \in T
    BY <2>1, <2>3
  <2> QED
    BY <2>2, <2>3, <2>4
<1> QED
  BY <1>1

(* The sizes of the subsets of a finite set. *)
LEMMA Sizes ==
  ASSUME NEW S, IsFiniteSet(S), NEW s \in SUBSET S
  PROVE  IsFiniteSet(s) /\ Cardinality(s) \in Nat /\ (Cardinality(s) = 0 <=> s = {})
<1>1. IsFiniteSet(s)
  BY FS_Subset
<1> QED
  BY <1>1, FS_CardinalityType, FS_EmptySet

(* A proper subset is smaller. *)
LEMMA Fewer ==
  ASSUME NEW S, IsFiniteSet(S), NEW s \in SUBSET S, NEW r \in SUBSET s, r # s
  PROVE  Cardinality(r) \in Nat /\ Cardinality(r) < Cardinality(s)
<1>1. IsFiniteSet(s) /\ Cardinality(s) \in Nat /\ Cardinality(r) \in Nat
  BY Sizes
<1>2. Cardinality(r) <= Cardinality(s) /\ (Cardinality(r) = Cardinality(s) => r = s)
  BY <1>1, FS_Subset
<1> QED
  BY <1>1, <1>2

(* What holds of a subset of a finite set whenever it holds of the smaller   *)
(* ones holds of all.                                                        *)
LEMMA Shrinking ==
  ASSUME NEW S, IsFiniteSet(S), NEW C,
         \A s \in SUBSET S : (\A r \in SUBSET s : r # s => r \in C) => s \in C
  PROVE  SUBSET S \subseteq C
<1> DEFINE T == {n \in Nat : \A s \in SUBSET S : Cardinality(s) < n => s \in C}
<1>1. 0 \in T
  <2>1. ASSUME NEW s \in SUBSET S, Cardinality(s) < 0 PROVE s \in C
    BY <2>1, Sizes
  <2> QED
    BY <2>1
<1>2. ASSUME NEW n \in Nat, n \in T PROVE n + 1 \in T
  <2>1. ASSUME NEW s \in SUBSET S, Cardinality(s) < n + 1 PROVE s \in C
    <3>1. ASSUME NEW r \in SUBSET s, r # s PROVE r \in C
      <4>1. Cardinality(r) \in Nat /\ Cardinality(r) < Cardinality(s) /\ Cardinality(s) \in Nat
        BY <3>1, Fewer, Sizes
      <4>2. Cardinality(r) < n
        BY <2>1, <4>1
      <4> QED
        BY <1>2, <4>2
    <3> QED
      BY <3>1
  <2> QED
    BY <2>1
<1>3. Nat \subseteq T
  <2> HIDE DEF T
  <2>1. \A n \in Nat : n \in T => n + 1 \in T
    BY <1>2
  <2> QED
    BY <1>1, <2>1, Climbing
<1>4. ASSUME NEW s \in SUBSET S PROVE s \in C
  <2>1. Cardinality(s) \in Nat
    BY Sizes
  <2>2. Cardinality(s) + 1 \in T /\ Cardinality(s) < Cardinality(s) + 1
    BY <1>3, <2>1
  <2> QED
    BY <2>2
<1> QED
  BY <1>4

(* A sequence without its i-th element. *)
LEMMA Removed ==
  ASSUME NEW T, NEW s \in Seq(T), NEW i \in DOMAIN s
  PROVE  /\ RemoveAt(s, i) \in Seq(T) /\ Len(RemoveAt(s, i)) = Len(s) - 1
         /\ \A j \in 1..(Len(s) - 1) : RemoveAt(s, i)[j] = IF j < i THEN s[j] ELSE s[j + 1]
<1> DEFINE a == SubSeq(s, 1, i - 1)
           b == SubSeq(s, i + 1, Len(s))
<1>1. Len(s) \in Nat /\ i \in 1..Len(s)
  OBVIOUS
<1>2. a \in Seq(T) /\ Len(a) = i - 1 /\ \A j \in 1..(i - 1) : a[j] = s[j]
  BY <1>1
<1>3. b \in Seq(T) /\ Len(b) = Len(s) - i /\ \A j \in 1..(Len(s) - i) : b[j] = s[i + j]
  BY <1>1
<1> HIDE DEF a, b
<1>4. a \o b \in Seq(T) /\ Len(a \o b) = Len(a) + Len(b)
  BY <1>2, <1>3, ConcatProperties
<1>5. \A j \in 1..(Len(a) + Len(b)) : (a \o b)[j] = IF j <= Len(a) THEN a[j] ELSE b[j - Len(a)]
  BY <1>2, <1>3, ConcatProperties
<1>6. Len(a) + Len(b) = Len(s) - 1
  BY <1>1, <1>2, <1>3
<1>7. ASSUME NEW j \in 1..(Len(s) - 1) PROVE (a \o b)[j] = IF j < i THEN s[j] ELSE s[j + 1]
  <2>1. (a \o b)[j] = IF j <= i - 1 THEN a[j] ELSE b[j - (i - 1)]
    BY <1>2, <1>5, <1>6
  <2>2. CASE j < i
    BY <1>1, <1>2, <2>1, <2>2
  <2>3. CASE ~(j < i)
    <3>1. j - (i - 1) \in 1..(Len(s) - i) /\ i + (j - (i - 1)) = j + 1 /\ ~(j <= i - 1)
      BY <1>1, <2>3
    <3> QED
      BY <1>3, <2>1, <2>3, <3>1
  <2> QED
    BY <2>2, <2>3
<1> QED
  BY <1>4, <1>6, <1>7 DEF RemoveAt, a, b

-----------------------------------------------------------------------------
(* The recursion behind SumFunctionOnSet. *)
Pick(s) == CHOOSE x \in s : TRUE
Adds(it, f, S) ==
  it = [s \in SUBSET S |-> IF s = {} THEN 0 ELSE f[Pick(s)] + it[s \ {Pick(s)}]]

(* A sum is the value of the recursion at the whole set. *)
LEMMA SumUnfolds ==
  ASSUME NEW f, NEW S
  PROVE  SumFunctionOnSet(f, S) = (CHOOSE it : Adds(it, f, S))[S]
  BY DEF SumFunctionOnSet, FoldFunctionOnSet, MapThenFoldSet, Adds, Pick

(* A subset without its next element has one element less. *)
LEMMA OneLess ==
  ASSUME NEW S, IsFiniteSet(S), NEW s \in SUBSET S, s # {}
  PROVE  /\ Pick(s) \in s /\ s \ {Pick(s)} \in SUBSET S
         /\ Cardinality(s \ {Pick(s)}) \in Nat
         /\ Cardinality(s) = Cardinality(s \ {Pick(s)}) + 1
<1>1. Pick(s) \in s /\ s \ {Pick(s)} \in SUBSET S
  BY DEF Pick
<1> DEFINE r == s \ {Pick(s)}
<1>2. IsFiniteSet(s) /\ Cardinality(s) \in Nat /\ Cardinality(r) \in Nat
  BY <1>1, Sizes
<1>3. Cardinality(r) = Cardinality(s) - 1
  BY <1>1, <1>2, FS_RemoveElement
<1> HIDE DEF r
<1>4. Cardinality(s) = Cardinality(r) + 1
  BY <1>2, <1>3
<1> QED
  BY <1>1, <1>2, <1>4 DEF r

(* The recursion on the subsets of at most n elements. *)
Small(S, n) == {s \in SUBSET S : Cardinality(s) <= n}
Part(it, f, S, n) ==
  it = [s \in Small(S, n) |-> IF s = {} THEN 0 ELSE f[Pick(s)] + it[s \ {Pick(s)}]]

(* A solution up to a size extends to the next size. *)
LEMMA PartGrows ==
  ASSUME NEW S, IsFiniteSet(S), NEW f, NEW n \in Nat, NEW it, Part(it, f, S, n)
  PROVE  \E jt : Part(jt, f, S, n + 1)
<1> DEFINE jt == [s \in Small(S, n + 1) |-> IF s = {} THEN 0 ELSE f[Pick(s)] + it[s \ {Pick(s)}]]
<1>1. ASSUME NEW s \in Small(S, n) PROVE s \in Small(S, n + 1)
  <2>1. s \in SUBSET S /\ Cardinality(s) <= n
    BY DEF Small
  <2>2. Cardinality(s) \in Nat
    BY <2>1, Sizes
  <2>3. Cardinality(s) <= n + 1
    BY <2>1, <2>2
  <2> QED
    BY <2>1, <2>3 DEF Small
<1>2. ASSUME NEW s \in Small(S, n + 1), s # {} PROVE s \ {Pick(s)} \in Small(S, n)
  <2>1. s \in SUBSET S /\ Cardinality(s) <= n + 1
    BY DEF Small
  <2>2. /\ s \ {Pick(s)} \in SUBSET S /\ Cardinality(s \ {Pick(s)}) \in Nat
        /\ Cardinality(s) = Cardinality(s \ {Pick(s)}) + 1
    BY <1>2, <2>1, OneLess
  <2>3. Cardinality(s \ {Pick(s)}) <= n
    BY <2>1, <2>2
  <2> QED
    BY <2>2, <2>3 DEF Small
<1>3. \A s \in Small(S, n + 1) : jt[s] = IF s = {} THEN 0 ELSE f[Pick(s)] + it[s \ {Pick(s)}]
  OBVIOUS
<1>4. \A s \in Small(S, n) : it[s] = IF s = {} THEN 0 ELSE f[Pick(s)] + it[s \ {Pick(s)}]
  BY DEF Part
<1>5. jt = [s \in Small(S, n + 1) |-> jt[s]]
  OBVIOUS
<1> HIDE DEF jt
<1>6. \A s \in Small(S, n) : jt[s] = it[s]
  BY <1>1, <1>3, <1>4
<1>7. \A s \in Small(S, n + 1) : jt[s] = IF s = {} THEN 0 ELSE f[Pick(s)] + jt[s \ {Pick(s)}]
  BY <1>2, <1>3, <1>6
<1>8. Part(jt, f, S, n + 1)
  BY <1>5, <1>7 DEF Part
<1> QED
  BY <1>8

(* The recursion has a solution on any finite set. *)
LEMMA AddsSomehow ==
  ASSUME NEW S, IsFiniteSet(S), NEW f
  PROVE  \E it : Adds(it, f, S)
<1> DEFINE T == {n \in Nat : \E it : Part(it, f, S, n)}
<1>1. 0 \in T
  <2> DEFINE it == [s \in Small(S, 0) |-> 0]
  <2>1. ASSUME NEW s \in Small(S, 0) PROVE s = {}
    <3>1. s \in SUBSET S /\ Cardinality(s) <= 0
      BY DEF Small
    <3> QED
      BY <3>1, Sizes
  <2>2. Part(it, f, S, 0)
    BY <2>1 DEF Part
  <2> HIDE DEF it
  <2> QED
    BY <2>2
<1>2. ASSUME NEW n \in Nat, n \in T PROVE n + 1 \in T
  BY <1>2, PartGrows
<1>3. Nat \subseteq T
  BY <1>1, <1>2, Climbing
<1>4. Cardinality(S) \in Nat
  BY FS_CardinalityType
<1>5. PICK it : Part(it, f, S, Cardinality(S))
  BY <1>3, <1>4
<1>6. Small(S, Cardinality(S)) = SUBSET S
  <2>1. \A s \in SUBSET S : Cardinality(s) <= Cardinality(S)
    BY FS_Subset
  <2> QED
    BY <2>1 DEF Small
<1> QED
  BY <1>5, <1>6 DEF Adds, Part

(* What a solution says of a subset. *)
LEMMA AddsStep ==
  ASSUME NEW S, NEW f, NEW it, Adds(it, f, S), NEW s \in SUBSET S
  PROVE  it[s] = IF s = {} THEN 0 ELSE f[Pick(s)] + it[s \ {Pick(s)}]
  BY DEF Adds

(* Solutions for functions that agree on a set agree on it, whatever larger  *)
(* sets they are made for.                                                   *)
LEMMA AddsAgree ==
  ASSUME NEW R, IsFiniteSet(R), NEW S, NEW U, R \subseteq S, R \subseteq U, NEW f, NEW g,
         \A x \in R : f[x] = g[x], NEW it, Adds(it, f, S), NEW jt, Adds(jt, g, U)
  PROVE  it[R] = jt[R]
<1> DEFINE C == {s \in SUBSET R : it[s] = jt[s]}
<1>1. ASSUME NEW s \in SUBSET R, \A r \in SUBSET s : r # s => r \in C
      PROVE  it[s] = jt[s]
  <2>1. s \in SUBSET S /\ s \in SUBSET U
    OBVIOUS
  <2>2. CASE s = {}
    BY <2>1, <2>2, AddsStep
  <2>3. CASE s # {}
    <3>1. it[s] = IF s = {} THEN 0 ELSE f[Pick(s)] + it[s \ {Pick(s)}]
      BY <2>1, Zenon DEF Adds
    <3>2. jt[s] = IF s = {} THEN 0 ELSE g[Pick(s)] + jt[s \ {Pick(s)}]
      BY <2>1, AddsStep
    <3>3. Pick(s) \in s /\ s \ {Pick(s)} # s
      BY <2>3 DEF Pick
    <3>4. it[s \ {Pick(s)}] = jt[s \ {Pick(s)}]
      BY <1>1, <3>3
    <3> QED
      BY <2>3, <3>1, <3>2, <3>3, <3>4
  <2> QED
    BY <2>2, <2>3
<1>2. SUBSET R \subseteq C
  <2>1. \A s \in SUBSET R : (\A r \in SUBSET s : r # s => r \in C) => s \in C
    BY <1>1
  <2> HIDE DEF C
  <2> QED
    BY <2>1, Shrinking
<1> QED
  BY <1>2

(* A sum over finitely many indices does add up. *)
LEMMA SumIs ==
  ASSUME NEW S, IsFiniteSet(S), NEW f
  PROVE  \E it : Adds(it, f, S) /\ \A s \in SUBSET S : SumFunctionOnSet(f, s) = it[s]
<1> DEFINE Sol(s) == CHOOSE it : Adds(it, f, s)
<1>1. \A s \in SUBSET S : Adds(Sol(s), f, s)
  BY FS_Subset, AddsSomehow
<1>2. Adds(Sol(S), f, S)
  BY <1>1
<1> HIDE DEF Sol
<1>3. ASSUME NEW s \in SUBSET S PROVE SumFunctionOnSet(f, s) = Sol(S)[s]
  <2>1. SumFunctionOnSet(f, s) = Sol(s)[s]
    BY SumUnfolds DEF Sol
  <2>2. Adds(Sol(s), f, s) /\ IsFiniteSet(s)
    BY <1>1, FS_Subset
  <2>3. Sol(s)[s] = Sol(S)[s]
    BY <1>2, <2>2, AddsAgree
  <2> QED
    BY <2>1, <2>3
<1> QED
  BY <1>2, <1>3

(* A sum of amounts is an amount, and any element of it may be taken first. *)
LEMMA SumSplits ==
  ASSUME NEW S, IsFiniteSet(S), NEW f, \A x \in S : f[x] \in Nat
  PROVE  /\ SumFunctionOnSet(f, {}) = 0
         /\ SumFunctionOnSet(f, S) \in Nat
         /\ \A x \in S : SumFunctionOnSet(f, S) = f[x] + SumFunctionOnSet(f, S \ {x})
<1>1. PICK it : Adds(it, f, S) /\ \A s \in SUBSET S : SumFunctionOnSet(f, s) = it[s]
  BY SumIs
<1> DEFINE C == {s \in SUBSET S : it[s] \in Nat /\ \A x \in s : it[s] = f[x] + it[s \ {x}]}
<1>2. ASSUME NEW s \in SUBSET S, \A r \in SUBSET s : r # s => r \in C
      PROVE  s \in C
  <2>1. CASE s = {}
    <3>1. it[s] = 0
      BY <1>1, <2>1, AddsStep
    <3> QED
      BY <2>1, <3>1
  <2>2. CASE s # {}
    <3> DEFINE y == Pick(s)
    <3>1. it[s] = f[y] + it[s \ {y}]
      <4>1. it[s] = IF s = {} THEN 0 ELSE f[Pick(s)] + it[s \ {Pick(s)}]
        BY <1>1, AddsStep
      <4> QED
        BY <2>2, <4>1
    <3>2. y \in s /\ f[y] \in Nat
      BY <2>2 DEF Pick
    <3> HIDE DEF y
    <3>3. s \ {y} \in C /\ it[s \ {y}] \in Nat
      BY <1>2, <3>2
    <3>4. ASSUME NEW x \in s PROVE it[s] = f[x] + it[s \ {x}]
      <4>1. CASE x = y
        BY <3>1, <4>1
      <4>2. CASE x # y
        <5>1. s \ {x} \in C /\ f[x] \in Nat
          BY <1>2
        <5>2. it[s \ {y}] = f[x] + it[(s \ {y}) \ {x}]
          BY <3>3, <4>2
        <5>3. it[s \ {x}] = f[y] + it[(s \ {x}) \ {y}]
          BY <5>1, <3>2, <4>2
        <5>4. (s \ {y}) \ {x} = (s \ {x}) \ {y} /\ (s \ {x}) \ {y} # s
          BY <3>2
        <5>5. it[(s \ {x}) \ {y}] \in Nat
          BY <1>2, <5>4
        <5>6. \A a, b, w \in Nat : a + (b + w) = b + (a + w)
          OBVIOUS
        <5> DEFINE w == it[(s \ {x}) \ {y}]
        <5>7. it[s] = f[y] + (f[x] + w) /\ it[s \ {x}] = f[y] + w /\ w \in Nat
          BY <3>1, <5>2, <5>3, <5>4, <5>5
        <5> HIDE DEF w
        <5>8. f[y] + (f[x] + w) = f[x] + (f[y] + w)
          BY <3>2, <5>1, <5>6, <5>7
        <5> QED
          BY <5>7, <5>8
      <4> QED
        BY <4>1, <4>2
    <3>5. it[s] \in Nat
      BY <3>1, <3>2, <3>3
    <3> QED
      BY <3>4, <3>5
  <2> QED
    BY <2>1, <2>2
<1>3. SUBSET S \subseteq C
  <2> HIDE DEF C
  <2> QED
    BY <1>2, Shrinking
<1>4. it[{}] = 0
  BY <1>1, AddsStep
<1>5. S \in C
  BY <1>3
<1>6. ASSUME NEW x \in S PROVE SumFunctionOnSet(f, S) = f[x] + SumFunctionOnSet(f, S \ {x})
  BY <1>1, <1>5
<1> QED
  BY <1>1, <1>4, <1>5, <1>6

(* A sum depends on what it adds only. *)
LEMMA SumSame ==
  ASSUME NEW S, IsFiniteSet(S), NEW f, NEW g, \A x \in S : f[x] = g[x]
  PROVE  SumFunctionOnSet(f, S) = SumFunctionOnSet(g, S)
<1>1. PICK it : Adds(it, f, S) /\ SumFunctionOnSet(f, S) = it[S]
  BY SumIs
<1>2. PICK jt : Adds(jt, g, S) /\ SumFunctionOnSet(g, S) = jt[S]
  BY SumIs
<1>3. it[S] = jt[S]
  BY <1>1, <1>2, AddsAgree
<1> QED
  BY <1>1, <1>2, <1>3

(* One amount changes, and the sum by as much. *)
LEMMA SumChanged ==
  ASSUME NEW S, IsFiniteSet(S), NEW f, NEW g, NEW x \in S,
         \A y \in S : f[y] \in Nat /\ g[y] \in Nat,
         \A y \in S \ {x} : f[y] = g[y]
  PROVE  /\ SumFunctionOnSet(f, S) \in Nat /\ SumFunctionOnSet(g, S) \in Nat
         /\ SumFunctionOnSet(g, S) = SumFunctionOnSet(f, S) - f[x] + g[x]
<1> DEFINE a == SumFunctionOnSet(f, S)
           b == SumFunctionOnSet(g, S)
           c == SumFunctionOnSet(f, S \ {x})
<1>1. a \in Nat /\ a = f[x] + c
  BY SumSplits
<1>2. IsFiniteSet(S \ {x})
  BY FS_Subset
<1>3. c \in Nat
  BY <1>2, SumSplits
<1>4. c = SumFunctionOnSet(g, S \ {x})
  BY <1>2, SumSame
<1>5. b \in Nat /\ b = g[x] + c
  BY <1>4, SumSplits
<1> HIDE DEF a, b, c
<1>6. b = a - f[x] + g[x]
  BY <1>1, <1>3, <1>5
<1> QED
  BY <1>1, <1>5, <1>6 DEF a, b

(* No amount is larger than the sum. *)
LEMMA SumCovers ==
  ASSUME NEW S, IsFiniteSet(S), NEW f, \A x \in S : f[x] \in Nat, NEW x \in S
  PROVE  f[x] <= SumFunctionOnSet(f, S)
<1> DEFINE a == SumFunctionOnSet(f, S)
           c == SumFunctionOnSet(f, S \ {x})
<1>1. a = f[x] + c
  BY SumSplits
<1>2. IsFiniteSet(S \ {x})
  BY FS_Subset
<1>3. c \in Nat /\ f[x] \in Nat
  BY <1>2, SumSplits
<1> HIDE DEF a, c
<1>4. f[x] <= a
  BY <1>1, <1>3
<1> QED
  BY <1>4 DEF a

(* Sums over disjoint sets of indices. *)
LEMMA SumApart ==
  ASSUME NEW A, IsFiniteSet(A), NEW B, IsFiniteSet(B), A \cap B = {}, NEW f,
         \A x \in A \cup B : f[x] \in Nat
  PROVE  SumFunctionOnSet(f, A \cup B) = SumFunctionOnSet(f, A) + SumFunctionOnSet(f, B)
<1> DEFINE Sum(s) == SumFunctionOnSet(f, s)
           C == {s \in SUBSET A : Sum(s \cup B) = Sum(s) + Sum(B)}
<1>1. \A s \in SUBSET A : IsFiniteSet(s) /\ IsFiniteSet(s \cup B)
  BY FS_Subset, FS_Union
<1>2. Sum({}) = 0 /\ Sum(B) \in Nat
  BY SumSplits
<1>3. ASSUME NEW s \in SUBSET A, \A r \in SUBSET s : r # s => r \in C
      PROVE  Sum(s \cup B) = Sum(s) + Sum(B)
  <2>1. CASE s = {}
    <3>1. s \cup B = B
      BY <2>1
    <3> QED
      BY <1>2, <2>1, <3>1
  <2>2. CASE s # {}
    <3>1. PICK x \in s : TRUE
      BY <2>2
    <3>2. Sum(s) = f[x] + Sum(s \ {x})
      BY <1>1, <3>1, SumSplits
    <3>3. Sum(s \cup B) = f[x] + Sum((s \cup B) \ {x})
      BY <1>1, <3>1, SumSplits
    <3>4. (s \cup B) \ {x} = (s \ {x}) \cup B
      BY <3>1
    <3>5. Sum((s \ {x}) \cup B) = Sum(s \ {x}) + Sum(B)
      BY <1>3, <3>1
    <3>6. Sum((s \cup B) \ {x}) = Sum((s \ {x}) \cup B)
      BY <3>4, Zenon
    <3>7. Sum(s \ {x}) \in Nat
      <4>1. IsFiniteSet(s \ {x}) /\ \A y \in s \ {x} : f[y] \in Nat
        BY <1>1
      <4> HIDE DEF Sum
      <4> QED
        BY <4>1, SumSplits DEF Sum
    <3>8. f[x] \in Nat
      BY <3>1
    <3> HIDE DEF Sum
    <3> QED
      BY <1>2, <3>2, <3>3, <3>5, <3>6, <3>7, <3>8
  <2> QED
    BY <2>1, <2>2
<1>4. SUBSET A \subseteq C
  <2>1. \A s \in SUBSET A : (\A r \in SUBSET s : r # s => r \in C) => s \in C
    BY <1>3
  <2> HIDE DEF C
  <2> QED
    BY <2>1, Shrinking
<1> QED
  BY <1>4

(* The sum of sums, index by index. *)
LEMMA SumPlus ==
  ASSUME NEW S, IsFiniteSet(S), NEW f, NEW g, NEW h,
         \A x \in S : f[x] \in Nat /\ g[x] \in Nat /\ h[x] = f[x] + g[x]
  PROVE  SumFunctionOnSet(h, S) = SumFunctionOnSet(f, S) + SumFunctionOnSet(g, S)
<1> DEFINE C == {s \in SUBSET S : SumFunctionOnSet(h, s) = SumFunctionOnSet(f, s) + SumFunctionOnSet(g, s)}
<1>0. \A x \in S : h[x] \in Nat
  OBVIOUS
<1>1. ASSUME NEW s \in SUBSET S, \A r \in SUBSET s : r # s => r \in C
      PROVE  s \in C
  <2>0. IsFiniteSet(s)
    BY FS_Subset
  <2>1. CASE s = {}
    <3>1. SumFunctionOnSet(f, {}) = 0 /\ SumFunctionOnSet(g, {}) = 0 /\ SumFunctionOnSet(h, {}) = 0
      BY <1>0, SumSplits
    <3> QED
      BY <2>1, <3>1
  <2>2. CASE s # {}
    <3>1. PICK x \in s : TRUE
      BY <2>2
    <3> DEFINE r == s \ {x}
    <3>2. /\ SumFunctionOnSet(f, s) = f[x] + SumFunctionOnSet(f, r)
          /\ SumFunctionOnSet(g, s) = g[x] + SumFunctionOnSet(g, r)
          /\ SumFunctionOnSet(h, s) = h[x] + SumFunctionOnSet(h, r)
      <4>1. ASSUME NEW a, \A y \in S : a[y] \in Nat
            PROVE  SumFunctionOnSet(a, s) = a[x] + SumFunctionOnSet(a, s \ {x})
        <5>1. \A y \in s : a[y] \in Nat
          BY <4>1
        <5> QED
          BY <2>0, <3>1, <5>1, SumSplits
      <4> QED
        BY <1>0, <4>1
    <3>3. r \in C
      BY <1>1, <3>1
    <3>4. IsFiniteSet(r) /\ r \subseteq S
      BY <2>0, FS_Subset
    <3>5. SumFunctionOnSet(f, r) \in Nat /\ SumFunctionOnSet(g, r) \in Nat
      BY <3>4, SumSplits
    <3>6. f[x] \in Nat /\ g[x] \in Nat /\ h[x] = f[x] + g[x]
      BY <3>1
    <3> HIDE DEF r
    <3> QED
      BY <3>2, <3>3, <3>5, <3>6
  <2> QED
    BY <2>1, <2>2
<1>2. SUBSET S \subseteq C
  <2> HIDE DEF C
  <2> QED
    BY <1>1, Shrinking
<1> QED
  BY <1>2

(* Nothing adds up to nothing. *)
LEMMA SumOfNothing ==
  ASSUME NEW S, IsFiniteSet(S), NEW f, \A x \in S : f[x] = 0
  PROVE  SumFunctionOnSet(f, S) = 0
<1> DEFINE n == SumFunctionOnSet(f, S)
<1>0. \A x \in S : f[x] \in Nat /\ f[x] = f[x] + f[x]
  OBVIOUS
<1>1. n = n + n
  BY <1>0, SumPlus
<1>2. n \in Nat
  BY <1>0, SumSplits
<1> HIDE DEF n
<1>3. n = 0
  BY <1>1, <1>2
<1> QED
  BY <1>3 DEF n

(* Equal amounts add up to a product. *)
LEMMA SumAlike ==
  ASSUME NEW S, IsFiniteSet(S), NEW f, NEW c \in Nat, \A x \in S : f[x] = c
  PROVE  SumFunctionOnSet(f, S) = c * Cardinality(S)
<1> DEFINE C == {s \in SUBSET S : SumFunctionOnSet(f, s) = c * Cardinality(s)}
<1>1. ASSUME NEW s \in SUBSET S, \A r \in SUBSET s : r # s => r \in C
      PROVE  SumFunctionOnSet(f, s) = c * Cardinality(s)
  <2>1. IsFiniteSet(s) /\ \A x \in s : f[x] \in Nat
    BY FS_Subset
  <2>2. CASE s = {}
    <3>1. SumFunctionOnSet(f, {}) = 0
      BY <2>1, SumSplits
    <3>2. Cardinality({}) = 0 /\ c * 0 = 0
      BY FS_EmptySet
    <3> QED
      BY <2>2, <3>1, <3>2
  <2>3. CASE s # {}
    <3>1. PICK x \in s : TRUE
      BY <2>3
    <3> DEFINE r == s \ {x}
               n == Cardinality(r)
    <3>2. SumFunctionOnSet(f, s) = c + SumFunctionOnSet(f, r)
      BY <2>1, <3>1, SumSplits
    <3>3. r \in C
      BY <1>1, <3>1
    <3>4. Cardinality(s) = n + 1 /\ n \in Nat
      <4>1. n = Cardinality(s) - 1
        BY <2>1, <3>1, FS_RemoveElement
      <4>2. n \in Nat /\ Cardinality(s) \in Nat
        BY <2>1, FS_Subset, FS_CardinalityType
      <4> QED
        BY <4>1, <4>2
    <3> HIDE DEF n
    <3>5. c * (n + 1) = c + c * n
      BY <3>4, SMT
    <3>6. SumFunctionOnSet(f, s) = c + c * n
      BY <3>2, <3>3 DEF n
    <3> QED
      BY <3>4, <3>5, <3>6
  <2> QED
    BY <2>2, <2>3
<1>2. SUBSET S \subseteq C
  <2> HIDE DEF C
  <2>1. \A s \in SUBSET S : (\A r \in SUBSET s : r # s => r \in C) => s \in C
    BY <1>1 DEF C
  <2> QED
    BY <2>1, Shrinking
<1> QED
  BY <1>2
=============================================================================
