----------------------------- MODULE SumTheorems -----------------------------
(***************************************************************************)
(* Facts about the sums that the components book: SumFunctionOnSet(f, S)   *)
(* of the community modules, for a finite S and integers f[x].  The fold   *)
(* behind it is a recursive function; that it meets its own equation is    *)
(* shown by its partial sums over sets of at most n elements, for each n   *)
(* in turn (the least n without them would be a contradiction).  Beside    *)
(* them, quotients of integers.                                            *)
(***************************************************************************)
EXTENDS Functions, FiniteSetTheorems, WellFoundedInduction, TLAPS

\* The element the fold takes next, and the equation of its partial sums over some sets.
One(s) == CHOOSE x \in s : TRUE
Sums(g, f, sets) == g = [s \in sets |-> IF s = {} THEN 0 ELSE f[One(s)] + g[s \ {One(s)}]]
Small(D, n) == {s \in SUBSET D : Cardinality(s) <= n}
Partial(f, D) == CHOOSE g : Sums(g, f, SUBSET D)

\* The fold of the community modules is the whole of its partial sums.
LEMMA SumIsPartial == ASSUME NEW f, NEW D PROVE SumFunctionOnSet(f, D) = Partial(f, D)[D]
BY DEF SumFunctionOnSet, FoldFunctionOnSet, MapThenFoldSet, Partial, Sums, One

\* Some numbers, if there are any, have a least one.
LEMMA LeastNumber == ASSUME NEW S \in SUBSET Nat, S # {} PROVE \E n \in S : \A m \in S : n <= m
<1> DEFINE Less == {ss \in Nat \X Nat : ss[1] < ss[2]}
<1>1. IsWellFoundedOn(Less, Nat)
  BY NatLessThanWellFounded DEF OpToRel
<1>2. PICK n \in S : \A m \in S : <<m, n>> \notin Less
  <2> HIDE DEF Less
  <2> QED
    BY <1>1, WFMin
<1>3. ASSUME NEW m \in S PROVE n <= m
  <2>1. <<m, n>> \in Nat \X Nat /\ <<m, n>> \notin Less
    BY <1>2
  <2> QED
    BY <2>1
<1> QED
  BY <1>3

\* Some subsets of a finite set, if there are any, have one that contains no other.
LEMMA LeastSubset ==
  ASSUME NEW D, IsFiniteSet(D), NEW T \in SUBSET (SUBSET D), T # {}
  PROVE  \E s \in T : \A t \in T : t \subseteq s => t = s
<1> DEFINE Sizes == {Cardinality(s) : s \in T}
<1>1. \A s \in T : IsFiniteSet(s) /\ Cardinality(s) \in Nat
  BY FS_Subset, FS_CardinalityType
<1>2. Sizes \in SUBSET Nat /\ Sizes # {}
  BY <1>1
<1>5. PICK n \in Sizes : \A m \in Sizes : n <= m
  <2> HIDE DEF Sizes
  <2> QED
    BY <1>2, LeastNumber
<1>3. PICK s \in T : Cardinality(s) = n
  BY <1>5
<1>4. ASSUME NEW t \in T, t \subseteq s PROVE t = s
  <2>1. Cardinality(s) <= Cardinality(t)
    BY <1>5, <1>3
  <2> QED
    BY <1>1, <1>4, <2>1, FS_Subset
<1> QED
  BY <1>3, <1>4

\* What is left of a set when the fold has taken an element.
LEMMA Taken == ASSUME NEW s, s # {} PROVE One(s) \in s
BY DEF One

LEMMA Smaller ==
  ASSUME NEW D, IsFiniteSet(D), NEW n \in Nat, NEW s \in Small(D, n + 1), NEW x \in s
  PROVE  s \ {x} \in Small(D, n)
BY FS_RemoveElement, FS_Subset, FS_CardinalityType DEF Small

\* There are partial sums over the sets of at most n elements.
LEMMA PartialSums ==
  ASSUME NEW D, IsFiniteSet(D), NEW f, \A x \in D : f[x] \in Int, NEW n \in Nat
  PROVE  \E g \in [Small(D, n) -> Int] : Sums(g, f, Small(D, n))
<1> DEFINE Has(k) == \E g \in [Small(D, k) -> Int] : Sums(g, f, Small(D, k))
           Bad == {k \in Nat : ~Has(k)}
<1>1. Has(0)
  <2> DEFINE g == [s \in Small(D, 0) |-> 0]
  <2>1. \A s \in Small(D, 0) : s = {}
    BY FS_EmptySet, FS_Subset, FS_CardinalityType DEF Small
  <2>2. g \in [Small(D, 0) -> Int] /\ Sums(g, f, Small(D, 0))
    BY <2>1 DEF Sums
  <2> QED
    BY <2>2
<1>2. ASSUME NEW k \in Nat, Has(k) PROVE Has(k + 1)
  <2>1. PICK g \in [Small(D, k) -> Int] : Sums(g, f, Small(D, k))
    BY <1>2
  <2> DEFINE next(s) == IF s = {} THEN 0 ELSE f[One(s)] + g[s \ {One(s)}]
             h == [s \in Small(D, k + 1) |-> next(s)]
  <2>2. \A s \in Small(D, k + 1) : s # {} => One(s) \in D /\ s \ {One(s)} \in Small(D, k)
    BY Taken, Smaller DEF Small
  <2>3. h \in [Small(D, k + 1) -> Int]
    BY <2>2
  <2>4. ASSUME NEW s \in Small(D, k) PROVE s \in Small(D, k + 1) /\ g[s] = next(s)
    <3>1. s \in Small(D, k + 1)
      BY FS_Subset, FS_CardinalityType DEF Small
    <3>2. g = [t \in Small(D, k) |-> next(t)]
      BY <2>1 DEF Sums
    <3>3. g[s] = next(s)
      <4> HIDE DEF next
      <4> QED
        BY <3>2
    <3> QED
      BY <3>1, <3>3
  <2>5. ASSUME NEW s \in Small(D, k + 1), s # {} PROVE h[s] = f[One(s)] + h[s \ {One(s)}]
    <3> DEFINE r == s \ {One(s)}
    <3>1. r \in Small(D, k)
      BY <2>2, <2>5
    <3>2. h[r] = g[r]
      BY <3>1, <2>4
    <3>3. h[s] = f[One(s)] + g[r]
      BY <2>5
    <3> QED
      BY <3>2, <3>3
  <2>6. Sums(h, f, Small(D, k + 1))
    <3>1. \A s \in Small(D, k + 1) : h[s] = IF s = {} THEN 0 ELSE f[One(s)] + h[s \ {One(s)}]
      BY <2>5
    <3>2. h = [s \in Small(D, k + 1) |-> h[s]]
      OBVIOUS
    <3> HIDE DEF h
    <3> QED
      BY <3>1, <3>2 DEF Sums
  <2> QED
    BY <2>3, <2>6
<1>3. Bad = {}
  <2> SUFFICES ASSUME Bad # {} PROVE FALSE
    OBVIOUS
  <2>1. PICK k \in Bad : \A m \in Bad : k <= m
    BY LeastNumber
  <2> HIDE DEF Has
  <2>2. k # 0 /\ k \in Nat /\ ~Has(k)
    BY <1>1, <2>1
  <2>3. k - 1 \in Nat /\ k - 1 \notin Bad
    BY <2>1, <2>2
  <2>4. Has(k - 1 + 1)
    BY <1>2, <2>3
  <2> QED
    BY <2>2, <2>4
<1> HIDE DEF Has
<1>4. Has(n)
  BY <1>3
<1> QED
  BY <1>4 DEF Has

\* The fold's own partial sums: the empty sum, and the equation at any other set.
LEMMA PartialEquation ==
  ASSUME NEW D, IsFiniteSet(D), NEW f, \A x \in D : f[x] \in Int
  PROVE  /\ Partial(f, D)[{}] = 0
         /\ \A s \in SUBSET D : s # {} => Partial(f, D)[s] = f[One(s)] + Partial(f, D)[s \ {One(s)}]
<1>1. Small(D, Cardinality(D)) = SUBSET D
  BY FS_Subset DEF Small
<1>2. \E g : Sums(g, f, SUBSET D)
  <2>1. PICK n \in Nat : n = Cardinality(D)
    BY FS_CardinalityType
  <2>2. PICK g : Sums(g, f, Small(D, n))
    BY <2>1, PartialSums
  <2>3. Small(D, n) = SUBSET D
    BY <1>1, <2>1
  <2> QED
    BY <2>2, <2>3
<1>3. Sums(Partial(f, D), f, SUBSET D)
  BY <1>2 DEF Partial
<1> QED
  BY <1>3 DEF Sums

\* They are integers.
LEMMA PartialType ==
  ASSUME NEW D, IsFiniteSet(D), NEW f, \A x \in D : f[x] \in Int
  PROVE  \A s \in SUBSET D : Partial(f, D)[s] \in Int
<1> DEFINE P(s) == Partial(f, D)[s]
           Bad == {s \in SUBSET D : P(s) \notin Int}
<1>0. P({}) = 0 /\ \A s \in SUBSET D : s # {} => P(s) = f[One(s)] + P(s \ {One(s)})
  BY PartialEquation
<1> SUFFICES ASSUME Bad # {} PROVE FALSE
  OBVIOUS
<1>1. PICK s \in Bad : \A t \in Bad : t \subseteq s => t = s
  <2>1. Bad \in SUBSET (SUBSET D)
    OBVIOUS
  <2> HIDE DEF Bad
  <2> QED
    BY <2>1, LeastSubset
<1>2. s # {} /\ s \in SUBSET D
  <2>1. s \in SUBSET D /\ P(s) \notin Int
    OBVIOUS
  <2>2. P({}) \in Int
    BY <1>0
  <2> HIDE DEF P
  <2> QED
    BY <2>1, <2>2
<1>3. One(s) \in s /\ s \ {One(s)} \notin Bad /\ s \ {One(s)} \in SUBSET D
  BY <1>1, <1>2, Taken
<1>4. P(s) \in Int
  <2>1. f[One(s)] \in Int /\ P(s \ {One(s)}) \in Int
    BY <1>2, <1>3
  <2>2. P(s) = f[One(s)] + P(s \ {One(s)})
    BY <1>0, <1>2
  <2> HIDE DEF P
  <2> QED
    BY <2>1, <2>2
<1> QED
  BY <1>4

\* The order in which the elements are taken does not matter.
LEMMA PartialAny ==
  ASSUME NEW D, IsFiniteSet(D), NEW f, \A x \in D : f[x] \in Int
  PROVE  \A s \in SUBSET D : \A x \in s : Partial(f, D)[s] = f[x] + Partial(f, D)[s \ {x}]
<1> DEFINE P(s) == Partial(f, D)[s]
           Bad == {s \in SUBSET D : \E x \in s : P(s) # f[x] + P(s \ {x})}
<1> SUFFICES ASSUME Bad # {} PROVE FALSE
  OBVIOUS
<1>1. PICK s \in Bad : \A t \in Bad : t \subseteq s => t = s
  <2>1. Bad \in SUBSET (SUBSET D)
    OBVIOUS
  <2> HIDE DEF Bad
  <2> QED
    BY <2>1, LeastSubset
<1>2. PICK x \in s : P(s) # f[x] + P(s \ {x})
  OBVIOUS
<1> DEFINE y == One(s)
<1>3. y \in s /\ P(s) = f[y] + P(s \ {y})
  BY <1>2, Taken, PartialEquation
<1>4. x # y
  BY <1>2, <1>3
<1>5. P(s \ {y}) = f[x] + P((s \ {y}) \ {x})
  <2>1. s \ {y} \notin Bad /\ s \ {y} \in SUBSET D
    BY <1>1, <1>3
  <2> QED
    BY <1>2, <1>4, <2>1
<1>6. P(s \ {x}) = f[y] + P((s \ {x}) \ {y})
  <2>1. s \ {x} \notin Bad /\ s \ {x} \in SUBSET D
    BY <1>1, <1>2
  <2> QED
    BY <1>3, <1>4, <2>1
<1>7. (s \ {y}) \ {x} = (s \ {x}) \ {y} /\ P((s \ {y}) \ {x}) \in Int /\ f[x] \in Int /\ f[y] \in Int
  BY <1>1, <1>2, <1>3, PartialType
<1> QED
  <2> PICK c : c = P((s \ {y}) \ {x})
    OBVIOUS
  <2>1. P(s) = f[y] + (f[x] + c) /\ P(s \ {x}) = f[y] + c
    BY <1>3, <1>5, <1>6, <1>7
  <2>2. P(s) = f[x] + (f[y] + c)
    BY <1>7, <2>1
  <2> QED
    BY <1>2, <2>1, <2>2

\* A sum over fewer elements, or of a function that agrees on them, is a partial sum.
LEMMA PartialsAgree ==
  ASSUME NEW D, IsFiniteSet(D), NEW f, \A x \in D : f[x] \in Int,
         NEW E \in SUBSET D, NEW g, \A x \in E : f[x] = g[x]
  PROVE  Partial(f, D)[E] = Partial(g, E)[E]
<1>1. IsFiniteSet(E)
  BY FS_Subset
<1> DEFINE P(s) == Partial(f, D)[s]
           Q(s) == Partial(g, E)[s]
           Bad == {s \in SUBSET E : P(s) # Q(s)}
<1>0. /\ P({}) = 0 /\ \A s \in SUBSET E : s # {} => P(s) = f[One(s)] + P(s \ {One(s)})
      /\ Q({}) = 0 /\ \A s \in SUBSET E : s # {} => Q(s) = g[One(s)] + Q(s \ {One(s)})
  BY <1>1, PartialEquation
<1> SUFFICES ASSUME Bad # {} PROVE FALSE
  OBVIOUS
<1>2. PICK s \in Bad : \A t \in Bad : t \subseteq s => t = s
  <2>1. Bad \in SUBSET (SUBSET E)
    OBVIOUS
  <2> HIDE DEF Bad
  <2> QED
    BY <1>1, <2>1, LeastSubset
<1>3. s # {} /\ s \in SUBSET E /\ P(s) # Q(s)
  <2>1. s \in SUBSET E /\ P(s) # Q(s)
    OBVIOUS
  <2> HIDE DEF P, Q
  <2> QED
    BY <1>0, <2>1
<1>4. One(s) \in s /\ s \ {One(s)} \notin Bad /\ s \ {One(s)} \in SUBSET E
  BY <1>2, <1>3, Taken
<1>5. P(s \ {One(s)}) = Q(s \ {One(s)}) /\ f[One(s)] = g[One(s)]
  BY <1>3, <1>4
<1> HIDE DEF P, Q
<1> QED
  BY <1>0, <1>3, <1>5

-----------------------------------------------------------------------------
\* The sum of no numbers.
LEMMA SumOfNone == ASSUME NEW f PROVE SumFunctionOnSet(f, {}) = 0
BY DEF SumFunctionOnSet, FoldFunctionOnSet, MapThenFoldSet

\* A sum of integers is one.
LEMMA SumType ==
  ASSUME NEW S, IsFiniteSet(S), NEW f, \A x \in S : f[x] \in Int
  PROVE  SumFunctionOnSet(f, S) \in Int
BY SumIsPartial, PartialType

\* Only the numbers summed count.
LEMMA SumSame ==
  ASSUME NEW S, IsFiniteSet(S), NEW f, NEW g, \A x \in S : f[x] \in Int /\ f[x] = g[x]
  PROVE  SumFunctionOnSet(f, S) = SumFunctionOnSet(g, S)
<1>1. Partial(f, S)[S] = Partial(g, S)[S]
  BY PartialsAgree
<1> QED
  BY <1>1, SumIsPartial

\* One number more, and one number less.
LEMMA SumLess ==
  ASSUME NEW S, IsFiniteSet(S), NEW f, \A y \in S : f[y] \in Int, NEW x \in S
  PROVE  SumFunctionOnSet(f, S) = f[x] + SumFunctionOnSet(f, S \ {x})
<1>1. Partial(f, S)[S] = f[x] + Partial(f, S)[S \ {x}]
  BY PartialAny
<1>2. Partial(f, S)[S \ {x}] = Partial(f, S \ {x})[S \ {x}]
  BY PartialsAgree
<1> QED
  BY <1>1, <1>2, SumIsPartial

LEMMA SumMore ==
  ASSUME NEW S, IsFiniteSet(S), NEW x, x \notin S, NEW f, \A y \in S \cup {x} : f[y] \in Int
  PROVE  SumFunctionOnSet(f, S \cup {x}) = f[x] + SumFunctionOnSet(f, S)
<1>1. IsFiniteSet(S \cup {x}) /\ (S \cup {x}) \ {x} = S
  BY FS_AddElement
<1> QED
  BY <1>1, SumLess

\* One number changes.
LEMMA SumChange ==
  ASSUME NEW S, IsFiniteSet(S), NEW x \in S, NEW f, NEW g,
         \A y \in S : f[y] \in Int /\ g[y] \in Int, \A y \in S \ {x} : f[y] = g[y]
  PROVE  SumFunctionOnSet(g, S) = SumFunctionOnSet(f, S) - f[x] + g[x]
<1>1. IsFiniteSet(S \ {x})
  BY FS_RemoveElement
<1>2. SumFunctionOnSet(f, S \ {x}) = SumFunctionOnSet(g, S \ {x}) /\ SumFunctionOnSet(f, S \ {x}) \in Int
  BY <1>1, SumSame, SumType
<1>3. SumFunctionOnSet(f, S) = f[x] + SumFunctionOnSet(f, S \ {x}) /\ SumFunctionOnSet(g, S) = g[x] + SumFunctionOnSet(g, S \ {x})
  BY SumLess
<1> QED
  BY <1>2, <1>3

\* A sum is linear.
LEMMA SumOfBoth ==
  ASSUME NEW S, IsFiniteSet(S), NEW a \in Int, NEW b \in Int, NEW f, NEW g, NEW h,
         \A x \in S : f[x] \in Int /\ g[x] \in Int /\ h[x] = a * f[x] + b * g[x]
  PROVE  SumFunctionOnSet(h, S) = a * SumFunctionOnSet(f, S) + b * SumFunctionOnSet(g, S)
<1> DEFINE F(s) == SumFunctionOnSet(f, s)
           G(s) == SumFunctionOnSet(g, s)
           H(s) == SumFunctionOnSet(h, s)
           Bad == {s \in SUBSET S : H(s) # a * F(s) + b * G(s)}
<1> SUFFICES ASSUME Bad # {} PROVE FALSE
  OBVIOUS
<1>1. PICK s \in Bad : \A t \in Bad : t \subseteq s => t = s
  <2>1. Bad \in SUBSET (SUBSET S)
    OBVIOUS
  <2> HIDE DEF Bad
  <2> QED
    BY <2>1, LeastSubset
<1>2. IsFiniteSet(s) /\ s \in SUBSET S /\ H(s) # a * F(s) + b * G(s)
  BY FS_Subset
<1>3. PICK x : x \in s
  <2>1. F({}) = 0 /\ G({}) = 0 /\ H({}) = 0
    BY SumOfNone
  <2>2. H({}) = a * F({}) + b * G({})
    BY <2>1
  <2> HIDE DEF F, G, H
  <2> QED
    BY <1>2, <2>2
<1> DEFINE r == s \ {x}
<1>4. r \notin Bad /\ r \in SUBSET S /\ IsFiniteSet(r)
  BY <1>1, <1>2, <1>3, FS_RemoveElement
<1>5. H(r) = a * F(r) + b * G(r)
  BY <1>4
<1>6. F(s) = f[x] + F(r) /\ G(s) = g[x] + G(r)
  BY <1>2, <1>3, SumLess
<1>7. H(s) = h[x] + H(r)
  <2>1. \A y \in s : h[y] \in Int
    BY <1>2
  <2> QED
    BY <1>2, <1>3, <2>1, SumLess
<1>8. F(r) \in Int /\ G(r) \in Int
  BY <1>4, SumType
<1>9. f[x] \in Int /\ g[x] \in Int /\ h[x] = a * f[x] + b * g[x]
  BY <1>2, <1>3
<1> HIDE DEF F, G, H, r
<1> QED
  BY <1>2, <1>5, <1>6, <1>7, <1>8, <1>9

\* It grows with the numbers summed.
LEMMA SumOrder ==
  ASSUME NEW S, IsFiniteSet(S), NEW f, NEW g,
         \A x \in S : f[x] \in Int /\ g[x] \in Int /\ f[x] <= g[x]
  PROVE  SumFunctionOnSet(f, S) <= SumFunctionOnSet(g, S)
<1> DEFINE F(s) == SumFunctionOnSet(f, s)
           G(s) == SumFunctionOnSet(g, s)
           Bad == {s \in SUBSET S : ~(F(s) <= G(s))}
<1> SUFFICES ASSUME Bad # {} PROVE FALSE
  OBVIOUS
<1>1. PICK s \in Bad : \A t \in Bad : t \subseteq s => t = s
  <2>1. Bad \in SUBSET (SUBSET S)
    OBVIOUS
  <2> HIDE DEF Bad
  <2> QED
    BY <2>1, LeastSubset
<1>2. IsFiniteSet(s) /\ s \in SUBSET S /\ ~(F(s) <= G(s))
  BY FS_Subset
<1>3. PICK x : x \in s
  <2>1. F({}) = 0 /\ G({}) = 0
    BY SumOfNone
  <2> HIDE DEF F, G
  <2> QED
    BY <1>2, <2>1
<1> DEFINE r == s \ {x}
<1>4. r \notin Bad /\ r \in SUBSET S /\ IsFiniteSet(r)
  BY <1>1, <1>2, <1>3, FS_RemoveElement
<1>5. F(r) <= G(r)
  BY <1>4
<1>6. F(s) = f[x] + F(r) /\ G(s) = g[x] + G(r)
  BY <1>2, <1>3, SumLess
<1>7. F(r) \in Int /\ G(r) \in Int
  BY <1>4, SumType
<1>8. f[x] \in Int /\ g[x] \in Int /\ f[x] <= g[x]
  BY <1>2, <1>3
<1> HIDE DEF F, G, r
<1> QED
  BY <1>2, <1>5, <1>6, <1>7, <1>8

\* A sum of ones counts, and a sum of a constant multiplies.
LEMMA SumOfOnes ==
  ASSUME NEW S, IsFiniteSet(S), NEW f, \A x \in S : f[x] = 1
  PROVE  SumFunctionOnSet(f, S) = Cardinality(S)
<1> DEFINE F(s) == SumFunctionOnSet(f, s)
           Bad == {s \in SUBSET S : F(s) # Cardinality(s)}
<1> SUFFICES ASSUME Bad # {} PROVE FALSE
  OBVIOUS
<1>1. PICK s \in Bad : \A t \in Bad : t \subseteq s => t = s
  <2>1. Bad \in SUBSET (SUBSET S)
    OBVIOUS
  <2> HIDE DEF Bad
  <2> QED
    BY <2>1, LeastSubset
<1>2. IsFiniteSet(s) /\ s \in SUBSET S /\ F(s) # Cardinality(s)
  BY FS_Subset
<1>3. PICK x : x \in s
  <2>1. F({}) = 0 /\ Cardinality({}) = 0
    BY SumOfNone, FS_EmptySet
  <2> HIDE DEF F
  <2> QED
    BY <1>2, <2>1
<1> DEFINE r == s \ {x}
<1>4. r \notin Bad /\ r \in SUBSET S /\ Cardinality(r) = Cardinality(s) - 1 /\ Cardinality(s) \in Nat
  BY <1>1, <1>2, <1>3, FS_RemoveElement, FS_CardinalityType
<1>5. F(r) = Cardinality(r)
  BY <1>4
<1>6. F(s) = f[x] + F(r)
  <2>1. \A y \in s : f[y] \in Int
    BY <1>2
  <2> QED
    BY <1>2, <1>3, <2>1, SumLess
<1>7. f[x] = 1
  BY <1>2, <1>3
<1> HIDE DEF F, r
<1> QED
  BY <1>2, <1>4, <1>5, <1>6, <1>7

\* Numbers that are all zero outside some of them.
LEMMA SumOutside ==
  ASSUME NEW S, IsFiniteSet(S), NEW T \in SUBSET S, NEW f, \A x \in S : f[x] \in Int, \A x \in S \ T : f[x] = 0
  PROVE  SumFunctionOnSet(f, S) = SumFunctionOnSet(f, T)
<1> DEFINE F(s) == SumFunctionOnSet(f, s)
           Bad == {s \in SUBSET S : F(s) # F(s \cap T)}
<1> SUFFICES ASSUME Bad # {} PROVE FALSE
  <2>1. S \cap T = T /\ S \notin Bad
    OBVIOUS
  <2> QED
    BY <2>1
<1>1. PICK s \in Bad : \A t \in Bad : t \subseteq s => t = s
  <2>1. Bad \in SUBSET (SUBSET S)
    OBVIOUS
  <2> HIDE DEF Bad
  <2> QED
    BY <2>1, LeastSubset
<1>2. IsFiniteSet(s) /\ s \in SUBSET S /\ F(s) # F(s \cap T)
  BY FS_Subset
<1>3. PICK x \in s : x \notin T
  <2>1. s \cap T # s
    BY <1>2
  <2> QED
    BY <2>1
<1> DEFINE r == s \ {x}
<1>4. r \notin Bad /\ r \in SUBSET S /\ IsFiniteSet(r) /\ r \cap T = s \cap T
  BY <1>1, <1>2, <1>3, FS_RemoveElement
<1>5. F(r) = F(s \cap T)
  BY <1>4
<1>6. F(s) = f[x] + F(r) /\ f[x] = 0 /\ F(r) \in Int
  BY <1>2, <1>3, <1>4, SumLess, SumType
<1> HIDE DEF F, r
<1> QED
  BY <1>2, <1>5, <1>6

\* A sum of sums, and a multiple of one.
LEMMA SumOfSums ==
  ASSUME NEW S, IsFiniteSet(S), NEW f, NEW g, NEW h,
         \A x \in S : f[x] \in Int /\ g[x] \in Int /\ h[x] = f[x] + g[x]
  PROVE  SumFunctionOnSet(h, S) = SumFunctionOnSet(f, S) + SumFunctionOnSet(g, S)
<1> DEFINE a == 1
           b == 1
           F == SumFunctionOnSet(f, S)
           G == SumFunctionOnSet(g, S)
<1>1. F \in Int /\ G \in Int
  BY SumType
<1>2. a \in Int /\ b \in Int /\ \A x \in S : f[x] \in Int /\ g[x] \in Int /\ h[x] = a * f[x] + b * g[x]
  OBVIOUS
<1> HIDE DEF F, G
<1>3. a * F + b * G = F + G
  BY <1>1
<1> HIDE DEF a, b
<1>4. SumFunctionOnSet(h, S) = a * F + b * G
  BY <1>2, SumOfBoth DEF F, G
<1> QED
  BY <1>3, <1>4 DEF F, G

LEMMA SumTimes ==
  ASSUME NEW S, IsFiniteSet(S), NEW a \in Int, NEW f, NEW h,
         \A x \in S : f[x] \in Int /\ h[x] = a * f[x]
  PROVE  SumFunctionOnSet(h, S) = a * SumFunctionOnSet(f, S)
<1> DEFINE z == 0
           F == SumFunctionOnSet(f, S)
<1>1. F \in Int
  BY SumType
<1>2. z \in Int /\ \A x \in S : f[x] \in Int /\ h[x] = a * f[x] + z * f[x]
  OBVIOUS
<1> HIDE DEF F
<1>3. a * F + z * F = a * F
  BY <1>1
<1> HIDE DEF z
<1>4. SumFunctionOnSet(h, S) = a * F + z * F
  BY <1>2, SumOfBoth DEF F
<1> QED
  BY <1>3, <1>4 DEF F

\* Numbers between 0 and k.
Between(f, S, k) == \A x \in S : f[x] \in Int /\ 0 <= f[x] /\ f[x] <= k

LEMMA SumBounds ==
  ASSUME NEW S, IsFiniteSet(S), NEW k \in Int, NEW f, Between(f, S, k)
  PROVE  0 <= SumFunctionOnSet(f, S) /\ SumFunctionOnSet(f, S) <= k * Cardinality(S)
<1> DEFINE one == [x \in S |-> 1]
           zero == [x \in S |-> 0]
           most == [x \in S |-> k]
<1>1. /\ \A x \in S : one[x] = 1
      /\ \A x \in S : one[x] \in Int /\ most[x] = k * one[x]
      /\ \A x \in S : zero[x] \in Int /\ f[x] \in Int /\ zero[x] <= f[x]
      /\ \A x \in S : f[x] \in Int /\ most[x] \in Int /\ f[x] <= most[x]
      /\ \A x \in S : zero[x] \in Int
      /\ \A x \in S \ {} : zero[x] = 0
  BY DEF Between
<1>2. {} \in SUBSET S
  OBVIOUS
<1> HIDE DEF one, zero, most
<1>3. SumFunctionOnSet(one, S) = Cardinality(S)
  BY <1>1, SumOfOnes
<1>4. SumFunctionOnSet(most, S) = k * SumFunctionOnSet(one, S)
  BY <1>1, SumTimes
<1>5. SumFunctionOnSet(zero, S) = SumFunctionOnSet(zero, {})
  BY <1>1, <1>2, SumOutside
<1>6. SumFunctionOnSet(zero, {}) = 0
  BY SumOfNone
<1>7. SumFunctionOnSet(zero, S) <= SumFunctionOnSet(f, S)
  BY <1>1, SumOrder
<1>8. SumFunctionOnSet(f, S) <= SumFunctionOnSet(most, S)
  BY <1>1, SumOrder
<1> QED
  BY <1>3, <1>4, <1>5, <1>6, <1>7, <1>8

\* A sum of two numbers.
LEMMA SumOfTwo ==
  ASSUME NEW f, NEW S, NEW a \in S, NEW b \in S, a # b, \A x \in S : x = a \/ x = b,
         f[a] \in Int, f[b] \in Int
  PROVE  SumFunctionOnSet(f, S) = f[a] + f[b]
<1> DEFINE T == {b}
<1>1. a \in S /\ S \ {a} = T /\ b \in T /\ T \ {b} = {} /\ \A x \in S : f[x] \in Int
  OBVIOUS
<1>2. \A x \in T : f[x] \in Int
  OBVIOUS
<1>3. IsFiniteSet(T) /\ S = T \cup {a}
  BY FS_Singleton
<1>4. IsFiniteSet(S)
  <2> HIDE DEF T
  <2> QED
    BY <1>3, FS_AddElement
<1> HIDE DEF T
<1>5. SumFunctionOnSet(f, S) = f[a] + SumFunctionOnSet(f, T)
  BY <1>1, <1>4, SumLess
<1>6. SumFunctionOnSet(f, T) = f[b] + SumFunctionOnSet(f, {})
  BY <1>1, <1>2, <1>3, SumLess
<1> QED
  BY <1>5, <1>6, SumOfNone

-----------------------------------------------------------------------------
\* Some integers, if there are finitely many, have a greatest one.
LEMMA GreatestNumber ==
  ASSUME NEW P, IsFiniteSet(P), P # {}, \A n \in P : n \in Int
  PROVE  \E n \in P : \A m \in P : m <= n
<1> DEFINE Above(n) == {m \in P : m > n}
           Heads == {Above(n) : n \in P}
<1>1. Heads \in SUBSET (SUBSET P) /\ Heads # {}
  OBVIOUS
<1>2. PICK s \in Heads : \A t \in Heads : t \subseteq s => t = s
  <2> HIDE DEF Heads
  <2> QED
    BY <1>1, LeastSubset
<1>3. PICK n \in P : s = Above(n)
  BY <1>2
<1>4. ASSUME NEW m \in P PROVE m <= n
  <2>1. CASE m > n
    <3>1. Above(m) \in Heads /\ Above(m) \subseteq s
      BY <1>3, <2>1
    <3>2. Above(m) = s
      BY <1>2, <3>1
    <3> QED
      BY <1>3, <2>1, <3>2
  <2> QED
    BY <2>1
<1> QED
  BY <1>4

\* Integer division by a positive number.
LEMMA DivType == ASSUME NEW a \in Int, NEW n \in Nat, n > 0 PROVE a \div n \in Int /\ a % n \in Int
OBVIOUS
\* Its quotient and remainder, and the bounds they give.
LEMMA DivFacts ==
  ASSUME NEW a \in Int, NEW n \in Nat, n > 0
  PROVE  a \div n \in Int /\ a = (n * (a \div n)) + (a % n) /\ a % n \in Int /\ 0 <= a % n /\ a % n < n
OBVIOUS
LEMMA DivBounds ==
  ASSUME NEW a \in Int, NEW n \in Nat, n > 0
  PROVE  a \div n \in Int /\ n * (a \div n) <= a /\ a < n * (a \div n) + n
OBVIOUS

LEMMA LessTimes == ASSUME NEW a \in Int, NEW b \in Int, NEW n \in Nat, a <= b PROVE n * a <= n * b
OBVIOUS
LEMMA TimesOne == ASSUME NEW a \in Int, NEW n \in Nat PROVE n * (a + 1) = n * a + n
OBVIOUS
\* It does not decrease.
LEMMA DivMonotone ==
  ASSUME NEW a \in Int, NEW b \in Int, NEW n \in Nat, n > 0, a <= b
  PROVE  a \div n <= b \div n
<1> DEFINE q == a \div n
           r == b \div n
<1>1. q \in Int /\ r \in Int /\ n * q <= a /\ b < n * r + n
  BY DivBounds
<1> HIDE DEF q, r
<1>2. ASSUME r + 1 <= q PROVE FALSE
  <2>1. n * (r + 1) <= n * q
    BY <1>1, <1>2, LessTimes
  <2>2. n * (r + 1) = n * r + n
    BY <1>1, TimesOne
  <2>3. n * r \in Int /\ n * q \in Int
    BY <1>1
  <2> QED
    BY <1>1, <2>1, <2>2, <2>3
<1>3. q <= r
  BY <1>1, <1>2
<1> QED
  BY <1>3 DEF q, r
=============================================================================
