----------------------------- MODULE Sums_proofs -----------------------------
(***************************************************************************)
(* Facts about finite sets of numbers that the proofs of several parts     *)
(* need: extremes, and the sum of a function over a set.  An induction is  *)
(* by a smallest counterexample, which needs no operator as a parameter.   *)
(***************************************************************************)
EXTENDS Integers, Functions, FiniteSetsExt, FiniteSetTheorems, WellFoundedInduction, TLAPS

\* A non-empty set of naturals has a least element.
LEMMA LeastNatural ==
    ASSUME NEW S \in SUBSET Nat, S # {}
    PROVE  \E x \in S : \A y \in S : x <= y
<1>1. PICK x \in S : \A y \in S : ~(<<y, x>> \in OpToRel(<, Nat))
    BY NatLessThanWellFounded, WFMin
<1>2. \A y \in S : ~(y < x)
    BY <1>1, Zenon DEF OpToRel
<1>. QED BY <1>2

\* What holds of a set as soon as it holds of its proper subsets holds of every
\* finite set.
LEMMA ProperSubsets ==
    ASSUME NEW S, IsFiniteSet(S), NEW Good,
           \A v \in SUBSET S : (\A u \in SUBSET v : u # v => u \in Good) => v \in Good
    PROVE  S \in Good
<1>. DEFINE Bad == {v \in SUBSET S : v \notin Good}
            sizes == {Cardinality(v) : v \in Bad}
<1>. SUFFICES ASSUME Bad # {} PROVE FALSE
    OBVIOUS
<1>1. \A v \in SUBSET S : IsFiniteSet(v) /\ Cardinality(v) \in Nat
    BY FS_Subset, FS_CardinalityType
<1>2. sizes \in SUBSET Nat /\ sizes # {}
    BY <1>1
<1>3. PICK v \in Bad : \A u \in Bad : Cardinality(v) <= Cardinality(u)
    <2>1. PICK c \in sizes : \A d \in sizes : c <= d
        <3>. HIDE DEF sizes
        <3>. QED BY <1>2, LeastNatural
    <2>. QED BY <2>1
<1>4. PICK u \in SUBSET v : u # v /\ u \in Bad
    OBVIOUS
<1>5. Cardinality(u) <= Cardinality(v) /\ Cardinality(u) # Cardinality(v)
    BY <1>1, <1>4, FS_Subset
<1>6. Cardinality(v) <= Cardinality(u) /\ Cardinality(u) \in Nat /\ Cardinality(v) \in Nat
    BY <1>1, <1>3, <1>4
<1>. QED BY <1>5, <1>6

---------------------------------------------------------------------------
(* Extremes. *)

\* A finite set of prices has a highest: the one with the fewest at or above it.
LEMMA Highest ==
    ASSUME NEW S \in SUBSET Int, IsFiniteSet(S), S # {}
    PROVE  Max(S) \in S /\ \A x \in S : x <= Max(S)
<1>. DEFINE above(x) == {y \in S : x <= y}
            sizes == {Cardinality(above(x)) : x \in S}
<1>1. \A x \in S : IsFiniteSet(above(x)) /\ Cardinality(above(x)) \in Nat
    BY FS_Subset, FS_CardinalityType
<1>2. sizes \in SUBSET Nat /\ sizes # {}
    BY <1>1
<1>3. PICK x \in S : \A y \in S : Cardinality(above(x)) <= Cardinality(above(y))
    <2>. HIDE DEF above
    <2>1. PICK c \in sizes : \A d \in sizes : c <= d
        BY <1>2, LeastNatural
    <2>. QED BY <2>1
<1>4. ASSUME NEW y \in S, y > x PROVE FALSE
    <2>. x \in Int /\ y \in Int /\ S \subseteq Int
        OBVIOUS
    <2>a. \A z \in S : y <= z => x <= z
        BY <1>4
    <2>b. x <= x /\ ~(y <= x)
        BY <1>4
    <2>1. above(y) \subseteq above(x) /\ x \in above(x) /\ x \notin above(y)
        BY <2>a, <2>b, Zenon
    <2>2. Cardinality(above(y)) <= Cardinality(above(x))
          /\ (Cardinality(above(x)) = Cardinality(above(y)) => above(x) = above(y))
        BY <2>1, <1>1, FS_Subset
    <2>. HIDE DEF above
    <2>. QED BY <1>1, <1>3, <2>1, <2>2
<1>5. \E z \in S : \A y \in S : z >= y
    BY <1>4
<1>. QED BY <1>5 DEF Max

\* And a lowest.
LEMMA Lowest ==
    ASSUME NEW S \in SUBSET Int, IsFiniteSet(S), S # {}
    PROVE  Min(S) \in S /\ \A x \in S : Min(S) <= x
<1>. DEFINE below(x) == {y \in S : y <= x}
            sizes == {Cardinality(below(x)) : x \in S}
<1>1. \A x \in S : IsFiniteSet(below(x)) /\ Cardinality(below(x)) \in Nat
    BY FS_Subset, FS_CardinalityType
<1>2. sizes \in SUBSET Nat /\ sizes # {}
    BY <1>1
<1>3. PICK x \in S : \A y \in S : Cardinality(below(x)) <= Cardinality(below(y))
    <2>. HIDE DEF below
    <2>1. PICK c \in sizes : \A d \in sizes : c <= d
        BY <1>2, LeastNatural
    <2>. QED BY <2>1
<1>4. ASSUME NEW y \in S, y < x PROVE FALSE
    <2>. x \in Int /\ y \in Int /\ S \subseteq Int
        OBVIOUS
    <2>a. \A z \in S : z <= y => z <= x
        BY <1>4
    <2>b. x <= x /\ ~(x <= y)
        BY <1>4
    <2>1. below(y) \subseteq below(x) /\ x \in below(x) /\ x \notin below(y)
        BY <2>a, <2>b, Zenon
    <2>2. Cardinality(below(y)) <= Cardinality(below(x))
          /\ (Cardinality(below(x)) = Cardinality(below(y)) => below(x) = below(y))
        BY <2>1, <1>1, FS_Subset
    <2>. HIDE DEF below
    <2>. QED BY <1>1, <1>3, <2>1, <2>2
<1>5. \E z \in S : \A y \in S : z <= y
    BY <1>4
<1>. QED BY <1>5 DEF Min

LEMMA FewAreFinite ==
    ASSUME NEW x, NEW y, NEW z
    PROVE  IsFiniteSet({x, y}) /\ IsFiniteSet({x, y, z})
<1>1. IsFiniteSet({x}) /\ IsFiniteSet({x} \union {y}) /\ IsFiniteSet({x} \union {y} \union {z})
    BY FS_EmptySet, FS_AddElement, FS_Singleton, FS_Union
<1>2. {x, y} = {x} \union {y} /\ {x, y, z} = {x} \union {y} \union {z}
    OBVIOUS
<1>. QED BY <1>1, <1>2

---------------------------------------------------------------------------
(* Sums. *)

Pick(s) == CHOOSE x \in s : TRUE

\* The iteration behind the sum of f over S.
IsFold(f, S, g) ==
    g = [s \in SUBSET S |-> IF s = {} THEN 0 ELSE f[Pick(s)] + g[s \ {Pick(s)}]]
Fold(f, S) == CHOOSE g : IsFold(f, S, g)

LEMMA SumIsFold ==
    ASSUME NEW f, NEW S
    PROVE  SumFunctionOnSet(f, S) = Fold(f, S)[S]
BY Zenon DEF SumFunctionOnSet, FoldFunctionOnSet, MapThenFoldSet, Fold, IsFold, Pick

LEMMA FoldStep ==
    ASSUME NEW f, NEW S, NEW g, IsFold(f, S, g), NEW s \in SUBSET S
    PROVE  g[s] = IF s = {} THEN 0 ELSE f[Pick(s)] + g[s \ {Pick(s)}]
BY DEF IsFold

LEMMA PickIsIn ==
    ASSUME NEW s, s # {}
    PROVE  Pick(s) \in s /\ s \ {Pick(s)} \in SUBSET s /\ s \ {Pick(s)} # s
BY DEF Pick

\* Two iterations agree on the sets they share.
LEMMA FoldsAgree ==
    ASSUME NEW f, NEW S, NEW T, NEW g, NEW h, IsFold(f, S, g), IsFold(f, T, h),
           NEW u, u \in SUBSET S, u \in SUBSET T, IsFiniteSet(u)
    PROVE  g[u] = h[u]
<1>. DEFINE Good == {v \in SUBSET u : g[v] = h[v]}
<1>1. ASSUME NEW v \in SUBSET u, \A w \in SUBSET v : w # v => w \in Good
      PROVE  v \in Good
    <2>1. v \in SUBSET S /\ v \in SUBSET T
        OBVIOUS
    <2>2. CASE v = {}
        BY <2>1, <2>2, FoldStep
    <2>3. CASE v # {}
        <3>1. v \ {Pick(v)} \in Good
            BY <1>1, <2>3, PickIsIn
        <3>. QED BY <2>1, <2>3, <3>1, FoldStep
    <2>. QED BY <2>2, <2>3
<1>. HIDE DEF Good
<1>2. u \in Good
    BY <1>1, ProperSubsets
<1>. QED BY <1>2 DEF Good

LEMMA FoldExists ==
    ASSUME NEW f, NEW S, IsFiniteSet(S)
    PROVE  IsFold(f, S, Fold(f, S))
<1>. DEFINE Good == {v \in SUBSET S : \E g : IsFold(f, v, g)}
            Rest(u) == u \ {Pick(u)}
<1>1. ASSUME NEW v \in SUBSET S, \A u \in SUBSET v : u # v => u \in Good
      PROVE  v \in Good
    <2>. DEFINE h == [u \in SUBSET v |->
                         IF u = {} THEN 0 ELSE f[Pick(u)] + Fold(f, Rest(u))[Rest(u)]]
    <2>1. ASSUME NEW u \in SUBSET v, u # v PROVE IsFold(f, u, Fold(f, u))
        BY <1>1, <2>1 DEF Fold
    <2>2. ASSUME NEW w \in SUBSET v, w # v PROVE h[w] = Fold(f, w)[w]
        <3>1. CASE w = {}
            BY <2>1, <2>2, <3>1, FoldStep
        <3>2. CASE w # {}
            <4>1. Rest(w) \in SUBSET w /\ Rest(w) \in SUBSET v /\ Rest(w) # v
                BY <3>2, PickIsIn
            <4>2. IsFold(f, w, Fold(f, w)) /\ IsFold(f, Rest(w), Fold(f, Rest(w)))
                BY <2>1, <2>2, <4>1
            <4>3. IsFiniteSet(Rest(w))
                BY <4>1, FS_Subset
            <4>4. Fold(f, w)[Rest(w)] = Fold(f, Rest(w))[Rest(w)]
                BY <4>1, <4>2, <4>3, FoldsAgree
            <4>5. Fold(f, w)[w] = f[Pick(w)] + Fold(f, w)[Rest(w)]
                BY <3>2, <4>2, FoldStep
            <4>6. h[w] = f[Pick(w)] + Fold(f, Rest(w))[Rest(w)]
                BY <3>2
            <4>. QED BY <4>4, <4>5, <4>6
        <3>. QED BY <3>1, <3>2
    <2>3. ASSUME NEW u \in SUBSET v
          PROVE  h[u] = IF u = {} THEN 0 ELSE f[Pick(u)] + h[Rest(u)]
        <3>1. CASE u = {}
            BY <3>1
        <3>2. CASE u # {}
            <4>1. Rest(u) \in SUBSET v /\ Rest(u) # v
                BY <3>2, PickIsIn
            <4>2. h[Rest(u)] = Fold(f, Rest(u))[Rest(u)]
                BY <2>2, <4>1
            <4>3. h[u] = f[Pick(u)] + Fold(f, Rest(u))[Rest(u)]
                BY <3>2
            <4>. QED BY <3>2, <4>2, <4>3
        <3>. QED BY <3>1, <3>2
    <2>4. h = [u \in SUBSET v |-> h[u]]
        OBVIOUS
    <2>. HIDE DEF h
    <2>5. IsFold(f, v, h)
        BY <2>3, <2>4 DEF IsFold
    <2>. QED BY <2>5
<1>. HIDE DEF Good
<1>2. S \in Good
    BY <1>1, ProperSubsets
<1>3. \E g : IsFold(f, S, g)
    BY <1>2 DEF Good
<1>. QED BY <1>3 DEF Fold

\* The sum over a set is that over the set without one of its elements, and it.
LEMMA SumUnfolds ==
    ASSUME NEW f, NEW S, IsFiniteSet(S)
    PROVE  /\ S = {} => SumFunctionOnSet(f, S) = 0
           /\ S # {} => SumFunctionOnSet(f, S)
                            = f[Pick(S)] + SumFunctionOnSet(f, S \ {Pick(S)})
<1>1. IsFold(f, S, Fold(f, S)) /\ S \in SUBSET S
    BY FoldExists
<1>2. CASE S = {}
    BY <1>1, <1>2, FoldStep, SumIsFold
<1>3. CASE S # {}
    <2>. DEFINE T == S \ {Pick(S)}
    <2>1. T \in SUBSET S /\ IsFiniteSet(T)
        BY FS_Subset
    <2>2. Fold(f, S)[S] = f[Pick(S)] + Fold(f, S)[T]
        BY <1>1, <1>3, FoldStep
    <2>3. Fold(f, S)[T] = Fold(f, T)[T]
        BY <1>1, <2>1, FoldExists, FoldsAgree
    <2>. QED BY <1>3, <2>2, <2>3, SumIsFold
<1>. QED BY <1>2, <1>3

LEMMA SumIsInteger ==
    ASSUME NEW f, NEW S, IsFiniteSet(S), \A x \in S : f[x] \in Int
    PROVE  SumFunctionOnSet(f, S) \in Int
<1>. DEFINE Good == {v \in SUBSET S : SumFunctionOnSet(f, v) \in Int}
<1>1. ASSUME NEW v \in SUBSET S, \A u \in SUBSET v : u # v => u \in Good
      PROVE  v \in Good
    <2>1. IsFiniteSet(v)
        BY FS_Subset
    <2>2. CASE v = {}
        BY <2>1, <2>2, SumUnfolds
    <2>3. CASE v # {}
        <3>1. v \ {Pick(v)} \in Good /\ f[Pick(v)] \in Int
            BY <1>1, <2>3, PickIsIn
        <3>2. SumFunctionOnSet(f, v) = f[Pick(v)] + SumFunctionOnSet(f, v \ {Pick(v)})
            BY <2>1, <2>3, SumUnfolds
        <3>. QED BY <3>1, <3>2
    <2>. QED BY <2>2, <2>3
<1>. HIDE DEF Good
<1>2. S \in Good
    BY <1>1, ProperSubsets
<1>. QED BY <1>2 DEF Good

\* The order does not matter: any element can be the one taken out.
LEMMA SumTakesAny ==
    ASSUME NEW f, NEW S, IsFiniteSet(S), \A x \in S : f[x] \in Int, NEW a \in S
    PROVE  SumFunctionOnSet(f, S) = f[a] + SumFunctionOnSet(f, S \ {a})
<1>. DEFINE Sum(v) == SumFunctionOnSet(f, v)
            Good == {v \in SUBSET S : \A x \in v : Sum(v) = f[x] + Sum(v \ {x})}
<1>1. ASSUME NEW v \in SUBSET S, \A u \in SUBSET v : u # v => u \in Good
      PROVE  v \in Good
    <2>. SUFFICES ASSUME NEW x \in v PROVE Sum(v) = f[x] + Sum(v \ {x})
        OBVIOUS
    <2>. DEFINE c == Pick(v)
    <2>1. c \in v /\ Sum(v) = f[c] + Sum(v \ {c})
        BY FS_Subset, SumUnfolds, PickIsIn
    <2>2. CASE x = c
        BY <2>1, <2>2
    <2>3. CASE x # c
        <3>. HIDE DEF c, Sum
        <3>1. v \ {c} \in Good /\ v \ {x} \in Good
            BY <1>1, <2>1
        <3>2. Sum(v \ {c}) = f[x] + Sum((v \ {c}) \ {x})
            BY <2>3, <3>1
        <3>3. Sum(v \ {x}) = f[c] + Sum((v \ {x}) \ {c})
            BY <2>1, <2>3, <3>1
        <3>4. (v \ {c}) \ {x} = (v \ {x}) \ {c}
            OBVIOUS
        <3>5. Sum((v \ {x}) \ {c}) \in Int
            <4>1. (v \ {x}) \ {c} \in SUBSET S /\ IsFiniteSet((v \ {x}) \ {c})
                BY FS_Subset
            <4>. QED BY <4>1, SumIsInteger DEF Sum
        <3>6. f[x] \in Int /\ f[c] \in Int
            BY <2>1
        <3>. DEFINE rest == Sum((v \ {x}) \ {c})
        <3>7. Sum(v) = f[c] + (f[x] + rest) /\ Sum(v \ {x}) = f[c] + rest
            BY <2>1, <3>2, <3>3, <3>4
        <3>. HIDE DEF rest
        <3>8. rest \in Int
            BY <3>5 DEF rest
        <3>9. f[c] + (f[x] + rest) = f[x] + (f[c] + rest)
            BY <3>6, <3>8
        <3>. QED BY <3>7, <3>9
    <2>. QED BY <2>2, <2>3
<1>. HIDE DEF Good
<1>2. S \in Good
    BY <1>1, ProperSubsets
<1>. QED BY <1>2 DEF Good

\* Only the values on the set matter.
LEMMA SumIsOfTheValues ==
    ASSUME NEW f, NEW g, NEW S, IsFiniteSet(S), \A x \in S : f[x] = g[x]
    PROVE  SumFunctionOnSet(f, S) = SumFunctionOnSet(g, S)
<1>. DEFINE Good == {v \in SUBSET S : SumFunctionOnSet(f, v) = SumFunctionOnSet(g, v)}
<1>1. ASSUME NEW v \in SUBSET S, \A u \in SUBSET v : u # v => u \in Good
      PROVE  v \in Good
    <2>1. IsFiniteSet(v)
        BY FS_Subset
    <2>2. CASE v = {}
        BY <2>1, <2>2, SumUnfolds
    <2>3. CASE v # {}
        <3>1. v \ {Pick(v)} \in Good /\ f[Pick(v)] = g[Pick(v)]
            BY <1>1, <2>3, PickIsIn
        <3>2. /\ SumFunctionOnSet(f, v) = f[Pick(v)] + SumFunctionOnSet(f, v \ {Pick(v)})
              /\ SumFunctionOnSet(g, v) = g[Pick(v)] + SumFunctionOnSet(g, v \ {Pick(v)})
            BY <2>1, <2>3, SumUnfolds
        <3>. QED BY <3>1, <3>2
    <2>. QED BY <2>2, <2>3
<1>. HIDE DEF Good
<1>2. S \in Good
    BY <1>1, ProperSubsets
<1>. QED BY <1>2 DEF Good

\* The sum of a sequence of numbers, and of one more.
LEMMA SumOfOneMore ==
    ASSUME NEW n \in Nat, NEW f, NEW g, DOMAIN f = 1..n, DOMAIN g = 1..(n + 1),
           \A k \in 1..n : f[k] \in Int /\ f[k] = g[k], g[n + 1] \in Int
    PROVE  SumFunction(f) \in Int /\ SumFunction(g) = SumFunction(f) + g[n + 1]
<1>. DEFINE S == 1..(n + 1)
<1>1. IsFiniteSet(S) /\ IsFiniteSet(1..n)
    BY FS_Interval
<1>2. S \ {n + 1} = 1..n /\ n + 1 \in S /\ \A k \in S : g[k] \in Int
    OBVIOUS
<1>3. SumFunctionOnSet(g, S) = g[n + 1] + SumFunctionOnSet(g, 1..n)
    BY <1>1, <1>2, SumTakesAny
<1>4. SumFunctionOnSet(g, 1..n) = SumFunctionOnSet(f, 1..n)
    BY <1>1, SumIsOfTheValues
<1>5. SumFunctionOnSet(f, 1..n) \in Int
    BY <1>1, SumIsInteger
<1>. QED BY <1>3, <1>4, <1>5 DEF SumFunction
\* One value changes.
LEMMA SumAfterChange ==
    ASSUME NEW f, NEW g, NEW S, IsFiniteSet(S), NEW a \in S,
           \A x \in S : f[x] \in Int,
           \A x \in S \ {a} : g[x] = f[x], g[a] \in Int
    PROVE  SumFunctionOnSet(g, S) = SumFunctionOnSet(f, S) - f[a] + g[a]
<1>. DEFINE R == S \ {a}
<1>1. IsFiniteSet(R) /\ \A x \in S : g[x] \in Int
    BY FS_Subset
<1>2. /\ SumFunctionOnSet(f, S) = f[a] + SumFunctionOnSet(f, R)
      /\ SumFunctionOnSet(g, S) = g[a] + SumFunctionOnSet(g, R)
    BY <1>1, SumTakesAny
<1>3. SumFunctionOnSet(g, R) = SumFunctionOnSet(f, R) /\ SumFunctionOnSet(f, R) \in Int
    BY <1>1, SumIsOfTheValues, SumIsInteger
<1>4. f[a] \in Int
    OBVIOUS
<1>. HIDE DEF R
<1>. QED BY <1>2, <1>3, <1>4

\* One element comes in.
LEMMA SumWithOneMore ==
    ASSUME NEW f, NEW g, NEW S, IsFiniteSet(S), NEW a, a \notin S,
           \A x \in S : f[x] \in Int /\ g[x] = f[x], g[a] \in Int
    PROVE  SumFunctionOnSet(g, S \union {a}) = SumFunctionOnSet(f, S) + g[a]
<1>. DEFINE T == S \union {a}
<1>1. IsFiniteSet(T) /\ a \in T /\ T \ {a} = S /\ \A x \in T : g[x] \in Int
    BY FS_AddElement
<1>2. SumFunctionOnSet(g, T) = g[a] + SumFunctionOnSet(g, S)
    <2>. HIDE DEF T
    <2>. QED BY <1>1, SumTakesAny
<1>3. SumFunctionOnSet(g, S) = SumFunctionOnSet(f, S) /\ SumFunctionOnSet(f, S) \in Int
    BY SumIsOfTheValues, SumIsInteger
<1>. QED BY <1>2, <1>3
=============================================================================
