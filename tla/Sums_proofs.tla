------------------------------ MODULE Sums_proofs ------------------------------
(***************************************************************************)
(* A sum over a finite set does not depend on the order of its terms, and  *)
(* changes by what one of them changes.                                    *)
(***************************************************************************)
EXTENDS Sums, FiniteSetTheorems, WellFoundedInduction, TLAPS

\* A smallest set among finite ones.
LEMMA SmallestExists ==
    ASSUME NEW C, C # {}, \A s \in C : IsFiniteSet(s)
    PROVE  \E s \in C : \A t \in C : ~ (t \subseteq s /\ t # s)
<1> DEFINE R == {ss \in Nat \X Nat : ss[1] < ss[2]}
           sizes == {Cardinality(s) : s \in C}
<1>1. IsWellFoundedOn(R, Nat)
  BY NatLessThanWellFounded DEF OpToRel
<1>2. sizes \subseteq Nat /\ sizes # {}
  BY FS_CardinalityType
<1> HIDE DEF R
<1>3. PICK n \in sizes : \A k \in sizes : ~ (<<k, n>> \in R)
  BY <1>1, <1>2, WFMin, Zenon
<1>4. PICK s \in C : Cardinality(s) = n
  OBVIOUS
<1>5. ASSUME NEW t \in C, t \subseteq s, t # s PROVE FALSE
  <2>1. Cardinality(t) <= Cardinality(s) /\ Cardinality(t) # Cardinality(s)
    BY <1>5, FS_Subset
  <2>2. Cardinality(t) \in Nat /\ Cardinality(s) \in Nat
    BY FS_CardinalityType
  <2>3. <<Cardinality(t), n>> \in R
    BY <1>4, <2>1, <2>2 DEF R
  <2>4. QED
    BY <1>3, <2>3
<1>6. QED
  BY <1>5

-----------------------------------------------------------------------------
(* The function by which the sum is defined *)

Any(s) == CHOOSE x \in s : TRUE
Sums(f, S, g) ==
    g = [s \in SUBSET S |-> IF s = {} THEN 0 ELSE f[Any(s)] + g[s \ {Any(s)}]]

\* Two such functions agree on the sets both are defined for.
LEMMA SumsAgree ==
    ASSUME NEW f, NEW S, NEW T, IsFiniteSet(S), NEW g, NEW h, Sums(f, S, g), Sums(f, T, h),
           NEW s \in SUBSET S, s \in SUBSET T
    PROVE  g[s] = h[s]
<1> DEFINE C == {t \in (SUBSET S) \cap (SUBSET T) : g[t] # h[t]}
<1>1. SUFFICES ASSUME C # {} PROVE FALSE
  OBVIOUS
<1>2. PICK t \in C : \A u \in C : ~ (u \subseteq t /\ u # t)
  <2>1. \A t \in C : IsFiniteSet(t)
    BY FS_Subset
  <2> HIDE DEF C
  <2>2. QED
    BY <1>1, <2>1, SmallestExists
<1>3. g[t] = IF t = {} THEN 0 ELSE f[Any(t)] + g[t \ {Any(t)}]
  BY DEF Sums
<1>4. h[t] = IF t = {} THEN 0 ELSE f[Any(t)] + h[t \ {Any(t)}]
  BY DEF Sums
<1>5. t # {}
  BY <1>3, <1>4
<1>6. Any(t) \in t
  BY <1>5 DEF Any
<1>7. g[t \ {Any(t)}] = h[t \ {Any(t)}]
  BY <1>2, <1>6
<1>8. QED
  BY <1>3, <1>4, <1>5, <1>7

\* There is one for every finite set.
LEMMA SumsExist ==
    ASSUME NEW f, NEW S, IsFiniteSet(S)
    PROVE  \E g : Sums(f, S, g)
<1> DEFINE C == {s \in SUBSET S : ~ \E g : Sums(f, s, g)}
<1>1. SUFFICES ASSUME C # {} PROVE FALSE
  OBVIOUS
<1>2. \A s \in SUBSET S : IsFiniteSet(s)
  BY FS_Subset
<1>3. PICK t \in C : \A u \in C : ~ (u \subseteq t /\ u # t)
  <2>1. \A t \in C : IsFiniteSet(t)
    BY <1>2
  <2> HIDE DEF C
  <2>2. QED
    BY <1>1, <2>1, SmallestExists
<1>4. \A u \in SUBSET t : u # t => \E g : Sums(f, u, g)
  BY <1>3
<1> DEFINE G(u) == CHOOSE g : Sums(f, u, g)
           below == [u \in SUBSET t |-> G(u)[u]]
           last == IF t = {} THEN 0 ELSE f[Any(t)] + below[t \ {Any(t)}]
           g == [u \in SUBSET t |-> IF u = t THEN last ELSE below[u]]
<1>5. \A u \in SUBSET t : u # t => Sums(f, u, G(u))
  BY <1>4
<1>6. ASSUME NEW u \in SUBSET t
      PROVE  g[u] = IF u = {} THEN 0 ELSE f[Any(u)] + g[u \ {Any(u)}]
  <2>1. u # {} => Any(u) \in u
    BY DEF Any
  <2>2. CASE u = t
    <3>1. t # {} => (t \ {Any(t)}) \in SUBSET t /\ t \ {Any(t)} # t
      BY <2>1, <2>2
    <3>2. QED
      BY <2>2, <3>1
  <2>3. CASE u # t /\ u = {}
    <3>1. g[u] = G(u)[u]
      BY <2>3
    <3>2. G(u)[u] = 0
      <4> HIDE DEF G
      <4>1. QED
        BY <1>5, <2>3 DEF Sums
    <3>3. QED
      BY <2>3, <3>1, <3>2
  <2>4. CASE u # t /\ u # {}
    <3> DEFINE v == u \ {Any(u)}
    <3>1. v \in SUBSET t /\ v # t /\ v \in SUBSET u
      BY <2>1, <2>4
    <3>2. g[u] = G(u)[u] /\ g[v] = G(v)[v]
      BY <2>4, <3>1
    <3>3. G(u)[u] = f[Any(u)] + G(u)[v]
      <4> HIDE DEF G
      <4>1. QED
        BY <1>5, <2>4 DEF Sums
    <3>4. G(u)[v] = G(v)[v]
      <4> HIDE DEF G, v
      <4>1. IsFiniteSet(u) /\ Sums(f, u, G(u)) /\ Sums(f, v, G(v))
        BY <1>2, <1>5, <2>4, <3>1
      <4>2. v \in SUBSET v
        OBVIOUS
      <4>3. QED
        BY <3>1, <4>1, <4>2, SumsAgree
    <3>5. QED
      BY <2>4, <3>2, <3>3, <3>4
  <2>5. QED
    BY <2>2, <2>3, <2>4
<1>7. g = [u \in SUBSET t |-> IF u = {} THEN 0 ELSE f[Any(u)] + g[u \ {Any(u)}]]
  <2>1. \A u \in SUBSET t : g[u] = IF u = {} THEN 0 ELSE f[Any(u)] + g[u \ {Any(u)}]
    BY <1>6
  <2>2. g = [u \in SUBSET t |-> g[u]]
    OBVIOUS
  <2> HIDE DEF g
  <2>3. QED
    BY <2>1, <2>2
<1>8. Sums(f, t, g)
  BY <1>7, Zenon DEF Sums
<1>9. QED
  BY <1>8, <1>3

LEMMA SumDefined ==
    ASSUME NEW f, NEW S, IsFiniteSet(S)
    PROVE  \E g : Sums(f, S, g) /\ SumOf(f, S) = g[S]
<1> DEFINE g == CHOOSE g : Sums(f, S, g)
<1>1. Sums(f, S, g)
  BY SumsExist
<1>2. SumOf(f, S) = g[S]
  BY Zenon DEF SumOf, MapThenSumSet, MapThenFoldSet, Sums, Any
<1>3. QED
  BY <1>1, <1>2

-----------------------------------------------------------------------------
(* What a sum is *)

LEMMA SumEmpty ==
    ASSUME NEW f
    PROVE  SumOf(f, {}) = 0
<1>1. IsFiniteSet({})
  BY FS_EmptySet
<1>2. PICK g : Sums(f, {}, g) /\ SumOf(f, {}) = g[{}]
  BY <1>1, SumDefined
<1>3. g[{}] = 0
  BY <1>2 DEF Sums
<1>4. QED
  BY <1>2, <1>3

\* The element that the definition takes out first.
LEMMA SumOfAny ==
    ASSUME NEW f, NEW S, IsFiniteSet(S), S # {}
    PROVE  Any(S) \in S /\ SumOf(f, S) = f[Any(S)] + SumOf(f, S \ {Any(S)})
<1> DEFINE T == S \ {Any(S)}
<1>1. Any(S) \in S
  BY DEF Any
<1>2. IsFiniteSet(T) /\ T \in SUBSET S
  BY FS_Subset
<1>3. PICK g : Sums(f, S, g) /\ SumOf(f, S) = g[S]
  BY SumDefined
<1>4. PICK h : Sums(f, T, h) /\ SumOf(f, T) = h[T]
  BY <1>2, SumDefined
<1>5. g[S] = f[Any(S)] + g[T]
  BY <1>3 DEF Sums
<1> HIDE DEF T
<1>6. T \in SUBSET T
  OBVIOUS
<1>7. g[T] = h[T]
  BY <1>2, <1>3, <1>4, <1>6, SumsAgree
<1>8. QED
  BY <1>1, <1>3, <1>4, <1>5, <1>7 DEF T

LEMMA SumInt ==
    ASSUME NEW f, NEW S, IsFiniteSet(S), \A x \in S : f[x] \in Int
    PROVE  SumOf(f, S) \in Int
<1> DEFINE C == {s \in SUBSET S : SumOf(f, s) \notin Int}
<1>1. SUFFICES ASSUME C # {} PROVE FALSE
  BY Zenon
<1>2. \A s \in SUBSET S : IsFiniteSet(s)
  BY FS_Subset
<1>3. PICK t \in C : \A u \in C : ~ (u \subseteq t /\ u # t)
  <2>1. \A t \in C : IsFiniteSet(t)
    BY <1>2
  <2> HIDE DEF C
  <2>2. QED
    BY <1>1, <2>1, SmallestExists
<1>4. t # {}
  BY SumEmpty
<1>5. Any(t) \in t /\ SumOf(f, t) = f[Any(t)] + SumOf(f, t \ {Any(t)})
  BY <1>2, <1>4, SumOfAny
<1>6. SumOf(f, t \ {Any(t)}) \in Int
  BY <1>3, <1>5
<1>7. QED
  BY <1>5, <1>6

\* Any element may be taken out.
LEMMA SumTakeOut ==
    ASSUME NEW f, NEW S, IsFiniteSet(S), \A x \in S : f[x] \in Int, NEW y \in S
    PROVE  SumOf(f, S) = f[y] + SumOf(f, S \ {y})
<1> DEFINE C == {s \in SUBSET S : \E z \in s : SumOf(f, s) # f[z] + SumOf(f, s \ {z})}
<1>1. SUFFICES ASSUME C # {} PROVE FALSE
  BY Zenon
<1>2. \A s \in SUBSET S : IsFiniteSet(s)
  BY FS_Subset
<1>3. PICK t \in C : \A u \in C : ~ (u \subseteq t /\ u # t)
  <2>1. \A t \in C : IsFiniteSet(t)
    BY <1>2
  <2> HIDE DEF C
  <2>2. QED
    BY <1>1, <2>1, SmallestExists
<1>4. PICK z \in t : SumOf(f, t) # f[z] + SumOf(f, t \ {z})
  OBVIOUS
<1> DEFINE x == Any(t)
<1>5. x \in t /\ SumOf(f, t) = f[x] + SumOf(f, t \ {x})
  BY <1>2, SumOfAny
<1> HIDE DEF x
<1>6. x # z
  BY <1>4, <1>5
<1>7. SumOf(f, t \ {x}) = f[z] + SumOf(f, (t \ {x}) \ {z})
  BY <1>3, <1>5, <1>6
<1>8. SumOf(f, t \ {z}) = f[x] + SumOf(f, (t \ {z}) \ {x})
  BY <1>3, <1>5, <1>6
<1>9. (t \ {x}) \ {z} = (t \ {z}) \ {x}
  OBVIOUS
<1>10. SumOf(f, (t \ {x}) \ {z}) \in Int
  BY <1>2, SumInt
<1>11. f[x] \in Int /\ f[z] \in Int
  BY <1>5
<1>12. QED
  BY <1>4, <1>5, <1>7, <1>8, <1>9, <1>10, <1>11

\* Only the values on the set matter.
LEMMA SumExtensional ==
    ASSUME NEW f, NEW g, NEW S, IsFiniteSet(S), \A x \in S : f[x] = g[x]
    PROVE  SumOf(f, S) = SumOf(g, S)
<1> DEFINE C == {s \in SUBSET S : SumOf(f, s) # SumOf(g, s)}
<1>1. SUFFICES ASSUME C # {} PROVE FALSE
  BY Zenon
<1>2. \A s \in SUBSET S : IsFiniteSet(s)
  BY FS_Subset
<1>3. PICK t \in C : \A u \in C : ~ (u \subseteq t /\ u # t)
  <2>1. \A t \in C : IsFiniteSet(t)
    BY <1>2
  <2> HIDE DEF C
  <2>2. QED
    BY <1>1, <2>1, SmallestExists
<1>4. t # {}
  BY SumEmpty
<1>5. /\ Any(t) \in t
      /\ SumOf(f, t) = f[Any(t)] + SumOf(f, t \ {Any(t)})
      /\ SumOf(g, t) = g[Any(t)] + SumOf(g, t \ {Any(t)})
  BY <1>2, <1>4, SumOfAny
<1>6. SumOf(f, t \ {Any(t)}) = SumOf(g, t \ {Any(t)})
  BY <1>3, <1>5
<1>7. QED
  BY <1>5, <1>6

-----------------------------------------------------------------------------
(* How a sum changes *)

LEMMA SumNat ==
    ASSUME NEW f, NEW S, IsFiniteSet(S), \A x \in S : f[x] \in Nat
    PROVE  SumOf(f, S) \in Nat
<1> DEFINE C == {s \in SUBSET S : SumOf(f, s) \notin Nat}
<1>1. SUFFICES ASSUME C # {} PROVE FALSE
  BY Zenon
<1>2. \A s \in SUBSET S : IsFiniteSet(s)
  BY FS_Subset
<1>3. PICK t \in C : \A u \in C : ~ (u \subseteq t /\ u # t)
  <2>1. \A t \in C : IsFiniteSet(t)
    BY <1>2
  <2> HIDE DEF C
  <2>2. QED
    BY <1>1, <2>1, SmallestExists
<1>4. t # {}
  BY SumEmpty
<1>5. Any(t) \in t /\ SumOf(f, t) = f[Any(t)] + SumOf(f, t \ {Any(t)})
  BY <1>2, <1>4, SumOfAny
<1>6. SumOf(f, t \ {Any(t)}) \in Nat
  BY <1>3, <1>5
<1>7. QED
  BY <1>5, <1>6

\* No term exceeds the sum.
LEMMA TermInSum ==
    ASSUME NEW f, NEW S, IsFiniteSet(S), \A x \in S : f[x] \in Nat, NEW y \in S
    PROVE  f[y] <= SumOf(f, S)
<1>1. SumOf(f, S) = f[y] + SumOf(f, S \ {y})
  BY SumTakeOut
<1>2. SumOf(f, S \ {y}) \in Nat
  <2>1. IsFiniteSet(S \ {y})
    BY FS_Subset
  <2>2. QED
    BY <2>1, SumNat
<1>3. QED
  BY <1>1, <1>2

\* g is f but for the term of y, which is d more.
DiffersAt(f, g, S, y, d) ==
    /\ IsFiniteSet(S)
    /\ \A x \in S : f[x] \in Int /\ g[x] \in Int /\ (x # y => g[x] = f[x])
    /\ y \in S /\ d \in Int /\ g[y] = f[y] + d

\* A sum changes by what one of its terms changes.
LEMMA SumChanged ==
    ASSUME NEW f, NEW g, NEW S, NEW y, NEW d, DiffersAt(f, g, S, y, d)
    PROVE  SumOf(g, S) = SumOf(f, S) + d
<1>0. /\ IsFiniteSet(S) /\ y \in S /\ d \in Int /\ g[y] = f[y] + d
      /\ \A x \in S : f[x] \in Int /\ g[x] \in Int /\ (x # y => g[x] = f[x])
  BY DEF DiffersAt
<1> DEFINE T == S \ {y}
<1>1. IsFiniteSet(T)
  BY <1>0, FS_Subset
<1>2. SumOf(f, S) = f[y] + SumOf(f, T) /\ SumOf(g, S) = g[y] + SumOf(g, T)
  BY <1>0, SumTakeOut
<1>3. SumOf(g, T) = SumOf(f, T)
  BY <1>0, <1>1, SumExtensional
<1>4. SumOf(f, T) \in Int
  BY <1>0, <1>1, SumInt
<1>5. QED
  BY <1>0, <1>2, <1>3, <1>4

\* g is f on the part T of S, and zero on the rest.
PartOf(f, T, g, S) ==
    /\ IsFiniteSet(S) /\ T \in SUBSET S
    /\ \A x \in T : f[x] \in Int /\ g[x] = f[x]
    /\ \A x \in S \ T : g[x] = 0

\* A sum over some of the elements is one over all of them with zeroes for the others.
LEMMA SumOverPart ==
    ASSUME NEW f, NEW T, NEW g, NEW S, PartOf(f, T, g, S)
    PROVE  SumOf(f, T) = SumOf(g, S)
<1>0. /\ IsFiniteSet(S) /\ T \in SUBSET S
      /\ \A x \in T : f[x] \in Int /\ g[x] = f[x]
      /\ \A x \in S \ T : g[x] = 0
  BY DEF PartOf
<1> DEFINE C == {s \in SUBSET S : SumOf(f, s \cap T) # SumOf(g, s)}
<1>1. SUFFICES ASSUME C # {} PROVE FALSE
  <2>1. SUFFICES SumOf(f, S \cap T) = SumOf(g, S)
    <3>1. S \cap T = T
      BY <1>0
    <3>2. QED
      BY <3>1, Zenon
  <2>2. QED
    BY Zenon
<1>2. \A s \in SUBSET S : IsFiniteSet(s) /\ IsFiniteSet(s \cap T)
  BY <1>0, FS_Subset
<1>3. PICK t \in C : \A u \in C : ~ (u \subseteq t /\ u # t)
  <2>1. \A t \in C : IsFiniteSet(t)
    BY <1>2
  <2> HIDE DEF C
  <2>2. QED
    BY <1>1, <2>1, SmallestExists
<1>4. t # {}
  BY SumEmpty
<1> DEFINE x == Any(t)
           u == t \ {x}
<1>5. x \in t /\ SumOf(g, t) = g[x] + SumOf(g, u)
  BY <1>2, <1>4, SumOfAny
<1> HIDE DEF x
<1>6. SumOf(f, u \cap T) = SumOf(g, u)
  BY <1>3, <1>5
<1>7. SumOf(f, u \cap T) \in Int
  BY <1>0, <1>2, SumInt
<1>8. CASE x \in T
  <2>1. SumOf(f, t \cap T) = f[x] + SumOf(f, (t \cap T) \ {x})
    BY <1>0, <1>2, <1>5, <1>8, SumTakeOut
  <2>2. (t \cap T) \ {x} = u \cap T
    OBVIOUS
  <2>3. QED
    BY <1>0, <1>3, <1>5, <1>6, <1>8, <2>1, <2>2, Zenon
<1>9. CASE x \notin T
  <2>1. t \cap T = u \cap T
    BY <1>9
  <2>2. g[x] = 0
    BY <1>0, <1>5, <1>9
  <2>3. SumOf(g, t) = SumOf(g, u)
    BY <1>5, <1>6, <1>7, <2>2
  <2>4. QED
    BY <1>3, <1>6, <2>1, <2>3, Zenon
<1>10. QED
  BY <1>8, <1>9

\* The sum of a constant.
LEMMA SumConstant ==
    ASSUME NEW f, NEW S, IsFiniteSet(S), NEW c \in Int, \A x \in S : f[x] = c
    PROVE  SumOf(f, S) = Cardinality(S) * c
<1> DEFINE C == {s \in SUBSET S : SumOf(f, s) # Cardinality(s) * c}
<1>1. SUFFICES ASSUME C # {} PROVE FALSE
  BY Zenon
<1>2. \A s \in SUBSET S : IsFiniteSet(s)
  BY FS_Subset
<1>3. PICK t \in C : \A u \in C : ~ (u \subseteq t /\ u # t)
  <2>1. \A t \in C : IsFiniteSet(t)
    BY <1>2
  <2> HIDE DEF C
  <2>2. QED
    BY <1>1, <2>1, SmallestExists
<1>4. t # {}
  BY SumEmpty, FS_EmptySet
<1>5. Any(t) \in t /\ SumOf(f, t) = f[Any(t)] + SumOf(f, t \ {Any(t)})
  BY <1>2, <1>4, SumOfAny
<1> DEFINE u == t \ {Any(t)}
<1>6. SumOf(f, u) = Cardinality(u) * c
  BY <1>3, <1>5
<1>7. Cardinality(u) = Cardinality(t) - 1 /\ Cardinality(t) \in Nat
  BY <1>2, <1>5, FS_RemoveElement, FS_CardinalityType
<1> HIDE DEF u
<1>8. \A n \in Int : c + (n - 1) * c = n * c
  OBVIOUS
<1>9. SumOf(f, t) = Cardinality(t) * c
  BY <1>5, <1>6, <1>7, <1>8 DEF u
<1>10. QED
  BY <1>9

\* g, but for a factor and one more per term, bounds f.
BoundedBy(f, g, S, p, q) ==
    /\ IsFiniteSet(S) /\ p \in Nat /\ q \in Nat
    /\ \A x \in S : f[x] \in Int /\ g[x] \in Int /\ p * f[x] <= q * (g[x] + 1)

\* A bound on every term is one on the sum, with the rounding of as many terms.
LEMMA SumBounded ==
    ASSUME NEW f, NEW g, NEW S, NEW p, NEW q, BoundedBy(f, g, S, p, q)
    PROVE  p * SumOf(f, S) <= q * (SumOf(g, S) + Cardinality(S))
<1>0. /\ IsFiniteSet(S) /\ p \in Nat /\ q \in Nat
      /\ \A x \in S : f[x] \in Int /\ g[x] \in Int /\ p * f[x] <= q * (g[x] + 1)
  BY DEF BoundedBy
<1> DEFINE C == {s \in SUBSET S : ~ (p * SumOf(f, s) <= q * (SumOf(g, s) + Cardinality(s)))}
<1>1. SUFFICES ASSUME C # {} PROVE FALSE
  BY Zenon
<1>2. \A s \in SUBSET S : IsFiniteSet(s)
  BY <1>0, FS_Subset
<1>3. PICK t \in C : \A u \in C : ~ (u \subseteq t /\ u # t)
  <2>1. \A t \in C : IsFiniteSet(t)
    BY <1>2
  <2> HIDE DEF C
  <2>2. QED
    BY <1>1, <2>1, SmallestExists
<1>4. t # {}
  <2>1. SumOf(f, {}) = 0 /\ SumOf(g, {}) = 0 /\ Cardinality({}) = 0
    BY SumEmpty, FS_EmptySet
  <2>2. p * 0 <= q * (0 + 0)
    BY <1>0
  <2>3. QED
    BY <1>3, <2>1, <2>2
<1>5. PICK x : x \in t
  BY <1>4
<1> DEFINE u == t \ {x}
<1>6. /\ SumOf(f, t) = f[x] + SumOf(f, u) /\ SumOf(g, t) = g[x] + SumOf(g, u)
      /\ SumOf(f, u) \in Int /\ SumOf(g, u) \in Int
  BY <1>0, <1>2, <1>3, <1>5, SumTakeOut, SumInt
<1>7. p * SumOf(f, u) <= q * (SumOf(g, u) + Cardinality(u))
  BY <1>3, <1>5
<1>8. Cardinality(u) = Cardinality(t) - 1 /\ Cardinality(t) \in Nat
  BY <1>2, <1>5, FS_RemoveElement, FS_CardinalityType
<1> HIDE DEF u
<1> DEFINE a == f[x]
           b == g[x]
           v == SumOf(f, u)
           w == SumOf(g, u)
           k == Cardinality(t)
<1>9. a \in Int /\ b \in Int /\ p * a <= q * (b + 1)
  BY <1>0, <1>3, <1>5
<1>10. SumOf(f, t) = a + v /\ SumOf(g, t) = b + w /\ p * v <= q * (w + (k - 1))
       /\ v \in Int /\ w \in Int /\ k \in Nat
  BY <1>6, <1>7, <1>8
<1> HIDE DEF a, b, v, w, k
<1>11. p * (a + v) = p * a + p * v /\ q * (b + 1) + q * (w + (k - 1)) = q * ((b + w) + k)
  BY <1>0, <1>9, <1>10
<1>12. p * a \in Int /\ p * v \in Int /\ q * (b + 1) \in Int /\ q * (w + (k - 1)) \in Int
  BY <1>0, <1>9, <1>10
<1>13. p * (a + v) <= q * ((b + w) + k)
  BY <1>9, <1>10, <1>11, <1>12
<1>14. p * SumOf(f, t) <= q * (SumOf(g, t) + Cardinality(t))
  BY <1>10, <1>13 DEF k
<1>15. QED
  BY <1>3, <1>14
===============================================================================
