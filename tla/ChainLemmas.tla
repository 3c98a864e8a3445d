---------------------------- MODULE ChainLemmas ----------------------------
(***************************************************************************)
(* What cutting and joining sequences does to the set of their elements,   *)
(* and when it keeps them free of duplicates; and what a sum comes to.     *)
(***************************************************************************)
EXTENDS Integers, Sequences, SequencesExt, FiniteSetTheorems,
        WellFoundedInduction, TLAPS

\* A set of numbers has a least one, which takes the place of induction.
LEMMA LeastNat ==
  ASSUME NEW S \in SUBSET Nat, S # {}
  PROVE  \E n \in S : \A m \in S : n <= m
<1>. DEFINE R == {ss \in Nat \X Nat : ss[1] < ss[2]}
<1>1. IsWellFoundedOn(R, Nat)
  BY NatLessThanWellFounded DEF OpToRel
<1>2. \A m, n \in Nat : m < n => <<m, n>> \in R
  OBVIOUS
<1>. HIDE DEF R
<1>3. PICK n \in S : \A m \in S : <<m, n>> \notin R
  BY <1>1, WFMin
<1>4. ASSUME NEW m \in S PROVE n <= m
  <2>1. m \in Nat /\ n \in Nat /\ ~(m < n)
    BY <1>2, <1>3
  <2>. QED BY <2>1
<1>. QED BY <1>4

LEMMA AppendElements ==
  ASSUME NEW S, NEW q \in Seq(S), NEW e \in S
  PROVE  ToSet(Append(q, e)) = ToSet(q) \union {e}
<1>. DEFINE r == Append(q, e)
<1>1. /\ DOMAIN r = DOMAIN q \union {Len(q) + 1}
      /\ r[Len(q) + 1] = e
      /\ \A i \in DOMAIN q : r[i] = q[i]
  OBVIOUS
<1>. HIDE DEF r
<1>. QED BY <1>1 DEF ToSet

LEMMA AppendAsFunction ==
  ASSUME NEW S, NEW q \in Seq(S), NEW e \in S
  PROVE  Append(q, e) = [i \in 1 .. Len(q) + 1 |-> IF i = Len(q) + 1 THEN e ELSE q[i]]
<1>. DEFINE r == Append(q, e)
            n == Len(q) + 1
<1>1. /\ r \in Seq(S) /\ Len(r) = n /\ n \in Nat
      /\ \A i \in 1 .. n : r[i] = IF i = n THEN e ELSE q[i]
  OBVIOUS
<1>. HIDE DEF r, n
<1>2. r = [i \in 1 .. n |-> r[i]]
  BY <1>1
<1>3. r = [i \in 1 .. n |-> IF i = n THEN e ELSE q[i]]
  BY <1>1, <1>2
<1>. QED BY <1>3 DEF r, n

LEMMA AppendKeepsInjective ==
  ASSUME NEW S, NEW q \in Seq(S), NEW e \in S, IsInjective(q), e \notin ToSet(q)
  PROVE  IsInjective(Append(q, e))
<1>. DEFINE r == Append(q, e)
<1>1. /\ DOMAIN r = DOMAIN q \union {Len(q) + 1}
      /\ r[Len(q) + 1] = e
      /\ \A i \in DOMAIN q : r[i] = q[i]
  OBVIOUS
<1>2. \A i \in DOMAIN q : q[i] # e
  BY DEF ToSet
<1>. HIDE DEF r
<1>3. \A i, j \in DOMAIN r : r[i] = r[j] => i = j
  BY <1>1, <1>2 DEF IsInjective
<1>4. IsInjective(r)
  BY <1>3 DEF IsInjective
<1>. QED BY <1>4 DEF r

LEMMA ConcatIndices ==
  ASSUME NEW S, NEW p \in Seq(S), NEW q \in Seq(S)
  PROVE  /\ p \o q \in Seq(S)
         /\ \A i \in DOMAIN p : i \in DOMAIN (p \o q) /\ (p \o q)[i] = p[i]
         /\ \A i \in DOMAIN q : Len(p) + i \in DOMAIN (p \o q) /\ (p \o q)[Len(p) + i] = q[i]
         /\ \A k \in DOMAIN (p \o q) :
              \/ k \in DOMAIN p
              \/ k - Len(p) \in DOMAIN q /\ (p \o q)[k] = q[k - Len(p)]
OBVIOUS

LEMMA ConcatElements ==
  ASSUME NEW S, NEW p \in Seq(S), NEW q \in Seq(S)
  PROVE  ToSet(p \o q) = ToSet(p) \union ToSet(q)
<1>. DEFINE r == p \o q
<1>1. /\ \A i \in DOMAIN p : i \in DOMAIN r /\ r[i] = p[i]
      /\ \A i \in DOMAIN q : Len(p) + i \in DOMAIN r /\ r[Len(p) + i] = q[i]
      /\ \A k \in DOMAIN r : k \in DOMAIN p \/ (k - Len(p) \in DOMAIN q /\ r[k] = q[k - Len(p)])
  BY ConcatIndices
<1>. HIDE DEF r
<1>2. ToSet(p) \subseteq ToSet(r) /\ ToSet(q) \subseteq ToSet(r)
  BY <1>1 DEF ToSet
<1>3. ToSet(r) \subseteq ToSet(p) \union ToSet(q)
  BY <1>1 DEF ToSet
<1>. QED BY <1>2, <1>3 DEF r

LEMMA ConcatInjective ==
  ASSUME NEW S, NEW p \in Seq(S), NEW q \in Seq(S),
         IsInjective(p), IsInjective(q), ToSet(p) \intersect ToSet(q) = {}
  PROVE  IsInjective(p \o q)
<1>. DEFINE r == p \o q
<1>1. /\ \A i \in DOMAIN p : r[i] = p[i]
      /\ \A k \in DOMAIN r : k \in DOMAIN p \/ (k - Len(p) \in DOMAIN q /\ r[k] = q[k - Len(p)])
      /\ r \in Seq(S) /\ DOMAIN r \subseteq Nat /\ Len(p) \in Nat
  BY ConcatIndices
<1>2. \A i \in DOMAIN p, j \in DOMAIN q : p[i] # q[j]
  BY DEF ToSet
<1>. HIDE DEF r
<1>. SUFFICES ASSUME NEW j \in DOMAIN r, NEW k \in DOMAIN r, r[j] = r[k]
              PROVE  j = k
  BY DEF r, IsInjective
<1>3. CASE j \in DOMAIN p /\ k \in DOMAIN p
  BY <1>1, <1>3 DEF IsInjective
<1>4. CASE j \notin DOMAIN p /\ k \notin DOMAIN p
  <2>1. j - Len(p) = k - Len(p)
    BY <1>1, <1>4 DEF IsInjective
  <2>. QED BY <1>1, <2>1
<1>. QED BY <1>1, <1>2, <1>3, <1>4

\* The first d elements of q and the ones after them.
LEMMA SplitElements ==
  ASSUME NEW S, NEW q \in Seq(S), NEW d \in 0 .. Len(q)
  PROVE  /\ SubSeq(q, 1, d) \in Seq(S)
         /\ Len(SubSeq(q, 1, d)) = d
         /\ \A i \in 1 .. d : SubSeq(q, 1, d)[i] = q[i]
         /\ SubSeq(q, d + 1, Len(q)) \in Seq(S)
         /\ ToSet(SubSeq(q, 1, d)) \union ToSet(SubSeq(q, d + 1, Len(q))) = ToSet(q)
<1>. DEFINE a == SubSeq(q, 1, d)
            b == SubSeq(q, d + 1, Len(q))
<1>1. /\ a \in Seq(S) /\ Len(a) = d /\ DOMAIN a = 1 .. d
      /\ \A i \in 1 .. d : a[i] = q[i]
  OBVIOUS
<1>2. /\ b \in Seq(S) /\ Len(b) = Len(q) - d /\ DOMAIN b = 1 .. Len(q) - d
      /\ \A i \in 1 .. Len(q) - d : b[i] = q[d + i]
  OBVIOUS
<1>. HIDE DEF a, b
<1>3. ToSet(a) \subseteq ToSet(q) /\ ToSet(b) \subseteq ToSet(q)
  <2>1. \A i \in DOMAIN a : i \in DOMAIN q /\ a[i] = q[i]
    BY <1>1
  <2>2. \A i \in DOMAIN b : d + i \in DOMAIN q /\ b[i] = q[d + i]
    BY <1>2
  <2>. QED BY <2>1, <2>2 DEF ToSet
<1>4. ASSUME NEW i \in DOMAIN q PROVE q[i] \in ToSet(a) \union ToSet(b)
  <2>1. CASE i <= d
    BY <1>1, <2>1 DEF ToSet
  <2>2. CASE i > d
    <3>1. i - d \in DOMAIN b /\ b[i - d] = q[i]
      BY <1>2, <2>2
    <3>. QED BY <3>1 DEF ToSet
  <2>. QED BY <2>1, <2>2
<1>5. ToSet(q) \subseteq ToSet(a) \union ToSet(b)
  BY <1>4 DEF ToSet
<1>. QED BY <1>1, <1>2, <1>3, <1>5 DEF a, b

LEMMA SplitInjective ==
  ASSUME NEW S, NEW q \in Seq(S), NEW d \in 0 .. Len(q), IsInjective(q)
  PROVE  /\ IsInjective(SubSeq(q, 1, d))
         /\ IsInjective(SubSeq(q, d + 1, Len(q)))
         /\ ToSet(SubSeq(q, 1, d)) \intersect ToSet(SubSeq(q, d + 1, Len(q))) = {}
<1>. DEFINE a == SubSeq(q, 1, d)
            b == SubSeq(q, d + 1, Len(q))
<1>1. DOMAIN a = 1 .. d /\ \A i \in 1 .. d : a[i] = q[i]
  OBVIOUS
<1>2. DOMAIN b = 1 .. Len(q) - d /\ \A i \in 1 .. Len(q) - d : b[i] = q[d + i]
  OBVIOUS
<1>. HIDE DEF a, b
<1>3. IsInjective(a)
  BY <1>1 DEF IsInjective
<1>4. ASSUME NEW i \in DOMAIN b, NEW j \in DOMAIN b, b[i] = b[j]
      PROVE  i = j
  <2>1. d + i \in DOMAIN q /\ d + j \in DOMAIN q /\ q[d + i] = q[d + j]
    BY <1>2, <1>4
  <2>2. d + i = d + j
    BY <2>1 DEF IsInjective
  <2>. QED BY <1>2, <2>2
<1>5. ASSUME NEW i \in DOMAIN a, NEW j \in DOMAIN b
      PROVE  a[i] # b[j]
  <2>1. i \in DOMAIN q /\ d + j \in DOMAIN q /\ i # d + j
    BY <1>1, <1>2
  <2>. QED BY <1>1, <1>2, <2>1 DEF IsInjective
<1>6. ToSet(a) \intersect ToSet(b) = {}
  BY <1>5 DEF ToSet
<1>7. IsInjective(b)
  BY <1>4 DEF IsInjective
<1>. QED BY <1>3, <1>6, <1>7 DEF a, b

\* Taking the i-th element out.
LEMMA RemoveAtElements ==
  ASSUME NEW S, NEW q \in Seq(S), NEW i \in DOMAIN q, IsInjective(q)
  PROVE  /\ RemoveAt(q, i) \in Seq(S)
         /\ ToSet(RemoveAt(q, i)) = ToSet(q) \ {q[i]}
         /\ IsInjective(RemoveAt(q, i))
<1>. DEFINE a == SubSeq(q, 1, i - 1)
            b == SubSeq(q, i + 1, Len(q))
            c == SubSeq(q, i, Len(q))
<1>1. i \in 1 .. Len(q) /\ i - 1 \in 0 .. Len(q) /\ i \in 0 .. Len(q) /\ (i - 1) + 1 = i
  OBVIOUS
<1>2. /\ a \in Seq(S) /\ b \in Seq(S)
      /\ ToSet(a) \union ToSet(c) = ToSet(q)
      /\ ToSet(SubSeq(q, 1, i)) \union ToSet(b) = ToSet(q)
      /\ IsInjective(a) /\ IsInjective(b)
      /\ ToSet(a) \intersect ToSet(c) = {}
      /\ ToSet(SubSeq(q, 1, i)) \intersect ToSet(b) = {}
  BY <1>1, SplitElements, SplitInjective
<1>3. ToSet(SubSeq(q, 1, i)) = ToSet(a) \union {q[i]}
  <2>1. SubSeq(q, 1, i) = Append(a, q[i])
    OBVIOUS
  <2>2. a \in Seq(S) /\ q[i] \in S
    BY <1>2
  <2>3. ToSet(Append(a, q[i])) = ToSet(a) \union {q[i]}
    <3>. HIDE DEF a
    <3>. QED BY <2>2, AppendElements
  <2>. QED BY <2>1, <2>3
<1>4. q[i] \in ToSet(c)
  <2>1. 1 \in DOMAIN c /\ c[1] = q[i]
    OBVIOUS
  <2>. QED BY <2>1 DEF ToSet
<1>5. RemoveAt(q, i) = a \o b
  BY DEF RemoveAt
<1>. HIDE DEF a, b, c
<1>6. ToSet(a) \intersect ToSet(b) = {}
  BY <1>2, <1>3
<1>. QED BY <1>2, <1>3, <1>4, <1>5, <1>6, ConcatElements, ConcatInjective, ConcatIndices

-----------------------------------------------------------------------------
(* Sums over finite sets: SumFunctionOnSet picks the elements in an order  *)
(* nobody knows, and any order gives the same.                             *)

Picked(s) == CHOOSE x \in s : TRUE

\* The function that SumFunctionOnSet defines by recursion.
IsSum(g, f, S) ==
  g = [s \in SUBSET S |-> IF s = {} THEN 0 ELSE f[Picked(s)] + g[s \ {Picked(s)}]]

SumBy(f, S) == CHOOSE g : IsSum(g, f, S)

LEMMA SumIsBy ==
  ASSUME NEW f, NEW S
  PROVE  SumFunctionOnSet(f, S) = SumBy(f, S)[S]
BY DEF SumFunctionOnSet, FoldFunctionOnSet, MapThenFoldSet, SumBy, IsSum, Picked

LEMMA PickedLess ==
  ASSUME NEW s, IsFiniteSet(s), s # {}
  PROVE  /\ Picked(s) \in s
         /\ IsFiniteSet(s \ {Picked(s)})
         /\ Cardinality(s \ {Picked(s)}) < Cardinality(s)
<1>1. PICK p \in s : p = Picked(s)
  BY DEF Picked
<1>2. IsFiniteSet(s \ {p}) /\ Cardinality(s \ {p}) = Cardinality(s) - 1
  BY FS_RemoveElement
<1>3. Cardinality(s) \in Nat
  BY FS_CardinalityType
<1>. QED BY <1>1, <1>2, <1>3

LEMMA SumOfSubset ==
  ASSUME NEW f, NEW S, NEW g, IsSum(g, f, S), NEW s \in SUBSET S
  PROVE  g[s] = IF s = {} THEN 0 ELSE f[Picked(s)] + g[s \ {Picked(s)}]
<1>. DEFINE V(h, r) == IF r = {} THEN 0 ELSE f[Picked(r)] + h[r \ {Picked(r)}]
<1>1. g = [r \in SUBSET S |-> V(g, r)]
  BY DEF IsSum
<1>. HIDE DEF V
<1>2. g[s] = V(g, s)
  BY <1>1
<1>. QED BY <1>2 DEF V

\* Two such functions agree where both are defined.
LEMMA SumsAgree ==
  ASSUME NEW f, NEW S, NEW T, IsFiniteSet(S), NEW g, NEW h, IsSum(g, f, S), IsSum(h, f, T),
         NEW s \in SUBSET S, s \subseteq T
  PROVE  g[s] = h[s]
<1>. DEFINE Bad == {r \in SUBSET S : r \subseteq T /\ g[r] # h[r]}
            Sizes == {Cardinality(r) : r \in Bad}
<1>1. SUFFICES ASSUME Bad # {} PROVE FALSE
  OBVIOUS
<1>2. \A r \in SUBSET S : IsFiniteSet(r) /\ Cardinality(r) \in Nat
  BY FS_Subset, FS_CardinalityType
<1>3. PICK n \in Sizes : \A m \in Sizes : n <= m
  <2>1. Sizes \in SUBSET Nat /\ Sizes # {}
    BY <1>1, <1>2
  <2>. QED BY <2>1, LeastNat
<1>4. PICK r \in Bad : n = Cardinality(r)
  BY <1>3
<1>5. g[r] = (IF r = {} THEN 0 ELSE f[Picked(r)] + g[r \ {Picked(r)}])
      /\ h[r] = (IF r = {} THEN 0 ELSE f[Picked(r)] + h[r \ {Picked(r)}])
  BY <1>4, SumOfSubset
<1>6. r # {}
  BY <1>4, <1>5
<1>7. PICK q : q = r \ {Picked(r)}
  OBVIOUS
<1>8. q \in SUBSET S /\ q \subseteq T /\ Cardinality(q) < n /\ Cardinality(q) \in Nat /\ n \in Nat
  BY <1>2, <1>4, <1>6, <1>7, PickedLess
<1>9. q \notin Bad
  BY <1>3, <1>8
<1>10. g[q] = h[q]
  BY <1>8, <1>9
<1>. QED BY <1>4, <1>5, <1>6, <1>7, <1>10

LEMMA SumBysAgree ==
  ASSUME NEW f, NEW S, IsFiniteSet(S), IsSum(SumBy(f, S), f, S),
         NEW s \in SUBSET S, IsSum(SumBy(f, s), f, s)
  PROVE  SumBy(f, S)[s] = SumBy(f, s)[s]
<1>1. PICK g, h : g = SumBy(f, S) /\ h = SumBy(f, s)
  OBVIOUS
<1>2. IsSum(g, f, S) /\ IsSum(h, f, s)
  BY <1>1
<1>3. g[s] = h[s]
  BY <1>2, SumsAgree
<1>. QED BY <1>1, <1>3

LEMMA SumExists ==
  ASSUME NEW f, NEW S, IsFiniteSet(S)
  PROVE  IsSum(SumBy(f, S), f, S)
<1>. DEFINE Exists(s) == \E g : IsSum(g, f, s)
            Bad == {s \in SUBSET S : ~Exists(s)}
            Sizes == {Cardinality(s) : s \in Bad}
<1>1. \A s \in SUBSET S : IsFiniteSet(s) /\ Cardinality(s) \in Nat
  BY FS_Subset, FS_CardinalityType
<1>2. \A s : Exists(s) => IsSum(SumBy(f, s), f, s)
  BY DEF SumBy
<1>. HIDE DEF Exists
<1>3. SUFFICES ASSUME Bad # {} PROVE FALSE
  <2>1. S \in SUBSET S
    OBVIOUS
  <2>. QED BY <1>2, <1>3, <2>1
<1>4. PICK n \in Sizes : \A m \in Sizes : n <= m
  <2>1. Sizes \in SUBSET Nat /\ Sizes # {}
    BY <1>1, <1>3
  <2>. QED BY <2>1, LeastNat
<1>5. PICK T \in Bad : n = Cardinality(T)
  BY <1>4
<1>6. IsFiniteSet(T) /\ T \in SUBSET S /\ n \in Nat
  BY <1>1, <1>5
<1>7. ASSUME NEW s \in SUBSET T, s # {}
      PROVE  /\ s \ {Picked(s)} \in SUBSET T /\ IsFiniteSet(s \ {Picked(s)})
             /\ IsSum(SumBy(f, s \ {Picked(s)}), f, s \ {Picked(s)})
  <2>1. IsFiniteSet(s) /\ Cardinality(s) <= n
    BY <1>5, <1>6, FS_Subset
  <2>2. PICK q : q = s \ {Picked(s)}
    OBVIOUS
  <2>3. IsFiniteSet(q) /\ Cardinality(q) < n /\ q \in SUBSET S /\ q \in SUBSET T
    <3>1. q \in SUBSET S /\ q \in SUBSET T /\ s \in SUBSET S
      BY <1>6, <2>2
    <3>2. Cardinality(q) \in Nat /\ Cardinality(s) \in Nat
      BY <1>1, <3>1
    <3>3. IsFiniteSet(q) /\ Cardinality(q) < Cardinality(s)
      BY <1>7, <2>1, <2>2, PickedLess
    <3>. QED BY <1>6, <2>1, <3>1, <3>2, <3>3
  <2>4. Exists(q)
    BY <1>1, <1>4, <2>3
  <2>. QED BY <1>2, <2>2, <2>3, <2>4
<1>. DEFINE SumOf(s) == SumBy(f, s)[s]
            Value(s) == IF s = {} THEN 0 ELSE f[Picked(s)] + SumOf(s \ {Picked(s)})
            g == [s \in SUBSET T |-> Value(s)]
<1>8. ASSUME NEW s \in SUBSET T, s # {}
      PROVE  g[s \ {Picked(s)}] = SumOf(s \ {Picked(s)})
  <2>1. PICK q : q = s \ {Picked(s)}
    OBVIOUS
  <2>2. q \in SUBSET T /\ IsFiniteSet(q) /\ IsSum(SumBy(f, q), f, q)
    BY <1>7, <1>8, <2>1
  <2>3. g[q] = Value(q)
    BY <2>2
  <2>4. SumBy(f, q)[q] = IF q = {} THEN 0 ELSE f[Picked(q)] + SumBy(f, q)[q \ {Picked(q)}]
    BY <2>2, SumOfSubset
  <2>5. CASE q = {}
    BY <2>1, <2>3, <2>4, <2>5
  <2>6. CASE q # {}
    <3>1. PICK p : p = q \ {Picked(q)}
      OBVIOUS
    <3>2. IsSum(SumBy(f, p), f, p) /\ IsFiniteSet(p) /\ p \in SUBSET q
      BY <1>7, <2>2, <2>6, <3>1
    <3>3. SumBy(f, q)[p] = SumBy(f, p)[p]
      BY <2>2, <3>2, SumBysAgree
    <3>. QED BY <2>1, <2>3, <2>4, <2>6, <3>1, <3>3
  <2>. QED BY <2>5, <2>6
<1>9. IsSum(g, f, T)
  <2>. DEFINE V(h, s) == IF s = {} THEN 0 ELSE f[Picked(s)] + h[s \ {Picked(s)}]
  <2>1. \A s \in SUBSET T : Value(s) = V(g, s)
    BY <1>8
  <2>. HIDE DEF Value, V
  <2>2. [s \in SUBSET T |-> Value(s)] = [s \in SUBSET T |-> V(g, s)]
    BY <2>1
  <2>3. g = [s \in SUBSET T |-> V(g, s)]
    BY <2>2
  <2>. QED BY <2>3 DEF IsSum, V
<1>. QED BY <1>5, <1>9 DEF Exists

LEMMA SumFirst ==
  ASSUME NEW f, NEW S, IsFiniteSet(S)
  PROVE  SumFunctionOnSet(f, S) =
           IF S = {} THEN 0 ELSE f[Picked(S)] + SumFunctionOnSet(f, S \ {Picked(S)})
<1>1. IsSum(SumBy(f, S), f, S)
  BY SumExists
<1>2. SumBy(f, S)[S] = IF S = {} THEN 0 ELSE f[Picked(S)] + SumBy(f, S)[S \ {Picked(S)}]
  BY <1>1, SumOfSubset
<1>3. CASE S = {}
  BY <1>2, <1>3, SumIsBy
<1>4. CASE S # {}
  <2>1. PICK q : q = S \ {Picked(S)}
    OBVIOUS
  <2>2. IsFiniteSet(q) /\ q \in SUBSET S
    BY <1>4, <2>1, PickedLess
  <2>3. SumBy(f, S)[q] = SumBy(f, q)[q]
    <3>1. IsSum(SumBy(f, q), f, q)
      BY <2>2, SumExists
    <3>. QED BY <1>1, <2>2, <3>1, SumBysAgree
  <2>. QED BY <1>2, <1>4, <2>1, <2>3, SumIsBy
<1>. QED BY <1>3, <1>4

\* The elements may be taken in any order.
LEMMA SumOut ==
  ASSUME NEW f, NEW S, IsFiniteSet(S), \A x \in S : f[x] \in Int
  PROVE  /\ SumFunctionOnSet(f, S) \in Int
         /\ \A x \in S : SumFunctionOnSet(f, S) = f[x] + SumFunctionOnSet(f, S \ {x})
<1>. DEFINE Sum(s) == SumFunctionOnSet(f, s)
            Good(s) == Sum(s) \in Int /\ \A x \in s : Sum(s) = f[x] + Sum(s \ {x})
            Bad == {s \in SUBSET S : ~Good(s)}
            Sizes == {Cardinality(s) : s \in Bad}
<1>1. \A s \in SUBSET S : IsFiniteSet(s) /\ Cardinality(s) \in Nat
  BY FS_Subset, FS_CardinalityType
<1>2. \A s \in SUBSET S : Sum(s) = IF s = {} THEN 0 ELSE f[Picked(s)] + Sum(s \ {Picked(s)})
  BY <1>1, SumFirst
<1>. HIDE DEF Sum
<1>3. SUFFICES ASSUME Bad # {} PROVE FALSE
  <2>1. Good(S)
    BY <1>3
  <2>. QED BY <2>1 DEF Sum
<1>4. PICK n \in Sizes : \A m \in Sizes : n <= m
  <2>1. Sizes \in SUBSET Nat /\ Sizes # {}
    BY <1>1, <1>3
  <2>. QED BY <2>1, LeastNat
<1>5. PICK T \in Bad : n = Cardinality(T)
  BY <1>4
<1>6. T \in SUBSET S /\ IsFiniteSet(T) /\ n \in Nat
  BY <1>1, <1>5
<1>7. ASSUME NEW x \in T PROVE Good(T \ {x})
  <2>1. PICK q : q = T \ {x}
    OBVIOUS
  <2>2. Cardinality(q) = n - 1 /\ q \in SUBSET S /\ Cardinality(q) \in Nat
    BY <1>1, <1>5, <1>6, <2>1, FS_RemoveElement
  <2>3. q \notin Bad
    BY <1>4, <1>6, <2>2
  <2>. QED BY <2>1, <2>2, <2>3
<1>8. T # {}
  <2>1. ASSUME T = {} PROVE Good(T)
    <3>1. Sum(T) = 0
      BY <1>2, <1>6, <2>1
    <3>2. \A x \in T : Sum(T) = f[x] + Sum(T \ {x})
      BY <2>1
    <3>. QED BY <3>1, <3>2
  <2>. QED BY <1>5, <2>1
<1>9. PICK p \in T : p = Picked(T)
  BY <1>8 DEF Picked
<1>10. Sum(T) = f[p] + Sum(T \ {p}) /\ f[p] \in Int /\ Sum(T \ {p}) \in Int
  BY <1>2, <1>6, <1>7, <1>8, <1>9
<1>11. ASSUME NEW x \in T PROVE Sum(T) = f[x] + Sum(T \ {x})
  <2>1. CASE x = p
    BY <1>10, <2>1
  <2>2. CASE x # p
    <3>1. Sum(T \ {p}) = f[x] + Sum((T \ {p}) \ {x})
      BY <1>7, <2>2
    <3>2. Sum(T \ {x}) = f[p] + Sum((T \ {x}) \ {p})
      BY <1>7, <2>2
    <3>3. (T \ {p}) \ {x} = (T \ {x}) \ {p}
      OBVIOUS
    <3>4. Sum((T \ {x}) \ {p}) \in Int
      <4>1. PICK q : q = (T \ {x}) \ {p}
        OBVIOUS
      <4>2. q \in SUBSET S /\ IsFiniteSet(T \ {x}) /\ Cardinality(T \ {x}) = n - 1
        BY <1>5, <1>6, <4>1, FS_RemoveElement
      <4>3. Cardinality(q) = Cardinality(T \ {x}) - 1 /\ Cardinality(q) \in Nat
        <5>1. PICK r : r = T \ {x}
          OBVIOUS
        <5>2. p \in r /\ IsFiniteSet(r) /\ q = r \ {p}
          BY <2>2, <4>1, <4>2, <5>1
        <5>3. Cardinality(q) = Cardinality(r) - 1
          BY <5>2, FS_RemoveElement
        <5>. QED BY <1>1, <4>2, <5>1, <5>3
      <4>4. q \notin Bad
        BY <1>4, <1>6, <4>2, <4>3
      <4>. QED BY <4>1, <4>2, <4>4
    <3>5. f[x] \in Int
      BY <1>6
    <3>6. PICK rest, without : rest = Sum((T \ {x}) \ {p}) /\ without = Sum(T \ {p})
      OBVIOUS
    <3>7. without = f[x] + rest /\ Sum(T \ {x}) = f[p] + rest /\ Sum(T) = f[p] + without /\ rest \in Int
      BY <1>10, <3>1, <3>2, <3>3, <3>4, <3>6
    <3>8. f[p] + (f[x] + rest) = f[x] + (f[p] + rest)
      BY <1>10, <3>5, <3>7
    <3>. QED BY <3>7, <3>8
  <2>. QED BY <2>1, <2>2
<1>12. Sum(T) \in Int
  BY <1>10
<1>. QED BY <1>5, <1>11, <1>12

LEMMA SumEmpty ==
  ASSUME NEW f
  PROVE  SumFunctionOnSet(f, {}) = 0
BY SumFirst, FS_EmptySet

\* A sum whose partial sums, from the end, are known: after the k-th value they
\* come to b[k].
SumsTo(b, f, n) ==
  /\ \A k \in 1 .. n : b[k] \in Int /\ f[k] \in Int
  /\ b[n] = 0
  /\ \A k \in 1 .. n - 1 : b[k] = f[k + 1] + b[k + 1]

LEMMA SumFromTheEnd ==
  ASSUME NEW n \in Nat \ {0}, NEW f, NEW b, DOMAIN f = 1 .. n, SumsTo(b, f, n)
  PROVE  SumFunction(f) = f[1] + b[1]
<1>. DEFINE Part(d) == SumFunctionOnSet(f, n - d .. n)
            Bad == {d \in 0 .. n - 1 : Part(d) # f[n - d] + b[n - d]}
<1>1. ASSUME NEW d \in 0 .. n - 1
      PROVE  Part(d) = f[n - d] + SumFunctionOnSet(f, n - d + 1 .. n)
  <2>1. PICK k \in 1 .. n : k = n - d
    OBVIOUS
  <2>2. PICK S, r : S = k .. n /\ r = k + 1 .. n
    OBVIOUS
  <2>3. IsFiniteSet(S) /\ k \in S /\ S \ {k} = r
    <3>1. k \in Int /\ n \in Int
      OBVIOUS
    <3>2. IsFiniteSet(S)
      BY <2>2, <3>1, FS_Interval
    <3>3. k \in S /\ S \ {k} = r
      BY <2>2
    <3>. QED BY <3>2, <3>3
  <2>4. \A x \in S : f[x] \in Int
    BY <2>2 DEF SumsTo
  <2>. QED BY <2>1, <2>2, <2>3, <2>4, SumOut
<1>2. Part(0) = f[n] + b[n]
  <2>1. n - 0 = n /\ n - 0 + 1 .. n = {} /\ 0 \in 0 .. n - 1
    OBVIOUS
  <2>2. Part(0) = f[n] + SumFunctionOnSet(f, {})
    BY <1>1, <2>1
  <2>. QED BY <2>2, SumEmpty DEF SumsTo
<1>3. ASSUME NEW d \in 1 .. n - 1
      PROVE  Part(d) = f[n - d] + Part(d - 1) /\ b[n - d] = f[n - (d - 1)] + b[n - (d - 1)]
  <2>1. n - d + 1 = n - (d - 1) /\ d \in 0 .. n - 1 /\ n - d \in 1 .. n - 1
    OBVIOUS
  <2>2. b[n - d] = f[(n - d) + 1] + b[(n - d) + 1]
    BY <2>1 DEF SumsTo
  <2>. QED BY <1>1, <2>1, <2>2
<1>. HIDE DEF Part
<1>4. Bad = {}
  <2>. SUFFICES ASSUME Bad # {} PROVE FALSE
    OBVIOUS
  <2>1. PICK d \in Bad : \A e \in Bad : d <= e
    <3>1. Bad \in SUBSET Nat
      OBVIOUS
    <3>. QED BY <3>1, LeastNat
  <2>2. d \in 0 .. n - 1 /\ d # 0
    BY <1>2, <2>1
  <2>3. d \in 1 .. n - 1 /\ d - 1 \in 0 .. n - 1 /\ d - 1 \notin Bad
    BY <2>1, <2>2
  <2>4. Part(d - 1) = f[n - (d - 1)] + b[n - (d - 1)]
    BY <2>3
  <2>. QED BY <1>3, <2>1, <2>3, <2>4
<1>5. n - 1 \in 0 .. n - 1 /\ n - (n - 1) = 1
  OBVIOUS
<1>6. Part(n - 1) = f[1] + b[1]
  BY <1>4, <1>5
<1>. QED BY <1>5, <1>6 DEF Part, SumFunction

LEMMA SumOfZeros ==
  ASSUME NEW f, NEW S, IsFiniteSet(S), \A x \in S : f[x] = 0
  PROVE  SumFunctionOnSet(f, S) = 0
<1>. DEFINE Sum(s) == SumFunctionOnSet(f, s)
            Bad == {s \in SUBSET S : Sum(s) # 0}
            Sizes == {Cardinality(s) : s \in Bad}
<1>1. \A s \in SUBSET S : IsFiniteSet(s) /\ Cardinality(s) \in Nat
  BY FS_Subset, FS_CardinalityType
<1>2. \A s \in SUBSET S : s = {} \/ \E x \in s : Sum(s) = f[x] + Sum(s \ {x})
  <2>1. ASSUME NEW s \in SUBSET S, s # {} PROVE \E x \in s : Sum(s) = f[x] + Sum(s \ {x})
    <3>1. PICK x : x \in s
      BY <2>1
    <3>2. IsFiniteSet(s) /\ \A z \in s : f[z] \in Int
      BY <1>1
    <3>3. \A z \in s : SumFunctionOnSet(f, s) = f[z] + SumFunctionOnSet(f, s \ {z})
      BY <3>2, SumOut
    <3>. QED BY <3>1, <3>3
  <2>. QED BY <2>1
<1>3. Sum({}) = 0
  BY SumEmpty
<1>. HIDE DEF Sum
<1>4. SUFFICES ASSUME Bad # {} PROVE FALSE
  <2>1. S \in SUBSET S /\ S \notin Bad
    BY <1>4
  <2>. QED BY <2>1 DEF Sum
<1>5. PICK n \in Sizes : \A m \in Sizes : n <= m
  <2>1. Sizes \in SUBSET Nat /\ Sizes # {}
    BY <1>1, <1>4
  <2>. QED BY <2>1, LeastNat
<1>6. PICK T \in Bad : n = Cardinality(T)
  BY <1>5
<1>7. PICK x \in T : Sum(T) = f[x] + Sum(T \ {x})
  BY <1>2, <1>3, <1>6
<1>8. PICK q : q = T \ {x}
  OBVIOUS
<1>9. q \in SUBSET S /\ Cardinality(q) = n - 1 /\ n \in Nat /\ Cardinality(q) \in Nat
  BY <1>1, <1>6, <1>8, FS_RemoveElement
<1>10. Sum(q) = 0
  BY <1>5, <1>9
<1>. QED BY <1>6, <1>7, <1>8, <1>10

LEMMA SumOfOne ==
  ASSUME NEW f, NEW S, IsFiniteSet(S), NEW a \in S, f[a] \in Int, \A x \in S : x # a => f[x] = 0
  PROVE  SumFunctionOnSet(f, S) = f[a]
<1>1. \A x \in S : f[x] \in Int
  OBVIOUS
<1>2. PICK q : q = S \ {a}
  OBVIOUS
<1>3. IsFiniteSet(q) /\ \A x \in q : f[x] = 0
  BY <1>2, FS_Subset
<1>4. SumFunctionOnSet(f, q) = 0
  BY <1>3, SumOfZeros
<1>. QED BY <1>1, <1>2, <1>4, SumOut

-----------------------------------------------------------------------------
(* Places in a mixed base: s[k] counts for at least e[k + 1] of s[k + 1].   *)

\* A number below e[k] in every place k.
IsBelow(p, e, n) == \A k \in 1 .. n : p[k] \in Nat /\ p[k] < e[k]

\* The weights grow enough to tell the numbers apart.
IsBase(s, e, n) ==
  /\ \A k \in 1 .. n : s[k] \in Nat /\ e[k] \in Nat
  /\ s[n] = 1
  /\ \A k \in 1 .. n - 1 : s[k + 1] * e[k + 1] <= s[k]

\* What comes behind a place is less than its weight.
LEMMA PlaceBounds ==
  ASSUME NEW s \in Nat, NEW a \in Nat, NEW x \in Nat, x < s, NEW e \in Nat, a < e
  PROVE  s * a + x \in Nat /\ s * a + x < s * e
<1>1. s * (a + 1) <= s * e
  <2>1. PICK d \in Nat : e = (a + 1) + d
    <3>1. e - (a + 1) \in Nat /\ e = (a + 1) + (e - (a + 1))
      OBVIOUS
    <3>. QED BY <3>1
  <2>2. s * e = s * (a + 1) + s * d /\ s * d \in Nat
    BY <2>1
  <2>. QED BY <2>2
<1>2. s * (a + 1) = s * a + s /\ s * a \in Nat /\ s * e \in Nat
  OBVIOUS
<1>. QED BY <1>1, <1>2

LEMMA PlacesAgree ==
  ASSUME NEW s \in Nat, NEW a \in Nat, NEW b \in Nat, NEW x \in Nat, NEW y \in Nat, x < s, y < s,
         s * a + x = s * b + y
  PROVE  a = b /\ x = y
<1>1. ASSUME NEW c \in Nat, NEW d \in Nat, c < d PROVE s * c + s <= s * d
  <2>1. s * (c + 1) <= s * d
    <3>1. PICK r \in Nat : d = (c + 1) + r
      <4>1. d - (c + 1) \in Nat /\ d = (c + 1) + (d - (c + 1))
        BY <1>1
      <4>. QED BY <4>1
    <3>2. s * d = s * (c + 1) + s * r /\ s * r \in Nat
      BY <3>1
    <3>. QED BY <3>2
  <2>. QED BY <2>1
<1>2. s * a \in Nat /\ s * b \in Nat
  OBVIOUS
<1>3. ~(a < b) /\ ~(b < a)
  BY <1>1, <1>2
<1>. QED BY <1>3

LEMMA DigitsAreUnique ==
  ASSUME NEW n \in Nat \ {0}, NEW s, NEW e, IsBase(s, e, n),
         NEW p, NEW q, IsBelow(p, e, n), IsBelow(q, e, n),
         NEW f, \A k \in 1 .. n : f[k] = s[k] * p[k],
         NEW g, \A k \in 1 .. n : g[k] = s[k] * q[k],
         SumFunctionOnSet(f, 1 .. n) = SumFunctionOnSet(g, 1 .. n)
  PROVE  \A k \in 1 .. n : p[k] = q[k]
<1>. DEFINE Behind(h, k) == SumFunctionOnSet(h, k .. n)
            Terms(h, r) == \A k \in 1 .. n : h[k] = s[k] * r[k]
<1>1. ASSUME NEW r, IsBelow(r, e, n), NEW h, Terms(h, r), NEW k \in 1 .. n
      PROVE  Behind(h, k) = s[k] * r[k] + Behind(h, k + 1)
  <2>1. \A j \in 1 .. n : h[j] = s[j] * r[j] /\ h[j] \in Int
    <3>1. \A j \in 1 .. n : s[j] \in Int /\ r[j] \in Int
      BY <1>1 DEF IsBelow, IsBase
    <3>. QED BY <1>1, <3>1
  <2>2. PICK S, R : S = k .. n /\ R = k + 1 .. n
    OBVIOUS
  <2>3. IsFiniteSet(S) /\ k \in S /\ S \ {k} = R /\ S \subseteq 1 .. n
    <3>1. k \in Int /\ n \in Int
      OBVIOUS
    <3>2. IsFiniteSet(S)
      BY <2>2, <3>1, FS_Interval
    <3>3. k \in S /\ S \ {k} = R /\ S \subseteq 1 .. n
      BY <2>2
    <3>. QED BY <3>2, <3>3
  <2>4. SumFunctionOnSet(h, S) = h[k] + SumFunctionOnSet(h, R)
    <3>1. \A x \in S : h[x] \in Int
      BY <2>1, <2>3
    <3>2. \A x \in S : SumFunctionOnSet(h, S) = h[x] + SumFunctionOnSet(h, S \ {x})
      BY <2>3, <3>1, SumOut, ZenonT(30)
    <3>. QED BY <2>3, <3>2
  <2>. QED BY <2>1, <2>2, <2>4
<1>2. ASSUME NEW h PROVE Behind(h, n + 1) = 0
  <2>1. n + 1 .. n = {}
    OBVIOUS
  <2>. QED BY <2>1, SumEmpty
<1>. HIDE DEF Behind, Terms
\* What comes behind the k-th place is less than its weight.
<1>3. ASSUME NEW r, IsBelow(r, e, n), NEW h, Terms(h, r)
      PROVE  \A k \in 1 .. n : Behind(h, k + 1) \in Nat /\ Behind(h, k + 1) < s[k]
  <2>. DEFINE Good(k) == Behind(h, k + 1) \in Nat /\ Behind(h, k + 1) < s[k]
              Bad == {d \in 0 .. n - 1 : ~Good(n - d)}
  <2>1. Good(n)
    BY <1>2 DEF IsBase
  <2>2. ASSUME NEW k \in 1 .. n - 1, Good(k + 1) PROVE Good(k)
    <3>1. k + 1 \in 1 .. n
      OBVIOUS
    <3>2. /\ s[k + 1] \in Nat /\ e[k + 1] \in Nat /\ s[k] \in Nat
          /\ r[k + 1] \in Nat /\ r[k + 1] < e[k + 1] /\ s[k + 1] * e[k + 1] <= s[k]
      BY <1>3, <3>1 DEF IsBelow, IsBase
    <3>3. Behind(h, k + 1) = s[k + 1] * r[k + 1] + Behind(h, (k + 1) + 1)
      BY <1>1, <1>3, <3>1
    <3>4. PICK ss \in Nat, a \in Nat, x \in Nat, ee \in Nat :
            ss = s[k + 1] /\ a = r[k + 1] /\ x = Behind(h, (k + 1) + 1) /\ ee = e[k + 1]
      BY <2>2, <3>2
    <3>5. ss * a + x \in Nat /\ ss * a + x < ss * ee
      BY <2>2, <3>2, <3>4, PlaceBounds
    <3>6. ss * ee <= s[k] /\ ss * ee \in Nat
      BY <3>2, <3>4
    <3>. QED BY <3>2, <3>3, <3>4, <3>5, <3>6
  <2>. HIDE DEF Good
  <2>3. Bad = {}
    <3>. SUFFICES ASSUME Bad # {} PROVE FALSE
      OBVIOUS
    <3>1. PICK d \in Bad : \A c \in Bad : d <= c
      <4>1. Bad \in SUBSET Nat
        OBVIOUS
      <4>. QED BY <4>1, LeastNat
    <3>2. d \in 0 .. n - 1 /\ ~Good(n - d)
      BY <3>1
    <3>3. d # 0
      BY <2>1, <3>2
    <3>4. d - 1 \in 0 .. n - 1 /\ d - 1 \notin Bad /\ n - d \in 1 .. n - 1 /\ n - (d - 1) = (n - d) + 1
      BY <3>1, <3>2, <3>3
    <3>. QED BY <2>2, <3>2, <3>4
  <2>4. ASSUME NEW k \in 1 .. n PROVE Good(k)
    <3>1. n - k \in 0 .. n - 1 /\ n - (n - k) = k
      OBVIOUS
    <3>. QED BY <2>3, <3>1
  <2>. QED BY <2>4 DEF Good
<1>4. Terms(f, p) /\ Terms(g, q)
  BY DEF Terms
<1>5. ASSUME NEW k \in 1 .. n, Behind(f, k) = Behind(g, k)
      PROVE  p[k] = q[k] /\ Behind(f, k + 1) = Behind(g, k + 1)
  <2>1. PICK ss \in Nat, a \in Nat, b \in Nat, x \in Nat, y \in Nat :
          ss = s[k] /\ a = p[k] /\ b = q[k] /\ x = Behind(f, k + 1) /\ y = Behind(g, k + 1)
    BY <1>3, <1>4 DEF IsBelow, IsBase
  <2>2. x < ss /\ y < ss
    BY <1>3, <1>4, <2>1
  <2>3. ss * a + x = ss * b + y
    BY <1>1, <1>4, <1>5, <2>1
  <2>4. a = b /\ x = y
    BY <2>2, <2>3, PlacesAgree
  <2>. QED BY <2>1, <2>4
<1>6. Behind(f, 1) = Behind(g, 1)
  BY DEF Behind
<1>. DEFINE Bad == {k \in 1 .. n : Behind(f, k) # Behind(g, k)}
<1>7. Bad = {}
  <2>. SUFFICES ASSUME Bad # {} PROVE FALSE
    OBVIOUS
  <2>1. PICK k \in Bad : \A c \in Bad : k <= c
    <3>1. Bad \in SUBSET Nat
      OBVIOUS
    <3>. QED BY <3>1, LeastNat
  <2>2. k \in 1 .. n /\ k # 1
    BY <1>6, <2>1
  <2>3. k - 1 \in 1 .. n /\ k - 1 \notin Bad /\ (k - 1) + 1 = k
    BY <2>1, <2>2
  <2>. QED BY <1>5, <2>1, <2>3
<1>. QED BY <1>5, <1>7
=============================================================================
