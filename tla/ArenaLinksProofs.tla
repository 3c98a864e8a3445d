--------------------------- MODULE ArenaLinksProofs ---------------------------
(***************************************************************************)
(* Proofs that the pointers of the arena carry out what Arena says of its  *)
(* two sequences of slabs, for every finite set of slabs and every host.   *)
(***************************************************************************)
EXTENDS ArenaLinks, ChainLemmas, FiniteSetTheorems, SequenceTheorems

\* What is proved of Arena, for the sequences the pointers stand for.
Calls ==
  INSTANCE ArenaProofs WITH
    active <- Chain(top_slab),
    recycled <- Chain(top_recycled_slab)

-----------------------------------------------------------------------------
(* Sequences as chains of slabs.                                           *)

\* The last element, or NULL.
TopOf(a) == IF a = <<>> THEN NULL ELSE a[Len(a)]

\* The links u and d make the slabs of a the chain under p.
LinkedBy(u, d, a, p) ==
  /\ p = TopOf(a)
  /\ \A i \in 1 .. Len(a) : u[a[i]] = IF i = Len(a) THEN NULL ELSE a[i + 1]
  /\ \A i \in 1 .. Len(a) : d[a[i]] = IF i = 1 THEN NULL ELSE a[i - 1]

Distinct(a) == a \in Seq(Slab) /\ IsInjective(a)

\* Chain, with the links as a parameter.
WalkBy(d, p) ==
  CHOOSE w : w = [n \in 0 .. Cardinality(Slab) |->
                    IF n = 0 THEN p ELSE IF w[n - 1] = NULL THEN NULL ELSE d[w[n - 1]]]

ChainBy(d, p) ==
  LET w == WalkBy(d, p)
      len == Cardinality({n \in DOMAIN w : w[n] # NULL})
  IN [i \in 1 .. len |-> w[len - i]]

LEMMA ChainIsBy == \A p : Chain(p) = ChainBy(down, p)
BY DEF Chain, Below, ChainBy, WalkBy

LEMMA DistinctFits ==
  ASSUME NEW a, Distinct(a)
  PROVE  Len(a) \in Nat /\ Len(a) <= Cardinality(Slab) /\ Cardinality(Slab) \in Nat
<1>1. a \in Injection(1 .. Len(a), Slab)
  BY DEF Distinct, IsInjective, Injection, IsInjective
<1>2. Len(a) \in Nat
  BY DEF Distinct
<1>3. Cardinality(1 .. Len(a)) = Len(a)
  <2>1. Cardinality(1 .. Len(a)) = IF 1 > Len(a) THEN 0 ELSE Len(a) - 1 + 1
    BY <1>2, 1 \in Int, Len(a) \in Int, FS_Interval
  <2>. QED BY <1>2, <2>1
<1>. QED BY <1>1, <1>2, <1>3, ArenaLinksAssumption, FS_Injection, FS_CardinalityType

\* Walking down from the top of a.
WalkOf(a) ==
  [n \in 0 .. Cardinality(Slab) |-> IF n < Len(a) THEN a[Len(a) - n] ELSE NULL]

LEMMA WalkIs ==
  ASSUME NEW u, NEW d, NEW a, NEW p, Distinct(a), LinkedBy(u, d, a, p)
  PROVE  WalkBy(d, p) = WalkOf(a)
<1>. DEFINE C == Cardinality(Slab)
            f == WalkOf(a)
            Step(w, n) == IF n = 0 THEN p ELSE IF w[n - 1] = NULL THEN NULL ELSE d[w[n - 1]]
<1>1. C \in Nat /\ Len(a) \in Nat /\ Len(a) <= C /\ NULL \notin Slab
  BY DistinctFits, ArenaLinksAssumption DEF Stack!ArenaAssumption
<1>2. \A i \in 1 .. Len(a) : a[i] \in Slab
  BY DEF Distinct
<1>. HIDE DEF C
<1>3. \A n \in 0 .. C : f[n] = Step(f, n)
  <2>. SUFFICES ASSUME NEW n \in 0 .. C PROVE f[n] = Step(f, n)
    OBVIOUS
  <2>1. \A m \in 0 .. C : f[m] = IF m < Len(a) THEN a[Len(a) - m] ELSE NULL
    BY DEF WalkOf, C
  <2>. HIDE DEF f
  <2>2. CASE n = 0
    BY <1>1, <2>1, <2>2 DEF LinkedBy, TopOf, Distinct
  <2>3. CASE n # 0 /\ n <= Len(a)
    <3>1. f[n - 1] = a[Len(a) - (n - 1)] /\ Len(a) - (n - 1) \in 1 .. Len(a)
      BY <1>1, <2>1, <2>3
    <3>2. f[n - 1] # NULL
      BY <1>1, <1>2, <3>1
    <3>3. d[a[Len(a) - (n - 1)]] = IF n = Len(a) THEN NULL ELSE a[Len(a) - n]
      BY <1>1, <2>3, <3>1 DEF LinkedBy
    <3>. QED BY <1>1, <2>1, <2>3, <3>1, <3>2, <3>3
  <2>4. CASE n > Len(a)
    BY <1>1, <2>1, <2>4
  <2>. QED BY <1>1, <2>2, <2>3, <2>4
<1>4. f = [n \in 0 .. C |-> Step(f, n)]
  BY <1>3 DEF WalkOf, C
<1>5. ASSUME NEW w, w = [n \in 0 .. C |-> Step(w, n)]
      PROVE  w = f
  <2>1. DOMAIN w = 0 .. C /\ \A n \in 0 .. C : w[n] = Step(w, n)
    BY <1>5
  <2>. SUFFICES ASSUME NEW m \in 0 .. C, w[m] # f[m] PROVE FALSE
    <3>1. f = [n \in 0 .. C |-> f[n]]
      BY DEF WalkOf, C
    <3>. HIDE DEF f
    <3>. QED BY <1>5, <2>1, <3>1
  <2>. DEFINE S == {n \in 0 .. C : w[n] # f[n]}
  <2>2. PICK n \in S : \A k \in S : n <= k
    <3>1. S \in SUBSET Nat /\ S # {}
      BY <1>1
    <3>. QED BY <3>1, LeastNat
  <2>3. n # 0
    BY <1>1, <1>3, <2>1
  <2>4. n - 1 \in 0 .. C /\ n - 1 \notin S
    BY <1>1, <2>2, <2>3
  <2>5. w[n - 1] = f[n - 1]
    BY <2>4
  <2>. HIDE DEF f
  <2>. QED BY <1>3, <2>1, <2>3, <2>5
<1>. HIDE DEF f
<1>6. (CHOOSE w : w = [n \in 0 .. C |-> Step(w, n)]) = f
  BY <1>4, <1>5
<1>. QED BY <1>6 DEF WalkBy, C, f

\* Following the pointers from the top of a chain gives the chain.
LEMMA ChainIs ==
  ASSUME NEW u, NEW d, NEW a, NEW p, Distinct(a), LinkedBy(u, d, a, p)
  PROVE  ChainBy(d, p) = a
<1>. DEFINE C == Cardinality(Slab)
            w == WalkBy(d, p)
            S == {n \in DOMAIN w : w[n] # NULL}
<1>1. C \in Nat /\ Len(a) \in Nat /\ Len(a) <= C /\ NULL \notin Slab
  BY DistinctFits, ArenaLinksAssumption DEF Stack!ArenaAssumption
<1>2. DOMAIN w = 0 .. C /\ \A n \in 0 .. C : w[n] = IF n < Len(a) THEN a[Len(a) - n] ELSE NULL
  <2>1. w = WalkOf(a)
    BY WalkIs
  <2>. HIDE DEF w
  <2>. QED BY <2>1 DEF WalkOf
<1>3. \A i \in 1 .. Len(a) : a[i] \in Slab
  BY DEF Distinct
<1>. HIDE DEF w, C
<1>4. S = 0 .. Len(a) - 1
  BY <1>1, <1>2, <1>3
<1>5. Cardinality(S) = Len(a)
  <2>1. 0 \in Int /\ Len(a) - 1 \in Int
    BY <1>1
  <2>2. Cardinality(0 .. Len(a) - 1) = IF 0 > Len(a) - 1 THEN 0 ELSE Len(a) - 1 - 0 + 1
    BY <2>1, FS_Interval
  <2>. HIDE DEF S
  <2>. QED BY <1>1, <1>4, <2>2
<1>6. ChainBy(d, p) = [i \in 1 .. Cardinality(S) |-> w[Cardinality(S) - i]]
  BY DEF ChainBy, w
<1>7. \A i \in 1 .. Len(a) : w[Len(a) - i] = a[i]
  BY <1>1, <1>2
<1>8. a = [i \in 1 .. Len(a) |-> a[i]]
  BY DEF Distinct
<1>. HIDE DEF S
<1>. QED BY <1>5, <1>6, <1>7, <1>8

-----------------------------------------------------------------------------
(* Cutting and joining chains.                                             *)

LEMMA LinkedElements ==
  ASSUME NEW u, NEW d, NEW a, NEW p, Distinct(a), LinkedBy(u, d, a, p)
  PROVE  /\ Len(a) \in Nat /\ DOMAIN a = 1 .. Len(a) /\ NULL \notin Slab
         /\ \A i \in 1 .. Len(a) : a[i] \in Slab /\ a[i] \in ToSet(a)
         /\ \A i, j \in 1 .. Len(a) : a[i] = a[j] => i = j
         /\ \A s \in ToSet(a) : \E i \in 1 .. Len(a) : s = a[i]
         /\ p = NULL <=> a = <<>>
         /\ a # <<>> => p = a[Len(a)] /\ Len(a) >= 1 /\ p \in ToSet(a)
<1>1. /\ Len(a) \in Nat /\ DOMAIN a = 1 .. Len(a) /\ \A i \in 1 .. Len(a) : a[i] \in Slab
      /\ a # <<>> => Len(a) >= 1
  BY DEF Distinct
<1>2. NULL \notin Slab
  BY ArenaLinksAssumption DEF Stack!ArenaAssumption
<1>3. /\ \A i \in 1 .. Len(a) : a[i] \in ToSet(a)
      /\ \A s \in ToSet(a) : \E i \in 1 .. Len(a) : s = a[i]
  BY <1>1 DEF ToSet
<1>4. \A i, j \in 1 .. Len(a) : a[i] = a[j] => i = j
  BY <1>1 DEF Distinct, IsInjective
<1>5. p = IF a = <<>> THEN NULL ELSE a[Len(a)]
  BY DEF LinkedBy, TopOf
<1>. QED BY <1>1, <1>2, <1>3, <1>4, <1>5

LEMMA EmptyIsLinked ==
  ASSUME NEW u, NEW d
  PROVE  Distinct(<<>>) /\ LinkedBy(u, d, <<>>, NULL)
BY DEF Distinct, LinkedBy, TopOf, IsInjective

\* Links of other slabs do not matter.
LEMMA OthersDoNotMatter ==
  ASSUME NEW u, NEW d, NEW u2, NEW d2, NEW a, NEW p, Distinct(a), LinkedBy(u, d, a, p),
         \A s \in ToSet(a) : u2[s] = u[s] /\ d2[s] = d[s]
  PROVE  LinkedBy(u2, d2, a, p)
<1>1. \A i \in 1 .. Len(a) : u2[a[i]] = u[a[i]] /\ d2[a[i]] = d[a[i]]
  BY LinkedElements
<1>. QED BY <1>1 DEF LinkedBy

\* From u and d to u2 and d2, slab s is put on top of a.
Pushed(u, d, u2, d2, a, p, s) ==
  /\ Distinct(a) /\ LinkedBy(u, d, a, p) /\ s \in Slab \ ToSet(a)
  /\ u2[s] = NULL /\ d2[s] = p
  /\ p # NULL => u2[p] = s
  /\ \A x \in ToSet(a) : (x # p => u2[x] = u[x]) /\ d2[x] = d[x]

LEMMA PushIsLinked ==
  ASSUME NEW u, NEW d, NEW u2, NEW d2, NEW a, NEW p, NEW s, Pushed(u, d, u2, d2, a, p, s)
  PROVE  Distinct(Append(a, s)) /\ LinkedBy(u2, d2, Append(a, s), s)
<1>. DEFINE n == Len(a)
            b == Append(a, s)
<1>. USE DEF Pushed
<1>1. /\ Len(b) = n + 1 /\ b # <<>> /\ b[n + 1] = s /\ n \in Nat
      /\ \A i \in 1 .. n : b[i] = a[i]
  BY DEF Distinct
<1>2. Distinct(b)
  BY AppendKeepsInjective DEF Distinct
<1>. HIDE DEF b
<1>3. \A i \in 1 .. n + 1 : i = n + 1 \/ i \in 1 .. n
  BY <1>1
<1>4. ASSUME NEW i \in 1 .. n
      PROVE  u2[a[i]] = b[i + 1] /\ d2[a[i]] = IF i = 1 THEN NULL ELSE b[i - 1]
  <2>1. a[i] \in ToSet(a) /\ d2[a[i]] = d[a[i]]
    BY LinkedElements
  <2>2. d2[a[i]] = IF i = 1 THEN NULL ELSE b[i - 1]
    BY <1>1, <2>1 DEF LinkedBy
  <2>3. CASE i = n
    <3>1. a[i] = p /\ p # NULL
      BY <1>1, <2>3, LinkedElements
    <3>. QED BY <1>1, <2>2, <2>3, <3>1
  <2>4. CASE i # n
    <3>1. a[i] # p
      BY <1>1, <2>4, LinkedElements
    <3>2. u[a[i]] = a[i + 1]
      BY <1>1, <2>4 DEF LinkedBy
    <3>. QED BY <1>1, <2>1, <2>2, <2>4, <3>1, <3>2
  <2>. QED BY <2>3, <2>4
<1>5. d2[s] = IF n + 1 = 1 THEN NULL ELSE b[n]
  BY <1>1, LinkedElements
<1>6. LinkedBy(u2, d2, b, s)
  <2>1. s = TopOf(b)
    BY <1>1 DEF TopOf
  <2>2. \A i \in 1 .. n + 1 : u2[b[i]] = IF i = n + 1 THEN NULL ELSE b[i + 1]
    BY <1>1, <1>3, <1>4
  <2>3. \A i \in 1 .. n + 1 : d2[b[i]] = IF i = 1 THEN NULL ELSE b[i - 1]
    BY <1>1, <1>3, <1>4, <1>5
  <2>. QED BY <1>1, <2>1, <2>2, <2>3 DEF LinkedBy
<1>. QED BY <1>2, <1>6 DEF b

LEMMA RemoveIndices ==
  ASSUME NEW S, NEW q \in Seq(S), NEW i \in DOMAIN q
  PROVE  /\ Len(RemoveAt(q, i)) = Len(q) - 1
         /\ \A j \in 1 .. Len(q) - 1 : RemoveAt(q, i)[j] = IF j < i THEN q[j] ELSE q[j + 1]
<1>. DEFINE x == SubSeq(q, 1, i - 1)
            y == SubSeq(q, i + 1, Len(q))
<1>1. /\ x \in Seq(S) /\ Len(x) = i - 1 /\ \A j \in 1 .. i - 1 : x[j] = q[j]
      /\ i \in 1 .. Len(q) /\ Len(q) \in Nat
  OBVIOUS
<1>2. /\ y \in Seq(S) /\ Len(y) = Len(q) - i /\ \A j \in 1 .. Len(q) - i : y[j] = q[i + j]
  OBVIOUS
<1>3. RemoveAt(q, i) = x \o y
  BY DEF RemoveAt
<1>. HIDE DEF x, y
<1>4. Len(x \o y) = Len(q) - 1
  BY <1>1, <1>2
<1>5. ASSUME NEW j \in 1 .. Len(q) - 1
      PROVE  (x \o y)[j] = IF j < i THEN q[j] ELSE q[j + 1]
  <2>1. CASE j < i
    BY <1>1, <1>2, <2>1
  <2>2. CASE ~(j < i)
    <3>1. j - (i - 1) \in 1 .. Len(q) - i /\ i + (j - (i - 1)) = j + 1
      BY <1>1, <2>2
    <3>2. (x \o y)[j] = y[j - (i - 1)]
      <4>1. \A k \in 1 .. Len(x) + Len(y) : (x \o y)[k] = IF k <= Len(x) THEN x[k] ELSE y[k - Len(x)]
        BY <1>1, <1>2, ConcatProperties
      <4>2. j \in 1 .. Len(x) + Len(y) /\ ~(j <= Len(x)) /\ j - Len(x) = j - (i - 1)
        BY <1>1, <1>2, <2>2
      <4>. QED BY <4>1, <4>2
    <3>. QED BY <1>2, <2>2, <3>1, <3>2
  <2>. QED BY <2>1, <2>2
<1>. QED BY <1>3, <1>4, <1>5

\* From u and d to u2 and d2, slab s is taken out of a.
Removed(u, d, u2, d2, a, p, s) ==
  /\ Distinct(a) /\ LinkedBy(u, d, a, p)
  /\ \A x \in ToSet(a) \ {s} :
       /\ u2[x] = IF x = d[s] THEN u[s] ELSE u[x]
       /\ d2[x] = IF x = u[s] THEN d[s] ELSE d[x]

LEMMA RemoveIsLinked ==
  ASSUME NEW u, NEW d, NEW u2, NEW d2, NEW a, NEW p, NEW k \in 1 .. Len(a),
         Removed(u, d, u2, d2, a, p, a[k])
  PROVE  /\ Distinct(RemoveAt(a, k))
         /\ LinkedBy(u2, d2, RemoveAt(a, k), IF p = a[k] THEN d[a[k]] ELSE p)
<1>. DEFINE b == RemoveAt(a, k)
            n == Len(a)
            At(j) == IF j < k THEN j ELSE j + 1
            p2 == IF p = a[k] THEN d[a[k]] ELSE p
<1>. USE DEF Removed
<1>1. /\ n \in Nat /\ n >= 1 /\ k \in 1 .. n /\ k \in DOMAIN a /\ NULL \notin Slab
      /\ p = a[n]
      /\ \A i \in 1 .. n : a[i] \in Slab /\ a[i] \in ToSet(a)
      /\ \A i, j \in 1 .. n : a[i] = a[j] => i = j
  BY LinkedElements
<1>2. Distinct(b)
  BY <1>1, RemoveAtElements DEF Distinct
<1>3. /\ Len(b) = n - 1 /\ \A j \in 1 .. n - 1 : b[j] = a[At(j)]
  BY <1>1, RemoveIndices DEF Distinct
<1>4. /\ \A i \in 1 .. n : u[a[i]] = IF i = n THEN NULL ELSE a[i + 1]
      /\ \A i \in 1 .. n : d[a[i]] = IF i = 1 THEN NULL ELSE a[i - 1]
  BY DEF LinkedBy
<1>5. \A i \in 1 .. n : i # k => /\ a[i] = d[a[k]] <=> i = k - 1
                                 /\ a[i] = u[a[k]] <=> i = k + 1
  BY <1>1, <1>4
<1>6. \A i \in 1 .. n : i # k =>
        /\ u2[a[i]] = IF i = k - 1 THEN u[a[k]] ELSE u[a[i]]
        /\ d2[a[i]] = IF i = k + 1 THEN d[a[k]] ELSE d[a[i]]
  BY <1>1, <1>5
<1>7. \A j \in 1 .. n - 1 : At(j) \in 1 .. n /\ At(j) # k /\ j \in Nat
  BY <1>1
<1>. HIDE DEF b
<1>8. ASSUME NEW j \in 1 .. n - 1
      PROVE  u2[b[j]] = IF j = n - 1 THEN NULL ELSE b[j + 1]
  <2>1. b[j] = a[At(j)] /\ u2[a[At(j)]] = IF At(j) = k - 1 THEN u[a[k]] ELSE u[a[At(j)]]
    BY <1>3, <1>6, <1>7
  <2>2. j # n - 1 => b[j + 1] = a[At(j + 1)]
    <3>1. j # n - 1 => j + 1 \in 1 .. n - 1
      BY <1>1
    <3>. QED BY <1>3, <3>1
  <2>3. CASE j < k - 1
    <3>1. j \in 1 .. n /\ j # n /\ At(j) = j /\ At(j + 1) = j + 1 /\ j # n - 1
      BY <1>1, <2>3
    <3>2. u[a[j]] = a[j + 1]
      BY <1>4, <3>1
    <3>. QED BY <1>1, <2>1, <2>2, <2>3, <3>1, <3>2
  <2>4. CASE j = k - 1
    <3>1. At(j) = k - 1 /\ At(j + 1) = k + 1 /\ (j = n - 1 <=> k = n)
      BY <1>1, <2>4
    <3>2. u[a[k]] = IF k = n THEN NULL ELSE a[k + 1]
      BY <1>4
    <3>. QED BY <1>1, <2>1, <2>2, <3>1, <3>2
  <2>5. CASE j >= k
    <3>1. At(j) = j + 1 /\ At(j + 1) = j + 2 /\ j + 1 \in 1 .. n /\ j + 1 # k - 1
          /\ (j + 1) + 1 = j + 2
      BY <1>1, <2>5
    <3>2. u[a[j + 1]] = IF j + 1 = n THEN NULL ELSE a[j + 2]
      BY <1>4, <3>1
    <3>. QED BY <1>1, <2>1, <2>2, <3>1, <3>2
  <2>. QED BY <1>1, <2>3, <2>4, <2>5
<1>9. ASSUME NEW j \in 1 .. n - 1
      PROVE  d2[b[j]] = IF j = 1 THEN NULL ELSE b[j - 1]
  <2>1. b[j] = a[At(j)] /\ d2[a[At(j)]] = IF At(j) = k + 1 THEN d[a[k]] ELSE d[a[At(j)]]
    BY <1>3, <1>6, <1>7
  <2>2. j # 1 => b[j - 1] = a[At(j - 1)]
    <3>1. j # 1 => j - 1 \in 1 .. n - 1
      BY <1>1
    <3>. QED BY <1>3, <3>1
  <2>3. CASE j < k
    <3>1. j \in 1 .. n /\ At(j) = j /\ At(j - 1) = j - 1 /\ j # k + 1
      BY <1>1, <2>3
    <3>2. d[a[j]] = IF j = 1 THEN NULL ELSE a[j - 1]
      BY <1>4, <3>1
    <3>. QED BY <2>1, <2>2, <3>1, <3>2
  <2>4. CASE j = k
    <3>1. At(j) = k + 1 /\ At(j - 1) = k - 1
      BY <1>1, <2>4
    <3>2. d[a[k]] = IF k = 1 THEN NULL ELSE a[k - 1]
      BY <1>4
    <3>. QED BY <2>1, <2>2, <2>4, <3>1, <3>2
  <2>5. CASE j > k
    <3>1. /\ At(j) = j + 1 /\ At(j - 1) = j /\ j + 1 \in 1 .. n
          /\ j + 1 # k + 1 /\ j + 1 # 1 /\ j # 1 /\ (j + 1) - 1 = j
      BY <1>1, <2>5
    <3>2. d[a[j + 1]] = a[j]
      BY <1>4, <3>1
    <3>. QED BY <2>1, <2>2, <3>1, <3>2
  <2>. QED BY <1>1, <2>3, <2>4, <2>5
<1>10. p2 = TopOf(b)
  <2>1. b = <<>> <=> n = 1
    BY <1>1, <1>2, <1>3 DEF Distinct
  <2>2. CASE k = n
    BY <1>1, <1>3, <1>4, <2>1, <2>2 DEF TopOf
  <2>3. CASE k # n
    BY <1>1, <1>3, <2>1, <2>3 DEF TopOf
  <2>. QED BY <2>2, <2>3
<1>11. LinkedBy(u2, d2, b, p2)
  BY <1>3, <1>8, <1>9, <1>10 DEF LinkedBy
<1>. QED BY <1>2, <1>11 DEF b

\* The slabs of b are put on top of r.
Joined(u, d, u2, d2, r, q, b) ==
  /\ Distinct(r) /\ LinkedBy(u, d, r, q)
  /\ Distinct(b) /\ b # <<>> /\ ToSet(r) \intersect ToSet(b) = {}
  /\ \A j \in 1 .. Len(b) : u2[b[j]] = IF j = Len(b) THEN NULL ELSE b[j + 1]
  /\ \A j \in 1 .. Len(b) : d2[b[j]] = IF j = 1 THEN q ELSE b[j - 1]
  /\ q # NULL => u2[q] = b[1]
  /\ \A x \in ToSet(r) : (x # q => u2[x] = u[x]) /\ d2[x] = d[x]

LEMMA JoinIsLinked ==
  ASSUME NEW u, NEW d, NEW u2, NEW d2, NEW r, NEW q, NEW b, Joined(u, d, u2, d2, r, q, b)
  PROVE  Distinct(r \o b) /\ LinkedBy(u2, d2, r \o b, b[Len(b)])
<1>. DEFINE c == r \o b
            m == Len(r)
            n == Len(b)
<1>. USE DEF Joined
<1>1. /\ m \in Nat /\ n \in Nat /\ n >= 1 /\ r \in Seq(Slab) /\ b \in Seq(Slab)
      /\ IsInjective(r) /\ IsInjective(b)
  BY DEF Distinct
<1>2. Distinct(c)
  BY <1>1, ConcatInjective, ConcatIndices DEF Distinct
<1>3. /\ Len(c) = m + n /\ c # <<>>
      /\ \A i \in 1 .. m : c[i] = r[i]
      /\ \A j \in 1 .. n : c[m + j] = b[j]
  BY <1>1
<1>. HIDE DEF c
<1>4. \A i \in 1 .. m + n : i \in 1 .. m \/ (i - m \in 1 .. n /\ i = m + (i - m))
  BY <1>1
<1>5. ASSUME NEW i \in 1 .. m
      PROVE  u2[c[i]] = c[i + 1] /\ d2[c[i]] = IF i = 1 THEN NULL ELSE c[i - 1]
  <2>1. /\ c[i] = r[i] /\ r[i] \in ToSet(r) /\ d2[r[i]] = d[r[i]]
        /\ d[r[i]] = IF i = 1 THEN NULL ELSE r[i - 1]
        /\ u[r[i]] = IF i = m THEN NULL ELSE r[i + 1]
    BY <1>3, LinkedElements DEF LinkedBy
  <2>2. d2[c[i]] = IF i = 1 THEN NULL ELSE c[i - 1]
    <3>1. i # 1 => i - 1 \in 1 .. m
      BY <1>1
    <3>. QED BY <1>3, <2>1, <3>1
  <2>3. CASE i = m
    <3>1. r[i] = q /\ q # NULL
      BY <1>1, <2>3, LinkedElements
    <3>2. c[i + 1] = b[1]
      BY <1>1, <1>3, <2>3
    <3>. QED BY <2>1, <2>2, <3>1, <3>2
  <2>4. CASE i # m
    <3>1. r[i] # q
      BY <1>1, <2>4, LinkedElements
    <3>2. i + 1 \in 1 .. m
      BY <1>1, <2>4
    <3>. QED BY <1>3, <2>1, <2>2, <2>4, <3>1, <3>2
  <2>. QED BY <2>3, <2>4
<1>6. ASSUME NEW j \in 1 .. n
      PROVE  /\ u2[c[m + j]] = IF j = n THEN NULL ELSE c[m + j + 1]
             /\ d2[c[m + j]] = IF m + j = 1 THEN NULL ELSE c[m + j - 1]
  <2>1. /\ c[m + j] = b[j]
        /\ u2[b[j]] = IF j = n THEN NULL ELSE b[j + 1]
        /\ d2[b[j]] = IF j = 1 THEN q ELSE b[j - 1]
    BY <1>3
  <2>2. j # n => c[m + j + 1] = b[j + 1]
    <3>1. j # n => j + 1 \in 1 .. n /\ m + j + 1 = m + (j + 1)
      BY <1>1
    <3>. QED BY <1>3, <3>1
  <2>3. j # 1 => c[m + j - 1] = b[j - 1] /\ m + j # 1
    <3>1. j # 1 => j - 1 \in 1 .. n /\ m + j - 1 = m + (j - 1) /\ m + j # 1
      BY <1>1
    <3>. QED BY <1>3, <3>1
  <2>4. j = 1 => q = IF m + j = 1 THEN NULL ELSE c[m + j - 1]
    <3>. SUFFICES ASSUME j = 1 PROVE q = IF m + j = 1 THEN NULL ELSE c[m + j - 1]
      OBVIOUS
    <3>1. m + j - 1 = m /\ (m + j = 1 <=> m = 0)
      BY <1>1
    <3>2. CASE r = <<>>
      BY <1>1, <3>1, <3>2, LinkedElements
    <3>3. CASE r # <<>>
      BY <1>1, <1>3, <3>1, <3>3, LinkedElements
    <3>. QED BY <3>2, <3>3
  <2>. QED BY <2>1, <2>2, <2>3, <2>4
<1>7. \A i \in 1 .. m + n : u2[c[i]] = IF i = m + n THEN NULL ELSE c[i + 1]
  <2>. SUFFICES ASSUME NEW i \in 1 .. m + n PROVE u2[c[i]] = IF i = m + n THEN NULL ELSE c[i + 1]
    OBVIOUS
  <2>1. CASE i \in 1 .. m
    BY <1>1, <1>5, <2>1
  <2>2. CASE i \notin 1 .. m
    <3>1. PICK j \in 1 .. n : i = m + j
      BY <1>4, <2>2
    <3>2. i = m + n <=> j = n
      <4>1. m \in Nat /\ n \in Nat /\ j \in Nat
        BY <1>1
      <4>. HIDE DEF m, n
      <4>. QED BY <3>1, <4>1
    <3>. QED BY <1>6, <3>1, <3>2
  <2>. QED BY <2>1, <2>2
<1>8. \A i \in 1 .. m + n : d2[c[i]] = IF i = 1 THEN NULL ELSE c[i - 1]
  <2>. SUFFICES ASSUME NEW i \in 1 .. m + n PROVE d2[c[i]] = IF i = 1 THEN NULL ELSE c[i - 1]
    OBVIOUS
  <2>1. CASE i \in 1 .. m
    BY <1>5, <2>1
  <2>2. CASE i \notin 1 .. m
    <3>1. PICK j \in 1 .. n : i = m + j
      BY <1>4, <2>2
    <3>. QED BY <1>6, <3>1
  <2>. QED BY <2>1, <2>2
<1>9. b[n] = TopOf(c)
  BY <1>1, <1>3 DEF TopOf
<1>10. LinkedBy(u2, d2, c, b[n])
  BY <1>3, <1>7, <1>8, <1>9 DEF LinkedBy
<1>. QED BY <1>2, <1>10 DEF c

\* The first k slabs of a stay, and no slab is above them any more.
Cut(u, d, u2, d2, a, p, k) ==
  /\ Distinct(a) /\ LinkedBy(u, d, a, p)
  /\ k \in 1 .. Len(a) /\ u2[a[k]] = NULL
  /\ \A i \in 1 .. k - 1 : u2[a[i]] = u[a[i]]
  /\ \A i \in 1 .. k : d2[a[i]] = d[a[i]]

LEMMA PrefixIsLinked ==
  ASSUME NEW u, NEW d, NEW u2, NEW d2, NEW a, NEW p, NEW k, Cut(u, d, u2, d2, a, p, k)
  PROVE  Distinct(SubSeq(a, 1, k)) /\ LinkedBy(u2, d2, SubSeq(a, 1, k), a[k])
<1>. DEFINE b == SubSeq(a, 1, k)
<1>. USE DEF Cut
<1>1. /\ a \in Seq(Slab) /\ IsInjective(a) /\ k \in 0 .. Len(a) /\ k \in Nat /\ k >= 1 /\ Len(a) \in Nat
      /\ k <= Len(a)
  BY DEF Distinct
<1>2. /\ b \in Seq(Slab) /\ Len(b) = k /\ \A i \in 1 .. k : b[i] = a[i]
  BY <1>1, SplitElements
<1>3. Distinct(b)
  BY <1>1, <1>2, SplitInjective DEF Distinct
<1>. HIDE DEF b
<1>4. a[k] = TopOf(b)
  BY <1>1, <1>2 DEF TopOf
<1>5. ASSUME NEW i \in 1 .. k
      PROVE  /\ u2[b[i]] = IF i = k THEN NULL ELSE b[i + 1]
             /\ d2[b[i]] = IF i = 1 THEN NULL ELSE b[i - 1]
  <2>1. /\ i \in 1 .. Len(a)
        /\ i # k => i \in 1 .. k - 1 /\ i # Len(a) /\ i + 1 \in 1 .. k
        /\ i # 1 => i - 1 \in 1 .. k
    BY <1>1
  <2>2. /\ u[a[i]] = IF i = Len(a) THEN NULL ELSE a[i + 1]
        /\ d[a[i]] = IF i = 1 THEN NULL ELSE a[i - 1]
    BY <2>1 DEF LinkedBy
  <2>. QED BY <1>2, <2>1, <2>2
<1>6. LinkedBy(u2, d2, b, a[k])
  BY <1>2, <1>4, <1>5 DEF LinkedBy
<1>. QED BY <1>3, <1>6 DEF b

-----------------------------------------------------------------------------
(* Stack and Calls are the same instance of Arena.                         *)

LEMMA SameFits ==
  \A s, offset, size, align : Stack!FitsIn(s, offset, size, align) <=> Calls!FitsIn(s, offset, size, align)
BY DEF Stack!FitsIn, Stack!StartIn, Stack!AlignUp, Stack!EffectiveAlign, Stack!Padding,
       Calls!FitsIn, Calls!StartIn, Calls!AlignUp, Calls!EffectiveAlign, Calls!Padding

LEMMA SameGrant ==
  \A s, offset, size, align : Stack!Grant(s, offset, size, align) <=> Calls!Grant(s, offset, size, align)
BY DEF Stack!Grant, Stack!StartIn, Stack!AlignUp, Stack!EffectiveAlign, Stack!Padding,
       Calls!Grant, Calls!StartIn, Calls!AlignUp, Calls!EffectiveAlign, Calls!Padding

LEMMA SameAlloc ==
  \A size, align : Stack!Alloc(size, align) <=> Calls!Alloc(size, align)
<1>1. Stack!Top = Calls!Top /\ Stack!Held = Calls!Held
  BY DEF Stack!Top, Calls!Top, Stack!Last, Calls!Last, Stack!Held, Calls!Held
<1>2. \A size, align : Stack!FitsTop(size, align) <=> Calls!FitsTop(size, align)
  BY <1>1, SameFits DEF Stack!FitsTop, Calls!FitsTop
<1>3. \A size, align : Stack!NewSlabSize(size, align) = Calls!NewSlabSize(size, align)
  BY DEF Stack!NewSlabSize, Stack!EffectiveAlign, Calls!NewSlabSize, Calls!EffectiveAlign
<1>4. \A i, size, align : Stack!FirstFit(i, size, align) <=> Calls!FirstFit(i, size, align)
  BY SameFits DEF Stack!FirstFit, Calls!FirstFit
<1>5. \A size, align : Stack!NoneFits(size, align) <=> Calls!NoneFits(size, align)
  BY SameFits DEF Stack!NoneFits, Calls!NoneFits
<1>6. \A size, align : Stack!AllocFromTop(size, align) <=> Calls!AllocFromTop(size, align)
  BY <1>1, <1>2, SameGrant DEF Stack!AllocFromTop, Calls!AllocFromTop
<1>7. \A size, align : Stack!AllocFromRecycled(size, align) <=> Calls!AllocFromRecycled(size, align)
  BY <1>2, <1>4, SameGrant DEF Stack!AllocFromRecycled, Calls!AllocFromRecycled, Stack!RemoveAt, Calls!RemoveAt
<1>8. \A size, align : Stack!AllocFromHost(size, align) <=> Calls!AllocFromHost(size, align)
  BY <1>1, <1>2, <1>3, <1>5, SameGrant DEF Stack!AllocFromHost, Calls!AllocFromHost
<1>. QED BY <1>6, <1>7, <1>8 DEF Stack!Alloc, Calls!Alloc

LEMMA SamePop == \A k : Stack!PopScope(k) <=> Calls!PopScope(k)
<1>1. \A sc : Stack!WithinSlab(sc) <=> Calls!WithinSlab(sc)
  BY DEF Stack!WithinSlab, Calls!WithinSlab, Stack!Top, Calls!Top, Stack!Last, Calls!Last
<1>2. \A sc : Stack!Depth(sc) = Calls!Depth(sc) /\ Stack!Above(sc) = Calls!Above(sc)
  BY DEF Stack!Depth, Calls!Depth, Stack!Above, Calls!Above
<1>3. \A sc : /\ Stack!PopWithinSlab(sc) <=> Calls!PopWithinSlab(sc)
              /\ Stack!PopWithoutRecycling(sc) <=> Calls!PopWithoutRecycling(sc)
              /\ Stack!PopToEmpty(sc) <=> Calls!PopToEmpty(sc)
              /\ Stack!PopAcrossSlabs(sc) <=> Calls!PopAcrossSlabs(sc)
  BY <1>1, <1>2
     DEF Stack!PopWithinSlab, Calls!PopWithinSlab, Stack!PopWithoutRecycling, Calls!PopWithoutRecycling,
         Stack!PopToEmpty, Calls!PopToEmpty, Stack!PopAcrossSlabs, Calls!PopAcrossSlabs
<1>. QED BY <1>3 DEF Stack!PopScope, Calls!PopScope

LEMMA SameNext == Stack!Next <=> Calls!Next
<1>1. Stack!PushScope <=> Calls!PushScope
  BY DEF Stack!PushScope, Calls!PushScope, Stack!Top, Calls!Top, Stack!Last, Calls!Last,
         Stack!arenaVars, Calls!arenaVars
<1>2. Stack!FreeRecycled <=> Calls!FreeRecycled
  BY DEF Stack!FreeRecycled, Calls!FreeRecycled, Stack!FreeSlabs, Calls!FreeSlabs,
         Stack!ToSet, Calls!ToSet
<1>3. Stack!RecycleAll <=> Calls!RecycleAll
  BY DEF Stack!RecycleAll, Calls!RecycleAll
<1>4. Stack!FreeAll <=> Calls!FreeAll
  BY DEF Stack!FreeAll, Calls!FreeAll, Stack!FreeSlabs, Calls!FreeSlabs,
         Stack!ToSet, Calls!ToSet
<1>. QED BY <1>1, <1>2, <1>3, <1>4, SameAlloc, SamePop DEF Stack!Next, Calls!Next

-----------------------------------------------------------------------------
(* The inductive invariant.                                                *)

LinksInv ==
  /\ up \in [Slab -> Slab \union {NULL}]
  /\ down \in [Slab -> Slab \union {NULL}]
  /\ LinkedBy(up, down, Chain(top_slab), top_slab)
  /\ LinkedBy(up, down, Chain(top_recycled_slab), top_recycled_slab)
  /\ Calls!IInv

\* After the step a is the stack and r is recycled.
Leaves(a, r) ==
  /\ up' \in [Slab -> Slab \union {NULL}]
  /\ down' \in [Slab -> Slab \union {NULL}]
  /\ Distinct(a) /\ LinkedBy(up', down', a, top_slab')
  /\ Distinct(r) /\ LinkedBy(up', down', r, top_recycled_slab')

LEMMA LeavesChains ==
  ASSUME NEW a, NEW r, Leaves(a, r)
  PROVE  Chain(top_slab)' = a /\ Chain(top_recycled_slab)' = r
<1>1. Chain(top_slab)' = ChainBy(down', top_slab')
      /\ Chain(top_recycled_slab)' = ChainBy(down', top_recycled_slab')
  BY DEF Chain, Below, ChainBy, WalkBy
<1>. QED BY <1>1, ChainIs DEF Leaves

LEMMA LeavesKeepsInv ==
  ASSUME LinksInv, NEW a, NEW r, Leaves(a, r), Stack!Next
  PROVE  LinksInv'
<1>1. Calls!IInv'
  <2>1. [Calls!Next]_(Calls!vars)
    BY SameNext
  <2>2. Calls!IInv
    BY DEF LinksInv
  <2>3. Calls!ArenaAssumption
    BY ArenaLinksAssumption DEF Stack!ArenaAssumption, Calls!ArenaAssumption
  <2>. QED BY <2>1, <2>2, <2>3, Calls!NextKeepsIInv
<1>. QED BY <1>1, LeavesChains DEF Leaves, LinksInv, LinkedBy

LEMMA InvFacts ==
  ASSUME LinksInv
  PROVE  /\ Distinct(Chain(top_slab)) /\ LinkedBy(up, down, Chain(top_slab), top_slab)
         /\ Distinct(Chain(top_recycled_slab))
         /\ LinkedBy(up, down, Chain(top_recycled_slab), top_recycled_slab)
         /\ ToSet(Chain(top_slab)) \intersect ToSet(Chain(top_recycled_slab)) = {}
         /\ Stack!Top = top_slab
         /\ top_slab # NULL => top_slab # top_recycled_slab /\ down[top_slab] # top_slab
<1>1. /\ Distinct(Chain(top_slab)) /\ LinkedBy(up, down, Chain(top_slab), top_slab)
      /\ Distinct(Chain(top_recycled_slab))
      /\ LinkedBy(up, down, Chain(top_recycled_slab), top_recycled_slab)
      /\ ToSet(Chain(top_slab)) \intersect ToSet(Chain(top_recycled_slab)) = {}
  BY DEF LinksInv, Calls!IInv, Calls!TypeOK, Calls!ChainsDistinct, Calls!IsInjective, Calls!ToSet,
         Distinct, IsInjective, ToSet
<1>2. Stack!Top = top_slab
  BY <1>1 DEF LinkedBy, TopOf, Stack!Top, Stack!Last
<1>3. top_slab # NULL => top_slab # top_recycled_slab
  BY <1>1, LinkedElements
<1>4. top_slab # NULL => down[top_slab] # top_slab
  <2>. DEFINE a == Chain(top_slab)
  <2>1. Distinct(a) /\ LinkedBy(up, down, a, top_slab)
    BY <1>1
  <2>. HIDE DEF a
  <2>2. top_slab # NULL => Len(a) \in Nat /\ Len(a) >= 1 /\ top_slab = a[Len(a)] /\ top_slab # NULL
    BY <2>1, LinkedElements
  <2>. SUFFICES ASSUME top_slab # NULL PROVE down[top_slab] # top_slab
    OBVIOUS
  <2>3. Len(a) \in 1 .. Len(a) /\ (Len(a) # 1 => Len(a) - 1 \in 1 .. Len(a) /\ Len(a) - 1 # Len(a))
    <3>1. PICK n \in Nat : n = Len(a) /\ n >= 1
      BY <2>2
    <3>2. n \in 1 .. n /\ (n # 1 => n - 1 \in 1 .. n /\ n - 1 # n)
      BY <3>1
    <3>. QED BY <3>1, <3>2
  <2>4. down[a[Len(a)]] = IF Len(a) = 1 THEN NULL ELSE a[Len(a) - 1]
    BY <2>1, <2>3 DEF LinkedBy
  <2>5. Len(a) # 1 => a[Len(a) - 1] # a[Len(a)]
    BY <2>1, <2>3, LinkedElements
  <2>. QED BY <2>2, <2>4, <2>5
<1>. QED BY <1>1, <1>2, <1>3, <1>4

LEMMA SetIs ==
  ASSUME NEW link \in [Slab -> Slab \union {NULL}],
         NEW s \in Slab \union {NULL}, NEW y \in Slab \union {NULL}
  PROVE  /\ Set(link, s, y) \in [Slab -> Slab \union {NULL}]
         /\ \A x \in Slab : Set(link, s, y)[x] = IF x = s THEN y ELSE link[x]
BY ArenaLinksAssumption DEF Set, Stack!ArenaAssumption

LEMMA Neighbours ==
  ASSUME NEW u, NEW d, NEW a, NEW p, Distinct(a), LinkedBy(u, d, a, p),
         NEW s \in ToSet(a)
  PROVE  /\ s \in Slab
         /\ u[s] \in ToSet(a) \union {NULL} /\ d[s] \in ToSet(a) \union {NULL}
         /\ u[s] # s
         /\ u[s] # NULL => d[u[s]] = s
         /\ d[s] # NULL => u[d[s]] = s
         /\ s = p => u[s] = NULL
<1>1. /\ Len(a) \in Nat /\ NULL \notin Slab
      /\ \A i \in 1 .. Len(a) : a[i] \in Slab /\ a[i] \in ToSet(a)
      /\ \A i, j \in 1 .. Len(a) : a[i] = a[j] => i = j
  BY LinkedElements
<1>2. PICK i \in 1 .. Len(a) : s = a[i]
  BY LinkedElements
<1>3. /\ \A j \in 1 .. Len(a) : u[a[j]] = IF j = Len(a) THEN NULL ELSE a[j + 1]
      /\ \A j \in 1 .. Len(a) : d[a[j]] = IF j = 1 THEN NULL ELSE a[j - 1]
  BY DEF LinkedBy
<1>4. /\ i # Len(a) => i + 1 \in 1 .. Len(a) /\ i + 1 # 1 /\ (i + 1) - 1 = i /\ i + 1 # i
      /\ i # 1 => i - 1 \in 1 .. Len(a) /\ i - 1 # Len(a) /\ (i - 1) + 1 = i
  BY <1>1
<1>5. u[s] \in ToSet(a) \union {NULL} /\ d[s] \in ToSet(a) \union {NULL}
  BY <1>1, <1>2, <1>3, <1>4
<1>6. u[s] # s
  BY <1>1, <1>2, <1>3, <1>4
<1>7. u[s] # NULL => d[u[s]] = s
  BY <1>2, <1>3, <1>4
<1>8. d[s] # NULL => u[d[s]] = s
  BY <1>2, <1>3, <1>4
<1>9. s = p => u[s] = NULL
  <2>1. s = p => s = a[Len(a)] /\ Len(a) \in 1 .. Len(a)
    BY <1>2, LinkedElements
  <2>. QED BY <1>3, <2>1
<1>. QED BY <1>1, <1>2, <1>5, <1>6, <1>7, <1>8, <1>9

-----------------------------------------------------------------------------
(* Allocating.                                                             *)

LEMMA AssertsHold == LinksInv => AllocAsserts
BY InvFacts DEF AllocAsserts

LEMMA ChainTypes ==
  ASSUME LinksInv
  PROVE  /\ up \in [Slab -> Slab \union {NULL}] /\ down \in [Slab -> Slab \union {NULL}]
         /\ NULL \notin Slab
         /\ ToSet(Chain(top_slab)) \subseteq Stack!Held
         /\ ToSet(Chain(top_recycled_slab)) \subseteq Stack!Held
         /\ Stack!Held \subseteq Slab
         /\ top_slab \in ToSet(Chain(top_slab)) \union {NULL}
         /\ top_recycled_slab \in ToSet(Chain(top_recycled_slab)) \union {NULL}
<1>1. ToSet(Chain(top_slab)) \union ToSet(Chain(top_recycled_slab)) = Stack!Held
  BY DEF LinksInv, Calls!IInv, Calls!ChainsHold, Calls!ToSet, ToSet, Calls!Held, Stack!Held
<1>2. NULL \notin Slab
  BY ArenaLinksAssumption DEF Stack!ArenaAssumption
<1>3. /\ top_slab \in ToSet(Chain(top_slab)) \union {NULL}
      /\ top_recycled_slab \in ToSet(Chain(top_recycled_slab)) \union {NULL}
  <2>1. top_slab # NULL => top_slab \in ToSet(Chain(top_slab))
    BY InvFacts, LinkedElements
  <2>2. top_recycled_slab # NULL => top_recycled_slab \in ToSet(Chain(top_recycled_slab))
    BY InvFacts, LinkedElements
  <2>. QED BY <2>1, <2>2
<1>. QED BY <1>1, <1>2, <1>3 DEF LinksInv, Stack!Held

LEMMA LeftAlone ==
  ASSUME LinksInv, UNCHANGED links
  PROVE  /\ Leaves(Chain(top_slab), Chain(top_recycled_slab))
         /\ Chain(top_slab)' = Chain(top_slab)
         /\ Chain(top_recycled_slab)' = Chain(top_recycled_slab)
<1>1. Leaves(Chain(top_slab), Chain(top_recycled_slab))
  BY InvFacts, ChainTypes DEF links, Leaves
<1>. QED BY <1>1, LeavesChains

LEMMA AllocFromTopFollows ==
  ASSUME LinksInv, NEW size, NEW align, ~aborted, AllocFromTop(size, align)
  PROVE  /\ Stack!AllocFromTop(size, align)
         /\ \E a, r : Leaves(a, r)
<1>1. UNCHANGED links /\ aborted' = aborted
  BY AssertsHold DEF AllocFromTop, LinksInv, Calls!IInv, Calls!TypeOK
<1>2. Stack!Top = top_slab
  BY InvFacts
<1>3. Stack!AllocFromTop(size, align)
  BY <1>1, <1>2, LeftAlone DEF AllocFromTop, Stack!AllocFromTop
<1>. QED BY <1>1, <1>3, LeftAlone

LEMMA AllocFromHostFollows ==
  ASSUME LinksInv, NEW size, NEW align, ~aborted, AllocFromHost(size, align)
  PROVE  /\ Stack!AllocFromHost(size, align)
         /\ \E a, r : Leaves(a, r)
<1>1. PICK s \in Slab \ Stack!Held :
       /\ cap' = [cap EXCEPT ![s] = Stack!NewSlabSize(size, align)]
       /\ up' = Set([up EXCEPT ![s] = NULL], top_slab, s)
       /\ down' = [down EXCEPT ![s] = top_slab]
       /\ top_slab' = s
       /\ Stack!Grant(s, 0, size, align)
  BY DEF AllocFromHost
<1>2. aborted' = aborted /\ UNCHANGED top_recycled_slab
  BY AssertsHold DEF AllocFromHost, LinksInv, Calls!IInv, Calls!TypeOK
<1>. DEFINE a == Chain(top_slab)
            r == Chain(top_recycled_slab)
<1>3. /\ Distinct(a) /\ LinkedBy(up, down, a, top_slab)
      /\ Distinct(r) /\ LinkedBy(up, down, r, top_recycled_slab)
      /\ ToSet(a) \intersect ToSet(r) = {}
  BY InvFacts
<1>4. /\ s \in Slab /\ s \notin ToSet(a) /\ s \notin ToSet(r) /\ s # NULL /\ s # top_slab
      /\ top_slab \in Slab \union {NULL} /\ top_slab \notin ToSet(r)
      /\ ToSet(a) \subseteq Slab /\ ToSet(r) \subseteq Slab
  BY <1>1, <1>3, ChainTypes
<1>. HIDE DEF a, r
<1>5. /\ [up EXCEPT ![s] = NULL] \in [Slab -> Slab \union {NULL}]
      /\ down' \in [Slab -> Slab \union {NULL}]
      /\ \A x \in Slab : [up EXCEPT ![s] = NULL][x] = IF x = s THEN NULL ELSE up[x]
      /\ \A x \in Slab : down'[x] = IF x = s THEN top_slab ELSE down[x]
  BY <1>1, <1>4, ChainTypes
<1>6. /\ up' \in [Slab -> Slab \union {NULL}]
      /\ \A x \in Slab : up'[x] = IF x = top_slab THEN s ELSE IF x = s THEN NULL ELSE up[x]
  <2>. DEFINE l == [up EXCEPT ![s] = NULL]
  <2>1. l \in [Slab -> Slab \union {NULL}] /\ \A x \in Slab : l[x] = IF x = s THEN NULL ELSE up[x]
    BY <1>5
  <2>2. up' = Set(l, top_slab, s)
    BY <1>1
  <2>. HIDE DEF l
  <2>3. s \in Slab \union {NULL} /\ top_slab \in Slab \union {NULL}
    BY <1>4
  <2>4. /\ up' \in [Slab -> Slab \union {NULL}]
        /\ \A x \in Slab : up'[x] = IF x = top_slab THEN s ELSE l[x]
    BY <2>1, <2>2, <2>3, SetIs
  <2>. QED BY <2>1, <2>4
<1>7. Distinct(Append(a, s)) /\ LinkedBy(up', down', Append(a, s), s)
  <2>1. up'[s] = NULL /\ down'[s] = top_slab /\ (top_slab # NULL => up'[top_slab] = s)
    BY <1>4, <1>5, <1>6
  <2>2. \A x \in ToSet(a) : (x # top_slab => up'[x] = up[x]) /\ down'[x] = down[x]
    BY <1>4, <1>5, <1>6
  <2>3. Pushed(up, down, up', down', a, top_slab, s)
    BY <1>3, <1>4, <2>1, <2>2 DEF Pushed
  <2>. QED BY <2>3, PushIsLinked
<1>8. LinkedBy(up', down', r, top_recycled_slab)
  <2>1. \A x \in ToSet(r) : up'[x] = up[x] /\ down'[x] = down[x]
    BY <1>4, <1>5, <1>6
  <2>. QED BY <1>3, <2>1, OthersDoNotMatter
<1>9. Leaves(Append(a, s), r)
  BY <1>1, <1>2, <1>3, <1>5, <1>6, <1>7, <1>8 DEF Leaves
<1>10. Chain(top_slab)' = Append(a, s) /\ Chain(top_recycled_slab)' = r
  BY <1>9, LeavesChains
<1>11. Stack!AllocFromHost(size, align)
  BY <1>1, <1>2, <1>10 DEF AllocFromHost, Stack!AllocFromHost, a, r
<1>. QED BY <1>9, <1>11

LEMMA AllocFromRecycledFollows ==
  ASSUME LinksInv, NEW size, NEW align, ~aborted, AllocFromRecycled(size, align)
  PROVE  /\ Stack!AllocFromRecycled(size, align)
         /\ \E a, r : Leaves(a, r)
<1>. DEFINE a == Chain(top_slab)
            r == Chain(top_recycled_slab)
<1>1. PICK i \in DOMAIN r :
         /\ Stack!FirstFit(i, size, align)
         /\ ReuseSlab(r[i])
         /\ Stack!Grant(r[i], 0, size, align)
         /\ aborted' = ~( /\ AllocAsserts
                          /\ top_recycled_slab = r[i] => up[r[i]] = NULL
                          /\ UnlinkAsserts(r[i]) )
  BY DEF AllocFromRecycled
<1>2. /\ Distinct(a) /\ LinkedBy(up, down, a, top_slab)
      /\ Distinct(r) /\ LinkedBy(up, down, r, top_recycled_slab)
      /\ ToSet(a) \intersect ToSet(r) = {}
  BY InvFacts
<1>3. /\ top_slab \in ToSet(a) \union {NULL} /\ NULL \notin Slab
      /\ ToSet(a) \subseteq Slab /\ ToSet(r) \subseteq Slab
      /\ up \in [Slab -> Slab \union {NULL}] /\ down \in [Slab -> Slab \union {NULL}]
  BY ChainTypes
<1>4. /\ UNCHANGED cap /\ ~Stack!FitsTop(size, align) /\ ~NoRecycle
      /\ aborted \in BOOLEAN
  BY DEF AllocFromRecycled, LinksInv, Calls!IInv, Calls!TypeOK
<1>. HIDE DEF a, r
<1>. DEFINE s == r[i]
<1>5. s \in ToSet(r) /\ i \in 1 .. Len(r) /\ i \in DOMAIN r
  BY <1>1, <1>2, LinkedElements
<1>6. /\ s \in Slab
      /\ up[s] \in ToSet(r) \union {NULL} /\ down[s] \in ToSet(r) \union {NULL}
      /\ UnlinkAsserts(s)
      /\ top_recycled_slab = s => up[s] = NULL
  BY <1>2, <1>5, Neighbours DEF UnlinkAsserts
<1>7. /\ up' = Set(UpAfterUnlink(s), top_slab, s)
      /\ down' = [Set(down, up[s], down[s]) EXCEPT ![s] = top_slab]
      /\ top_slab' = s
      /\ top_recycled_slab' = IF top_recycled_slab = s THEN down[s] ELSE top_recycled_slab
      /\ aborted' = aborted
  BY <1>1, <1>4, <1>6, AssertsHold DEF ReuseSlab
<1>. HIDE DEF s
<1>8. /\ top_slab \in Slab \union {NULL} /\ top_slab \notin ToSet(r) /\ s # top_slab
      /\ s \notin ToSet(a) /\ up[s] \notin ToSet(a) /\ down[s] \notin ToSet(a)
      /\ up[s] \in Slab \union {NULL} /\ down[s] \in Slab \union {NULL}
  BY <1>2, <1>3, <1>5, <1>6
<1>9. /\ Set(up, down[s], up[s]) \in [Slab -> Slab \union {NULL}]
      /\ \A x \in Slab : Set(up, down[s], up[s])[x] = IF x = down[s] THEN up[s] ELSE up[x]
      /\ Set(down, up[s], down[s]) \in [Slab -> Slab \union {NULL}]
      /\ \A x \in Slab : Set(down, up[s], down[s])[x] = IF x = up[s] THEN down[s] ELSE down[x]
  BY <1>3, <1>8, SetIs
<1>10. /\ UpAfterUnlink(s) \in [Slab -> Slab \union {NULL}]
       /\ \A x \in Slab : UpAfterUnlink(s)[x] =
                            IF x = s THEN NULL ELSE IF x = down[s] THEN up[s] ELSE up[x]
       /\ down' \in [Slab -> Slab \union {NULL}]
       /\ \A x \in Slab : down'[x] = IF x = s THEN top_slab ELSE IF x = up[s] THEN down[s] ELSE down[x]
  BY <1>6, <1>7, <1>8, <1>9 DEF UpAfterUnlink
<1>11. /\ up' \in [Slab -> Slab \union {NULL}]
       /\ \A x \in Slab : up'[x] = IF x = top_slab THEN s ELSE IF x = s THEN NULL
                                   ELSE IF x = down[s] THEN up[s] ELSE up[x]
  <2>1. s \in Slab \union {NULL} /\ top_slab \in Slab \union {NULL}
    BY <1>6, <1>8
  <2>2. PICK l : l = UpAfterUnlink(s)
    OBVIOUS
  <2>3. l \in [Slab -> Slab \union {NULL}] /\ up' = Set(l, top_slab, s)
    BY <1>7, <1>10, <2>2
  <2>4. PICK y \in Slab \union {NULL} : y = s
    BY <2>1
  <2>5. PICK x \in Slab \union {NULL} : x = top_slab
    BY <2>1
  <2>6. /\ Set(l, x, y) \in [Slab -> Slab \union {NULL}]
        /\ \A z \in Slab : Set(l, x, y)[z] = IF z = x THEN y ELSE l[z]
    BY <2>3, <2>4, <2>5, SetIs
  <2>7. up' = Set(l, x, y)
    BY <2>3, <2>4, <2>5
  <2>. QED BY <1>10, <2>2, <2>4, <2>5, <2>6, <2>7
<1>12. Distinct(Append(a, s)) /\ LinkedBy(up', down', Append(a, s), s)
  <2>1. up'[s] = NULL /\ down'[s] = top_slab /\ (top_slab # NULL => up'[top_slab] = s)
    BY <1>6, <1>8, <1>10, <1>11
  <2>2. \A x \in ToSet(a) : (x # top_slab => up'[x] = up[x]) /\ down'[x] = down[x]
    BY <1>3, <1>8, <1>10, <1>11
  <2>3. Pushed(up, down, up', down', a, top_slab, s)
    BY <1>2, <1>6, <1>8, <2>1, <2>2 DEF Pushed
  <2>. QED BY <2>3, PushIsLinked
<1>13. Distinct(RemoveAt(r, i)) /\ LinkedBy(up', down', RemoveAt(r, i), top_recycled_slab')
  <2>1. \A x \in ToSet(r) \ {s} :
           /\ up'[x] = IF x = down[s] THEN up[s] ELSE up[x]
           /\ down'[x] = IF x = up[s] THEN down[s] ELSE down[x]
    BY <1>3, <1>8, <1>10, <1>11
  <2>2. Removed(up, down, up', down', r, top_recycled_slab, r[i])
    BY <1>2, <2>1 DEF Removed, s
  <2>3. /\ Distinct(RemoveAt(r, i))
        /\ LinkedBy(up', down', RemoveAt(r, i),
                    IF top_recycled_slab = r[i] THEN down[r[i]] ELSE top_recycled_slab)
    BY <1>5, <2>2, RemoveIsLinked
  <2>. QED BY <1>7, <2>3 DEF s
<1>14. Leaves(Append(a, s), RemoveAt(r, i))
  BY <1>7, <1>10, <1>11, <1>12, <1>13 DEF Leaves
<1>15. Chain(top_slab)' = Append(a, s) /\ Chain(top_recycled_slab)' = RemoveAt(r, i)
  BY <1>14, LeavesChains
<1>16. Stack!AllocFromRecycled(size, align)
  BY <1>1, <1>4, <1>7, <1>15 DEF Stack!AllocFromRecycled, Stack!RemoveAt, RemoveAt, a, r, s
<1>. QED BY <1>14, <1>16

LEMMA AllocFollows ==
  ASSUME LinksInv, NEW size \in Sizes, NEW align \in Aligns, Alloc(size, align)
  PROVE  /\ Stack!Alloc(size, align)
         /\ \E a, r : Leaves(a, r)
<1>1. ~aborted /\ Len(live) < MaxLive
  BY DEF Alloc
<1>2. CASE AllocFromTop(size, align)
  BY <1>1, <1>2, AllocFromTopFollows DEF Stack!Alloc
<1>3. CASE AllocFromRecycled(size, align)
  BY <1>1, <1>3, AllocFromRecycledFollows DEF Stack!Alloc
<1>4. CASE AllocFromHost(size, align)
  BY <1>1, <1>4, AllocFromHostFollows DEF Stack!Alloc
<1>. QED BY <1>2, <1>3, <1>4 DEF Alloc

-----------------------------------------------------------------------------
(* Scopes.                                                                 *)

LEMMA PushFollows ==
  ASSUME LinksInv, PushScope
  PROVE  /\ Stack!PushScope
         /\ \E a, r : Leaves(a, r)
<1>1. UNCHANGED links
  BY DEF PushScope
<1>2. Stack!PushScope
  BY <1>1, LeftAlone, InvFacts DEF PushScope, Stack!PushScope, Stack!arenaVars
<1>. QED BY <1>1, <1>2, LeftAlone

\* The stack is put on top of the recycled slabs as it is.
LEMMA RecycleFollows ==
  ASSUME LinksInv, ~aborted, RecycleStack
  PROVE  /\ Leaves(<<>>, Chain(top_recycled_slab) \o Chain(top_slab))
         /\ aborted' = aborted
<1>. DEFINE a == Chain(top_slab)
            r == Chain(top_recycled_slab)
<1>1. /\ Distinct(a) /\ LinkedBy(up, down, a, top_slab)
      /\ Distinct(r) /\ LinkedBy(up, down, r, top_recycled_slab)
      /\ ToSet(a) \intersect ToSet(r) = {}
  BY InvFacts
<1>2. /\ top_recycled_slab \in ToSet(r) \union {NULL} /\ NULL \notin Slab
      /\ ToSet(a) \subseteq Slab /\ ToSet(r) \subseteq Slab
      /\ up \in [Slab -> Slab \union {NULL}] /\ down \in [Slab -> Slab \union {NULL}]
  BY ChainTypes
<1>3. aborted \in BOOLEAN
  BY DEF LinksInv, Calls!IInv, Calls!TypeOK
<1>4. /\ top_slab = NULL => UNCHANGED <<links, aborted>>
      /\ top_slab # NULL =>
           /\ down' = [down EXCEPT ![a[1]] = top_recycled_slab]
           /\ up' = Set(up, top_recycled_slab, a[1])
           /\ top_recycled_slab' = top_slab
           /\ top_slab' = NULL
           /\ aborted' = (UpOf(top_recycled_slab) # NULL)
  BY DEF RecycleStack
<1>. HIDE DEF a, r
<1>5. Distinct(<<>>) /\ LinkedBy(up', down', <<>>, NULL)
  BY EmptyIsLinked
<1>6. CASE top_slab = NULL
  <2>1. a = <<>>
    BY <1>1, <1>6, LinkedElements
  <2>2. r \o a = r
    BY <1>1, <2>1 DEF Distinct
  <2>3. Leaves(<<>>, r)
    BY <1>1, <1>2, <1>4, <1>5, <1>6 DEF Leaves, links
  <2>. QED BY <1>4, <1>6, <2>2, <2>3 DEF a, r
<1>7. CASE top_slab # NULL
  <2>. DEFINE n == Len(a)
  <2>1. /\ n \in Nat /\ n >= 1 /\ a # <<>> /\ top_slab = a[n] /\ 1 \in 1 .. n
        /\ \A i \in 1 .. n : a[i] \in Slab /\ a[i] \in ToSet(a)
        /\ \A i, j \in 1 .. n : a[i] = a[j] => i = j
    BY <1>1, <1>7, LinkedElements
  <2>2. UpOf(top_recycled_slab) = NULL
    BY <1>1, <1>2, Neighbours DEF UpOf
  <2>3. /\ up' \in [Slab -> Slab \union {NULL}]
        /\ \A x \in Slab : up'[x] = IF x = top_recycled_slab THEN a[1] ELSE up[x]
    <3>1. PICK y \in Slab \union {NULL} : y = a[1]
      BY <2>1
    <3>2. PICK x \in Slab \union {NULL} : x = top_recycled_slab
      BY <1>2
    <3>3. up' = Set(up, x, y)
      BY <1>4, <1>7, <3>1, <3>2
    <3>. QED BY <1>2, <3>1, <3>2, <3>3, SetIs
  <2>4. /\ down' \in [Slab -> Slab \union {NULL}]
        /\ \A x \in Slab : down'[x] = IF x = a[1] THEN top_recycled_slab ELSE down[x]
    BY <1>2, <1>4, <1>7, <2>1
  <2>5. \A i \in 1 .. n : a[i] # top_recycled_slab /\ a[i] \notin ToSet(r)
    BY <1>1, <1>2, <2>1
  <2>6. Joined(up, down, up', down', r, top_recycled_slab, a)
    <3>1. \A j \in 1 .. n : up'[a[j]] = IF j = n THEN NULL ELSE a[j + 1]
      BY <1>1, <2>1, <2>3, <2>5 DEF LinkedBy
    <3>2. \A j \in 1 .. n : down'[a[j]] = IF j = 1 THEN top_recycled_slab ELSE a[j - 1]
      BY <1>1, <2>1, <2>4 DEF LinkedBy
    <3>3. top_recycled_slab # NULL => up'[top_recycled_slab] = a[1]
      BY <1>2, <2>3
    <3>4. \A x \in ToSet(r) : (x # top_recycled_slab => up'[x] = up[x]) /\ down'[x] = down[x]
      BY <1>2, <2>1, <2>3, <2>4, <2>5
    <3>. QED BY <1>1, <2>1, <3>1, <3>2, <3>3, <3>4 DEF Joined
  <2>7. Distinct(r \o a) /\ LinkedBy(up', down', r \o a, top_slab)
    BY <2>1, <2>6, JoinIsLinked
  <2>8. Leaves(<<>>, r \o a)
    BY <1>4, <1>5, <1>7, <2>3, <2>4, <2>7 DEF Leaves
  <2>. QED BY <1>3, <1>4, <1>7, <2>2, <2>8 DEF a, r
<1>. QED BY <1>6, <1>7

\* What was above the scope's slab is put on top of the recycled slabs.
LEMMA CutFollows ==
  ASSUME LinksInv, ~aborted, NEW sc, NEW m \in DOMAIN Chain(top_slab),
         Chain(top_slab)[m] = sc.slab, PopAcrossSlabs(sc)
  PROVE  /\ Leaves(SubSeq(Chain(top_slab), 1, m),
                   Chain(top_recycled_slab) \o SubSeq(Chain(top_slab), m + 1, Len(Chain(top_slab))))
         /\ aborted' = aborted
<1>. DEFINE a == Chain(top_slab)
            r == Chain(top_recycled_slab)
            n == Len(a)
            b == SubSeq(a, m + 1, n)
<1>1. /\ Distinct(a) /\ LinkedBy(up, down, a, top_slab)
      /\ Distinct(r) /\ LinkedBy(up, down, r, top_recycled_slab)
      /\ ToSet(a) \intersect ToSet(r) = {}
  BY InvFacts
<1>2. /\ top_recycled_slab \in ToSet(r) \union {NULL} /\ NULL \notin Slab
      /\ ToSet(a) \subseteq Slab /\ ToSet(r) \subseteq Slab
      /\ up \in [Slab -> Slab \union {NULL}] /\ down \in [Slab -> Slab \union {NULL}]
  BY ChainTypes
<1>3. aborted \in BOOLEAN
  BY DEF LinksInv, Calls!IInv, Calls!TypeOK
<1>4. a[m] = sc.slab /\ m \in DOMAIN a
  OBVIOUS
<1>5. LET to_recycle == up[a[m]] IN
       IF to_recycle = NULL
         THEN UNCHANGED <<links, aborted>>
         ELSE LET below == down[to_recycle] IN
                /\ top_slab' = below
                /\ up' = CutAndJoinUp(below, to_recycle)
                /\ down' = JoinDown(to_recycle)
                /\ top_recycled_slab' = top_slab
                /\ aborted' = ~( /\ below # NULL => up[below] = to_recycle
                                 /\ up[top_slab] = NULL
                                 /\ UpOf(top_recycled_slab) = NULL )
  BY <1>4 DEF PopAcrossSlabs
<1>. HIDE DEF a, r
<1>6. /\ n \in Nat /\ n >= 1 /\ a # <<>> /\ top_slab = a[n] /\ m \in 1 .. n /\ m \in Nat
      /\ \A i \in 1 .. n : a[i] \in Slab /\ a[i] \in ToSet(a)
      /\ \A i, j \in 1 .. n : a[i] = a[j] => i = j
  BY <1>1, <1>4, LinkedElements
<1>7. /\ \A j \in 1 .. n : up[a[j]] = IF j = n THEN NULL ELSE a[j + 1]
      /\ \A j \in 1 .. n : down[a[j]] = IF j = 1 THEN NULL ELSE a[j - 1]
  BY <1>1 DEF LinkedBy
<1>8. CASE m = n
  <2>1. UNCHANGED <<links, aborted>>
    BY <1>5, <1>6, <1>7, <1>8
  <2>2. SubSeq(a, 1, m) = a
    BY <1>1, <1>8 DEF Distinct
  <2>3. b = <<>>
    BY <1>1, <1>6, <1>8 DEF Distinct
  <2>4. r \o b = r
    <3>1. r \o <<>> = r
      BY <1>1 DEF Distinct
    <3>. QED BY <2>3, <3>1
  <2>5. Leaves(a, r)
    BY <1>1, <1>2, <2>1 DEF Leaves, links
  <2>. QED BY <2>1, <2>2, <2>4, <2>5 DEF a, r
<1>9. CASE m # n
  <2>1. /\ m + 1 \in 1 .. n /\ up[a[m]] = a[m + 1] /\ a[m + 1] # NULL /\ down[a[m + 1]] = a[m]
        /\ up[a[n]] = NULL /\ a[m] # NULL
    <3>1. m + 1 \in 1 .. n /\ n \in 1 .. n /\ (m + 1) - 1 = m /\ m + 1 # 1
      BY <1>6, <1>9
    <3>. QED BY <1>2, <1>6, <1>7, <1>9, <3>1
  <2>2. /\ top_slab' = a[m]
        /\ up' = Set(Set(up, a[m], NULL), top_recycled_slab, a[m + 1])
        /\ down' = [down EXCEPT ![a[m + 1]] = top_recycled_slab]
        /\ top_recycled_slab' = a[n]
        /\ aborted' = ~(UpOf(top_recycled_slab) = NULL)
    BY <1>5, <1>6, <2>1 DEF CutAndJoinUp, JoinDown
  <2>3. UpOf(top_recycled_slab) = NULL
    BY <1>1, <1>2, Neighbours DEF UpOf
  <2>4. aborted' = aborted
    BY <1>3, <2>2, <2>3
  <2>5. \A i \in 1 .. n : a[i] # top_recycled_slab /\ a[i] \notin ToSet(r)
    BY <1>1, <1>2, <1>6
  <2>6. /\ up' \in [Slab -> Slab \union {NULL}]
        /\ \A x \in Slab : up'[x] = IF x = top_recycled_slab THEN a[m + 1]
                                    ELSE IF x = a[m] THEN NULL ELSE up[x]
    <3>1. PICK y \in Slab \union {NULL} : y = a[m + 1]
      BY <1>6, <2>1
    <3>2. PICK x \in Slab \union {NULL} : x = top_recycled_slab
      BY <1>2
    <3>3. PICK s \in Slab \union {NULL} : s = a[m]
      BY <1>6
    <3>4. PICK l : l = Set(up, s, NULL)
      OBVIOUS
    <3>5. l \in [Slab -> Slab \union {NULL}] /\ \A z \in Slab : l[z] = IF z = s THEN NULL ELSE up[z]
      BY <1>2, <3>3, <3>4, SetIs
    <3>6. up' = Set(l, x, y)
      BY <2>2, <3>1, <3>2, <3>3, <3>4
    <3>7. /\ Set(l, x, y) \in [Slab -> Slab \union {NULL}]
          /\ \A z \in Slab : Set(l, x, y)[z] = IF z = x THEN y ELSE l[z]
      BY <3>1, <3>2, <3>5, SetIs
    <3>. QED BY <3>6, <3>1, <3>2, <3>3, <3>5, <3>7
  <2>7. /\ down' \in [Slab -> Slab \union {NULL}]
        /\ \A x \in Slab : down'[x] = IF x = a[m + 1] THEN top_recycled_slab ELSE down[x]
    BY <1>2, <1>6, <2>1, <2>2
  <2>8. Cut(up, down, up', down', a, top_slab, m)
    <3>1. up'[a[m]] = NULL
      BY <1>6, <2>5, <2>6
    <3>2. \A i \in 1 .. m : i \in 1 .. n /\ (i # m => a[i] # a[m]) /\ a[i] # a[m + 1]
      BY <1>6, <2>1
    <3>3. \A i \in 1 .. m - 1 : up'[a[i]] = up[a[i]]
      <4>1. \A i \in 1 .. m - 1 : i \in 1 .. m /\ i # m
        BY <1>6
      <4>. QED BY <1>6, <2>5, <2>6, <3>2, <4>1
    <3>4. \A i \in 1 .. m : down'[a[i]] = down[a[i]]
      BY <1>6, <2>7, <3>2
    <3>. QED BY <1>1, <1>6, <3>1, <3>3, <3>4 DEF Cut
  <2>9. Distinct(SubSeq(a, 1, m)) /\ LinkedBy(up', down', SubSeq(a, 1, m), a[m])
    BY <2>8, PrefixIsLinked
  <2>10. /\ Distinct(b) /\ Len(b) = n - m /\ \A j \in 1 .. n - m : b[j] = a[m + j]
         /\ b # <<>> /\ ToSet(b) \subseteq ToSet(a)
    <3>1. a \in Seq(Slab) /\ IsInjective(a) /\ m \in 0 .. Len(a)
      BY <1>1, <1>6 DEF Distinct
    <3>2. Distinct(b) /\ ToSet(b) \subseteq ToSet(a)
      BY <3>1, SplitElements, SplitInjective DEF Distinct
    <3>3. Len(b) = n - m /\ \A j \in 1 .. n - m : b[j] = a[m + j]
      BY <3>1
    <3>4. n - m >= 1
      BY <1>6, <1>9
    <3>. HIDE DEF b
    <3>5. b # <<>>
      BY <3>3, <3>4
    <3>. QED BY <3>2, <3>3, <3>5
  <2>. HIDE DEF b, n
  <2>11. Joined(up, down, up', down', r, top_recycled_slab, b)
    <3>1. \A j \in 1 .. n - m : /\ m + j \in 1 .. n /\ m + j # m
                                /\ (m + j = n <=> j = n - m) /\ (m + j = m + 1 <=> j = 1)
                                /\ m + j # 1
                                /\ (j # n - m => j + 1 \in 1 .. n - m /\ (m + j) + 1 = m + (j + 1))
                                /\ (j # 1 => j - 1 \in 1 .. n - m /\ (m + j) - 1 = m + (j - 1))
      BY <1>6, <1>9
    <3>2. ASSUME NEW j \in 1 .. n - m
          PROVE  up'[b[j]] = IF j = n - m THEN NULL ELSE b[j + 1]
      <4>1. b[j] = a[m + j] /\ a[m + j] # a[m] /\ a[m + j] # top_recycled_slab /\ a[m + j] \in Slab
        BY <1>6, <2>5, <2>10, <3>1
      <4>2. up'[a[m + j]] = up[a[m + j]]
        BY <2>6, <4>1
      <4>3. up[a[m + j]] = IF m + j = n THEN NULL ELSE a[(m + j) + 1]
        BY <1>7, <3>1
      <4>4. j # n - m => b[j + 1] = a[(m + j) + 1]
        BY <2>10, <3>1
      <4>. QED BY <3>1, <4>1, <4>2, <4>3, <4>4
    <3>3. ASSUME NEW j \in 1 .. n - m
          PROVE  down'[b[j]] = IF j = 1 THEN top_recycled_slab ELSE b[j - 1]
      <4>1. b[j] = a[m + j] /\ (a[m + j] = a[m + 1] <=> j = 1) /\ a[m + j] \in Slab
        BY <1>6, <2>1, <2>10, <3>1
      <4>2. down[a[m + j]] = a[(m + j) - 1]
        BY <1>7, <3>1
      <4>3. j # 1 => b[j - 1] = a[(m + j) - 1]
        BY <2>10, <3>1
      <4>. QED BY <2>7, <4>1, <4>2, <4>3
    <3>4. top_recycled_slab # NULL => up'[top_recycled_slab] = b[1]
      <4>1. b[1] = a[m + 1]
        BY <1>6, <1>9, <2>10
      <4>. QED BY <1>2, <2>6, <4>1
    <3>5. \A x \in ToSet(r) : (x # top_recycled_slab => up'[x] = up[x]) /\ down'[x] = down[x]
      <4>1. \A x \in ToSet(r) : x \in Slab /\ x # a[m] /\ x # a[m + 1]
        BY <1>2, <1>6, <2>1, <2>5
      <4>. QED BY <2>6, <2>7, <4>1
    <3>6. ToSet(r) \intersect ToSet(b) = {}
      BY <1>1, <2>10
    <3>. QED BY <1>1, <2>10, <3>2, <3>3, <3>4, <3>5, <3>6 DEF Joined
  <2>12. Distinct(r \o b) /\ LinkedBy(up', down', r \o b, a[n])
    <3>1. b[Len(b)] = a[n]
      <4>1. n - m \in 1 .. n - m /\ m + (n - m) = n
        BY <1>6, <1>9
      <4>. QED BY <2>10, <4>1
    <3>. QED BY <2>11, <3>1, JoinIsLinked
  <2>13. Leaves(SubSeq(a, 1, m), r \o b)
    BY <2>2, <2>6, <2>7, <2>9, <2>12 DEF Leaves
  <2>. QED BY <2>4, <2>13 DEF a, r, b, n
<1>. QED BY <1>8, <1>9

\* The slab of an open scope is in the stack.
LEMMA ScopeInStack ==
  ASSUME LinksInv, NEW k \in DOMAIN scopes, scopes[k].slab # NULL
  PROVE  \E m \in DOMAIN Chain(top_slab) :
           Chain(top_slab)[m] = scopes[k].slab /\ Stack!Depth(scopes[k]) = m
<1>1. PICK m \in DOMAIN Chain(top_slab) : Chain(top_slab)[m] = scopes[k].slab
  BY DEF LinksInv, Calls!IInv, Calls!ScopesCover, Calls!ScopeCovers, Calls!Covers
<1>2. \A i \in DOMAIN Chain(top_slab) : Chain(top_slab)[i] = scopes[k].slab => i = m
  BY <1>1, InvFacts, LinkedElements
<1>3. Stack!Depth(scopes[k]) = m
  BY <1>1, <1>2 DEF Stack!Depth
<1>. QED BY <1>1, <1>3

LEMMA PopFollows ==
  ASSUME LinksInv, NEW k \in DOMAIN scopes, PopScope(k)
  PROVE  /\ Stack!PopScope(k)
         /\ \E a, r : Leaves(a, r)
<1>. DEFINE sc == scopes[k]
<1>1. /\ ~aborted /\ live' = SubSeq(live, 1, sc.mark) /\ scopes' = SubSeq(scopes, 1, k - 1)
      /\ UNCHANGED cap
      /\ \/ PopWithinSlab(sc) \/ PopWithoutRecycling(sc) \/ PopToEmpty(sc) \/ PopAcrossSlabs(sc)
  BY DEF PopScope
<1>2. WithinSlab(sc) <=> Stack!WithinSlab(sc)
  BY InvFacts DEF WithinSlab, Stack!WithinSlab
<1>3. sc.slab # NULL => \E m \in DOMAIN Chain(top_slab) :
                          Chain(top_slab)[m] = sc.slab /\ Stack!Depth(sc) = m
  BY ScopeInStack
<1>. HIDE DEF sc
<1>4. CASE PopWithinSlab(sc)
  <2>1. UNCHANGED links
    BY <1>4 DEF PopWithinSlab
  <2>2. Stack!PopWithinSlab(sc)
    BY <1>2, <1>4, <2>1, LeftAlone DEF PopWithinSlab, Stack!PopWithinSlab
  <2>. QED BY <1>1, <2>1, <2>2, LeftAlone DEF Stack!PopScope, sc
<1>5. CASE PopWithoutRecycling(sc)
  <2>1. UNCHANGED links
    BY <1>5 DEF PopWithoutRecycling
  <2>2. Stack!PopWithoutRecycling(sc)
    BY <1>2, <1>5, <2>1, LeftAlone DEF PopWithoutRecycling, Stack!PopWithoutRecycling
  <2>. QED BY <1>1, <2>1, <2>2, LeftAlone DEF Stack!PopScope, sc
<1>6. CASE PopToEmpty(sc)
  <2>1. /\ Leaves(<<>>, Chain(top_recycled_slab) \o Chain(top_slab)) /\ aborted' = aborted
    BY <1>1, <1>6, RecycleFollows DEF PopToEmpty
  <2>2. Stack!PopToEmpty(sc)
    BY <1>2, <1>6, <2>1, LeavesChains DEF PopToEmpty, Stack!PopToEmpty
  <2>. QED BY <1>1, <2>1, <2>2 DEF Stack!PopScope, sc
<1>7. CASE PopAcrossSlabs(sc)
  <2>1. PICK m \in DOMAIN Chain(top_slab) : Chain(top_slab)[m] = sc.slab /\ Stack!Depth(sc) = m
    BY <1>3, <1>7 DEF PopAcrossSlabs
  <2>2. /\ Leaves(SubSeq(Chain(top_slab), 1, m),
                  Chain(top_recycled_slab) \o SubSeq(Chain(top_slab), m + 1, Len(Chain(top_slab))))
        /\ aborted' = aborted
    BY <1>1, <1>7, <2>1, CutFollows
  <2>3. Stack!PopAcrossSlabs(sc)
    BY <1>2, <1>7, <2>1, <2>2, LeavesChains DEF PopAcrossSlabs, Stack!PopAcrossSlabs, Stack!Above
  <2>. QED BY <1>1, <2>2, <2>3 DEF Stack!PopScope, sc
<1>. QED BY <1>1, <1>4, <1>5, <1>6, <1>7

-----------------------------------------------------------------------------
(* Giving memory back.                                                     *)

LEMMA NothingAbove ==
  ASSUME LinksInv
  PROVE  top_recycled_slab = NULL <=> Chain(top_recycled_slab) = <<>>
BY InvFacts, LinkedElements

LEMMA FreeRecycledFollows ==
  ASSUME LinksInv, FreeRecycled
  PROVE  /\ Stack!FreeRecycled
         /\ \E a, r : Leaves(a, r)
<1>1. /\ ~aborted /\ UNCHANGED <<up, down, top_slab, current_offset, live, scopes>>
  BY DEF FreeRecycled
<1>2. CASE NoRecycle
  <2>1. UNCHANGED links /\ UNCHANGED cap /\ aborted' = (top_recycled_slab # NULL)
    BY <1>1, <1>2 DEF FreeRecycled, links
  <2>2. Stack!FreeRecycled
    BY <1>1, <1>2, <2>1, LeftAlone, NothingAbove DEF Stack!FreeRecycled
  <2>. QED BY <2>1, <2>2, LeftAlone
<1>3. CASE ~NoRecycle
  <2>1. /\ Stack!FreeSlabs(Chain(top_recycled_slab)) /\ top_recycled_slab' = NULL
        /\ UNCHANGED aborted
    BY <1>3 DEF FreeRecycled
  <2>2. Distinct(<<>>) /\ LinkedBy(up', down', <<>>, NULL)
    BY EmptyIsLinked
  <2>3. Leaves(Chain(top_slab), <<>>)
    BY <1>1, <2>1, <2>2, InvFacts, ChainTypes DEF Leaves
  <2>4. Stack!FreeRecycled
    BY <1>1, <1>3, <2>1, <2>3, LeavesChains DEF Stack!FreeRecycled
  <2>. QED BY <2>3, <2>4
<1>. QED BY <1>2, <1>3

LEMMA RecycleAllFollows ==
  ASSUME LinksInv, RecycleAll
  PROVE  /\ Stack!RecycleAll
         /\ \E a, r : Leaves(a, r)
<1>1. /\ Leaves(<<>>, Chain(top_recycled_slab) \o Chain(top_slab)) /\ aborted' = aborted
  BY RecycleFollows DEF RecycleAll
<1>2. Stack!RecycleAll
  BY <1>1, LeavesChains DEF RecycleAll, Stack!RecycleAll
<1>. QED BY <1>1, <1>2

LEMMA FreeAllFollows ==
  ASSUME LinksInv, FreeAll
  PROVE  /\ Stack!FreeAll
         /\ \E a, r : Leaves(a, r)
<1>1. /\ ~aborted /\ UNCHANGED <<up, down>> /\ top_slab' = NULL
      /\ current_offset' = 0 /\ live' = <<>> /\ scopes' = <<>>
  BY DEF FreeAll
<1>2. Distinct(<<>>) /\ LinkedBy(up', down', <<>>, NULL)
  BY EmptyIsLinked
<1>3. CASE NoRecycle
  <2>1. /\ Stack!FreeSlabs(Chain(top_slab)) /\ aborted' = (top_recycled_slab # NULL)
        /\ UNCHANGED top_recycled_slab
    BY <1>3 DEF FreeAll
  <2>2. Leaves(<<>>, Chain(top_recycled_slab))
    BY <1>1, <1>2, <2>1, InvFacts, ChainTypes DEF Leaves
  <2>3. Stack!FreeAll
    BY <1>1, <1>3, <2>1, <2>2, LeavesChains, NothingAbove DEF Stack!FreeAll
  <2>. QED BY <2>2, <2>3
<1>4. CASE ~NoRecycle
  <2>1. /\ Stack!FreeSlabs(Chain(top_slab) \o Chain(top_recycled_slab)) /\ top_recycled_slab' = NULL
        /\ UNCHANGED aborted
    BY <1>4 DEF FreeAll
  <2>2. Leaves(<<>>, <<>>)
    BY <1>1, <1>2, <2>1, ChainTypes DEF Leaves
  <2>3. Stack!FreeAll
    BY <1>1, <1>4, <2>1, <2>2, LeavesChains DEF Stack!FreeAll
  <2>. QED BY <2>2, <2>3
<1>. QED BY <1>3, <1>4

-----------------------------------------------------------------------------
(* The theorems.                                                           *)

LEMMA InitFollows == Init => Stack!Init /\ LinksInv
<1>. SUFFICES ASSUME Init PROVE Stack!Init /\ LinksInv
  OBVIOUS
<1>1. Chain(NULL) = <<>> /\ LinkedBy(up, down, <<>>, NULL)
  BY EmptyIsLinked, ChainIs, ChainIsBy
<1>2. Stack!Init /\ Calls!Init
  BY <1>1 DEF Init, Stack!Init, Calls!Init
<1>3. Calls!IInv
  <2>1. Calls!ArenaAssumption
    BY ArenaLinksAssumption DEF Stack!ArenaAssumption, Calls!ArenaAssumption
  <2>. QED BY <1>2, <2>1, Calls!InitIInv
<1>. QED BY <1>1, <1>2, <1>3 DEF Init, LinksInv

LEMMA StepFollows == LinksInv /\ [Next]_vars => [Stack!Next]_(Stack!vars) /\ LinksInv'
<1>. SUFFICES ASSUME LinksInv, [Next]_vars PROVE [Stack!Next]_(Stack!vars) /\ LinksInv'
  OBVIOUS
<1>1. ASSUME Stack!Next, \E a, r : Leaves(a, r)
      PROVE  [Stack!Next]_(Stack!vars) /\ LinksInv'
  BY <1>1, LeavesKeepsInv
<1>2. ASSUME NEW size \in Sizes, NEW align \in Aligns, Alloc(size, align)
      PROVE  [Stack!Next]_(Stack!vars) /\ LinksInv'
  BY <1>1, <1>2, AllocFollows DEF Stack!Next
<1>3. CASE PushScope
  BY <1>1, <1>3, PushFollows DEF Stack!Next
<1>4. ASSUME NEW k \in DOMAIN scopes, PopScope(k)
      PROVE  [Stack!Next]_(Stack!vars) /\ LinksInv'
  BY <1>1, <1>4, PopFollows DEF Stack!Next
<1>5. CASE FreeRecycled
  BY <1>1, <1>5, FreeRecycledFollows DEF Stack!Next
<1>6. CASE RecycleAll
  BY <1>1, <1>6, RecycleAllFollows DEF Stack!Next
<1>7. CASE FreeAll
  BY <1>1, <1>7, FreeAllFollows DEF Stack!Next
<1>8. CASE UNCHANGED vars
  <2>1. /\ UNCHANGED links /\ UNCHANGED <<current_offset, cap, aborted, live, scopes>>
    BY <1>8 DEF vars
  <2>2. UNCHANGED Stack!vars
    BY <2>1, LeftAlone DEF Stack!vars
  <2>3. UNCHANGED Calls!vars
    BY <2>1, LeftAlone DEF Calls!vars
  <2>4. Calls!IInv'
    <3>1. Calls!ArenaAssumption
      BY ArenaLinksAssumption DEF Stack!ArenaAssumption, Calls!ArenaAssumption
    <3>2. [Calls!Next]_(Calls!vars) /\ Calls!IInv
      BY <2>3 DEF LinksInv
    <3>. QED BY <3>1, <3>2, Calls!NextKeepsIInv
  <2>5. LinksInv'
    BY <2>1, <2>4, LeftAlone DEF LinksInv, links
  <2>. QED BY <2>2, <2>5
<1>. QED BY <1>2, <1>3, <1>4, <1>5, <1>6, <1>7, <1>8 DEF Next

\* The pointers of both chains agree in every state the calls can reach, and what
\* is known of Arena's sequences is true of the chains they make.
THEOREM LinksInvariant == Spec => []LinksInv
BY InitFollows, StepFollows, PTL DEF Spec

\* What the calls do to up, down, top_slab and top_recycled_slab is what Arena
\* says they do to two sequences, for every number of slabs and every way slabs
\* are taken out of the middle of the recycled chain and put back (base.c 746-1003).
THEOREM LinksImplementArena == Spec => ImplementsArena
<1>1. LinksInv /\ [Next]_vars => [Stack!Next]_(Stack!vars)
  BY StepFollows
<1>2. Init => Stack!Init
  BY InitFollows
<1>. QED BY <1>1, <1>2, LinksInvariant, PTL DEF Spec, ImplementsArena, Stack!Spec

\* No assertion on the links fails, and both chains can be followed in both
\* directions; a host that does not recycle is left out, because a scope popped
\* there aborts (base.c 785-827, 880-990).
THEOREM LinksSound == ~NoRecycle => (Spec => []LinksAreSound)
<1>. SUFFICES ASSUME ~NoRecycle PROVE Spec => []LinksAreSound
  OBVIOUS
<1>1. LinksInv => LinksAgree
  <2>. SUFFICES ASSUME LinksInv, NEW top \in {top_slab, top_recycled_slab}
                PROVE  /\ UpOf(top) = NULL
                       /\ \A i \in 1 .. Len(Chain(top)) - 1 : up[Chain(top)[i]] = Chain(top)[i + 1]
    BY DEF LinksAgree
  <2>. DEFINE a == Chain(top)
  <2>1. Distinct(a) /\ LinkedBy(up, down, a, top)
    BY InvFacts
  <2>. HIDE DEF a
  <2>2. Len(a) \in Nat /\ (top # NULL => top \in ToSet(a))
    BY <2>1, LinkedElements
  <2>3. UpOf(top) = NULL
    BY <2>1, <2>2, Neighbours DEF UpOf
  <2>4. \A i \in 1 .. Len(a) - 1 : up[a[i]] = a[i + 1]
    BY <2>1, <2>2 DEF LinkedBy
  <2>. QED BY <2>3, <2>4 DEF a
<1>2. ~aborted /\ [Stack!Next]_(Stack!vars) => ~aborted'
  <2>. SUFFICES ASSUME ~aborted, [Stack!Next]_(Stack!vars) PROVE ~aborted'
    OBVIOUS
  <2>1. ASSUME NEW size, NEW align, Stack!Alloc(size, align) PROVE ~aborted'
    BY <2>1 DEF Stack!Alloc, Stack!AllocFromTop, Stack!AllocFromRecycled, Stack!AllocFromHost
  <2>2. ASSUME NEW k, Stack!PopScope(k) PROVE ~aborted'
    BY <2>2 DEF Stack!PopScope, Stack!PopWithinSlab, Stack!PopWithoutRecycling, Stack!PopToEmpty,
                Stack!PopAcrossSlabs
  <2>3. Stack!PushScope \/ Stack!FreeRecycled \/ Stack!RecycleAll \/ Stack!FreeAll => ~aborted'
    BY DEF Stack!PushScope, Stack!FreeRecycled, Stack!RecycleAll, Stack!FreeAll, Stack!arenaVars
  <2>. QED BY <2>1, <2>2, <2>3 DEF Stack!Next, Stack!vars
<1>3. LinksInv /\ ~aborted /\ [Next]_vars => ~aborted'
  BY <1>2, StepFollows
<1>4. Init => ~aborted
  BY DEF Init
<1>5. LinksInv /\ ~aborted => LinksAreSound
  BY <1>1 DEF LinksAreSound, NoAssertionFails
<1>. QED BY <1>3, <1>4, <1>5, LinksInvariant, PTL DEF Spec
=============================================================================
