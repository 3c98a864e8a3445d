-------------------------- MODULE CombinatorProofs --------------------------
(***************************************************************************)
(* What mirv.c counts on the tree of a combinator is enough for the walk   *)
(* that makes its instruction stream, for every tree.                      *)
(*                                                                         *)
(* The argument compares what the walk has appended with what the nodes up *)
(* to its place were counted for.  What is skipped was counted, too, so    *)
(* the walk can only be behind; it skips a whole lambda at a time, whose   *)
(* end exists since the tree is well nested.                               *)
(*                                                                         *)
(* That nothing escapes from a lambda is shown from the numbers of the     *)
(* symbols, which rise along the stream and the stack: what is left on the *)
(* stack when a lambda ends has lower ones than what the lambda defines.   *)
(*                                                                         *)
(* That names are bound lexically is shown from heights: how many lambdas  *)
(* are open at a place.  A definition is visible as long as the height has *)
(* not fallen below that of its scope, which the depths on the stack are.  *)
(***************************************************************************)
EXTENDS Combinator, ChainLemmas, SequenceTheorems

-----------------------------------------------------------------------------
(* Sums and counts over the first p places.                                *)

Total(f, p) == SumFunctionOnSet(f, 1 .. p)

AreNats(f, n) == \A i \in 1 .. n : f[i] \in Nat

LEMMA TotalGrows ==
  ASSUME NEW n \in Nat, NEW f, AreNats(f, n)
  PROVE  /\ Total(f, 0) = 0
         /\ \A p \in 1 .. n : Total(f, p) = f[p] + Total(f, p - 1)
         /\ \A p \in 0 .. n : Total(f, p) \in Int
<1>1. Total(f, 0) = 0
  <2>1. 1 .. 0 = {}
    OBVIOUS
  <2>. QED BY <2>1, SumEmpty DEF Total
<1>2. ASSUME NEW p \in 0 .. n
      PROVE  Total(f, p) \in Int /\ (p # 0 => Total(f, p) = f[p] + Total(f, p - 1))
  <2>1. PICK S : S = 1 .. p
    OBVIOUS
  <2>2. IsFiniteSet(S) /\ \A x \in S : f[x] \in Int
    BY <2>1, FS_Interval DEF AreNats
  <2>3. SumFunctionOnSet(f, S) \in Int /\ \A x \in S : SumFunctionOnSet(f, S) = f[x] + SumFunctionOnSet(f, S \ {x})
    BY <2>2, SumOut
  <2>4. p # 0 => p \in S /\ S \ {p} = 1 .. p - 1
    BY <2>1
  <2>. QED BY <2>1, <2>3, <2>4 DEF Total
<1>3. \A p \in 1 .. n : p \in 0 .. n /\ p # 0
  OBVIOUS
<1>. QED BY <1>1, <1>2, <1>3

\* Of two sums that grow, the one whose values are nowhere greater stays behind.
LEMMA Behind ==
  ASSUME NEW n \in Nat, NEW F, NEW G, \A p \in 0 .. n : F[p] \in Int /\ G[p] \in Int,
         NEW m \in 0 .. n, F[m] <= G[m],
         \A p \in m + 1 .. n : F[p] - F[p - 1] <= G[p] - G[p - 1]
  PROVE  \A p \in m .. n : F[p] <= G[p]
<1>. DEFINE Bad == {p \in m .. n : ~(F[p] <= G[p])}
<1>1. SUFFICES ASSUME Bad # {} PROVE FALSE
  OBVIOUS
<1>2. PICK p \in Bad : \A q \in Bad : p <= q
  <2>1. Bad \in SUBSET Nat
    OBVIOUS
  <2>. QED BY <1>1, <2>1, LeastNat
<1>3. p \in m .. n /\ p # m
  BY <1>2
<1>4. p - 1 \in m .. n /\ p - 1 \notin Bad /\ p \in m + 1 .. n /\ p \in 0 .. n /\ p - 1 \in 0 .. n
  BY <1>2, <1>3
<1>5. F[p - 1] <= G[p - 1] /\ F[p] - F[p - 1] <= G[p] - G[p - 1]
  BY <1>4
<1>6. F[p] \in Int /\ G[p] \in Int /\ F[p - 1] \in Int /\ G[p - 1] \in Int
  BY <1>4
<1>7. F[p] <= G[p]
  BY <1>5, <1>6
<1>. QED BY <1>2, <1>7

LEMMA TotalsAreOrdered ==
  ASSUME NEW n \in Nat, NEW f, AreNats(f, n), NEW p \in 0 .. n, NEW q \in p .. n
  PROVE  Total(f, p) \in Nat /\ Total(f, q) \in Nat /\ Total(f, p) <= Total(f, q)
<1>. DEFINE F(m) == [k \in 0 .. n |-> IF k <= m THEN Total(f, k) ELSE Total(f, m)]
            G == [k \in 0 .. n |-> Total(f, k)]
<1>1. /\ Total(f, 0) = 0
      /\ \A k \in 1 .. n : Total(f, k) = f[k] + Total(f, k - 1)
      /\ \A k \in 0 .. n : Total(f, k) \in Int
  BY TotalGrows
<1>. HIDE DEF Total
<1>2. ASSUME NEW m \in 0 .. n, NEW k \in m .. n
      PROVE  Total(f, m) <= Total(f, k)
  <2>1. PICK A, B : A = F(m) /\ B = G
    OBVIOUS
  <2>2. \A j \in 0 .. n : A[j] \in Int /\ B[j] \in Int
    BY <1>1, <2>1
  <2>3. A[m] <= B[m]
    BY <1>1, <2>1
  <2>4. ASSUME NEW j \in m + 1 .. n PROVE A[j] - A[j - 1] <= B[j] - B[j - 1]
    <3>1. j \in 1 .. n /\ j - 1 \in 0 .. n /\ j \in 0 .. n /\ ~(j <= m) /\ (j - 1 <= m => j - 1 = m)
      OBVIOUS
    <3>2. A[j] = Total(f, m) /\ A[j - 1] = Total(f, m)
      BY <2>1, <3>1
    <3>3. B[j] = f[j] + B[j - 1]
      BY <1>1, <2>1, <3>1
    <3>4. f[j] \in Nat /\ B[j - 1] \in Int /\ Total(f, m) \in Int
      BY <1>1, <2>2, <3>1 DEF AreNats
    <3>. QED BY <3>2, <3>3, <3>4
  <2>5. A[k] <= B[k]
    BY <2>2, <2>3, <2>4, Behind
  <2>6. B[k] = Total(f, k) /\ A[k] = Total(f, m)
    <3>1. k \in 0 .. n /\ (k <= m => k = m)
      OBVIOUS
    <3>. QED BY <2>1, <3>1
  <2>. QED BY <2>5, <2>6
<1>3. 0 \in 0 .. n /\ p \in 0 .. n /\ q \in 0 .. n
  OBVIOUS
<1>4. 0 <= Total(f, p) /\ 0 <= Total(f, q)
  BY <1>1, <1>2, <1>3
<1>. QED BY <1>1, <1>2, <1>3, <1>4

\* KindsIn and Open for any sequence of nodes.
KindsOf(q, p, kind) == Cardinality({i \in 1 .. p : q[i].kind = kind})
OpenOf(q, p) == KindsOf(q, p, "lambda") - KindsOf(q, p, "close")

LEMMA KindsGrow ==
  ASSUME NEW q, NEW p \in Nat, NEW kind
  PROVE  /\ KindsOf(q, p, kind) \in Nat
         /\ p = 0 => KindsOf(q, p, kind) = 0
         /\ p # 0 => KindsOf(q, p, kind) =
                       KindsOf(q, p - 1, kind) + IF q[p].kind = kind THEN 1 ELSE 0
<1>. DEFINE At(k) == {i \in 1 .. k : q[i].kind = kind}
<1>1. \A k \in Nat : IsFiniteSet(At(k)) /\ Cardinality(At(k)) \in Nat
  <2>. TAKE k \in Nat
  <2>1. IsFiniteSet(1 .. k)
    BY FS_Interval
  <2>. QED BY <2>1, FS_Subset, FS_CardinalityType
<1>2. p = 0 => At(p) = {}
  OBVIOUS
<1>3. ASSUME p # 0
      PROVE  Cardinality(At(p)) = Cardinality(At(p - 1)) + IF q[p].kind = kind THEN 1 ELSE 0
  <2>1. PICK S, T : S = At(p - 1) /\ T = At(p)
    OBVIOUS
  <2>2. p - 1 \in Nat /\ p \notin S
    BY <1>3, <2>1
  <2>3. IsFiniteSet(S) /\ Cardinality(S) \in Nat
    BY <1>1, <2>1, <2>2
  <2>4. CASE q[p].kind = kind
    <3>1. T = S \union {p}
      BY <1>3, <2>1, <2>4
    <3>2. Cardinality(T) = Cardinality(S) + 1
      BY <2>2, <2>3, <3>1, FS_AddElement
    <3>. HIDE DEF At
    <3>. QED BY <2>1, <2>4, <3>2
  <2>5. CASE q[p].kind # kind
    <3>1. T = S
      BY <1>3, <2>1, <2>5
    <3>. HIDE DEF At
    <3>. QED BY <2>1, <2>3, <2>5, <3>1
  <2>. QED BY <2>4, <2>5
<1>. QED BY <1>1, <1>2, <1>3, FS_EmptySet DEF KindsOf

LEMMA OpenGrows ==
  ASSUME NEW q, NEW p \in Nat
  PROVE  /\ OpenOf(q, p) \in Int
         /\ p = 0 => OpenOf(q, p) = 0
         /\ p # 0 => OpenOf(q, p) = OpenOf(q, p - 1) +
                       (IF q[p].kind = "lambda" THEN 1 ELSE IF q[p].kind = "close" THEN -1 ELSE 0)
<1>1. p # 0 => p - 1 \in Nat
  OBVIOUS
<1>2. /\ KindsOf(q, p, "lambda") \in Nat /\ KindsOf(q, p, "close") \in Nat
      /\ p = 0 => KindsOf(q, p, "lambda") = 0 /\ KindsOf(q, p, "close") = 0
  BY KindsGrow
<1>3. p # 0 => /\ KindsOf(q, p, "lambda") = KindsOf(q, p - 1, "lambda") + IF q[p].kind = "lambda" THEN 1 ELSE 0
               /\ KindsOf(q, p, "close") = KindsOf(q, p - 1, "close") + IF q[p].kind = "close" THEN 1 ELSE 0
               /\ KindsOf(q, p - 1, "lambda") \in Nat /\ KindsOf(q, p - 1, "close") \in Nat
  BY <1>1, KindsGrow
<1>. QED BY <1>2, <1>3 DEF OpenOf

LEMMA SamePrefix ==
  ASSUME NEW q, NEW r, NEW p \in Nat, \A i \in 1 .. p : q[i] = r[i]
  PROVE  OpenOf(q, p) = OpenOf(r, p)
<1>1. ASSUME NEW kind PROVE KindsOf(q, p, kind) = KindsOf(r, p, kind)
  <2>1. {i \in 1 .. p : q[i].kind = kind} = {i \in 1 .. p : r[i].kind = kind}
    OBVIOUS
  <2>. QED BY <2>1 DEF KindsOf
<1>. QED BY <1>1 DEF OpenOf

LEMMA MinOf ==
  ASSUME NEW S \in SUBSET Nat, S # {}
  PROVE  Min(S) \in S /\ \A x \in S : Min(S) <= x
<1>1. \E x \in S : \A y \in S : x =< y
  BY LeastNat
<1>. QED BY <1>1 DEF Min

LEMMA MaxIsTop ==
  ASSUME NEW n \in Nat, NEW S \in SUBSET (0 .. n), S # {}
  PROVE  Max(S) \in S /\ \A x \in S : x <= Max(S)
<1>. DEFINE T == {m \in Nat : n - m \in S}
<1>1. PICK m \in T : \A k \in T : m <= k
  <2>1. PICK x \in S : TRUE
    OBVIOUS
  <2>2. n - x \in Nat /\ n - (n - x) = x
    BY <2>1
  <2>3. T \in SUBSET Nat /\ T # {}
    BY <2>1, <2>2
  <2>. HIDE DEF T
  <2>. QED BY <2>3, LeastNat
<1>2. ASSUME NEW y \in S PROVE y <= n - m
  <2>1. y \in 0 .. n /\ n - y \in Nat /\ n - (n - y) = y
    OBVIOUS
  <2>2. n - y \in T
    BY <2>1
  <2>3. m \in Nat /\ m <= n - y
    BY <1>1, <2>2
  <2>. QED BY <2>1, <2>3
<1>3. n - m \in S /\ \A y \in S : y \in Int
  BY <1>1
<1>4. \E x \in S : \A y \in S : x >= y
  BY <1>2, <1>3
<1>5. Max(S) \in S /\ \A y \in S : Max(S) >= y
  BY <1>4 DEF Max
<1>. QED BY <1>3, <1>5

LEMMA MaxOf ==
  ASSUME NEW n \in Nat, NEW S \in SUBSET (0 .. n), S # {}
  PROVE  Max(S) \in S
BY MaxIsTop

-----------------------------------------------------------------------------
(* The tree.                                                               *)

Node == Invocation \union Lambda \union {Close}

\* A tree that is read: no node closes a lambda that is not open.
TreeOK ==
  /\ args \in Seq(Decl)
  /\ body \in Seq(Node)
  /\ \A p \in 0 .. Len(body) : Open(p) >= 0

\* What is counted for a node.
InstsAt == [i \in DOMAIN body |-> InstsOf(body[i])]
SymbolsAt == [i \in DOMAIN body |-> SymbolsOf(body[i])]

\* What the walk appends for a node it does not skip.
AppendedOf(n) == IF n.kind = "lambda" THEN 1 + Len(n.params) ELSE InstsOf(n)
AppendedAt == [i \in DOMAIN body |-> AppendedOf(body[i])]

LEMMA BoundedSeqs ==
  ASSUME NEW S, NEW n \in Nat, NEW q \in BoundedSeq(S, n)
  PROVE  q \in Seq(S) /\ Len(q) \in 0 .. n
<1>1. PICK m \in 0 .. n : q \in [1 .. m -> S]
  BY DEF BoundedSeq, SeqOf
<1>. QED BY <1>1

LEMMA NodeKinds ==
  ASSUME NEW n \in Node
  PROVE  /\ n.kind \in {"invocation", "lambda", "close"}
         /\ n.kind = "invocation" => n \in Invocation
         /\ n.kind = "lambda" => n \in Lambda /\ n.params \in Seq(Decl) /\ n.dest \in Decl /\ n.dest # NoDecl
<1>1. CASE n \in Invocation
  BY <1>1 DEF Invocation
<1>2. CASE n \in Lambda
  <2>1. n.kind = "lambda" /\ n.params \in BoundedSeq(Decl, MaxParams) /\ n.dest \in Decl
    BY <1>2 DEF Lambda
  <2>2. n.params \in Seq(Decl)
    BY <2>1, BoundedSeqs, CombinatorAssumption
  <2>3. n.dest.name \in Name /\ NoDecl.name = ""
    BY <2>1 DEF Decl, NoDecl
  <2>4. n.dest # NoDecl
    BY <2>3, CombinatorAssumption
  <2>. QED BY <1>2, <2>1, <2>2, <2>4
<1>3. CASE n = Close
  BY <1>3 DEF Close
<1>. QED BY <1>1, <1>2, <1>3 DEF Node

\* What one node counts for.
LEMMA NodeCounts ==
  ASSUME NEW n \in Node
  PROVE  /\ InstsOf(n) \in Nat /\ SymbolsOf(n) \in Nat /\ AppendedOf(n) \in Nat
         /\ n.kind = "invocation" => /\ AppendedOf(n) = 1 /\ InstsOf(n) = 1
                                     /\ SymbolsOf(n) = IF n.dest = NoDecl THEN 0 ELSE 1
         /\ n.kind = "lambda" => /\ Len(n.params) \in Nat
                                 /\ AppendedOf(n) = 1 + Len(n.params)
                                 /\ InstsOf(n) = AppendedOf(n) + 1
                                 /\ SymbolsOf(n) = 1 + Len(n.params)
         /\ n.kind = "close" => AppendedOf(n) = 0 /\ InstsOf(n) = 0 /\ SymbolsOf(n) = 0
<1>1. CASE n.kind = "invocation"
  BY <1>1 DEF InstsOf, SymbolsOf, AppendedOf
<1>2. CASE n.kind = "lambda"
  <2>1. Len(n.params) \in Nat
    BY <1>2, NodeKinds
  <2>2. InstsOf(n) = 2 + Len(n.params) /\ SymbolsOf(n) = 1 + Len(n.params) /\ AppendedOf(n) = 1 + Len(n.params)
    BY <1>2 DEF InstsOf, SymbolsOf, AppendedOf
  <2>. QED BY <1>2, <2>1, <2>2
<1>3. CASE n.kind = "close"
  BY <1>3 DEF InstsOf, SymbolsOf, AppendedOf
<1>. QED BY <1>1, <1>2, <1>3, NodeKinds

LEMMA OpenMoves ==
  ASSUME body \in Seq(Node), NEW p \in 0 .. Len(body)
  PROVE  /\ Open(p) \in Int
         /\ p = 0 => Open(p) = 0
         /\ p # 0 => /\ body[p].kind = "lambda" => Open(p) = Open(p - 1) + 1
                     /\ body[p].kind = "close" => Open(p) = Open(p - 1) - 1
                     /\ body[p].kind = "invocation" => Open(p) = Open(p - 1)
<1>1. \A k : Open(k) = OpenOf(body, k)
  BY DEF Open, OpenOf, KindsIn, KindsOf
<1>2. p \in Nat /\ (p # 0 => p - 1 \in Nat)
  OBVIOUS
<1>3. /\ OpenOf(body, p) \in Int
      /\ p = 0 => OpenOf(body, p) = 0
      /\ p # 0 => OpenOf(body, p) = OpenOf(body, p - 1) +
                       (IF body[p].kind = "lambda" THEN 1 ELSE IF body[p].kind = "close" THEN -1 ELSE 0)
  BY <1>2, OpenGrows
<1>4. p # 0 => OpenOf(body, p - 1) \in Int
  BY <1>2, OpenGrows
<1>. QED BY <1>1, <1>3, <1>4

\* A lambda has an end, behind which as many lambdas are open as before it.
LEMMA MatchingClose ==
  ASSUME TreeOK, Open(Len(body)) = 0, NEW i \in DOMAIN body, body[i].kind = "lambda"
  PROVE  /\ CloseOf(i) \in i + 1 .. Len(body)
         /\ Open(CloseOf(i)) = Open(i - 1)
<1>. DEFINE Low == {j \in i .. Len(body) : Open(j) <= Open(i - 1)}
            Ends == {j \in i + 1 .. Len(body) : Open(j) = Open(i - 1)}
<1>1. body \in Seq(Node) /\ Len(body) \in Nat /\ i \in 1 .. Len(body) /\ i - 1 \in 0 .. Len(body)
  BY DEF TreeOK
<1>2. \A j \in 0 .. Len(body) : Open(j) \in Int /\ Open(j) >= 0
  BY <1>1, OpenMoves DEF TreeOK
<1>3. Len(body) \in Low
  <2>1. Len(body) \in i .. Len(body) /\ Open(i - 1) >= 0 /\ Open(i - 1) \in Int
    BY <1>1, <1>2
  <2>. QED BY <2>1
<1>4. PICK j \in Low : \A k \in Low : j <= k
  <2>1. Low \in SUBSET Nat
    BY <1>1
  <2>. HIDE DEF Low
  <2>. QED BY <1>3, <2>1, LeastNat
<1>5. j \in i .. Len(body) /\ j \in 1 .. Len(body) /\ Open(j) <= Open(i - 1)
  BY <1>1, <1>4
<1>6. j # i
  <2>1. i \in 0 .. Len(body) /\ i # 0
    BY <1>1
  <2>2. Open(i) = Open(i - 1) + 1
    BY <1>1, <2>1, OpenMoves
  <2>. QED BY <1>1, <1>2, <1>5, <2>2
<1>7. j - 1 \in i .. Len(body) /\ j - 1 \in 0 .. Len(body) /\ j \in 0 .. Len(body) /\ j # 0 /\ j \in i + 1 .. Len(body)
  BY <1>1, <1>5, <1>6
<1>8. Open(j - 1) > Open(i - 1)
  <2>1. j - 1 \notin Low
    <3>. HIDE DEF Low
    <3>. QED BY <1>4, <1>5
  <2>2. ~(Open(j - 1) <= Open(i - 1))
    BY <1>7, <2>1
  <2>3. Open(j - 1) \in Int /\ Open(i - 1) \in Int
    BY <1>1, <1>2, <1>7
  <2>. HIDE DEF Open
  <2>. QED BY <2>2, <2>3
<1>9. Open(j) >= Open(j - 1) - 1
  <2>1. body[j].kind \in {"invocation", "lambda", "close"}
    BY <1>1, <1>5, NodeKinds
  <2>2. /\ body[j].kind = "lambda" => Open(j) = Open(j - 1) + 1
        /\ body[j].kind = "close" => Open(j) = Open(j - 1) - 1
        /\ body[j].kind = "invocation" => Open(j) = Open(j - 1)
    BY <1>1, <1>7, OpenMoves
  <2>. QED BY <1>2, <1>7, <2>1, <2>2
<1>10. j \in Ends
  <2>1. PICK x, y, z : x = Open(j) /\ y = Open(i - 1) /\ z = Open(j - 1)
    OBVIOUS
  <2>2. x \in Int /\ y \in Int /\ z \in Int
    BY <1>1, <1>2, <1>7, <2>1
  <2>3. x = y
    BY <1>5, <1>8, <1>9, <2>1, <2>2
  <2>. QED BY <1>7, <2>1, <2>3
<1>11. Min(Ends) \in Ends
  <2>1. Ends \in SUBSET Nat
    BY <1>1
  <2>. HIDE DEF Ends
  <2>. QED BY <1>10, <2>1, MinOf
<1>. QED BY <1>11 DEF CloseOf

\* The sums over the tree, place by place.
LEMMA TreeTotals ==
  ASSUME TreeOK, NEW f, DOMAIN f = DOMAIN body, \A i \in DOMAIN body : f[i] \in Nat
  PROVE  /\ Total(f, 0) = 0
         /\ SumFunction(f) = Total(f, Len(body))
         /\ \A p \in 0 .. Len(body) : Total(f, p) \in Nat
         /\ \A p \in 1 .. Len(body) : Total(f, p) = f[p] + Total(f, p - 1)
         /\ \A p \in 0 .. Len(body) : \A q \in p .. Len(body) : Total(f, p) <= Total(f, q)
<1>1. PICK n \in Nat : n = Len(body) /\ DOMAIN f = 1 .. n /\ AreNats(f, n)
  <2>1. Len(body) \in Nat /\ DOMAIN body = 1 .. Len(body)
    BY DEF TreeOK
  <2>. QED BY <2>1 DEF AreNats
<1>2. SumFunction(f) = Total(f, n)
  BY <1>1 DEF SumFunction, Total
<1>3. Total(f, 0) = 0 /\ \A p \in 1 .. n : Total(f, p) = f[p] + Total(f, p - 1)
  BY <1>1, TotalGrows
<1>4. \A p \in 0 .. n : \A q \in p .. n : Total(f, p) \in Nat /\ Total(f, p) <= Total(f, q)
  BY <1>1, TotalsAreOrdered
<1>5. \A p \in 0 .. n : p \in p .. n
  OBVIOUS
<1>. QED BY <1>1, <1>2, <1>3, <1>4, <1>5

LEMMA TreeCounts ==
  ASSUME TreeOK
  PROVE  /\ DOMAIN InstsAt = DOMAIN body /\ DOMAIN SymbolsAt = DOMAIN body /\ DOMAIN AppendedAt = DOMAIN body
         /\ \A i \in DOMAIN body : /\ InstsAt[i] = InstsOf(body[i]) /\ InstsAt[i] \in Nat
                                   /\ SymbolsAt[i] = SymbolsOf(body[i]) /\ SymbolsAt[i] \in Nat
                                   /\ AppendedAt[i] = AppendedOf(body[i]) /\ AppendedAt[i] \in Nat
<1>1. \A i \in DOMAIN body : body[i] \in Node
  BY DEF TreeOK
<1>2. \A i \in DOMAIN body : InstsOf(body[i]) \in Nat /\ SymbolsOf(body[i]) \in Nat /\ AppendedOf(body[i]) \in Nat
  BY <1>1, NodeCounts
<1>. QED BY <1>2 DEF InstsAt, SymbolsAt, AppendedAt

\* The assignment of a lambda is counted and makes no instruction.
LEMMA AppendedAreFewer ==
  ASSUME TreeOK
  PROVE  /\ KindsIn(Len(body), "lambda") \in Nat
         /\ Total(InstsAt, Len(body)) = Total(AppendedAt, Len(body)) + KindsIn(Len(body), "lambda")
<1>1. PICK n \in Nat : n = Len(body) /\ DOMAIN body = 1 .. n
  BY DEF TreeOK
<1>. DEFINE F == [p \in 0 .. n |-> Total(InstsAt, p)]
            G == [p \in 0 .. n |-> Total(AppendedAt, p) + KindsOf(body, p, "lambda")]
<1>2. /\ Total(InstsAt, 0) = 0
      /\ \A p \in 0 .. n : Total(InstsAt, p) \in Nat
      /\ \A p \in 1 .. n : Total(InstsAt, p) = InstsAt[p] + Total(InstsAt, p - 1)
  BY <1>1, TreeTotals, TreeCounts
<1>3. /\ Total(AppendedAt, 0) = 0
      /\ \A p \in 0 .. n : Total(AppendedAt, p) \in Nat
      /\ \A p \in 1 .. n : Total(AppendedAt, p) = AppendedAt[p] + Total(AppendedAt, p - 1)
  BY <1>1, TreeTotals, TreeCounts
<1>4. \A p \in 0 .. n : /\ KindsOf(body, p, "lambda") \in Nat
                        /\ p = 0 => KindsOf(body, p, "lambda") = 0
                        /\ p # 0 => KindsOf(body, p, "lambda") = KindsOf(body, p - 1, "lambda")
                                                                   + IF body[p].kind = "lambda" THEN 1 ELSE 0
  BY KindsGrow
<1>. HIDE DEF Total, KindsOf
<1>5. ASSUME NEW p \in 1 .. n PROVE F[p] - F[p - 1] = G[p] - G[p - 1]
  <2>1. p \in 0 .. n /\ p - 1 \in 0 .. n /\ p # 0
    OBVIOUS
  <2>2. InstsAt[p] = AppendedAt[p] + IF body[p].kind = "lambda" THEN 1 ELSE 0
    <3>1. body[p] \in Node /\ p \in DOMAIN body
      BY <1>1 DEF TreeOK
    <3>2. InstsOf(body[p]) = AppendedOf(body[p]) + IF body[p].kind = "lambda" THEN 1 ELSE 0
      BY <3>1, NodeCounts, NodeKinds
    <3>. QED BY <3>1, <3>2, TreeCounts
  <2>3. InstsAt[p] \in Nat /\ AppendedAt[p] \in Nat
    BY <1>1, TreeCounts
  <2>4. F[p] = InstsAt[p] + F[p - 1] /\ F[p - 1] \in Nat
    BY <1>2, <2>1
  <2>5. G[p] = AppendedAt[p] + G[p - 1] + (IF body[p].kind = "lambda" THEN 1 ELSE 0) /\ G[p - 1] \in Nat
    BY <1>3, <1>4, <2>1, <2>3
  <2>. HIDE DEF F, G
  <2>. QED BY <2>2, <2>3, <2>4, <2>5
<1>6. \A p \in 0 .. n : F[p] \in Int /\ G[p] \in Int
  BY <1>2, <1>3, <1>4
<1>7. F[0] = 0 /\ G[0] = 0
  BY <1>2, <1>3, <1>4
<1>8. F[n] = G[n]
  <2>. HIDE DEF F, G
  <2>1. 0 \in 0 .. n /\ n \in 0 .. n /\ F[0] <= G[0] /\ G[0] <= F[0] /\ 0 + 1 = 1
    BY <1>7
  <2>2. \A p \in 0 + 1 .. n : F[p] - F[p - 1] <= G[p] - G[p - 1] /\ G[p] - G[p - 1] <= F[p] - F[p - 1]
    <3>1. \A p \in 1 .. n : p \in 0 .. n /\ p - 1 \in 0 .. n
      OBVIOUS
    <3>. QED BY <1>5, <1>6, <2>1, <3>1
  <2>3. F[n] <= G[n]
    BY <1>6, <2>1, <2>2, Behind
  <2>4. G[n] <= F[n]
    BY <1>6, <2>1, <2>2, Behind
  <2>. QED BY <1>6, <2>1, <2>3, <2>4
<1>9. F[n] = Total(InstsAt, n) /\ G[n] = Total(AppendedAt, n) + KindsOf(body, n, "lambda")
  OBVIOUS
<1>10. KindsIn(n, "lambda") = KindsOf(body, n, "lambda")
  BY DEF KindsIn, KindsOf
<1>11. KindsOf(body, n, "lambda") \in Nat
  BY <1>4
<1>. HIDE DEF F, G
<1>. QED BY <1>1, <1>8, <1>9, <1>10, <1>11

-----------------------------------------------------------------------------
(* The stream and the stack of names, as values.                           *)

BoundName(last) == [name : Name, symbol : 1 .. last, depth : Nat]

LEMMA SeqElements ==
  ASSUME NEW S, NEW q \in Seq(S)
  PROVE  \A i \in DOMAIN q : q[i] \in S
OBVIOUS

LEMMA SeqOfElements ==
  ASSUME NEW S, NEW T, NEW q \in Seq(S), \A i \in DOMAIN q : q[i] \in T
  PROVE  q \in Seq(T)
OBVIOUS

LEMMA SeqOfMore ==
  ASSUME NEW S, NEW T, S \subseteq T, NEW q \in Seq(S)
  PROVE  q \in Seq(T)
OBVIOUS

LEMMA MoreSymbols ==
  ASSUME NEW a \in Nat, NEW b \in Nat, a <= b
  PROVE  /\ \A q \in Seq(Inst(a)) : q \in Seq(Inst(b))
         /\ \A q \in Seq(BoundName(a)) : q \in Seq(BoundName(b))
<1>1. 0 .. a \subseteq 0 .. b /\ 1 .. a \subseteq 1 .. b
  OBVIOUS
<1>2. BoundedSeq(1 .. a, 2) \subseteq BoundedSeq(1 .. b, 2)
  <2>1. ASSUME NEW q \in BoundedSeq(1 .. a, 2) PROVE q \in BoundedSeq(1 .. b, 2)
    <3>1. PICK m \in 0 .. 2 : q \in [1 .. m -> 1 .. a]
      BY DEF BoundedSeq, SeqOf
    <3>2. q \in [1 .. m -> 1 .. b]
      BY <1>1, <3>1
    <3>. QED BY <3>2 DEF BoundedSeq, SeqOf
  <2>. QED BY <2>1
<1>3. Inst(a) \subseteq Inst(b)
  <2>. DEFINE U == BoundedSeq(1 .. a, 2)
              V == BoundedSeq(1 .. b, 2)
  <2>1. U \subseteq V
    BY <1>2
  <2>. HIDE DEF U, V
  <2>2. Inst(a) = [kind : {"lambda"}, symbol : 0 .. a, body_len : Nat] \union [kind : {"arg"}, symbol : 1 .. a]
                    \union [kind : {"invocation"}, symbol : 0 .. a, operands : U]
    BY DEF Inst, U
  <2>3. Inst(b) = [kind : {"lambda"}, symbol : 0 .. b, body_len : Nat] \union [kind : {"arg"}, symbol : 1 .. b]
                    \union [kind : {"invocation"}, symbol : 0 .. b, operands : V]
    BY DEF Inst, V
  <2>. QED BY <1>1, <2>1, <2>2, <2>3
<1>4. BoundName(a) \subseteq BoundName(b)
  BY <1>1 DEF BoundName
<1>5. \A q \in Seq(Inst(a)) : q \in Seq(Inst(b))
  BY <1>3, SeqOfMore
<1>6. \A q \in Seq(BoundName(a)) : q \in Seq(BoundName(b))
  BY <1>4, SeqOfMore
<1>. QED BY <1>5, <1>6

LEMMA DepthIsNat ==
  ASSUME NEW a \in Nat, NEW stack \in Seq(BoundName(a))
  PROVE  ScopeDepth(stack) \in Nat
<1>1. CASE stack = <<>>
  BY <1>1 DEF ScopeDepth
<1>2. CASE stack # <<>>
  <2>1. stack[Len(stack)] \in BoundName(a)
    BY <1>2
  <2>. QED BY <1>2, <2>1 DEF ScopeDepth, Last, BoundName
<1>. QED BY <1>1, <1>2

LEMMA NamePushed ==
  ASSUME NEW a \in Nat, NEW stack \in Seq(BoundName(a)), NEW name \in Name
  PROVE  /\ PushName(stack, name, a + 1) \in Seq(BoundName(a + 1))
         /\ Len(PushName(stack, name, a + 1)) = Len(stack) + 1
<1>1. stack \in Seq(BoundName(a + 1))
  BY MoreSymbols
<1>2. [name |-> name, symbol |-> a + 1, depth |-> ScopeDepth(stack)] \in BoundName(a + 1)
  BY DepthIsNat DEF BoundName
<1>. QED BY <1>1, <1>2 DEF PushName

LEMMA ParamsPushed ==
  ASSUME NEW a \in Nat, NEW stack \in Seq(BoundName(a)), NEW names \in Seq(Name)
  PROVE  /\ PushParams(stack, names, a) \in Seq(BoundName(a + Len(names)))
         /\ Len(PushParams(stack, names, a)) = Len(stack) + Len(names)
<1>. DEFINE new == [i \in DOMAIN names |->
                      [name |-> names[i], symbol |-> a + i, depth |-> ScopeDepth(stack) + 1]]
<1>1. stack \in Seq(BoundName(a + Len(names)))
  BY MoreSymbols
<1>2. PICK depth \in Nat : depth = ScopeDepth(stack) + 1
  BY DepthIsNat
<1>3. ASSUME NEW i \in DOMAIN names
      PROVE  [name |-> names[i], symbol |-> a + i, depth |-> ScopeDepth(stack) + 1] \in BoundName(a + Len(names))
  <2>1. names[i] \in Name /\ a + i \in 1 .. a + Len(names)
    OBVIOUS
  <2>. QED BY <1>2, <2>1 DEF BoundName
<1>4. new \in Seq(BoundName(a + Len(names))) /\ Len(new) = Len(names)
  BY <1>3
<1>. HIDE DEF new
<1>5. stack \o new \in Seq(BoundName(a + Len(names))) /\ Len(stack \o new) = Len(stack) + Len(names)
  BY <1>1, <1>4
<1>. QED BY <1>5 DEF PushParams, new

LEMMA FoundIsBound ==
  ASSUME NEW a \in Nat, NEW stack \in Seq(BoundName(a)), NEW name, Found(stack, name)
  PROVE  FindName(stack, name) \in 1 .. a
<1>. DEFINE At == {i \in DOMAIN stack : stack[i].name = name}
<1>1. At # {} /\ At \in SUBSET (0 .. Len(stack)) /\ Len(stack) \in Nat
  BY DEF Found
<1>2. PICK i : i = Max(At)
  OBVIOUS
<1>3. i \in DOMAIN stack
  <2>1. i \in At
    <3>. HIDE DEF At
    <3>. QED BY <1>1, <1>2, MaxOf
  <2>. QED BY <2>1
<1>4. stack[i] \in BoundName(a)
  BY <1>3
<1>. QED BY <1>2, <1>4 DEF FindName, BoundName

LEMMA NamesPopped ==
  ASSUME NEW a \in Nat, NEW stack \in Seq(BoundName(a))
  PROVE  /\ PopNames(stack) \in Seq(BoundName(a))
         /\ Len(PopNames(stack)) <= Len(stack)
<1>. DEFINE Left == {0} \union {i \in DOMAIN stack : stack[i].depth # ScopeDepth(stack)}
<1>1. Left \in SUBSET (0 .. Len(stack)) /\ Left # {} /\ Len(stack) \in Nat
  OBVIOUS
<1>2. PICK m : m = Max(Left)
  OBVIOUS
<1>3. m \in 0 .. Len(stack)
  <2>. HIDE DEF Left
  <2>. QED BY <1>1, <1>2, MaxOf
<1>4. SubSeq(stack, 1, m) \in Seq(BoundName(a)) /\ Len(SubSeq(stack, 1, m)) = m
  BY <1>3
<1>5. PopNames(stack) = SubSeq(stack, 1, m)
  BY <1>2 DEF PopNames
<1>. QED BY <1>1, <1>3, <1>4, <1>5

-----------------------------------------------------------------------------
(* The invariant.                                                          *)

\* The instruction of a lambda the walk is in, and its parameters, are there.
Fits(l, stream) ==
  /\ l.inst \in DOMAIN stream
  /\ stream[l.inst].kind = "lambda"
  /\ l.inst + l.n_args <= Len(stream)

StreamOK ==
  /\ next_symbol \in Nat
  /\ insts \in Seq(Inst(next_symbol))
  /\ nodes \in Seq(BoundName(next_symbol))
  /\ lambdas \in Seq([inst : Nat, n_args : Nat])
  /\ \A i \in DOMAIN lambdas : Fits(lambdas[i], insts)

Control ==
  /\ phase \in {"parse", "args", "body", "done"}
  /\ pos \in 1 .. Len(args) + Len(body) + 1
  /\ table \subseteq Type
  /\ {cap, max_symbol} \subseteq Nat
  /\ err \in BOOLEAN /\ overrun \in BOOLEAN /\ aborted \in BOOLEAN

NothingYet ==
  /\ pos = 1 /\ cap = 0 /\ max_symbol = 0
  /\ insts = <<>> /\ nodes = <<>> /\ next_symbol = 0 /\ lambdas = <<>>
  /\ ~err /\ ~overrun /\ ~aborted

Counted ==
  /\ args # <<>>
  /\ Open(Len(body)) = 0
  /\ cap = CountedInsts + Len(args)
  /\ max_symbol = CountedSymbols

InArgs ==
  /\ pos \in 1 .. Len(args) + 1
  /\ next_symbol = pos - 1 /\ Len(insts) = pos /\ Len(nodes) = pos - 1
  /\ lambdas = <<>> /\ ~err /\ ~overrun

\* What the walk has made is at most what the nodes before its place stand for,
\* and exactly that unless an error was reported.
InBody ==
  /\ pos \in 1 .. Len(body) + 1
  /\ Len(insts) <= 1 + Len(args) + Total(AppendedAt, pos - 1)
  /\ ~err => Len(insts) = 1 + Len(args) + Total(AppendedAt, pos - 1)
  /\ Len(nodes) <= next_symbol
  /\ next_symbol <= Len(args) + Total(SymbolsAt, pos - 1)
  /\ Len(lambdas) = Open(pos - 1)

Walk ==
  /\ TreeOK /\ Control /\ StreamOK
  /\ phase = "parse" => NothingYet
  /\ phase \in {"args", "body"} => Counted
  /\ phase = "args" => InArgs
  /\ phase = "body" => InBody
  /\ InstsFit
  /\ CompleteUnlessError

-----------------------------------------------------------------------------
(* What follows from the invariant.                                        *)

LEMMA CountedTotals ==
  ASSUME TreeOK
  PROVE  /\ CountedInsts = Len(args) + Total(InstsAt, Len(body))
         /\ CountedSymbols = Len(args) + Total(SymbolsAt, Len(body))
         /\ CountedInsts \in Nat /\ CountedSymbols \in Nat /\ Len(args) \in Nat /\ Len(body) \in Nat
<1>1. CountedInsts = Len(args) + SumFunction(InstsAt) /\ CountedSymbols = Len(args) + SumFunction(SymbolsAt)
  BY DEF CountedInsts, CountedSymbols, InstsAt, SymbolsAt
<1>2. Len(args) \in Nat /\ Len(body) \in Nat /\ Len(body) \in 0 .. Len(body)
  BY DEF TreeOK
<1>3. SumFunction(InstsAt) = Total(InstsAt, Len(body)) /\ Total(InstsAt, Len(body)) \in Nat
  BY <1>2, TreeTotals, TreeCounts
<1>4. SumFunction(SymbolsAt) = Total(SymbolsAt, Len(body)) /\ Total(SymbolsAt, Len(body)) \in Nat
  BY <1>2, TreeTotals, TreeCounts
<1>. QED BY <1>1, <1>2, <1>3, <1>4

\* A stream that holds what the first p nodes stand for has room, but when the
\* combinator is as small as can be.
LEMMA RoomLeft ==
  ASSUME TreeOK, Counted, NEW p \in 0 .. Len(body), NEW m \in Nat,
         m <= 1 + Len(args) + Total(AppendedAt, p), ~(m < cap)
  PROVE  Len(args) = 1 /\ KindsIn(Len(body), "lambda") = 0
<1>1. Len(body) \in Nat /\ Len(body) \in p .. Len(body) /\ Len(body) \in 0 .. Len(body)
  BY CountedTotals
<1>2. /\ Total(AppendedAt, p) <= Total(AppendedAt, Len(body))
      /\ Total(AppendedAt, p) \in Nat /\ Total(AppendedAt, Len(body)) \in Nat
  BY <1>1, TreeTotals, TreeCounts
<1>3. cap = Len(args) + Total(InstsAt, Len(body)) + Len(args) /\ Len(args) \in Nat
  BY CountedTotals DEF Counted
<1>4. /\ KindsIn(Len(body), "lambda") \in Nat
      /\ Total(InstsAt, Len(body)) = Total(AppendedAt, Len(body)) + KindsIn(Len(body), "lambda")
  BY AppendedAreFewer
<1>5. Len(args) # 0
  BY DEF Counted, TreeOK
<1>6. PICK a, t, u, k, n : /\ k = KindsIn(Len(body), "lambda") /\ n = Len(args)
                           /\ a = Total(AppendedAt, p) /\ t = Total(AppendedAt, Len(body)) /\ u = Total(InstsAt, Len(body))
  OBVIOUS
<1>7. a \in Nat /\ t \in Nat /\ a <= t /\ cap = n + u + n /\ m <= 1 + n + a /\ n \in Nat /\ n # 0
  BY <1>2, <1>3, <1>5, <1>6
<1>8. u = t + k /\ k \in Nat
  BY <1>4, <1>6
<1>9. n = 1 /\ k = 0
  BY <1>7, <1>8
<1>. QED BY <1>6, <1>9

LEMMA WalkCounts ==
  ASSUME Walk
  PROVE  CountsSuffice
<1>1. TypeOK
  <2>1. nodes \in Seq([name : Name, symbol : Nat, depth : Nat])
    <3>1. BoundName(next_symbol) \subseteq [name : Name, symbol : Nat, depth : Nat]
      BY DEF BoundName
    <3>. QED BY <3>1, SeqOfMore DEF Walk, StreamOK
  <2>2. lambdas \in Seq([inst : DOMAIN insts, n_args : Nat])
    <3>1. lambdas \in Seq([inst : Nat, n_args : Nat]) /\ \A i \in DOMAIN lambdas : lambdas[i].inst \in DOMAIN insts
      BY DEF Walk, StreamOK, Fits
    <3>2. \A i \in DOMAIN lambdas : lambdas[i] \in [inst : DOMAIN insts, n_args : Nat]
      <4>1. \A i \in DOMAIN lambdas : lambdas[i] \in [inst : Nat, n_args : Nat]
        BY <3>1, SeqElements
      <4>. QED BY <3>1, <4>1
    <3>. QED BY <3>1, <3>2, SeqOfElements
  <2>. QED BY <2>1, <2>2 DEF Walk, TypeOK, TreeOK, Control, StreamOK, Node
<1>2. SymbolsFit
  <2>1. CASE phase = "args"
    <3>1. next_symbol \in Nat /\ Len(nodes) = next_symbol /\ next_symbol <= Len(args) /\ max_symbol = CountedSymbols
      BY <2>1 DEF Walk, InArgs, Counted, TreeOK
    <3>2. 0 \in 0 .. Len(body) /\ Len(body) \in 0 .. Len(body)
      BY CountedTotals DEF Walk
    <3>3. Total(SymbolsAt, Len(body)) \in Nat
      BY <3>2, TreeTotals, TreeCounts DEF Walk
    <3>. HIDE DEF Total
    <3>. QED BY <2>1, <3>1, <3>3, CountedTotals DEF Walk, SymbolsFit
  <2>2. CASE phase = "body"
    <3>1. /\ Len(nodes) <= next_symbol /\ next_symbol <= Len(args) + Total(SymbolsAt, pos - 1)
          /\ max_symbol = CountedSymbols /\ pos \in 1 .. Len(body) + 1 /\ next_symbol \in Nat
      BY <2>2 DEF Walk, InBody, Counted, StreamOK
    <3>2. pos - 1 \in 0 .. Len(body) /\ Len(body) \in pos - 1 .. Len(body) /\ Len(body) \in 0 .. Len(body)
      BY <3>1, CountedTotals DEF Walk
    <3>3. /\ Total(SymbolsAt, pos - 1) <= Total(SymbolsAt, Len(body))
          /\ Total(SymbolsAt, pos - 1) \in Nat /\ Total(SymbolsAt, Len(body)) \in Nat
      BY <3>2, TreeTotals, TreeCounts DEF Walk
    <3>. HIDE DEF Total
    <3>. QED BY <2>2, <3>1, <3>3, CountedTotals DEF Walk, SymbolsFit
  <2>. QED BY <2>1, <2>2 DEF SymbolsFit
<1>. QED BY <1>1, <1>2 DEF Walk, CountsSuffice

-----------------------------------------------------------------------------
(* Every step keeps the invariant.                                         *)

LEMMA SameTree ==
  ASSUME UNCHANGED treeVars
  PROVE  /\ TreeOK' <=> TreeOK
         /\ InstsAt' = InstsAt /\ SymbolsAt' = SymbolsAt /\ AppendedAt' = AppendedAt
         /\ CountedInsts' = CountedInsts /\ CountedSymbols' = CountedSymbols
         /\ \A p : Open(p)' = Open(p)
         /\ \A p, kind : KindsIn(p, kind)' = KindsIn(p, kind)
<1>1. args' = args /\ body' = body
  BY DEF treeVars
<1>2. \A p : Open(p)' = Open(p)
  BY <1>1 DEF Open, KindsIn
<1>3. \A p, kind : KindsIn(p, kind)' = KindsIn(p, kind)
  BY <1>1 DEF KindsIn
<1>4. InstsAt' = InstsAt /\ SymbolsAt' = SymbolsAt /\ AppendedAt' = AppendedAt
  BY <1>1 DEF InstsAt, SymbolsAt, AppendedAt
<1>5. CountedInsts' = CountedInsts /\ CountedSymbols' = CountedSymbols
  BY <1>1 DEF CountedInsts, CountedSymbols
<1>6. TreeOK' <=> TreeOK
  BY <1>1, <1>2 DEF TreeOK
<1>. QED BY <1>2, <1>3, <1>4, <1>5, <1>6

\* What a step of the walk over the body owes, that goes on behind place q.
Advances(q) ==
  /\ pos' = q + 1
  /\ StreamOK'
  /\ table' \subseteq Type /\ err' \in BOOLEAN /\ overrun' \in BOOLEAN /\ aborted' \in BOOLEAN
  /\ Len(insts') <= Len(insts) + AppendedAt[pos]
  /\ ~err' => ~err /\ q = pos /\ Len(insts') = Len(insts) + AppendedAt[pos]
  /\ next_symbol' <= next_symbol + SymbolsAt[pos]
  /\ Len(nodes') <= next_symbol'
  /\ Len(lambdas') = Open(q)
  /\ aborted' => overrun' \/ ~(Len(insts') < cap)

LEMMA Advance ==
  ASSUME Walk, phase = "body", pos <= Len(body), NEW q \in pos .. Len(body),
         UNCHANGED <<treeVars, countVars, phase>>, Advances(q)
  PROVE  Walk'
<1>1. /\ TreeOK /\ Control /\ StreamOK /\ Counted /\ InBody
  BY DEF Walk
<1>2. UNCHANGED treeVars /\ args' = args /\ body' = body /\ cap' = cap /\ max_symbol' = max_symbol /\ phase' = "body"
  BY DEF treeVars, countVars
<1>3. /\ pos \in 1 .. Len(body) /\ pos - 1 \in 0 .. Len(body) /\ pos \in 0 .. Len(body) /\ q \in 0 .. Len(body)
      /\ Len(body) \in Nat /\ Len(args) \in Nat
  BY <1>1, CountedTotals DEF InBody
<1>4. PICK a, b, c : /\ a = Total(AppendedAt, pos - 1) /\ b = Total(AppendedAt, pos) /\ c = Total(AppendedAt, q)
                     /\ a \in Nat /\ b \in Nat /\ c \in Nat
                     /\ b = AppendedAt[pos] + a /\ b <= c
  <2>1. DOMAIN AppendedAt = DOMAIN body /\ \A i \in DOMAIN body : AppendedAt[i] \in Nat
    BY <1>1, TreeCounts
  <2>2. /\ \A p \in 0 .. Len(body) : Total(AppendedAt, p) \in Nat
        /\ \A p \in 1 .. Len(body) : Total(AppendedAt, p) = AppendedAt[p] + Total(AppendedAt, p - 1)
        /\ \A p \in 0 .. Len(body) : \A r \in p .. Len(body) : Total(AppendedAt, p) <= Total(AppendedAt, r)
    BY <1>1, <2>1, TreeTotals
  <2>. QED BY <1>3, <2>2
<1>5. PICK d, e, f : /\ d = Total(SymbolsAt, pos - 1) /\ e = Total(SymbolsAt, pos) /\ f = Total(SymbolsAt, q)
                     /\ d \in Nat /\ e \in Nat /\ f \in Nat
                     /\ e = SymbolsAt[pos] + d /\ e <= f
  <2>1. DOMAIN SymbolsAt = DOMAIN body /\ \A i \in DOMAIN body : SymbolsAt[i] \in Nat
    BY <1>1, TreeCounts
  <2>2. /\ \A p \in 0 .. Len(body) : Total(SymbolsAt, p) \in Nat
        /\ \A p \in 1 .. Len(body) : Total(SymbolsAt, p) = SymbolsAt[p] + Total(SymbolsAt, p - 1)
        /\ \A p \in 0 .. Len(body) : \A r \in p .. Len(body) : Total(SymbolsAt, p) <= Total(SymbolsAt, r)
    BY <1>1, <2>1, TreeTotals
  <2>. QED BY <1>3, <2>2
<1>6. AppendedAt[pos] \in Nat /\ SymbolsAt[pos] \in Nat
  BY <1>1, <1>3, TreeCounts
<1>7. /\ Len(insts) \in Nat /\ Len(insts') \in Nat /\ next_symbol \in Nat /\ next_symbol' \in Nat
  BY <1>1 DEF StreamOK, Advances
<1>8. Len(insts') <= 1 + Len(args) + c /\ (~err' => Len(insts') = 1 + Len(args) + c)
  <2>1. PICK n, l, m, x : n = Len(args) /\ l = Len(insts) /\ m = Len(insts') /\ x = AppendedAt[pos]
    OBVIOUS
  <2>2. n \in Nat /\ l \in Nat /\ m \in Nat /\ x \in Nat /\ b = x + a
    BY <1>3, <1>4, <1>6, <1>7, <2>1
  <2>3. l <= 1 + n + a /\ (~err => l = 1 + n + a)
    BY <1>1, <1>4, <2>1 DEF InBody
  <2>4. m <= l + x /\ (~err' => ~err /\ q = pos /\ m = l + x)
    BY <2>1 DEF Advances
  <2>5. m <= 1 + n + c
    BY <1>4, <2>2, <2>3, <2>4
  <2>6. ASSUME ~err' PROVE m = 1 + n + c
    <3>1. l = 1 + n + a /\ q = pos /\ m = l + x
      BY <2>3, <2>4, <2>6
    <3>2. b = c
      BY <1>4, <3>1
    <3>. QED BY <1>4, <2>2, <3>1, <3>2
  <2>. QED BY <2>1, <2>5, <2>6
<1>9. next_symbol' <= Len(args) + f
  <2>1. PICK n, l, m, x : n = Len(args) /\ l = next_symbol /\ m = next_symbol' /\ x = SymbolsAt[pos]
    OBVIOUS
  <2>2. n \in Nat /\ l \in Nat /\ m \in Nat /\ x \in Nat /\ e = x + d
    BY <1>3, <1>5, <1>6, <1>7, <2>1
  <2>3. l <= n + d
    BY <1>1, <1>5, <2>1 DEF InBody
  <2>4. m <= l + x
    BY <2>1 DEF Advances
  <2>5. m <= n + f
    <3>1. d \in Nat /\ e \in Nat /\ f \in Nat /\ e <= f
      BY <1>5
    <3>. QED BY <2>2, <2>3, <2>4, <3>1
  <2>. QED BY <2>1, <2>5
<1>10. pos' = q + 1 /\ pos' - 1 = q /\ pos' \in 1 .. Len(body) + 1 /\ pos' \in 1 .. Len(args) + Len(body) + 1
  BY <1>3 DEF Advances
<1>11. InBody'
  <2>1. c = Total(AppendedAt', pos' - 1) /\ f = Total(SymbolsAt', pos' - 1) /\ Open(q) = Open(pos - 1)'
    <3>1. AppendedAt' = AppendedAt /\ SymbolsAt' = SymbolsAt /\ pos' - 1 = q
      BY <1>2, <1>10, SameTree
    <3>2. Open(pos - 1)' = Open(q)
      BY <1>2, <1>10 DEF Open, KindsIn
    <3>. QED BY <1>4, <1>5, <3>1, <3>2
  <2>2. Len(nodes') <= next_symbol' /\ Len(lambdas') = Open(q)
    BY DEF Advances
  <2>. QED BY <1>2, <1>8, <1>9, <1>10, <2>1, <2>2 DEF InBody
<1>12. Counted'
  BY <1>1, <1>2, SameTree DEF Counted
<1>13. Control'
  BY <1>1, <1>2, <1>10 DEF Control, Advances
<1>14. InstsFit'
  <2>1. SUFFICES ASSUME aborted', ~overrun' PROVE Len(args) = 1 /\ KindsIn(Len(body), "lambda") = 0
    <3>1. KindsIn(Len(body), "lambda")' = KindsIn(Len(body), "lambda")
      BY <1>2 DEF KindsIn
    <3>. QED BY <1>2, <3>1 DEF InstsFit
  <2>2. ~(Len(insts') < cap)
    BY <2>1 DEF Advances
  <2>. QED BY <1>1, <1>3, <1>4, <1>7, <1>8, <2>2, RoomLeft
<1>15. CompleteUnlessError'
  BY <1>2 DEF CompleteUnlessError
<1>16. TreeOK' /\ StreamOK'
  BY <1>1, <1>2, SameTree DEF Advances
<1>. QED BY <1>2, <1>11, <1>12, <1>13, <1>14, <1>15, <1>16 DEF Walk

\* What a visit finds.
LEMMA Visited ==
  ASSUME Walk, NEW kind, Visit(kind)
  PROVE  /\ phase = "body" /\ ~aborted /\ pos \in DOMAIN body /\ pos \in pos .. Len(body)
         /\ pos \in 1 .. Len(body) /\ pos \in 0 .. Len(body) /\ pos # 0 /\ pos <= Len(body)
         /\ body[pos] \in Node /\ body[pos].kind = kind
         /\ UNCHANGED <<treeVars, countVars, phase>>
         /\ TreeOK /\ Control /\ StreamOK /\ Counted /\ InBody
         /\ AppendedAt[pos] = AppendedOf(body[pos]) /\ SymbolsAt[pos] = SymbolsOf(body[pos])
         /\ next_symbol \in Nat /\ Len(insts) \in Nat /\ Len(nodes) \in Nat
<1>1. phase = "body" /\ ~aborted /\ pos <= Len(body) /\ body[pos].kind = kind /\ UNCHANGED <<treeVars, countVars, phase>>
  BY DEF Visit
<1>2. TreeOK /\ Control /\ StreamOK /\ Counted /\ InBody
  BY <1>1 DEF Walk
<1>3. pos \in 1 .. Len(body) /\ Len(body) \in Nat /\ body \in Seq(Node)
  BY <1>1, <1>2 DEF InBody, TreeOK
<1>4. /\ pos \in DOMAIN body /\ body[pos] \in Node /\ pos \in pos .. Len(body)
      /\ pos \in 0 .. Len(body) /\ pos # 0
  BY <1>3
<1>5. AppendedAt[pos] = AppendedOf(body[pos]) /\ SymbolsAt[pos] = SymbolsOf(body[pos])
  BY <1>2, <1>4, TreeCounts
<1>. QED BY <1>1, <1>2, <1>3, <1>4, <1>5 DEF StreamOK

LEMMA SkipStep ==
  ASSUME Walk, NEW kind \in {"invocation", "lambda"}, Visit(kind), SkipAssignment(body[pos])
  PROVE  Walk'
<1>1. PICK n : n = body[pos]
  OBVIOUS
<1>2. /\ n \in Node /\ n.kind = kind /\ pos \in 1 .. Len(body) /\ n.dest # NoDecl
      /\ TreeOK /\ Control /\ StreamOK /\ Counted /\ InBody
  BY <1>1, Visited DEF SkipAssignment
<1>3. n.dest \in Decl
  <2>1. n.kind = "invocation" => n \in Invocation
    BY <1>2, NodeKinds
  <2>2. n.kind = "lambda" => n.dest \in Decl
    BY <1>2, NodeKinds
  <2>. QED BY <1>2, <2>1, <2>2 DEF Invocation
<1>4. table' \subseteq Type
  BY <1>1, <1>2, <1>3 DEF SkipAssignment, Control, Decl
<1>5. PICK q \in pos .. Len(body) : pos' = q + 1 /\ Open(q) = Open(pos - 1)
  <2>1. CASE kind = "invocation"
    <3>1. pos \in pos .. Len(body) /\ pos' = pos + 1
      BY <1>1, <1>2, <2>1 DEF SkipAssignment
    <3>2. Open(pos) = Open(pos - 1)
      <4>1. pos \in 0 .. Len(body) /\ pos # 0 /\ body \in Seq(Node)
        BY <1>2 DEF TreeOK
      <4>. QED BY <1>1, <1>2, <2>1, <4>1, OpenMoves
    <3>. QED BY <3>1, <3>2
  <2>2. CASE kind = "lambda"
    <3>1. pos \in DOMAIN body /\ Open(Len(body)) = 0
      BY <1>2 DEF Counted, TreeOK
    <3>2. CloseOf(pos) \in pos + 1 .. Len(body) /\ Open(CloseOf(pos)) = Open(pos - 1)
      BY <1>1, <1>2, <2>2, <3>1, MatchingClose
    <3>3. CloseOf(pos) \in pos .. Len(body)
      BY <1>2, <3>2
    <3>4. pos' = CloseOf(pos) + 1
      BY <1>1, <1>2, <2>2 DEF SkipAssignment
    <3>. QED BY <3>2, <3>3, <3>4
  <2>. QED BY <2>1, <2>2
<1>6. UNCHANGED <<insts, nodes, next_symbol, lambdas, overrun, aborted>> /\ err'
  BY DEF SkipAssignment
<1>7. AppendedAt[pos] \in Nat /\ SymbolsAt[pos] \in Nat /\ Len(insts) \in Nat /\ next_symbol \in Nat
  <2>1. pos \in DOMAIN body
    BY <1>2 DEF TreeOK
  <2>. QED BY <1>2, <2>1, TreeCounts DEF StreamOK
<1>8. StreamOK'
  BY <1>2, <1>6 DEF StreamOK, Fits
<1>9. Advances(q)
  <2>1. ~aborted
    BY Visited
  <2>2. Len(insts') <= Len(insts) + AppendedAt[pos] /\ next_symbol' <= next_symbol + SymbolsAt[pos]
    BY <1>6, <1>7
  <2>3. Len(nodes') <= next_symbol' /\ Len(lambdas') = Open(q)
    BY <1>2, <1>5, <1>6 DEF InBody
  <2>4. err' \in BOOLEAN /\ overrun' \in BOOLEAN /\ aborted' \in BOOLEAN /\ (aborted' => overrun' \/ ~(Len(insts') < cap))
    BY <1>2, <1>6, <2>1 DEF Control, SkipAssignment
  <2>. QED BY <1>4, <1>5, <1>6, <1>8, <2>2, <2>3, <2>4 DEF Advances
<1>. QED BY <1>9, Visited, Advance

LEMMA FitsGrow ==
  ASSUME NEW S, NEW T, NEW r \in Seq(S), NEW s \in Seq(T), Len(r) <= Len(s),
         \A i \in DOMAIN r : s[i].kind = r[i].kind,
         NEW l \in [inst : Nat, n_args : Nat], Fits(l, r)
  PROVE  Fits(l, s)
<1>1. /\ l.inst \in Nat /\ l.n_args \in Nat /\ l.inst \in 1 .. Len(r)
      /\ Len(r) \in Nat /\ Len(s) \in Nat /\ l.inst + l.n_args <= Len(r)
  BY DEF Fits
<1>2. l.inst \in DOMAIN s /\ l.inst + l.n_args <= Len(s)
  BY <1>1
<1>. QED BY <1>1, <1>2 DEF Fits

\* How far the symbols are when a node has bound its own.
Top(n) == IF Assigns(n) THEN next_symbol + 1 ELSE next_symbol

LEMMA OwnSymbol ==
  ASSUME StreamOK, NEW n \in Node, n.kind # "close"
  PROVE  /\ Top(n) \in Nat /\ next_symbol <= Top(n) /\ Symbol(n) \in 0 .. Top(n)
         /\ Assigns(n) => Symbol(n) = Top(n)
         /\ Bound(n) \in Seq(BoundName(Top(n)))
         /\ Len(Bound(n)) = Len(nodes) + Top(n) - next_symbol
         /\ insts \in Seq(Inst(Top(n)))
<1>1. next_symbol \in Nat /\ nodes \in Seq(BoundName(next_symbol)) /\ insts \in Seq(Inst(next_symbol)) /\ Len(nodes) \in Nat
  BY DEF StreamOK
<1>2. CASE Assigns(n)
  <2>1. n.dest \in Decl
    <3>1. n.kind = "invocation" => n \in Invocation
      BY NodeKinds
    <3>2. n.kind = "lambda" => n.dest \in Decl
      BY NodeKinds
    <3>. QED BY <1>2, <3>1, <3>2, NodeKinds DEF Assigns, Invocation
  <2>2. Top(n) = next_symbol + 1 /\ Symbol(n) = next_symbol + 1 /\ Bound(n) = PushName(nodes, n.dest.name, next_symbol + 1)
    BY <1>2 DEF Top, Symbol, Bound
  <2>3. n.dest.name \in Name
    BY <2>1 DEF Decl
  <2>4. Bound(n) \in Seq(BoundName(next_symbol + 1)) /\ Len(Bound(n)) = Len(nodes) + 1
    BY <1>1, <2>2, <2>3, NamePushed
  <2>5. next_symbol + 1 \in Nat /\ insts \in Seq(Inst(next_symbol + 1))
    BY <1>1, MoreSymbols
  <2>. QED BY <1>1, <2>2, <2>4, <2>5
<1>3. CASE ~Assigns(n)
  <2>1. Top(n) = next_symbol /\ Symbol(n) = 0 /\ Bound(n) = nodes
    BY <1>3 DEF Top, Symbol, Bound
  <2>. QED BY <1>1, <1>3, <2>1
<1>. QED BY <1>2, <1>3

LEMMA InvokeStep ==
  ASSUME Walk, Invoke, ~SkipAssignment(body[pos])
  PROVE  Walk'
<1>1. PICK n : n = body[pos]
  OBVIOUS
<1>2. Visit("invocation")
  BY DEF Invoke
<1>3. /\ n \in Node /\ n.kind = "invocation" /\ pos \in 1 .. Len(body) /\ ~aborted
      /\ TreeOK /\ Control /\ StreamOK /\ Counted /\ InBody
      /\ AppendedAt[pos] = 1 /\ SymbolsAt[pos] = (IF n.dest = NoDecl THEN 0 ELSE 1)
      /\ next_symbol \in Nat /\ Len(insts) \in Nat /\ Len(nodes) \in Nat
  BY <1>1, <1>2, Visited, NodeCounts
<1>4. PICK top : /\ top = Top(n) /\ top \in Nat /\ next_symbol <= top /\ Symbol(n) \in 0 .. top
                 /\ Bound(n) \in Seq(BoundName(top)) /\ Len(Bound(n)) = Len(nodes) + top - next_symbol
                 /\ insts \in Seq(Inst(top))
  BY <1>3, OwnSymbol
<1>5. /\ nodes' = Bound(n) /\ next_symbol' = top
      /\ pos' = pos + 1 /\ UNCHANGED <<table, lambdas, overrun>>
      /\ IF Resolves(n)
           THEN /\ insts' = Append(insts,
                     [kind |-> "invocation", symbol |-> Symbol(n),
                      operands |-> [i \in DOMAIN n.operands |-> FindName(nodes', n.operands[i])]])
                /\ aborted' = ~HasRoom(insts')
                /\ UNCHANGED err
           ELSE err' = TRUE /\ UNCHANGED <<insts, aborted>>
  BY <1>1, <1>4 DEF Invoke, Top
<1>. DEFINE Streamed == /\ insts' \in Seq(Inst(top))
                        /\ Len(insts') <= Len(insts) + 1 /\ Len(insts) <= Len(insts')
                        /\ \A i \in DOMAIN insts : insts'[i] = insts[i]
                        /\ err' \in BOOLEAN /\ (~err' => ~err /\ Len(insts') = Len(insts) + 1)
                        /\ aborted' \in BOOLEAN /\ (aborted' => ~(Len(insts') < cap))
<1>6. ASSUME Resolves(n) PROVE Streamed
  <2>1. PICK e : e = [kind |-> "invocation", symbol |-> Symbol(n),
                      operands |-> [i \in DOMAIN n.operands |-> FindName(nodes', n.operands[i])]]
    OBVIOUS
  <2>2. n.operands \in Seq(Name) /\ Len(n.operands) \in 0 .. 2
    <3>1. n.operands \in BoundedSeq(Name, MaxOperands) /\ MaxOperands \in Nat
      BY <1>3, NodeKinds, CombinatorAssumption DEF Invocation
    <3>2. Len(n.operands) <= 2
      BY <1>6 DEF Resolves
    <3>3. n.operands \in Seq(Name) /\ Len(n.operands) \in 0 .. MaxOperands
      BY <3>1, BoundedSeqs
    <3>4. \A m \in 0 .. MaxOperands : m <= 2 => m \in 0 .. 2
      BY <3>1
    <3>. QED BY <3>2, <3>3, <3>4
  <2>3. \A i \in DOMAIN n.operands : FindName(nodes', n.operands[i]) \in 1 .. top
    BY <1>4, <1>5, <1>6, FoundIsBound DEF Resolves
  <2>4. PICK u : u = [i \in DOMAIN n.operands |-> FindName(nodes', n.operands[i])]
    OBVIOUS
  <2>5. u \in BoundedSeq(1 .. top, 2)
    <3>1. u \in [1 .. Len(n.operands) -> 1 .. top]
      BY <2>2, <2>3, <2>4
    <3>. QED BY <2>2, <3>1 DEF BoundedSeq, SeqOf
  <2>6. e = [kind |-> "invocation", symbol |-> Symbol(n), operands |-> u]
    BY <2>1, <2>4
  <2>7. e \in Inst(top)
    BY <1>4, <2>5, <2>6 DEF Inst
  <2>8. insts' = Append(insts, e) /\ aborted' = ~HasRoom(insts') /\ UNCHANGED err
    BY <1>5, <1>6, <2>1
  <2>9. /\ insts' \in Seq(Inst(top)) /\ Len(insts') = Len(insts) + 1
        /\ \A i \in DOMAIN insts : insts'[i] = insts[i]
    BY <1>4, <2>7, <2>8
  <2>10. err \in BOOLEAN /\ aborted' \in BOOLEAN /\ (aborted' => ~(Len(insts') < cap))
    BY <1>3, <2>8 DEF HasRoom, Control
  <2>11. err' \in BOOLEAN /\ (~err' => ~err)
    BY <2>8, <2>10
  <2>. QED BY <1>3, <2>9, <2>10, <2>11
<1>7. ASSUME ~Resolves(n) PROVE Streamed
  <2>1. err' = TRUE /\ insts' = insts /\ aborted' = aborted
    BY <1>5, <1>7
  <2>2. err' /\ err' \in BOOLEAN /\ ~aborted' /\ aborted' \in BOOLEAN
    BY <1>3, <2>1 DEF Control
  <2>. QED BY <1>3, <1>4, <2>1, <2>2
<1>8. Streamed
  BY <1>6, <1>7
<1>. HIDE DEF Streamed
<1>9. StreamOK'
  <2>1. ASSUME NEW i \in DOMAIN lambdas PROVE Fits(lambdas[i], insts')
    <3>1. lambdas[i] \in [inst : Nat, n_args : Nat] /\ Fits(lambdas[i], insts) /\ insts \in Seq(Inst(next_symbol))
      BY <1>3, SeqElements DEF StreamOK
    <3>2. /\ insts' \in Seq(Inst(top)) /\ Len(insts) <= Len(insts')
          /\ \A j \in DOMAIN insts : insts'[j].kind = insts[j].kind
      BY <1>8 DEF Streamed
    <3>. QED BY <3>1, <3>2, FitsGrow
  <2>. QED BY <1>3, <1>4, <1>5, <1>8, <2>1 DEF StreamOK, Streamed
<1>10. Open(pos) = Open(pos - 1)
  <2>1. pos \in 0 .. Len(body) /\ pos # 0 /\ body \in Seq(Node)
    BY <1>3 DEF TreeOK
  <2>. QED BY <1>1, <1>3, <2>1, OpenMoves
<1>11. top <= next_symbol + SymbolsAt[pos]
  BY <1>3, <1>4 DEF Assigns, Top
<1>12. Len(nodes') <= next_symbol'
  <2>1. Len(nodes) <= next_symbol
    BY <1>3 DEF InBody
  <2>. QED BY <1>3, <1>4, <1>5, <2>1
<1>13. Advances(pos)
  <2>1. Len(lambdas') = Open(pos)
    BY <1>3, <1>5, <1>10 DEF InBody
  <2>2. table' \subseteq Type /\ overrun' \in BOOLEAN
    BY <1>3, <1>5 DEF Control
  <2>3. Len(insts') <= Len(insts) + AppendedAt[pos] /\ (~err' => ~err /\ pos = pos /\ Len(insts') = Len(insts) + AppendedAt[pos])
    BY <1>3, <1>8 DEF Streamed
  <2>4. err' \in BOOLEAN /\ aborted' \in BOOLEAN /\ (aborted' => overrun' \/ ~(Len(insts') < cap))
    BY <1>8 DEF Streamed
  <2>. QED BY <1>5, <1>9, <1>11, <1>12, <2>1, <2>2, <2>3, <2>4 DEF Advances
<1>. QED BY <1>2, <1>13, Visited, Advance

LEMMA OpenLambdaStep ==
  ASSUME Walk, OpenLambda, ~SkipAssignment(body[pos])
  PROVE  Walk'
<1>1. PICK n : n = body[pos]
  OBVIOUS
<1>2. Visit("lambda")
  BY DEF OpenLambda
<1>3. /\ n \in Node /\ n.kind = "lambda" /\ pos \in 1 .. Len(body) /\ ~aborted /\ n.params \in Seq(Decl)
      /\ n.dest \in Decl /\ n.dest # NoDecl
      /\ TreeOK /\ Control /\ StreamOK /\ Counted /\ InBody
      /\ AppendedAt[pos] = 1 + Len(n.params) /\ SymbolsAt[pos] = 1 + Len(n.params)
      /\ next_symbol \in Nat /\ Len(insts) \in Nat /\ Len(nodes) \in Nat
  BY <1>1, <1>2, Visited, NodeCounts, NodeKinds
<1>4. PICK top : /\ top = next_symbol + 1 /\ Symbol(n) = top
                 /\ Bound(n) \in Seq(BoundName(top)) /\ Len(Bound(n)) = Len(nodes) + 1
  <2>1. Assigns(n) /\ n.kind # "close"
    BY <1>3 DEF Assigns
  <2>2. Top(n) = next_symbol + 1
    BY <2>1 DEF Top
  <2>3. Symbol(n) = Top(n) /\ Bound(n) \in Seq(BoundName(Top(n))) /\ Len(Bound(n)) = Len(nodes) + Top(n) - next_symbol
    BY <1>3, <2>1, OwnSymbol
  <2>. QED BY <1>3, <2>2, <2>3
<1>. DEFINE badOnes == {i \in DOMAIN n.params : n.params[i].type \notin table}
            upTo == IF badOnes = {} THEN Len(n.params) ELSE Min(badOnes)
            kept == IF badOnes = {} THEN upTo ELSE upTo - 1
            namesOf == [i \in 1 .. upTo |-> n.params[i].name]
            new == [i \in 1 .. kept |-> [kind |-> "arg", symbol |-> top + i]]
<1>5. upTo \in 0 .. Len(n.params) /\ kept \in 0 .. upTo /\ Len(n.params) \in Nat
      /\ (badOnes # {} => upTo \in DOMAIN n.params)
      /\ (badOnes = {} => upTo = Len(n.params) /\ kept = upTo)
  <2>1. Len(n.params) \in Nat /\ DOMAIN n.params = 1 .. Len(n.params) /\ badOnes \in SUBSET Nat
    BY <1>3
  <2>2. badOnes # {} => Min(badOnes) \in badOnes
    <3>. HIDE DEF badOnes
    <3>. QED BY <2>1, MinOf
  <2>3. badOnes # {} => upTo \in 1 .. Len(n.params)
    BY <2>1, <2>2
  <2>. HIDE DEF badOnes
  <2>. QED BY <2>1, <2>3
<1>6. PICK b, k : b = upTo /\ k = kept
  OBVIOUS
<1>7. /\ nodes' = PushParams(Bound(n), namesOf, top)
      /\ next_symbol' = top + b
      /\ insts' = Append(insts, [kind |-> "lambda", symbol |-> top, body_len |-> 0]) \o new
      /\ aborted' = ~HasRoom(insts')
      /\ IF badOnes = {}
           THEN /\ lambdas' = Append(lambdas, [inst |-> Len(insts) + 1, n_args |-> b])
                /\ pos' = pos + 1
                /\ UNCHANGED <<table, err>>
           ELSE /\ table' = table \union {n.params[b].type}
                /\ err' = TRUE
                /\ pos' = CloseOf(pos) + 1
                /\ UNCHANGED lambdas
      /\ UNCHANGED overrun
  BY <1>1, <1>4, <1>6 DEF OpenLambda
<1>8. PICK names : names = namesOf /\ names \in Seq(Name) /\ Len(names) = b
  <2>1. \A i \in 1 .. b : n.params[i].name \in Name
    <3>1. \A i \in 1 .. b : n.params[i] \in Decl
      <4>. HIDE DEF badOnes, upTo, kept
      <4>. QED BY <1>3, <1>5, <1>6
    <3>. QED BY <3>1 DEF Decl
  <2>2. b \in Nat
    BY <1>5, <1>6
  <2>3. PICK names : names = [i \in 1 .. b |-> n.params[i].name]
    OBVIOUS
  <2>4. names \in Seq(Name) /\ Len(names) = b
    BY <2>1, <2>2, <2>3
  <2>. QED BY <1>6, <2>3, <2>4
<1>9. PICK args2 : args2 = new /\ args2 \in Seq(Inst(top + b)) /\ Len(args2) = k
  <2>1. b \in Nat /\ k \in 0 .. b /\ k \in Nat /\ top \in Nat
    <3>. HIDE DEF badOnes, upTo, kept
    <3>. QED BY <1>3, <1>4, <1>5, <1>6
  <2>2. ASSUME NEW i \in 1 .. k PROVE [kind |-> "arg", symbol |-> top + i] \in Inst(top + b)
    <3>1. top + i \in 1 .. top + b
      BY <2>1
    <3>. QED BY <3>1 DEF Inst
  <2>3. PICK args2 : args2 = [i \in 1 .. k |-> [kind |-> "arg", symbol |-> top + i]]
    OBVIOUS
  <2>4. args2 \in Seq(Inst(top + b)) /\ Len(args2) = k
    <3>1. PICK S : S = Inst(top + b)
      OBVIOUS
    <3>2. args2 \in [1 .. k -> S]
      BY <2>2, <2>3, <3>1
    <3>3. args2 \in Seq(S) /\ Len(args2) = k
      BY <2>1, <3>2
    <3>. QED BY <3>1, <3>3
  <2>. QED BY <1>6, <2>3, <2>4
<1>10. PICK bad : bad = (badOnes # {}) /\ bad \in BOOLEAN
  OBVIOUS
<1>11. /\ nodes' = PushParams(Bound(n), names, top)
       /\ insts' = Append(insts, [kind |-> "lambda", symbol |-> top, body_len |-> 0]) \o args2
       /\ ~bad => /\ lambdas' = Append(lambdas, [inst |-> Len(insts) + 1, n_args |-> b])
                  /\ pos' = pos + 1
                  /\ UNCHANGED <<table, err>>
       /\ bad => /\ table' = table \union {n.params[b].type}
                 /\ err' = TRUE
                 /\ pos' = CloseOf(pos) + 1
                 /\ UNCHANGED lambdas
  BY <1>7, <1>8, <1>9, <1>10
<1>12. /\ b \in 0 .. Len(n.params) /\ k \in 0 .. b /\ b \in Nat /\ k \in Nat /\ top \in Nat /\ Len(n.params) \in Nat
       /\ ~bad => b = Len(n.params) /\ k = b
       /\ bad => b \in DOMAIN n.params
  <2>1. ~bad => badOnes = {}
    BY <1>10
  <2>2. bad => badOnes # {}
    BY <1>10
  <2>. HIDE DEF badOnes, upTo, kept
  <2>. QED BY <1>3, <1>4, <1>5, <1>6, <2>1, <2>2
<1>13. next_symbol' = top + b /\ aborted' = ~HasRoom(insts') /\ UNCHANGED overrun
  BY <1>7
<1>. HIDE DEF badOnes, upTo, kept, namesOf, new
<1>14. nodes' \in Seq(BoundName(top + b)) /\ Len(nodes') = Len(nodes) + 1 + b
  <2>1. PushParams(Bound(n), names, top) \in Seq(BoundName(top + b))
    BY <1>4, <1>8, <1>12, ParamsPushed
  <2>2. Len(PushParams(Bound(n), names, top)) = Len(nodes) + 1 + b
    BY <1>4, <1>8, <1>12, ParamsPushed
  <2>. QED BY <1>11, <2>1, <2>2
<1>15. /\ insts' \in Seq(Inst(top + b)) /\ Len(insts') = Len(insts) + 1 + k
       /\ \A i \in DOMAIN insts : insts'[i] = insts[i]
       /\ Len(insts) + 1 \in DOMAIN insts' /\ insts'[Len(insts) + 1].kind = "lambda"
  <2>1. PICK e : e = [kind |-> "lambda", symbol |-> top, body_len |-> 0]
    OBVIOUS
  <2>2. e \in Inst(top + b) /\ e.kind = "lambda"
    BY <1>12, <2>1 DEF Inst
  <2>3. insts \in Seq(Inst(top + b))
    <3>1. insts \in Seq(Inst(next_symbol)) /\ next_symbol <= top + b /\ top + b \in Nat
      BY <1>3, <1>4, <1>12 DEF StreamOK
    <3>. QED BY <1>3, <3>1, MoreSymbols
  <2>4. PICK S : S = Inst(top + b)
    OBVIOUS
  <2>5. insts \in Seq(S) /\ args2 \in Seq(S) /\ e \in S /\ insts' = Append(insts, e) \o args2
    BY <1>9, <1>11, <2>1, <2>2, <2>3, <2>4
  <2>6. PICK m : /\ m = Append(insts, e) /\ m \in Seq(S) /\ Len(m) = Len(insts) + 1
                 /\ m[Len(insts) + 1] = e /\ \A i \in DOMAIN insts : m[i] = insts[i]
    <3>1. Append(insts, e) \in Seq(S) /\ Len(Append(insts, e)) = Len(insts) + 1
      BY <2>5
    <3>2. Append(insts, e)[Len(insts) + 1] = e /\ \A i \in DOMAIN insts : Append(insts, e)[i] = insts[i]
      BY <2>5
    <3>. QED BY <3>1, <3>2
  <2>7. insts' = m \o args2
    BY <2>5, <2>6
  <2>8. /\ insts' \in Seq(S) /\ Len(insts') = Len(m) + k
        /\ \A i \in 1 .. Len(m) : insts'[i] = m[i]
    BY <1>9, <1>12, <2>5, <2>6, <2>7
  <2>9. Len(insts) + 1 \in 1 .. Len(m) /\ DOMAIN insts = 1 .. Len(insts) /\ DOMAIN insts' = 1 .. Len(insts')
    BY <1>3, <2>5, <2>6, <2>8
  <2>10. \A i \in DOMAIN insts : insts'[i] = insts[i]
    BY <1>3, <2>6, <2>8, <2>9
  <2>11. insts'[Len(insts) + 1] = e
    BY <2>6, <2>8, <2>9
  <2>12. Len(insts') = Len(insts) + 1 + k /\ Len(insts) + 1 \in DOMAIN insts'
    BY <1>3, <1>12, <2>6, <2>8, <2>9
  <2>. QED BY <2>2, <2>4, <2>8, <2>10, <2>11, <2>12
<1>16. StreamOK'
  <2>1. PICK l : l = [inst |-> Len(insts) + 1, n_args |-> b]
    OBVIOUS
  <2>2. l \in [inst : Nat, n_args : Nat]
    BY <1>3, <1>12, <2>1
  <2>4. ~bad => Fits(l, insts')
    BY <1>3, <1>12, <1>15, <2>1 DEF Fits
  <2>5. ASSUME NEW i \in DOMAIN lambdas PROVE Fits(lambdas[i], insts')
    <3>1. lambdas[i] \in [inst : Nat, n_args : Nat] /\ Fits(lambdas[i], insts) /\ insts \in Seq(Inst(next_symbol))
      BY <1>3, SeqElements DEF StreamOK
    <3>2. /\ insts' \in Seq(Inst(top + b)) /\ Len(insts) <= Len(insts')
          /\ \A j \in DOMAIN insts : insts'[j].kind = insts[j].kind
      BY <1>3, <1>12, <1>15
    <3>. QED BY <3>1, <3>2, FitsGrow
  <2>6. lambdas \in Seq([inst : Nat, n_args : Nat])
    BY <1>3 DEF StreamOK
  <2>7. lambdas' \in Seq([inst : Nat, n_args : Nat]) /\ \A i \in DOMAIN lambdas' : Fits(lambdas'[i], insts')
    <3>1. CASE bad
      BY <1>11, <2>5, <2>6, <3>1
    <3>2. CASE ~bad
      <4>1. lambdas' = Append(lambdas, l)
        BY <1>11, <2>1, <3>2
      <4>2. PICK S, q : S = [inst : Nat, n_args : Nat] /\ q = lambdas
        OBVIOUS
      <4>3. q \in Seq(S) /\ l \in S
        BY <2>2, <2>6, <4>2
      <4>4. /\ Append(q, l) \in Seq(S)
            /\ \A i \in DOMAIN Append(q, l) : (i \in DOMAIN q /\ Append(q, l)[i] = q[i]) \/ Append(q, l)[i] = l
        BY <4>3
      <4>. QED BY <2>4, <2>5, <3>2, <4>1, <4>2, <4>4
    <3>. QED BY <1>10, <3>1, <3>2
  <2>8. next_symbol' \in Nat /\ next_symbol' = top + b
    BY <1>12, <1>13
  <2>. QED BY <1>14, <1>15, <2>7, <2>8 DEF StreamOK
<1>17. PICK q \in pos .. Len(body) : /\ pos' = q + 1 /\ Len(lambdas') = Open(q)
                                     /\ ~bad => q = pos
  <2>1. pos \in 0 .. Len(body) /\ pos # 0 /\ body \in Seq(Node) /\ pos \in DOMAIN body /\ pos \in pos .. Len(body)
    BY <1>3 DEF TreeOK
  <2>2. Len(lambdas) = Open(pos - 1) /\ lambdas \in Seq([inst : Nat, n_args : Nat])
    BY <1>3 DEF InBody, StreamOK
  <2>3. CASE bad
    <3>1. CloseOf(pos) \in pos + 1 .. Len(body) /\ Open(CloseOf(pos)) = Open(pos - 1)
      BY <1>1, <1>3, <2>1, MatchingClose DEF Counted
    <3>2. CloseOf(pos) \in pos .. Len(body)
      BY <1>3, <3>1
    <3>. QED BY <1>11, <2>2, <2>3, <3>1, <3>2
  <2>4. CASE ~bad
    <3>1. Open(pos) = Open(pos - 1) + 1
      BY <1>1, <1>3, <2>1, OpenMoves
    <3>2. Len(lambdas') = Len(lambdas) + 1
      <4>1. PICK l : l = [inst |-> Len(insts) + 1, n_args |-> b]
        OBVIOUS
      <4>2. l \in [inst : Nat, n_args : Nat] /\ lambdas' = Append(lambdas, l)
        BY <1>3, <1>11, <1>12, <2>4, <4>1
      <4>. QED BY <2>2, <4>2
    <3>. QED BY <1>11, <2>1, <2>2, <2>4, <3>1, <3>2
  <2>. QED BY <1>10, <2>3, <2>4
<1>18. table' \subseteq Type /\ err' \in BOOLEAN /\ (~err' => ~err /\ ~bad)
  <2>1. table \subseteq Type /\ err \in BOOLEAN
    BY <1>3 DEF Control
  <2>2. CASE bad
    <3>1. n.params[b] \in Decl
      BY <1>3, <1>12, <2>2
    <3>2. n.params[b].type \in Type
      BY <3>1 DEF Decl
    <3>. QED BY <1>11, <2>1, <2>2, <3>2
  <2>3. CASE ~bad
    BY <1>11, <2>1, <2>3
  <2>. QED BY <1>10, <2>2, <2>3
<1>19. Advances(q)
  <2>1. PICK p, i, j, x : p = Len(n.params) /\ i = Len(insts) /\ j = Len(insts') /\ x = AppendedAt[pos]
    OBVIOUS
  <2>2. p \in Nat /\ i \in Nat /\ j = i + 1 + k /\ x = 1 + p /\ k \in 0 .. b /\ b \in 0 .. p
    BY <1>3, <1>12, <1>15, <2>1
  <2>3. j <= i + x
    BY <2>2
  <2>4. ~bad => j = i + x
    BY <1>12, <2>1, <2>2
  <2>5. Len(insts') <= Len(insts) + AppendedAt[pos] /\ (~bad => Len(insts') = Len(insts) + AppendedAt[pos])
    BY <2>1, <2>3, <2>4
  <2>6. next_symbol' <= next_symbol + SymbolsAt[pos]
    BY <1>3, <1>4, <1>12, <1>13
  <2>7. Len(nodes') <= next_symbol'
    <3>1. Len(nodes) <= next_symbol
      BY <1>3 DEF InBody
    <3>. QED BY <1>3, <1>4, <1>12, <1>13, <1>14, <3>1
  <2>8. overrun' \in BOOLEAN /\ aborted' \in BOOLEAN /\ (aborted' => ~(Len(insts') < cap))
    BY <1>3, <1>13 DEF Control, HasRoom
  <2>9. ~err' => ~err /\ q = pos /\ Len(insts') = Len(insts) + AppendedAt[pos]
    BY <1>17, <1>18, <2>5
  <2>. QED BY <1>16, <1>17, <1>18, <2>5, <2>6, <2>7, <2>8, <2>9 DEF Advances
<1>. QED BY <1>2, <1>19, Visited, Advance

LEMMA CloseLambdaStep ==
  ASSUME Walk, CloseLambda
  PROVE  Walk'
<1>1. PICK n : n = body[pos]
  OBVIOUS
<1>2. Visit("close")
  BY DEF CloseLambda
<1>3. /\ n \in Node /\ n.kind = "close" /\ pos \in 1 .. Len(body) /\ ~aborted
      /\ TreeOK /\ Control /\ StreamOK /\ Counted /\ InBody
      /\ AppendedAt[pos] = 0 /\ SymbolsAt[pos] = 0
      /\ next_symbol \in Nat /\ Len(insts) \in Nat /\ Len(nodes) \in Nat
  BY <1>1, <1>2, Visited, NodeCounts
<1>4. /\ insts \in Seq(Inst(next_symbol)) /\ nodes \in Seq(BoundName(next_symbol))
      /\ lambdas \in Seq([inst : Nat, n_args : Nat]) /\ \A i \in DOMAIN lambdas : Fits(lambdas[i], insts)
  BY <1>3 DEF StreamOK
<1>5. Len(lambdas) = Open(pos) + 1 /\ Open(pos) \in Nat
  <2>1. pos \in 0 .. Len(body) /\ pos # 0 /\ body \in Seq(Node)
    BY <1>3 DEF TreeOK
  <2>2. Open(pos) = Open(pos - 1) - 1 /\ Open(pos) \in Int
    BY <1>1, <1>3, <2>1, OpenMoves
  <2>3. Open(pos) >= 0
    BY <1>3, <2>1 DEF TreeOK
  <2>4. Len(lambdas) = Open(pos - 1) /\ Len(lambdas) \in Nat
    BY <1>3, <1>4 DEF InBody
  <2>. QED BY <2>2, <2>3, <2>4
<1>6. PICK l : /\ l = Last(lambdas) /\ l \in [inst : Nat, n_args : Nat] /\ Fits(l, insts)
  <2>1. Len(lambdas) \in DOMAIN lambdas
    BY <1>4, <1>5
  <2>. QED BY <1>4, <2>1, SeqElements DEF Last
<1>7. /\ nodes' = PopNames(nodes)
      /\ insts' = [insts EXCEPT ![l.inst].body_len = BodyLen(l)]
      /\ IF nodes' = <<>> THEN overrun' = TRUE /\ aborted' \in BOOLEAN
                          ELSE UNCHANGED <<overrun, aborted>>
      /\ lambdas' = Front(lambdas)
      /\ pos' = pos + 1
      /\ UNCHANGED <<table, next_symbol, err>>
  BY <1>6 DEF CloseLambda
<1>8. BodyLen(l) \in Nat
  <2>1. l.inst \in Nat /\ l.n_args \in Nat /\ l.inst + l.n_args <= Len(insts)
    BY <1>6 DEF Fits
  <2>. QED BY <1>3, <2>1 DEF BodyLen
<1>9. /\ insts' \in Seq(Inst(next_symbol)) /\ Len(insts') = Len(insts)
      /\ \A i \in DOMAIN insts : insts'[i].kind = insts[i].kind
  <2>1. PICK i, m : i = l.inst /\ m = BodyLen(l)
    OBVIOUS
  <2>2. i \in DOMAIN insts /\ insts[i].kind = "lambda"
    BY <1>6, <2>1 DEF Fits
  <2>3. insts[i] \in Inst(next_symbol)
    BY <1>4, <2>2, SeqElements
  <2>4. insts[i] \in [kind : {"lambda"}, symbol : 0 .. next_symbol, body_len : Nat]
    BY <2>2, <2>3 DEF Inst
  <2>5. PICK e : e = [insts[i] EXCEPT !.body_len = m]
    OBVIOUS
  <2>6. e \in [kind : {"lambda"}, symbol : 0 .. next_symbol, body_len : Nat] /\ e.kind = "lambda"
    BY <1>8, <2>1, <2>4, <2>5
  <2>7. e \in Inst(next_symbol)
    BY <2>6 DEF Inst
  <2>8. insts' = [insts EXCEPT ![i] = e]
    BY <1>7, <2>1, <2>5
  <2>9. PICK S : S = Inst(next_symbol)
    OBVIOUS
  <2>10. insts \in Seq(S) /\ e \in S
    BY <1>4, <2>7, <2>9
  <2>11. /\ insts' \in Seq(S) /\ Len(insts') = Len(insts)
         /\ \A j \in DOMAIN insts : insts'[j] = IF j = i THEN e ELSE insts[j]
    BY <2>2, <2>8, <2>10
  <2>. QED BY <2>2, <2>6, <2>9, <2>11
<1>10. PICK S, q : S = [inst : Nat, n_args : Nat] /\ q = lambdas
  OBVIOUS
<1>11. /\ lambdas' \in Seq(S) /\ Len(lambdas') = Open(pos)
       /\ \A i \in DOMAIN lambdas' : i \in DOMAIN lambdas /\ lambdas'[i] = lambdas[i]
  <2>1. q \in Seq(S) /\ Len(q) = Open(pos) + 1 /\ lambdas' = SubSeq(q, 1, Len(q) - 1)
    BY <1>4, <1>5, <1>7, <1>10 DEF Front
  <2>2. PICK m \in Nat : m = Open(pos)
    BY <1>5
  <2>3. Len(q) = m + 1 /\ Len(q) - 1 = m
    BY <2>1, <2>2
  <2>4. lambdas' = SubSeq(q, 1, m)
    BY <2>1, <2>3
  <2>5. m \in 0 .. Len(q)
    BY <2>2, <2>3
  <2>6. lambdas' \in Seq(S) /\ Len(lambdas') = m /\ \A i \in 1 .. m : lambdas'[i] = q[i]
    BY <2>1, <2>4, <2>5, SplitElements
  <2>7. DOMAIN lambdas' = 1 .. m /\ \A i \in 1 .. m : i \in DOMAIN q
    BY <2>1, <2>2, <2>3, <2>6
  <2>. QED BY <1>10, <2>2, <2>6, <2>7
<1>12. StreamOK'
  <2>1. ASSUME NEW i \in DOMAIN lambdas' PROVE Fits(lambdas'[i], insts')
    <3>1. i \in DOMAIN lambdas /\ lambdas'[i] = lambdas[i]
      BY <1>11
    <3>2. lambdas[i] \in [inst : Nat, n_args : Nat] /\ Fits(lambdas[i], insts)
      BY <1>4, <3>1, SeqElements
    <3>3. Len(insts) <= Len(insts')
      BY <1>3, <1>9
    <3>4. Fits(lambdas[i], insts')
      BY <1>4, <1>9, <3>2, <3>3, FitsGrow
    <3>. QED BY <3>1, <3>4
  <2>2. nodes' \in Seq(BoundName(next_symbol))
    BY <1>3, <1>4, <1>7, NamesPopped
  <2>. QED BY <1>3, <1>7, <1>9, <1>10, <1>11, <2>1, <2>2 DEF StreamOK
<1>13. Len(nodes') <= next_symbol'
  <2>1. Len(nodes) <= next_symbol
    BY <1>3 DEF InBody
  <2>2. Len(nodes') <= Len(nodes)
    BY <1>3, <1>4, <1>7, NamesPopped
  <2>3. Len(nodes') \in Nat /\ next_symbol' = next_symbol
    BY <1>7, <1>12 DEF StreamOK
  <2>. QED BY <1>3, <2>1, <2>2, <2>3
<1>14. Advances(pos)
  <2>1. overrun' \in BOOLEAN /\ aborted' \in BOOLEAN /\ (aborted' => overrun')
    <3>1. overrun \in BOOLEAN /\ aborted \in BOOLEAN
      BY <1>3 DEF Control
    <3>2. CASE nodes' = <<>>
      BY <1>7, <3>2
    <3>3. CASE nodes' # <<>>
      BY <1>3, <1>7, <3>1, <3>3
    <3>. QED BY <3>2, <3>3
  <2>2. table' \subseteq Type /\ err' \in BOOLEAN /\ (~err' => ~err)
    BY <1>3, <1>7 DEF Control
  <2>3. Len(insts') = Len(insts) + AppendedAt[pos] /\ Len(insts') <= Len(insts) + AppendedAt[pos]
    BY <1>3, <1>9
  <2>4. next_symbol' <= next_symbol + SymbolsAt[pos]
    BY <1>3, <1>7
  <2>. QED BY <1>7, <1>11, <1>12, <1>13, <2>1, <2>2, <2>3, <2>4 DEF Advances
<1>. QED BY <1>2, <1>14, Visited, Advance

LEMMA ParseArgStep ==
  ASSUME Walk, NEW d \in Decl, ParseArg(d)
  PROVE  Walk'
<1>1. /\ phase = "parse" /\ TreeOK /\ Control /\ NothingYet /\ StreamOK
      /\ args' = Append(args, d)
      /\ UNCHANGED <<body, phase, pos, countVars, walkVars, failVars>>
  BY DEF ParseArg, Walk
<1>2. UNCHANGED <<body, phase, pos, cap, max_symbol, table, insts, nodes, next_symbol, lambdas, err, overrun, aborted>>
  BY <1>1 DEF countVars, walkVars, failVars
<1>3. TreeOK'
  BY <1>1, <1>2 DEF TreeOK, Open, KindsIn
<1>4. Len(args') \in Nat /\ Len(body') \in Nat
  BY <1>3 DEF TreeOK
<1>5. NothingYet'
  BY <1>1, <1>2 DEF NothingYet
<1>6. Control'
  BY <1>1, <1>2, <1>4, <1>5 DEF Control, NothingYet
<1>7. StreamOK'
  BY <1>1, <1>2 DEF StreamOK
<1>8. InstsFit' /\ CompleteUnlessError'
  BY <1>1, <1>2, <1>5 DEF InstsFit, CompleteUnlessError, NothingYet
<1>. QED BY <1>1, <1>2, <1>3, <1>5, <1>6, <1>7, <1>8 DEF Walk

LEMMA ParseNodeStep ==
  ASSUME Walk, NEW n \in Node, ParseNode(n)
  PROVE  Walk'
<1>1. /\ phase = "parse" /\ TreeOK /\ Control /\ NothingYet /\ StreamOK
      /\ n.kind = "close" => Open(Len(body)) > 0
      /\ body' = Append(body, n)
      /\ UNCHANGED <<args, phase, pos, countVars, walkVars, failVars>>
  BY DEF ParseNode, Walk
<1>2. UNCHANGED <<args, phase, pos, cap, max_symbol, table, insts, nodes, next_symbol, lambdas, err, overrun, aborted>>
  BY <1>1 DEF countVars, walkVars, failVars
<1>3. PICK m, q : /\ m = Len(body) /\ m \in Nat /\ q = body' /\ q \in Seq(Node) /\ Len(q) = m + 1 /\ q[m + 1] = n
                  /\ \A i \in 1 .. m : q[i] = body[i]
  <2>1. body \in Seq(Node)
    BY <1>1 DEF TreeOK
  <2>2. /\ Append(body, n) \in Seq(Node) /\ Len(Append(body, n)) = Len(body) + 1
        /\ Append(body, n)[Len(body) + 1] = n
    BY <2>1
  <2>3. \A i \in 1 .. Len(body) : Append(body, n)[i] = body[i]
    BY <2>1
  <2>4. Len(body) \in Nat
    BY <2>1
  <2>. QED BY <1>1, <2>2, <2>3, <2>4
<1>4. ASSUME NEW p \in 0 .. m + 1 PROVE OpenOf(q, p) >= 0
  <2>1. \A k \in 0 .. m : OpenOf(q, k) = Open(k) /\ Open(k) \in Int /\ Open(k) >= 0
    <3>1. ASSUME NEW k \in 0 .. m PROVE OpenOf(q, k) = Open(k) /\ Open(k) \in Int /\ Open(k) >= 0
      <4>1. k \in Nat /\ k \in 0 .. Len(body) /\ \A i \in 1 .. k : q[i] = body[i]
        BY <1>3
      <4>2. OpenOf(q, k) = OpenOf(body, k)
        BY <4>1, SamePrefix
      <4>3. OpenOf(body, k) = Open(k)
        BY DEF OpenOf, Open, KindsOf, KindsIn
      <4>4. Open(k) \in Int /\ Open(k) >= 0
        BY <1>1, <4>1, OpenMoves DEF TreeOK
      <4>. QED BY <4>2, <4>3, <4>4
    <3>. QED BY <3>1
  <2>2. CASE p \in 0 .. m
    BY <2>1, <2>2
  <2>3. CASE p = m + 1
    <3>1. OpenOf(q, p) = OpenOf(q, m) +
            (IF n.kind = "lambda" THEN 1 ELSE IF n.kind = "close" THEN -1 ELSE 0)
      <4>1. p \in Nat /\ p # 0 /\ p - 1 = m /\ q[p] = n
        BY <1>3, <2>3
      <4>. QED BY <4>1, OpenGrows
    <3>2. OpenOf(q, m) \in Int /\ OpenOf(q, m) >= 0 /\ (n.kind = "close" => OpenOf(q, m) > 0)
      <4>1. m \in 0 .. m
        BY <1>3
      <4>. QED BY <1>1, <1>3, <2>1, <4>1
    <3>. QED BY <3>1, <3>2
  <2>. QED BY <1>3, <2>2, <2>3
<1>5. TreeOK'
  <2>1. \A p : Open(p)' = OpenOf(q, p)
    BY <1>3 DEF Open, OpenOf, KindsIn, KindsOf
  <2>2. \A p \in 0 .. Len(body') : Open(p)' >= 0
    BY <1>3, <1>4, <2>1
  <2>3. args' \in Seq(Decl) /\ body' \in Seq(Node)
    BY <1>1, <1>2, <1>3 DEF TreeOK
  <2>. QED BY <2>2, <2>3 DEF TreeOK
<1>6. Len(args') \in Nat /\ Len(body') \in Nat
  BY <1>5 DEF TreeOK
<1>7. NothingYet'
  BY <1>1, <1>2 DEF NothingYet
<1>8. Control'
  BY <1>1, <1>2, <1>6, <1>7 DEF Control, NothingYet
<1>9. StreamOK'
  BY <1>1, <1>2 DEF StreamOK
<1>10. InstsFit' /\ CompleteUnlessError'
  BY <1>1, <1>2, <1>7 DEF InstsFit, CompleteUnlessError, NothingYet
<1>. QED BY <1>1, <1>2, <1>5, <1>7, <1>8, <1>9, <1>10 DEF Walk

LEMMA CountStep ==
  ASSUME Walk, Count
  PROVE  Walk'
<1>1. /\ phase = "parse" /\ Open(Len(body)) = 0 /\ TreeOK /\ Control /\ NothingYet /\ StreamOK
      /\ UNCHANGED <<treeVars, pos, table, nodes, next_symbol, lambdas, overrun>>
  BY DEF Count, Walk
<1>2. args' = args /\ body' = body /\ TreeOK' /\ Open(Len(body))' = Open(Len(body))
  BY <1>1, SameTree DEF treeVars
<1>3. Len(args) \in Nat /\ Len(body) \in Nat /\ CountedInsts \in Nat /\ CountedSymbols \in Nat
  BY <1>1, CountedTotals
<1>4. CASE args = <<>>
  <2>1. err' = TRUE /\ phase' = "done" /\ UNCHANGED <<countVars, insts, aborted>>
    BY <1>4 DEF Count
  <2>2. StreamOK'
    BY <1>1, <2>1 DEF StreamOK, Fits
  <2>3. Control'
    <3>1. pos' \in 1 .. Len(args') + Len(body') + 1
      BY <1>1, <1>2 DEF Control
    <3>2. err' \in BOOLEAN /\ overrun' \in BOOLEAN /\ aborted' \in BOOLEAN
      BY <1>1, <2>1 DEF Control
    <3>. QED BY <1>1, <2>1, <3>1, <3>2 DEF Control, countVars
  <2>4. ~aborted' /\ err'
    BY <1>1, <2>1 DEF NothingYet
  <2>. QED BY <1>2, <2>1, <2>2, <2>3, <2>4 DEF Walk, InstsFit, CompleteUnlessError
<1>5. CASE args # <<>>
  <2>1. /\ cap' = CountedInsts + Len(args)
        /\ max_symbol' = CountedSymbols
        /\ insts' = <<[kind |-> "lambda", symbol |-> 0, body_len |-> CountedInsts]>>
        /\ aborted' = ~(1 < cap')
        /\ phase' = "args"
        /\ UNCHANGED err
    BY <1>5 DEF Count
  <2>2. next_symbol = 0 /\ nodes = <<>> /\ lambdas = <<>> /\ pos = 1 /\ ~err /\ ~overrun
    BY <1>1 DEF NothingYet
  <2>3. Counted'
    BY <1>1, <1>2, <1>5, <2>1, SameTree DEF Counted
  <2>4. PICK e : e = [kind |-> "lambda", symbol |-> 0, body_len |-> CountedInsts] /\ e \in Inst(0)
    <3>1. PICK c \in Nat : c = CountedInsts
      BY <1>3
    <3>2. [kind |-> "lambda", symbol |-> 0, body_len |-> c] \in Inst(0)
      BY DEF Inst
    <3>. QED BY <3>1, <3>2
  <2>5. insts' \in Seq(Inst(0)) /\ Len(insts') = 1
    <3>1. insts' = <<e>>
      BY <2>1, <2>4
    <3>. QED BY <2>4, <3>1
  <2>6. StreamOK'
    BY <1>1, <2>2, <2>5 DEF StreamOK
  <2>7. InArgs'
    <3>1. Len(args) \in Nat /\ 1 \in 1 .. Len(args) + 1
      BY <1>3
    <3>2. pos' = 1 /\ next_symbol' = 0 /\ nodes' = <<>> /\ lambdas' = <<>> /\ args' = args
      BY <1>1, <1>2, <2>2
    <3>3. ~err' /\ ~overrun'
      BY <1>1, <2>1, <2>2
    <3>4. next_symbol' = pos' - 1 /\ Len(insts') = pos' /\ Len(nodes') = pos' - 1
      BY <2>5, <3>2
    <3>. QED BY <3>1, <3>2, <3>3, <3>4 DEF InArgs
  <2>8. Control'
    <3>1. pos' \in 1 .. Len(args') + Len(body') + 1
      BY <1>1, <1>2 DEF Control
    <3>2. err' \in BOOLEAN /\ overrun' \in BOOLEAN /\ aborted' \in BOOLEAN
      BY <1>1, <2>1 DEF Control
    <3>3. cap' \in Nat /\ max_symbol' \in Nat
      BY <1>3, <2>1
    <3>. QED BY <1>1, <2>1, <3>1, <3>2, <3>3 DEF Control
  <2>9. InstsFit'
    <3>1. SUFFICES ASSUME aborted' PROVE Len(args) = 1 /\ KindsIn(Len(body), "lambda") = 0
      <4>1. KindsIn(Len(body), "lambda")' = KindsIn(Len(body), "lambda")
        BY <1>2 DEF KindsIn
      <4>. QED BY <1>2, <4>1 DEF InstsFit
    <3>2. ~(1 < cap')
      BY <2>1, <3>1
    <3>4. CountedInsts = Len(args) + Total(InstsAt, Len(body)) /\ Len(args) # 0
      BY <1>1, <1>5, CountedTotals DEF TreeOK
    <3>5. PICK u, k, n : u = Total(InstsAt, Len(body)) /\ k = KindsIn(Len(body), "lambda") /\ n = Len(args)
      OBVIOUS
    <3>6. PICK a : a = Total(AppendedAt, Len(body)) /\ u = a + k /\ k \in Nat
      BY <1>1, <3>5, AppendedAreFewer
    <3>7. a \in Nat
      <4>1. Len(body) \in 0 .. Len(body)
        BY <1>3
      <4>. QED BY <1>1, <3>6, <4>1, TreeTotals, TreeCounts
    <3>8. n = 1 /\ k = 0
      <4>1. n \in Nat /\ n # 0 /\ cap' = n + u + n
        BY <1>3, <2>1, <3>4, <3>5
      <4>. QED BY <3>2, <3>6, <3>7, <4>1
    <3>. QED BY <3>5, <3>8
  <2>10. CompleteUnlessError'
    BY <2>1 DEF CompleteUnlessError
  <2>. QED BY <1>2, <2>1, <2>3, <2>6, <2>7, <2>8, <2>9, <2>10 DEF Walk
<1>. QED BY <1>4, <1>5

LEMMA RecordArgStep ==
  ASSUME Walk, RecordArg
  PROVE  Walk'
<1>1. /\ phase = "args" /\ ~aborted /\ pos <= Len(args)
      /\ TreeOK /\ Control /\ InArgs /\ StreamOK /\ Counted
      /\ UNCHANGED <<treeVars, countVars, table, lambdas, overrun>>
  BY DEF RecordArg, Walk
<1>2. args' = args /\ body' = body /\ TreeOK' /\ cap' = cap /\ max_symbol' = max_symbol
  BY <1>1, SameTree DEF treeVars, countVars
<1>3. PICK n : n = Len(args) /\ n \in Nat /\ pos \in 1 .. n /\ Len(body) \in Nat
  BY <1>1 DEF TreeOK, InArgs
<1>4. PICK arg \in Decl : arg = args[pos]
  BY <1>1, <1>3 DEF TreeOK
<1>. DEFINE Fails == Found(nodes, arg.name) \/ arg.type \notin table
<1>5. ASSUME Fails PROVE Walk'
  <2>1. err' = TRUE /\ phase' = "done" /\ UNCHANGED <<pos, insts, nodes, next_symbol, aborted>>
    BY <1>4, <1>5 DEF RecordArg
  <2>2. StreamOK'
    BY <1>1, <2>1 DEF StreamOK, Fits
  <2>3. Control'
    <3>1. pos' \in 1 .. Len(args') + Len(body') + 1
      BY <1>1, <1>2, <2>1 DEF Control
    <3>2. err' \in BOOLEAN /\ overrun' \in BOOLEAN /\ aborted' \in BOOLEAN
      BY <1>1, <2>1 DEF Control
    <3>. QED BY <1>1, <1>2, <2>1, <3>1, <3>2 DEF Control
  <2>4. ~aborted' /\ err'
    BY <1>1, <2>1
  <2>. QED BY <1>2, <2>1, <2>2, <2>3, <2>4 DEF Walk, InstsFit, CompleteUnlessError
<1>6. ASSUME ~Fails PROVE Walk'
  <2>1. /\ next_symbol' = next_symbol + 1
        /\ nodes' = PushName(nodes, arg.name, next_symbol + 1)
        /\ insts' = Append(insts, [kind |-> "arg", symbol |-> next_symbol + 1])
        /\ aborted' = ~HasRoom(insts')
        /\ pos' = pos + 1
        /\ UNCHANGED <<err, phase>>
    BY <1>4, <1>6 DEF RecordArg
  <2>2. /\ next_symbol = pos - 1 /\ Len(insts) = pos /\ Len(nodes) = pos - 1 /\ lambdas = <<>> /\ ~err /\ ~overrun
        /\ insts \in Seq(Inst(next_symbol)) /\ nodes \in Seq(BoundName(next_symbol)) /\ next_symbol \in Nat
    BY <1>1 DEF InArgs, StreamOK
  <2>3. nodes' \in Seq(BoundName(next_symbol + 1)) /\ Len(nodes') = Len(nodes) + 1
    <3>1. arg.name \in Name
      BY DEF Decl
    <3>. QED BY <2>1, <2>2, <3>1, NamePushed
  <2>4. insts' \in Seq(Inst(next_symbol + 1)) /\ Len(insts') = Len(insts) + 1
    <3>1. insts \in Seq(Inst(next_symbol + 1))
      BY <2>2, MoreSymbols
    <3>2. PICK e, S : e = [kind |-> "arg", symbol |-> next_symbol + 1] /\ S = Inst(next_symbol + 1)
      OBVIOUS
    <3>3. e \in S
      BY <2>2, <3>2 DEF Inst
    <3>. QED BY <2>1, <3>1, <3>2, <3>3
  <2>5. StreamOK'
    <3>1. lambdas' = <<>> /\ next_symbol' = next_symbol + 1 /\ next_symbol' \in Nat
      BY <1>1, <2>1, <2>2
    <3>. QED BY <2>3, <2>4, <3>1 DEF StreamOK
  <2>6. pos' = pos + 1 /\ pos' \in 1 .. n + 1 /\ pos' \in 1 .. n + Len(body) + 1
    BY <1>3, <2>1
  <2>7. ~err' /\ ~overrun'
    BY <1>1, <2>1, <2>2
  <2>8. InArgs'
    <3>1. next_symbol' = pos' - 1 /\ Len(insts') = pos' /\ Len(nodes') = pos' - 1 /\ lambdas' = <<>>
      BY <1>1, <1>3, <2>1, <2>2, <2>3, <2>4
    <3>. QED BY <1>2, <1>3, <2>6, <2>7, <3>1 DEF InArgs
  <2>9. Counted'
    BY <1>1, <1>2, SameTree DEF Counted
  <2>10. Control'
    <3>1. err' \in BOOLEAN /\ overrun' \in BOOLEAN /\ aborted' \in BOOLEAN
      BY <1>1, <2>1 DEF Control, HasRoom
    <3>. QED BY <1>1, <1>2, <1>3, <2>1, <2>6, <3>1 DEF Control
  <2>11. InstsFit'
    <3>1. SUFFICES ASSUME aborted' PROVE Len(args) = 1 /\ KindsIn(Len(body), "lambda") = 0
      <4>1. KindsIn(Len(body), "lambda")' = KindsIn(Len(body), "lambda")
        BY <1>2 DEF KindsIn
      <4>. QED BY <1>2, <4>1 DEF InstsFit
    <3>2. ~(Len(insts') < cap) /\ Len(insts') \in Nat
      <4>1. ~HasRoom(insts')
        BY <2>1, <3>1
      <4>. QED BY <2>4, <4>1 DEF HasRoom
    <3>3. Total(AppendedAt, 0) = 0 /\ 0 \in 0 .. Len(body)
      BY <1>1, <1>3, TreeTotals, TreeCounts
    <3>4. Len(insts') <= 1 + Len(args) + Total(AppendedAt, 0)
      BY <1>3, <2>2, <2>4, <3>3
    <3>. QED BY <1>1, <3>2, <3>3, <3>4, RoomLeft
  <2>12. phase' = "args"
    BY <1>1, <2>1
  <2>. QED BY <1>2, <2>5, <2>8, <2>9, <2>10, <2>11, <2>12 DEF Walk, CompleteUnlessError
<1>. QED BY <1>5, <1>6

LEMMA StartBodyStep ==
  ASSUME Walk, StartBody
  PROVE  Walk'
<1>1. /\ phase = "args" /\ ~aborted /\ pos > Len(args)
      /\ TreeOK /\ Control /\ InArgs /\ StreamOK /\ Counted
      /\ pos' = 1 /\ UNCHANGED <<treeVars, countVars, walkVars, overrun, aborted>>
      /\ IF body = <<>> THEN err' = TRUE /\ phase' = "done" ELSE phase' = "body" /\ UNCHANGED err
  BY DEF StartBody, Walk
<1>2. /\ args' = args /\ body' = body /\ TreeOK'
      /\ UNCHANGED <<cap, max_symbol, table, insts, nodes, next_symbol, lambdas, overrun, aborted>>
  BY <1>1, SameTree DEF treeVars, countVars, walkVars
<1>3. Len(args) \in Nat /\ Len(body) \in Nat /\ pos = Len(args) + 1
  BY <1>1 DEF TreeOK, InArgs
<1>4. StreamOK'
  BY <1>1, <1>2 DEF StreamOK, Fits
<1>5. err' \in BOOLEAN /\ phase' \in {"body", "done"}
  <2>1. CASE body = <<>>
    BY <1>1, <2>1
  <2>2. CASE body # <<>>
    BY <1>1, <2>2 DEF Control
  <2>. QED BY <2>1, <2>2
<1>6. Control'
  <2>1. pos' \in 1 .. Len(args') + Len(body') + 1
    BY <1>1, <1>2, <1>3
  <2>2. overrun' \in BOOLEAN /\ aborted' \in BOOLEAN
    BY <1>1, <1>2 DEF Control
  <2>. QED BY <1>1, <1>2, <1>5, <2>1, <2>2 DEF Control
<1>7. ~aborted'
  BY <1>1, <1>2
<1>8. InstsFit' /\ (phase' = "done" => err')
  <2>1. phase' = "done" => err'
    BY <1>1
  <2>. QED BY <1>7, <2>1 DEF InstsFit
<1>9. Counted'
  BY <1>1, <1>2, SameTree DEF Counted
<1>10. InBody'
  <2>1. PICK a, s : a = AppendedAt /\ s = SymbolsAt /\ Total(a, 0) = 0 /\ Total(s, 0) = 0
    BY <1>1, TreeTotals, TreeCounts
  <2>2. AppendedAt' = a /\ SymbolsAt' = s /\ pos' - 1 = 0
    BY <1>1, <2>1, SameTree
  <2>3. /\ Len(insts') = 1 + Len(args) /\ next_symbol' = Len(args) /\ Len(nodes') = Len(args)
        /\ lambdas' = <<>> /\ pos' \in 1 .. Len(body) + 1
    BY <1>1, <1>2, <1>3 DEF InArgs
  <2>4. Open(pos - 1)' = 0
    <3>1. Open(0) = 0
      <4>1. body \in Seq(Node) /\ 0 \in 0 .. Len(body)
        BY <1>1, <1>3 DEF TreeOK
      <4>. QED BY <4>1, OpenMoves
    <3>. QED BY <1>2, <2>2, <3>1 DEF Open, KindsIn
  <2>5. Total(AppendedAt', pos' - 1) = 0 /\ Total(SymbolsAt', pos' - 1) = 0
    BY <2>1, <2>2
  <2>. QED BY <1>2, <1>3, <2>3, <2>4, <2>5 DEF InBody
<1>. QED BY <1>2, <1>4, <1>5, <1>6, <1>8, <1>9, <1>10 DEF Walk, CompleteUnlessError

LEMMA EndBodyStep ==
  ASSUME Walk, EndBody
  PROVE  Walk'
<1>1. /\ phase = "body" /\ ~aborted /\ pos > Len(body) /\ phase' = "done"
      /\ TreeOK /\ Control /\ StreamOK /\ Counted /\ InBody
      /\ UNCHANGED <<treeVars, pos, countVars, walkVars, failVars>>
  BY DEF EndBody, Walk
<1>2. /\ args' = args /\ body' = body /\ TreeOK'
      /\ UNCHANGED <<pos, cap, max_symbol, table, insts, nodes, next_symbol, lambdas, err, overrun, aborted>>
  BY <1>1, SameTree DEF treeVars, countVars, walkVars, failVars
<1>3. StreamOK'
  BY <1>1, <1>2 DEF StreamOK, Fits
<1>4. Control'
  BY <1>1, <1>2 DEF Control
<1>5. ~aborted'
  BY <1>1, <1>2
<1>6. ~err => Len(insts) = 1 + CountedInsts - KindsIn(Len(body), "lambda")
  <2>1. pos - 1 = Len(body) /\ Len(body) \in Nat
    BY <1>1 DEF InBody, TreeOK
  <2>2. ~err => Len(insts) = 1 + Len(args) + Total(AppendedAt, Len(body))
    BY <1>1, <2>1 DEF InBody
  <2>3. CountedInsts = Len(args) + Total(InstsAt, Len(body)) /\ Len(args) \in Nat
    BY <1>1, CountedTotals
  <2>4. PICK a, u, k, n : /\ a = Total(AppendedAt, Len(body)) /\ u = Total(InstsAt, Len(body))
                          /\ k = KindsIn(Len(body), "lambda") /\ n = Len(args)
    OBVIOUS
  <2>5. u = a + k /\ k \in Nat
    BY <1>1, <2>4, AppendedAreFewer
  <2>6. a \in Nat
    <3>1. Len(body) \in 0 .. Len(body)
      BY <2>1
    <3>. QED BY <1>1, <2>4, <3>1, TreeTotals, TreeCounts
  <2>7. 1 + n + a = 1 + (n + u) - k
    <3>1. n \in Nat
      BY <2>3, <2>4
    <3>. QED BY <2>5, <2>6, <3>1
  <2>. QED BY <2>2, <2>3, <2>4, <2>7
<1>7. CompleteUnlessError'
  <2>1. CountedInsts' = CountedInsts
    BY <1>1, SameTree
  <2>2. KindsIn(Len(body), "lambda")' = KindsIn(Len(body), "lambda")
    BY <1>2 DEF KindsIn
  <2>. QED BY <1>2, <1>6, <2>1, <2>2 DEF CompleteUnlessError
<1>. QED BY <1>1, <1>2, <1>3, <1>4, <1>5, <1>7 DEF Walk, InstsFit

LEMMA WalkBegins ==
  ASSUME Init
  PROVE  Walk
<1>1. args = <<>> /\ body = <<>> /\ phase = "parse"
  BY DEF Init
<1>2. TreeOK
  <2>1. body \in Seq(Node) /\ args \in Seq(Decl) /\ Len(body) = 0
    BY <1>1
  <2>2. Open(0) = 0
    <3>1. 0 \in 0 .. Len(body)
      BY <2>1
    <3>. QED BY <2>1, <3>1, OpenMoves
  <2>. QED BY <2>1, <2>2 DEF TreeOK
<1>3. NothingYet
  BY DEF Init, NothingYet
<1>4. Control
  <2>1. KnownTypes \subseteq Type
    BY CombinatorAssumption
  <2>2. pos \in 1 .. Len(args) + Len(body) + 1
    BY <1>1, <1>3 DEF NothingYet
  <2>3. err \in BOOLEAN /\ overrun \in BOOLEAN /\ aborted \in BOOLEAN
    BY DEF Init
  <2>4. table = KnownTypes /\ cap = 0 /\ max_symbol = 0
    BY DEF Init
  <2>. QED BY <1>1, <2>1, <2>2, <2>3, <2>4 DEF Control
<1>5. StreamOK
  BY <1>3 DEF NothingYet, StreamOK
<1>. QED BY <1>1, <1>2, <1>3, <1>4, <1>5 DEF Walk, InstsFit, CompleteUnlessError, NothingYet

LEMMA WalkGoesOn ==
  ASSUME Walk, [Next]_vars
  PROVE  Walk'
<1>1. ASSUME NEW d \in Decl, ParseArg(d) PROVE Walk'
  BY <1>1, ParseArgStep
<1>2. ASSUME NEW k \in 0 .. MaxSize, NEW n \in NodeOfSize[k], ParseNode(n) PROVE Walk'
  <2>1. n \in Node
    BY <1>2 DEF NodeOfSize, Node
  <2>. QED BY <1>2, <2>1, ParseNodeStep
<1>3. CASE Count
  BY <1>3, CountStep
<1>4. CASE RecordArg
  BY <1>4, RecordArgStep
<1>5. CASE StartBody
  BY <1>5, StartBodyStep
<1>6. CASE Invoke
  <2>1. CASE SkipAssignment(body[pos])
    <3>1. Visit("invocation")
      BY <1>6 DEF Invoke
    <3>. QED BY <2>1, <3>1, SkipStep
  <2>. QED BY <1>6, <2>1, InvokeStep
<1>7. CASE OpenLambda
  <2>1. CASE SkipAssignment(body[pos])
    <3>1. Visit("lambda")
      BY <1>7 DEF OpenLambda
    <3>. QED BY <2>1, <3>1, SkipStep
  <2>. QED BY <1>7, <2>1, OpenLambdaStep
<1>8. CASE CloseLambda
  BY <1>8, CloseLambdaStep
<1>9. CASE EndBody
  BY <1>9, EndBodyStep
<1>10. CASE UNCHANGED vars
  <2>1. /\ args' = args /\ body' = body
        /\ UNCHANGED <<phase, pos, table, cap, max_symbol, insts, nodes, next_symbol, lambdas, err, overrun, aborted>>
    BY <1>10 DEF vars, treeVars, countVars, walkVars, failVars
  <2>2. UNCHANGED treeVars
    BY <2>1 DEF treeVars
  <2>3. /\ TreeOK' <=> TreeOK
        /\ SymbolsAt' = SymbolsAt /\ AppendedAt' = AppendedAt
        /\ CountedInsts' = CountedInsts /\ CountedSymbols' = CountedSymbols
    BY <2>2, SameTree
  <2>4. (Open(Len(body)))' = Open(Len(body)) /\ (Open(pos - 1))' = Open(pos - 1)
    BY <2>1 DEF Open, KindsIn
  <2>5. (KindsIn(Len(body), "lambda"))' = KindsIn(Len(body), "lambda")
    BY <2>1 DEF KindsIn
  <2>6. Total(AppendedAt', pos' - 1) = Total(AppendedAt, pos - 1) /\ Total(SymbolsAt', pos' - 1) = Total(SymbolsAt, pos - 1)
    BY <2>1, <2>3
  <2>7. StreamOK' <=> StreamOK
    BY <2>1 DEF StreamOK, Fits
  <2>8. (Control' <=> Control) /\ (NothingYet' <=> NothingYet) /\ (InArgs' <=> InArgs)
    BY <2>1 DEF Control, NothingYet, InArgs
  <2>9. (Counted' <=> Counted) /\ (InBody' <=> InBody)
    BY <2>1, <2>3, <2>4, <2>6 DEF Counted, InBody
  <2>10. (InstsFit' <=> InstsFit) /\ (CompleteUnlessError' <=> CompleteUnlessError)
    BY <2>1, <2>3, <2>5 DEF InstsFit, CompleteUnlessError
  <2>. QED BY <2>1, <2>3, <2>7, <2>8, <2>9, <2>10 DEF Walk
<1>. QED BY <1>1, <1>2, <1>3, <1>4, <1>5, <1>6, <1>7, <1>8, <1>9, <1>10 DEF Next

-----------------------------------------------------------------------------
(* Which symbols a stream and a stack of names can still refer to.  As      *)
(* values: s a stream, q a stack of names, ls the lambdas that are open.    *)

ParamsOf(s, i) == {j \in i + 1 .. Len(s) : \A k \in i + 1 .. j : s[k].kind = "arg"}
EndOf(s, i) == i + Cardinality(ParamsOf(s, i)) + s[i].body_len - 1
UsesOf(s, u) == IF s[u].kind = "invocation" THEN ToSet(s[u].operands) ELSE {}

IsOpen(ls, i) == \E k \in DOMAIN ls : ls[k].inst = i
OpenSymbols(s, ls) == {s[ls[k].inst].symbol : k \in DOMAIN ls}

\* Symbols are given out in the order of the stream, and so they are bound.
SymbolsRise(s) ==
  \A i, j \in DOMAIN s : i < j /\ s[j].symbol # 0 => s[i].symbol < s[j].symbol

NamesRise(q) == \A i, j \in DOMAIN q : i < j => q[i].symbol < q[j].symbol

\* Of the lambdas that are open, the parameters are those that were counted.
OpensFit(s, ls) ==
  /\ \A k \in DOMAIN ls :
       LET i == ls[k].inst
       IN /\ i \in 2 .. Len(s) /\ s[i].kind = "lambda" /\ s[i].symbol # 0
          /\ ParamsOf(s, i) = i + 1 .. i + ls[k].n_args
  /\ \A k, m \in DOMAIN ls : k < m => ls[k].inst < ls[m].inst

\* Names have the same depth between which no lambda was opened that is still
\* open, whatever scopes were ended that nobody opened.
Grouped(q, opened) ==
  \A i, j \in DOMAIN q :
    i < j /\ (\A g \in opened : g < q[i].symbol \/ q[j].symbol <= g) => q[i].depth = q[j].depth

\* What is defined in a lambda that is closed is gone from the stack, and not
\* used behind the lambda.
ClosedForGood(s, q, ls) ==
  \A i \in 2 .. Len(s) : s[i].kind = "lambda" /\ ~IsOpen(ls, i) =>
    /\ EndOf(s, i) \in i .. Len(s)
    /\ \A d \in i + 1 .. EndOf(s, i) : s[d].symbol # 0 =>
         /\ \A x \in DOMAIN q : q[x].symbol # s[d].symbol
         /\ \A u \in EndOf(s, i) + 1 .. Len(s) : s[d].symbol \notin UsesOf(s, u)

Scoped(s, q, ls) ==
  /\ SymbolsRise(s)
  /\ NamesRise(q)
  /\ OpensFit(s, ls)
  /\ Grouped(q, OpenSymbols(s, ls))
  /\ ClosedForGood(s, q, ls)

-----------------------------------------------------------------------------
(* How streams grow.                                                       *)

LEMMA InstFields ==
  ASSUME NEW a \in Nat, NEW s \in Seq(Inst(a))
  PROVE  /\ Len(s) \in Nat /\ DOMAIN s = 1 .. Len(s)
         /\ \A i \in DOMAIN s : s[i].symbol \in 0 .. a /\ s[i].kind \in {"lambda", "arg", "invocation"}
<1>1. \A i \in DOMAIN s : s[i] \in Inst(a)
  BY SeqElements
<1>2. \A e \in Inst(a) : e.symbol \in 0 .. a /\ e.kind \in {"lambda", "arg", "invocation"}
  BY DEF Inst
<1>. QED BY <1>1, <1>2

LEMMA NameFields ==
  ASSUME NEW a \in Nat, NEW q \in Seq(BoundName(a))
  PROVE  /\ Len(q) \in Nat /\ DOMAIN q = 1 .. Len(q)
         /\ \A i \in DOMAIN q : q[i].symbol \in 1 .. a /\ q[i].depth \in Nat
<1>1. \A i \in DOMAIN q : q[i] \in BoundName(a)
  BY SeqElements
<1>. QED BY <1>1 DEF BoundName

\* s and t agree on what s has; what t has more does not begin with a parameter.
Prolongs(s, t) ==
  /\ Len(s) \in Nat /\ Len(t) \in Nat /\ Len(s) <= Len(t)
  /\ \A i \in 1 .. Len(s) : t[i].kind = s[i].kind
  /\ Len(s) < Len(t) => t[Len(s) + 1].kind # "arg"

Extends(s, t) == Prolongs(s, t) /\ \A i \in 1 .. Len(s) : t[i] = s[i]

\* What is on the stack r was on the stack q, or has a symbol above a.
NamesFrom(r, q, a) ==
  \A x \in DOMAIN r : r[x].symbol > a \/ \E y \in DOMAIN q : r[x].symbol = q[y].symbol

\* What t has more than s uses what is on the stack.
UsesNames(s, t, r) ==
  \A u \in Len(s) + 1 .. Len(t) : \A v \in UsesOf(t, u) : \E x \in DOMAIN r : v = r[x].symbol

\* The lambdas of s that are open in ls are in ms, and so are those t has more.
StillOpen(s, t, ls, ms) ==
  /\ \A i \in 1 .. Len(s) : IsOpen(ls, i) => IsOpen(ms, i)
  /\ \A i \in Len(s) + 1 .. Len(t) : t[i].kind = "lambda" => IsOpen(ms, i)

LEMMA ParamsAreKept ==
  ASSUME NEW s, NEW t, Prolongs(s, t), NEW i \in 1 .. Len(s)
  PROVE  ParamsOf(t, i) = ParamsOf(s, i)
<1>1. Len(s) \in Nat /\ Len(t) \in Nat /\ Len(s) <= Len(t) /\ i \in 1 .. Len(s)
  BY DEF Prolongs
<1>2. \A j \in i + 1 .. Len(s) : j \in 1 .. Len(s) /\ \A k \in i + 1 .. j : k \in 1 .. Len(s)
  BY <1>1
<1>3. ASSUME NEW j \in ParamsOf(t, i) PROVE j \in ParamsOf(s, i)
  <2>1. j \in i + 1 .. Len(t) /\ \A k \in i + 1 .. j : t[k].kind = "arg"
    BY DEF ParamsOf
  <2>2. j <= Len(s)
    <3>1. SUFFICES ASSUME ~(j <= Len(s)) PROVE FALSE
      OBVIOUS
    <3>2. Len(s) + 1 \in i + 1 .. j /\ Len(s) < Len(t)
      BY <1>1, <2>1, <3>1
    <3>. QED BY <2>1, <3>2 DEF Prolongs
  <2>3. j \in i + 1 .. Len(s)
    BY <1>1, <2>1, <2>2
  <2>4. \A k \in i + 1 .. j : s[k].kind = "arg"
    BY <1>2, <2>1, <2>3 DEF Prolongs
  <2>. QED BY <2>3, <2>4 DEF ParamsOf
<1>4. ASSUME NEW j \in ParamsOf(s, i) PROVE j \in ParamsOf(t, i)
  <2>1. j \in i + 1 .. Len(s) /\ \A k \in i + 1 .. j : s[k].kind = "arg"
    BY DEF ParamsOf
  <2>2. j \in i + 1 .. Len(t)
    BY <1>1, <2>1
  <2>3. \A k \in i + 1 .. j : t[k].kind = "arg"
    BY <1>2, <2>1 DEF Prolongs
  <2>. QED BY <2>2, <2>3 DEF ParamsOf
<1>. QED BY <1>3, <1>4

\* The lambdas closed before stay closed for good when instructions are appended
\* that use what is on the stack, and on the stack is nothing that was not.
LEMMA ClosedStayClosed ==
  ASSUME NEW a \in Nat, NEW s \in Seq(Inst(a)), NEW t, Extends(s, t),
         NEW q, NEW r, NEW ls, NEW ms, ClosedForGood(s, q, ls),
         NamesFrom(r, q, a), UsesNames(s, t, r), StillOpen(s, t, ls, ms)
  PROVE  ClosedForGood(t, r, ms)
<1>. SUFFICES ASSUME NEW i \in 2 .. Len(t), t[i].kind = "lambda", ~IsOpen(ms, i)
              PROVE  /\ EndOf(t, i) \in i .. Len(t)
                     /\ \A d \in i + 1 .. EndOf(t, i) : t[d].symbol # 0 =>
                          /\ \A x \in DOMAIN r : r[x].symbol # t[d].symbol
                          /\ \A u \in EndOf(t, i) + 1 .. Len(t) : t[d].symbol \notin UsesOf(t, u)
  BY DEF ClosedForGood
<1>1. Len(s) \in Nat /\ Len(t) \in Nat /\ Len(s) <= Len(t) /\ DOMAIN s = 1 .. Len(s) /\ Prolongs(s, t)
  BY DEF Extends, Prolongs
<1>2. i \in 2 .. Len(s) /\ i \in 1 .. Len(s)
  BY <1>1 DEF StillOpen
<1>3. s[i].kind = "lambda" /\ ~IsOpen(ls, i) /\ t[i] = s[i]
  BY <1>1, <1>2 DEF StillOpen, Extends
<1>4. EndOf(t, i) = EndOf(s, i)
  BY <1>1, <1>2, <1>3, ParamsAreKept DEF EndOf
<1>5. PICK e : e = EndOf(s, i)
  OBVIOUS
<1>6. e \in i .. Len(s)
  BY <1>2, <1>3, <1>5 DEF ClosedForGood
<1>7. ASSUME NEW d \in i + 1 .. e, t[d].symbol # 0
      PROVE  /\ \A x \in DOMAIN r : r[x].symbol # t[d].symbol
             /\ \A u \in e + 1 .. Len(t) : t[d].symbol \notin UsesOf(t, u)
  <2>1. d \in DOMAIN s /\ t[d] = s[d]
    BY <1>1, <1>2, <1>6 DEF Extends
  <2>2. s[d].symbol \in 0 .. a
    BY <2>1, InstFields
  <2>3. /\ \A x \in DOMAIN q : q[x].symbol # s[d].symbol
        /\ \A u \in e + 1 .. Len(s) : s[d].symbol \notin UsesOf(s, u)
    BY <1>2, <1>3, <1>5, <1>7, <2>1 DEF ClosedForGood
  <2>4. \A x \in DOMAIN r : r[x].symbol # s[d].symbol
    <3>. TAKE x \in DOMAIN r
    <3>1. CASE r[x].symbol > a
      BY <2>2, <3>1
    <3>2. CASE \E y \in DOMAIN q : r[x].symbol = q[y].symbol
      BY <2>3, <3>2
    <3>. QED BY <3>1, <3>2 DEF NamesFrom
  <2>5. ASSUME NEW u \in e + 1 .. Len(t) PROVE s[d].symbol \notin UsesOf(t, u)
    <3>1. CASE u <= Len(s)
      <4>1. u \in e + 1 .. Len(s) /\ u \in DOMAIN s
        BY <1>1, <1>2, <1>6, <3>1
      <4>2. UsesOf(t, u) = UsesOf(s, u)
        BY <1>1, <4>1 DEF UsesOf, Extends
      <4>. QED BY <2>3, <4>1, <4>2
    <3>2. CASE ~(u <= Len(s))
      <4>1. u \in Len(s) + 1 .. Len(t)
        BY <1>1, <1>6, <3>2
      <4>. QED BY <2>4, <4>1 DEF UsesNames
    <3>. QED BY <3>1, <3>2
  <2>. QED BY <2>1, <2>4, <2>5
<1>8. e \in i .. Len(t)
  BY <1>1, <1>6
<1>. QED BY <1>4, <1>5, <1>7, <1>8

-----------------------------------------------------------------------------
(* How the stack of names grows and shrinks.                               *)

LEMMA PushGroups ==
  ASSUME NEW a \in Nat, NEW q \in Seq(BoundName(a)), NEW name, NEW opened \in SUBSET (0 .. a),
         NamesRise(q), Grouped(q, opened)
  PROVE  /\ NamesRise(PushName(q, name, a + 1)) /\ Grouped(PushName(q, name, a + 1), opened)
         /\ NamesFrom(PushName(q, name, a + 1), q, a)
<1>1. PICK n, r, e : n = Len(q) /\ r = PushName(q, name, a + 1)
                     /\ e = [name |-> name, symbol |-> a + 1, depth |-> ScopeDepth(q)]
  OBVIOUS
<1>2. /\ n \in Nat /\ DOMAIN q = 1 .. n /\ DOMAIN r = 1 .. n + 1 /\ r[n + 1] = e
      /\ \A i \in 1 .. n : r[i] = q[i]
  <2>1. PICK S : S = BoundName(a) \union {e}
    OBVIOUS
  <2>2. q \in Seq(S) /\ e \in S
    BY <2>1, SeqOfMore
  <2>3. r = Append(q, e)
    BY <1>1 DEF PushName
  <2>. QED BY <1>1, <2>2, <2>3
<1>3. \A i \in 1 .. n : q[i].symbol \in 1 .. a
  BY <1>2, NameFields
<1>4. e.symbol = a + 1 /\ e.depth = ScopeDepth(q)
  BY <1>1
<1>5. \A i \in 1 .. n + 1 : i \in 1 .. n \/ i = n + 1
  BY <1>2
<1>6. NamesRise(r)
  <2>. SUFFICES ASSUME NEW i \in 1 .. n + 1, NEW j \in 1 .. n + 1, i < j
                PROVE  r[i].symbol < r[j].symbol
    BY <1>2 DEF NamesRise
  <2>1. i \in 1 .. n
    BY <1>2
  <2>2. CASE j \in 1 .. n
    BY <1>2, <2>1, <2>2 DEF NamesRise
  <2>3. CASE j = n + 1
    BY <1>2, <1>3, <1>4, <2>1, <2>3
  <2>. QED BY <1>5, <2>2, <2>3
<1>7. Grouped(r, opened)
  <2>. SUFFICES ASSUME NEW i \in 1 .. n + 1, NEW j \in 1 .. n + 1, i < j,
                       \A g \in opened : g < r[i].symbol \/ r[j].symbol <= g
                PROVE  r[i].depth = r[j].depth
    BY <1>2 DEF Grouped
  <2>1. i \in 1 .. n
    BY <1>2
  <2>2. CASE j \in 1 .. n
    BY <1>2, <2>1, <2>2 DEF Grouped
  <2>3. CASE j = n + 1
    <3>1. n \in 1 .. n /\ q # <<>>
      BY <1>2, <2>1
    <3>2. r[j].depth = q[n].depth
      BY <1>1, <1>2, <1>4, <2>3, <3>1 DEF ScopeDepth, Last
    <3>3. \A g \in opened : g < q[i].symbol
      BY <1>2, <1>4, <2>1, <2>3
    <3>4. CASE i = n
      BY <1>2, <2>1, <3>2, <3>4
    <3>5. CASE i # n
      <4>1. i < n
        BY <1>2, <2>1, <3>5
      <4>2. q[i].depth = q[n].depth
        BY <1>2, <2>1, <3>1, <3>3, <4>1 DEF Grouped
      <4>. QED BY <1>2, <2>1, <3>2, <4>2
    <3>. QED BY <3>4, <3>5
  <2>. QED BY <1>5, <2>2, <2>3
<1>8. ASSUME NEW x \in 1 .. n + 1 PROVE r[x].symbol > a \/ \E y \in 1 .. n : r[x].symbol = q[y].symbol
  BY <1>2, <1>4, <1>5
<1>9. NamesFrom(r, q, a)
  BY <1>2, <1>8 DEF NamesFrom
<1>. QED BY <1>1, <1>6, <1>7, <1>9

PushesParams(q, names, a, r) == r = PushParams(q, names, a)

\* The parameters are one group, behind the symbol of their lambda.
LEMMA ParamGroups ==
  ASSUME NEW a \in Nat, NEW q \in Seq(BoundName(a)), NEW names \in Seq(Name),
         NEW opened, NamesRise(q), Grouped(q, opened), NEW r, PushesParams(q, names, a, r)
  PROVE  /\ NamesRise(r) /\ Grouped(r, opened \union {a})
         /\ NamesFrom(r, q, a)
<1>1. PICK n, k, new : n = Len(q) /\ k = Len(names)
          /\ new = [i \in DOMAIN names |-> [name |-> names[i], symbol |-> a + i, depth |-> ScopeDepth(q) + 1]]
  OBVIOUS
<1>2. n \in Nat /\ k \in Nat /\ DOMAIN q = 1 .. n /\ DOMAIN names = 1 .. k
  BY <1>1
<1>3. \A i \in 1 .. k : new[i].symbol = a + i /\ new[i].depth = ScopeDepth(q) + 1
  BY <1>1, <1>2
<1>4. /\ DOMAIN r = 1 .. n + k
      /\ \A i \in 1 .. n + k : r[i] = IF i <= n THEN q[i] ELSE new[i - n]
  <2>1. PICK S : S = BoundName(a) \union {new[i] : i \in DOMAIN names}
    OBVIOUS
  <2>2. q \in Seq(S)
    BY <2>1, SeqOfMore
  <2>3. new \in Seq(S) /\ Len(new) = k
    <3>1. \A i \in 1 .. k : new[i] \in S
      BY <1>2, <2>1
    <3>2. new \in [1 .. k -> S]
      BY <1>1, <1>2, <3>1
    <3>. QED BY <1>2, <3>2
  <2>4. r = q \o new
    BY <1>1 DEF PushesParams, PushParams
  <2>5. /\ r \in Seq(S) /\ Len(r) = Len(q) + Len(new)
        /\ \A i \in 1 .. Len(q) + Len(new) : r[i] = IF i <= Len(q) THEN q[i] ELSE new[i - Len(q)]
    BY <2>2, <2>3, <2>4, ConcatProperties
  <2>. QED BY <1>1, <2>3, <2>5
<1>5. \A i \in 1 .. n : r[i] = q[i] /\ q[i].symbol \in 1 .. a
  <2>1. \A i \in 1 .. n : q[i].symbol \in 1 .. a
    BY <1>2, NameFields
  <2>2. \A i \in 1 .. n : i \in 1 .. n + k /\ i <= n
    BY <1>2
  <2>. QED BY <1>4, <2>1, <2>2
<1>6. \A i \in 1 .. n + k : ~(i \in 1 .. n) =>
        i - n \in 1 .. k /\ r[i].symbol = a + (i - n) /\ r[i].depth = ScopeDepth(q) + 1
  <2>. TAKE i \in 1 .. n + k
  <2>. HAVE ~(i \in 1 .. n)
  <2>1. i - n \in 1 .. k /\ ~(i <= n)
    BY <1>2
  <2>. QED BY <1>3, <1>4, <2>1
<1>7. NamesRise(r)
  <2>. SUFFICES ASSUME NEW i \in 1 .. n + k, NEW j \in 1 .. n + k, i < j
                PROVE  r[i].symbol < r[j].symbol
    BY <1>4 DEF NamesRise
  <2>1. CASE j \in 1 .. n
    <3>1. i \in 1 .. n
      BY <1>2, <2>1
    <3>. QED BY <1>2, <1>5, <2>1, <3>1 DEF NamesRise
  <2>2. CASE ~(j \in 1 .. n) /\ i \in 1 .. n
    BY <1>2, <1>5, <1>6, <2>2
  <2>3. CASE ~(j \in 1 .. n) /\ ~(i \in 1 .. n)
    BY <1>2, <1>6, <2>3
  <2>. QED BY <2>1, <2>2, <2>3
<1>8. Grouped(r, opened \union {a})
  <2>. SUFFICES ASSUME NEW i \in 1 .. n + k, NEW j \in 1 .. n + k, i < j,
                       \A g \in opened \union {a} : g < r[i].symbol \/ r[j].symbol <= g
                PROVE  r[i].depth = r[j].depth
    BY <1>4 DEF Grouped
  <2>1. CASE j \in 1 .. n
    <3>1. i \in 1 .. n
      BY <1>2, <2>1
    <3>2. r[i] = q[i] /\ r[j] = q[j]
      BY <1>5, <2>1, <3>1
    <3>3. \A g \in opened : g < q[i].symbol \/ q[j].symbol <= g
      BY <3>2
    <3>. QED BY <1>2, <2>1, <3>1, <3>2, <3>3 DEF Grouped
  <2>2. CASE ~(j \in 1 .. n) /\ i \in 1 .. n
    <3>1. r[i].symbol \in 1 .. a
      BY <1>5, <2>2
    <3>2. j - n \in 1 .. k /\ r[j].symbol = a + (j - n)
      BY <1>6, <2>2
    <3>3. a < r[i].symbol \/ r[j].symbol <= a
      OBVIOUS
    <3>. QED BY <1>2, <3>1, <3>2, <3>3
  <2>3. CASE ~(j \in 1 .. n) /\ ~(i \in 1 .. n)
    BY <1>6, <2>3
  <2>. QED BY <2>1, <2>2, <2>3
<1>9. ASSUME NEW x \in 1 .. n + k PROVE r[x].symbol > a \/ \E y \in 1 .. n : r[x].symbol = q[y].symbol
  <2>1. CASE x \in 1 .. n
    BY <1>5, <2>1
  <2>2. CASE ~(x \in 1 .. n)
    BY <1>2, <1>6, <2>2
  <2>. QED BY <2>1, <2>2
<1>. QED BY <1>2, <1>4, <1>7, <1>8, <1>9 DEF NamesFrom

Pops(q, r) == r = PopNames(q)

NamesBelow(r, q, g) ==
  \A x \in DOMAIN r : r[x].symbol <= g /\ \E y \in DOMAIN q : r[x].symbol = q[y].symbol

\* What was bound behind the last symbol that is still open goes, if that is
\* given back.
LEMMA PopGroups ==
  ASSUME NEW a \in Nat, NEW q \in Seq(BoundName(a)), NEW g \in Nat, NEW left,
         NamesRise(q), Grouped(q, left \union {g}), \A h \in left : h <= g /\ h \in Nat,
         NEW r, Pops(q, r)
  PROVE  NamesRise(r) /\ Grouped(r, left) /\ NamesBelow(r, q, g)
<1>. DEFINE Left == {0} \union {i \in DOMAIN q : q[i].depth # ScopeDepth(q)}
<1>1. PICK n, m : n = Len(q) /\ m = Max(Left)
  OBVIOUS
<1>2. n \in Nat /\ DOMAIN q = 1 .. n /\ \A i \in 1 .. n : q[i].symbol \in 1 .. a
  BY <1>1, NameFields
<1>3. Left \in SUBSET (0 .. n) /\ Left # {}
  BY <1>2
<1>4. m \in Left /\ m \in 0 .. n
  <2>1. m \in Left
    <3>. HIDE DEF Left
    <3>. QED BY <1>1, <1>2, <1>3, MaxOf
  <2>. QED BY <1>3, <2>1
<1>5. DOMAIN r = 1 .. m /\ \A i \in 1 .. m : r[i] = q[i] /\ i \in 1 .. n
  <2>1. r = SubSeq(q, 1, m)
    BY <1>1 DEF Pops, PopNames
  <2>2. PICK S : S = BoundName(a)
    OBVIOUS
  <2>3. q \in Seq(S) /\ m \in 0 .. Len(q)
    BY <1>1, <1>4, <2>2
  <2>. HIDE DEF Left
  <2>4. Len(r) = m /\ r \in Seq(S) /\ \A i \in 1 .. m : r[i] = q[i]
    BY <2>1, <2>3, SplitElements
  <2>. QED BY <1>2, <1>4, <2>4
<1>6. ASSUME NEW x \in 1 .. m PROVE q[x].symbol <= g
  <2>1. m \in 1 .. n /\ n \in 1 .. n /\ q[m].depth # q[n].depth
    <3>1. m # 0 /\ m \in 1 .. n /\ q # <<>> /\ n \in 1 .. n
      BY <1>1, <1>2, <1>4
    <3>2. q[m].depth # ScopeDepth(q)
      BY <1>4, <3>1
    <3>. QED BY <1>1, <3>1, <3>2 DEF ScopeDepth, Last
  <2>2. m < n
    BY <1>2, <2>1
  <2>3. PICK h \in left \union {g} : ~(h < q[m].symbol \/ q[n].symbol <= h)
    BY <1>2, <2>1, <2>2 DEF Grouped
  <2>4. q[m].symbol <= g
    BY <1>2, <2>1, <2>3
  <2>5. CASE x = m
    BY <2>4, <2>5
  <2>6. CASE x # m
    <3>1. x < m /\ x \in 1 .. n
      BY <1>2, <1>5, <2>1, <2>6
    <3>2. q[x].symbol < q[m].symbol
      BY <1>2, <2>1, <3>1 DEF NamesRise
    <3>. QED BY <1>2, <2>1, <2>4, <3>1, <3>2
  <2>. QED BY <2>5, <2>6
<1>7. NamesRise(r)
  BY <1>2, <1>5 DEF NamesRise
<1>8. Grouped(r, left)
  <2>. SUFFICES ASSUME NEW i \in 1 .. m, NEW j \in 1 .. m, i < j,
                       \A h \in left : h < r[i].symbol \/ r[j].symbol <= h
                PROVE  r[i].depth = r[j].depth
    BY <1>5 DEF Grouped
  <2>1. r[i] = q[i] /\ r[j] = q[j] /\ i \in 1 .. n /\ j \in 1 .. n
    BY <1>5
  <2>2. \A h \in left \union {g} : h < q[i].symbol \/ q[j].symbol <= h
    BY <1>6, <2>1
  <2>. QED BY <1>2, <2>1, <2>2 DEF Grouped
<1>9. ASSUME NEW x \in 1 .. m PROVE r[x].symbol <= g /\ \E y \in 1 .. n : r[x].symbol = q[y].symbol
  BY <1>5, <1>6
<1>. QED BY <1>2, <1>5, <1>7, <1>8, <1>9 DEF NamesBelow

LEMMA FoundIsThere ==
  ASSUME NEW a \in Nat, NEW q \in Seq(BoundName(a)), NEW name, Found(q, name)
  PROVE  \E x \in DOMAIN q : FindName(q, name) = q[x].symbol
<1>. DEFINE There == {i \in DOMAIN q : q[i].name = name}
<1>1. There # {} /\ There \in SUBSET (0 .. Len(q)) /\ Len(q) \in Nat
  BY DEF Found
<1>2. PICK i : i = Max(There)
  OBVIOUS
<1>3. i \in There
  <2>. HIDE DEF There
  <2>. QED BY <1>1, <1>2, MaxOf
<1>. QED BY <1>2, <1>3 DEF FindName

-----------------------------------------------------------------------------
(* The scopes of a walk without errors.                                    *)

Scopes ==
  /\ phase \in {"args", "body"} /\ ~err => Scoped(insts, nodes, lambdas)
  /\ phase = "args" /\ ~err => \A i \in 2 .. Len(insts) : insts[i].kind = "arg"
  /\ NothingEscapes

LEMMA OpenSymbolsFit ==
  ASSUME NEW a \in Nat, NEW s \in Seq(Inst(a)), NEW ls, OpensFit(s, ls)
  PROVE  OpenSymbols(s, ls) \in SUBSET (0 .. a)
<1>1. ASSUME NEW k \in DOMAIN ls PROVE s[ls[k].inst].symbol \in 0 .. a
  <2>1. ls[k].inst \in 2 .. Len(s)
    BY DEF OpensFit
  <2>2. ls[k].inst \in DOMAIN s
    BY <2>1, InstFields
  <2>. QED BY <2>2, InstFields
<1>. QED BY <1>1 DEF OpenSymbols

\* Nothing is said of a walk that has failed.
LEMMA ErrorEndsScopes ==
  ASSUME err'
  PROVE  Scopes'
BY DEF Scopes, NothingEscapes

LEMMA CountScopes ==
  ASSUME Walk, Count
  PROVE  Scopes'
<1>1. phase = "parse" /\ NothingYet
  BY DEF Count, Walk
<1>2. CASE args = <<>>
  BY <1>2, ErrorEndsScopes DEF Count
<1>3. CASE args # <<>>
  <2>1. PICK e : e = [kind |-> "lambda", symbol |-> 0, body_len |-> CountedInsts]
    OBVIOUS
  <2>2. insts' = <<e>> /\ phase' = "args" /\ nodes' = <<>> /\ lambdas' = <<>>
    BY <1>1, <1>3, <2>1 DEF Count, NothingYet
  <2>3. Len(insts') = 1 /\ DOMAIN insts' = {1} /\ 2 .. 1 = {}
    BY <2>2
  <2>4. DOMAIN nodes' = {} /\ DOMAIN lambdas' = {}
    BY <2>2
  <2>5. SymbolsRise(insts')
    BY <2>3 DEF SymbolsRise
  <2>6. NamesRise(nodes') /\ OpensFit(insts', lambdas') /\ Grouped(nodes', OpenSymbols(insts', lambdas'))
    BY <2>4 DEF NamesRise, OpensFit, Grouped
  <2>7. ClosedForGood(insts', nodes', lambdas')
    BY <2>3 DEF ClosedForGood
  <2>. QED BY <2>2, <2>3, <2>5, <2>6, <2>7 DEF Scopes, Scoped, NothingEscapes
<1>. QED BY <1>2, <1>3

\* A lambda that is open stays so, with its parameters.
LEMMA OpensStayOpen ==
  ASSUME NEW s, NEW t, Extends(s, t), NEW ls, OpensFit(s, ls)
  PROVE  OpensFit(t, ls) /\ OpenSymbols(t, ls) = OpenSymbols(s, ls)
<1>1. ASSUME NEW k \in DOMAIN ls
      PROVE  LET i == ls[k].inst
             IN /\ i \in 2 .. Len(t) /\ t[i].kind = "lambda" /\ t[i].symbol # 0 /\ t[i].symbol = s[i].symbol
                /\ ParamsOf(t, i) = i + 1 .. i + ls[k].n_args
  <2>1. PICK i : i = ls[k].inst
    OBVIOUS
  <2>2. i \in 2 .. Len(s) /\ s[i].kind = "lambda" /\ s[i].symbol # 0 /\ ParamsOf(s, i) = i + 1 .. i + ls[k].n_args
    BY <2>1 DEF OpensFit
  <2>3. Len(s) \in Nat /\ Len(t) \in Nat /\ Len(s) <= Len(t) /\ Prolongs(s, t)
    BY DEF Extends, Prolongs
  <2>4. i \in 1 .. Len(s) /\ i \in 2 .. Len(t)
    BY <2>2, <2>3
  <2>5. t[i].kind = s[i].kind /\ t[i].symbol = s[i].symbol
    BY <2>3, <2>4 DEF Extends
  <2>6. ParamsOf(t, i) = ParamsOf(s, i)
    BY <2>3, <2>4, ParamsAreKept
  <2>. QED BY <2>1, <2>2, <2>4, <2>5, <2>6
<1>2. OpensFit(t, ls)
  BY <1>1 DEF OpensFit
<1>3. OpenSymbols(t, ls) = OpenSymbols(s, ls)
  BY <1>1 DEF OpenSymbols
<1>. QED BY <1>2, <1>3

\* One instruction more, which names a new symbol or none.
OneLonger(s, t, e) ==
  /\ Len(s) \in Nat /\ Len(t) = Len(s) + 1 /\ t[Len(s) + 1] = e
  /\ \A i \in 1 .. Len(s) : t[i] = s[i]

LEMMA OneMore ==
  ASSUME NEW a \in Nat, NEW s \in Seq(Inst(a)), NEW e, SymbolsRise(s), e.symbol \in {0, a + 1}, NEW t, t = Append(s, e)
  PROVE  SymbolsRise(t) /\ OneLonger(s, t, e)
<1>1. PICK n, S : n = Len(s) /\ S = Inst(a) \union {e}
  OBVIOUS
<1>2. s \in Seq(S) /\ e \in S
  BY <1>1, SeqOfMore
<1>3. n \in Nat /\ DOMAIN s = 1 .. n /\ DOMAIN t = 1 .. n + 1 /\ Len(t) = n + 1 /\ t[n + 1] = e /\ \A i \in 1 .. n : t[i] = s[i]
  BY <1>1, <1>2
<1>4. \A i \in 1 .. n : s[i].symbol \in 0 .. a
  BY <1>3, InstFields
<1>5. SymbolsRise(t)
  <2>. SUFFICES ASSUME NEW i \in 1 .. n + 1, NEW j \in 1 .. n + 1, i < j, t[j].symbol # 0
                PROVE  t[i].symbol < t[j].symbol
    BY <1>3 DEF SymbolsRise
  <2>1. i \in 1 .. n
    BY <1>3
  <2>2. CASE j \in 1 .. n
    BY <1>3, <2>1, <2>2 DEF SymbolsRise
  <2>3. CASE ~(j \in 1 .. n)
    <3>1. j = n + 1 /\ t[j] = e
      BY <1>3, <2>3
    <3>2. t[j].symbol = a + 1
      BY <3>1
    <3>. QED BY <1>3, <1>4, <2>1, <3>2
  <2>. QED BY <2>2, <2>3
<1>. QED BY <1>1, <1>3, <1>5 DEF OneLonger

LEMMA RecordArgScopes ==
  ASSUME Walk, Scopes, RecordArg
  PROVE  Scopes'
<1>1. CASE err'
  BY <1>1, ErrorEndsScopes
<1>2. CASE ~err'
  <2>1. PICK a, arg, e : a = next_symbol /\ arg = args[pos] /\ e = [kind |-> "arg", symbol |-> a + 1]
    OBVIOUS
  <2>2. /\ phase = "args" /\ phase' = "args" /\ ~err /\ lambdas' = lambdas /\ nodes' = PushName(nodes, arg.name, a + 1)
        /\ insts' = Append(insts, e)
    BY <1>2, <2>1 DEF RecordArg
  <2>3. /\ a \in Nat /\ insts \in Seq(Inst(a)) /\ nodes \in Seq(BoundName(a)) /\ lambdas = <<>>
    BY <2>1, <2>2 DEF Walk, StreamOK, InArgs
  <2>4. SymbolsRise(insts) /\ NamesRise(nodes) /\ Grouped(nodes, OpenSymbols(insts, lambdas))
    BY <2>2 DEF Scopes, Scoped
  <2>5. DOMAIN lambdas = {} /\ OpenSymbols(insts, lambdas) = {} /\ OpenSymbols(insts', lambdas') = {}
    BY <2>2, <2>3 DEF OpenSymbols
  <2>6. SymbolsRise(insts') /\ OneLonger(insts, insts', e)
    <3>1. e.symbol \in {0, a + 1}
      BY <2>1
    <3>. QED BY <2>2, <2>3, <2>4, <3>1, OneMore
  <2>7. NamesRise(nodes') /\ Grouped(nodes', OpenSymbols(insts', lambdas'))
    <3>1. {} \in SUBSET (0 .. a)
      OBVIOUS
    <3>. QED BY <2>2, <2>3, <2>4, <2>5, <3>1, PushGroups
  <2>8. \A i \in 2 .. Len(insts') : insts'[i].kind = "arg"
    <3>. TAKE i \in 2 .. Len(insts')
    <3>1. CASE i <= Len(insts)
      <4>1. i \in 2 .. Len(insts) /\ insts'[i] = insts[i]
        BY <2>6, <3>1 DEF OneLonger
      <4>. QED BY <2>2, <4>1 DEF Scopes
    <3>2. CASE ~(i <= Len(insts))
      <4>1. insts'[i] = e
        BY <2>6, <3>2 DEF OneLonger
      <4>. QED BY <2>1, <4>1
    <3>. QED BY <3>1, <3>2
  <2>9. OpensFit(insts', lambdas') /\ ClosedForGood(insts', nodes', lambdas')
    BY <2>2, <2>5, <2>8 DEF OpensFit, ClosedForGood
  <2>. QED BY <2>2, <2>6, <2>7, <2>8, <2>9 DEF Scopes, Scoped, NothingEscapes
<1>. QED BY <1>1, <1>2

LEMMA StartBodyScopes ==
  ASSUME Walk, Scopes, StartBody
  PROVE  Scopes'
<1>1. UNCHANGED <<insts, nodes, lambdas>> /\ phase = "args" /\ phase' \in {"done", "body"}
      /\ (phase' = "done" => err') /\ (phase' = "body" => err' = err)
  BY DEF StartBody, walkVars
<1>. QED BY <1>1 DEF Scopes, NothingEscapes

\* The names after a node has bound its own.
LEMMA OwnName ==
  ASSUME StreamOK, NEW n \in Node, n.kind # "close", NEW opened \in SUBSET (0 .. next_symbol),
         NamesRise(nodes), Grouped(nodes, opened)
  PROVE  /\ NamesRise(Bound(n)) /\ Grouped(Bound(n), opened)
         /\ NamesFrom(Bound(n), nodes, next_symbol)
<1>1. next_symbol \in Nat /\ nodes \in Seq(BoundName(next_symbol))
  BY DEF StreamOK
<1>2. CASE Assigns(n)
  <2>1. Bound(n) = PushName(nodes, n.dest.name, next_symbol + 1)
    BY <1>2 DEF Bound, Symbol
  <2>. QED BY <1>1, <2>1, PushGroups
<1>3. CASE ~Assigns(n)
  BY <1>3 DEF Bound, NamesFrom
<1>. QED BY <1>2, <1>3

LEMMA InvokeScopes ==
  ASSUME Walk, Scopes, Invoke, ~err'
  PROVE  Scopes'
<1>1. Visit("invocation")
  BY DEF Invoke
<1>2. PICK n, a : n = body[pos] /\ a = next_symbol
  OBVIOUS
<1>3. /\ phase = "body" /\ phase' = "body" /\ n \in Node /\ n.kind = "invocation" /\ StreamOK
  BY <1>1, <1>2, Visited
<1>4. ~SkipAssignment(n)
  BY DEF SkipAssignment
<1>5. PICK e : e = [kind |-> "invocation", symbol |-> Symbol(n),
                    operands |-> [i \in DOMAIN n.operands |-> FindName(nodes', n.operands[i])]]
  OBVIOUS
<1>6. /\ nodes' = Bound(n) /\ Resolves(n) /\ insts' = Append(insts, e) /\ ~err /\ lambdas' = lambdas
  BY <1>2, <1>4, <1>5 DEF Invoke
<1>7. /\ a \in Nat /\ insts \in Seq(Inst(a)) /\ nodes \in Seq(BoundName(a))
  BY <1>2, <1>3 DEF StreamOK
<1>8. /\ SymbolsRise(insts) /\ NamesRise(nodes) /\ OpensFit(insts, lambdas)
      /\ Grouped(nodes, OpenSymbols(insts, lambdas)) /\ ClosedForGood(insts, nodes, lambdas)
  BY <1>3, <1>6 DEF Scopes, Scoped
<1>9. OpenSymbols(insts, lambdas) \in SUBSET (0 .. a)
  BY <1>7, <1>8, OpenSymbolsFit
<1>10. /\ NamesRise(nodes') /\ Grouped(nodes', OpenSymbols(insts, lambdas))
       /\ NamesFrom(nodes', nodes, a)
  BY <1>2, <1>3, <1>6, <1>8, <1>9, OwnName
<1>11. e.symbol \in {0, a + 1}
  BY <1>2, <1>5 DEF Symbol
<1>12. SymbolsRise(insts') /\ OneLonger(insts, insts', e)
  BY <1>6, <1>7, <1>8, <1>11, OneMore
<1>13. Extends(insts, insts')
  BY <1>5, <1>12 DEF Extends, Prolongs, OneLonger
<1>14. OpensFit(insts', lambdas') /\ OpenSymbols(insts', lambdas') = OpenSymbols(insts, lambdas)
  BY <1>6, <1>8, <1>13, OpensStayOpen
<1>15. \A u \in Len(insts) + 1 .. Len(insts') : insts'[u] = e
  BY <1>12 DEF OneLonger
<1>16. ASSUME NEW v \in ToSet(e.operands) PROVE \E x \in DOMAIN nodes' : v = nodes'[x].symbol
  <2>1. PICK i \in DOMAIN n.operands : v = FindName(nodes', n.operands[i])
    BY <1>5 DEF ToSet
  <2>2. Found(nodes', n.operands[i])
    BY <1>6 DEF Resolves
  <2>3. nodes' \in Seq(BoundName(Top(n))) /\ Top(n) \in Nat
    BY <1>3, <1>6, OwnSymbol
  <2>. QED BY <2>1, <2>2, <2>3, FoundIsThere
<1>17. UsesNames(insts, insts', nodes')
  <2>1. e.kind = "invocation"
    BY <1>5
  <2>. QED BY <1>15, <1>16, <2>1 DEF UsesOf, UsesNames
<1>18. ClosedForGood(insts', nodes', lambdas')
  <2>1. StillOpen(insts, insts', lambdas, lambdas')
    BY <1>5, <1>6, <1>15 DEF StillOpen
  <2>. QED BY <1>7, <1>8, <1>10, <1>13, <1>17, <2>1, ClosedStayClosed
<1>. QED BY <1>3, <1>10, <1>12, <1>14, <1>18 DEF Scopes, Scoped, NothingEscapes

\* The lambda at m with k parameters ends the stream t.
EndsWithLambda(t, m, k, e) ==
  /\ m \in Nat /\ Len(t) = m + k /\ t[m] = e
  /\ \A i \in m + 1 .. m + k : t[i].kind = "arg"
  /\ ParamsOf(t, m) = m + 1 .. m + k

ParamInsts(a, k) == [i \in 1 .. k |-> [kind |-> "arg", symbol |-> a + i]]

AddsLambda(s, t, e, a, k) == t = Append(s, e) \o ParamInsts(a + 1, k)

\* A lambda and its k parameters are appended, which have the symbols from the
\* next one on.
LEMMA LambdaAppended ==
  ASSUME NEW a \in Nat, NEW s \in Seq(Inst(a)), SymbolsRise(s), NEW k \in Nat, NEW t,
         NEW e \in Inst(a + 1), e.kind = "lambda", e.symbol = a + 1, AddsLambda(s, t, e, a, k)
  PROVE  Extends(s, t) /\ EndsWithLambda(t, Len(s) + 1, k, e) /\ SymbolsRise(t)
<1>1. PICK r, new, m : /\ r = Append(s, e) /\ new = [i \in 1 .. k |-> [kind |-> "arg", symbol |-> a + 1 + i]]
                       /\ t = r \o new /\ m = Len(s) + 1
  BY DEF AddsLambda, ParamInsts
<1>2. /\ SymbolsRise(r) /\ Len(r) = m /\ Len(s) \in Nat /\ r[m] = e /\ \A i \in 1 .. Len(s) : r[i] = s[i]
  <2>1. r = Append(s, e) /\ e.symbol \in {0, a + 1}
    BY <1>1
  <2>2. SymbolsRise(r) /\ OneLonger(s, r, e)
    BY <2>1, OneMore
  <2>. QED BY <1>1, <2>2 DEF OneLonger
<1>3. s \in Seq(Inst(a + 1))
  BY MoreSymbols
<1>4. r \in Seq(Inst(a + 1))
  <2>1. PICK S : S = Inst(a + 1)
    OBVIOUS
  <2>. QED BY <1>1, <1>3, <2>1
<1>5. m \in Nat /\ m \in 1 .. m /\ DOMAIN s = 1 .. m - 1 /\ DOMAIN r = 1 .. m /\ \A i \in 1 .. m : r[i].symbol \in 0 .. a + 1
  <2>1. Len(s) = m - 1 /\ m \in Nat /\ m \in 1 .. m
    BY <1>1, <1>2
  <2>2. a + 1 \in Nat /\ DOMAIN r = 1 .. Len(r) /\ \A i \in DOMAIN r : r[i].symbol \in 0 .. a + 1
    BY <1>4, InstFields
  <2>3. DOMAIN s = 1 .. Len(s)
    BY InstFields
  <2>. QED BY <1>2, <2>1, <2>2, <2>3
<1>6. \A i \in 1 .. k : new[i].kind = "arg" /\ new[i].symbol = a + 1 + i
  BY <1>1
<1>7. /\ Len(t) = m + k /\ DOMAIN t = 1 .. m + k
      /\ \A i \in 1 .. m + k : t[i] = IF i <= m THEN r[i] ELSE new[i - m]
  <2>1. PICK S : S = Inst(a + 1) \union {new[i] : i \in 1 .. k}
    OBVIOUS
  <2>2. r \in Seq(S)
    BY <1>4, <2>1, SeqOfMore
  <2>3. new \in Seq(S) /\ Len(new) = k
    <3>1. new \in [1 .. k -> S]
      BY <1>1, <2>1
    <3>. QED BY <3>1
  <2>4. t = r \o new
    BY <1>1
  <2>5. /\ t \in Seq(S) /\ Len(t) = Len(r) + Len(new)
        /\ \A i \in 1 .. Len(r) + Len(new) : t[i] = IF i <= Len(r) THEN r[i] ELSE new[i - Len(r)]
    BY <2>2, <2>3, <2>4, ConcatProperties
  <2>6. Len(r) = m /\ Len(new) = k
    BY <1>2, <2>3
  <2>7. DOMAIN t = 1 .. Len(t)
    BY <2>5
  <2>. QED BY <2>5, <2>6, <2>7
<1>8. \A i \in 1 .. m : t[i] = r[i]
  <2>1. \A i \in 1 .. m : i \in 1 .. m + k /\ i <= m
    BY <1>5
  <2>. QED BY <1>7, <2>1
<1>9. \A i \in m + 1 .. m + k : t[i].kind = "arg" /\ t[i].symbol = a + 1 + (i - m)
  <2>. TAKE i \in m + 1 .. m + k
  <2>1. i \in 1 .. m + k /\ ~(i <= m) /\ i - m \in 1 .. k
    BY <1>5
  <2>. QED BY <1>6, <1>7, <2>1
<1>10. SymbolsRise(t)
  <2>. SUFFICES ASSUME NEW i \in 1 .. m + k, NEW j \in 1 .. m + k, i < j, t[j].symbol # 0
                PROVE  t[i].symbol < t[j].symbol
    BY <1>7 DEF SymbolsRise
  <2>1. CASE j <= m
    <3>1. i \in 1 .. m /\ j \in 1 .. m
      BY <1>5, <2>1
    <3>. QED BY <1>2, <1>5, <1>8, <3>1 DEF SymbolsRise
  <2>2. CASE ~(j <= m) /\ i <= m
    <3>1. i \in 1 .. m /\ j \in m + 1 .. m + k
      BY <1>5, <2>2
    <3>2. t[i].symbol \in 0 .. a + 1
      BY <1>5, <1>8, <3>1
    <3>3. t[j].symbol = a + 1 + (j - m)
      BY <1>9, <3>1
    <3>4. j - m \in 1 .. k
      BY <1>5, <3>1
    <3>. QED BY <3>2, <3>3, <3>4
  <2>3. CASE ~(j <= m) /\ ~(i <= m)
    <3>1. i \in m + 1 .. m + k /\ j \in m + 1 .. m + k
      BY <1>5, <2>3
    <3>2. t[i].symbol = a + 1 + (i - m) /\ t[j].symbol = a + 1 + (j - m)
      BY <1>9, <3>1
    <3>. QED BY <1>5, <3>1, <3>2
  <2>. QED BY <1>5, <2>1, <2>2, <2>3
<1>11. ParamsOf(t, m) = m + 1 .. m + k
  <2>1. \A j \in m + 1 .. m + k : \A x \in m + 1 .. j : x \in m + 1 .. m + k
    BY <1>5
  <2>2. \A j \in m + 1 .. m + k : \A x \in m + 1 .. j : t[x].kind = "arg"
    BY <1>9, <2>1
  <2>. QED BY <1>7, <2>2 DEF ParamsOf
<1>12. t[m] = e /\ \A i \in 1 .. Len(s) : t[i] = s[i]
  <2>1. \A i \in 1 .. Len(s) : i \in 1 .. m
    BY <1>1, <1>2
  <2>. QED BY <1>2, <1>5, <1>8, <2>1
<1>13. Extends(s, t)
  <2>1. Len(t) \in Nat /\ Len(s) <= Len(t)
    BY <1>1, <1>2, <1>5, <1>7
  <2>2. t[Len(s) + 1].kind # "arg"
    BY <1>1, <1>12
  <2>. QED BY <1>2, <1>12, <2>1, <2>2 DEF Extends, Prolongs
<1>14. EndsWithLambda(t, m, k, e)
  BY <1>5, <1>7, <1>9, <1>11, <1>12 DEF EndsWithLambda
<1>. QED BY <1>1, <1>10, <1>13, <1>14

AtEnd(s, t, m, k) ==
  /\ m = Len(s) + 1 /\ m \in 2 .. Len(t) /\ t[m].kind = "lambda" /\ t[m].symbol # 0
  /\ ParamsOf(t, m) = m + 1 .. m + k

AddsOpen(ls, ms, m, k) == ms = Append(ls, [inst |-> m, n_args |-> k])

Opened(ls, ms, m) == IsOpen(ms, m) /\ \A i : IsOpen(ls, i) => IsOpen(ms, i)

LEMMA LambdaOpened ==
  ASSUME NEW a \in Nat, NEW s \in Seq(Inst(a)), NEW t, NEW m, NEW k \in Nat, AtEnd(s, t, m, k),
         NEW L, NEW ls \in Seq(L), OpensFit(s, ls), OpensFit(t, ls), NEW ms, AddsOpen(ls, ms, m, k)
  PROVE  /\ OpensFit(t, ms) /\ OpenSymbols(t, ms) = OpenSymbols(t, ls) \union {t[m].symbol}
         /\ Opened(ls, ms, m)
<1>1. PICK n, l, S : n = Len(ls) /\ l = [inst |-> m, n_args |-> k] /\ S = L \union {l} /\ ms = Append(ls, l)
  BY DEF AddsOpen
<1>2. ls \in Seq(S) /\ l \in S
  BY <1>1, SeqOfMore
<1>3. /\ n \in Nat /\ DOMAIN ls = 1 .. n /\ DOMAIN ms = 1 .. n + 1 /\ ms[n + 1] = l /\ \A i \in 1 .. n : ms[i] = ls[i]
      /\ l.inst = m /\ l.n_args = k
  BY <1>1, <1>2
<1>4. \A i \in 1 .. n + 1 : i \in 1 .. n \/ i = n + 1
  BY <1>3
<1>5. ASSUME NEW x \in 1 .. n + 1
      PROVE  LET i == ms[x].inst
             IN /\ i \in 2 .. Len(t) /\ t[i].kind = "lambda" /\ t[i].symbol # 0
                /\ ParamsOf(t, i) = i + 1 .. i + ms[x].n_args
  <2>1. CASE x \in 1 .. n
    BY <1>3, <2>1 DEF OpensFit
  <2>2. CASE x = n + 1
    BY <1>3, <2>2 DEF AtEnd
  <2>. QED BY <1>4, <2>1, <2>2
<1>6. ASSUME NEW x \in 1 .. n + 1, NEW y \in 1 .. n + 1, x < y PROVE ms[x].inst < ms[y].inst
  <2>1. x \in 1 .. n
    BY <1>3, <1>6
  <2>2. CASE y \in 1 .. n
    BY <1>3, <1>6, <2>1, <2>2 DEF OpensFit
  <2>3. CASE y = n + 1
    <3>1. ls[x].inst \in 2 .. Len(s) /\ Len(s) \in Nat
      BY <1>3, <2>1 DEF OpensFit
    <3>. QED BY <1>3, <2>1, <2>3, <3>1 DEF AtEnd
  <2>. QED BY <1>4, <2>2, <2>3
<1>7. OpensFit(t, ms)
  BY <1>3, <1>5, <1>6 DEF OpensFit
<1>8. OpenSymbols(t, ms) = OpenSymbols(t, ls) \union {t[m].symbol}
  <2>1. n + 1 \in 1 .. n + 1 /\ \A i \in 1 .. n : i \in 1 .. n + 1
    BY <1>3
  <2>2. ms[n + 1].inst = m /\ \A i \in 1 .. n : ms[i].inst = ls[i].inst
    BY <1>3
  <2>3. ASSUME NEW g \in OpenSymbols(t, ms) PROVE g \in OpenSymbols(t, ls) \union {t[m].symbol}
    <3>1. PICK x \in 1 .. n + 1 : g = t[ms[x].inst].symbol
      BY <1>3 DEF OpenSymbols
    <3>. QED BY <1>3, <1>4, <2>2, <3>1 DEF OpenSymbols
  <2>4. ASSUME NEW g \in OpenSymbols(t, ls) \union {t[m].symbol} PROVE g \in OpenSymbols(t, ms)
    <3>1. CASE g = t[m].symbol
      BY <1>3, <2>1, <2>2, <3>1 DEF OpenSymbols
    <3>2. CASE g \in OpenSymbols(t, ls)
      <4>1. PICK x \in 1 .. n : g = t[ls[x].inst].symbol
        BY <1>3, <3>2 DEF OpenSymbols
      <4>. QED BY <1>3, <2>1, <2>2, <4>1 DEF OpenSymbols
    <3>. QED BY <3>1, <3>2
  <2>. QED BY <2>3, <2>4
<1>9. Opened(ls, ms, m)
  <2>1. n + 1 \in 1 .. n + 1 /\ \A i \in 1 .. n : i \in 1 .. n + 1
    BY <1>3
  <2>. QED BY <1>3, <2>1 DEF IsOpen, Opened
<1>. QED BY <1>7, <1>8, <1>9

LEMMA OpenLambdaScopes ==
  ASSUME Walk, Scopes, OpenLambda, ~err'
  PROVE  Scopes'
<1>1. Visit("lambda")
  BY DEF OpenLambda
<1>2. PICK n, a, m : n = body[pos] /\ a = next_symbol /\ m = Len(insts) + 1
  OBVIOUS
<1>3. /\ phase = "body" /\ phase' = "body" /\ n \in Node /\ n.kind = "lambda" /\ StreamOK /\ InBody /\ TreeOK
      /\ n.params \in Seq(Decl) /\ n.dest # NoDecl
  BY <1>1, <1>2, Visited, NodeKinds
<1>4. ~SkipAssignment(n)
  BY DEF SkipAssignment
<1>5. PICK k : k = Len(n.params) /\ k \in Nat
  BY <1>3
<1>6. PICK names : names = [i \in 1 .. k |-> n.params[i].name] /\ names \in Seq(Name) /\ Len(names) = k
  <2>1. \A i \in 1 .. k : n.params[i].name \in Name
    <3>1. \A i \in 1 .. k : n.params[i] \in Decl
      BY <1>3, <1>5
    <3>. QED BY <3>1 DEF Decl
  <2>2. PICK names : names = [i \in 1 .. k |-> n.params[i].name]
    OBVIOUS
  <2>3. names \in Seq(Name) /\ Len(names) = k
    BY <1>5, <2>1, <2>2
  <2>. QED BY <2>2, <2>3
<1>7. Symbol(n) = a + 1 /\ Top(n) = a + 1
  BY <1>2, <1>3 DEF Symbol, Assigns, Top
<1>8. PICK e : e = [kind |-> "lambda", symbol |-> a + 1, body_len |-> 0]
  OBVIOUS
<1>9. /\ nodes' = PushParams(Bound(n), names, a + 1)
      /\ AddsLambda(insts, insts', e, a, k)
      /\ AddsOpen(lambdas, lambdas', m, k)
      /\ ~err
  <2>. DEFINE badOnes == {i \in DOMAIN n.params : n.params[i].type \notin table}
  <2>1. badOnes = {}
    BY <1>2, <1>4 DEF OpenLambda
  <2>. QED BY <1>2, <1>4, <1>5, <1>6, <1>7, <1>8, <2>1 DEF OpenLambda, AddsLambda, AddsOpen, ParamInsts
<1>10. /\ a \in Nat /\ insts \in Seq(Inst(a)) /\ nodes \in Seq(BoundName(a)) /\ lambdas \in Seq([inst : Nat, n_args : Nat])
  BY <1>2, <1>3 DEF StreamOK
<1>11. /\ SymbolsRise(insts) /\ NamesRise(nodes) /\ OpensFit(insts, lambdas)
       /\ Grouped(nodes, OpenSymbols(insts, lambdas)) /\ ClosedForGood(insts, nodes, lambdas)
  BY <1>3, <1>9 DEF Scopes, Scoped
<1>12. e \in Inst(a + 1) /\ e.kind = "lambda" /\ e.symbol = a + 1
  BY <1>8, <1>10 DEF Inst
<1>13. Extends(insts, insts') /\ EndsWithLambda(insts', m, k, e) /\ SymbolsRise(insts')
  BY <1>2, <1>5, <1>9, <1>10, <1>11, <1>12, LambdaAppended
<1>14. OpensFit(insts', lambdas) /\ OpenSymbols(insts', lambdas) = OpenSymbols(insts, lambdas)
  BY <1>11, <1>13, OpensStayOpen
<1>15. m \in 2 .. Len(insts')
  <2>1. Len(insts) = 1 + Len(args) + Total(AppendedAt, pos - 1)
    BY <1>3, <1>9 DEF InBody
  <2>2. Len(args) \in Nat /\ Total(AppendedAt, pos - 1) \in Nat
    <3>1. pos - 1 \in 0 .. Len(body) /\ Len(args) \in Nat
      BY <1>1, <1>3, Visited, CountedTotals
    <3>2. DOMAIN AppendedAt = DOMAIN body /\ \A i \in DOMAIN body : AppendedAt[i] \in Nat
      BY <1>3, TreeCounts
    <3>3. \A p \in 0 .. Len(body) : Total(AppendedAt, p) \in Nat
      BY <1>3, <3>2, TreeTotals
    <3>. QED BY <3>1, <3>3
  <2>3. Len(insts) >= 1
    BY <2>1, <2>2
  <2>4. Len(insts) \in Nat /\ Len(insts') = m + k
    BY <1>10, <1>13 DEF EndsWithLambda
  <2>5. PICK x, y : x = Len(insts) /\ y = Len(insts')
    OBVIOUS
  <2>6. x >= 1 /\ x \in Nat /\ y = m + k /\ m = x + 1
    BY <1>2, <2>3, <2>4, <2>5
  <2>7. m \in 2 .. y
    <3>1. k \in Nat
      BY <1>5
    <3>. QED BY <2>6, <3>1
  <2>. QED BY <2>5, <2>7
<1>16. /\ OpensFit(insts', lambdas')
       /\ OpenSymbols(insts', lambdas') = OpenSymbols(insts, lambdas) \union {a + 1}
       /\ Opened(lambdas, lambdas', m)
  <2>1. insts'[m].kind = "lambda" /\ insts'[m].symbol = a + 1 /\ a + 1 # 0 /\ ParamsOf(insts', m) = m + 1 .. m + k
    BY <1>10, <1>12, <1>13 DEF EndsWithLambda
  <2>2. AtEnd(insts, insts', m, k)
    BY <1>2, <1>15, <2>1 DEF AtEnd
  <2>3. PICK L : lambdas \in Seq(L)
    BY <1>10
  <2>4. /\ OpensFit(insts', lambdas') /\ OpenSymbols(insts', lambdas') = OpenSymbols(insts', lambdas) \union {insts'[m].symbol}
        /\ Opened(lambdas, lambdas', m)
    BY <1>5, <1>9, <1>10, <1>11, <1>14, <2>2, <2>3, LambdaOpened
  <2>. QED BY <1>14, <2>1, <2>4
<1>17. PICK q : q = Bound(n)
  OBVIOUS
<1>18. /\ NamesRise(q) /\ Grouped(q, OpenSymbols(insts, lambdas)) /\ q \in Seq(BoundName(a + 1))
       /\ NamesFrom(q, nodes, a)
  <2>1. OpenSymbols(insts, lambdas) \in SUBSET (0 .. a)
    BY <1>10, <1>11, OpenSymbolsFit
  <2>2. q \in Seq(BoundName(a + 1))
    BY <1>3, <1>7, <1>17, OwnSymbol
  <2>. QED BY <1>2, <1>3, <1>11, <1>17, <2>1, <2>2, OwnName
<1>19. /\ NamesRise(nodes') /\ Grouped(nodes', OpenSymbols(insts', lambdas'))
       /\ NamesFrom(nodes', q, a + 1)
  <2>1. a + 1 \in Nat
    BY <1>10
  <2>2. PushesParams(q, names, a + 1, nodes')
    BY <1>9, <1>17 DEF PushesParams
  <2>3. PICK opened : opened = OpenSymbols(insts, lambdas)
    OBVIOUS
  <2>4. NamesRise(nodes') /\ Grouped(nodes', opened \union {a + 1}) /\ NamesFrom(nodes', q, a + 1)
    BY <1>6, <1>18, <2>1, <2>2, <2>3, ParamGroups
  <2>. QED BY <1>16, <2>3, <2>4
<1>20. NamesFrom(nodes', nodes, a)
  <2>. SUFFICES ASSUME NEW x \in DOMAIN nodes'
                PROVE  nodes'[x].symbol > a \/ \E y \in DOMAIN nodes : nodes'[x].symbol = nodes[y].symbol
    BY DEF NamesFrom
  <2>1. CASE nodes'[x].symbol > a + 1
    <3>1. nodes'[x].symbol \in Nat
      <4>1. a + 1 \in Nat /\ a + 1 + k \in Nat
        <5>1. a \in Nat /\ k \in Nat
          BY <1>5, <1>10
        <5>. QED BY <5>1
      <4>2. nodes' \in Seq(BoundName(a + 1 + k))
        BY <1>6, <1>9, <1>17, <1>18, <4>1, ParamsPushed
      <4>3. nodes'[x].symbol \in 1 .. a + 1 + k
        BY <4>1, <4>2, NameFields
      <4>. QED BY <4>1, <4>3
    <3>. QED BY <1>10, <2>1, <3>1
  <2>2. CASE ~(nodes'[x].symbol > a + 1)
    BY <1>18, <1>19, <2>2 DEF NamesFrom
  <2>. QED BY <2>1, <2>2
<1>21. ClosedForGood(insts', nodes', lambdas')
  <2>1. \A i \in Len(insts) + 1 .. Len(insts') : i = m \/ i \in m + 1 .. m + k
    BY <1>2, <1>10, <1>13 DEF EndsWithLambda
  <2>2. \A i \in Len(insts) + 1 .. Len(insts') :
          insts'[i].kind # "invocation" /\ (insts'[i].kind = "lambda" => i = m)
    BY <1>12, <1>13, <2>1 DEF EndsWithLambda
  <2>3. UsesNames(insts, insts', nodes')
    BY <2>2 DEF UsesNames, UsesOf
  <2>4. StillOpen(insts, insts', lambdas, lambdas')
    BY <1>16, <2>2 DEF StillOpen, Opened
  <2>. QED BY <1>10, <1>11, <1>13, <1>20, <2>3, <2>4, ClosedStayClosed
<1>. QED BY <1>3, <1>13, <1>16, <1>19, <1>21 DEF Scopes, Scoped, NothingEscapes

\* l is taken off the lambdas that are open, and its length is patched.
Shortens(ls, ms, l) ==
  /\ Len(ms) \in Nat /\ DOMAIN ms = 1 .. Len(ms) /\ DOMAIN ls = 1 .. Len(ms) + 1
  /\ ls[Len(ms) + 1] = l /\ \A i \in 1 .. Len(ms) : ms[i] = ls[i]

Patches(s, t, l) ==
  /\ Len(t) = Len(s) /\ DOMAIN t = DOMAIN s
  /\ \A i \in DOMAIN s : t[i].kind = s[i].kind /\ t[i].symbol = s[i].symbol /\ (i # l.inst => t[i] = s[i])
  /\ l.n_args \in Nat /\ t[l.inst].body_len = Len(s) - (l.inst - 1) - l.n_args

\* What is open is that lambda, with the last symbol, and what is left.
OneIsClosed(s, t, ls, ms, l) ==
  /\ l.inst \in 2 .. Len(s) /\ s[l.inst].kind = "lambda" /\ s[l.inst].symbol # 0
  /\ ParamsOf(s, l.inst) = l.inst + 1 .. l.inst + l.n_args
  /\ OpenSymbols(s, ls) = OpenSymbols(t, ms) \union {s[l.inst].symbol}
  /\ \A h \in OpenSymbols(t, ms) : h <= s[l.inst].symbol /\ h \in Nat
  /\ \A i : IsOpen(ls, i) => i = l.inst \/ IsOpen(ms, i)

LEMMA OpensClose ==
  ASSUME NEW a \in Nat, NEW s \in Seq(Inst(a)), NEW t, NEW ls, NEW ms, NEW l,
         Patches(s, t, l), Shortens(ls, ms, l), SymbolsRise(s), OpensFit(s, ls)
  PROVE  Prolongs(s, t) /\ OpensFit(t, ms) /\ OneIsClosed(s, t, ls, ms, l)
<1>1. Len(s) \in Nat /\ DOMAIN s = 1 .. Len(s) /\ \A i \in DOMAIN s : s[i].symbol \in 0 .. a
  BY InstFields
<1>2. PICK n : /\ n = Len(ms) /\ n \in Nat /\ DOMAIN ms = 1 .. n /\ DOMAIN ls = 1 .. n + 1
               /\ ls[n + 1] = l /\ \A i \in 1 .. n : ms[i] = ls[i]
  BY DEF Shortens
<1>3. n + 1 \in 1 .. n + 1 /\ \A k \in 1 .. n : k \in 1 .. n + 1 /\ k < n + 1
  BY <1>2
<1>4. \A k \in 1 .. n + 1 : k \in 1 .. n \/ k = n + 1
  BY <1>2
<1>5. Len(t) = Len(s) /\ \A i \in 1 .. Len(s) : t[i].kind = s[i].kind /\ t[i].symbol = s[i].symbol
  BY <1>1 DEF Patches
<1>6. Prolongs(s, t)
  BY <1>1, <1>5 DEF Prolongs
<1>7. ASSUME NEW k \in 1 .. n + 1
      PROVE  LET i == ls[k].inst
             IN /\ i \in 2 .. Len(s) /\ i \in 1 .. Len(s) /\ s[i].kind = "lambda" /\ s[i].symbol # 0
                /\ ParamsOf(s, i) = i + 1 .. i + ls[k].n_args
  <2>1. k \in DOMAIN ls
    BY <1>2
  <2>2. ls[k].inst \in 2 .. Len(s) => ls[k].inst \in 1 .. Len(s)
    BY <1>1
  <2>. QED BY <2>1, <2>2 DEF OpensFit
<1>8. \A k, m \in 1 .. n + 1 : k < m => ls[k].inst < ls[m].inst
  BY <1>2 DEF OpensFit
<1>9. OpensFit(t, ms)
  <2>1. ASSUME NEW k \in 1 .. n
        PROVE  LET i == ms[k].inst
               IN /\ i \in 2 .. Len(t) /\ t[i].kind = "lambda" /\ t[i].symbol # 0
                  /\ ParamsOf(t, i) = i + 1 .. i + ms[k].n_args
    <3>1. PICK i : i = ls[k].inst /\ ms[k] = ls[k]
      BY <1>2
    <3>2. /\ i \in 2 .. Len(s) /\ i \in 1 .. Len(s) /\ s[i].kind = "lambda" /\ s[i].symbol # 0
          /\ ParamsOf(s, i) = i + 1 .. i + ls[k].n_args
      BY <1>3, <1>7, <3>1
    <3>3. ParamsOf(t, i) = ParamsOf(s, i)
      BY <1>6, <3>2, ParamsAreKept
    <3>. QED BY <1>5, <3>1, <3>2, <3>3
  <2>2. \A k, m \in 1 .. n : k < m => ms[k].inst < ms[m].inst
    BY <1>2, <1>3, <1>8
  <2>. QED BY <1>2, <2>1, <2>2 DEF OpensFit
<1>10. /\ l.inst \in 2 .. Len(s) /\ l.inst \in 1 .. Len(s) /\ s[l.inst].kind = "lambda" /\ s[l.inst].symbol # 0
       /\ ParamsOf(s, l.inst) = l.inst + 1 .. l.inst + l.n_args
  BY <1>2, <1>3, <1>7
<1>11. s[l.inst].symbol \in 1 .. a
  <2>1. s[l.inst].symbol \in 0 .. a
    BY <1>1, <1>10
  <2>. QED BY <1>10, <2>1
<1>12. \A k \in 1 .. n : t[ms[k].inst].symbol = s[ls[k].inst].symbol
  BY <1>2, <1>3, <1>5, <1>7
<1>13. OpenSymbols(s, ls) = OpenSymbols(t, ms) \union {s[l.inst].symbol}
  <2>1. ASSUME NEW h \in OpenSymbols(s, ls) PROVE h \in OpenSymbols(t, ms) \union {s[l.inst].symbol}
    <3>1. PICK k \in 1 .. n + 1 : h = s[ls[k].inst].symbol
      BY <1>2 DEF OpenSymbols
    <3>. QED BY <1>2, <1>4, <1>12, <3>1 DEF OpenSymbols
  <2>2. ASSUME NEW h \in OpenSymbols(t, ms) PROVE h \in OpenSymbols(s, ls)
    <3>1. PICK k \in 1 .. n : h = t[ms[k].inst].symbol
      BY <1>2 DEF OpenSymbols
    <3>. QED BY <1>2, <1>3, <1>12, <3>1 DEF OpenSymbols
  <2>3. s[l.inst].symbol \in OpenSymbols(s, ls)
    BY <1>2, <1>3 DEF OpenSymbols
  <2>. QED BY <2>1, <2>2, <2>3
<1>14. ASSUME NEW h \in OpenSymbols(t, ms) PROVE h <= s[l.inst].symbol /\ h \in Nat
  <2>1. PICK k \in 1 .. n : h = s[ls[k].inst].symbol
    BY <1>2, <1>12 DEF OpenSymbols
  <2>2. PICK i : i = ls[k].inst /\ i \in 1 .. Len(s)
    BY <1>3, <1>7
  <2>3. i < l.inst
    BY <1>2, <1>3, <1>8, <2>2
  <2>4. s[i].symbol < s[l.inst].symbol
    BY <1>1, <1>10, <2>2, <2>3 DEF SymbolsRise
  <2>5. s[i].symbol \in 0 .. a
    BY <1>1, <2>2
  <2>. QED BY <1>11, <2>1, <2>2, <2>4, <2>5
<1>15. \A i : IsOpen(ls, i) => i = l.inst \/ IsOpen(ms, i)
  BY <1>2, <1>4 DEF IsOpen
<1>. QED BY <1>6, <1>9, <1>10, <1>13, <1>14, <1>15 DEF OneIsClosed

LEMMA LambdaClosed ==
  ASSUME NEW a \in Nat, NEW s \in Seq(Inst(a)), NEW t, NEW ls, NEW ms, NEW l,
         Patches(s, t, l), Shortens(ls, ms, l),
         NEW q \in Seq(BoundName(a)), NEW r, Pops(q, r), Scoped(s, q, ls)
  PROVE  Scoped(t, r, ms)
<1>1. SymbolsRise(s) /\ NamesRise(q) /\ OpensFit(s, ls) /\ Grouped(q, OpenSymbols(s, ls)) /\ ClosedForGood(s, q, ls)
  BY DEF Scoped
<1>2. Len(s) \in Nat /\ DOMAIN s = 1 .. Len(s) /\ \A i \in DOMAIN s : s[i].symbol \in 0 .. a
  BY InstFields
<1>3. PICK m, g, left : m = l.inst /\ g = s[l.inst].symbol /\ left = OpenSymbols(t, ms)
  OBVIOUS
<1>4. /\ Prolongs(s, t) /\ OpensFit(t, ms)
      /\ m \in 2 .. Len(s) /\ s[m].kind = "lambda" /\ g \in 1 .. a /\ ParamsOf(s, m) = m + 1 .. m + l.n_args
      /\ OpenSymbols(s, ls) = left \union {g}
      /\ \A h \in left : h <= g /\ h \in Nat
      /\ \A i : IsOpen(ls, i) => i = m \/ IsOpen(ms, i)
  <2>1. Prolongs(s, t) /\ OpensFit(t, ms) /\ OneIsClosed(s, t, ls, ms, l)
    BY <1>1, OpensClose
  <2>2. s[m].symbol \in 0 .. a
    BY <1>2, <1>3, <2>1 DEF OneIsClosed
  <2>. QED BY <1>3, <2>1, <2>2 DEF OneIsClosed
<1>5. /\ Len(t) = Len(s) /\ DOMAIN t = DOMAIN s
      /\ \A i \in 1 .. Len(s) : t[i].kind = s[i].kind /\ t[i].symbol = s[i].symbol /\ (i # m => t[i] = s[i])
      /\ l.n_args \in Nat /\ t[m].body_len = Len(s) - (m - 1) - l.n_args
  BY <1>2, <1>3 DEF Patches
<1>6. SymbolsRise(t)
  BY <1>1, <1>2, <1>5 DEF SymbolsRise
<1>7. /\ NamesRise(r) /\ Grouped(r, left)
      /\ \A x \in DOMAIN r : r[x].symbol <= g /\ \E y \in DOMAIN q : r[x].symbol = q[y].symbol
  <2>1. g \in Nat /\ Pops(q, r)
    BY <1>4
  <2>2. Grouped(q, left \union {g})
    BY <1>1, <1>4
  <2>3. \A h \in left : h <= g /\ h \in Nat
    BY <1>4
  <2>4. NamesRise(r) /\ Grouped(r, left) /\ NamesBelow(r, q, g)
    BY <1>1, <2>1, <2>2, <2>3, PopGroups
  <2>. QED BY <2>4 DEF NamesBelow
<1>8. ASSUME NEW i \in 2 .. Len(t), t[i].kind = "lambda", ~IsOpen(ms, i)
      PROVE  /\ EndOf(t, i) \in i .. Len(t)
             /\ \A d \in i + 1 .. EndOf(t, i) : t[d].symbol # 0 =>
                  /\ \A x \in DOMAIN r : r[x].symbol # t[d].symbol
                  /\ \A u \in EndOf(t, i) + 1 .. Len(t) : t[d].symbol \notin UsesOf(t, u)
  <2>1. i \in 2 .. Len(s) /\ i \in 1 .. Len(s)
    BY <1>2, <1>5
  <2>2. ParamsOf(t, i) = ParamsOf(s, i)
    BY <1>4, <2>1, ParamsAreKept
  <2>3. CASE i = m
    <3>1. EndOf(t, i) = Len(s)
      <4>1. PICK b, k, c : b = t[m].body_len /\ k = l.n_args /\ c = Cardinality(ParamsOf(t, i))
        OBVIOUS
      <4>2. c = k /\ k \in Nat /\ m \in Nat
        <5>1. k \in Nat /\ m \in Nat
          BY <1>4, <1>5, <4>1
        <5>2. PICK x, y : x = m + 1 /\ y = m + k
          OBVIOUS
        <5>3. x \in Int /\ y \in Int /\ (x > y => k = 0) /\ (~(x > y) => y - x + 1 = k)
          BY <5>1, <5>2
        <5>4. ParamsOf(t, i) = x .. y
          BY <1>4, <2>2, <2>3, <4>1, <5>2
        <5>5. Cardinality(x .. y) = IF x > y THEN 0 ELSE y - x + 1
          BY <5>3, FS_Interval
        <5>6. Cardinality(x .. y) = k
          BY <5>3, <5>5
        <5>. QED BY <4>1, <5>1, <5>4, <5>6
      <4>3. EndOf(t, i) = m + c + b - 1
        BY <2>3, <4>1 DEF EndOf
      <4>4. b = Len(s) - (m - 1) - k
        BY <1>5, <4>1
      <4>. QED BY <1>2, <4>2, <4>3, <4>4
    <3>2. ASSUME NEW d \in i + 1 .. Len(s), t[d].symbol # 0, NEW x \in DOMAIN r PROVE r[x].symbol # t[d].symbol
      <4>1. d \in 1 .. Len(s) /\ m \in 1 .. Len(s) /\ m < d
        BY <2>1, <2>3
      <4>2. s[d].symbol = t[d].symbol /\ s[d].symbol \in 0 .. a
        BY <1>2, <1>5, <4>1
      <4>3. g < s[d].symbol
        BY <1>1, <1>2, <1>3, <3>2, <4>1, <4>2 DEF SymbolsRise
      <4>4. r[x].symbol <= g /\ \E y \in DOMAIN q : r[x].symbol = q[y].symbol
        BY <1>7
      <4>5. \A y \in DOMAIN q : q[y].symbol \in 1 .. a
        BY NameFields
      <4>6. r[x].symbol \in Nat
        BY <4>4, <4>5
      <4>. QED BY <1>4, <4>2, <4>3, <4>4, <4>6
    <3>3. Len(s) + 1 .. Len(t) = {}
      BY <1>2, <1>5
    <3>4. Len(s) \in i .. Len(t)
      BY <1>2, <1>5, <2>1
    <3>. QED BY <3>1, <3>2, <3>3, <3>4
  <2>4. CASE i # m
    <3>1. ~IsOpen(ls, i) /\ s[i].kind = "lambda" /\ t[i] = s[i]
      BY <1>4, <1>5, <1>8, <2>1, <2>4
    <3>2. EndOf(t, i) = EndOf(s, i)
      BY <2>2, <3>1 DEF EndOf
    <3>3. PICK e : e = EndOf(s, i)
      OBVIOUS
    <3>4. /\ e \in i .. Len(s)
          /\ \A d \in i + 1 .. e : s[d].symbol # 0 =>
               /\ \A x \in DOMAIN q : q[x].symbol # s[d].symbol
               /\ \A u \in e + 1 .. Len(s) : s[d].symbol \notin UsesOf(s, u)
      BY <1>1, <2>1, <3>1, <3>3 DEF ClosedForGood
    <3>5. ASSUME NEW d \in i + 1 .. e, t[d].symbol # 0
          PROVE  /\ \A x \in DOMAIN r : r[x].symbol # t[d].symbol
                 /\ \A u \in e + 1 .. Len(t) : t[d].symbol \notin UsesOf(t, u)
      <4>1. d \in 1 .. Len(s)
        BY <1>2, <2>1, <3>4
      <4>2. t[d].symbol = s[d].symbol
        BY <1>5, <4>1
      <4>3. \A x \in DOMAIN q : q[x].symbol # s[d].symbol
        BY <3>4, <3>5, <4>2
      <4>4. \A x \in DOMAIN r : r[x].symbol # t[d].symbol
        BY <1>7, <4>2, <4>3
      <4>5. ASSUME NEW u \in e + 1 .. Len(t) PROVE UsesOf(t, u) = UsesOf(s, u) /\ u \in e + 1 .. Len(s)
        <5>1. u \in 1 .. Len(s) /\ u \in e + 1 .. Len(s)
          BY <1>2, <1>5, <2>1, <3>4
        <5>2. CASE u # m
          BY <1>5, <5>1, <5>2 DEF UsesOf
        <5>3. CASE u = m
          <6>. QED BY <1>4, <1>5, <5>1, <5>3 DEF UsesOf
        <5>. QED BY <5>1, <5>2, <5>3
      <4>. QED BY <3>4, <3>5, <4>2, <4>4, <4>5
    <3>6. e \in i .. Len(t)
      BY <1>5, <3>4
    <3>. QED BY <3>2, <3>3, <3>5, <3>6
  <2>. QED BY <2>3, <2>4
<1>9. ClosedForGood(t, r, ms)
  BY <1>8 DEF ClosedForGood
<1>. QED BY <1>3, <1>4, <1>6, <1>7, <1>9 DEF Scoped

LEMMA CloseLambdaScopes ==
  ASSUME Walk, Scopes, CloseLambda, ~err'
  PROVE  Scopes'
<1>1. Visit("close")
  BY DEF CloseLambda
<1>2. /\ phase = "body" /\ phase' = "body" /\ pos \in 1 .. Len(body) /\ body[pos].kind = "close"
      /\ StreamOK /\ InBody /\ TreeOK
  BY <1>1, Visited DEF Visit
<1>3. PICK a, l, n : a = next_symbol /\ l = Last(lambdas) /\ n = Len(lambdas) - 1
  OBVIOUS
<1>4. /\ a \in Nat /\ insts \in Seq(Inst(a)) /\ nodes \in Seq(BoundName(a))
      /\ lambdas \in Seq([inst : Nat, n_args : Nat]) /\ \A i \in DOMAIN lambdas : Fits(lambdas[i], insts)
  BY <1>2, <1>3 DEF StreamOK
<1>5. n \in Nat /\ Len(lambdas) = n + 1
  <2>1. pos \in 0 .. Len(body) /\ pos # 0 /\ body \in Seq(Node)
    BY <1>2 DEF TreeOK
  <2>2. Open(pos) = Open(pos - 1) - 1 /\ Open(pos) \in Int
    BY <1>2, <2>1, OpenMoves
  <2>3. Open(pos) >= 0
    BY <1>2, <2>1 DEF TreeOK
  <2>4. Len(lambdas) = Open(pos - 1) /\ Len(lambdas) \in Nat
    BY <1>2, <1>4 DEF InBody
  <2>. QED BY <1>3, <2>2, <2>3, <2>4
<1>6. /\ Pops(nodes, nodes') /\ ~err /\ lambdas' = Front(lambdas)
      /\ insts' = [insts EXCEPT ![l.inst].body_len = Len(insts) - (l.inst - 1) - l.n_args]
  BY <1>3 DEF CloseLambda, Pops, BodyLen
<1>7. Shortens(lambdas, lambdas', l)
  <2>1. PICK L, q : q = lambdas /\ q \in Seq(L)
    BY <1>4
  <2>2. lambdas' = SubSeq(q, 1, n) /\ n \in 0 .. Len(q)
    BY <1>5, <1>6, <2>1 DEF Front
  <2>3. Len(lambdas') = n /\ lambdas' \in Seq(L) /\ \A i \in 1 .. n : lambdas'[i] = q[i]
    BY <2>1, <2>2, SplitElements
  <2>4. DOMAIN lambdas' = 1 .. n /\ DOMAIN q = 1 .. n + 1
    BY <1>5, <2>1, <2>3
  <2>5. q[n + 1] = l
    BY <1>3, <1>5, <2>1 DEF Last
  <2>. QED BY <1>5, <2>1, <2>3, <2>4, <2>5 DEF Shortens
<1>8. l \in [inst : Nat, n_args : Nat] /\ Fits(l, insts)
  <2>1. Len(lambdas) \in DOMAIN lambdas
    BY <1>4, <1>5
  <2>. QED BY <1>3, <1>4, <2>1, SeqElements DEF Last
<1>9. Patches(insts, insts', l)
  <2>1. PICK m, b : m = l.inst /\ b = Len(insts) - (l.inst - 1) - l.n_args
    OBVIOUS
  <2>2. m \in DOMAIN insts /\ insts[m].kind = "lambda"
    BY <1>8, <2>1 DEF Fits
  <2>3. insts[m] \in [kind : {"lambda"}, symbol : 0 .. a, body_len : Nat]
    <3>1. insts[m] \in Inst(a)
      BY <1>4, <2>2, SeqElements
    <3>. QED BY <2>2, <3>1 DEF Inst
  <2>4. PICK e : e = [insts[m] EXCEPT !.body_len = b]
    OBVIOUS
  <2>5. e.kind = insts[m].kind /\ e.symbol = insts[m].symbol /\ e.body_len = b
    BY <2>3, <2>4
  <2>6. insts' = [insts EXCEPT ![m] = e]
    BY <1>6, <2>1, <2>4
  <2>7. PICK S : insts \in Seq(S)
    BY <1>4
  <2>8. Len(insts') = Len(insts) /\ DOMAIN insts' = DOMAIN insts
        /\ \A j \in DOMAIN insts : insts'[j] = IF j = m THEN e ELSE insts[j]
    BY <2>2, <2>6, <2>7
  <2>9. l.n_args \in Nat
    BY <1>8
  <2>. QED BY <2>1, <2>2, <2>5, <2>8, <2>9 DEF Patches
<1>10. Scoped(insts, nodes, lambdas)
  BY <1>2, <1>6 DEF Scopes
<1>11. Scoped(insts', nodes', lambdas')
  BY <1>4, <1>6, <1>7, <1>9, <1>10, LambdaClosed
<1>. QED BY <1>2, <1>11 DEF Scopes, NothingEscapes

\* When no lambda is open any more, nothing escapes.
LEMMA NoneIsOpen ==
  ASSUME StreamOK, ClosedForGood(insts, nodes, <<>>), NEW i \in 2 .. Len(insts), insts[i].kind = "lambda"
  PROVE  /\ Extent(i) \subseteq DOMAIN insts
         /\ \A u \in i + 1 .. Len(insts) \ Extent(i), d \in Extent(i) \ {i} :
              insts[d].symbol # 0 => insts[d].symbol \notin Uses(u)
<1>1. ~IsOpen(<<>>, i)
  BY DEF IsOpen
<1>2. PICK e : e = EndOf(insts, i)
  OBVIOUS
<1>3. /\ e \in i .. Len(insts)
      /\ \A d \in i + 1 .. e : insts[d].symbol # 0 =>
           \A u \in e + 1 .. Len(insts) : insts[d].symbol \notin UsesOf(insts, u)
  BY <1>1, <1>2 DEF ClosedForGood
<1>4. Extent(i) = i .. e
  BY <1>2 DEF Extent, EndOf, ParamsOf
<1>5. Len(insts) \in Nat /\ DOMAIN insts = 1 .. Len(insts)
  BY InstFields DEF StreamOK
<1>6. Extent(i) \subseteq DOMAIN insts
  BY <1>3, <1>4, <1>5
<1>7. ASSUME NEW u \in i + 1 .. Len(insts) \ Extent(i), NEW d \in Extent(i) \ {i}, insts[d].symbol # 0
      PROVE  insts[d].symbol \notin Uses(u)
  <2>1. u \in e + 1 .. Len(insts) /\ d \in i + 1 .. e
    BY <1>3, <1>4, <1>5
  <2>2. insts[d].symbol \notin UsesOf(insts, u)
    BY <1>3, <1>7, <2>1
  <2>. QED BY <2>2 DEF UsesOf, Uses
<1>. QED BY <1>6, <1>7

LEMMA SameExtents ==
  ASSUME insts' = insts
  PROVE  \A i : Extent(i)' = Extent(i) /\ Uses(i)' = Uses(i)
<1>. TAKE i
<1>1. Extent(i)' = Extent(i)
  BY DEF Extent
<1>2. Uses(i)' = Uses(i)
  BY DEF Uses
<1>. QED BY <1>1, <1>2

LEMMA EndBodyScopes ==
  ASSUME Walk, Scopes, EndBody, ~err'
  PROVE  Scopes'
<1>1. /\ phase = "body" /\ phase' = "done" /\ pos > Len(body) /\ ~err /\ insts' = insts
      /\ StreamOK /\ InBody /\ TreeOK /\ Counted
  BY DEF EndBody, Walk, walkVars, failVars
<1>2. pos - 1 = Len(body)
  BY <1>1 DEF InBody, TreeOK
<1>3. lambdas = <<>>
  <2>1. Len(lambdas) = 0 /\ lambdas \in Seq([inst : Nat, n_args : Nat])
    BY <1>1, <1>2 DEF InBody, Counted, StreamOK
  <2>. QED BY <2>1
<1>4. ClosedForGood(insts, nodes, <<>>)
  BY <1>1, <1>3 DEF Scopes, Scoped
<1>5. \A i \in 2 .. Len(insts) : insts[i].kind = "lambda" =>
        /\ Extent(i) \subseteq DOMAIN insts
        /\ \A u \in i + 1 .. Len(insts) \ Extent(i), d \in Extent(i) \ {i} :
             insts[d].symbol # 0 => insts[d].symbol \notin Uses(u)
  BY <1>1, <1>4, NoneIsOpen
<1>6. NothingEscapes'
  BY <1>1, <1>5, SameExtents DEF NothingEscapes
<1>. QED BY <1>1, <1>6 DEF Scopes

LEMMA ScopesBegin ==
  ASSUME Init
  PROVE  Scopes
BY DEF Init, Scopes, NothingEscapes

LEMMA ScopesGoOn ==
  ASSUME Walk, Scopes, [Next]_vars
  PROVE  Scopes'
<1>1. CASE err'
  BY <1>1, ErrorEndsScopes
<1>2. CASE phase' = "parse"
  BY <1>2 DEF Scopes, NothingEscapes
<1>3. CASE ~err' /\ phase' # "parse"
  <2>1. ASSUME NEW d \in Decl, ParseArg(d) PROVE FALSE
    BY <1>3, <2>1 DEF ParseArg
  <2>2. ASSUME NEW k \in 0 .. MaxSize, NEW n \in NodeOfSize[k], ParseNode(n) PROVE FALSE
    BY <1>3, <2>2 DEF ParseNode
  <2>3. CASE Count
    BY <2>3, CountScopes
  <2>4. CASE RecordArg
    BY <2>4, RecordArgScopes
  <2>5. CASE StartBody
    BY <2>5, StartBodyScopes
  <2>6. CASE Invoke
    BY <1>3, <2>6, InvokeScopes
  <2>7. CASE OpenLambda
    BY <1>3, <2>7, OpenLambdaScopes
  <2>8. CASE CloseLambda
    BY <1>3, <2>8, CloseLambdaScopes
  <2>9. CASE EndBody
    BY <1>3, <2>9, EndBodyScopes
  <2>10. CASE UNCHANGED vars
    <3>1. UNCHANGED <<phase, insts, nodes, lambdas, err, aborted>>
      BY <2>10 DEF vars, walkVars, failVars
    <3>2. NothingEscapes' <=> NothingEscapes
      BY <3>1, SameExtents DEF NothingEscapes
    <3>. QED BY <3>1, <3>2 DEF Scopes
  <2>. QED BY <2>1, <2>2, <2>3, <2>4, <2>5, <2>6, <2>7, <2>8, <2>9, <2>10 DEF Next
<1>. QED BY <1>1, <1>2, <1>3

-----------------------------------------------------------------------------
(* Names are bound lexically.  How many lambdas are open is a height over    *)
(* the places of the body, which moves by one at most; a definition is seen  *)
(* as long as the height does not fall below its own level.                  *)

\* A height falls through every value, and rises through every value.
LEMMA FallsThrough ==
  ASSUME NEW n \in Nat, NEW H \in [0 .. n -> Int], \A p \in 1 .. n : H[p] >= H[p - 1] - 1,
         NEW l \in 0 .. n, NEW j \in l .. n, H[j] < H[l]
  PROVE  \E m \in l + 1 .. j : H[m] = H[l] - 1
<1>. DEFINE Low == {k \in l .. n : H[k] < H[l]}
<1>1. PICK m \in Low : \A k \in Low : m <= k
  <2>1. Low \in SUBSET Nat /\ j \in Low
    OBVIOUS
  <2>. HIDE DEF Low
  <2>. QED BY <2>1, LeastNat
<1>2. m \in l .. n /\ H[m] < H[l] /\ m <= j
  <2>1. j \in Low
    OBVIOUS
  <2>. QED BY <1>1, <2>1
<1>3. m # l /\ m \in l + 1 .. j /\ m \in 1 .. n /\ m - 1 \in l .. n /\ m - 1 < m
  <2>1. m # l
    BY <1>2
  <2>. QED BY <1>2, <2>1
<1>4. ~(H[m - 1] < H[l])
  <2>1. m - 1 \notin Low
    <3>. HIDE DEF Low
    <3>1. m \in Nat
      BY <1>2
    <3>. QED BY <1>1, <1>3, <3>1
  <2>. QED BY <1>3, <2>1
<1>5. H[m] \in Int /\ H[m - 1] \in Int /\ H[l] \in Int /\ H[m] >= H[m - 1] - 1
  <2>1. m \in 0 .. n /\ m - 1 \in 0 .. n /\ l \in 0 .. n
    BY <1>2, <1>3
  <2>. QED BY <1>3, <2>1
<1>6. H[m] = H[l] - 1
  <2>1. PICK x, y, z : x = H[m] /\ y = H[m - 1] /\ z = H[l]
    OBVIOUS
  <2>2. x \in Int /\ y \in Int /\ z \in Int /\ x >= y - 1 /\ x < z /\ ~(y < z)
    BY <1>2, <1>4, <1>5, <2>1
  <2>3. x = z - 1
    BY <2>2
  <2>. QED BY <2>1, <2>3
<1>. QED BY <1>3, <1>6

LEMMA RisesThrough ==
  ASSUME NEW n \in Nat, NEW H \in [0 .. n -> Int], \A p \in 1 .. n : H[p] <= H[p - 1] + 1,
         NEW q \in 0 .. n, H[0] < H[q]
  PROVE  \E l \in 1 .. q : H[l] = H[l - 1] + 1 /\ H[l] = H[q] /\ \A j \in l .. q : H[j] >= H[q]
<1>. DEFINE Back == {k \in Nat : k <= q /\ H[q - k] < H[q]}
<1>1. PICK k \in Back : \A x \in Back : k <= x
  <2>1. q - q = 0 /\ q \in Nat
    OBVIOUS
  <2>2. Back \in SUBSET Nat /\ q \in Back
    BY <2>1
  <2>. HIDE DEF Back
  <2>. QED BY <2>2, LeastNat
<1>2. k \in Nat /\ k <= q /\ H[q - k] < H[q] /\ \A x \in Nat : x < k => ~(H[q - x] < H[q])
  <2>1. k \in Nat /\ k <= q /\ H[q - k] < H[q]
    BY <1>1
  <2>2. ASSUME NEW x \in Nat, x < k PROVE ~(H[q - x] < H[q])
    <3>1. x \notin Back
      <4>. HIDE DEF Back
      <4>. QED BY <1>1, <2>1, <2>2
    <3>. QED BY <2>1, <2>2, <3>1
  <2>. QED BY <2>1, <2>2
<1>3. k # 0
  <2>1. SUFFICES ASSUME k = 0 PROVE FALSE
    OBVIOUS
  <2>2. q - k = q /\ H[q] \in Int
    BY <2>1
  <2>. QED BY <1>2, <2>2
<1>4. PICK l : l = q - k + 1 /\ l \in 1 .. q /\ l - 1 = q - k
  BY <1>2, <1>3
<1>5. ASSUME NEW j \in l .. q PROVE ~(H[j] < H[q]) /\ H[j] \in Int /\ H[q] \in Int
  <2>1. q - j \in Nat /\ q - j < k /\ q - (q - j) = j /\ j \in 0 .. n
    BY <1>2, <1>4
  <2>. QED BY <1>2, <2>1
<1>6. H[l] = H[q] /\ H[l] = H[l - 1] + 1
  <2>1. l \in 1 .. n /\ l \in l .. q /\ l - 1 \in 0 .. n
    BY <1>4
  <2>2. PICK x, y, z : x = H[l] /\ y = H[l - 1] /\ z = H[q]
    OBVIOUS
  <2>3. x <= y + 1 /\ y \in Int
    BY <2>1, <2>2
  <2>4. y < z
    BY <1>2, <1>4, <2>2
  <2>5. ~(x < z) /\ x \in Int /\ z \in Int
    BY <1>5, <2>1, <2>2
  <2>6. x = z /\ x = y + 1
    BY <2>3, <2>4, <2>5
  <2>. QED BY <2>2, <2>6
<1>7. \A j \in l .. q : H[j] >= H[q]
  BY <1>5
<1>. QED BY <1>4, <1>6, <1>7

\* Whatever node stands at a place moves the height by one at most.
LEMMA Heights ==
  ASSUME TreeOK
  PROVE  /\ Len(body) \in Nat
         /\ [p \in 0 .. Len(body) |-> Open(p)] \in [0 .. Len(body) -> Int]
         /\ Open(0) = 0
         /\ \A p \in 0 .. Len(body) : Open(p) \in Int /\ Open(p) >= 0
         /\ \A p \in 1 .. Len(body) :
              /\ Open(p) >= Open(p - 1) - 1 /\ Open(p) <= Open(p - 1) + 1
              /\ body[p].kind = "lambda" <=> Open(p) = Open(p - 1) + 1
              /\ body[p].kind = "close" <=> Open(p) = Open(p - 1) - 1
              /\ body[p].kind = "invocation" <=> Open(p) = Open(p - 1)
<1>1. Len(body) \in Nat /\ body \in Seq(Node)
  BY DEF TreeOK
<1>2. \A p \in 0 .. Len(body) : Open(p) \in Int /\ Open(p) >= 0
  BY <1>1, OpenMoves DEF TreeOK
<1>3. Open(0) = 0
  <2>1. 0 \in 0 .. Len(body)
    BY <1>1
  <2>. QED BY <1>1, <2>1, OpenMoves
<1>4. ASSUME NEW p \in 1 .. Len(body)
      PROVE  /\ Open(p) >= Open(p - 1) - 1 /\ Open(p) <= Open(p - 1) + 1
             /\ body[p].kind = "lambda" <=> Open(p) = Open(p - 1) + 1
             /\ body[p].kind = "close" <=> Open(p) = Open(p - 1) - 1
             /\ body[p].kind = "invocation" <=> Open(p) = Open(p - 1)
  <2>1. p \in 0 .. Len(body) /\ p - 1 \in 0 .. Len(body) /\ p # 0 /\ body[p] \in Node
    BY <1>1
  <2>2. /\ body[p].kind = "lambda" => Open(p) = Open(p - 1) + 1
        /\ body[p].kind = "close" => Open(p) = Open(p - 1) - 1
        /\ body[p].kind = "invocation" => Open(p) = Open(p - 1)
    BY <1>1, <2>1, OpenMoves
  <2>3. PICK x, y, k : x = Open(p) /\ y = Open(p - 1) /\ k = body[p].kind
    OBVIOUS
  <2>4. x \in Int /\ y \in Int /\ k \in {"invocation", "lambda", "close"}
    BY <1>2, <2>1, <2>3, NodeKinds
  <2>5. (k = "lambda" => x = y + 1) /\ (k = "close" => x = y - 1) /\ (k = "invocation" => x = y)
    BY <2>2, <2>3
  <2>6. /\ x >= y - 1 /\ x <= y + 1
        /\ k = "lambda" <=> x = y + 1
        /\ k = "close" <=> x = y - 1
        /\ k = "invocation" <=> x = y
    BY <2>4, <2>5
  <2>. QED BY <2>3, <2>6
<1>. QED BY <1>1, <1>2, <1>3, <1>4

\* A lambda is around a place when as many are open from there on.
LEMMA AroundIsAbove ==
  ASSUME TreeOK, Open(Len(body)) = 0, NEW l \in DOMAIN body, body[l].kind = "lambda",
         NEW p \in 1 .. Len(body) + 1
  PROVE  Around(l, p) <=> l < p /\ \A j \in l .. p - 1 : Open(j) >= Open(l)
<1>1. PICK n, H : n = Len(body) /\ H = [k \in 0 .. n |-> Open(k)] /\ n \in Nat /\ H \in [0 .. n -> Int]
  BY Heights
<1>2. \A k \in 0 .. n : H[k] = Open(k)
  BY <1>1
<1>3. l \in 1 .. n /\ l - 1 \in 0 .. n /\ l \in 0 .. n /\ l \in 1 .. Len(body)
  BY <1>1 DEF TreeOK
<1>4. \A k \in 1 .. n : H[k] >= H[k - 1] - 1
  <2>1. \A k \in 1 .. n : k \in 0 .. n /\ k - 1 \in 0 .. n
    BY <1>1
  <2>. QED BY <1>1, <1>2, <2>1, Heights
<1>5. H[l] = H[l - 1] + 1
  BY <1>1, <1>2, <1>3, Heights
<1>. DEFINE Ends == {j \in l + 1 .. n : Open(j) = Open(l - 1)}
<1>6. PICK c : c = CloseOf(l) /\ c \in l + 1 .. n /\ H[c] = H[l - 1]
  <2>1. CloseOf(l) \in l + 1 .. Len(body) /\ Open(CloseOf(l)) = Open(l - 1)
    BY MatchingClose
  <2>2. CloseOf(l) \in 0 .. n
    BY <1>1, <1>3, <2>1
  <2>. QED BY <1>1, <1>2, <1>3, <2>1, <2>2
<1>7. \A x \in Ends : c <= x
  <2>1. Ends \in SUBSET Nat
    BY <1>3
  <2>2. c \in Ends
    <3>1. c \in 0 .. n
      BY <1>3, <1>6
    <3>. QED BY <1>2, <1>3, <1>6, <3>1
  <2>3. c = Min(Ends)
    BY <1>1, <1>6 DEF CloseOf
  <2>. HIDE DEF Ends
  <2>. QED BY <2>1, <2>2, <2>3, MinOf
<1>8. ASSUME l < p, p <= c, NEW j \in l .. p - 1 PROVE H[j] >= H[l]
  <2>1. SUFFICES ASSUME H[j] < H[l] PROVE FALSE
    <3>1. H[j] \in Int /\ H[l] \in Int
      BY <1>1, <1>3, <1>6, <1>8
    <3>. QED BY <3>1
  <2>2. j \in l .. n /\ j \in Int /\ j < c /\ c \in Int
    BY <1>1, <1>3, <1>6, <1>8
  <2>3. PICK m \in l + 1 .. j : H[m] = H[l] - 1
    BY <1>1, <1>3, <1>4, <2>1, <2>2, FallsThrough
  <2>4. m \in l + 1 .. n /\ m \in 0 .. n /\ m < c
    BY <1>1, <1>3, <2>2, <2>3
  <2>5. H[m] = H[l - 1]
    <3>1. H[l - 1] \in Int /\ H[l] \in Int
      BY <1>1, <1>3
    <3>. QED BY <1>5, <2>3, <3>1
  <2>6. m \in Ends
    BY <1>2, <1>3, <2>4, <2>5
  <2>7. c <= m
    <3>. HIDE DEF Ends
    <3>. QED BY <1>7, <2>6
  <2>. QED BY <1>3, <1>6, <2>4, <2>7
<1>9. ASSUME l < p, \A j \in l .. p - 1 : H[j] >= H[l] PROVE p <= c
  <2>1. SUFFICES ASSUME ~(p <= c) PROVE FALSE
    OBVIOUS
  <2>2. c \in l .. p - 1
    BY <1>3, <1>6, <2>1
  <2>3. H[c] >= H[l] /\ H[l - 1] \in Int
    BY <1>1, <1>3, <1>9, <2>2
  <2>. QED BY <1>5, <1>6, <2>3
<1>10. l < p => \A j \in l .. p - 1 : H[j] = Open(j) /\ H[l] = Open(l)
  <2>1. l < p => \A j \in l .. p - 1 : j \in 0 .. n
    BY <1>1, <1>3
  <2>. QED BY <1>2, <1>3, <2>1
<1>11. l < p => (p <= c <=> \A j \in l .. p - 1 : Open(j) >= Open(l))
  BY <1>8, <1>9, <1>10
<1>. QED BY <1>6, <1>11 DEF Around

\* How many lambdas are around a definition.
Level(d) == IF d.node = 0 THEN 0 ELSE IF d.param THEN Open(d.node) ELSE Open(d.node - 1)

\* The place p is reached from the definition without leaving its lambda.
Reaches(d, p) == d.node < p /\ \A j \in d.node .. p - 1 : Open(j) >= Level(d)

LEMMA NodeOfDef ==
  ASSUME NEW q, NEW d \in DefsAt(q)
  PROVE  d.node = q /\ (d.param => body[q].kind = "lambda") /\ d.param \in BOOLEAN /\ body[q].kind # "close"
<1>1. ASSUME NEW name, NEW param \in BOOLEAN, NEW symbol, d = Def(name, q, param, symbol)
      PROVE  d.node = q /\ d.param = param
  BY <1>1 DEF Def
<1>2. CASE HasDest(q) /\ d = Def(body[q].dest.name, q, FALSE, DefsBefore(q) + 1)
  <2>1. d.node = q /\ d.param = FALSE /\ body[q].kind # "close"
    BY <1>1, <1>2 DEF HasDest
  <2>. QED BY <2>1
<1>3. ASSUME NEW i \in DOMAIN ParamsAt(q), d = Def(ParamsAt(q)[i].name, q, TRUE, DefsBefore(q) + 1 + i)
      PROVE  d.node = q /\ d.param = TRUE /\ body[q].kind = "lambda"
  <2>1. d.node = q /\ d.param = TRUE
    BY <1>1, <1>3
  <2>2. body[q].kind = "lambda"
    BY DEF ParamsAt
  <2>. QED BY <2>1, <2>2
<1>. QED BY <1>2, <1>3 DEF DefsAt

LEMMA DefKinds ==
  ASSUME TreeOK, NEW d \in Defs
  PROVE  /\ d.node \in 0 .. Len(body)
         /\ d.node = 0 => ~d.param
         /\ d.node # 0 => d \in DefsAt(d.node)
         /\ d.node # 0 /\ d.param => body[d.node].kind = "lambda"
         /\ d.param \in BOOLEAN
<1>. Len(body) \in Nat /\ DOMAIN body = 1 .. Len(body)
  BY Heights DEF TreeOK
<1>1. ASSUME NEW i \in DOMAIN args, d = Def(args[i].name, 0, FALSE, i)
      PROVE  d.node = 0 /\ d.param = FALSE
  BY <1>1 DEF Def
<1>2. ASSUME NEW q \in DOMAIN body, d \in DefsAt(q)
      PROVE  d.node = q /\ (d.param => body[q].kind = "lambda") /\ d.param \in BOOLEAN /\ q \in 1 .. Len(body) /\ q # 0
  BY <1>2, NodeOfDef
<1>3. (\E i \in DOMAIN args : d = Def(args[i].name, 0, FALSE, i)) \/ \E q \in DOMAIN body : d \in DefsAt(q)
  BY DEF Defs
<1>4. CASE \E i \in DOMAIN args : d = Def(args[i].name, 0, FALSE, i)
  <2>1. d.node = 0 /\ d.param = FALSE
    BY <1>1, <1>4
  <2>2. ~d.param /\ d.param \in BOOLEAN
    BY <2>1
  <2>3. d.node \in 0 .. Len(body)
    BY <2>1
  <2>. QED BY <2>1, <2>2, <2>3
<1>5. CASE \E q \in DOMAIN body : d \in DefsAt(q)
  <2>1. PICK q \in DOMAIN body : d \in DefsAt(q)
    BY <1>5
  <2>2. d.node = q /\ (d.param => body[q].kind = "lambda") /\ d.param \in BOOLEAN /\ q \in 1 .. Len(body) /\ q # 0
    BY <1>2, <2>1
  <2>. QED BY <2>1, <2>2
<1>. QED BY <1>3, <1>4, <1>5

\* What is visible by the nesting is what the place is reached from.
LEMMA VisibleReaches ==
  ASSUME TreeOK, Open(Len(body)) = 0, NEW d \in Defs, NEW p \in 1 .. Len(body) + 1
  PROVE  IsVisible(d, p) <=> Reaches(d, p)
<1>1. PICK n, H, q : n = Len(body) /\ q = d.node /\ H = [k \in 0 .. n |-> Open(k)] /\ n \in Nat /\ H \in [0 .. n -> Int]
  BY Heights
<1>2. \A k \in 0 .. n : H[k] = Open(k) /\ H[k] \in Int
  BY <1>1
<1>3. q \in 0 .. n
  BY <1>1, DefKinds
<1>4. CASE q = 0
  <2>1. ~d.param /\ \A l : l \notin 1 .. q - 1
    <3>1. ~d.param
      BY <1>1, <1>4, DefKinds
    <3>. QED BY <1>4, <3>1
  <2>2. IsVisible(d, p) <=> q < p
    BY <1>1, <2>1 DEF IsVisible
  <2>3. \A j \in 0 .. p - 1 : Open(j) >= 0
    BY <1>1, Heights
  <2>. QED BY <1>1, <1>4, <2>2, <2>3 DEF Reaches, Level
<1>5. CASE q # 0 /\ d.param
  <2>1. body[q].kind = "lambda" /\ q \in DOMAIN body
    BY <1>1, <1>3, <1>5, DefKinds DEF TreeOK
  <2>. QED BY <1>1, <1>5, <2>1, AroundIsAbove DEF IsVisible, Reaches, Level
<1>6. CASE q # 0 /\ ~d.param
  <2>1. q \in 1 .. n /\ q - 1 \in 0 .. n /\ Level(d) = H[q - 1]
    BY <1>1, <1>2, <1>3, <1>6 DEF Level
  <2>2. \A k \in 1 .. n : H[k] <= H[k - 1] + 1 /\ (H[k] = H[k - 1] + 1 => body[k].kind = "lambda")
    <3>1. \A k \in 1 .. n : k \in 0 .. n /\ k - 1 \in 0 .. n
      BY <1>1
    <3>. QED BY <1>1, <1>2, <3>1, Heights
  <2>3. \A l \in 1 .. q - 1 : l \in DOMAIN body /\ l \in 0 .. n /\ l < q /\ q \in 1 .. Len(body) + 1 /\ q - 1 \in l .. q - 1
    BY <1>1, <2>1 DEF TreeOK
  <2>4. ASSUME q < p, NEW l \in 1 .. q - 1, body[l].kind = "lambda"
        PROVE  /\ Around(l, q) <=> \A j \in l .. q - 1 : H[j] >= H[l]
               /\ Around(l, p) <=> \A j \in l .. p - 1 : H[j] >= H[l]
    <3>1. l < q /\ l < p /\ \A j \in l .. p - 1 : j \in 0 .. n
      BY <1>1, <2>1, <2>4
    <3>2. \A j \in l .. q - 1 : j \in l .. p - 1
      BY <2>1, <2>4
    <3>. QED BY <1>2, <2>3, <2>4, <3>1, <3>2, AroundIsAbove
  <2>5. ASSUME q < p, IsVisible(d, p), NEW j \in q .. p - 1 PROVE H[j] >= H[q - 1]
    <3>1. SUFFICES ASSUME H[j] < H[q - 1] PROVE FALSE
      <4>1. j \in 0 .. n
        BY <1>1, <2>1, <2>5
      <4>. QED BY <1>2, <2>1, <4>1
    <3>2. H[0] < H[q - 1]
      <4>1. 0 \in 0 .. n /\ j \in 0 .. n
        BY <1>1, <2>1, <2>5
      <4>2. H[0] = 0 /\ H[j] >= 0
        BY <1>1, <1>2, <4>1, Heights
      <4>. QED BY <1>2, <2>1, <3>1, <4>1, <4>2
    <3>3. PICK l \in 1 .. q - 1 : H[l] = H[l - 1] + 1 /\ H[l] = H[q - 1] /\ \A k \in l .. q - 1 : H[k] >= H[q - 1]
      <4>1. q - 1 \in 0 .. n /\ \A k \in 1 .. n : H[k] <= H[k - 1] + 1
        BY <2>1, <2>2
      <4>2. PICK r : r = q - 1
        OBVIOUS
      <4>3. \E l \in 1 .. r : H[l] = H[l - 1] + 1 /\ H[l] = H[r] /\ \A k \in l .. r : H[k] >= H[r]
        <5>1. r \in 0 .. n /\ H[0] < H[r]
          BY <3>2, <4>1, <4>2
        <5>2. n \in Nat /\ H \in [0 .. n -> Int]
          BY <1>1
        <5>3. \A k \in 1 .. n : H[k] <= H[k - 1] + 1
          BY <4>1
        <5>. QED BY <5>1, <5>2, <5>3, RisesThrough
      <4>. QED BY <4>2, <4>3
    <3>4. body[l].kind = "lambda"
      <4>1. l \in 1 .. n
        BY <1>1, <2>1, <3>3
      <4>. QED BY <2>2, <3>3, <4>1
    <3>5. Around(l, q)
      BY <2>4, <2>5, <3>3, <3>4
    <3>6. Around(l, p)
      BY <1>1, <1>6, <2>5, <3>4, <3>5 DEF IsVisible
    <3>7. j \in l .. p - 1
      BY <1>1, <2>1, <2>5, <3>3
    <3>8. H[j] >= H[l]
      BY <2>4, <2>5, <3>4, <3>6, <3>7
    <3>9. j \in 0 .. n /\ H[j] \in Int /\ H[q - 1] \in Int
      <4>1. j \in 0 .. n
        BY <1>1, <2>1, <2>5
      <4>. QED BY <1>2, <2>1, <4>1
    <3>. QED BY <3>1, <3>3, <3>8, <3>9
  <2>6. ASSUME q < p, \A j \in q .. p - 1 : H[j] >= H[q - 1], NEW l \in 1 .. q - 1, body[l].kind = "lambda", Around(l, q)
        PROVE  Around(l, p)
    <3>1. SUFFICES ASSUME NEW j \in l .. p - 1 PROVE H[j] >= H[l]
      BY <2>4, <2>6
    <3>2. H[q - 1] >= H[l]
      BY <2>3, <2>4, <2>6
    <3>3. CASE j \in l .. q - 1
      BY <2>4, <2>6, <3>3
    <3>4. CASE ~(j \in l .. q - 1)
      <4>1. j \in q .. p - 1 /\ j \in 0 .. n /\ l \in 0 .. n
        BY <1>1, <2>1, <2>6, <3>1, <3>4
      <4>2. H[j] >= H[q - 1]
        BY <2>6, <4>1
      <4>. QED BY <1>2, <2>1, <3>2, <4>1, <4>2
    <3>. QED BY <3>3, <3>4
  <2>7. q < p => (IsVisible(d, p) <=> \A j \in q .. p - 1 : H[j] >= H[q - 1])
    BY <1>1, <1>6, <2>5, <2>6 DEF IsVisible
  <2>8. q < p => \A j \in q .. p - 1 : H[j] = Open(j)
    <3>1. q < p => \A j \in q .. p - 1 : j \in 0 .. n
      BY <1>1, <2>1
    <3>. QED BY <1>2, <3>1
  <2>9. IsVisible(d, p) => q < p
    BY <1>1 DEF IsVisible
  <2>. QED BY <1>1, <2>1, <2>7, <2>8, <2>9 DEF Reaches
<1>. QED BY <1>4, <1>5, <1>6

-----------------------------------------------------------------------------
(* The stack of names, as a value: the depths rise by one at most from 0 up  *)
(* to the depth where the walk is, and the names are those of a set.         *)

Stacked(q, depth, names) ==
  /\ q # <<>> /\ q[1].depth = 0 /\ q[Len(q)].depth = depth
  /\ \A i, j \in DOMAIN q : i <= j => q[i].depth <= q[j].depth
  /\ \A i \in DOMAIN q : i # 1 => q[i].depth <= q[i - 1].depth + 1
  /\ {q[i] : i \in DOMAIN q} = names

Entry(name, symbol, depth) == [name |-> name, symbol |-> symbol, depth |-> depth]

\* r is q with k new names of the depth g.
GoesOn(q, new, k, g, r) ==
  /\ DOMAIN new = 1 .. k /\ k # 0
  /\ DOMAIN r = 1 .. Len(q) + k /\ Len(r) = Len(q) + k
  /\ \A i \in 1 .. Len(q) : r[i] = q[i]
  /\ \A i \in 1 .. k : r[Len(q) + i] = new[i] /\ new[i].depth = g

NamesIn(new, k) == {new[i] : i \in 1 .. k}

\* What is put on a stack goes on at the depth of the top, or one above it.
LEMMA MoreStacked ==
  ASSUME NEW a \in Nat, NEW q \in Seq(BoundName(a)), NEW h \in Nat, NEW names, Stacked(q, h, names),
         NEW new, NEW k \in Nat, NEW g \in {h, h + 1}, NEW r, GoesOn(q, new, k, g, r)
  PROVE  Stacked(r, g, names \union NamesIn(new, k))
<1>. /\ DOMAIN new = 1 .. k /\ k # 0 /\ (\A i \in 1 .. k : new[i].depth = g)
     /\ DOMAIN r = 1 .. Len(q) + k /\ Len(r) = Len(q) + k
     /\ (\A i \in 1 .. Len(q) : r[i] = q[i]) /\ \A i \in 1 .. k : r[Len(q) + i] = new[i]
  BY DEF GoesOn
<1>1. PICK n : n = Len(q) /\ n \in Nat /\ DOMAIN q = 1 .. n /\ \A i \in 1 .. n : q[i].depth \in Nat
  BY NameFields
<1>2. n # 0 /\ 1 \in 1 .. n /\ q[1].depth = 0 /\ q[n].depth = h
  <2>1. q # <<>> /\ q[1].depth = 0 /\ q[n].depth = h
    BY <1>1 DEF Stacked
  <2>2. n # 0
    BY <1>1, <2>1
  <2>. QED BY <1>1, <2>1, <2>2
<1>3. \A i \in 1 .. n + k : IF i \in 1 .. n THEN r[i] = q[i] ELSE i - n \in 1 .. k /\ r[i] = new[i - n]
  <2>. TAKE i \in 1 .. n + k
  <2>1. CASE i \in 1 .. n
    BY <1>1, <2>1
  <2>2. CASE ~(i \in 1 .. n)
    <3>1. i - n \in 1 .. k /\ n + (i - n) = i
      BY <1>1, <2>2
    <3>. QED BY <1>1, <2>2, <3>1
  <2>. QED BY <2>1, <2>2
<1>4. \A i \in 1 .. n + k : IF i \in 1 .. n THEN r[i].depth = q[i].depth ELSE r[i].depth = g
  BY <1>3
<1>5. \A i \in 1 .. n : q[i].depth <= h
  <2>. TAKE i \in 1 .. n
  <2>1. i <= n /\ n \in 1 .. n
    BY <1>1, <1>2
  <2>. QED BY <1>1, <1>2, <2>1 DEF Stacked
<1>6. ASSUME NEW i \in 1 .. n + k, NEW j \in 1 .. n + k, i <= j PROVE r[i].depth <= r[j].depth
  <2>1. CASE j \in 1 .. n
    <3>1. i \in 1 .. n
      BY <1>1, <1>6, <2>1
    <3>2. q[i].depth <= q[j].depth
      BY <1>1, <1>6, <2>1, <3>1 DEF Stacked
    <3>. QED BY <1>4, <2>1, <3>1, <3>2
  <2>2. CASE ~(j \in 1 .. n) /\ i \in 1 .. n
    <3>1. r[j].depth = g /\ r[i].depth = q[i].depth /\ q[i].depth <= h /\ q[i].depth \in Nat
      BY <1>1, <1>4, <1>5, <2>2
    <3>. QED BY <3>1
  <2>3. CASE ~(j \in 1 .. n) /\ ~(i \in 1 .. n)
    BY <1>4, <2>3
  <2>. QED BY <2>1, <2>2, <2>3
<1>7. ASSUME NEW i \in 1 .. n + k, i # 1 PROVE r[i].depth <= r[i - 1].depth + 1
  <2>0. i - 1 \in 1 .. n + k
    BY <1>1, <1>7
  <2>1. CASE i \in 1 .. n
    <3>1. i - 1 \in 1 .. n
      BY <1>1, <1>7, <2>1
    <3>2. q[i].depth <= q[i - 1].depth + 1
      BY <1>1, <1>7, <2>1 DEF Stacked
    <3>. QED BY <1>4, <2>0, <2>1, <3>1, <3>2
  <2>2. CASE ~(i \in 1 .. n) /\ i - 1 \in 1 .. n
    <3>1. i - 1 = n
      BY <1>1, <2>2
    <3>2. r[i].depth = g /\ r[i - 1].depth = h
      BY <1>2, <1>4, <2>0, <2>2, <3>1
    <3>. QED BY <3>2
  <2>3. CASE ~(i \in 1 .. n) /\ ~(i - 1 \in 1 .. n)
    <3>1. r[i].depth = g /\ r[i - 1].depth = g
      BY <1>4, <2>0, <2>3
    <3>. QED BY <3>1
  <2>. QED BY <2>1, <2>2, <2>3
<1>8. r # <<>> /\ r[1].depth = 0 /\ r[Len(r)].depth = g
  <2>1. 1 \in 1 .. n + k /\ n + k \in 1 .. n + k /\ ~(n + k \in 1 .. n)
    BY <1>1, <1>2
  <2>2. r # <<>>
    <3>1. Len(r) # 0
      BY <1>1, <1>2
    <3>. QED BY <3>1
  <2>. QED BY <1>1, <1>2, <1>4, <2>1, <2>2
<1>9. {r[i] : i \in DOMAIN r} = names \union {new[i] : i \in 1 .. k}
  <2>1. names = {q[i] : i \in 1 .. n} /\ DOMAIN r = 1 .. n + k
    BY <1>1 DEF Stacked
  <2>2. ASSUME NEW i \in 1 .. n + k PROVE (\E x \in 1 .. n : r[i] = q[x]) \/ \E x \in 1 .. k : r[i] = new[x]
    BY <1>3
  <2>3. ASSUME NEW x \in 1 .. n PROVE x \in 1 .. n + k /\ q[x] = r[x]
    BY <1>1
  <2>4. ASSUME NEW x \in 1 .. k PROVE n + x \in 1 .. n + k /\ new[x] = r[n + x]
    BY <1>1
  <2>5. {r[i] : i \in 1 .. n + k} \subseteq {q[x] : x \in 1 .. n} \union {new[x] : x \in 1 .. k}
    BY <2>2
  <2>6. {q[x] : x \in 1 .. n} \subseteq {r[i] : i \in 1 .. n + k}
    BY <2>3
  <2>7. {new[x] : x \in 1 .. k} \subseteq {r[i] : i \in 1 .. n + k}
    BY <2>4
  <2>. QED BY <2>1, <2>5, <2>6, <2>7
<1>. QED BY <1>1, <1>6, <1>7, <1>8, <1>9 DEF Stacked, NamesIn

LEMMA TopDepth ==
  ASSUME NEW q, NEW h, NEW names, Stacked(q, h, names)
  PROVE  ScopeDepth(q) = h
BY DEF Stacked, ScopeDepth, Last

LEMMA PushStacked ==
  ASSUME NEW a \in Nat, NEW q \in Seq(BoundName(a)), NEW h \in Nat, NEW names, Stacked(q, h, names), NEW name, NEW symbol
  PROVE  Stacked(PushName(q, name, symbol), h, names \union {Entry(name, symbol, h)})
<1>1. PICK e : e = Entry(name, symbol, h)
  OBVIOUS
<1>2. PushName(q, name, symbol) = Append(q, e)
  BY <1>1, TopDepth DEF PushName, Entry
<1>3. PICK S : S = BoundName(a) \union {e} /\ q \in Seq(S) /\ e \in S
  <2>1. PICK S : S = BoundName(a) \union {e}
    OBVIOUS
  <2>. QED BY <2>1, SeqOfMore
<1>4. PICK n, r : n = Len(q) /\ n \in Nat /\ r = Append(q, e)
  <2>1. Len(q) \in Nat
    BY <1>3
  <2>. QED BY <2>1
<1>5. DOMAIN r = 1 .. n + 1 /\ Len(r) = n + 1 /\ r[n + 1] = e /\ \A i \in 1 .. n : r[i] = q[i]
  BY <1>3, <1>4
<1>6. PICK new : new = [i \in 1 .. 1 |-> e]
  OBVIOUS
<1>7. DOMAIN new = 1 .. 1 /\ (\A i \in 1 .. 1 : new[i] = e) /\ e.depth = h
  BY <1>1, <1>6 DEF Entry
<1>8. \A i \in 1 .. 1 : i = 1
  OBVIOUS
<1>9. Stacked(r, h, names \union NamesIn(new, 1))
  <2>1. \A i \in 1 .. 1 : r[Len(q) + i] = new[i] /\ new[i].depth = h
    BY <1>4, <1>5, <1>7, <1>8
  <2>2. DOMAIN r = 1 .. Len(q) + 1 /\ Len(r) = Len(q) + 1 /\ \A i \in 1 .. Len(q) : r[i] = q[i]
    BY <1>4, <1>5
  <2>3. GoesOn(q, new, 1, h, r)
    BY <1>7, <2>1, <2>2 DEF GoesOn
  <2>4. 1 \in Nat /\ h \in {h, h + 1}
    OBVIOUS
  <2>. QED BY <2>3, <2>4, MoreStacked
<1>10. NamesIn(new, 1) = {e}
  <2>1. 1 \in 1 .. 1
    OBVIOUS
  <2>. QED BY <1>7, <2>1 DEF NamesIn
<1>. QED BY <1>1, <1>2, <1>4, <1>9, <1>10

LEMMA ParamsStacked ==
  ASSUME NEW a \in Nat, NEW q \in Seq(BoundName(a)), NEW h \in Nat, NEW set, Stacked(q, h, set),
         NEW names \in Seq(Name), names # <<>>, NEW r, PushesParams(q, names, a, r)
  PROVE  Stacked(r, h + 1, set \union {Entry(names[i], a + i, h + 1) : i \in DOMAIN names})
<1>1. PICK n, k, new : n = Len(q) /\ k = Len(names) /\ new = [i \in DOMAIN names |-> Entry(names[i], a + i, h + 1)]
  OBVIOUS
<1>2. n \in Nat /\ k \in Nat /\ k # 0 /\ DOMAIN names = 1 .. k
  BY <1>1
<1>3. DOMAIN new = 1 .. k /\ \A i \in 1 .. k : new[i] = Entry(names[i], a + i, h + 1) /\ new[i].depth = h + 1
  BY <1>1, <1>2 DEF Entry
<1>4. PICK S : S = BoundName(a) \union {new[i] : i \in DOMAIN names}
  OBVIOUS
<1>5. q \in Seq(S)
  BY <1>4, SeqOfMore
<1>6. new \in Seq(S) /\ Len(new) = k
  <2>1. \A i \in 1 .. k : new[i] \in S
    BY <1>2, <1>4
  <2>2. new \in [1 .. k -> S]
    BY <1>1, <1>2, <2>1
  <2>. QED BY <1>2, <2>2
<1>7. r = q \o new
  BY <1>1, TopDepth DEF PushesParams, PushParams, Entry
<1>8. /\ Len(r) = n + k /\ DOMAIN r = 1 .. n + k
      /\ \A i \in 1 .. n + k : r[i] = IF i <= n THEN q[i] ELSE new[i - n]
  <2>1. /\ r \in Seq(S) /\ Len(r) = Len(q) + Len(new)
        /\ \A i \in 1 .. Len(q) + Len(new) : r[i] = IF i <= Len(q) THEN q[i] ELSE new[i - Len(q)]
    BY <1>5, <1>6, <1>7, ConcatProperties
  <2>2. DOMAIN r = 1 .. Len(r)
    BY <2>1
  <2>. QED BY <1>1, <1>6, <2>1, <2>2
<1>9. \A i \in 1 .. n : r[i] = q[i]
  BY <1>2, <1>8
<1>10. \A i \in 1 .. k : r[n + i] = new[i]
  <2>. TAKE i \in 1 .. k
  <2>1. n + i \in 1 .. n + k /\ ~(n + i <= n) /\ (n + i) - n = i
    BY <1>2
  <2>. QED BY <1>8, <2>1
<1>11. Stacked(r, h + 1, set \union NamesIn(new, k))
  <2>1. DOMAIN r = 1 .. Len(q) + k /\ Len(r) = Len(q) + k /\ \A i \in 1 .. Len(q) : r[i] = q[i]
    BY <1>1, <1>8, <1>9
  <2>2. \A i \in 1 .. k : r[Len(q) + i] = new[i] /\ new[i].depth = h + 1
    BY <1>1, <1>3, <1>10
  <2>3. GoesOn(q, new, k, h + 1, r)
    BY <1>2, <1>3, <2>1, <2>2 DEF GoesOn
  <2>4. h + 1 \in {h, h + 1}
    OBVIOUS
  <2>. QED BY <1>2, <2>3, <2>4, MoreStacked
<1>12. NamesIn(new, k) = {Entry(names[i], a + i, h + 1) : i \in DOMAIN names}
  BY <1>2, <1>3 DEF NamesIn
<1>. QED BY <1>11, <1>12

\* The names of the topmost depth go, and the rest ends one depth below.
LEMMA PopStacked ==
  ASSUME NEW a \in Nat, NEW q \in Seq(BoundName(a)), NEW h \in Nat, h # 0, NEW set, Stacked(q, h, set),
         NEW r, Pops(q, r)
  PROVE  Stacked(r, h - 1, {e \in set : e.depth <= h - 1})
<1>. DEFINE Left == {0} \union {i \in DOMAIN q : q[i].depth # ScopeDepth(q)}
<1>1. PICK n, m : n = Len(q) /\ m = Max(Left) /\ n \in Nat /\ DOMAIN q = 1 .. n /\ \A i \in 1 .. n : q[i].depth \in Nat
  BY NameFields
<1>2. q # <<>> /\ q[1].depth = 0 /\ q[n].depth = h /\ ScopeDepth(q) = h
  BY <1>1, TopDepth DEF Stacked
<1>3. n # 0 /\ 1 \in 1 .. n /\ n \in 1 .. n
  <2>1. n # 0
    BY <1>1, <1>2
  <2>. QED BY <1>1, <2>1
<1>4. m \in 0 .. n /\ m \in Left /\ \A x \in Left : x <= m
  <2>1. Left \in SUBSET (0 .. n) /\ Left # {}
    BY <1>1
  <2>2. m \in Left /\ \A x \in Left : x <= m
    <3>. HIDE DEF Left
    <3>. QED BY <1>1, <2>1, MaxIsTop
  <2>. QED BY <2>1, <2>2
<1>5. m \in 1 .. n /\ q[m].depth # h
  <2>1. 1 \in Left
    BY <1>1, <1>2, <1>3
  <2>2. m # 0
    <3>1. 1 <= m
      <4>. HIDE DEF Left
      <4>. QED BY <1>4, <2>1
    <3>. QED BY <1>4, <3>1
  <2>3. m \in 1 .. n
    BY <1>1, <1>4, <2>2
  <2>. QED BY <1>2, <1>4, <2>2, <2>3
<1>6. \A i \in 1 .. n : q[i].depth <= h
  BY <1>1, <1>2, <1>3 DEF Stacked
<1>7. \A i \in m + 1 .. n : i \in 1 .. n /\ q[i].depth = h
  <2>. TAKE i \in m + 1 .. n
  <2>1. i \in 1 .. n /\ ~(i <= m)
    BY <1>1, <1>5
  <2>2. i \notin Left
    <3>. HIDE DEF Left
    <3>. QED BY <1>4, <2>1
  <2>. QED BY <1>1, <1>2, <2>1, <2>2
<1>8. q[m].depth = h - 1
  <2>1. m + 1 \in m + 1 .. n
    <3>1. m # n
      BY <1>2, <1>5
    <3>. QED BY <1>1, <1>5, <3>1
  <2>2. q[m + 1].depth = h /\ m + 1 \in 1 .. n
    BY <1>7, <2>1
  <2>3. q[m + 1].depth <= q[m].depth + 1
    <3>1. m + 1 # 1 /\ (m + 1) - 1 = m
      BY <1>5
    <3>. QED BY <1>1, <2>2, <3>1 DEF Stacked
  <2>4. q[m].depth \in Nat /\ q[m].depth <= h
    BY <1>1, <1>5, <1>6
  <2>. QED BY <1>5, <2>2, <2>3, <2>4
<1>9. \A i \in 1 .. m : i \in 1 .. n /\ q[i].depth <= h - 1
  <2>. TAKE i \in 1 .. m
  <2>1. i \in 1 .. n /\ i <= m
    BY <1>1, <1>5
  <2>2. q[i].depth <= q[m].depth
    BY <1>1, <1>5, <2>1 DEF Stacked
  <2>. QED BY <1>8, <2>1, <2>2
<1>10. Len(r) = m /\ DOMAIN r = 1 .. m /\ \A i \in 1 .. m : r[i] = q[i]
  <2>1. r = SubSeq(q, 1, m)
    BY <1>1 DEF Pops, PopNames
  <2>2. PICK S : S = BoundName(a)
    OBVIOUS
  <2>3. q \in Seq(S) /\ m \in 0 .. Len(q)
    BY <1>1, <1>4, <2>2
  <2>. HIDE DEF Left
  <2>4. Len(r) = m /\ r \in Seq(S) /\ \A i \in 1 .. m : r[i] = q[i]
    BY <2>1, <2>3, SplitElements
  <2>. QED BY <2>4
<1>. HIDE DEF Left
<1>11. r # <<>> /\ r[1].depth = 0 /\ r[Len(r)].depth = h - 1
  <2>1. 1 \in 1 .. m /\ m \in 1 .. m /\ m # 0
    BY <1>5
  <2>2. r # <<>>
    BY <1>10, <2>1
  <2>. QED BY <1>2, <1>8, <1>10, <2>1, <2>2
<1>12. \A i, j \in 1 .. m : i <= j => r[i].depth <= r[j].depth
  BY <1>1, <1>9, <1>10 DEF Stacked
<1>13. ASSUME NEW i \in 1 .. m, i # 1 PROVE r[i].depth <= r[i - 1].depth + 1
  <2>1. i \in 1 .. n /\ i - 1 \in 1 .. m
    BY <1>5, <1>9, <1>13
  <2>2. q[i].depth <= q[i - 1].depth + 1
    BY <1>1, <1>13, <2>1 DEF Stacked
  <2>. QED BY <1>10, <2>1, <2>2
<1>14. {r[i] : i \in DOMAIN r} = {e \in set : e.depth <= h - 1}
  <2>1. set = {q[i] : i \in 1 .. n}
    BY <1>1 DEF Stacked
  <2>2. ASSUME NEW i \in 1 .. m PROVE r[i] \in set /\ r[i].depth <= h - 1
    BY <1>9, <1>10, <2>1
  <2>3. ASSUME NEW e \in set, e.depth <= h - 1 PROVE \E i \in 1 .. m : e = r[i]
    <3>1. PICK i \in 1 .. n : e = q[i]
      BY <2>1
    <3>2. ~(i \in m + 1 .. n)
      <4>1. SUFFICES ASSUME i \in m + 1 .. n PROVE FALSE
        OBVIOUS
      <4>2. e.depth = h
        BY <1>7, <3>1, <4>1
      <4>. QED BY <2>3, <4>2
    <3>3. i \in 1 .. m
      BY <1>1, <1>5, <3>2
    <3>. QED BY <1>10, <3>1, <3>3
  <2>. QED BY <1>10, <2>2, <2>3
<1>. QED BY <1>10, <1>11, <1>12, <1>13, <1>14 DEF Stacked

-----------------------------------------------------------------------------
(* What is visible changes from node to node as the stack does.              *)

\* What the stack is to hold at place p.
EntryOf(d) == Entry(d.name, d.symbol, Level(d))
Entries(p) == {EntryOf(d) : d \in {e \in Defs : Reaches(e, p)}}

LEMMA DefsAreCounted ==
  ASSUME TreeOK
  PROVE  /\ DefsBefore(1) = Len(args)
         /\ \A p \in 1 .. Len(body) : DefsBefore(p + 1) = DefsBefore(p) + NumDefs[p]
         /\ \A p \in 1 .. Len(body) + 1 : DefsBefore(p) \in Nat
         /\ \A p \in 1 .. Len(body) : NumDefs[p] = SymbolsOf(body[p])
<1>1. Len(args) \in Nat /\ Len(body) \in Nat /\ DOMAIN body = 1 .. Len(body)
  BY DEF TreeOK
<1>2. ASSUME NEW p \in 1 .. Len(body) PROVE NumDefs[p] = SymbolsOf(body[p]) /\ NumDefs[p] \in Nat
  <2>1. NumDefs[p] = (IF HasDest(p) THEN 1 ELSE 0) + Len(ParamsAt(p))
    BY <1>1 DEF NumDefs
  <2>2. body[p] \in Node
    BY <1>1 DEF TreeOK
  <2>3. body[p].kind # "lambda" => Len(ParamsAt(p)) = 0
    BY DEF ParamsAt
  <2>4. body[p].kind = "lambda" => ParamsAt(p) = body[p].params /\ Len(body[p].params) \in Nat /\ HasDest(p)
    BY <2>2, NodeKinds DEF ParamsAt, HasDest
  <2>5. body[p].kind = "invocation" => NumDefs[p] = IF body[p].dest = NoDecl THEN 0 ELSE 1
    BY <2>1, <2>3 DEF HasDest
  <2>6. body[p].kind = "lambda" => NumDefs[p] = 1 + Len(body[p].params)
    BY <2>1, <2>4
  <2>7. body[p].kind = "close" => NumDefs[p] = 0
    BY <2>1, <2>3 DEF HasDest
  <2>. QED BY <2>2, <2>5, <2>6, <2>7, NodeKinds, NodeCounts
<1>3. DOMAIN NumDefs = DOMAIN body
  BY DEF NumDefs
<1>4. /\ Total(NumDefs, 0) = 0
      /\ \A p \in 0 .. Len(body) : Total(NumDefs, p) \in Nat
      /\ \A p \in 1 .. Len(body) : Total(NumDefs, p) = NumDefs[p] + Total(NumDefs, p - 1)
  BY <1>1, <1>2, <1>3, TreeTotals
<1>5. \A p : DefsBefore(p) = Len(args) + Total(NumDefs, p - 1)
  BY DEF DefsBefore, Total
<1>. HIDE DEF Total
<1>6. DefsBefore(1) = Len(args)
  <2>1. 1 - 1 = 0
    OBVIOUS
  <2>. QED BY <1>1, <1>4, <1>5, <2>1
<1>7. \A p \in 1 .. Len(body) + 1 : DefsBefore(p) \in Nat
  <2>1. \A p \in 1 .. Len(body) + 1 : p - 1 \in 0 .. Len(body)
    BY <1>1
  <2>. QED BY <1>1, <1>4, <1>5, <2>1
<1>8. ASSUME NEW p \in 1 .. Len(body) PROVE DefsBefore(p + 1) = DefsBefore(p) + NumDefs[p]
  <2>1. (p + 1) - 1 = p /\ p - 1 \in 0 .. Len(body)
    BY <1>1
  <2>2. DefsBefore(p + 1) = Len(args) + Total(NumDefs, p)
    BY <1>5, <2>1
  <2>. QED BY <1>1, <1>2, <1>4, <1>5, <2>1, <2>2
<1>. QED BY <1>2, <1>6, <1>7, <1>8

\* Before the first node only the arguments are visible.
LEMMA EntriesBegin ==
  ASSUME TreeOK
  PROVE  Entries(1) = {Entry(args[i].name, i, 0) : i \in DOMAIN args}
<1>1. ASSUME NEW i \in DOMAIN args, NEW d, d = Def(args[i].name, 0, FALSE, i)
      PROVE  d \in Defs /\ Reaches(d, 1) /\ EntryOf(d) = Entry(args[i].name, i, 0)
  <2>1. d.node = 0 /\ d.name = args[i].name /\ d.symbol = i
    BY <1>1 DEF Def
  <2>2. d \in Defs
    BY <1>1 DEF Defs
  <2>3. Level(d) = 0
    BY <2>1 DEF Level
  <2>4. \A j \in 0 .. 1 - 1 : Open(j) >= 0
    BY Heights
  <2>. QED BY <2>1, <2>2, <2>3, <2>4 DEF Reaches, EntryOf
<1>2. ASSUME NEW d \in Defs, Reaches(d, 1) PROVE \E i \in DOMAIN args : d = Def(args[i].name, 0, FALSE, i)
  <2>1. d.node = 0
    BY <1>2, DefKinds, Heights DEF Reaches
  <2>2. ASSUME NEW q \in DOMAIN body, d \in DefsAt(q) PROVE FALSE
    <3>1. d.node = q /\ q # 0
      BY <2>2, NodeOfDef DEF TreeOK
    <3>. QED BY <2>1, <3>1
  <2>. QED BY <2>2 DEF Defs
<1>3. Entries(1) \subseteq {Entry(args[i].name, i, 0) : i \in DOMAIN args}
  BY <1>1, <1>2 DEF Entries
<1>4. {Entry(args[i].name, i, 0) : i \in DOMAIN args} \subseteq Entries(1)
  BY <1>1 DEF Entries
<1>. QED BY <1>3, <1>4

\* Behind a node those are visible that its height still reaches, and its own.
LEMMA EntriesMove ==
  ASSUME TreeOK, NEW p \in DOMAIN body
  PROVE  Entries(p + 1) = {e \in Entries(p) : e.depth <= Open(p)} \union {EntryOf(d) : d \in DefsAt(p)}
<1>1. Len(body) \in Nat /\ p \in 1 .. Len(body) /\ p \in 0 .. Len(body) /\ p - 1 \in 0 .. Len(body)
  BY Heights DEF TreeOK
<1>2. Open(p) \in Int /\ Open(p - 1) \in Int
  BY <1>1, Heights
<1>3. ASSUME NEW d \in DefsAt(p) PROVE d \in Defs /\ Reaches(d, p + 1)
  <2>1. d \in Defs
    BY <1>3 DEF Defs
  <2>2. d.node = p /\ (d.param => body[p].kind = "lambda") /\ body[p].kind # "close"
    BY <1>3, NodeOfDef
  <2>3. Open(p) >= Level(d)
    <3>1. CASE d.param
      BY <1>1, <1>2, <2>2, <3>1 DEF Level
    <3>2. CASE ~d.param
      <4>1. Open(p) = Open(p - 1) \/ Open(p) = Open(p - 1) + 1
        <5>1. body[p].kind \in {"invocation", "lambda"}
          BY <1>1, <2>2, NodeKinds DEF TreeOK
        <5>. QED BY <1>1, <5>1, Heights
      <4>2. Level(d) = Open(p - 1)
        BY <1>1, <2>2, <3>2 DEF Level
      <4>. QED BY <1>2, <4>1, <4>2
    <3>. QED BY <3>1, <3>2
  <2>4. \A j \in p .. (p + 1) - 1 : j = p
    BY <1>1
  <2>5. p < p + 1
    BY <1>1
  <2>. QED BY <2>1, <2>2, <2>3, <2>4, <2>5 DEF Reaches
<1>4. ASSUME NEW d \in Defs, d.node < p PROVE Reaches(d, p + 1) <=> Reaches(d, p) /\ Level(d) <= Open(p)
  <2>1. d.node \in 0 .. Len(body) /\ d.node < p + 1
    BY <1>1, <1>4, DefKinds
  <2>2. Level(d) \in Int
    <3>1. d.node # 0 => d.node - 1 \in 0 .. Len(body)
      BY <1>1, <2>1
    <3>. QED BY <2>1, <3>1, Heights DEF Level
  <2>3. \A j : j \in d.node .. (p + 1) - 1 <=> j \in d.node .. p - 1 \/ j = p
    BY <1>1, <1>4, <2>1
  <2>4. Open(p) >= Level(d) <=> Level(d) <= Open(p)
    BY <1>2, <2>2
  <2>. QED BY <1>4, <2>1, <2>3, <2>4 DEF Reaches
<1>5. ASSUME NEW d \in Defs, Reaches(d, p + 1) PROVE d \in DefsAt(p) \/ (Reaches(d, p) /\ Level(d) <= Open(p))
  <2>1. d.node \in 0 .. Len(body) /\ d.node < p + 1
    BY <1>5, DefKinds DEF Reaches
  <2>2. CASE d.node = p
    BY <1>1, <2>2, DefKinds
  <2>3. CASE d.node # p
    BY <1>1, <1>4, <1>5, <2>1, <2>3
  <2>. QED BY <2>2, <2>3
<1>6. ASSUME NEW d PROVE EntryOf(d).depth = Level(d)
  BY DEF EntryOf, Entry
<1>7. Entries(p + 1) \subseteq {e \in Entries(p) : e.depth <= Open(p)} \union {EntryOf(d) : d \in DefsAt(p)}
  BY <1>5, <1>6 DEF Entries
<1>8. {e \in Entries(p) : e.depth <= Open(p)} \subseteq Entries(p + 1)
  <2>. SUFFICES ASSUME NEW e \in Entries(p), e.depth <= Open(p) PROVE e \in Entries(p + 1)
    OBVIOUS
  <2>1. PICK d \in Defs : Reaches(d, p) /\ e = EntryOf(d)
    BY DEF Entries
  <2>2. d.node < p /\ Level(d) <= Open(p)
    BY <1>6, <2>1 DEF Reaches
  <2>3. Reaches(d, p + 1)
    BY <1>4, <2>1, <2>2
  <2>. QED BY <2>1, <2>3 DEF Entries
<1>9. {EntryOf(d) : d \in DefsAt(p)} \subseteq Entries(p + 1)
  BY <1>3 DEF Entries
<1>. QED BY <1>7, <1>8, <1>9

\* Nothing visible lies deeper than the place.
LEMMA EntriesBelow ==
  ASSUME TreeOK, NEW p \in DOMAIN body, NEW e \in Entries(p)
  PROVE  e.depth \in Int /\ e.depth <= Open(p - 1)
<1>1. Len(body) \in Nat /\ p \in 1 .. Len(body) /\ p - 1 \in 0 .. Len(body)
  BY Heights DEF TreeOK
<1>2. PICK d \in Defs : Reaches(d, p) /\ e = EntryOf(d)
  BY DEF Entries
<1>3. e.depth = Level(d)
  BY <1>2 DEF EntryOf, Entry
<1>4. d.node \in 0 .. Len(body) /\ d.node < p
  BY <1>2, DefKinds DEF Reaches
<1>5. p - 1 \in d.node .. p - 1
  BY <1>1, <1>4
<1>6. Open(p - 1) >= Level(d)
  BY <1>2, <1>5 DEF Reaches
<1>7. Level(d) \in Int /\ Open(p - 1) \in Int
  <2>1. d.node # 0 => d.node - 1 \in 0 .. Len(body)
    BY <1>1, <1>4
  <2>. QED BY <1>1, <1>4, <2>1, Heights DEF Level
<1>. QED BY <1>3, <1>6, <1>7

LEMMA BehindInvocation ==
  ASSUME TreeOK, NEW p \in DOMAIN body, body[p].kind = "invocation"
  PROVE  Entries(p + 1) = Entries(p) \union
           (IF Assigns(body[p]) THEN {Entry(body[p].dest.name, DefsBefore(p) + 1, Open(p - 1))} ELSE {})
<1>1. p \in 1 .. Len(body) /\ p # 0
  BY DEF TreeOK
<1>2. Open(p) = Open(p - 1)
  BY <1>1, Heights
<1>3. {e \in Entries(p) : e.depth <= Open(p)} = Entries(p)
  BY <1>2, EntriesBelow
<1>4. DefsAt(p) = IF Assigns(body[p]) THEN {Def(body[p].dest.name, p, FALSE, DefsBefore(p) + 1)} ELSE {}
  <2>1. DOMAIN ParamsAt(p) = {}
    BY DEF ParamsAt
  <2>2. HasDest(p) <=> Assigns(body[p])
    BY DEF HasDest, Assigns
  <2>. QED BY <2>1, <2>2 DEF DefsAt
<1>5. EntryOf(Def(body[p].dest.name, p, FALSE, DefsBefore(p) + 1)) = Entry(body[p].dest.name, DefsBefore(p) + 1, Open(p - 1))
  BY <1>1 DEF EntryOf, Def, Level
<1>6. {EntryOf(d) : d \in DefsAt(p)}
        = IF Assigns(body[p]) THEN {Entry(body[p].dest.name, DefsBefore(p) + 1, Open(p - 1))} ELSE {}
  BY <1>4, <1>5
<1>. QED BY <1>3, <1>6, EntriesMove

LEMMA BehindLambda ==
  ASSUME TreeOK, NEW p \in DOMAIN body, body[p].kind = "lambda"
  PROVE  /\ Open(p) = Open(p - 1) + 1
         /\ Entries(p + 1) =
              (Entries(p) \union {Entry(body[p].dest.name, DefsBefore(p) + 1, Open(p - 1))})
                \union {Entry(body[p].params[i].name, DefsBefore(p) + 1 + i, Open(p - 1) + 1) : i \in DOMAIN body[p].params}
<1>1. p \in 1 .. Len(body) /\ p # 0 /\ p - 1 \in 0 .. Len(body) /\ body[p] \in Node
  BY Heights DEF TreeOK
<1>2. Open(p) = Open(p - 1) + 1 /\ Open(p) \in Int /\ Open(p - 1) \in Int
  <2>1. p \in 0 .. Len(body)
    BY <1>1
  <2>. QED BY <1>1, <2>1, Heights
<1>3. {e \in Entries(p) : e.depth <= Open(p)} = Entries(p)
  <2>1. \A e \in Entries(p) : e.depth \in Int /\ e.depth <= Open(p - 1)
    BY EntriesBelow
  <2>2. \A e \in Entries(p) : e.depth <= Open(p)
    BY <1>2, <2>1
  <2>. QED BY <2>2
<1>4. ParamsAt(p) = body[p].params /\ HasDest(p)
  BY <1>1, NodeKinds DEF ParamsAt, HasDest
<1>5. PICK own : own = Def(body[p].dest.name, p, FALSE, DefsBefore(p) + 1)
  OBVIOUS
<1>6. DefsAt(p) = {own} \union {Def(body[p].params[i].name, p, TRUE, DefsBefore(p) + 1 + i) : i \in DOMAIN body[p].params}
  BY <1>4, <1>5 DEF DefsAt
<1>7. EntryOf(own) = Entry(body[p].dest.name, DefsBefore(p) + 1, Open(p - 1))
  BY <1>1, <1>5 DEF EntryOf, Def, Level
<1>8. ASSUME NEW i \in DOMAIN body[p].params
      PROVE  EntryOf(Def(body[p].params[i].name, p, TRUE, DefsBefore(p) + 1 + i))
               = Entry(body[p].params[i].name, DefsBefore(p) + 1 + i, Open(p - 1) + 1)
  BY <1>1, <1>2 DEF EntryOf, Def, Level
<1>9. {EntryOf(d) : d \in DefsAt(p)} =
        {Entry(body[p].dest.name, DefsBefore(p) + 1, Open(p - 1))}
          \union {Entry(body[p].params[i].name, DefsBefore(p) + 1 + i, Open(p - 1) + 1) : i \in DOMAIN body[p].params}
  BY <1>6, <1>7, <1>8
<1>. QED BY <1>2, <1>3, <1>9, EntriesMove

LEMMA BehindClose ==
  ASSUME TreeOK, NEW p \in DOMAIN body, body[p].kind = "close"
  PROVE  /\ Open(p) = Open(p - 1) - 1 /\ Open(p - 1) \in Nat /\ Open(p - 1) # 0
         /\ Entries(p + 1) = {e \in Entries(p) : e.depth <= Open(p - 1) - 1}
<1>1. p \in 1 .. Len(body) /\ p \in 0 .. Len(body) /\ p - 1 \in 0 .. Len(body)
  BY Heights DEF TreeOK
<1>2. Open(p) = Open(p - 1) - 1 /\ Open(p) \in Int /\ Open(p) >= 0 /\ Open(p - 1) \in Int
  BY <1>1, Heights
<1>3. DefsAt(p) = {}
  BY DEF DefsAt, HasDest, ParamsAt
<1>4. Entries(p + 1) = {e \in Entries(p) : e.depth <= Open(p)}
  BY <1>3, EntriesMove
<1>. QED BY <1>2, <1>4

LEMMA SameDefs ==
  ASSUME UNCHANGED treeVars
  PROVE  /\ \A p : DefsBefore(p)' = DefsBefore(p)
         /\ \A p : Entries(p)' = Entries(p)
         /\ Defs' = Defs
<1>1. args' = args /\ body' = body
  BY DEF treeVars
<1>2. NumDefs' = NumDefs
  BY <1>1 DEF NumDefs, HasDest, ParamsAt
<1>3. \A p : DefsBefore(p)' = DefsBefore(p)
  BY <1>1, <1>2 DEF DefsBefore
<1>4. \A q : ParamsAt(q)' = ParamsAt(q) /\ (HasDest(q)' <=> HasDest(q))
  BY <1>1 DEF ParamsAt, HasDest
<1>5. \A q : DefsAt(q)' = DefsAt(q)
  BY <1>1, <1>3, <1>4 DEF DefsAt, Def
<1>6. Defs' = Defs
  BY <1>1, <1>5 DEF Defs, Def
<1>7. \A p : Open(p)' = Open(p)
  BY <1>1, SameTree
<1>8. \A d : Level(d)' = Level(d) /\ EntryOf(d)' = EntryOf(d)
  BY <1>7 DEF Level, EntryOf, Entry
<1>9. \A d, p : Reaches(d, p)' <=> Reaches(d, p)
  BY <1>7, <1>8 DEF Reaches
<1>10. \A p : Entries(p)' = Entries(p)
  BY <1>6, <1>8, <1>9 DEF Entries
<1>. QED BY <1>3, <1>6, <1>10

-----------------------------------------------------------------------------
(* The walk keeps what is visible on the stack.                            *)

ArgEntries(p) == {Entry(args[i].name, i, 0) : i \in 1 .. p}

\* The operands of the last node are what the stack has for their names.
OperandsFound ==
  phase = "body" /\ ~err /\ pos > 1 /\ body[pos - 1].kind = "invocation" =>
    \A i \in DOMAIN body[pos - 1].operands :
      /\ Found(nodes, body[pos - 1].operands[i])
      /\ Last(insts).operands[i] = FindName(nodes, body[pos - 1].operands[i])

\* All definitions before the place have their symbols, and the stack has those
\* that the place is reached from.
Lexical ==
  /\ phase = "args" /\ ~err /\ pos > 1 => Stacked(nodes, 0, ArgEntries(pos - 1))
  /\ phase = "body" /\ ~err /\ ScopesAreOpened =>
       next_symbol = DefsBefore(pos) /\ Stacked(nodes, Open(pos - 1), Entries(pos))
  /\ OperandsFound

LEMMA ErrorEndsLexical ==
  ASSUME err'
  PROVE  Lexical'
BY DEF Lexical, OperandsFound

LEMMA RecordArgLexical ==
  ASSUME Walk, Lexical, RecordArg, ~err'
  PROVE  Lexical'
<1>1. PICK p, arg : p = pos /\ arg = args[p]
  OBVIOUS
<1>2. /\ phase = "args" /\ phase' = "args" /\ ~err /\ pos' = p + 1 /\ args' = args
      /\ nodes' = PushName(nodes, arg.name, next_symbol + 1)
  BY <1>1 DEF RecordArg, treeVars
<1>3. /\ p \in Nat /\ p # 0 /\ next_symbol = p - 1 /\ Len(nodes) = p - 1
      /\ next_symbol \in Nat /\ nodes \in Seq(BoundName(next_symbol))
  <2>1. InArgs /\ StreamOK
    BY <1>2 DEF Walk
  <2>2. pos \in 1 .. Len(args) + 1 /\ next_symbol = pos - 1 /\ Len(nodes) = pos - 1
    BY <2>1 DEF InArgs
  <2>3. next_symbol \in Nat /\ nodes \in Seq(BoundName(next_symbol))
    BY <2>1 DEF StreamOK
  <2>. QED BY <1>1, <2>2, <2>3
<1>4. PICK e : e = Entry(arg.name, p, 0)
  OBVIOUS
<1>5. Stacked(nodes', 0, ArgEntries(p))
  <2>1. CASE p = 1
    <3>1. nodes = <<>>
      BY <1>3, <2>1
    <3>2. nodes' = <<e>>
      BY <1>2, <1>3, <1>4, <2>1, <3>1 DEF PushName, ScopeDepth, Entry
    <3>3. ArgEntries(p) = {e}
      BY <1>1, <1>4, <2>1 DEF ArgEntries
    <3>4. nodes' # <<>> /\ Len(nodes') = 1 /\ DOMAIN nodes' = {1} /\ nodes'[1] = e
      BY <3>2
    <3>5. e.depth = 0
      BY <1>4 DEF Entry
    <3>. QED BY <3>3, <3>4, <3>5 DEF Stacked
  <2>2. CASE p # 1
    <3>1. Stacked(nodes, 0, ArgEntries(p - 1))
      <4>1. pos > 1
        BY <1>1, <1>3, <2>2
      <4>. QED BY <1>1, <1>2, <4>1 DEF Lexical
    <3>2. Stacked(nodes', 0, ArgEntries(p - 1) \union {Entry(arg.name, next_symbol + 1, 0)})
      <4>1. 0 \in Nat
        OBVIOUS
      <4>. QED BY <1>2, <1>3, <3>1, <4>1, PushStacked
    <3>3. next_symbol + 1 = p
      BY <1>3
    <3>4. ArgEntries(p) = ArgEntries(p - 1) \union {Entry(arg.name, p, 0)}
      <4>1. \A i : i \in 1 .. p <=> i \in 1 .. p - 1 \/ i = p
        BY <1>3
      <4>. QED BY <1>1, <4>1 DEF ArgEntries
    <3>. QED BY <3>2, <3>3, <3>4
  <2>. QED BY <2>1, <2>2
<1>6. ArgEntries(pos - 1)' = ArgEntries(p)
  <2>1. (pos - 1)' = p
    BY <1>2, <1>3
  <2>. QED BY <1>2, <2>1 DEF ArgEntries
<1>. QED BY <1>2, <1>5, <1>6 DEF Lexical, OperandsFound

LEMMA StartBodyLexical ==
  ASSUME Walk, Lexical, StartBody, ~err'
  PROVE  Lexical'
<1>1. /\ phase = "args" /\ phase' = "body" /\ ~err /\ pos' = 1 /\ pos > Len(args)
      /\ nodes' = nodes /\ next_symbol' = next_symbol /\ UNCHANGED treeVars
  BY DEF StartBody, walkVars
<1>2. TreeOK /\ InArgs /\ Counted
  BY <1>1 DEF Walk
<1>3. pos = Len(args) + 1 /\ next_symbol = Len(args) /\ Len(args) \in Nat /\ Len(args) # 0 /\ DOMAIN args = 1 .. Len(args)
  <2>1. Len(args) \in Nat /\ DOMAIN args = 1 .. Len(args) /\ Len(args) # 0
    BY <1>2 DEF TreeOK, Counted
  <2>2. pos \in 1 .. Len(args) + 1 /\ next_symbol = pos - 1
    BY <1>2 DEF InArgs
  <2>. QED BY <1>1, <2>1, <2>2
<1>4. Stacked(nodes, 0, ArgEntries(Len(args)))
  <2>1. pos > 1 /\ pos - 1 = Len(args)
    BY <1>3
  <2>. QED BY <1>1, <2>1 DEF Lexical
<1>5. ArgEntries(Len(args)) = Entries(1)
  BY <1>2, <1>3, EntriesBegin DEF ArgEntries
<1>6. next_symbol' = DefsBefore(pos)' /\ Stacked(nodes', Open(pos - 1)', Entries(pos)')
  <2>1. DefsBefore(pos)' = Len(args) /\ Entries(pos)' = Entries(1)
    BY <1>1, <1>2, SameDefs, DefsAreCounted
  <2>2. Open(pos - 1)' = 0
    <3>1. (pos - 1)' = 0
      BY <1>1
    <3>2. Open(0) = 0
      BY <1>2, Heights
    <3>. QED BY <1>1, <3>1, <3>2, SameTree
  <2>. QED BY <1>1, <1>3, <1>4, <1>5, <2>1, <2>2
<1>7. ~(pos > 1)'
  BY <1>1
<1>. QED BY <1>1, <1>6, <1>7 DEF Lexical, OperandsFound

\* What a visit that goes on to the next node starts from.
LEMMA LexicalVisit ==
  ASSUME Walk, Lexical, NEW kind, Visit(kind), ~err, pos' = pos + 1, ScopesAreOpened'
  PROVE  /\ next_symbol = DefsBefore(pos) /\ Stacked(nodes, Open(pos - 1), Entries(pos))
         /\ next_symbol \in Nat /\ nodes \in Seq(BoundName(next_symbol))
         /\ Open(pos - 1) \in Nat
         /\ body[pos].kind = "lambda" => body[pos].params # <<>>
         /\ DefsBefore(pos)' = DefsBefore(pos) + SymbolsOf(body[pos])
         /\ Open(pos - 1)' = Open(pos) /\ Entries(pos)' = Entries(pos + 1)
<1>1. /\ phase = "body" /\ pos \in DOMAIN body /\ pos \in 1 .. Len(body) /\ TreeOK /\ StreamOK
      /\ UNCHANGED treeVars
  BY Visited
<1>2. ScopesAreOpened /\ (body[pos].kind = "lambda" => body[pos].params # <<>>)
  <2>1. \A q \in 1 .. pos : body[q].kind = "lambda" => body[q].params # <<>>
    <3>1. (pos - 1)' = pos /\ body' = body
      BY <1>1 DEF treeVars
    <3>. QED BY <3>1 DEF ScopesAreOpened
  <2>2. pos \in 1 .. pos /\ \A q \in 1 .. pos - 1 : q \in 1 .. pos
    BY <1>1
  <2>. QED BY <2>1, <2>2 DEF ScopesAreOpened
<1>3. DefsBefore(pos)' = DefsBefore(pos + 1) /\ Entries(pos)' = Entries(pos + 1)
  BY <1>1, SameDefs
<1>4. Open(pos - 1)' = Open(pos)
  <2>1. (pos - 1)' = pos
    BY <1>1
  <2>. QED BY <1>1, <2>1, SameTree
<1>5. DefsBefore(pos + 1) = DefsBefore(pos) + SymbolsOf(body[pos])
  BY <1>1, DefsAreCounted
<1>6. Open(pos - 1) \in Nat
  <2>1. pos - 1 \in 0 .. Len(body)
    BY <1>1, Heights
  <2>. QED BY <1>1, <2>1, Heights
<1>. QED BY <1>1, <1>2, <1>3, <1>4, <1>5, <1>6 DEF Lexical, StreamOK

LEMMA InvokeLexical ==
  ASSUME Walk, Lexical, Invoke, ~err'
  PROVE  Lexical'
<1>1. Visit("invocation")
  BY DEF Invoke
<1>2. PICK n, p : n = body[pos] /\ p = pos
  OBVIOUS
<1>3. /\ phase = "body" /\ phase' = "body" /\ p \in DOMAIN body /\ n \in Node /\ n.kind = "invocation"
      /\ StreamOK /\ TreeOK /\ body' = body /\ p \in 1 .. Len(body)
  BY <1>1, <1>2, Visited DEF treeVars
<1>4. ~SkipAssignment(n)
  BY DEF SkipAssignment
<1>5. PICK e : e = [kind |-> "invocation", symbol |-> Symbol(n),
                    operands |-> [i \in DOMAIN n.operands |-> FindName(nodes', n.operands[i])]]
  OBVIOUS
<1>6. /\ nodes' = Bound(n) /\ Resolves(n) /\ insts' = Append(insts, e) /\ ~err /\ pos' = p + 1
      /\ next_symbol' = IF Assigns(n) THEN next_symbol + 1 ELSE next_symbol
  BY <1>2, <1>4, <1>5 DEF Invoke
<1>7. ASSUME ScopesAreOpened'
      PROVE  next_symbol' = DefsBefore(pos)' /\ Stacked(nodes', Open(pos - 1)', Entries(pos)')
  <2>1. /\ next_symbol = DefsBefore(p) /\ Stacked(nodes, Open(p - 1), Entries(p))
        /\ next_symbol \in Nat /\ nodes \in Seq(BoundName(next_symbol)) /\ Open(p - 1) \in Nat
        /\ DefsBefore(pos)' = DefsBefore(p) + SymbolsOf(n)
        /\ Open(pos - 1)' = Open(p) /\ Entries(pos)' = Entries(p + 1)
    BY <1>1, <1>2, <1>6, <1>7, LexicalVisit
  <2>2. Open(p) = Open(p - 1)
    BY <1>2, <1>3, Heights
  <2>3. SymbolsOf(n) = IF Assigns(n) THEN 1 ELSE 0
    BY <1>3, NodeCounts DEF Assigns
  <2>4. Entries(p + 1) = Entries(p) \union
           (IF Assigns(n) THEN {Entry(n.dest.name, DefsBefore(p) + 1, Open(p - 1))} ELSE {})
    BY <1>2, <1>3, BehindInvocation
  <2>5. Stacked(nodes', Open(p - 1), Entries(p + 1))
    <3>1. CASE Assigns(n)
      <4>1. nodes' = PushName(nodes, n.dest.name, next_symbol + 1)
        BY <1>6, <3>1 DEF Bound, Symbol
      <4>. QED BY <2>1, <2>4, <3>1, <4>1, PushStacked
    <3>2. CASE ~Assigns(n)
      BY <1>6, <2>1, <2>4, <3>2 DEF Bound
    <3>. QED BY <3>1, <3>2
  <2>6. next_symbol' = DefsBefore(p) + SymbolsOf(n)
    BY <1>6, <2>1, <2>3
  <2>. QED BY <2>1, <2>2, <2>5, <2>6
<1>8. OperandsFound'
  <2>1. (pos - 1)' = p
    BY <1>3, <1>6
  <2>2. Last(insts') = e
    <3>1. PICK S : S = Inst(next_symbol) \union {e}
      OBVIOUS
    <3>2. insts \in Seq(S) /\ e \in S
      BY <1>3, <3>1, SeqOfMore DEF StreamOK
    <3>. QED BY <1>6, <3>2 DEF Last
  <2>3. \A i \in DOMAIN n.operands : Found(nodes', n.operands[i]) /\ e.operands[i] = FindName(nodes', n.operands[i])
    BY <1>5, <1>6 DEF Resolves
  <2>. QED BY <1>2, <1>3, <2>1, <2>2, <2>3 DEF OperandsFound
<1>. QED BY <1>3, <1>7, <1>8 DEF Lexical

LEMMA OpenLambdaLexical ==
  ASSUME Walk, Lexical, OpenLambda, ~err'
  PROVE  Lexical'
<1>1. Visit("lambda")
  BY DEF OpenLambda
<1>2. PICK n, p, a : n = body[pos] /\ p = pos /\ a = next_symbol
  OBVIOUS
<1>3. /\ phase = "body" /\ phase' = "body" /\ p \in DOMAIN body /\ n \in Node /\ n.kind = "lambda"
      /\ TreeOK /\ body' = body /\ p \in 1 .. Len(body) /\ n.params \in Seq(Decl) /\ n.dest # NoDecl
  BY <1>1, <1>2, Visited, NodeKinds DEF treeVars
<1>4. ~SkipAssignment(n)
  BY DEF SkipAssignment
<1>5. PICK k, names : /\ k = Len(n.params) /\ k \in Nat /\ DOMAIN n.params = 1 .. k
                      /\ names = [i \in 1 .. k |-> n.params[i].name]
                      /\ names \in Seq(Name) /\ DOMAIN names = 1 .. k /\ Len(names) = k
  <2>1. PICK k, names : k = Len(n.params) /\ names = [i \in 1 .. k |-> n.params[i].name]
    OBVIOUS
  <2>2. k \in Nat /\ DOMAIN n.params = 1 .. k /\ \A i \in 1 .. k : n.params[i] \in Decl
    BY <1>3, <2>1
  <2>3. \A i \in 1 .. k : n.params[i].name \in Name
    BY <2>2 DEF Decl
  <2>4. names \in Seq(Name) /\ DOMAIN names = 1 .. k /\ Len(names) = k
    BY <2>1, <2>2, <2>3
  <2>. QED BY <2>1, <2>2, <2>4
<1>6. Symbol(n) = a + 1 /\ Assigns(n) /\ Bound(n) = PushName(nodes, n.dest.name, a + 1)
  BY <1>2, <1>3 DEF Symbol, Assigns, Bound
<1>7. nodes' = PushParams(Bound(n), names, a + 1) /\ next_symbol' = a + 1 + k /\ ~err /\ pos' = p + 1
  <2>. DEFINE badOnes == {i \in DOMAIN n.params : n.params[i].type \notin table}
  <2>1. badOnes = {}
    BY <1>2, <1>4 DEF OpenLambda
  <2>. QED BY <1>2, <1>4, <1>5, <1>6, <2>1 DEF OpenLambda
<1>8. ASSUME ScopesAreOpened'
      PROVE  next_symbol' = DefsBefore(pos)' /\ Stacked(nodes', Open(pos - 1)', Entries(pos)')
  <2>1. /\ a = DefsBefore(p) /\ Stacked(nodes, Open(p - 1), Entries(p))
        /\ a \in Nat /\ nodes \in Seq(BoundName(a)) /\ Open(p - 1) \in Nat
        /\ n.params # <<>>
        /\ DefsBefore(pos)' = DefsBefore(p) + SymbolsOf(n)
        /\ Open(pos - 1)' = Open(p) /\ Entries(pos)' = Entries(p + 1)
    BY <1>1, <1>2, <1>3, <1>7, <1>8, LexicalVisit
  <2>2. PICK h, set, q, dest : h = Open(p - 1) /\ set = Entries(p) /\ q = Bound(n) /\ dest = n.dest.name
    OBVIOUS
  <2>3. /\ Open(p) = h + 1
        /\ Entries(p + 1) = (set \union {Entry(dest, a + 1, h)})
                               \union {Entry(n.params[i].name, a + 1 + i, h + 1) : i \in DOMAIN n.params}
    <3>1. n = body[p] /\ body[p].kind = "lambda" /\ a = DefsBefore(p)
      BY <1>2, <1>3, <2>1
    <3>2. /\ Open(p) = Open(p - 1) + 1
          /\ Entries(p + 1) =
               (Entries(p) \union {Entry(body[p].dest.name, DefsBefore(p) + 1, Open(p - 1))})
                 \union {Entry(body[p].params[i].name, DefsBefore(p) + 1 + i, Open(p - 1) + 1) : i \in DOMAIN body[p].params}
      BY <1>3, <3>1, BehindLambda
    <3>. QED BY <2>2, <3>1, <3>2
  <2>4. q \in Seq(BoundName(a + 1)) /\ Stacked(q, h, set \union {Entry(dest, a + 1, h)})
    <3>1. dest \in Name
      BY <1>3, <2>2, NodeKinds DEF Decl
    <3>2. q = PushName(nodes, dest, a + 1)
      BY <1>6, <2>2
    <3>3. q \in Seq(BoundName(a + 1))
      BY <2>1, <3>1, <3>2, NamePushed
    <3>. QED BY <2>1, <2>2, <3>2, <3>3, PushStacked
  <2>5. Stacked(nodes', h + 1, (set \union {Entry(dest, a + 1, h)})
                                 \union {Entry(names[i], a + 1 + i, h + 1) : i \in DOMAIN names})
    <3>1. a + 1 \in Nat /\ h \in Nat /\ names \in Seq(Name)
      BY <1>5, <2>1, <2>2
    <3>2. names # <<>>
      <4>1. k # 0
        BY <1>3, <1>5, <2>1
      <4>. QED BY <1>5, <4>1
    <3>3. PushesParams(q, names, a + 1, nodes')
      BY <1>7, <2>2 DEF PushesParams
    <3>4. PICK more : more = set \union {Entry(dest, a + 1, h)}
      OBVIOUS
    <3>5. Stacked(nodes', h + 1, more \union {Entry(names[i], a + 1 + i, h + 1) : i \in DOMAIN names})
      BY <2>4, <3>1, <3>2, <3>3, <3>4, ParamsStacked
    <3>. QED BY <3>4, <3>5
  <2>6. {Entry(names[i], a + 1 + i, h + 1) : i \in DOMAIN names}
          = {Entry(n.params[i].name, a + 1 + i, h + 1) : i \in DOMAIN n.params}
    BY <1>5
  <2>7. next_symbol' = DefsBefore(p) + SymbolsOf(n)
    <3>1. SymbolsOf(n) = 1 + k
      BY <1>3, <1>5, NodeCounts
    <3>2. a + 1 + k = a + (1 + k)
      <4>1. a \in Nat /\ k \in Nat
        BY <1>5, <2>1
      <4>. QED BY <4>1
    <3>. QED BY <1>7, <2>1, <3>1, <3>2
  <2>. QED BY <2>1, <2>3, <2>5, <2>6, <2>7
<1>9. OperandsFound'
  <2>1. (pos - 1)' = p
    BY <1>3, <1>7
  <2>. QED BY <1>2, <1>3, <2>1 DEF OperandsFound
<1>. QED BY <1>3, <1>8, <1>9 DEF Lexical

LEMMA CloseLambdaLexical ==
  ASSUME Walk, Lexical, CloseLambda, ~err'
  PROVE  Lexical'
<1>1. Visit("close")
  BY DEF CloseLambda
<1>2. PICK p : p = pos
  OBVIOUS
<1>3. /\ phase = "body" /\ phase' = "body" /\ p \in DOMAIN body /\ body[p].kind = "close"
      /\ TreeOK /\ body' = body /\ p \in 1 .. Len(body)
  BY <1>1, <1>2, Visited DEF treeVars
<1>4. Pops(nodes, nodes') /\ next_symbol' = next_symbol /\ ~err /\ pos' = p + 1
  BY <1>2 DEF CloseLambda, Pops
<1>5. ASSUME ScopesAreOpened'
      PROVE  next_symbol' = DefsBefore(pos)' /\ Stacked(nodes', Open(pos - 1)', Entries(pos)')
  <2>1. /\ next_symbol = DefsBefore(p) /\ Stacked(nodes, Open(p - 1), Entries(p))
        /\ next_symbol \in Nat /\ nodes \in Seq(BoundName(next_symbol)) /\ Open(p - 1) \in Nat
        /\ DefsBefore(pos)' = DefsBefore(p) + SymbolsOf(body[p])
        /\ Open(pos - 1)' = Open(p) /\ Entries(pos)' = Entries(p + 1)
    BY <1>1, <1>2, <1>4, <1>5, LexicalVisit
  <2>2. /\ Open(p) = Open(p - 1) - 1 /\ Open(p - 1) # 0
        /\ Entries(p + 1) = {e \in Entries(p) : e.depth <= Open(p - 1) - 1}
    BY <1>3, BehindClose
  <2>3. SymbolsOf(body[p]) = 0
    BY <1>3 DEF SymbolsOf
  <2>4. PICK h, set : h = Open(p - 1) /\ set = Entries(p)
    OBVIOUS
  <2>5. Stacked(nodes', h - 1, {e \in set : e.depth <= h - 1})
    BY <1>4, <2>1, <2>2, <2>4, PopStacked
  <2>6. next_symbol' = DefsBefore(pos)'
    <3>1. DefsBefore(p) + 0 = DefsBefore(p)
      BY <2>1
    <3>. QED BY <1>4, <2>1, <2>3, <3>1
  <2>7. Stacked(nodes', Open(p), Entries(p + 1))
    BY <2>2, <2>4, <2>5
  <2>. QED BY <2>1, <2>6, <2>7
<1>6. OperandsFound'
  <2>1. (pos - 1)' = p
    BY <1>3, <1>4
  <2>. QED BY <1>3, <2>1 DEF OperandsFound
<1>. QED BY <1>3, <1>5, <1>6 DEF Lexical

LEMMA LexicalBegins ==
  ASSUME Init
  PROVE  Lexical
BY DEF Init, Lexical, OperandsFound

LEMMA LexicalGoesOn ==
  ASSUME Walk, Lexical, [Next]_vars
  PROVE  Lexical'
<1>1. CASE err'
  BY <1>1, ErrorEndsLexical
<1>2. CASE phase' \in {"parse", "done"}
  BY <1>2 DEF Lexical, OperandsFound
<1>3. CASE ~err' /\ phase' \notin {"parse", "done"}
  <2>1. ASSUME NEW d \in Decl, ParseArg(d) PROVE FALSE
    BY <1>3, <2>1 DEF ParseArg
  <2>2. ASSUME NEW k \in 0 .. MaxSize, NEW n \in NodeOfSize[k], ParseNode(n) PROVE FALSE
    BY <1>3, <2>2 DEF ParseNode
  <2>3. CASE Count
    <3>1. phase = "parse" /\ phase' = "args" /\ pos' = pos
      BY <1>3, <2>3 DEF Count
    <3>2. pos' = 1
      BY <3>1 DEF Walk, NothingYet
    <3>3. ~(pos > 1)'
      BY <3>2
    <3>. QED BY <3>1, <3>3 DEF Lexical, OperandsFound
  <2>4. CASE RecordArg
    BY <1>3, <2>4, RecordArgLexical
  <2>5. CASE StartBody
    BY <1>3, <2>5, StartBodyLexical
  <2>6. CASE Invoke
    BY <1>3, <2>6, InvokeLexical
  <2>7. CASE OpenLambda
    BY <1>3, <2>7, OpenLambdaLexical
  <2>8. CASE CloseLambda
    BY <1>3, <2>8, CloseLambdaLexical
  <2>9. CASE EndBody
    BY <1>3, <2>9 DEF EndBody
  <2>10. CASE UNCHANGED vars
    <3>1. UNCHANGED <<phase, pos, insts, nodes, next_symbol, err, args, body>> /\ UNCHANGED treeVars
      BY <2>10 DEF vars, walkVars, failVars, treeVars
    <3>2. OperandsFound' <=> OperandsFound
      BY <3>1 DEF OperandsFound
    <3>3. ScopesAreOpened' <=> ScopesAreOpened
      BY <3>1 DEF ScopesAreOpened
    <3>4. ArgEntries(pos - 1)' = ArgEntries(pos - 1)
      BY <3>1 DEF ArgEntries
    <3>5. DefsBefore(pos)' = DefsBefore(pos) /\ Entries(pos)' = Entries(pos)
      BY <3>1, SameDefs
    <3>6. Open(pos - 1)' = Open(pos - 1)
      BY <3>1, SameTree
    <3>. QED BY <3>1, <3>2, <3>3, <3>4, <3>5, <3>6 DEF Lexical
  <2>. QED BY <2>1, <2>2, <2>3, <2>4, <2>5, <2>6, <2>7, <2>8, <2>9, <2>10 DEF Next
<1>. QED BY <1>1, <1>2, <1>3

\* What the invariant says of the stack is what the nesting of the source says.
LEMMA StackIsVisible ==
  ASSUME Walk, Scopes, Lexical, phase = "body", ~err, ScopesAreOpened
  PROVE  /\ \A i, j \in DOMAIN nodes : i < j => nodes[i].symbol < nodes[j].symbol
         /\ \A i \in DOMAIN nodes : \E d \in Visible(pos) : nodes[i].name = d.name /\ nodes[i].symbol = d.symbol
         /\ \A d \in Visible(pos) : \E i \in DOMAIN nodes : nodes[i].name = d.name /\ nodes[i].symbol = d.symbol
<1>1. \A i, j \in DOMAIN nodes : i < j => nodes[i].symbol < nodes[j].symbol
  BY DEF Scopes, Scoped, NamesRise
<1>2. TreeOK /\ Open(Len(body)) = 0 /\ pos \in 1 .. Len(body) + 1
  BY DEF Walk, Counted, InBody
<1>3. \A d : d \in Visible(pos) <=> d \in Defs /\ Reaches(d, pos)
  BY <1>2, VisibleReaches DEF Visible
<1>4. {nodes[i] : i \in DOMAIN nodes} = Entries(pos)
  BY DEF Lexical, Stacked
<1>5. \A d : EntryOf(d).name = d.name /\ EntryOf(d).symbol = d.symbol
  BY DEF EntryOf, Entry
<1>6. ASSUME NEW i \in DOMAIN nodes
      PROVE  \E d \in Visible(pos) : nodes[i].name = d.name /\ nodes[i].symbol = d.symbol
  <2>1. nodes[i] \in Entries(pos)
    BY <1>4
  <2>2. PICK d \in Defs : Reaches(d, pos) /\ nodes[i] = EntryOf(d)
    BY <2>1 DEF Entries
  <2>. QED BY <1>3, <1>5, <2>2
<1>7. ASSUME NEW d \in Visible(pos)
      PROVE  \E i \in DOMAIN nodes : nodes[i].name = d.name /\ nodes[i].symbol = d.symbol
  <2>1. EntryOf(d) \in Entries(pos)
    BY <1>3 DEF Entries
  <2>2. PICK i \in DOMAIN nodes : nodes[i] = EntryOf(d)
    BY <1>4, <2>1
  <2>. QED BY <1>5, <2>2
<1>. QED BY <1>1, <1>6, <1>7

LEMMA LexicalNames ==
  ASSUME Walk, Scopes, Lexical
  PROVE  NamesAreLexical
<1>1. ScopesAreLexical
  <2>. SUFFICES ASSUME phase = "body", ~err, ScopesAreOpened
                PROVE  /\ \A i, j \in DOMAIN nodes : i < j => nodes[i].symbol < nodes[j].symbol
                       /\ {<<nodes[i].name, nodes[i].symbol>> : i \in DOMAIN nodes}
                            = {<<d.name, d.symbol>> : d \in Visible(pos)}
    BY DEF ScopesAreLexical
  <2>1. /\ \A i, j \in DOMAIN nodes : i < j => nodes[i].symbol < nodes[j].symbol
        /\ \A i \in DOMAIN nodes : \E d \in Visible(pos) : nodes[i].name = d.name /\ nodes[i].symbol = d.symbol
        /\ \A d \in Visible(pos) : \E i \in DOMAIN nodes : nodes[i].name = d.name /\ nodes[i].symbol = d.symbol
    BY StackIsVisible
  <2>2. {<<nodes[i].name, nodes[i].symbol>> : i \in DOMAIN nodes} \subseteq {<<d.name, d.symbol>> : d \in Visible(pos)}
    BY <2>1
  <2>3. {<<d.name, d.symbol>> : d \in Visible(pos)} \subseteq {<<nodes[i].name, nodes[i].symbol>> : i \in DOMAIN nodes}
    BY <2>1
  <2>. QED BY <2>1, <2>2, <2>3
<1>2. OperandsAreInnermost
  <2>. SUFFICES ASSUME phase = "body", ~err, ScopesAreOpened, pos > 1, body[pos - 1].kind = "invocation",
                       NEW i \in DOMAIN body[pos - 1].operands
                PROVE  IsInnermost(Last(insts).operands[i], body[pos - 1].operands[i], pos)
    BY DEF OperandsAreInnermost
  <2>1. PICK name, v : name = body[pos - 1].operands[i] /\ v = Last(insts).operands[i]
    OBVIOUS
  <2>2. Found(nodes, name) /\ v = FindName(nodes, name)
    BY <2>1 DEF Lexical, OperandsFound
  <2>. DEFINE There == {x \in DOMAIN nodes : nodes[x].name = name}
  <2>3. PICK m : m = Max(There) /\ v = nodes[m].symbol
    BY <2>2 DEF FindName
  <2>4. m \in There /\ \A x \in There : x <= m
    <3>1. nodes \in Seq(BoundName(next_symbol))
      BY DEF Walk, StreamOK
    <3>2. Len(nodes) \in Nat /\ There \in SUBSET (0 .. Len(nodes)) /\ There # {}
      BY <2>2, <3>1 DEF Found
    <3>. HIDE DEF There
    <3>. QED BY <2>3, <3>2, MaxIsTop
  <2>5. PICK d \in Visible(pos) : d.name = name /\ d.symbol = v
    <3>1. m \in DOMAIN nodes /\ nodes[m].name = name
      BY <2>4
    <3>2. PICK d \in Visible(pos) : nodes[m].name = d.name /\ nodes[m].symbol = d.symbol
      BY <3>1, StackIsVisible
    <3>. QED BY <2>3, <3>1, <3>2
  <2>6. ASSUME NEW e \in Visible(pos), e.name = name PROVE e.symbol <= v
    <3>1. PICK x \in DOMAIN nodes : nodes[x].name = name /\ nodes[x].symbol = e.symbol
      BY <2>6, StackIsVisible
    <3>2. x \in There
      BY <3>1
    <3>3. x <= m
      <4>. HIDE DEF There
      <4>. QED BY <2>4, <3>2
    <3>4. m \in DOMAIN nodes
      BY <2>4
    <3>5. nodes[x].symbol \in Nat /\ nodes[m].symbol \in Nat /\ x \in Nat /\ m \in Nat
      <4>1. next_symbol \in Nat /\ nodes \in Seq(BoundName(next_symbol))
        BY DEF Walk, StreamOK
      <4>2. nodes[x].symbol \in 1 .. next_symbol /\ nodes[m].symbol \in 1 .. next_symbol /\ DOMAIN nodes = 1 .. Len(nodes)
        BY <3>4, <4>1, NameFields
      <4>. QED BY <3>4, <4>1, <4>2
    <3>6. x = m \/ nodes[x].symbol < nodes[m].symbol
      <4>1. x = m \/ x < m
        BY <3>3, <3>5
      <4>. QED BY <3>4, <4>1, StackIsVisible
    <3>. QED BY <2>3, <3>1, <3>5, <3>6
  <2>. QED BY <2>1, <2>5, <2>6 DEF IsInnermost
<1>. QED BY <1>1, <1>2 DEF NamesAreLexical

-----------------------------------------------------------------------------
(* The theorems.                                                           *)

\* The walk over a combinator (mirv.c 2557-2797) never makes more symbols or
\* instructions than the nodes it is behind were counted for.
THEOREM WalkInvariant == Spec => []Walk
<1>1. Init => Walk
  BY WalkBegins
<1>2. Walk /\ [Next]_vars => Walk'
  BY WalkGoesOn
<1>. QED BY <1>1, <1>2, PTL DEF Spec

\* The stream, the stack of names and the symbol table that are allocated from
\* the counts (mirv.c 2526-2551) are big enough for every tree, and also when the
\* walk goes on after an error; only a combinator of one argument and without
\* lambdas can fail the stream's assertion, which wants one more.
THEOREM CountsAreEnough == Spec => []CountsSuffice
<1>1. Walk => CountsSuffice
  BY WalkCounts
<1>. QED BY <1>1, WalkInvariant, PTL

\* A combinator without an error has the instructions of all its nodes.
THEOREM NothingIsLeftOut == Spec => []CompleteUnlessError
<1>1. Walk => CompleteUnlessError
  BY DEF Walk
<1>. QED BY <1>1, WalkInvariant, PTL

\* The stack of names and the instructions of the lambdas that are closed fit
\* together at every step of a walk without errors.
THEOREM ScopesInvariant == Spec => [](Walk /\ Scopes)
<1>1. Init => Walk /\ Scopes
  BY WalkBegins, ScopesBegin
<1>2. (Walk /\ Scopes) /\ [Next]_vars => (Walk /\ Scopes)'
  BY WalkGoesOn, ScopesGoOn
<1>. QED BY <1>1, <1>2, PTL DEF Spec

\* Nothing behind a lambda uses what is defined in it, and the length it was
\* patched with (mirv.c 2726-2728) lies in the stream, for every tree, also those
\* where a lambda has no parameters and the end of it takes other names away.
THEOREM LambdasKeepTheirOwn == Spec => []NothingEscapes
<1>1. Walk /\ Scopes => NothingEscapes
  BY DEF Scopes
<1>. QED BY <1>1, ScopesInvariant, PTL

\* A name stands for what the nesting of the source says: what is on the stack
\* (mirv.c 1960-2050) is what is visible at the node the walk is at, in the order
\* of the source, and what an operand becomes is the innermost definition of its
\* name, for every tree whose lambdas have parameters.
THEOREM NamesAreBoundLexically == Spec => []NamesAreLexical
<1>1. Init => Walk /\ Scopes /\ Lexical
  BY WalkBegins, ScopesBegin, LexicalBegins
<1>2. (Walk /\ Scopes /\ Lexical) /\ [Next]_vars => (Walk /\ Scopes /\ Lexical)'
  BY WalkGoesOn, ScopesGoOn, LexicalGoesOn
<1>3. Walk /\ Scopes /\ Lexical => NamesAreLexical
  BY LexicalNames
<1>. QED BY <1>1, <1>2, <1>3, PTL DEF Spec
=============================================================================
