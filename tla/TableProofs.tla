---------------------------- MODULE TableProofs ----------------------------
(***************************************************************************)
(* Proofs about the hash table, for every number of blocks and slots, and  *)
(* every way keys are hashed and compared.                                 *)
(***************************************************************************)
EXTENDS Table, ChainLemmas

\* No two keys look the same to the table.
NoAliases == \A k, l \in Key : Cmp[k] = Cmp[l] /\ Fp[k] = Fp[l] => k = l

-----------------------------------------------------------------------------
(* Probing.                                                                *)

LEMMA CapType == Cap \in Nat \ {0} /\ Slot = 0 .. Cap - 1 /\ Slot \subseteq Nat
<1>1. Blocks \in Nat \ {0} /\ Width \in Nat \ {0}
  BY TableAssumption
<1>2. Blocks * Width \in Nat \ {0}
  BY <1>1
<1>. QED BY <1>2 DEF Cap, Slot

\* Stepping from h around the end of n slots reaches each of them.
LEMMA WrapReaches ==
  ASSUME NEW n \in Nat \ {0}, NEW h \in 0 .. n - 1, NEW s \in 0 .. n - 1
  PROVE  \E p \in 0 .. n - 1 : (h + p) % n = s
<1>1. CASE s >= h
  <2>1. s - h \in 0 .. n - 1 /\ h + (s - h) = s
    BY <1>1
  <2>2. s % n = s
    OBVIOUS
  <2>. QED BY <2>1, <2>2
<1>2. CASE s < h
  <2>1. (s - h) + n \in 0 .. n - 1 /\ h + ((s - h) + n) = s + n
    BY <1>2
  <2>2. (s + n) % n = s
    OBVIOUS
  <2>. QED BY <2>1, <2>2
<1>. QED BY <1>1, <1>2

LEMMA PositionType ==
  ASSUME NEW k \in Key, NEW p \in 0 .. Cap - 1
  PROVE  Position(k, p) \in Slot
<1>1. Home[k] * Width + p \in Int
  BY TableAssumption, CapType
<1>2. \A x \in Int : x % Cap \in 0 .. Cap - 1
  BY CapType
<1>. QED BY <1>1, <1>2, CapType DEF Position

LEMMA EarlierPositions ==
  ASSUME NEW k \in Key, NEW p \in 0 .. Cap - 1, NEW q \in 0 .. p - 1
  PROVE  q \in 0 .. Cap - 1 /\ Position(k, q) \in Slot
<1>1. q \in 0 .. Cap - 1
  BY CapType
<1>. QED BY <1>1, PositionType

LEMMA EverySlotIsLookedAt ==
  ASSUME NEW k \in Key, NEW s \in Slot
  PROVE  \E p \in 0 .. Cap - 1 : Position(k, p) = s
<1>1. Home[k] * Width \in 0 .. Cap - 1
  <2>1. Home[k] \in Nat /\ Home[k] <= Blocks - 1 /\ Blocks \in Nat /\ Width \in Nat \ {0}
    BY TableAssumption
  <2>2. Home[k] * Width <= (Blocks - 1) * Width
    BY <2>1
  <2>3. (Blocks - 1) * Width = Cap - Width
    BY <2>1 DEF Cap
  <2>4. Home[k] * Width \in Nat
    BY <2>1
  <2>. QED BY <2>1, <2>2, <2>3, <2>4, CapType
<1>. QED BY <1>1, WrapReaches, CapType DEF Position

\* What FirstOf returns: a slot before which none of the set is looked at.
LEMMA FirstOfIsFirst ==
  ASSUME NEW k \in Key, NEW slots \in SUBSET Slot
  PROVE  \/ /\ FirstOf(k, slots) = NULL
            /\ \A p \in 0 .. Cap - 1 : Position(k, p) \notin slots
         \/ \E p \in 0 .. Cap - 1 :
              /\ FirstOf(k, slots) = Position(k, p)
              /\ Position(k, p) \in slots
              /\ \A q \in 0 .. p - 1 : Position(k, q) \notin slots
<1>. DEFINE ps == {p \in 0 .. Cap - 1 : Position(k, p) \in slots}
<1>1. CASE ps = {}
  BY <1>1 DEF FirstOf
<1>2. CASE ps # {}
  <2>1. ps \in SUBSET Nat
    BY CapType
  <2>2. \E p \in ps : \A q \in ps : p <= q
    BY <1>2, <2>1, LeastNat
  <2>3. Min(ps) \in ps /\ \A q \in ps : Min(ps) <= q
    BY <2>2 DEF Min
  <2>4. FirstOf(k, slots) = Position(k, Min(ps))
    BY <1>2 DEF FirstOf
  <2>5. \A q \in 0 .. Min(ps) - 1 : Position(k, q) \notin slots
    <3>. SUFFICES ASSUME NEW q \in 0 .. Min(ps) - 1, Position(k, q) \in slots
                  PROVE  FALSE
      OBVIOUS
    <3>1. Min(ps) \in Nat /\ q \in 0 .. Cap - 1
      BY <2>1, <2>3, CapType
    <3>2. q \in ps
      BY <3>1
    <3>. QED BY <2>3, <3>1, <3>2
  <2>. QED BY <2>3, <2>4, <2>5
<1>. QED BY <1>1, <1>2

\* The first slot of the set that is looked at is the only such.
LEMMA FirstIsUnique ==
  ASSUME NEW k \in Key, NEW slots \in SUBSET Slot, NEW p \in 0 .. Cap - 1,
         Position(k, p) \in slots,
         \A q \in 0 .. p - 1 : Position(k, q) \notin slots
  PROVE  FirstOf(k, slots) = Position(k, p)
<1>1. ~ \A q \in 0 .. Cap - 1 : Position(k, q) \notin slots
  OBVIOUS
<1>2. PICK r \in 0 .. Cap - 1 :
        /\ FirstOf(k, slots) = Position(k, r)
        /\ Position(k, r) \in slots
        /\ \A q \in 0 .. r - 1 : Position(k, q) \notin slots
  BY ONLY <1>1, FirstOfIsFirst, k \in Key, slots \in SUBSET Slot
<1>3. r = p
  <2>1. ~(r < p)
    BY <1>2, CapType
  <2>2. ~(p < r)
    BY <1>2, CapType
  <2>. QED BY <2>1, <2>2, CapType
<1>. QED BY <1>2, <1>3

-----------------------------------------------------------------------------
(* The inductive invariant.                                                *)

\* An ensured key is in its slot, and on the way there every slot is another's.
OnItsWay(k) ==
  \E p \in 0 .. Cap - 1 :
    /\ Position(k, p) = slotOf[k]
    /\ Hit(k, slotOf[k])
    /\ \A q \in 0 .. p - 1 :
         ~Hit(k, Position(k, q)) /\ fingerprints[Position(k, q)] # Empty

KeysOnTheirWay == \A k \in Key : slotOf[k] # NULL => OnItsWay(k)

\* An occupied slot is some key's.
OccupiedHaveKeys ==
  \A s \in Slot : fingerprints[s] # Empty =>
    \E k \in Key : slotOf[k] = s /\ Hit(k, s)

\* What the iterator has passed, it gave.
PassedAreVisited ==
  /\ startedWith \subseteq Slot \ Empties
  /\ \A s \in startedWith : s < next_idx => s \in visited

IInv ==
  /\ TypeOK
  /\ KeysOnTheirWay
  /\ OccupiedHaveKeys
  /\ PassedAreVisited

LEMMA InitIInv == Init => IInv
<1>. SUFFICES ASSUME Init PROVE IInv
  OBVIOUS
<1>1. TypeOK
  BY CapType DEF Init, TypeOK, Empty
<1>2. KeysOnTheirWay /\ OccupiedHaveKeys /\ PassedAreVisited
  BY DEF Init, KeysOnTheirWay, OccupiedHaveKeys, PassedAreVisited
<1>. QED BY <1>1, <1>2 DEF IInv

\* Where ensuring k ends: at k, or at an empty slot, with k nowhere before.
LEMMA SlotToUseIsNext ==
  ASSUME IInv, NEW k \in Key, SlotToUse(k) # NULL
  PROVE  \E p \in 0 .. Cap - 1 :
           /\ SlotToUse(k) = Position(k, p)
           /\ SlotToUse(k) \in Slot
           /\ Hit(k, SlotToUse(k)) \/ SlotToUse(k) \in Empties
           /\ \A q \in 0 .. p - 1 :
                ~Hit(k, Position(k, q)) /\ fingerprints[Position(k, q)] # Empty
<1>1. Hits(k) \union Empties \in SUBSET Slot
  BY DEF Hits, Empties
<1>2. PICK p \in 0 .. Cap - 1 :
        /\ SlotToUse(k) = Position(k, p)
        /\ Position(k, p) \in Hits(k) \union Empties
        /\ \A q \in 0 .. p - 1 : Position(k, q) \notin Hits(k) \union Empties
  BY <1>1, FirstOfIsFirst DEF SlotToUse
<1>3. \A q \in 0 .. p - 1 : Position(k, q) \in Slot
  BY EarlierPositions
<1>. QED BY <1>2, <1>3, PositionType DEF Hits, Empties

LEMMA EnsureKeepsIInv ==
  ASSUME IInv, NEW k \in Key, Ensure(k)
  PROVE  IInv'
<1>. DEFINE s == SlotToUse(k)
<1>1. PICK p \in 0 .. Cap - 1 :
        /\ s = Position(k, p)
        /\ s \in Slot
        /\ Hit(k, s) \/ s \in Empties
        /\ \A q \in 0 .. p - 1 :
             ~Hit(k, Position(k, q)) /\ fingerprints[Position(k, q)] # Empty
  BY SlotToUseIsNext DEF Ensure
<1>2. /\ slotOf' = [slotOf EXCEPT ![k] = s]
      /\ UNCHANGED <<next_idx, visited, startedWith>>
      /\ s \in Empties => /\ fingerprints' = [fingerprints EXCEPT ![s] = Fp[k]]
                          /\ keys' = [keys EXCEPT ![s] = Cmp[k]]
      /\ s \notin Empties => UNCHANGED tableVars
  BY DEF Ensure
<1>3. /\ fingerprints \in [Slot -> Nat] /\ slotOf \in [Key -> Slot \union {NULL}]
      /\ keys \in [Slot -> {NULL} \union {Cmp[l] : l \in Key}]
      /\ Fp[k] \in Nat \ {0}
  BY TableAssumption DEF IInv, TypeOK
<1>. HIDE DEF s
<1>4. TypeOK'
  BY <1>1, <1>2, <1>3 DEF IInv, TypeOK, tableVars
<1>5. /\ fingerprints'[s] = Fp[k] /\ keys'[s] = Cmp[k]
      /\ fingerprints'[s] # Empty
      /\ \A t \in Slot \ {s} : fingerprints'[t] = fingerprints[t] /\ keys'[t] = keys[t]
      /\ \A t \in Slot : fingerprints[t] # Empty =>
           fingerprints'[t] = fingerprints[t] /\ keys'[t] = keys[t]
  <2>1. CASE s \in Empties
    BY <1>1, <1>2, <1>3, <2>1 DEF Empties, Empty
  <2>2. CASE s \notin Empties
    BY <1>1, <1>2, <1>3, <2>2 DEF Hit, Empties, Empty, tableVars
  <2>. QED BY <2>1, <2>2
<1>6. ASSUME NEW l \in Key, slotOf'[l] # NULL PROVE OnItsWay(l)'
  <2>1. CASE l = k
    <3>1. slotOf'[l] = s
      BY <1>2, <1>3, <2>1
    <3>2. \A q \in 0 .. p - 1 : Position(k, q) \in Slot
      BY EarlierPositions
    <3>3. \A q \in 0 .. p - 1 :
            /\ fingerprints'[Position(k, q)] = fingerprints[Position(k, q)]
            /\ keys'[Position(k, q)] = keys[Position(k, q)]
      BY <1>1, <1>5, <3>2
    <3>4. fingerprints'[s] = Fp[k] /\ keys'[s] = Cmp[k]
      BY <1>5
    <3>5. \A q \in 0 .. p - 1 :
            ~Hit(k, Position(k, q))' /\ fingerprints'[Position(k, q)] # Empty
      BY <1>1, <3>3 DEF Hit, Position
    <3>6. s = Position(k, p)
      BY <1>1
    <3>. QED BY <2>1, <3>1, <3>4, <3>5, <3>6 DEF OnItsWay, Position, Hit
  <2>2. CASE l # k
    <3>1. slotOf'[l] = slotOf[l] /\ slotOf[l] # NULL
      BY <1>2, <1>3, <1>6, <2>2
    <3>2. PICK r \in 0 .. Cap - 1 :
            /\ Position(l, r) = slotOf[l]
            /\ Hit(l, slotOf[l])
            /\ \A q \in 0 .. r - 1 :
                 ~Hit(l, Position(l, q)) /\ fingerprints[Position(l, q)] # Empty
      BY <3>1 DEF IInv, KeysOnTheirWay, OnItsWay
    <3>3. fingerprints[slotOf[l]] # Empty /\ slotOf[l] \in Slot
      BY <1>3, <3>1, <3>2, TableAssumption DEF Hit, Empty
    <3>4. \A q \in 0 .. r - 1 : Position(l, q) \in Slot
      BY EarlierPositions
    <3>5. \A q \in 0 .. r - 1 :
            /\ fingerprints'[Position(l, q)] = fingerprints[Position(l, q)]
            /\ keys'[Position(l, q)] = keys[Position(l, q)]
      BY <1>5, <3>2, <3>4
    <3>. QED BY <1>5, <3>1, <3>2, <3>3, <3>5 DEF OnItsWay, Hit, Position
  <2>. QED BY <2>1, <2>2
<1>7. KeysOnTheirWay'
  BY <1>6 DEF KeysOnTheirWay
<1>8. OccupiedHaveKeys'
  <2>. SUFFICES ASSUME NEW t \in Slot, fingerprints'[t] # Empty
                PROVE  \E l \in Key : slotOf'[l] = t /\ Hit(l, t)'
    BY DEF OccupiedHaveKeys
  <2>1. CASE t = s
    BY <1>2, <1>3, <1>5, <2>1 DEF Hit
  <2>2. CASE t # s
    <3>1. PICK l \in Key : slotOf[l] = t /\ Hit(l, t)
      BY <1>5, <2>2 DEF IInv, OccupiedHaveKeys
    <3>2. Hit(l, t)'
      BY <1>5, <2>2, <3>1 DEF Hit
    <3>3. CASE l = k
      \* The slot of an ensured key is the one that is used again.
      <4>1. PICK r \in 0 .. Cap - 1 :
              /\ Position(k, r) = slotOf[k]
              /\ Hit(k, slotOf[k])
              /\ \A q \in 0 .. r - 1 :
                   ~Hit(k, Position(k, q)) /\ fingerprints[Position(k, q)] # Empty
        <5>1. slotOf[k] # NULL
          BY <3>1, <3>3, CapType, TableAssumption
        <5>. QED BY <5>1 DEF IInv, KeysOnTheirWay, OnItsWay
      <4>2. ~(r < p)
        BY <1>1, <4>1, CapType
      <4>3. ~(p < r)
        BY <1>1, <4>1, CapType DEF Empties
      <4>4. r = p
        BY <4>2, <4>3, CapType
      <4>. QED BY <1>1, <2>2, <3>1, <3>3, <4>1, <4>4
    <3>4. CASE l # k
      BY <1>2, <1>3, <3>1, <3>2, <3>4
    <3>. QED BY <3>3, <3>4
  <2>. QED BY <2>1, <2>2
<1>9. PassedAreVisited'
  <2>1. Slot \ Empties \subseteq (Slot \ Empties)'
    BY <1>5 DEF Empties
  <2>. QED BY <1>2, <2>1 DEF IInv, PassedAreVisited
<1>. QED BY <1>4, <1>7, <1>8, <1>9 DEF IInv

LEMMA NextKeepsIInv == IInv /\ [Next]_vars => IInv'
<1>. SUFFICES ASSUME IInv, [Next]_vars PROVE IInv'
  OBVIOUS
<1>1. ASSUME NEW k \in Key, Ensure(k) PROVE IInv'
  BY <1>1, EnsureKeepsIInv
<1>2. ASSUME UNCHANGED tableVars, slotOf' = slotOf
      PROVE  KeysOnTheirWay' /\ OccupiedHaveKeys' /\ Empties' = Empties
  BY <1>2 DEF tableVars, IInv, KeysOnTheirWay, OnItsWay, OccupiedHaveKeys, Empties, Hit,
              Position
<1>3. CASE IterInit
  <2>1. UNCHANGED <<tableVars, slotOf>> /\ next_idx' = 0 /\ visited' = {}
        /\ startedWith' = Slot \ Empties
    BY <1>3 DEF IterInit
  <2>2. 0 \in 0 .. Cap
    BY CapType
  <2>3. TypeOK'
    BY <2>1, <2>2 DEF IInv, TypeOK, tableVars
  <2>4. PassedAreVisited'
    BY <1>2, <2>1, CapType DEF PassedAreVisited
  <2>. QED BY <1>2, <2>1, <2>3, <2>4 DEF IInv
<1>4. CASE IterAdvance
  <2>. DEFINE ahead == {s \in Slot \ Empties : s >= next_idx}
  <2>1. /\ UNCHANGED <<tableVars, slotOf, startedWith>>
        /\ next_idx \in Nat
        /\ startedWith \subseteq Slot \ Empties
        /\ ahead = {} => next_idx' = Cap /\ visited' = visited
        /\ ahead # {} => next_idx' = Min(ahead) + 1 /\ visited' = visited \union {Min(ahead)}
    BY <1>4, CapType DEF IterAdvance, IInv, TypeOK, PassedAreVisited
  <2>2. KeysOnTheirWay' /\ OccupiedHaveKeys' /\ Empties' = Empties
    BY <1>2, <2>1
  <2>3. CASE ahead = {}
    <3>1. TypeOK'
      <4>1. next_idx' \in 0 .. Cap /\ visited' = visited
        BY <2>1, <2>3, CapType
      <4>. QED BY <2>1, <4>1 DEF IInv, TypeOK, tableVars
    <3>2. PassedAreVisited'
      BY <2>1, <2>2, <2>3, CapType DEF IInv, PassedAreVisited
    <3>. QED BY <2>2, <3>1, <3>2 DEF IInv
  <2>4. CASE ahead # {}
    <3>1. ahead \in SUBSET Nat
      BY CapType
    <3>2. \E m \in ahead : \A n \in ahead : m <= n
      BY <2>4, <3>1, LeastNat
    <3>3. Min(ahead) \in ahead /\ \A n \in ahead : Min(ahead) <= n
      BY <3>2 DEF Min
    <3>4. TypeOK'
      <4>1. Min(ahead) \in Slot
        BY <3>3
      <4>2. next_idx' \in 0 .. Cap
        BY <2>1, <2>4, <4>1, CapType
      <4>3. visited' \subseteq Slot
        BY <2>1, <2>4, <4>1 DEF IInv, TypeOK
      <4>. QED BY <2>1, <4>2, <4>3 DEF IInv, TypeOK, tableVars
    <3>5. ASSUME NEW s \in startedWith', s < next_idx' PROVE s \in visited'
      <4>1. s \in startedWith /\ s \in Slot \ Empties /\ s \in Nat /\ Min(ahead) \in Nat
        BY <2>1, <3>1, <3>3, CapType
      <4>2. CASE s < next_idx
        BY <2>1, <2>4, <4>1, <4>2 DEF IInv, PassedAreVisited
      <4>3. CASE s >= next_idx
        <5>1. Min(ahead) <= s
          BY <3>3, <4>1, <4>3
        <5>2. s < Min(ahead) + 1
          BY <2>1, <2>4, <3>5
        <5>3. s = Min(ahead)
          BY <4>1, <5>1, <5>2
        <5>. QED BY <2>1, <2>4, <5>3
      <4>. QED BY <2>1, <4>1, <4>2, <4>3
    <3>6. PassedAreVisited'
      BY <2>1, <2>2, <3>5, CapType DEF PassedAreVisited
    <3>. QED BY <2>2, <3>4, <3>6 DEF IInv
  <2>. QED BY <2>3, <2>4
<1>5. CASE UNCHANGED vars
  <2>1. TypeOK'
    BY <1>5 DEF vars, IInv, TypeOK
  <2>2. PassedAreVisited'
    BY <1>2, <1>5 DEF vars, tableVars, IInv, PassedAreVisited
  <2>. QED BY <1>2, <1>5, <2>1, <2>2 DEF vars, tableVars, IInv
<1>. QED BY <1>1, <1>3, <1>4, <1>5 DEF Next

\* An ensured key's slot is where both searches for it end.
LEMMA IInvFindAgrees == IInv => FindAgrees
<1>. SUFFICES ASSUME IInv, NEW k \in Key, slotOf[k] # NULL
              PROVE  Find(k) = slotOf[k] /\ SlotToUse(k) = slotOf[k]
  BY DEF FindAgrees
<1>1. PICK p \in 0 .. Cap - 1 :
        /\ Position(k, p) = slotOf[k]
        /\ Hit(k, slotOf[k])
        /\ \A q \in 0 .. p - 1 :
             ~Hit(k, Position(k, q)) /\ fingerprints[Position(k, q)] # Empty
  BY DEF IInv, KeysOnTheirWay, OnItsWay
<1>2. Hits(k) \in SUBSET Slot /\ Hits(k) \union Empties \in SUBSET Slot
  BY DEF Hits, Empties
<1>3. Position(k, p) \in Hits(k)
  BY <1>1, PositionType DEF Hits
<1>4. \A q \in 0 .. p - 1 : Position(k, q) \notin Hits(k) \union Empties
  BY <1>1 DEF Hits, Empties
<1>5. FirstOf(k, Hits(k)) = Position(k, p)
  BY <1>2, <1>3, <1>4, FirstIsUnique
<1>6. FirstOf(k, Hits(k) \union Empties) = Position(k, p)
  BY <1>2, <1>3, <1>4, FirstIsUnique
<1>. QED BY <1>1, <1>5, <1>6 DEF Find, SlotToUse

-----------------------------------------------------------------------------
(* The theorems.                                                           *)

\* The strengthening of the invariants below holds in every reachable state.
THEOREM TableInvariant == Spec => []IInv
BY InitIInv, NextKeepsIInv, PTL DEF Spec

\* A key that was ensured is found in its slot by ak_table_get_g and by
\* ak_table_ensure_g, though the one searches past empty slots and the other
\* does not, for every order in which keys were ensured.
THEOREM EnsuredIsFound == Spec => []FindAgrees
BY IInvFindAgrees, TableInvariant, PTL

\* When no two keys look the same to the table, no two have the same slot.
THEOREM SlotsDistinct == NoAliases => (Spec => []DistinctSlots)
<1>. SUFFICES ASSUME NoAliases PROVE Spec => []DistinctSlots
  OBVIOUS
<1>1. IInv => DistinctSlots
  BY DEF IInv, KeysOnTheirWay, OnItsWay, Hit, NoAliases, DistinctSlots
<1>. QED BY <1>1, TableInvariant, PTL

\* When no two keys look the same to the table, only ensured keys are found.
THEOREM OnlyEnsuredIsFound == NoAliases => (Spec => []FindsOnlyEnsured)
<1>. SUFFICES ASSUME NoAliases PROVE Spec => []FindsOnlyEnsured
  OBVIOUS
<1>1. IInv => FindsOnlyEnsured
  <2>. SUFFICES ASSUME IInv, NEW k \in Key, Find(k) # NULL PROVE slotOf[k] # NULL
    BY DEF FindsOnlyEnsured
  <2>1. Hits(k) \in SUBSET Slot
    BY DEF Hits
  <2>2. PICK s \in Slot : Hit(k, s)
    BY <2>1, FirstOfIsFirst DEF Find, Hits
  <2>3. fingerprints[s] # Empty
    BY <2>2, TableAssumption DEF Hit, Empty
  <2>4. PICK l \in Key : slotOf[l] = s /\ Hit(l, s)
    BY <2>3 DEF IInv, OccupiedHaveKeys
  <2>5. l = k
    BY <2>2, <2>4 DEF Hit, NoAliases
  <2>. QED BY <2>4, <2>5, CapType, TableAssumption
<1>. QED BY <1>1, TableInvariant, PTL

\* When no two keys look the same to the table, a key is found if and only if it was
\* ensured, by lookup and by ensuring it again.
THEOREM LookupsFindTheEnsured == NoAliases => (Spec => []LookupsAreExact)
BY EnsuredIsFound, OnlyEnsuredIsFound, PTL DEF LookupsAreExact

\* Probing reaches every slot from every block: a key is refused only when all
\* slots have gone to keys.
THEOREM RefusedWhenFull == Spec => []RefusedOnlyWhenFull
<1>1. IInv => RefusedOnlyWhenFull
  <2>. SUFFICES ASSUME IInv, NEW k \in Key, SlotToUse(k) = NULL, NEW s \in Slot
                PROVE  \E l \in Key : slotOf[l] = s
    BY DEF RefusedOnlyWhenFull
  <2>1. Hits(k) \union Empties \in SUBSET Slot
    BY DEF Hits, Empties
  <2>2. \A p \in 0 .. Cap - 1 : Position(k, p) \notin Hits(k) \union Empties
    <3>1. \A p \in 0 .. Cap - 1 : Position(k, p) # NULL
      BY PositionType, CapType, TableAssumption
    <3>. QED BY <2>1, <3>1, FirstOfIsFirst DEF SlotToUse
  <2>3. s \notin Empties
    BY <2>2, EverySlotIsLookedAt
  <2>. QED BY <2>3 DEF Empties, IInv, OccupiedHaveKeys
<1>. QED BY <1>1, TableInvariant, PTL

\* An iteration that ended gave every slot that was occupied when it began.
THEOREM IterationIsComplete == Spec => []IterationComplete
<1>1. IInv => IterationComplete
  BY CapType DEF IInv, TypeOK, PassedAreVisited, IterationComplete
<1>. QED BY <1>1, TableInvariant, PTL

-----------------------------------------------------------------------------
(* The table is a slot map.                                                *)

slotBar == [k \in {l \in Key : slotOf[l] # NULL} |-> slotOf[k]]

\* The slot a key is given for the first time is no other key's.
LEMMA FirstSlotIsFree ==
  ASSUME NoAliases, IInv, NEW k \in Key, slotOf[k] = NULL, SlotToUse(k) # NULL,
         NEW l \in Key
  PROVE  SlotToUse(k) \in Slot /\ slotOf[l] # SlotToUse(k)
<1>. DEFINE s == SlotToUse(k)
<1>1. s \in Slot /\ (Hit(k, s) \/ s \in Empties)
  BY SlotToUseIsNext
<1>. HIDE DEF s
<1>. SUFFICES ASSUME slotOf[l] = s PROVE FALSE
  BY <1>1 DEF s
<1>2. Hit(l, s)
  <2>1. slotOf[l] # NULL
    BY <1>1, CapType, TableAssumption
  <2>. QED BY <2>1 DEF IInv, KeysOnTheirWay, OnItsWay
<1>3. fingerprints[s] # Empty
  BY <1>2, TableAssumption DEF Hit, Empty
<1>4. Hit(k, s)
  BY <1>1, <1>3 DEF Empties
<1>5. PICK m \in Key : slotOf[m] = s /\ Hit(m, s)
  BY <1>1, <1>3 DEF IInv, OccupiedHaveKeys
<1>6. m = k
  BY <1>4, <1>5 DEF Hit, NoAliases
<1>. QED BY <1>1, <1>5, <1>6, CapType, TableAssumption

\* Ensuring a key gives it a free slot, or changes no key's.
LEMMA EnsureIsEnsure ==
  ASSUME NoAliases, IInv, NEW k \in Key, Ensure(k)
  PROVE  Map!Ensure(k) \/ UNCHANGED slotBar
<1>. DEFINE s == SlotToUse(k)
<1>1. s # NULL /\ slotOf' = [slotOf EXCEPT ![k] = s] /\ slotOf \in [Key -> Slot \union {NULL}]
  BY DEF Ensure, IInv, TypeOK
<1>2. CASE slotOf[k] # NULL
  <2>1. s = slotOf[k]
    BY <1>2, IInvFindAgrees DEF FindAgrees
  <2>. HIDE DEF s
  <2>2. slotOf' = slotOf
    BY <1>1, <2>1
  <2>. QED BY <2>2 DEF slotBar
<1>3. CASE slotOf[k] = NULL
  <2>1. s \in Slot /\ \A l \in Key : slotOf[l] # s
    BY <1>1, <1>3, FirstSlotIsFree
  <2>. HIDE DEF s
  <2>2. DOMAIN slotBar = {l \in Key : slotOf[l] # NULL}
        /\ \A l \in DOMAIN slotBar : slotBar[l] = slotOf[l]
    BY DEF slotBar
  <2>3. k \notin DOMAIN slotBar
    BY <1>3, <2>2
  <2>4. s \in Slot \ {slotBar[l] : l \in DOMAIN slotBar}
    BY <2>1, <2>2
  <2>5. {l \in Key : slotOf'[l] # NULL} = DOMAIN slotBar \union {k}
    BY <1>1, <2>1, <2>2
  <2>6. \A l \in DOMAIN slotBar \union {k} : slotOf'[l] = IF l = k THEN s ELSE slotBar[l]
    BY <1>1, <2>1, <2>2
  <2>7. slotBar' = [l \in DOMAIN slotBar \union {k} |-> IF l = k THEN s ELSE slotBar[l]]
    BY <2>5, <2>6 DEF slotBar
  <2>8. /\ k \notin DOMAIN slotBar
        /\ \E t \in Slot \ {slotBar[l] : l \in DOMAIN slotBar} :
             slotBar' = [l \in DOMAIN slotBar \union {k} |-> IF l = k THEN t ELSE slotBar[l]]
    BY <2>3, <2>4, <2>7
  <2>. QED BY <2>8 DEF Map!Ensure, Map!Free, slotBar
<1>. QED BY <1>2, <1>3

\* When no two keys look the same to the table, it implements the slot map: a
\* key keeps the slot it got, which was free (ak_table_ensure_g).
THEOREM TableIsSlotMap == NoAliases => (Spec => ImplementsSlotMap)
<1>. SUFFICES ASSUME NoAliases PROVE Spec => ImplementsSlotMap
  OBVIOUS
<1>1. Init => Map!Init
  <2>. SUFFICES ASSUME Init PROVE slotBar = << >>
    BY DEF Map!Init, slotBar
  <2>1. {l \in Key : slotOf[l] # NULL} = {}
    BY DEF Init
  <2>. QED BY <2>1 DEF slotBar
<1>2. IInv /\ [Next]_vars => [Map!Next]_slotBar
  <2>. SUFFICES ASSUME IInv, [Next]_vars PROVE Map!Next \/ UNCHANGED slotBar
    OBVIOUS
  <2>1. ASSUME NEW k \in Key, Ensure(k) PROVE Map!Next \/ UNCHANGED slotBar
    BY <2>1, EnsureIsEnsure DEF Map!Next
  <2>2. ASSUME UNCHANGED slotOf PROVE UNCHANGED slotBar
    BY <2>2 DEF slotBar
  <2>. QED BY <2>1, <2>2 DEF Next, IterInit, IterAdvance, vars
<1>. QED BY <1>1, <1>2, TableInvariant, PTL DEF Spec, ImplementsSlotMap, Map!Spec, slotBar
=============================================================================
