------------------------------- MODULE Table -------------------------------
(***************************************************************************)
(* The hash table of base.c: blocks of slots, each with a fingerprint and  *)
(* the key to compare with.  Probing goes from the key's block through all *)
(* blocks, in order and around the end; within a block it goes from slot   *)
(* to slot.  Nothing is ever removed.                                      *)
(*                                                                         *)
(* A key is what the caller passes.  The table keeps of it only Cmp (a     *)
(* string's first sixteen bytes, hashed) and Fp (four bits of its hash,    *)
(* the lowest one set).  The entries a caller keeps beside the table, one  *)
(* per slot, are found by the slot the table gives.                        *)
(***************************************************************************)
EXTENDS Integers, FiniteSets, FiniteSetsExt

CONSTANTS
  Key,      \* what callers look up, other than the empty string
  NULL,     \* no slot
  Cmp,      \* Cmp[k]: what is compared, the stored part of key k
  Fp,       \* Fp[k]: the fingerprint of key k
  Home,     \* Home[k]: the block where the probing for k starts
  Blocks,   \* table->cap / 8
  Width     \* slots in a block: 8

ASSUME TableAssumption ==
  /\ Blocks \in Nat \ {0}
  /\ Width \in Nat \ {0}
  /\ Fp \in [Key -> Nat \ {0}]
  /\ Home \in [Key -> 0 .. Blocks - 1]
  /\ NULL \notin Nat

Cap == Blocks * Width
Slot == 0 .. Cap - 1

Empty == 0     \* AK_TableSentinel_Empty

VARIABLES
  fingerprints,  \* table->fingerprints_as
  keys,          \* table->keys
  next_idx,      \* of the iterator of the caller
  slotOf,        \* the slot each ensured key was given
  visited,       \* the slots the iterator gave, in this iteration
  startedWith    \* the slots that were occupied when the iteration began

tableVars == <<fingerprints, keys>>
vars == <<fingerprints, keys, next_idx, slotOf, visited, startedWith>>

-----------------------------------------------------------------------------
(* ak_table_probe.                                                         *)

\* Mutant: the probing does not go on around the end.
PositionWithoutWrap(k, p) == Home[k] * Width + p

\* The p-th slot that is looked at for key k.
Position(k, p) == (Home[k] * Width + p) % Cap

\* Mutant: equal fingerprints are taken for equal keys.
HitByFingerprint(k, s) == fingerprints[s] = Fp[k]

Hit(k, s) == fingerprints[s] = Fp[k] /\ keys[s] = Cmp[k]

\* The first slot on the way of k that is one of these, NULL if none is.
FirstOf(k, slots) ==
  LET ps == {p \in 0 .. Cap - 1 : Position(k, p) \in slots}
  IN IF ps = {} THEN NULL ELSE Position(k, Min(ps))

Hits(k) == {s \in Slot : Hit(k, s)}
Empties == {s \in Slot : fingerprints[s] = Empty}

\* Where a key is, or where it would go: an empty slot ends the search.
SlotToUse(k) == FirstOf(k, Hits(k) \union Empties)

\* Mutant: looking a key up ends at the first block with no fingerprint of it.
FindNear(k) ==
  LET s == FirstOf(k, Hits(k)) IN
    IF s # NULL /\ s \div Width = Home[k] THEN s ELSE NULL

\* Where a key is: an empty slot does not end the search.
Find(k) == FirstOf(k, Hits(k))

-----------------------------------------------------------------------------
\* The arena gives zeroed memory, so every slot is empty.
Init ==
  /\ fingerprints = [s \in Slot |-> Empty]
  /\ keys = [s \in Slot |-> NULL]
  /\ next_idx = Cap
  /\ slotOf = [k \in Key |-> NULL]
  /\ visited = {}
  /\ startedWith = {}

\* Mutant: the slot is taken for the key also if it is another's.
EnsureOver(k) ==
  LET s == IF SlotToUse(k) = NULL THEN 0 ELSE SlotToUse(k) IN
    /\ fingerprints' = [fingerprints EXCEPT ![s] = Fp[k]]
    /\ keys' = [keys EXCEPT ![s] = Cmp[k]]
    /\ slotOf' = [slotOf EXCEPT ![k] = s]
    /\ UNCHANGED <<next_idx, visited, startedWith>>

\* ak_table_ensure_g; with no slot to use it is AK_CatastropheKind_OutOfMemory.
Ensure(k) ==
  LET s == SlotToUse(k) IN
    /\ s # NULL
    /\ IF s \in Empties
         THEN /\ fingerprints' = [fingerprints EXCEPT ![s] = Fp[k]]
              /\ keys' = [keys EXCEPT ![s] = Cmp[k]]
         ELSE UNCHANGED tableVars
    /\ slotOf' = [slotOf EXCEPT ![k] = s]
    /\ UNCHANGED <<next_idx, visited, startedWith>>

IterInit ==
  /\ next_idx' = 0
  /\ visited' = {}
  /\ startedWith' = Slot \ Empties
  /\ UNCHANGED <<tableVars, slotOf>>

\* Mutant: the slot after the one that was given is skipped.
AdvanceByTwo ==
  LET ahead == {s \in Slot \ Empties : s >= next_idx} IN
    /\ IF ahead = {}
         THEN next_idx' = Cap /\ UNCHANGED visited
         ELSE next_idx' = Min(ahead) + 2 /\ visited' = visited \union {Min(ahead)}
    /\ UNCHANGED <<tableVars, slotOf, startedWith>>

\* ak_table_iter_advance: the next slot that is occupied now, if there is one.
IterAdvance ==
  LET ahead == {s \in Slot \ Empties : s >= next_idx} IN
    /\ IF ahead = {}
         THEN next_idx' = Cap /\ UNCHANGED visited
         ELSE next_idx' = Min(ahead) + 1 /\ visited' = visited \union {Min(ahead)}
    /\ UNCHANGED <<tableVars, slotOf, startedWith>>

Next ==
  \/ \E k \in Key : Ensure(k)
  \/ IterInit
  \/ IterAdvance

Spec == Init /\ [][Next]_vars

-----------------------------------------------------------------------------
(* Properties.                                                             *)

TypeOK ==
  /\ fingerprints \in [Slot -> Nat]
  /\ keys \in [Slot -> {NULL} \union {Cmp[k] : k \in Key}]
  /\ next_idx \in 0 .. Cap
  /\ slotOf \in [Key -> Slot \union {NULL}]
  /\ visited \subseteq Slot
  /\ startedWith \subseteq Slot

\* A key that was ensured is found where it was put, for as long as the table
\* lives, by a lookup and by ensuring it again: the two search differently, and
\* keys that came later may fill the slots between.
FindAgrees ==
  \A k \in Key : slotOf[k] # NULL => Find(k) = slotOf[k] /\ SlotToUse(k) = slotOf[k]

\* Two keys never share a slot, so never an entry of the caller's array
\* (test/map.c: "clobbered original slot").
DistinctSlots ==
  \A k, l \in Key : k # l /\ slotOf[k] # NULL => slotOf[k] # slotOf[l]

\* A key that was never ensured is not found.
FindsOnlyEnsured == \A k \in Key : Find(k) # NULL => slotOf[k] # NULL

\* A lookup finds a key exactly if it was ensured, and where it was put, whatever
\* came later.
LookupsAreExact == FindAgrees /\ FindsOnlyEnsured

\* A key is refused a slot only when every slot has gone to some key,
\* whichever block its probing starts in.
RefusedOnlyWhenFull ==
  \A k \in Key : SlotToUse(k) = NULL => Slot \subseteq {slotOf[l] : l \in Key}

\* An iteration that has ended gave every slot that was occupied when it
\* began, although keys were ensured meanwhile.
IterationComplete == next_idx = Cap => startedWith \subseteq visited

Map ==
  INSTANCE SlotMap WITH
    slot <- [k \in {l \in Key : slotOf[l] # NULL} |-> slotOf[k]]

\* The table is a slot map: a key keeps the slot it got, which was free.
ImplementsSlotMap == Map!Spec
=============================================================================
