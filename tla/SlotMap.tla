------------------------------ MODULE SlotMap ------------------------------
(***************************************************************************)
(* What the hash table of akimbo is used for: giving each key a slot of    *)
(* its own, the same one for as long as the table lives.  Which free slot  *)
(* a key gets is the table's business, and a key gets none only when no    *)
(* slot is free.                                                           *)
(***************************************************************************)
CONSTANTS Key, Slot

VARIABLE slot   \* the slots of the keys that have one

Free == Slot \ {slot[k] : k \in DOMAIN slot}

Init == slot = << >>

\* A key that has no slot gets a free one.
Ensure(k) ==
  /\ k \notin DOMAIN slot
  /\ \E s \in Free : slot' = [q \in DOMAIN slot \union {k} |-> IF q = k THEN s ELSE slot[q]]

Next == \E k \in Key : Ensure(k)

Spec == Init /\ [][Next]_slot
=============================================================================
