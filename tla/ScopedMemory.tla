---------------------------- MODULE ScopedMemory ----------------------------
(***************************************************************************)
(* What an akimbo arena promises to the code that allocates from it,       *)
(* without slab lists, offsets  or recycling: memory is handed out in      *)
(* blocks, a scope remembers how many blocks were live when it was opened, *)
(* closing a scope gives back exactly the blocks handed out since, and no  *)
(* memory is ever taken away from under a live block.                      *)
(***************************************************************************)
EXTENDS Integers, Sequences

CONSTANTS
  Slab,       \* the regions of memory the host can hand out
  MaxLive,    \* bound on the number of live blocks
  MaxScopes   \* bound on the number of nested scopes

VARIABLES
  room,       \* room[r]: bytes of region r the program may touch, 0 if none
  live,       \* the live blocks, in the order they were handed out
  marks       \* one mark per open scope: how many blocks were live then

vars == <<room, live, marks>>

Block == [slab : Slab, start : Nat, size : Nat]

EndOf(b) == b.start + b.size

\* The memory under a live block stays as it is.
KeepsLive(blocks) ==
  \A j \in DOMAIN blocks : room'[blocks[j].slab] = room[blocks[j].slab]

Init ==
  /\ room = [r \in Slab |-> 0]
  /\ live = <<>>
  /\ marks = <<>>

\* A new block lies in memory the program owns, past every older block of
\* the same region.
Alloc ==
  /\ Len(live) < MaxLive
  /\ Len(live') = Len(live) + 1
  /\ live' = Append(live, live'[Len(live) + 1])
  /\ LET b == live'[Len(live) + 1] IN
       /\ b \in Block
       /\ EndOf(b) <= room'[b.slab]
       /\ \A j \in DOMAIN live : live[j].slab = b.slab => EndOf(live[j]) <= b.start
  /\ KeepsLive(live)
  /\ UNCHANGED marks

Open ==
  /\ Len(marks) < MaxScopes
  /\ marks' = Append(marks, Len(live))
  /\ UNCHANGED <<room, live>>

\* Closing the k-th scope closes the ones nested in it, and drops exactly the
\* blocks handed out since it was opened.
Close(k) ==
  /\ live' = SubSeq(live, 1, marks[k])
  /\ marks' = SubSeq(marks, 1, k - 1)
  /\ UNCHANGED room

\* The program gives up everything it holds.
Reset ==
  /\ live' = <<>>
  /\ marks' = <<>>
  /\ room' \in [Slab -> Nat]

\* Memory no live block lies in may go back to the host.
Shrink ==
  /\ room' \in [Slab -> Nat]
  /\ KeepsLive(live)
  /\ UNCHANGED <<live, marks>>

Next ==
  \/ Alloc
  \/ Open
  \/ \E k \in DOMAIN marks : Close(k)
  \/ Reset
  \/ Shrink

Spec == Init /\ [][Next]_vars
=============================================================================
