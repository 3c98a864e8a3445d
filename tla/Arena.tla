------------------------------- MODULE Arena -------------------------------
(***************************************************************************)
(* The arena of include/akimbo/internal/base.c: a stack of slabs taken     *)
(* from a host allocator, a bump offset into the top one, a list of slabs  *)
(* kept for reuse, and scopes that roll the stack back.                    *)
(*                                                                         *)
(* Both chains are sequences here, from their bottom slab to their top     *)
(* slab; ArenaLinks has the up and down pointers that hold them.  An       *)
(* action is one call of the library.  A call that the host refuses memory *)
(* (NULL) leaves the arena as it was, so it is a stuttering step.          *)
(***************************************************************************)
EXTENDS Integers, Sequences, FiniteSets, SequencesExt

CONSTANTS
  Slab,            \* the slabs the host can hand out
  NULL,            \* the null slab
  Base,            \* Base[s]: the address of the buffer of slab s
  DefaultSlab,     \* the host's default pre-allocation, in bytes
  NoRecycle,       \* the host's AK_AllocatorFlag_NoRecycle
  Asan,            \* built with the address sanitizer (AK_FEATURE_ASAN)
  AsanPadding,     \* AK_ASAN_PADDING_BYTES
  AsanGranularity, \* AK_ASAN_BYTE_GRANULARITY
  Sizes, Aligns,   \* the sizes and alignments that are asked for
  MaxLive,         \* bound on the number of live blocks
  MaxScopes        \* bound on the number of nested scopes

ASSUME ArenaAssumption ==
  /\ NULL \notin Slab
  /\ Base \in [Slab -> Nat]
  /\ DefaultSlab \in Nat
  /\ NoRecycle \in BOOLEAN
  /\ Asan \in BOOLEAN
  /\ AsanPadding \in Nat
  /\ AsanGranularity \in Nat \ {0}
  /\ Sizes \subseteq Nat
  /\ Aligns \subseteq Nat \ {0}
  /\ MaxLive \in Nat
  /\ MaxScopes \in Nat

VARIABLES
  active,          \* the slabs under arena->top_slab, bottom first
  recycled,        \* the slabs under arena->top_recycled_slab, bottom first
  current_offset,  \* arena->current_offset
  cap,             \* cap[s]: bytes in the buffer of s, 0 if the host has it
  aborted          \* an assertion of the library failed

\* What the code that uses the arena holds.
VARIABLES
  live,            \* its blocks, in the order they were handed out
  scopes           \* its open scopes; mark is Len(live) when it was opened

arenaVars == <<active, recycled, current_offset, cap, aborted>>
vars == <<active, recycled, current_offset, cap, aborted, live, scopes>>

Block == [slab : Slab, start : Nat, size : Nat]
Scope == [slab : Slab \union {NULL}, offset : Nat, mark : Nat]

EndOf(b) == b.start + b.size

Top == IF active = <<>> THEN NULL ELSE Last(active)

\* The host's memory the arena holds.
Held == {s \in Slab : cap[s] > 0}

-----------------------------------------------------------------------------
(* Addresses.                                                              *)

\* Mutant: rounds down.
AlignDown(x, align) == x - (x % align)

\* The next multiple of align, which the code computes with a mask because
\* every alignment is a power of two.
AlignUp(x, align) == x + ((-x) % align)

EffectiveAlign(align) ==
  IF Asan /\ align < AsanGranularity THEN AsanGranularity ELSE align

Padding == IF Asan THEN AsanPadding ELSE 0

\* Mutant: a block behind another one is not padded.
StartUnpadded(s, offset, align) ==
  AlignUp(Base[s] + offset, EffectiveAlign(align)) - Base[s]

\* Where in s a block asked for at this offset starts.
StartIn(s, offset, align) ==
  AlignUp(Base[s] + offset + Padding, EffectiveAlign(align)) - Base[s]

FitsIn(s, offset, size, align) ==
  StartIn(s, offset, align) + size <= cap[s]

-----------------------------------------------------------------------------
Init ==
  /\ active = <<>>
  /\ recycled = <<>>
  /\ current_offset = 0
  /\ cap = [s \in Slab |-> 0]
  /\ aborted = FALSE
  /\ live = <<>>
  /\ scopes = <<>>

(***************************************************************************)
(* ak_arena_alloc: plan A, the current slab; plan B, the first recycled    *)
(* slab from the top that is big enough; plan C, a new slab of the host.   *)
(***************************************************************************)
Grant(s, offset, size, align) ==
  LET start == StartIn(s, offset, align) IN
    /\ live' = Append(live, [slab |-> s, start |-> start, size |-> size])
    /\ current_offset' = start + size
    /\ UNCHANGED scopes

FitsTop(size, align) ==
  active # <<>> /\ FitsIn(Top, current_offset, size, align)

AllocFromTop(size, align) ==
  /\ FitsTop(size, align)
  /\ Grant(Top, current_offset, size, align)
  /\ UNCHANGED <<active, recycled, cap, aborted>>

FirstFit(i, size, align) ==
  /\ FitsIn(recycled[i], 0, size, align)
  /\ \A j \in i + 1 .. Len(recycled) : ~FitsIn(recycled[j], 0, size, align)

AllocFromRecycled(size, align) ==
  /\ ~FitsTop(size, align)
  /\ ~NoRecycle
  /\ \E i \in DOMAIN recycled :
       /\ FirstFit(i, size, align)
       /\ active' = Append(active, recycled[i])
       /\ recycled' = RemoveAt(recycled, i)
       /\ Grant(recycled[i], 0, size, align)
  /\ UNCHANGED <<cap, aborted>>

\* Mutant: leaves no room for the alignment of the first block.
NewSlabSizeUnaligned(size, align) ==
  IF size > DefaultSlab THEN size ELSE DefaultSlab

NewSlabSize(size, align) ==
  IF size + EffectiveAlign(align) > DefaultSlab
    THEN size + EffectiveAlign(align) ELSE DefaultSlab

\* Mutant: a recycled slab is measured from the offset of the slab left behind.
NoneFitsBehindOffset(size, align) ==
  \A i \in DOMAIN recycled : ~FitsIn(recycled[i], current_offset, size, align)

NoneFits(size, align) ==
  \A i \in DOMAIN recycled : ~FitsIn(recycled[i], 0, size, align)

AllocFromHost(size, align) ==
  /\ ~FitsTop(size, align)
  /\ NoRecycle \/ NoneFits(size, align)
  /\ \E s \in Slab \ Held :
       /\ cap' = [cap EXCEPT ![s] = NewSlabSize(size, align)]
       /\ active' = Append(active, s)
       /\ Grant(s, 0, size, align)
  /\ UNCHANGED <<recycled, aborted>>

Alloc(size, align) ==
  /\ ~aborted
  /\ Len(live) < MaxLive
  /\ \/ AllocFromTop(size, align)
     \/ AllocFromRecycled(size, align)
     \/ AllocFromHost(size, align)

-----------------------------------------------------------------------------
(* Scopes.                                                                 *)

PushScope ==
  /\ ~aborted
  /\ Len(scopes) < MaxScopes
  /\ scopes' = Append(scopes, [slab |-> Top, offset |-> current_offset, mark |-> Len(live)])
  /\ UNCHANGED <<arenaVars, live>>

\* Mutant: the slab of the scope goes with the ones above it.
DepthBelow(sc) == (CHOOSE i \in DOMAIN active : active[i] = sc.slab) - 1

\* How many slabs the scope saw, from the bottom up.
Depth(sc) == CHOOSE i \in DOMAIN active : active[i] = sc.slab

\* Mutant: the slab just above the scope's is in neither chain afterwards.
AboveNext(sc) == SubSeq(active, Depth(sc) + 2, Len(active))

\* The slabs the scope did not see.
Above(sc) == SubSeq(active, Depth(sc) + 1, Len(active))

WithinSlab(sc) == Top = sc.slab /\ sc.offset > 0

PopWithinSlab(sc) ==
  /\ WithinSlab(sc)
  /\ current_offset' = sc.offset
  /\ UNCHANGED <<active, recycled, aborted>>

\* ak_unreachable("TODO")
PopWithoutRecycling(sc) ==
  /\ ~WithinSlab(sc)
  /\ NoRecycle
  /\ aborted' = TRUE
  /\ UNCHANGED <<active, recycled, current_offset>>

PopToEmpty(sc) ==
  /\ ~WithinSlab(sc)
  /\ ~NoRecycle
  /\ sc.slab = NULL
  /\ active' = <<>>
  /\ recycled' = recycled \o active
  /\ current_offset' = 0
  /\ UNCHANGED aborted

PopAcrossSlabs(sc) ==
  /\ ~WithinSlab(sc)
  /\ ~NoRecycle
  /\ sc.slab # NULL
  /\ active' = SubSeq(active, 1, Depth(sc))
  /\ recycled' = recycled \o Above(sc)
  /\ current_offset' = sc.offset
  /\ UNCHANGED aborted

\* The code pops the scope it pushed last, or, where a function returns
\* without popping its own, one further out; the blocks handed out since are
\* not used again.
PopScope(k) ==
  LET sc == scopes[k] IN
    /\ ~aborted
    /\ \/ PopWithinSlab(sc)
       \/ PopWithoutRecycling(sc)
       \/ PopToEmpty(sc)
       \/ PopAcrossSlabs(sc)
    /\ live' = SubSeq(live, 1, sc.mark)
    /\ scopes' = SubSeq(scopes, 1, k - 1)
    /\ UNCHANGED cap

-----------------------------------------------------------------------------
(* Giving memory back.                                                     *)

\* The slabs of the chain go back to the host (ak_slab_free_downward_from).
FreeSlabs(chain) ==
  cap' = [s \in Slab |-> IF s \in ToSet(chain) THEN 0 ELSE cap[s]]

FreeRecycled ==
  /\ ~aborted
  /\ IF NoRecycle
       THEN /\ aborted' = (recycled # <<>>)
            /\ UNCHANGED <<recycled, cap>>
       ELSE /\ FreeSlabs(recycled)
            /\ recycled' = <<>>
            /\ UNCHANGED aborted
  /\ UNCHANGED <<active, current_offset, live, scopes>>

\* Only with no scope open: a scope of a recycled slab must not be popped.
RecycleAll ==
  /\ ~aborted
  /\ scopes = <<>>
  /\ ~NoRecycle
  /\ recycled' = recycled \o active
  /\ active' = <<>>
  /\ live' = <<>>
  /\ UNCHANGED <<current_offset, cap, aborted, scopes>>

FreeAll ==
  /\ ~aborted
  /\ active' = <<>>
  /\ IF NoRecycle
       THEN /\ aborted' = (recycled # <<>>)
            /\ FreeSlabs(active)
            /\ UNCHANGED recycled
       ELSE /\ FreeSlabs(active \o recycled)
            /\ recycled' = <<>>
            /\ UNCHANGED aborted
  /\ current_offset' = 0
  /\ live' = <<>>
  /\ scopes' = <<>>

Next ==
  \/ \E size \in Sizes, align \in Aligns : Alloc(size, align)
  \/ PushScope
  \/ \E k \in DOMAIN scopes : PopScope(k)
  \/ FreeRecycled
  \/ RecycleAll
  \/ FreeAll

Spec == Init /\ [][Next]_vars

-----------------------------------------------------------------------------
(* Properties.                                                             *)

\* The arena's fields and its users' blocks and scopes have their types.
TypeOK ==
  /\ active \in Seq(Slab)
  /\ recycled \in Seq(Slab)
  /\ current_offset \in Nat
  /\ cap \in [Slab -> Nat]
  /\ aborted \in BOOLEAN
  /\ live \in Seq(Block)
  /\ scopes \in Seq(Scope)

\* Two live blocks never share a byte, whatever was allocated, rolled back and
\* reused before: in a slab, a younger block lies wholly after the older ones.
LiveBlocksDisjoint ==
  \A i, j \in DOMAIN live :
    i < j /\ live[i].slab = live[j].slab => EndOf(live[i]) <= live[j].start

\* A live block lies inside the buffer of a slab the arena still holds and
\* will not reuse: buf[] ak_check_bounds(cap), base.h:264.
LiveBlocksInSlab ==
  \A j \in DOMAIN live :
    /\ live[j].slab \in ToSet(active)
    /\ EndOf(live[j]) <= cap[live[j].slab]

\* Every slab taken from the host is in one of the two chains, once: none
\* leaks when chains are cut and joined, none is handed out twice.
NoSlabLost ==
  /\ IsInjective(active \o recycled)
  /\ ToSet(active \o recycled) = Held

\* Under the address sanitizer two live blocks of a slab have a poisoned gap of
\* AK_ASAN_PADDING_BYTES between them, also after scopes moved the offset back.
RedzonesBetweenBlocks ==
  Asan => \A i, j \in DOMAIN live :
    i < j /\ live[i].slab = live[j].slab =>
      EndOf(live[i]) + AsanPadding <= live[j].start

\* The room for the padding is not in the size of a new slab (base.c:834): a block
\* can end behind its slab, but only the first one of a slab, by less than the
\* padding, and nothing is put behind it.
FirstBlocksOverrun ==
  \A j \in DOMAIN live :
    LET beyond == EndOf(live[j]) - cap[live[j].slab]
    IN beyond > 0 =>
         /\ Asan /\ beyond < AsanPadding
         /\ \A i \in DOMAIN live : i # j => live[i].slab # live[j].slab

\* The assertion of ak_arena_free_recycled: a host that cannot recycle never
\* finds a slab in the recycled chain.
NothingRecycledWithoutRecycling == NoRecycle => recycled = <<>>

\* Popping a scope leaves the slab on top that was on top when it was pushed,
\* whatever was allocated and popped in between.
PopRestoresTop ==
  [][\A k \in DOMAIN scopes :
       PopScope(k) /\ ~aborted' => Top' = scopes[k].slab]_vars

\* The slabs of the size that small requests get.
OrdinarySlabs == {s \in Held : cap[s] = DefaultSlab}

\* Memory is used again: while no more than n slabs are in use at a time, the
\* arena never holds more than n slabs of the default size, however often its
\* scopes are opened and popped.  (Larger slabs have no such bound: the search
\* takes the first slab that fits, so a small request can take a large one.)
HoldsNoMoreThanPeak ==
  \A n \in 0 .. MaxLive :
    [](Len(active) <= n) => [](Cardinality(OrdinarySlabs) <= n)

Memory ==
  INSTANCE ScopedMemory WITH
    room <- cap,
    marks <- [k \in DOMAIN scopes |-> scopes[k].mark]

\* The arena keeps the promise of scoped memory: blocks in memory it owns that
\* stays theirs, and scopes that give back exactly what came after them.
KeepsPromise == Memory!Spec
=============================================================================
