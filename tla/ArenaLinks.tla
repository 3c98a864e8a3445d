----------------------------- MODULE ArenaLinks -----------------------------
(***************************************************************************)
(* The arena as base.c stores it: slabs linked by up and down pointers     *)
(* into the stack under arena->top_slab and the one under                  *)
(* arena->top_recycled_slab.  Every call cuts and joins these chains by    *)
(* hand, with assertions on the way.  The module shows that the calls do   *)
(* to the pointers what Arena says they do to the two sequences.           *)
(***************************************************************************)
EXTENDS Integers, Sequences, FiniteSets

CONSTANTS
  Slab, NULL, Base, DefaultSlab, NoRecycle,
  Asan, AsanPadding, AsanGranularity,
  Sizes, Aligns, MaxLive, MaxScopes

VARIABLES
  up, down,           \* the links of every slab
  top_slab,           \* arena->top_slab
  top_recycled_slab,  \* arena->top_recycled_slab
  current_offset, cap, aborted, live, scopes  \* as in Arena

links == <<up, down, top_slab, top_recycled_slab>>
vars == <<links, current_offset, cap, aborted, live, scopes>>

\* Following down from slab p: the n-th slab below it.  A chain that is longer
\* than there are slabs has a cycle.
Below(p) ==
  LET w[n \in 0 .. Cardinality(Slab)] ==
        IF n = 0 THEN p
        ELSE IF w[n - 1] = NULL THEN NULL ELSE down[w[n - 1]]
  IN w

\* The slabs from p down, bottom slab first.
Chain(p) ==
  LET w == Below(p)
      len == Cardinality({n \in DOMAIN w : w[n] # NULL})
  IN [i \in 1 .. len |-> w[len - i]]

Stack ==
  INSTANCE Arena WITH
    active <- Chain(top_slab),
    recycled <- Chain(top_recycled_slab)

\* The host has finitely many slabs; otherwise the constants are Arena's.
ASSUME ArenaLinksAssumption == Stack!ArenaAssumption /\ IsFiniteSet(Slab)

\* link with its field of slab s set to t; a write through NULL is not made.
Set(link, s, t) == IF s = NULL THEN link ELSE [link EXCEPT ![s] = t]

UpOf(s) == IF s = NULL THEN NULL ELSE up[s]

-----------------------------------------------------------------------------
Init ==
  /\ up = [s \in Slab |-> NULL]
  /\ down = [s \in Slab |-> NULL]
  /\ top_slab = NULL
  /\ top_recycled_slab = NULL
  /\ current_offset = 0
  /\ cap = [s \in Slab |-> 0]
  /\ aborted = FALSE
  /\ live = <<>>
  /\ scopes = <<>>

\* The assertions ak_arena_alloc starts with.
AllocAsserts ==
  /\ top_slab = NULL \/ top_slab # top_recycled_slab
  /\ top_slab = NULL \/ down[top_slab] # top_slab

AllocFromTop(size, align) ==
  /\ Stack!FitsTop(size, align)
  /\ Stack!Grant(top_slab, current_offset, size, align)
  /\ aborted' = ~AllocAsserts
  /\ UNCHANGED <<links, cap>>

\* Take s out of its chain (ak_slab_unlink), then put it on top of the stack.
UnlinkAsserts(s) ==
  /\ up[s] # s
  /\ up[s] # NULL => down[up[s]] = s
  /\ down[s] # NULL => up[down[s]] = s

UpAfterUnlink(s) == [Set(up, down[s], up[s]) EXCEPT ![s] = NULL]

ReuseSlab(s) ==
  /\ up' = Set(UpAfterUnlink(s), top_slab, s)
  /\ down' = [Set(down, up[s], down[s]) EXCEPT ![s] = top_slab]
  /\ top_slab' = s
  /\ top_recycled_slab' =
       IF top_recycled_slab = s THEN down[s] ELSE top_recycled_slab

AllocFromRecycled(size, align) ==
  LET kept == Chain(top_recycled_slab) IN
    /\ ~Stack!FitsTop(size, align)
    /\ ~NoRecycle
    /\ \E i \in DOMAIN kept :
         /\ Stack!FirstFit(i, size, align)
         /\ ReuseSlab(kept[i])
         /\ Stack!Grant(kept[i], 0, size, align)
         /\ aborted' = ~( /\ AllocAsserts
                          /\ top_recycled_slab = kept[i] => up[kept[i]] = NULL
                          /\ UnlinkAsserts(kept[i]) )
    /\ UNCHANGED cap

AllocFromHost(size, align) ==
  /\ ~Stack!FitsTop(size, align)
  /\ NoRecycle \/ Stack!NoneFits(size, align)
  /\ \E s \in Slab \ Stack!Held :
       /\ cap' = [cap EXCEPT ![s] = Stack!NewSlabSize(size, align)]
       /\ up' = Set([up EXCEPT ![s] = NULL], top_slab, s)
       /\ down' = [down EXCEPT ![s] = top_slab]
       /\ top_slab' = s
       /\ Stack!Grant(s, 0, size, align)
  /\ aborted' = ~AllocAsserts
  /\ UNCHANGED top_recycled_slab

Alloc(size, align) ==
  /\ ~aborted
  /\ Len(live) < MaxLive
  /\ \/ AllocFromTop(size, align)
     \/ AllocFromRecycled(size, align)
     \/ AllocFromHost(size, align)

-----------------------------------------------------------------------------
PushScope ==
  /\ ~aborted
  /\ Len(scopes) < MaxScopes
  /\ scopes' = Append(scopes, [slab |-> top_slab, offset |-> current_offset, mark |-> Len(live)])
  /\ UNCHANGED <<links, current_offset, cap, aborted, live>>

WithinSlab(sc) == top_slab = sc.slab /\ sc.offset > 0

PopWithinSlab(sc) ==
  /\ WithinSlab(sc)
  /\ current_offset' = sc.offset
  /\ UNCHANGED <<links, aborted>>

PopWithoutRecycling(sc) ==
  /\ ~WithinSlab(sc)
  /\ NoRecycle
  /\ aborted' = TRUE
  /\ UNCHANGED <<links, current_offset>>

\* Put the whole stack on top of the recycled chain (ak_arena_recycle_all).
RecycleStack ==
  LET bottom == Chain(top_slab)[1] IN
    IF top_slab = NULL
      THEN UNCHANGED <<links, aborted>>
      ELSE /\ down' = [down EXCEPT ![bottom] = top_recycled_slab]
           /\ up' = Set(up, top_recycled_slab, bottom)
           /\ top_recycled_slab' = top_slab
           /\ top_slab' = NULL
           /\ aborted' = (UpOf(top_recycled_slab) # NULL)

PopToEmpty(sc) ==
  /\ ~WithinSlab(sc)
  /\ ~NoRecycle
  /\ sc.slab = NULL
  /\ RecycleStack
  /\ current_offset' = 0

\* Mutant: the old top of the recycled chain does not point up.
CutUp(below, to_recycle) == Set(up, below, NULL)

\* Cut the up link below to_recycle, and join the recycled chain's.
CutAndJoinUp(below, to_recycle) ==
  Set(Set(up, below, NULL), top_recycled_slab, to_recycle)

\* Mutant: the old recycled chain is dropped.
DropDown(to_recycle) == [down EXCEPT ![to_recycle] = NULL]

JoinDown(to_recycle) == [down EXCEPT ![to_recycle] = top_recycled_slab]

\* Cut the stack above the scope's slab and put what was above it, as it is, on
\* top of the recycled chain.
PopAcrossSlabs(sc) ==
  /\ ~WithinSlab(sc)
  /\ ~NoRecycle
  /\ sc.slab # NULL
  /\ current_offset' = sc.offset
  /\ LET to_recycle == up[sc.slab] IN
       IF to_recycle = NULL
         THEN UNCHANGED <<links, aborted>>
         ELSE LET below == down[to_recycle] IN
                /\ top_slab' = below
                /\ up' = CutAndJoinUp(below, to_recycle)
                /\ down' = JoinDown(to_recycle)
                /\ top_recycled_slab' = top_slab
                /\ aborted' = ~( /\ below # NULL => up[below] = to_recycle
                                 /\ up[top_slab] = NULL
                                 /\ UpOf(top_recycled_slab) = NULL )

PopScope(k) ==
  LET sc == scopes[k] IN
    /\ ~aborted
    /\ \/ PopWithinSlab(sc)
       \/ PopWithoutRecycling(sc)
       \/ PopToEmpty(sc)
       \/ PopAcrossSlabs(sc)
    /\ live' = SubSeq(live, 1, sc.mark)
    /\ scopes' = SubSeq(scopes, 1, k - 1)
    /\ UNCHANGED cap

-----------------------------------------------------------------------------
FreeRecycled ==
  /\ ~aborted
  /\ IF NoRecycle
       THEN /\ aborted' = (top_recycled_slab # NULL)
            /\ UNCHANGED <<top_recycled_slab, cap>>
       ELSE /\ Stack!FreeSlabs(Chain(top_recycled_slab))
            /\ top_recycled_slab' = NULL
            /\ UNCHANGED aborted
  /\ UNCHANGED <<up, down, top_slab, current_offset, live, scopes>>

RecycleAll ==
  /\ ~aborted
  /\ scopes = <<>>
  /\ ~NoRecycle
  /\ RecycleStack
  /\ live' = <<>>
  /\ UNCHANGED <<current_offset, cap, scopes>>

FreeAll ==
  /\ ~aborted
  /\ IF NoRecycle
       THEN /\ Stack!FreeSlabs(Chain(top_slab))
            /\ aborted' = (top_recycled_slab # NULL)
            /\ UNCHANGED top_recycled_slab
       ELSE /\ Stack!FreeSlabs(Chain(top_slab) \o Chain(top_recycled_slab))
            /\ top_recycled_slab' = NULL
            /\ UNCHANGED aborted
  /\ top_slab' = NULL
  /\ current_offset' = 0
  /\ live' = <<>>
  /\ scopes' = <<>>
  /\ UNCHANGED <<up, down>>

Next ==
  \/ \E size \in Sizes, align \in Aligns : Alloc(size, align)
  \/ PushScope
  \/ \E k \in DOMAIN scopes : PopScope(k)
  \/ FreeRecycled
  \/ RecycleAll
  \/ FreeAll

Spec == Init /\ [][Next]_vars

-----------------------------------------------------------------------------
(* Properties.                                                             *)

\* No assertion on the links fails, in whatever order slabs were taken out of
\* the recycled chain and put back.
NoAssertionFails == ~aborted

\* Each slab of a chain points up at the slab that points down at it, and no
\* slab is above a top one: the chain that is cut is the chain that is walked.
LinksAgree ==
  \A top \in {top_slab, top_recycled_slab} :
    LET chain == Chain(top) IN
      /\ UpOf(top) = NULL
      /\ \A i \in 1 .. Len(chain) - 1 : up[chain[i]] = chain[i + 1]

\* The pointers carry out what Arena does to its two sequences of slabs.
ImplementsArena == Stack!Spec

\* Built with the address sanitizer, as every target of the Makefile is, the arena
\* keeps the padding between live blocks when scopes moved the offset back, and
\* when slabs were cut out of the chains; and a block that ends behind its slab is
\* the first one of it, and goes no further than the padding.
RedzonesHold == Stack!RedzonesBetweenBlocks /\ Stack!FirstBlocksOverrun

\* However slabs were taken out of the recycled chain and put back, the links of
\* both chains agree in both directions and no assertion on them fails
\* (base.c 785-827, 880-990).
LinksAreSound == NoAssertionFails /\ LinksAgree
=============================================================================
