---------------------------- MODULE ArenaProofs ----------------------------
(***************************************************************************)
(* Proofs about the arena, for every set of slabs, host, request and bound.*)
(***************************************************************************)
EXTENDS Arena, ChainLemmas

-----------------------------------------------------------------------------
(* The inductive invariant.                                                *)

\* No slab is twice in a chain, or in both.
ChainsDistinct ==
  /\ IsInjective(active)
  /\ IsInjective(recycled)
  /\ ToSet(active) \intersect ToSet(recycled) = {}

\* The chains hold what the host gave.
ChainsHold == ToSet(active) \union ToSet(recycled) = Held

\* The live blocks are in active slabs, and below the offset in the top one.
LiveInActive ==
  \A j \in DOMAIN live :
    \E i \in DOMAIN active :
      /\ active[i] = live[j].slab
      /\ i = Len(active) => EndOf(live[j]) <= current_offset

\* The slab of an open scope is active, and the blocks that were live when it
\* was opened are in slabs up to that one, in that one below its offset.
Covers(sc, chain, blocks) ==
  /\ sc.mark <= Len(blocks)
  /\ sc.slab = NULL => sc.mark = 0
  /\ sc.slab # NULL =>
       \E d \in DOMAIN chain :
         /\ chain[d] = sc.slab
         /\ \A j \in 1 .. sc.mark :
              \E i \in 1 .. d : /\ chain[i] = blocks[j].slab
                                /\ i = d => EndOf(blocks[j]) <= sc.offset

ScopeCovers(sc) == Covers(sc, active, live)

ScopesCover == \A k \in DOMAIN scopes : ScopeCovers(scopes[k])

\* A scope saw no more than the scopes nested in it.
ScopesNest ==
  \A k, l \in DOMAIN scopes : k < l =>
    /\ scopes[k].mark <= scopes[l].mark
    /\ scopes[l].slab = NULL => scopes[k].slab = NULL
    /\ \A c, d \in DOMAIN active :
         scopes[k].slab = active[c] /\ scopes[l].slab = active[d] => c <= d

\* A younger block of a slab starts past the older ones and the padding.
BlocksApart ==
  \A i, j \in DOMAIN live :
    i < j /\ live[i].slab = live[j].slab => EndOf(live[i]) + Padding <= live[j].start

\* Without the address sanitizer blocks end inside their slab.
BlocksFit ==
  ~Asan => \A j \in DOMAIN live : EndOf(live[j]) <= cap[live[j].slab]

IInv ==
  /\ TypeOK
  /\ ChainsDistinct
  /\ ChainsHold
  /\ LiveInActive
  /\ ScopesCover
  /\ ScopesNest
  /\ BlocksApart
  /\ BlocksFit
  /\ NothingRecycledWithoutRecycling

-----------------------------------------------------------------------------
(* Addresses.                                                              *)

LEMMA AlignUpBounds ==
  ASSUME NEW x \in Nat, NEW a \in Nat \ {0}
  PROVE  /\ AlignUp(x, a) \in Nat
         /\ x <= AlignUp(x, a)
         /\ AlignUp(x, a) < x + a
<1>1. (-x) % a \in 0 .. a - 1
  OBVIOUS
<1>. QED BY <1>1 DEF AlignUp

LEMMA StartInBounds ==
  ASSUME NEW s \in Slab, NEW offset \in Nat, NEW align \in Aligns
  PROVE  /\ StartIn(s, offset, align) \in Nat
         /\ offset + Padding <= StartIn(s, offset, align)
         /\ StartIn(s, offset, align) < offset + Padding + EffectiveAlign(align)
<1>1. EffectiveAlign(align) \in Nat \ {0} /\ Padding \in Nat /\ Base[s] \in Nat
  BY ArenaAssumption DEF EffectiveAlign, Padding
<1>. DEFINE x == Base[s] + offset + Padding
<1>2. x \in Nat
  BY <1>1
<1>3. /\ AlignUp(x, EffectiveAlign(align)) \in Nat
      /\ x <= AlignUp(x, EffectiveAlign(align))
      /\ AlignUp(x, EffectiveAlign(align)) < x + EffectiveAlign(align)
  BY <1>1, <1>2, AlignUpBounds
<1>. QED BY <1>1, <1>3 DEF StartIn

-----------------------------------------------------------------------------
(* Scopes keep covering what they saw when the stack grows.                *)

LEMMA ScopesSurviveGrowth ==
  ASSUME IInv, ChainsDistinct', scopes' = scopes,
         active' \in Seq(Slab), Len(active) <= Len(active'),
         \A i \in DOMAIN active : active'[i] = active[i],
         live' \in Seq(Block), Len(live) <= Len(live'),
         \A j \in DOMAIN live : live'[j] = live[j]
  PROVE  ScopesCover' /\ ScopesNest'
<1>. /\ active \in Seq(Slab) /\ live \in Seq(Block) /\ scopes \in Seq(Scope)
     /\ DOMAIN active \subseteq DOMAIN active'
     /\ DOMAIN live \subseteq DOMAIN live'
  BY DEF IInv, TypeOK
<1>1. ASSUME NEW k \in DOMAIN scopes PROVE ScopeCovers(scopes[k])'
  <2>. DEFINE sc == scopes[k]
  <2>. sc \in Scope /\ ScopeCovers(sc)
    BY DEF IInv, ScopesCover
  <2>. sc.mark \in Nat
    BY DEF Scope
  <2>1. sc.mark <= Len(live')
    BY DEF ScopeCovers, Covers
  <2>2. ASSUME sc.slab # NULL
        PROVE \E d \in DOMAIN active' :
                /\ active'[d] = sc.slab
                /\ \A j \in 1 .. sc.mark :
                     \E i \in 1 .. d : /\ active'[i] = live'[j].slab
                                       /\ i = d => EndOf(live'[j]) <= sc.offset
    <3>1. PICK d \in DOMAIN active :
                /\ active[d] = sc.slab
                /\ \A j \in 1 .. sc.mark :
                     \E i \in 1 .. d : /\ active[i] = live[j].slab
                                       /\ i = d => EndOf(live[j]) <= sc.offset
      BY <2>2 DEF ScopeCovers, Covers
    <3>2. ASSUME NEW j \in 1 .. sc.mark
          PROVE \E i \in 1 .. d : /\ active'[i] = live'[j].slab
                                  /\ i = d => EndOf(live'[j]) <= sc.offset
      <4>1. j \in DOMAIN live
        BY DEF ScopeCovers, Covers
      <4>2. PICK i \in 1 .. d : /\ active[i] = live[j].slab
                                /\ i = d => EndOf(live[j]) <= sc.offset
        BY <3>1
      <4>3. i \in DOMAIN active
        OBVIOUS
      <4>4. active'[i] = active[i] /\ live'[j] = live[j]
        BY <4>1, <4>3
      <4>. QED BY <4>2, <4>4
    <3>3. d \in DOMAIN active' /\ active'[d] = sc.slab
      BY <3>1
    <3>. HIDE DEF sc
    <3>. QED BY <3>2, <3>3
  <2>3. sc.slab = NULL => sc.mark = 0
    BY DEF ScopeCovers, Covers
  <2>4. Covers(sc, active', live')
    BY <2>1, <2>2, <2>3 DEF Covers
  <2>. QED BY <2>4 DEF ScopeCovers
<1>2. ScopesNest'
  <2>. SUFFICES ASSUME NEW k \in DOMAIN scopes, NEW l \in DOMAIN scopes, k < l
                PROVE /\ scopes[k].mark <= scopes[l].mark
                      /\ scopes[l].slab = NULL => scopes[k].slab = NULL
                      /\ \A c, d \in DOMAIN active' :
                           scopes[k].slab = active'[c] /\ scopes[l].slab = active'[d]
                             => c <= d
    BY DEF ScopesNest
  <2>1. ASSUME NEW c \in DOMAIN active', NEW d \in DOMAIN active',
               scopes[k].slab = active'[c], scopes[l].slab = active'[d]
        PROVE c <= d
    <3>1. scopes[k].slab # NULL /\ scopes[l].slab # NULL
      BY <2>1, ArenaAssumption
    <3>2. PICK a \in DOMAIN active : active[a] = scopes[k].slab
      BY <3>1 DEF IInv, ScopesCover, ScopeCovers, Covers
    <3>3. PICK b \in DOMAIN active : active[b] = scopes[l].slab
      BY <3>1 DEF IInv, ScopesCover, ScopeCovers, Covers
    <3>4. a = c /\ b = d
      BY <2>1, <3>2, <3>3 DEF ChainsDistinct, IsInjective
    <3>. QED BY <3>2, <3>3, <3>4 DEF IInv, ScopesNest
  <2>. QED BY <2>1 DEF IInv, ScopesNest
<1>. QED BY <1>1, <1>2 DEF ScopesCover

-----------------------------------------------------------------------------
(* Allocation.                                                             *)

LEMMA BlockBounds ==
  \A b \in Block : b.start \in Nat /\ EndOf(b) \in Nat /\ b.start <= EndOf(b)
BY DEF Block, EndOf

LEMMA PaddingType == Padding \in Nat
BY ArenaAssumption DEF Padding

\* Where a granted block lies, and that the older ones stay as they are.
LEMMA GrantTypes ==
  ASSUME IInv, NEW s \in Slab, NEW offset \in Nat,
         NEW size \in Sizes, NEW align \in Aligns,
         Grant(s, offset, size, align)
  PROVE  /\ live' \in Seq(Block)
         /\ Len(live') = Len(live) + 1
         /\ \A j \in DOMAIN live : live'[j] = live[j]
         /\ live'[Len(live')] \in Block
         /\ live'[Len(live')].slab = s
         /\ offset + Padding <= live'[Len(live')].start
         /\ EndOf(live'[Len(live')]) = StartIn(s, offset, align) + size
         /\ current_offset' = EndOf(live'[Len(live')])
         /\ current_offset' \in Nat
         /\ scopes' = scopes
         /\ scopes' \in Seq(Scope)
<1>. DEFINE start == StartIn(s, offset, align)
            b == [slab |-> s, start |-> start, size |-> size]
<1>1. size \in Nat /\ start \in Nat /\ offset + Padding <= start
  BY StartInBounds, ArenaAssumption
<1>2. b \in Block
  BY <1>1 DEF Block
<1>3. live' = Append(live, b) /\ current_offset' = start + size /\ scopes' = scopes
  BY DEF Grant
<1>4. live \in Seq(Block) /\ scopes \in Seq(Scope)
  BY DEF IInv, TypeOK
<1>5. b.slab = s /\ b.start = start /\ EndOf(b) = start + size
  BY DEF EndOf
<1>6. StartIn(s, offset, align) = start
  OBVIOUS
<1>. HIDE DEF start, b
<1>7. /\ live' \in Seq(Block)
      /\ Len(live') = Len(live) + 1
      /\ \A j \in DOMAIN live : live'[j] = live[j]
      /\ live'[Len(live')] = b
  BY <1>2, <1>3, <1>4
<1>. QED BY <1>1, <1>2, <1>3, <1>4, <1>5, <1>6, <1>7

\* A block granted past every live block of its slab is apart from them all.
LEMMA GrantKeepsApart ==
  ASSUME live \in Seq(Block), live' \in Seq(Block), BlocksApart,
         Len(live') = Len(live) + 1,
         \A j \in DOMAIN live : live'[j] = live[j],
         NEW offset \in Nat, offset + Padding <= live'[Len(live')].start,
         \A j \in DOMAIN live :
           live[j].slab = live'[Len(live')].slab => EndOf(live[j]) <= offset
  PROVE  BlocksApart'
<1>. SUFFICES ASSUME NEW i \in DOMAIN live', NEW j \in DOMAIN live',
                     i < j, live'[i].slab = live'[j].slab
              PROVE  EndOf(live'[i]) + Padding <= live'[j].start
  BY DEF BlocksApart, Padding
<1>1. i \in DOMAIN live
  OBVIOUS
<1>2. CASE j \in DOMAIN live
  BY <1>1, <1>2 DEF BlocksApart
<1>3. CASE j = Len(live')
  <2>1. EndOf(live[i]) <= offset
    BY <1>1, <1>3
  <2>2. EndOf(live[i]) \in Nat /\ live'[j].start \in Nat /\ Padding \in Nat
    BY <1>1, BlockBounds, PaddingType
  <2>. QED BY <1>1, <1>3, <2>1, <2>2
<1>. QED BY <1>2, <1>3

\* A block that fits leaves every block fitting, when no slab got smaller.
LEMMA GrantKeepsFit ==
  ASSUME live \in Seq(Block), live' \in Seq(Block), BlocksFit,
         Len(live') = Len(live) + 1,
         \A j \in DOMAIN live : live'[j] = live[j],
         \A j \in DOMAIN live : cap'[live[j].slab] = cap[live[j].slab],
         ~Asan => EndOf(live'[Len(live')]) <= cap'[live'[Len(live')].slab]
  PROVE  BlocksFit'
<1>. SUFFICES ASSUME ~Asan, NEW j \in DOMAIN live'
              PROVE  EndOf(live'[j]) <= cap'[live'[j].slab]
  BY DEF BlocksFit
<1>1. CASE j \in DOMAIN live
  BY <1>1 DEF BlocksFit
<1>2. CASE j = Len(live')
  BY <1>2
<1>. QED BY <1>1, <1>2

LEMMA AllocFromTopKeepsIInv ==
  ASSUME IInv, NEW size \in Sizes, NEW align \in Aligns, AllocFromTop(size, align)
  PROVE  IInv'
<1>1. /\ Top = active[Len(active)] /\ Len(active) \in DOMAIN active
      /\ Top \in Slab /\ current_offset \in Nat
      /\ Grant(Top, current_offset, size, align)
      /\ FitsIn(Top, current_offset, size, align)
      /\ UNCHANGED <<active, recycled, cap, aborted>>
      /\ live \in Seq(Block)
  BY DEF AllocFromTop, FitsTop, Top, Last, IInv, TypeOK
<1>2. /\ live' \in Seq(Block)
      /\ Len(live') = Len(live) + 1
      /\ \A j \in DOMAIN live : live'[j] = live[j]
      /\ live'[Len(live')] \in Block
      /\ live'[Len(live')].slab = Top
      /\ current_offset + Padding <= live'[Len(live')].start
      /\ EndOf(live'[Len(live')]) = StartIn(Top, current_offset, align) + size
      /\ current_offset' = EndOf(live'[Len(live')])
      /\ current_offset' \in Nat
      /\ scopes' = scopes
      /\ scopes' \in Seq(Scope)
  BY <1>1, GrantTypes
<1>3. DOMAIN live' = DOMAIN live \union {Len(live')} /\ Len(live') \notin DOMAIN live
  BY <1>1, <1>2
<1>4. \A j \in DOMAIN live : live[j].slab = Top => EndOf(live[j]) <= current_offset
  BY <1>1 DEF IInv, LiveInActive, ChainsDistinct, IsInjective
<1>5. TypeOK'
  BY <1>1, <1>2 DEF IInv, TypeOK
<1>6. ChainsDistinct' /\ ChainsHold' /\ NothingRecycledWithoutRecycling'
  BY <1>1 DEF IInv, ChainsDistinct, ChainsHold, Held, NothingRecycledWithoutRecycling
<1>7. LiveInActive'
  <2>1. ASSUME NEW j \in DOMAIN live
        PROVE \E i \in DOMAIN active' :
                /\ active'[i] = live'[j].slab
                /\ i = Len(active') => EndOf(live'[j]) <= current_offset'
    <3>1. PICK i \in DOMAIN active :
            /\ active[i] = live[j].slab
            /\ i = Len(active) => EndOf(live[j]) <= current_offset
      BY DEF IInv, LiveInActive
    <3>2. live[j] \in Block /\ EndOf(live[j]) \in Nat
      BY <1>1, BlockBounds
    <3>3. current_offset <= current_offset'
      <4>1. live'[Len(live')].start \in Nat
            /\ live'[Len(live')].start <= EndOf(live'[Len(live')])
        BY <1>2, BlockBounds
      <4>. QED BY <1>1, <1>2, <4>1, PaddingType
    <3>4. active'[i] = active[i] /\ Len(active') = Len(active) /\ live'[j] = live[j]
      BY <1>1, <1>2
    <3>. QED BY <1>1, <1>2, <3>1, <3>2, <3>3, <3>4
  <2>2. \E i \in DOMAIN active' :
          /\ active'[i] = live'[Len(live')].slab
          /\ i = Len(active') => EndOf(live'[Len(live')]) <= current_offset'
    BY <1>1, <1>2
  <2>. QED BY <1>3, <2>1, <2>2 DEF LiveInActive
<1>8. ScopesCover' /\ ScopesNest'
  BY <1>1, <1>2, <1>6, ScopesSurviveGrowth DEF IInv, TypeOK
<1>9. BlocksApart'
  BY <1>1, <1>2, <1>4, GrantKeepsApart DEF IInv
<1>10. BlocksFit'
  BY <1>1, <1>2, GrantKeepsFit DEF IInv, FitsIn
<1>. QED BY <1>5, <1>6, <1>7, <1>8, <1>9, <1>10 DEF IInv

\* A slab that is not in the stack goes on top of it, and the block lies in it.
LEMMA GrantOnNewTop ==
  ASSUME IInv, NEW size \in Sizes, NEW align \in Aligns, NEW s \in Slab,
         s \notin ToSet(active),
         active' = Append(active, s), ChainsDistinct',
         \A r \in Slab \ {s} : cap'[r] = cap[r],
         ~Asan => StartIn(s, 0, align) + size <= cap'[s],
         Grant(s, 0, size, align)
  PROVE  /\ active' \in Seq(Slab) /\ current_offset' \in Nat
         /\ live' \in Seq(Block) /\ scopes' \in Seq(Scope)
         /\ LiveInActive' /\ ScopesCover' /\ ScopesNest' /\ BlocksApart' /\ BlocksFit'
<1>1. active \in Seq(Slab) /\ live \in Seq(Block)
  BY DEF IInv, TypeOK
<1>2. /\ active' \in Seq(Slab) /\ Len(active') = Len(active) + 1
      /\ active'[Len(active')] = s
      /\ \A i \in DOMAIN active : active'[i] = active[i]
  BY <1>1
<1>3. /\ live' \in Seq(Block)
      /\ Len(live') = Len(live) + 1
      /\ \A j \in DOMAIN live : live'[j] = live[j]
      /\ live'[Len(live')] \in Block
      /\ live'[Len(live')].slab = s
      /\ 0 + Padding <= live'[Len(live')].start
      /\ EndOf(live'[Len(live')]) = StartIn(s, 0, align) + size
      /\ current_offset' = EndOf(live'[Len(live')])
      /\ current_offset' \in Nat
      /\ scopes' = scopes
      /\ scopes' \in Seq(Scope)
  BY GrantTypes
<1>4. \A j \in DOMAIN live : live[j].slab \in Slab \ {s}
  <2>1. \A i \in DOMAIN active : active[i] # s
    BY DEF ToSet
  <2>. QED BY <1>1, <2>1 DEF IInv, LiveInActive, Block
<1>5. LiveInActive'
  <2>1. ASSUME NEW j \in DOMAIN live
        PROVE \E i \in DOMAIN active' :
                /\ active'[i] = live'[j].slab
                /\ i = Len(active') => EndOf(live'[j]) <= current_offset'
    <3>1. PICK i \in DOMAIN active : active[i] = live[j].slab
      BY DEF IInv, LiveInActive
    <3>2. i \in DOMAIN active' /\ i # Len(active')
      BY <1>1, <1>2
    <3>. QED BY <1>2, <1>3, <3>1, <3>2
  <2>2. \E i \in DOMAIN active' :
          /\ active'[i] = live'[Len(live')].slab
          /\ i = Len(active') => EndOf(live'[Len(live')]) <= current_offset'
    <3>1. Len(active') \in DOMAIN active'
      BY <1>1, <1>2
    <3>. QED BY <1>2, <1>3, <3>1
  <2>3. DOMAIN live' = DOMAIN live \union {Len(live')}
    BY <1>1, <1>3
  <2>. QED BY <2>1, <2>2, <2>3 DEF LiveInActive
<1>6. ScopesCover' /\ ScopesNest'
  BY <1>1, <1>2, <1>3, ScopesSurviveGrowth
<1>7. BlocksApart'
  BY <1>1, <1>3, <1>4, GrantKeepsApart DEF IInv
<1>8. BlocksFit'
  BY <1>1, <1>3, <1>4, GrantKeepsFit DEF IInv
<1>. QED BY <1>2, <1>3, <1>5, <1>6, <1>7, <1>8

LEMMA AllocFromRecycledKeepsIInv ==
  ASSUME IInv, NEW size \in Sizes, NEW align \in Aligns, AllocFromRecycled(size, align)
  PROVE  IInv'
<1>1. active \in Seq(Slab) /\ recycled \in Seq(Slab) /\ cap \in [Slab -> Nat]
  BY DEF IInv, TypeOK
<1>2. PICK i \in DOMAIN recycled :
        /\ FirstFit(i, size, align)
        /\ active' = Append(active, recycled[i])
        /\ recycled' = RemoveAt(recycled, i)
        /\ Grant(recycled[i], 0, size, align)
  BY DEF AllocFromRecycled
<1>3. cap' = cap /\ aborted' = aborted /\ ~NoRecycle
  BY DEF AllocFromRecycled
<1>. DEFINE s == recycled[i]
<1>4. s \in Slab /\ s \in ToSet(recycled) /\ s \notin ToSet(active)
  <2>1. s \in Slab
    BY <1>1
  <2>2. s \in ToSet(recycled)
    BY DEF ToSet
  <2>. QED BY <2>1, <2>2 DEF IInv, ChainsDistinct
<1>5. /\ recycled' \in Seq(Slab)
      /\ ToSet(recycled') = ToSet(recycled) \ {s}
      /\ IsInjective(recycled')
  BY <1>1, <1>2, RemoveAtElements DEF IInv, ChainsDistinct
<1>. HIDE DEF s
<1>6. ToSet(active') = ToSet(active) \union {s} /\ IsInjective(active')
  BY <1>1, <1>2, <1>4, AppendElements, AppendKeepsInjective DEF s, IInv, ChainsDistinct
<1>7. ChainsDistinct'
  BY <1>4, <1>5, <1>6 DEF IInv, ChainsDistinct
<1>8. ChainsHold'
  BY <1>3, <1>4, <1>5, <1>6 DEF IInv, ChainsHold, Held
<1>9. /\ active' \in Seq(Slab) /\ current_offset' \in Nat
      /\ live' \in Seq(Block) /\ scopes' \in Seq(Scope)
      /\ LiveInActive' /\ ScopesCover' /\ ScopesNest' /\ BlocksApart' /\ BlocksFit'
  <2>1. StartIn(s, 0, align) + size <= cap'[s]
    BY <1>2, <1>3 DEF s, FirstFit, FitsIn
  <2>2. active' = Append(active, s) /\ Grant(s, 0, size, align)
    BY <1>2 DEF s
  <2>. QED BY <1>3, <1>4, <1>7, <2>1, <2>2, GrantOnNewTop
<1>10. TypeOK'
  BY <1>3, <1>5, <1>9 DEF IInv, TypeOK
<1>. QED BY <1>3, <1>7, <1>8, <1>9, <1>10 DEF IInv, NothingRecycledWithoutRecycling

LEMMA NewSlabSizeBounds ==
  ASSUME NEW size \in Sizes, NEW align \in Aligns
  PROVE  /\ NewSlabSize(size, align) \in Nat /\ NewSlabSize(size, align) > 0
         /\ size + EffectiveAlign(align) <= NewSlabSize(size, align)
<1>1. EffectiveAlign(align) \in Nat \ {0} /\ size \in Nat /\ DefaultSlab \in Nat
  BY ArenaAssumption DEF EffectiveAlign
<1>. QED BY <1>1 DEF NewSlabSize

LEMMA AllocFromHostKeepsIInv ==
  ASSUME IInv, NEW size \in Sizes, NEW align \in Aligns, AllocFromHost(size, align)
  PROVE  IInv'
<1>1. active \in Seq(Slab) /\ recycled \in Seq(Slab) /\ cap \in [Slab -> Nat]
  BY DEF IInv, TypeOK
<1>2. PICK s \in Slab \ Held :
        /\ cap' = [cap EXCEPT ![s] = NewSlabSize(size, align)]
        /\ active' = Append(active, s)
        /\ Grant(s, 0, size, align)
  BY DEF AllocFromHost
<1>3. recycled' = recycled /\ aborted' = aborted
  BY DEF AllocFromHost
<1>4. s \in Slab /\ s \notin ToSet(active) /\ s \notin ToSet(recycled)
  BY <1>2 DEF IInv, ChainsHold
<1>5. /\ cap' \in [Slab -> Nat] /\ cap'[s] = NewSlabSize(size, align) /\ cap'[s] > 0
      /\ \A r \in Slab \ {s} : cap'[r] = cap[r]
  BY <1>1, <1>2, NewSlabSizeBounds
<1>6. ToSet(active') = ToSet(active) \union {s} /\ IsInjective(active')
  BY <1>1, <1>2, <1>4, AppendElements, AppendKeepsInjective DEF IInv, ChainsDistinct
<1>7. ChainsDistinct'
  BY <1>3, <1>4, <1>6 DEF IInv, ChainsDistinct
<1>8. ChainsHold'
  <2>1. Held' = Held \union {s}
    BY <1>2, <1>5 DEF Held
  <2>. QED BY <1>3, <1>6, <2>1 DEF IInv, ChainsHold
<1>9. /\ active' \in Seq(Slab) /\ current_offset' \in Nat
      /\ live' \in Seq(Block) /\ scopes' \in Seq(Scope)
      /\ LiveInActive' /\ ScopesCover' /\ ScopesNest' /\ BlocksApart' /\ BlocksFit'
  <2>1. ASSUME ~Asan PROVE StartIn(s, 0, align) + size <= cap'[s]
    <3>1. Padding = 0 /\ EffectiveAlign(align) \in Nat /\ size \in Nat
      BY <2>1, ArenaAssumption DEF Padding, EffectiveAlign
    <3>2. StartIn(s, 0, align) \in Nat /\ StartIn(s, 0, align) < 0 + Padding + EffectiveAlign(align)
      BY <1>4, StartInBounds
    <3>. QED BY <1>5, <3>1, <3>2, NewSlabSizeBounds
  <2>. QED BY <1>2, <1>4, <1>5, <1>7, <2>1, GrantOnNewTop
<1>10. TypeOK'
  BY <1>1, <1>3, <1>5, <1>9 DEF IInv, TypeOK
<1>. QED BY <1>3, <1>7, <1>8, <1>9, <1>10 DEF IInv, NothingRecycledWithoutRecycling

-----------------------------------------------------------------------------
(* Scopes.                                                                 *)

LEMMA PushScopeKeepsIInv == IInv /\ PushScope => IInv'
<1>. SUFFICES ASSUME IInv, PushScope PROVE IInv'
  OBVIOUS
<1>. DEFINE sc == [slab |-> Top, offset |-> current_offset, mark |-> Len(live)]
<1>1. /\ active \in Seq(Slab) /\ live \in Seq(Block) /\ scopes \in Seq(Scope)
      /\ current_offset \in Nat
  BY DEF IInv, TypeOK
<1>2. scopes' = Append(scopes, sc) /\ UNCHANGED <<arenaVars, live>>
  BY DEF PushScope
<1>3. Top \in Slab \union {NULL} /\ (Top = NULL => active = <<>>)
      /\ (active # <<>> => Top = active[Len(active)] /\ Len(active) \in DOMAIN active)
  BY <1>1, ArenaAssumption DEF Top, Last
<1>4. sc \in Scope
  BY <1>1, <1>3 DEF Scope
<1>5. /\ scopes' \in Seq(Scope) /\ Len(scopes') = Len(scopes) + 1
      /\ scopes'[Len(scopes')] = sc
      /\ \A k \in DOMAIN scopes : scopes'[k] = scopes[k]
      /\ DOMAIN scopes' = DOMAIN scopes \union {Len(scopes')}
  <2>. HIDE DEF sc
  <2>. QED BY <1>1, <1>2, <1>4
<1>6. ScopeCovers(sc)
  <2>1. ASSUME active = <<>> PROVE Len(live) = 0
    <3>1. DOMAIN active = {}
      BY <2>1
    <3>2. DOMAIN live = {}
      BY <3>1 DEF IInv, LiveInActive
    <3>. QED BY <1>1, <3>2
  <2>2. ASSUME active # <<>>, NEW j \in 1 .. Len(live)
        PROVE  \E i \in 1 .. Len(active) :
                 /\ active[i] = live[j].slab
                 /\ i = Len(active) => EndOf(live[j]) <= current_offset
    <3>1. j \in DOMAIN live
      BY <1>1
    <3>2. PICK i \in DOMAIN active :
            /\ active[i] = live[j].slab
            /\ i = Len(active) => EndOf(live[j]) <= current_offset
      BY <3>1 DEF IInv, LiveInActive
    <3>3. i \in 1 .. Len(active)
      BY <1>1
    <3>. QED BY <3>2, <3>3
  <2>3. CASE active = <<>>
    <3>1. Top = NULL
      BY <2>3 DEF Top
    <3>. QED BY <1>1, <2>1, <2>3, <3>1 DEF ScopeCovers, Covers
  <2>4. CASE active # <<>>
    <3>1. Top # NULL /\ Len(live) <= Len(live)
      BY <1>1, <1>3, <2>4
    <3>. QED BY <1>3, <2>2, <2>4, <3>1 DEF ScopeCovers, Covers
  <2>. QED BY <2>3, <2>4
<1>7. ScopesCover'
  <2>1. ASSUME NEW k \in DOMAIN scopes' PROVE ScopeCovers(scopes'[k])
    <3>. HIDE DEF sc
    <3>. QED BY <1>5, <1>6 DEF IInv, ScopesCover
  <2>2. \A x : ScopeCovers(x)' <=> ScopeCovers(x')
    BY <1>2 DEF ScopeCovers, Covers, arenaVars
  <2>. QED BY <1>2, <2>1 DEF ScopesCover, ScopeCovers, Covers, arenaVars
<1>8. ScopesNest'
  <2>. SUFFICES ASSUME NEW k \in DOMAIN scopes', NEW l \in DOMAIN scopes', k < l
                PROVE /\ scopes'[k].mark <= scopes'[l].mark
                      /\ scopes'[l].slab = NULL => scopes'[k].slab = NULL
                      /\ \A c, d \in DOMAIN active :
                           scopes'[k].slab = active[c] /\ scopes'[l].slab = active[d]
                             => c <= d
    BY <1>2 DEF ScopesNest, arenaVars
  <2>1. k \in DOMAIN scopes
    BY <1>1, <1>5
  <2>2. CASE l \in DOMAIN scopes
    BY <1>5, <2>1, <2>2 DEF IInv, ScopesNest
  <2>3. CASE l = Len(scopes')
    <3>1. scopes'[l].slab = Top /\ scopes'[l].mark = Len(live) /\ scopes'[k] = scopes[k]
      BY <1>5, <2>1, <2>3
    <3>2. ScopeCovers(scopes[k])
      BY <2>1 DEF IInv, ScopesCover
    <3>3. ASSUME Top = NULL PROVE scopes[k].slab = NULL
      BY <1>1, <1>3, <3>2, <3>3 DEF ScopeCovers, Covers
    <3>4. ASSUME NEW c \in DOMAIN active, NEW d \in DOMAIN active, Top = active[d]
          PROVE  c <= d
      <4>1. d = Len(active)
        BY <1>1, <1>3, <3>4 DEF IInv, ChainsDistinct, IsInjective
      <4>. QED BY <1>1, <4>1
    <3>. QED BY <3>1, <3>2, <3>3, <3>4 DEF ScopeCovers, Covers
  <2>. QED BY <1>5, <2>2, <2>3
<1>9. TypeOK'
  BY <1>2, <1>5 DEF IInv, TypeOK, arenaVars
<1>. QED BY <1>2, <1>7, <1>8, <1>9
     DEF IInv, arenaVars, ChainsDistinct, ChainsHold, Held, LiveInActive, BlocksApart,
         BlocksFit, NothingRecycledWithoutRecycling

\* q is the first n elements of p.
IsFirst(q, n, p) == Len(q) = n /\ n <= Len(p) /\ \A i \in 1 .. n : q[i] = p[i]

LEMMA FirstOfSubSeq ==
  ASSUME NEW S, NEW p \in Seq(S), NEW n \in 0 .. Len(p)
  PROVE  SubSeq(p, 1, n) \in Seq(S) /\ IsFirst(SubSeq(p, 1, n), n, p)
BY DEF IsFirst

LEMMA ScopeTypes ==
  ASSUME IInv, NEW k \in DOMAIN scopes
  PROVE  /\ scopes[k] \in Scope /\ ScopeCovers(scopes[k])
         /\ scopes[k].mark \in 0 .. Len(live)
         /\ scopes[k].offset \in Nat
         /\ k - 1 \in 0 .. Len(scopes)
<1>1. scopes \in Seq(Scope) /\ scopes[k] \in Scope /\ ScopeCovers(scopes[k])
  BY DEF IInv, TypeOK, ScopesCover
<1>. QED BY <1>1 DEF Scope, ScopeCovers, Covers

\* Rolling the stack back to a prefix that has the scope's slab keeps what is
\* said of the scopes and blocks that stay.
LEMMA PrefixKeepsScopes ==
  ASSUME IInv, NEW k \in DOMAIN scopes, NEW d \in 0 .. Len(active),
         \/ scopes[k].slab = NULL
         \/ \E c \in 1 .. d : active[c] = scopes[k].slab,
         active' \in Seq(Slab), IsFirst(active', d, active),
         live' \in Seq(Block), IsFirst(live', scopes[k].mark, live),
         scopes' \in Seq(Scope), IsFirst(scopes', k - 1, scopes),
         cap' = cap
  PROVE  ScopesCover' /\ ScopesNest' /\ BlocksApart' /\ BlocksFit'
<1>1. /\ active \in Seq(Slab) /\ live \in Seq(Block) /\ scopes \in Seq(Scope)
      /\ scopes[k] \in Scope
  BY DEF IInv, TypeOK
<1>. DEFINE m == scopes[k].mark
<1>2. m \in Nat /\ m <= Len(live) /\ (scopes[k].slab = NULL => m = 0)
  BY ScopeTypes DEF ScopeCovers, Covers
<1>3. Len(active') = d /\ \A i \in 1 .. d : active'[i] = active[i]
  BY DEF IsFirst
<1>4. Len(live') = m /\ \A j \in 1 .. m : live'[j] = live[j]
  BY DEF IsFirst
<1>5. Len(scopes') = k - 1 /\ \A l \in 1 .. k - 1 : scopes'[l] = scopes[l]
  BY DEF IsFirst
<1>6. ASSUME NEW l \in 1 .. k - 1 PROVE ScopeCovers(scopes[l])'
  <2>1. /\ ScopeCovers(scopes[l]) /\ l \in DOMAIN scopes /\ l < k
        /\ scopes[l].mark \in Nat
    <3>1. l \in DOMAIN scopes /\ l < k
      BY <1>1
    <3>. QED BY <3>1, ScopeTypes
  <2>2. scopes[l].mark <= m
    BY <2>1 DEF IInv, ScopesNest
  <2>3. ASSUME scopes[l].slab # NULL
        PROVE \E c \in DOMAIN active' :
                /\ active'[c] = scopes[l].slab
                /\ \A j \in 1 .. scopes[l].mark :
                     \E i \in 1 .. c : /\ active'[i] = live'[j].slab
                                       /\ i = c => EndOf(live'[j]) <= scopes[l].offset
    <3>1. PICK c \in DOMAIN active :
                /\ active[c] = scopes[l].slab
                /\ \A j \in 1 .. scopes[l].mark :
                     \E i \in 1 .. c : /\ active[i] = live[j].slab
                                       /\ i = c => EndOf(live[j]) <= scopes[l].offset
      BY <2>1, <2>3 DEF ScopeCovers, Covers
    <3>2. scopes[k].slab # NULL
      BY <2>1, <2>3 DEF IInv, ScopesNest
    <3>3. PICK b \in 1 .. d : active[b] = scopes[k].slab
      BY <3>2
    <3>4. c <= b
      BY <1>1, <2>1, <3>1, <3>3 DEF IInv, ScopesNest
    <3>5. c \in DOMAIN active' /\ active'[c] = scopes[l].slab /\ 1 .. c \subseteq 1 .. d
      BY <1>1, <1>3, <3>1, <3>3, <3>4
    <3>6. ASSUME NEW j \in 1 .. scopes[l].mark
          PROVE \E i \in 1 .. c : /\ active'[i] = live'[j].slab
                                  /\ i = c => EndOf(live'[j]) <= scopes[l].offset
      <4>1. live'[j] = live[j]
        <5>. HIDE DEF m
        <5>. QED BY <1>2, <1>4, <2>1, <2>2
      <4>. QED BY <1>3, <3>1, <3>5, <4>1
    <3>. QED BY <3>5, <3>6
  <2>4. scopes[l].mark <= Len(live')
    BY <1>2, <1>4, <2>1, <2>2
  <2>5. scopes[l].slab = NULL => scopes[l].mark = 0
    BY <2>1 DEF ScopeCovers, Covers
  <2>6. Covers(scopes[l], active', live')
    BY <2>3, <2>4, <2>5 DEF Covers
  <2>. QED BY <1>5, <2>6 DEF ScopeCovers
<1>7. ScopesCover'
  <2>1. DOMAIN scopes' = 1 .. k - 1
    BY <1>5
  <2>. QED BY <1>5, <1>6, <2>1 DEF ScopesCover, ScopeCovers, Covers
<1>8. ScopesNest'
  <2>1. DOMAIN scopes' \subseteq DOMAIN scopes /\ DOMAIN scopes' = 1 .. k - 1
    BY <1>1, <1>5
  <2>2. DOMAIN active' \subseteq DOMAIN active /\ DOMAIN active' = 1 .. d
    BY <1>1, <1>3
  <2>. QED BY <1>3, <1>5, <2>1, <2>2 DEF IInv, ScopesNest
<1>9. DOMAIN live' = 1 .. m /\ DOMAIN live' \subseteq DOMAIN live
  BY <1>1, <1>2, <1>4
<1>10. BlocksApart' /\ BlocksFit'
  <2>. HIDE DEF m
  <2>. QED BY <1>4, <1>9 DEF IInv, BlocksApart, BlocksFit, Padding
<1>. QED BY <1>7, <1>8, <1>10

\* The slabs the scope did not see go to the recycled chain, as they are.
LEMMA CutKeepsChains ==
  ASSUME IInv, NEW d \in 0 .. Len(active),
         active' = SubSeq(active, 1, d),
         recycled' = recycled \o SubSeq(active, d + 1, Len(active)),
         cap' = cap
  PROVE  /\ recycled' \in Seq(Slab)
         /\ ChainsDistinct' /\ ChainsHold'
<1>. DEFINE a == SubSeq(active, 1, d)
            b == SubSeq(active, d + 1, Len(active))
<1>1. active \in Seq(Slab) /\ recycled \in Seq(Slab) /\ IsInjective(active)
      /\ IsInjective(recycled) /\ ToSet(active) \intersect ToSet(recycled) = {}
  BY DEF IInv, TypeOK, ChainsDistinct
<1>2. /\ a \in Seq(Slab) /\ b \in Seq(Slab)
      /\ ToSet(a) \union ToSet(b) = ToSet(active)
      /\ IsInjective(a) /\ IsInjective(b) /\ ToSet(a) \intersect ToSet(b) = {}
  BY <1>1, SplitElements, SplitInjective
<1>. HIDE DEF a, b
<1>3. /\ recycled \o b \in Seq(Slab)
      /\ ToSet(recycled \o b) = ToSet(recycled) \union ToSet(b)
      /\ IsInjective(recycled \o b)
  <2>1. ToSet(recycled) \intersect ToSet(b) = {}
    BY <1>1, <1>2
  <2>. QED BY <1>1, <1>2, <2>1, ConcatElements, ConcatInjective, ConcatIndices
<1>4. active' = a /\ recycled' = recycled \o b
  BY DEF a, b
<1>5. ChainsDistinct'
  BY <1>1, <1>2, <1>3, <1>4 DEF ChainsDistinct
<1>6. ChainsHold'
  BY <1>2, <1>3, <1>4 DEF IInv, ChainsHold, Held
<1>. QED BY <1>3, <1>4, <1>5, <1>6

\* The blocks under the scope are below the offset it goes back to.
LEMMA ScopeKeepsLive ==
  ASSUME IInv, NEW k \in DOMAIN scopes, NEW d \in DOMAIN active,
         active[d] = scopes[k].slab,
         active' \in Seq(Slab), IsFirst(active', d, active),
         live' \in Seq(Block), IsFirst(live', scopes[k].mark, live),
         current_offset' = scopes[k].offset
  PROVE  LiveInActive'
<1>1. /\ active \in Seq(Slab) /\ IsInjective(active)
      /\ scopes[k].slab # NULL /\ ScopeCovers(scopes[k])
  <2>1. active \in Seq(Slab)
    BY DEF IInv, TypeOK
  <2>2. active[d] \in Slab
    BY <2>1
  <2>. QED BY <2>1, <2>2, ScopeTypes, ArenaAssumption DEF IInv, ChainsDistinct
<1>2. \A j \in 1 .. scopes[k].mark :
        \E i \in 1 .. d : /\ active[i] = live[j].slab
                          /\ i = d => EndOf(live[j]) <= scopes[k].offset
  <2>1. PICK c \in DOMAIN active :
          /\ active[c] = scopes[k].slab
          /\ \A j \in 1 .. scopes[k].mark :
               \E i \in 1 .. c : /\ active[i] = live[j].slab
                                 /\ i = c => EndOf(live[j]) <= scopes[k].offset
    BY <1>1 DEF ScopeCovers, Covers
  <2>2. c = d
    BY <1>1, <2>1 DEF IsInjective
  <2>. QED BY <2>1, <2>2
<1>3. DOMAIN active' = 1 .. d /\ Len(active') = d /\ DOMAIN live' = 1 .. scopes[k].mark
  BY DEF IsFirst
<1>4. ASSUME NEW j \in DOMAIN live'
      PROVE  \E i \in DOMAIN active' :
               /\ active'[i] = live'[j].slab
               /\ i = Len(active') => EndOf(live'[j]) <= current_offset'
  <2>1. live'[j] = live[j]
    BY <1>3 DEF IsFirst
  <2>2. PICK i \in 1 .. d : /\ active[i] = live[j].slab
                            /\ i = d => EndOf(live[j]) <= scopes[k].offset
    BY <1>2, <1>3
  <2>3. i \in DOMAIN active' /\ active'[i] = active[i]
    BY <1>3 DEF IsFirst
  <2>. QED BY <1>3, <2>1, <2>2, <2>3
<1>. QED BY <1>4 DEF LiveInActive

LEMMA DepthIsPosition ==
  ASSUME IInv, NEW k \in DOMAIN scopes, scopes[k].slab # NULL
  PROVE  /\ Depth(scopes[k]) \in DOMAIN active
         /\ active[Depth(scopes[k])] = scopes[k].slab
<1>1. \E d \in DOMAIN active : active[d] = scopes[k].slab
  BY ScopeTypes DEF ScopeCovers, Covers
<1>. QED BY <1>1 DEF Depth

LEMMA PopScopeKeepsIInv ==
  ASSUME IInv, NEW k \in DOMAIN scopes, PopScope(k)
  PROVE  IInv'
<1>. DEFINE sc == scopes[k]
<1>1. /\ active \in Seq(Slab) /\ recycled \in Seq(Slab) /\ live \in Seq(Block)
      /\ scopes \in Seq(Scope) /\ current_offset \in Nat
      /\ cap \in [Slab -> Nat] /\ aborted \in BOOLEAN
  BY DEF IInv, TypeOK
<1>2. /\ sc \in Scope /\ ScopeCovers(sc) /\ sc.offset \in Nat
      /\ sc.mark \in 0 .. Len(live) /\ k - 1 \in 0 .. Len(scopes)
  BY ScopeTypes
<1>3. /\ cap' = cap
      /\ live' = SubSeq(live, 1, sc.mark)
      /\ scopes' = SubSeq(scopes, 1, k - 1)
      /\ \/ PopWithinSlab(sc)
         \/ PopWithoutRecycling(sc)
         \/ PopToEmpty(sc)
         \/ PopAcrossSlabs(sc)
  BY DEF PopScope
<1>4. /\ live' \in Seq(Block) /\ IsFirst(live', sc.mark, live)
      /\ scopes' \in Seq(Scope) /\ IsFirst(scopes', k - 1, scopes)
  <2>. HIDE DEF sc
  <2>. QED BY <1>1, <1>2, <1>3, FirstOfSubSeq
<1>5. IsFirst(active, Len(active), active) /\ Len(active) \in 0 .. Len(active)
  BY <1>1 DEF IsFirst
<1>6. sc.slab = NULL => DOMAIN live' = {}
  <2>1. sc.slab = NULL => sc.mark = 0
    BY <1>2 DEF ScopeCovers, Covers
  <2>. QED BY <1>4, <2>1 DEF IsFirst
<1>7. sc.slab # NULL => \E c \in 1 .. Len(active) : active[c] = sc.slab
  <2>1. DOMAIN active = 1 .. Len(active)
    BY <1>1
  <2>. QED BY <2>1, DepthIsPosition
<1>. HIDE DEF sc
<1>8. CASE PopWithinSlab(sc)
  <2>1. /\ UNCHANGED <<active, recycled, aborted>> /\ Top = sc.slab
        /\ current_offset' = sc.offset
    BY <1>8 DEF PopWithinSlab, WithinSlab
  <2>2. ScopesCover' /\ ScopesNest' /\ BlocksApart' /\ BlocksFit'
    BY <1>1, <1>3, <1>4, <1>5, <1>7, <2>1, PrefixKeepsScopes DEF sc
  <2>3. LiveInActive'
    <3>1. CASE active = <<>>
      BY <1>6, <2>1, <3>1 DEF LiveInActive, Top
    <3>2. CASE active # <<>>
      <4>1. Len(active) \in DOMAIN active /\ active[Len(active)] = sc.slab
        BY <1>1, <2>1, <3>2 DEF Top, Last
      <4>. QED BY <1>1, <1>4, <1>5, <2>1, <4>1, ScopeKeepsLive DEF sc
    <3>. QED BY <3>1, <3>2
  <2>4. TypeOK'
    BY <1>1, <1>2, <1>3, <1>4, <2>1 DEF TypeOK
  <2>. QED BY <1>3, <2>1, <2>2, <2>3, <2>4
       DEF IInv, ChainsDistinct, ChainsHold, Held, NothingRecycledWithoutRecycling
<1>9. CASE PopWithoutRecycling(sc)
  <2>1. UNCHANGED <<active, recycled, current_offset>> /\ aborted' \in BOOLEAN
    BY <1>9 DEF PopWithoutRecycling
  <2>2. ScopesCover' /\ ScopesNest' /\ BlocksApart' /\ BlocksFit'
    BY <1>1, <1>3, <1>4, <1>5, <1>7, <2>1, PrefixKeepsScopes DEF sc
  <2>3. LiveInActive'
    <3>1. \A j \in DOMAIN live' : j \in DOMAIN live /\ live'[j] = live[j]
      <4>1. DOMAIN live' = 1 .. sc.mark /\ DOMAIN live = 1 .. Len(live)
        BY <1>1, <1>4 DEF IsFirst
      <4>. QED BY <1>2, <1>4, <4>1 DEF IsFirst
    <3>. QED BY <2>1, <3>1 DEF IInv, LiveInActive
  <2>4. TypeOK'
    BY <1>1, <1>3, <1>4, <2>1 DEF TypeOK
  <2>. QED BY <1>3, <2>1, <2>2, <2>3, <2>4
       DEF IInv, ChainsDistinct, ChainsHold, Held, NothingRecycledWithoutRecycling
<1>10. CASE PopToEmpty(sc)
  <2>1. /\ sc.slab = NULL /\ ~NoRecycle /\ aborted' = aborted
        /\ active' = <<>> /\ recycled' = recycled \o active /\ current_offset' = 0
    BY <1>10 DEF PopToEmpty
  <2>2. SubSeq(active, 1, 0) = <<>> /\ SubSeq(active, 0 + 1, Len(active)) = active
    BY <1>1
  <2>3. recycled' \in Seq(Slab) /\ ChainsDistinct' /\ ChainsHold'
    <3>1. 0 \in 0 .. Len(active)
      BY <1>1
    <3>. QED BY <1>3, <2>1, <2>2, <3>1, CutKeepsChains
  <2>4. ScopesCover' /\ ScopesNest' /\ BlocksApart' /\ BlocksFit'
    <3>1. 0 \in 0 .. Len(active) /\ active' \in Seq(Slab) /\ IsFirst(active', 0, active)
      BY <1>1, <2>1 DEF IsFirst
    <3>. QED BY <1>3, <1>4, <2>1, <3>1, PrefixKeepsScopes DEF sc
  <2>5. LiveInActive'
    BY <1>6, <2>1 DEF LiveInActive
  <2>6. TypeOK'
    BY <1>1, <1>3, <1>4, <2>1, <2>3 DEF TypeOK
  <2>. QED BY <2>1, <2>3, <2>4, <2>5, <2>6 DEF IInv, NothingRecycledWithoutRecycling
<1>11. CASE PopAcrossSlabs(sc)
  <2>. DEFINE d == Depth(sc)
  <2>1. /\ sc.slab # NULL /\ ~NoRecycle /\ aborted' = aborted
        /\ active' = SubSeq(active, 1, d)
        /\ recycled' = recycled \o SubSeq(active, d + 1, Len(active))
        /\ current_offset' = sc.offset
    BY <1>11 DEF PopAcrossSlabs, Above
  <2>2. d \in DOMAIN active /\ active[d] = sc.slab
    BY <2>1, DepthIsPosition DEF sc
  <2>. HIDE DEF d
  <2>3. d \in 0 .. Len(active) /\ d \in 1 .. d
    <3>1. DOMAIN active = 1 .. Len(active)
      BY <1>1
    <3>. QED BY <1>1, <2>2, <3>1
  <2>4. recycled' \in Seq(Slab) /\ ChainsDistinct' /\ ChainsHold'
    BY <1>3, <2>1, <2>2, <2>3, CutKeepsChains
  <2>5. active' \in Seq(Slab) /\ IsFirst(active', d, active)
    BY <1>1, <2>1, <2>2, <2>3, FirstOfSubSeq
  <2>6. ScopesCover' /\ ScopesNest' /\ BlocksApart' /\ BlocksFit'
    <3>1. \E c \in 1 .. d : active[c] = sc.slab
      BY <2>2, <2>3
    <3>. QED BY <1>3, <1>4, <2>2, <2>3, <2>5, <3>1, PrefixKeepsScopes DEF sc
  <2>7. LiveInActive'
    BY <1>4, <2>1, <2>2, <2>5, ScopeKeepsLive DEF sc
  <2>8. TypeOK'
    BY <1>1, <1>2, <1>3, <1>4, <2>1, <2>4, <2>5 DEF TypeOK
  <2>. QED BY <2>1, <2>4, <2>6, <2>7, <2>8 DEF IInv, NothingRecycledWithoutRecycling
<1>. QED BY <1>3, <1>8, <1>9, <1>10, <1>11

-----------------------------------------------------------------------------
(* Giving memory back.                                                     *)

\* Freeing slabs no live block is in.
LEMMA FreeSlabsTypes ==
  ASSUME IInv, NEW chain \in Seq(Slab), FreeSlabs(chain)
  PROVE  /\ cap' \in [Slab -> Nat]
         /\ Held' = Held \ ToSet(chain)
         /\ \A s \in Slab \ ToSet(chain) : cap'[s] = cap[s]
<1>1. cap \in [Slab -> Nat]
  BY DEF IInv, TypeOK
<1>. QED BY <1>1 DEF FreeSlabs, Held

LEMMA LiveTypes ==
  ASSUME IInv, NEW j \in DOMAIN live
  PROVE  live[j] \in Block /\ live[j].slab \in ToSet(active)
<1>1. live \in Seq(Block)
  BY DEF IInv, TypeOK
<1>2. PICK i \in DOMAIN active : active[i] = live[j].slab
  BY DEF IInv, LiveInActive
<1>. QED BY <1>1, <1>2 DEF ToSet

LEMMA FreeRecycledKeepsIInv == IInv /\ FreeRecycled => IInv'
<1>. SUFFICES ASSUME IInv, FreeRecycled PROVE IInv'
  OBVIOUS
<1>1. UNCHANGED <<active, current_offset, live, scopes>>
  BY DEF FreeRecycled
<1>2. /\ active \in Seq(Slab) /\ recycled \in Seq(Slab) /\ aborted \in BOOLEAN
      /\ cap \in [Slab -> Nat]
  BY DEF IInv, TypeOK
<1>3. CASE NoRecycle
  <2>1. UNCHANGED <<recycled, cap>> /\ aborted' \in BOOLEAN
    BY <1>3 DEF FreeRecycled
  <2>2. TypeOK'
    BY <1>1, <2>1 DEF IInv, TypeOK
  <2>. QED BY <1>1, <2>1, <2>2
       DEF IInv, ChainsDistinct, ChainsHold, Held, LiveInActive, ScopesCover, ScopeCovers, Covers,
           ScopesNest, BlocksApart, BlocksFit, NothingRecycledWithoutRecycling
<1>4. CASE ~NoRecycle
  <2>1. FreeSlabs(recycled) /\ recycled' = <<>> /\ aborted' = aborted
    BY <1>4 DEF FreeRecycled
  <2>2. /\ cap' \in [Slab -> Nat]
        /\ Held' = Held \ ToSet(recycled)
        /\ \A s \in Slab \ ToSet(recycled) : cap'[s] = cap[s]
    BY <1>2, <2>1, FreeSlabsTypes
  <2>3. TypeOK'
    BY <1>1, <2>1, <2>2 DEF IInv, TypeOK
  <2>4. ToSet(recycled') = {} /\ IsInjective(recycled')
    BY <2>1 DEF ToSet, IsInjective
  <2>5. ChainsDistinct' /\ ChainsHold'
    BY <1>1, <2>2, <2>4 DEF IInv, ChainsDistinct, ChainsHold
  <2>6. BlocksFit'
    <3>1. \A j \in DOMAIN live : cap'[live[j].slab] = cap[live[j].slab]
      BY <2>2, LiveTypes DEF IInv, ChainsDistinct, Block
    <3>. QED BY <1>1, <3>1 DEF IInv, BlocksFit
  <2>. QED BY <1>1, <1>4, <2>3, <2>5, <2>6
       DEF IInv, LiveInActive, ScopesCover, ScopeCovers, Covers, ScopesNest, BlocksApart,
           NothingRecycledWithoutRecycling
<1>. QED BY <1>3, <1>4

\* With no live block and no scope only the chains matter.
LEMMA NothingLive ==
  ASSUME live' = <<>>, scopes' = <<>>
  PROVE  LiveInActive' /\ ScopesCover' /\ ScopesNest' /\ BlocksApart' /\ BlocksFit'
BY DEF LiveInActive, ScopesCover, ScopesNest, BlocksApart, BlocksFit

LEMMA RecycleAllKeepsIInv == IInv /\ RecycleAll => IInv'
<1>. SUFFICES ASSUME IInv, RecycleAll PROVE IInv'
  OBVIOUS
<1>1. /\ ~NoRecycle /\ scopes = <<>> /\ recycled' = recycled \o active
      /\ active' = <<>> /\ live' = <<>>
      /\ UNCHANGED <<current_offset, cap, aborted, scopes>>
  BY DEF RecycleAll
<1>2. active \in Seq(Slab)
  BY DEF IInv, TypeOK
<1>3. recycled' \in Seq(Slab) /\ ChainsDistinct' /\ ChainsHold'
  <2>1. /\ SubSeq(active, 1, 0) = <<>> /\ SubSeq(active, 0 + 1, Len(active)) = active
        /\ 0 \in 0 .. Len(active)
    BY <1>2
  <2>. QED BY <1>1, <2>1, CutKeepsChains
<1>4. TypeOK'
  BY <1>1, <1>3 DEF IInv, TypeOK
<1>. QED BY <1>1, <1>3, <1>4, NothingLive DEF IInv, NothingRecycledWithoutRecycling

LEMMA FreeAllKeepsIInv == IInv /\ FreeAll => IInv'
<1>. SUFFICES ASSUME IInv, FreeAll PROVE IInv'
  OBVIOUS
<1>1. active' = <<>> /\ current_offset' = 0 /\ live' = <<>> /\ scopes' = <<>>
  BY DEF FreeAll
<1>2. active \in Seq(Slab) /\ recycled \in Seq(Slab) /\ aborted \in BOOLEAN
  BY DEF IInv, TypeOK
<1>3. ToSet(<<>>) = {} /\ IsInjective(<<>>)
  BY DEF ToSet, IsInjective
<1>4. CASE NoRecycle
  <2>1. FreeSlabs(active) /\ recycled' = recycled /\ aborted' \in BOOLEAN
    BY <1>4 DEF FreeAll
  <2>2. cap' \in [Slab -> Nat] /\ Held' = Held \ ToSet(active)
    BY <1>2, <2>1, FreeSlabsTypes
  <2>3. TypeOK'
    BY <1>1, <1>2, <2>1, <2>2 DEF TypeOK
  <2>4. ChainsDistinct' /\ ChainsHold'
    BY <1>1, <1>3, <2>1, <2>2 DEF IInv, ChainsDistinct, ChainsHold
  <2>. QED BY <1>1, <2>1, <2>3, <2>4, NothingLive DEF IInv, NothingRecycledWithoutRecycling
<1>5. CASE ~NoRecycle
  <2>1. FreeSlabs(active \o recycled) /\ recycled' = <<>> /\ aborted' = aborted
    BY <1>5 DEF FreeAll
  <2>2. active \o recycled \in Seq(Slab)
        /\ ToSet(active \o recycled) = ToSet(active) \union ToSet(recycled)
    BY <1>2, ConcatElements
  <2>3. cap' \in [Slab -> Nat] /\ Held' = Held \ ToSet(active \o recycled)
    BY <2>1, <2>2, FreeSlabsTypes
  <2>4. TypeOK'
    BY <1>1, <1>2, <2>1, <2>3 DEF TypeOK
  <2>5. ChainsDistinct' /\ ChainsHold'
    BY <1>1, <1>3, <2>1, <2>2, <2>3 DEF IInv, ChainsDistinct, ChainsHold
  <2>. QED BY <1>1, <1>5, <2>4, <2>5, NothingLive DEF IInv, NothingRecycledWithoutRecycling
<1>. QED BY <1>4, <1>5

-----------------------------------------------------------------------------
(* The theorems.                                                           *)

LEMMA InitIInv == Init => IInv
<1>. SUFFICES ASSUME Init PROVE IInv
  OBVIOUS
<1>1. ToSet(<<>>) = {} /\ IsInjective(<<>>)
  BY DEF ToSet, IsInjective
<1>2. Held = {}
  BY DEF Init, Held
<1>3. TypeOK
  <2>1. cap \in [Slab -> Nat] /\ current_offset \in Nat /\ aborted \in BOOLEAN
    BY DEF Init
  <2>2. active \in Seq(Slab) /\ recycled \in Seq(Slab)
    BY DEF Init
  <2>3. live \in Seq(Block) /\ scopes \in Seq(Scope)
    BY DEF Init
  <2>. QED BY <2>1, <2>2, <2>3 DEF TypeOK
<1>. QED BY <1>1, <1>2, <1>3
     DEF Init, IInv, ChainsDistinct, ChainsHold, LiveInActive, ScopesCover, ScopesNest,
         BlocksApart, BlocksFit, NothingRecycledWithoutRecycling

LEMMA NextKeepsIInv == IInv /\ [Next]_vars => IInv'
<1>. SUFFICES ASSUME IInv, [Next]_vars PROVE IInv'
  OBVIOUS
<1>1. ASSUME NEW size \in Sizes, NEW align \in Aligns, Alloc(size, align) PROVE IInv'
  BY <1>1, AllocFromTopKeepsIInv, AllocFromRecycledKeepsIInv, AllocFromHostKeepsIInv DEF Alloc
<1>2. CASE PushScope
  BY <1>2, PushScopeKeepsIInv
<1>3. ASSUME NEW k \in DOMAIN scopes, PopScope(k) PROVE IInv'
  BY <1>3, PopScopeKeepsIInv
<1>4. CASE FreeRecycled
  BY <1>4, FreeRecycledKeepsIInv
<1>5. CASE RecycleAll
  BY <1>5, RecycleAllKeepsIInv
<1>6. CASE FreeAll
  BY <1>6, FreeAllKeepsIInv
<1>7. CASE UNCHANGED vars
  <2>1. TypeOK'
    BY <1>7 DEF vars, IInv, TypeOK
  <2>. QED BY <1>7, <2>1
       DEF vars, IInv, ChainsDistinct, ChainsHold, Held, LiveInActive, ScopesCover, ScopeCovers, Covers,
           ScopesNest, BlocksApart, BlocksFit, NothingRecycledWithoutRecycling
<1>. QED BY <1>1, <1>2, <1>3, <1>4, <1>5, <1>6, <1>7 DEF Next

\* The strengthening of the invariants below is inductive: it holds in every
\* state the calls of the arena can reach.
THEOREM ArenaInvariant == Spec => []IInv
BY InitIInv, NextKeepsIInv, PTL DEF Spec

\* The arena's fields, and its users' blocks and scopes, have their types.
THEOREM TypeCorrect == Spec => []TypeOK
<1>1. IInv => TypeOK
  BY DEF IInv
<1>. QED BY <1>1, ArenaInvariant, PTL

\* Two live blocks never share a byte, for every host, set of slabs, sizes and
\* alignments, with and without the address sanitizer (ak_arena_alloc,
\* ak_pop_scope).
THEOREM BlocksDisjoint == Spec => []LiveBlocksDisjoint
<1>1. IInv => LiveBlocksDisjoint
  <2>. SUFFICES ASSUME IInv, NEW i \in DOMAIN live, NEW j \in DOMAIN live,
                       i < j, live[i].slab = live[j].slab
                PROVE  EndOf(live[i]) <= live[j].start
    BY DEF LiveBlocksDisjoint
  <2>1. EndOf(live[i]) + Padding <= live[j].start
    BY DEF IInv, BlocksApart
  <2>2. EndOf(live[i]) \in Nat /\ live[j].start \in Nat
    BY LiveTypes, BlockBounds
  <2>. QED BY <2>1, <2>2, PaddingType
<1>. QED BY <1>1, ArenaInvariant, PTL

\* Under the address sanitizer there are AK_ASAN_PADDING_BYTES between two live
\* blocks of a slab, also after scopes were popped.
THEOREM BlocksHaveRedzones == Spec => []RedzonesBetweenBlocks
<1>1. IInv => RedzonesBetweenBlocks
  BY DEF IInv, BlocksApart, RedzonesBetweenBlocks, Padding
<1>. QED BY <1>1, ArenaInvariant, PTL

\* Without the address sanitizer every live block lies inside the buffer of an
\* active slab.  With it, the padding is taken from what the slab has for blocks, which
\* NewSlabSize leaves no room for (base.c:834).
THEOREM BlocksInSlab == ~Asan => (Spec => []LiveBlocksInSlab)
<1>. SUFFICES ASSUME ~Asan PROVE Spec => []LiveBlocksInSlab
  OBVIOUS
<1>1. IInv => LiveBlocksInSlab
  BY LiveTypes DEF IInv, BlocksFit, LiveBlocksInSlab
<1>. QED BY <1>1, ArenaInvariant, PTL

\* The two chains hold every slab of the host exactly once.
THEOREM SlabsKept == Spec => []NoSlabLost
<1>1. IInv => NoSlabLost
  <2>. SUFFICES ASSUME IInv PROVE NoSlabLost
    OBVIOUS
  <2>1. active \in Seq(Slab) /\ recycled \in Seq(Slab)
    BY DEF IInv, TypeOK
  <2>2. IsInjective(active \o recycled)
    <3>1. IsInjective(active) /\ IsInjective(recycled) /\ ToSet(active) \intersect ToSet(recycled) = {}
      BY DEF IInv, ChainsDistinct
    <3>. QED BY <2>1, <3>1, ConcatInjective
  <2>3. ToSet(active \o recycled) = Held
    <3>1. ToSet(active \o recycled) = ToSet(active) \union ToSet(recycled)
      BY <2>1, ConcatElements
    <3>. QED BY <3>1 DEF IInv, ChainsHold
  <2>. QED BY <2>2, <2>3 DEF NoSlabLost
<1>. QED BY <1>1, ArenaInvariant, PTL

\* A host that does not recycle never finds a slab in the recycled chain: the
\* assertion of ak_arena_free_recycled holds.
THEOREM RecycledStaysEmpty == Spec => []NothingRecycledWithoutRecycling
<1>1. IInv => NothingRecycledWithoutRecycling
  BY DEF IInv
<1>. QED BY <1>1, ArenaInvariant, PTL

\* Popping a scope leaves on top the slab that was on top when it was pushed.
THEOREM PopRestores == Spec => PopRestoresTop
<1>1. IInv /\ [Next]_vars =>
        [\A k \in DOMAIN scopes : PopScope(k) /\ ~aborted' => Top' = scopes[k].slab]_vars
  <2>. SUFFICES ASSUME IInv, NEW k \in DOMAIN scopes, PopScope(k), ~aborted'
                PROVE  Top' = scopes[k].slab
    OBVIOUS
  <2>1. active \in Seq(Slab)
    BY DEF IInv, TypeOK
  <2>2. CASE PopWithinSlab(scopes[k])
    BY <2>2 DEF PopWithinSlab, WithinSlab, Top
  <2>3. CASE PopWithoutRecycling(scopes[k])
    BY <2>3 DEF PopWithoutRecycling
  <2>4. CASE PopToEmpty(scopes[k])
    BY <2>4 DEF PopToEmpty, Top
  <2>5. CASE PopAcrossSlabs(scopes[k])
    <3>. DEFINE d == Depth(scopes[k])
    <3>1. d \in DOMAIN active /\ active[d] = scopes[k].slab /\ active' = SubSeq(active, 1, d)
      BY <2>5, DepthIsPosition DEF PopAcrossSlabs
    <3>. HIDE DEF d
    <3>2. Len(active') = d /\ active' # <<>> /\ active'[d] = active[d]
      BY <2>1, <3>1
    <3>. QED BY <3>1, <3>2 DEF Top, Last
  <2>. QED BY <2>2, <2>3, <2>4, <2>5 DEF PopScope
<1>. QED BY <1>1, ArenaInvariant, PTL DEF Spec, PopRestoresTop

-----------------------------------------------------------------------------
(* Memory is used again before the host is asked for more.                 *)

\* A new slab has room for the request wherever its buffer starts, so a
\* recycled slab that was refused is smaller.
LEMMA RefusedIsSmaller ==
  ASSUME ~Asan, NEW r \in Slab, cap[r] \in Nat, NEW size \in Sizes, NEW align \in Aligns,
         ~FitsIn(r, 0, size, align)
  PROVE  cap[r] < NewSlabSize(size, align)
<1>1. /\ StartIn(r, 0, align) \in Nat
      /\ StartIn(r, 0, align) < 0 + Padding + EffectiveAlign(align)
  BY StartInBounds
<1>2. Padding = 0
  BY DEF Padding
<1>3. size \in Nat /\ EffectiveAlign(align) \in Nat /\ DefaultSlab \in Nat
  BY ArenaAssumption DEF EffectiveAlign
<1>4. cap[r] < size + EffectiveAlign(align)
  BY <1>1, <1>2, <1>3 DEF FitsIn
<1>5. NewSlabSize(size, align) \in Nat /\ size + EffectiveAlign(align) <= NewSlabSize(size, align)
  BY <1>3 DEF NewSlabSize
<1>. QED BY <1>3, <1>4, <1>5

\* The slabs of a chain are no more than its places.
LEMMA ChainSize ==
  ASSUME NEW S, NEW q \in Seq(S)
  PROVE  IsFiniteSet(ToSet(q)) /\ Cardinality(ToSet(q)) <= Len(q)
<1>. DEFINE n == Len(q)
            f == [i \in 1 .. n |-> q[i]]
<1>1. n \in Nat /\ DOMAIN q = 1 .. n
  OBVIOUS
<1>2. f \in Surjection(1 .. n, ToSet(q))
  BY <1>1 DEF Surjection, ToSet
<1>3. IsFiniteSet(1 .. n) /\ Cardinality(1 .. n) = n
  BY <1>1, FS_Interval
<1>4. IsFiniteSet(ToSet(q)) /\ Cardinality(ToSet(q)) <= Cardinality(1 .. n)
  BY <1>2, <1>3, FS_Surjection
<1>. QED BY <1>3, <1>4

\* While n slabs are in use at most, the slabs of the default size are at most
\* n, and none is smaller.
AtMost(n) ==
  /\ \A s \in Held : DefaultSlab <= cap[s]
  /\ IsFiniteSet(OrdinarySlabs)
  /\ Cardinality(OrdinarySlabs) <= n

\* A call that asks the host for nothing only gives slabs back.
LEMMA OthersShrink ==
  ASSUME IInv, [Next]_vars,
         \A size \in Sizes, align \in Aligns : ~AllocFromHost(size, align)
  PROVE  \A s \in Slab : cap'[s] = cap[s] \/ cap'[s] = 0
<1>1. cap \in [Slab -> Nat]
  BY DEF IInv, TypeOK
<1>2. ASSUME NEW chain, FreeSlabs(chain)
      PROVE  \A s \in Slab : cap'[s] = cap[s] \/ cap'[s] = 0
  BY <1>1, <1>2 DEF FreeSlabs
<1>3. cap' = cap \/ \E chain : FreeSlabs(chain)
  <2>1. ASSUME NEW size \in Sizes, NEW align \in Aligns, Alloc(size, align)
        PROVE  cap' = cap
    BY <2>1 DEF Alloc, AllocFromTop, AllocFromRecycled
  <2>2. CASE PushScope
    BY <2>2 DEF PushScope, arenaVars
  <2>3. ASSUME NEW k \in DOMAIN scopes, PopScope(k) PROVE cap' = cap
    BY <2>3 DEF PopScope
  <2>4. CASE FreeRecycled
    BY <2>4 DEF FreeRecycled
  <2>5. CASE RecycleAll
    BY <2>5 DEF RecycleAll
  <2>6. CASE FreeAll
    BY <2>6 DEF FreeAll
  <2>7. CASE UNCHANGED vars
    BY <2>7 DEF vars
  <2>. QED BY <2>1, <2>2, <2>3, <2>4, <2>5, <2>6, <2>7 DEF Next
<1>. QED BY <1>2, <1>3

\* The host is asked for a slab of the default size only when every slab is in
\* use.
LEMMA HostGrowsWithinPeak ==
  ASSUME ~Asan, IInv, IInv', NEW n \in Nat, AtMost(n), Len(active') <= n,
         NEW size \in Sizes, NEW align \in Aligns, AllocFromHost(size, align)
  PROVE  AtMost(n)'
<1>1. cap \in [Slab -> Nat] /\ recycled \in Seq(Slab) /\ active' \in Seq(Slab)
  BY DEF IInv, TypeOK
<1>2. DefaultSlab \in Nat /\ NewSlabSize(size, align) \in Nat
      /\ DefaultSlab <= NewSlabSize(size, align)
  BY ArenaAssumption DEF NewSlabSize, EffectiveAlign
<1>3. PICK s \in Slab : cap' = [cap EXCEPT ![s] = NewSlabSize(size, align)] /\ s \notin Held
  BY DEF AllocFromHost
<1>4. \A r \in Held' : DefaultSlab <= cap'[r]
  BY <1>1, <1>2, <1>3 DEF AtMost, Held
<1>5. CASE NewSlabSize(size, align) = DefaultSlab
  <2>1. recycled = <<>>
    <3>1. NoneFits(size, align) \/ NoRecycle
      BY DEF AllocFromHost
    <3>2. ASSUME NEW i \in DOMAIN recycled, NoneFits(size, align) PROVE FALSE
      <4>1. recycled[i] \in Slab /\ cap[recycled[i]] \in Nat
        BY <1>1
      <4>2. cap[recycled[i]] < DefaultSlab
        BY <1>5, <3>2, <4>1, RefusedIsSmaller DEF NoneFits
      <4>3. recycled[i] \in Held
        BY DEF IInv, ChainsHold, ToSet
      <4>. QED BY <1>2, <4>1, <4>2, <4>3 DEF AtMost
    <3>3. NoneFits(size, align) => DOMAIN recycled = {}
      BY <3>2
    <3>4. DOMAIN recycled = {} => recycled = <<>>
      BY <1>1
    <3>. QED BY <3>1, <3>3, <3>4 DEF IInv, NothingRecycledWithoutRecycling
  <2>2. Held' = ToSet(active')
    <3>1. recycled' = recycled
      BY DEF AllocFromHost
    <3>2. ToSet(active') \union ToSet(recycled') = Held'
      BY DEF IInv, ChainsHold
    <3>3. ToSet(<<>>) = {}
      BY DEF ToSet
    <3>. QED BY <2>1, <3>1, <3>2, <3>3
  <2>3. OrdinarySlabs' \subseteq ToSet(active')
    BY <2>2 DEF OrdinarySlabs
  <2>4. IsFiniteSet(ToSet(active')) /\ Cardinality(ToSet(active')) <= Len(active')
    BY <1>1, ChainSize
  <2>5. /\ IsFiniteSet(OrdinarySlabs')
        /\ Cardinality(OrdinarySlabs') <= Cardinality(ToSet(active'))
    BY <2>3, <2>4, FS_Subset
  <2>6. /\ Cardinality(OrdinarySlabs') \in Nat /\ Cardinality(ToSet(active')) \in Nat
        /\ Len(active') \in Nat
    BY <1>1, <2>4, <2>5, FS_CardinalityType
  <2>. QED BY <1>4, <2>4, <2>5, <2>6 DEF AtMost
<1>6. CASE NewSlabSize(size, align) # DefaultSlab
  <2>1. OrdinarySlabs' = OrdinarySlabs
    BY <1>1, <1>2, <1>3, <1>6 DEF OrdinarySlabs, Held
  <2>. QED BY <1>4, <2>1 DEF AtMost
<1>. QED BY <1>5, <1>6

LEMMA OthersKeepAtMost ==
  ASSUME IInv, IInv', [Next]_vars, NEW n \in Nat, AtMost(n),
         \A size \in Sizes, align \in Aligns : ~AllocFromHost(size, align)
  PROVE  AtMost(n)'
<1>1. cap \in [Slab -> Nat] /\ cap' \in [Slab -> Nat]
  BY DEF IInv, TypeOK
<1>2. \A s \in Slab : cap'[s] = cap[s] \/ cap'[s] = 0
  BY OthersShrink
<1>3. OrdinarySlabs' \subseteq OrdinarySlabs
  BY <1>1, <1>2 DEF OrdinarySlabs, Held
<1>4. /\ IsFiniteSet(OrdinarySlabs')
      /\ Cardinality(OrdinarySlabs') <= Cardinality(OrdinarySlabs)
  BY <1>3, FS_Subset DEF AtMost
<1>5. Cardinality(OrdinarySlabs') \in Nat /\ Cardinality(OrdinarySlabs) \in Nat
  BY <1>4, FS_CardinalityType DEF AtMost
<1>6. \A s \in Held' : DefaultSlab <= cap'[s]
  BY <1>1, <1>2 DEF AtMost, Held
<1>. QED BY <1>4, <1>5, <1>6 DEF AtMost

\* Without the address sanitizer, while n slabs are in use at most the arena
\* holds no more than n slabs of the default size: what scopes gave back is
\* used before the host is asked (plans B and C of ak_arena_alloc).
THEOREM MemoryIsUsedAgain == ~Asan => (Spec => HoldsNoMoreThanPeak)
<1>. SUFFICES ASSUME ~Asan, NEW n \in 0 .. MaxLive
              PROVE  Spec => ([](Len(active) <= n) => [](Cardinality(OrdinarySlabs) <= n))
  BY DEF HoldsNoMoreThanPeak
<1>1. n \in Nat
  BY ArenaAssumption
<1>2. Init => AtMost(n)
  <2>. SUFFICES ASSUME Init PROVE AtMost(n)
    OBVIOUS
  <2>1. Held = {} /\ OrdinarySlabs = {}
    BY DEF Init, Held, OrdinarySlabs
  <2>. QED BY <1>1, <2>1, FS_EmptySet DEF AtMost
<1>3. IInv /\ IInv' /\ [Next]_vars /\ AtMost(n) /\ (Len(active) <= n)' => AtMost(n)'
  BY <1>1, HostGrowsWithinPeak, OthersKeepAtMost
<1>4. AtMost(n) => Cardinality(OrdinarySlabs) <= n
  BY DEF AtMost
<1>. QED BY <1>2, <1>3, <1>4, ArenaInvariant, PTL DEF Spec

-----------------------------------------------------------------------------
(* The arena keeps the promise of scoped memory.                           *)

marksBar == [k \in DOMAIN scopes |-> scopes[k].mark]

LEMMA MarksTypes ==
  ASSUME scopes \in Seq(Scope)
  PROVE  /\ marksBar \in Seq(Nat)
         /\ Len(marksBar) = Len(scopes)
         /\ DOMAIN marksBar = DOMAIN scopes
         /\ \A k \in DOMAIN scopes : marksBar[k] = scopes[k].mark
<1>1. DOMAIN scopes = 1 .. Len(scopes) /\ Len(scopes) \in Nat
  OBVIOUS
<1>2. ASSUME NEW k \in DOMAIN scopes PROVE scopes[k].mark \in Nat
  <2>1. scopes[k] \in Scope
    OBVIOUS
  <2>. QED BY <2>1 DEF Scope
<1>. QED BY <1>1, <1>2 DEF marksBar

\* With the blocks apart and inside their slab, a granted block is the abstract
\* memory's next one.
LEMMA GrantIsAlloc ==
  ASSUME ~Asan, IInv, IInv', Len(live) < MaxLive,
         NEW s \in Slab, NEW offset, NEW size, NEW align,
         Grant(s, offset, size, align),
         \A r \in ToSet(active) : cap'[r] = cap[r]
  PROVE  Memory!Alloc
<1>. DEFINE b == [slab |-> s, start |-> StartIn(s, offset, align), size |-> size]
            n == Len(live) + 1
<1>1. /\ live \in Seq(Block) /\ live' \in Seq(Block) /\ live' = Append(live, b)
      /\ scopes' = scopes
  BY DEF Grant, IInv, TypeOK
<1>2. /\ Len(live') = n /\ n \in DOMAIN live' /\ live'[n] = b /\ b \in Block
      /\ \A j \in DOMAIN live : j < n /\ j \in DOMAIN live' /\ live'[j] = live[j]
  <2>. HIDE DEF b
  <2>1. /\ Len(live') = n /\ n \in DOMAIN live' /\ live'[n] = b
        /\ \A j \in DOMAIN live : j < n /\ j \in DOMAIN live' /\ live'[j] = live[j]
    BY <1>1
  <2>2. live'[n] \in Block
    BY <1>1, <2>1
  <2>. QED BY <2>1, <2>2
<1>. HIDE DEF b, n
<1>3. EndOf(live'[n]) <= cap'[live'[n].slab]
  BY <1>2 DEF IInv, BlocksFit
<1>4. ASSUME NEW j \in DOMAIN live, live[j].slab = live'[n].slab
      PROVE  EndOf(live[j]) <= live'[n].start
  <2>1. EndOf(live'[j]) + Padding <= live'[n].start
    BY <1>2, <1>4 DEF IInv, BlocksApart
  <2>2. EndOf(live'[j]) \in Nat /\ live'[n].start \in Nat
    BY <1>1, <1>2, BlockBounds
  <2>. QED BY <1>2, <2>1, <2>2, PaddingType
<1>5. \A j \in DOMAIN live : cap'[live[j].slab] = cap[live[j].slab]
  BY LiveTypes
<1>6. marksBar' = marksBar
  BY <1>1 DEF marksBar
<1>7. live' = Append(live, live'[n])
  BY <1>1, <1>2
<1>. QED BY <1>2, <1>3, <1>4, <1>5, <1>6, <1>7
     DEF n, Memory!Alloc, Memory!Block, Block, Memory!EndOf, EndOf, Memory!KeepsLive, marksBar

LEMMA AllocIsAlloc ==
  ASSUME ~Asan, IInv, IInv', NEW size \in Sizes, NEW align \in Aligns, Alloc(size, align)
  PROVE  Memory!Alloc
<1>1. Len(live) < MaxLive /\ active \in Seq(Slab) /\ recycled \in Seq(Slab)
      /\ cap \in [Slab -> Nat] /\ ToSet(active) \subseteq Held
  BY DEF Alloc, IInv, TypeOK, ChainsHold
<1>2. CASE AllocFromTop(size, align)
  <2>1. Top \in Slab
    BY <1>1, <1>2 DEF AllocFromTop, FitsTop, Top, Last
  <2>2. Grant(Top, current_offset, size, align) /\ cap' = cap
    BY <1>2 DEF AllocFromTop
  <2>. QED BY <1>1, <2>1, <2>2, GrantIsAlloc
<1>3. CASE AllocFromRecycled(size, align)
  <2>1. PICK i \in DOMAIN recycled : Grant(recycled[i], 0, size, align)
    BY <1>3 DEF AllocFromRecycled
  <2>2. cap' = cap /\ recycled[i] \in Slab
    BY <1>1, <1>3 DEF AllocFromRecycled
  <2>. QED BY <1>1, <2>1, <2>2, GrantIsAlloc
<1>4. CASE AllocFromHost(size, align)
  <2>1. PICK s \in Slab \ Held : /\ cap' = [cap EXCEPT ![s] = NewSlabSize(size, align)]
                                 /\ Grant(s, 0, size, align)
    BY <1>4 DEF AllocFromHost
  <2>2. \A r \in ToSet(active) : cap'[r] = cap[r]
    BY <1>1, <2>1
  <2>. QED BY <1>1, <2>1, <2>2, GrantIsAlloc
<1>. QED BY <1>2, <1>3, <1>4 DEF Alloc

LEMMA PushIsOpen ==
  ASSUME IInv, PushScope
  PROVE  Memory!Open
<1>. DEFINE sc == [slab |-> Top, offset |-> current_offset, mark |-> Len(live)]
<1>1. /\ scopes \in Seq(Scope) /\ Len(scopes) < MaxScopes /\ scopes' = Append(scopes, sc)
      /\ cap' = cap /\ live' = live
  BY DEF PushScope, IInv, TypeOK, arenaVars
<1>2. sc.mark = Len(live)
  OBVIOUS
<1>. HIDE DEF sc
<1>3. Len(marksBar) < MaxScopes
  BY <1>1, MarksTypes
<1>4. marksBar' = Append(marksBar, Len(live))
  <2>1. marksBar' = [k \in 1 .. Len(scopes) + 1 |-> Append(scopes, sc)[k].mark]
    BY <1>1 DEF marksBar
  <2>2. \A k \in 1 .. Len(scopes) + 1 :
          Append(scopes, sc)[k] = IF k = Len(scopes) + 1 THEN sc ELSE scopes[k]
    BY <1>1
  <2>3. \A k \in 1 .. Len(scopes) + 1 :
          Append(scopes, sc)[k].mark = IF k = Len(scopes) + 1 THEN Len(live) ELSE marksBar[k]
    BY <1>1, <1>2, <2>2, MarksTypes
  <2>4. Append(marksBar, Len(live)) =
          [k \in 1 .. Len(marksBar) + 1 |-> IF k = Len(marksBar) + 1 THEN Len(live) ELSE marksBar[k]]
    <3>1. marksBar \in Seq(Nat) /\ Len(live) \in Nat
      BY <1>1, MarksTypes DEF IInv, TypeOK
    <3>. QED BY <3>1, AppendAsFunction
  <2>. QED BY <1>1, <2>1, <2>3, <2>4, MarksTypes
<1>. QED BY <1>1, <1>3, <1>4 DEF Memory!Open, marksBar

LEMMA PopIsClose ==
  ASSUME IInv, NEW k \in DOMAIN scopes, PopScope(k)
  PROVE  k \in DOMAIN marksBar /\ Memory!Close(k)
<1>1. /\ scopes \in Seq(Scope) /\ scopes' = SubSeq(scopes, 1, k - 1)
      /\ live' = SubSeq(live, 1, scopes[k].mark) /\ cap' = cap
  BY DEF PopScope, IInv, TypeOK
<1>2. k \in DOMAIN marksBar /\ marksBar[k] = scopes[k].mark
  BY <1>1, MarksTypes
<1>3. marksBar' = SubSeq(marksBar, 1, k - 1)
  <2>1. /\ DOMAIN SubSeq(scopes, 1, k - 1) = 1 .. k - 1
        /\ \A l \in 1 .. k - 1 : l \in DOMAIN scopes /\ SubSeq(scopes, 1, k - 1)[l] = scopes[l]
    BY <1>1
  <2>2. marksBar' = [l \in 1 .. k - 1 |-> scopes[l].mark]
    BY <1>1, <2>1 DEF marksBar
  <2>3. SubSeq(marksBar, 1, k - 1) = [l \in 1 .. k - 1 |-> marksBar[l]]
    BY <1>1, MarksTypes
  <2>. QED BY <1>1, <2>1, <2>2, <2>3, MarksTypes
<1>. QED BY <1>1, <1>2, <1>3 DEF Memory!Close, marksBar

LEMMA FreeRecycledIsShrink ==
  ASSUME IInv, IInv', FreeRecycled
  PROVE  Memory!Shrink
<1>1. live' = live /\ scopes' = scopes /\ cap' \in [Slab -> Nat]
  BY DEF FreeRecycled, IInv, TypeOK
<1>2. ASSUME NEW j \in DOMAIN live PROVE cap'[live[j].slab] = cap[live[j].slab]
  <2>1. live[j].slab \in ToSet(active) /\ live[j].slab \in Slab /\ live[j].slab \notin ToSet(recycled)
    BY LiveTypes DEF Block, IInv, ChainsDistinct
  <2>. QED BY <2>1 DEF FreeRecycled, FreeSlabs
<1>3. marksBar' = marksBar
  BY <1>1 DEF marksBar
<1>. QED BY <1>1, <1>2, <1>3 DEF Memory!Shrink, Memory!KeepsLive, marksBar

LEMMA NothingLeftIsReset ==
  ASSUME IInv', live' = <<>>, scopes' = <<>>
  PROVE  Memory!Reset
<1>1. cap' \in [Slab -> Nat]
  BY DEF IInv, TypeOK
<1>2. marksBar' = <<>>
  BY DEF marksBar
<1>. QED BY <1>1, <1>2 DEF Memory!Reset, marksBar

\* Without the address sanitizer the arena implements scoped memory: blocks stay
\* apart in memory it owns, and popping a scope gives back exactly the blocks handed
\* out since it was pushed (ak_arena_alloc, ak_push_scope, ak_pop_scope and the
\* calls that give memory back).
THEOREM ArenaIsScopedMemory == ~Asan => (Spec => KeepsPromise)
<1>. SUFFICES ASSUME ~Asan PROVE Spec => KeepsPromise
  OBVIOUS
<1>1. Init => Memory!Init
  <2>1. Init => marksBar = <<>>
    BY DEF Init, marksBar
  <2>. QED BY <2>1 DEF Init, Memory!Init, marksBar
<1>2. IInv /\ IInv' /\ [Next]_vars => [Memory!Next]_(Memory!vars)
  <2>. SUFFICES ASSUME IInv, IInv', [Next]_vars
                PROVE  Memory!Next \/ UNCHANGED Memory!vars
    OBVIOUS
  <2>1. ASSUME NEW size \in Sizes, NEW align \in Aligns, Alloc(size, align)
        PROVE  Memory!Next
    BY <2>1, AllocIsAlloc DEF Memory!Next
  <2>2. CASE PushScope
    BY <2>2, PushIsOpen DEF Memory!Next
  <2>3. ASSUME NEW k \in DOMAIN scopes, PopScope(k) PROVE Memory!Next
    BY <2>3, PopIsClose DEF Memory!Next, marksBar
  <2>4. CASE FreeRecycled
    BY <2>4, FreeRecycledIsShrink DEF Memory!Next
  <2>5. CASE RecycleAll
    <3>1. live' = <<>> /\ scopes' = <<>>
      BY <2>5 DEF RecycleAll
    <3>. QED BY <3>1, NothingLeftIsReset DEF Memory!Next
  <2>6. CASE FreeAll
    <3>1. live' = <<>> /\ scopes' = <<>>
      BY <2>6 DEF FreeAll
    <3>. QED BY <3>1, NothingLeftIsReset DEF Memory!Next
  <2>7. CASE UNCHANGED vars
    BY <2>7 DEF vars, Memory!vars
  <2>. QED BY <2>1, <2>2, <2>3, <2>4, <2>5, <2>6, <2>7 DEF Next
<1>. QED BY <1>1, <1>2, ArenaInvariant, PTL DEF Spec, KeepsPromise, Memory!Spec
=============================================================================
