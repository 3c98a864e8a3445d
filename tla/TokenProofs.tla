----------------------------- MODULE TokenProofs -----------------------------
(***************************************************************************)
(* Proofs about the tokens of tools/mirv.c: how the lexer cuts them out of *)
(* a text, for every text, and how the stream keeps them for the parser,   *)
(* for every capacity of a block and every length of the source.           *)
(***************************************************************************)
EXTENDS Lexer, TokenStream, ChainLemmas, TLAPS

-----------------------------------------------------------------------------
(* The stream: the inductive invariant.                                    *)

\* Blocks but the last have their last place free.
Full == Capacity - 1

LenOf(b) == IF b = Len(blocks) THEN tail_len ELSE Full

\* Tokens in the first n blocks, when there are others behind.
FullBlocks(n) == n * Full

\* Every token is where it was appended, and the other places are as they were
\* when the block was made.
PlacesHold ==
  \A b \in DOMAIN blocks, i \in Place :
    blocks[b][i] = IF i < LenOf(b) THEN FullBlocks(b - 1) + i + 1 ELSE Zeroed

AllAreWritten ==
  /\ blocks = <<>> => written = 0
  /\ blocks # <<>> => tail_len >= 1 /\ written = FullBlocks(Len(blocks) - 1) + tail_len

\* How many tokens are in front of the parser.
Passed ==
  FullBlocks(cur_block - 1) + (IF next_offset < LenOf(cur_block) THEN next_offset ELSE LenOf(cur_block))

LexerAlone ==
  phase = "lex" => cur_block = 0 /\ next_offset = 0 /\ taken = <<>> /\ ~parser_aborted

ParserInStream ==
  phase = "parse" =>
    /\ cur_block \in 1 .. Len(blocks)
    /\ next_offset <= CurLen
    /\ HasTaken(Passed)

StreamInv ==
  /\ StreamTypeOK
  /\ phase # "destroyed" => PlacesHold /\ AllAreWritten
  /\ StreamIsSource
  /\ LexerAlone
  /\ ParserInStream
  /\ NoTokenMissed
  /\ OneBlockTakesOnlyTokens

-----------------------------------------------------------------------------
(* Counting.                                                               *)

LEMMA CapacityType == Capacity \in Nat /\ Full \in Nat /\ Full >= 1 /\ Capacity = Full + 1
BY StreamAssumption DEF Full

LEMMA Multiples ==
  ASSUME NEW f \in Nat, NEW n \in Nat
  PROVE  n * f \in Nat /\ (n + 1) * f = n * f + f
OBVIOUS

LEMMA MultiplesGrow ==
  ASSUME NEW f \in Nat, NEW m \in Nat, NEW n \in Nat, m <= n
  PROVE  m * f <= n * f
<1>1. n = m + (n - m) /\ n - m \in Nat
  OBVIOUS
<1>2. \A d \in Nat : (m + d) * f = m * f + d * f /\ d * f >= 0 /\ m * f \in Nat
  OBVIOUS
<1>. QED BY <1>1, <1>2

LEMMA FullBlocksType ==
  /\ FullBlocks(0) = 0
  /\ \A n \in Nat : FullBlocks(n) \in Nat /\ FullBlocks(n + 1) = FullBlocks(n) + Full
  /\ \A m, n \in Nat : m <= n => FullBlocks(m) <= FullBlocks(n)
<1>1. FullBlocks(0) = 0
  BY CapacityType DEF FullBlocks
<1>2. \A n \in Nat : FullBlocks(n) \in Nat /\ FullBlocks(n + 1) = FullBlocks(n) + Full
  BY CapacityType, Multiples DEF FullBlocks
<1>3. \A m, n \in Nat : m <= n => FullBlocks(m) <= FullBlocks(n)
  BY CapacityType, MultiplesGrow DEF FullBlocks
<1>. QED BY <1>1, <1>2, <1>3

-----------------------------------------------------------------------------
(* What the parser takes.                                                  *)

LEMMA TakeNext ==
  ASSUME taken \in Seq(Nat \union {Behind}), NEW n \in Nat, HasTaken(n),
         taken' = Append(taken, n + 1)
  PROVE  HasTaken(n + 1)'
<1>1. /\ DOMAIN taken' = DOMAIN taken \union {Len(taken) + 1}
      /\ taken'[Len(taken) + 1] = n + 1
      /\ \A k \in DOMAIN taken : taken'[k] = taken[k] /\ k < Len(taken) + 1
      /\ Len(taken) + 1 \in Nat /\ DOMAIN taken \subseteq Nat
      /\ \A k \in DOMAIN taken : taken[k] \in Nat \union {Behind}
  OBVIOUS
<1>2. {taken'[k] : k \in DOMAIN taken'} = {taken[k] : k \in DOMAIN taken} \union {n + 1}
  BY <1>1
<1>3. {taken'[k] : k \in DOMAIN taken'} \ {Zeroed, Behind} = 1 .. n + 1
  <2>1. n + 1 \notin {Zeroed, Behind}
    BY DEF Zeroed, Behind
  <2>2. {taken[k] : k \in DOMAIN taken} \ {Zeroed, Behind} = 1 .. n
    BY DEF HasTaken
  <2>3. (1 .. n) \union {n + 1} = 1 .. n + 1
    OBVIOUS
  <2>. QED BY <1>2, <2>1, <2>2, <2>3
<1>4. \A k \in DOMAIN taken : taken[k] > 0 => taken[k] <= n
  BY <1>1 DEF HasTaken, Zeroed, Behind
<1>5. ASSUME NEW k \in DOMAIN taken', NEW l \in DOMAIN taken',
             k < l, taken'[k] > 0, taken'[l] > 0
      PROVE  taken'[k] < taken'[l]
  <2>1. k \in DOMAIN taken
    BY <1>1, <1>5
  <2>2. CASE l \in DOMAIN taken
    BY <1>1, <1>5, <2>1, <2>2 DEF HasTaken
  <2>3. CASE l = Len(taken) + 1
    <3>1. taken[k] <= n /\ taken[k] \in Nat \union {Behind}
      BY <1>1, <1>4, <1>5, <2>1
    <3>. QED BY <1>1, <1>5, <2>1, <2>3, <3>1 DEF Behind
  <2>. QED BY <1>1, <2>2, <2>3
<1>. QED BY <1>3, <1>5 DEF HasTaken

LEMMA TakeOneToken ==
  ASSUME taken \in Seq(Nat \union {Behind}), NEW x, x > 0, TakesOnlyTokens,
         taken' = Append(taken, x)
  PROVE  TakesOnlyTokens'
<1>1. /\ DOMAIN taken' = DOMAIN taken \union {Len(taken) + 1}
      /\ taken'[Len(taken) + 1] = x
      /\ \A k \in DOMAIN taken : taken'[k] = taken[k]
  OBVIOUS
<1>. QED BY <1>1 DEF TakesOnlyTokens

LEMMA TakeNothing ==
  ASSUME taken \in Seq(Nat \union {Behind}), NEW n \in Nat, HasTaken(n),
         NEW x \in {Zeroed, Behind}, taken' = Append(taken, x)
  PROVE  HasTaken(n)'
<1>1. /\ DOMAIN taken' = DOMAIN taken \union {Len(taken) + 1}
      /\ taken'[Len(taken) + 1] = x
      /\ \A k \in DOMAIN taken : taken'[k] = taken[k] /\ k < Len(taken) + 1
      /\ ~(x > 0)
  BY DEF Zeroed, Behind
<1>2. {taken'[k] : k \in DOMAIN taken'} = {taken[k] : k \in DOMAIN taken} \union {x}
  BY <1>1
<1>3. {taken'[k] : k \in DOMAIN taken'} \ {Zeroed, Behind} = 1 .. n
  BY <1>2 DEF HasTaken
<1>. QED BY <1>1, <1>3 DEF HasTaken

-----------------------------------------------------------------------------
(* The steps.                                                              *)

LEMMA InitStreamInv == StreamInit => StreamInv
<1>. SUFFICES ASSUME StreamInit PROVE StreamInv
  OBVIOUS
<1>. USE DEF StreamInit
<1>1. StreamTypeOK
  <2>1. blocks \in Seq(Block) /\ taken \in Seq(Nat \union {Behind}) /\ Len(blocks) = 0
    OBVIOUS
  <2>2. 0 \in 0 .. Capacity - 1 /\ 0 \in 0 .. Capacity /\ 0 \in 0 .. MaxTokens /\ 0 \in 0 .. 0
    BY StreamAssumption
  <2>3. cur_block \in 0 .. Len(blocks)
    BY <2>1, <2>2
  <2>. QED BY <2>1, <2>2, <2>3 DEF StreamTypeOK
<1>2. PlacesHold /\ AllAreWritten
  BY DEF PlacesHold, AllAreWritten
<1>3. StreamIsSource
  BY DEF StreamIsSource
<1>4. NoTokenMissed
  <2>1. HasTaken(0)
    BY DEF HasTaken
  <2>. QED BY <2>1 DEF NoTokenMissed
<1>. QED BY <1>1, <1>2, <1>3, <1>4
     DEF StreamInv, LexerAlone, ParserInStream, OneBlockTakesOnlyTokens, TakesOnlyTokens

\* A token is appended at the end, place t of block n, and all other places stay
\* as they are.
AppendedAt(n, t) ==
  /\ blocks' \in Seq(Block) /\ Len(blocks') = n /\ tail_len' = t + 1
  /\ blocks'[n][t] = written + 1
  /\ written + 1 = FullBlocks(n - 1) + t + 1
  /\ \A b \in DOMAIN blocks, i \in Place :
       (b # n \/ i # t) => blocks'[b][i] = blocks[b][i]
  /\ \/ n = Len(blocks) /\ t = tail_len
     \/ /\ n = Len(blocks) + 1 /\ t = 0
        /\ blocks # <<>> => tail_len = Full
        /\ \A i \in Place \ {0} : blocks'[n][i] = Zeroed

LEMMA AppendPlace ==
  ASSUME StreamInv, AppendToken
  PROVE  \E n \in Nat \ {0}, t \in 0 .. Full - 1 : AppendedAt(n, t)
<1>1. /\ blocks \in Seq(Block) /\ tail_len \in 0 .. Full /\ written \in Nat /\ AllAreWritten
  BY CapacityType DEF AppendToken, StreamInv, StreamTypeOK, LexerAlone
<1>2. CASE TailHasRoom
  <2>. DEFINE n == Len(blocks)
  <2>1. /\ n \in DOMAIN blocks /\ n \in Nat \ {0} /\ blocks[n] \in Block
        /\ tail_len \in 0 .. Full - 1 /\ tail_len \in Place
        /\ blocks' = [blocks EXCEPT ![n][tail_len] = written + 1] /\ tail_len' = tail_len + 1
    BY <1>1, <1>2, CapacityType DEF TailHasRoom, AppendToken, Place
  <2>2. [blocks[n] EXCEPT ![tail_len] = written + 1] \in Block
    BY <1>1, <2>1 DEF Block
  <2>3. written + 1 = FullBlocks(n - 1) + tail_len + 1
    <3>1. n - 1 \in Nat
      BY <1>1, <2>1
    <3>2. FullBlocks(n - 1) \in Nat
      BY <3>1, FullBlocksType
    <3>. QED BY <1>1, <1>2, <2>1, <3>2 DEF AllAreWritten, TailHasRoom
  <2>4. n = Len(blocks)
    OBVIOUS
  <2>. HIDE DEF n
  <2>5. blocks' = [blocks EXCEPT ![n] = [blocks[n] EXCEPT ![tail_len] = written + 1]]
    BY <2>1
  <2>6. blocks' \in Seq(Block) /\ Len(blocks') = n
    BY <1>1, <2>1, <2>2, <2>4, <2>5
  <2>7. blocks'[n][tail_len] = written + 1
    BY <1>1, <2>1, <2>5 DEF Block
  <2>8. \A b \in DOMAIN blocks, i \in Place :
          (b # n \/ i # tail_len) => blocks'[b][i] = blocks[b][i]
    BY <1>1, <2>1, <2>5 DEF Block
  <2>9. AppendedAt(n, tail_len)
    BY <2>1, <2>3, <2>4, <2>6, <2>7, <2>8 DEF AppendedAt
  <2>. QED BY <2>1, <2>9
<1>3. CASE ~TailHasRoom
  <2>. DEFINE e == [EmptyBlock EXCEPT ![0] = written + 1]
  <2>1. /\ blocks' = Append(blocks, e) /\ tail_len' = 1
    BY <1>3 DEF AppendToken
  <2>2. e \in Block /\ e[0] = written + 1 /\ \A i \in Place \ {0} : e[i] = Zeroed
    BY <1>1, CapacityType DEF EmptyBlock, Block, Zeroed, Place
  <2>. HIDE DEF e
  <2>. DEFINE n == Len(blocks) + 1
  <2>3. /\ blocks' \in Seq(Block) /\ Len(blocks') = n /\ Len(blocks) \in Nat
        /\ blocks'[n] = e
        /\ \A b \in DOMAIN blocks : b # n /\ blocks'[b] = blocks[b]
    BY <1>1, <2>1, <2>2
  <2>4. blocks # <<>> => tail_len = Full
    BY <1>1, <1>3, CapacityType DEF TailHasRoom, Full
  <2>5. written = FullBlocks(Len(blocks))
    <3>1. CASE blocks = <<>>
      BY <1>1, <3>1, FullBlocksType DEF AllAreWritten
    <3>2. CASE blocks # <<>>
      <4>1. Len(blocks) - 1 \in Nat /\ (Len(blocks) - 1) + 1 = Len(blocks)
        BY <1>1, <3>2
      <4>2. FullBlocks(Len(blocks)) = FullBlocks(Len(blocks) - 1) + Full
            /\ FullBlocks(Len(blocks) - 1) \in Nat
        BY <4>1, FullBlocksType
      <4>. QED BY <1>1, <2>4, <3>2, <4>2 DEF AllAreWritten
    <3>. QED BY <3>1, <3>2
  <2>6. n - 1 = Len(blocks) /\ n \in Nat \ {0} /\ n = Len(blocks) + 1
    BY <2>3
  <2>. HIDE DEF n
  <2>7. /\ blocks'[n][0] = written + 1
        /\ \A b \in DOMAIN blocks, i \in Place : blocks'[b][i] = blocks[b][i]
        /\ \A i \in Place \ {0} : blocks'[n][i] = Zeroed
    BY <2>2, <2>3
  <2>8. written + 1 = FullBlocks(n - 1) + 0 + 1 /\ tail_len' = 0 + 1
    BY <1>1, <2>1, <2>5, <2>6
  <2>9. AppendedAt(n, 0)
    BY <2>3, <2>4, <2>6, <2>7, <2>8 DEF AppendedAt
  <2>10. 0 \in 0 .. Full - 1
    BY CapacityType
  <2>. QED BY <2>6, <2>9, <2>10
<1>. QED BY <1>2, <1>3

LEMMA AppendKeepsInv == StreamInv /\ AppendToken => StreamInv'
<1>. SUFFICES ASSUME StreamInv, AppendToken PROVE StreamInv'
  OBVIOUS
<1>1. /\ written \in Nat /\ written' = written + 1 /\ written < MaxTokens
      /\ phase = "lex" /\ UNCHANGED <<phase, cur_block, next_offset, taken, parser_aborted>>
      /\ blocks \in Seq(Block) /\ tail_len \in 0 .. Full /\ PlacesHold /\ StreamIsSource
  BY CapacityType DEF AppendToken, parserVars, StreamInv, StreamTypeOK
<1>2. PICK n \in Nat \ {0}, t \in 0 .. Full - 1 : AppendedAt(n, t)
  BY AppendPlace
<1>3. /\ blocks' \in Seq(Block) /\ Len(blocks') = n /\ tail_len' = t + 1
      /\ blocks'[n][t] = written'
      /\ written' = FullBlocks(n - 1) + t + 1
      /\ \A b \in DOMAIN blocks, i \in Place :
           (b # n \/ i # t) => blocks'[b][i] = blocks[b][i]
      /\ \/ n = Len(blocks) /\ t = tail_len
         \/ /\ n = Len(blocks) + 1 /\ t = 0
            /\ blocks # <<>> => tail_len = Full
            /\ \A i \in Place \ {0} : blocks'[n][i] = Zeroed
  BY <1>1, <1>2 DEF AppendedAt
<1>4. /\ n \in DOMAIN blocks' /\ t \in Place /\ t \in Nat /\ Len(blocks) \in Nat
      /\ DOMAIN blocks = 1 .. Len(blocks) /\ DOMAIN blocks' = 1 .. n
      /\ DOMAIN blocks' = DOMAIN blocks \union {n}
      /\ Place \subseteq Nat
  BY <1>1, <1>3, CapacityType DEF Place
<1>5. StreamTypeOK'
  <2>1. tail_len' \in 0 .. Capacity - 1 /\ written' \in 0 .. MaxTokens
    BY <1>1, <1>3, CapacityType, StreamAssumption
  <2>2. cur_block = 0 /\ Len(blocks') \in Nat
    BY <1>1, <1>3 DEF StreamInv, LexerAlone
  <2>. QED BY <1>1, <1>3, <2>1, <2>2 DEF StreamInv, StreamTypeOK
<1>6. \A b : LenOf(b)' = IF b = n THEN t + 1 ELSE Full
  BY <1>3 DEF LenOf, Full
<1>7. PlacesHold'
  <2>. SUFFICES ASSUME NEW b \in DOMAIN blocks', NEW i \in Place
                PROVE  blocks'[b][i] = IF i < LenOf(b)' THEN FullBlocks(b - 1) + i + 1 ELSE Zeroed
    BY DEF PlacesHold, FullBlocks, Full
  <2>1. LenOf(b)' = IF b = n THEN t + 1 ELSE Full
    BY <1>6
  <2>2. CASE b = n /\ i = t
    <3>1. i < LenOf(b)'
      BY <1>4, <2>1, <2>2
    <3>2. blocks'[b][i] = FullBlocks(b - 1) + i + 1
      BY <1>3, <2>2
    <3>. QED BY <3>1, <3>2
  <2>3. CASE b \in DOMAIN blocks /\ (b # n \/ i # t)
    <3>1. blocks'[b][i] = blocks[b][i]
      BY <1>3, <2>3
    <3>2. blocks[b][i] = IF i < LenOf(b) THEN FullBlocks(b - 1) + i + 1 ELSE Zeroed
      BY <1>1, <2>3 DEF PlacesHold
    <3>3. i < LenOf(b) <=> i < LenOf(b)'
      <4>1. CASE n = Len(blocks) /\ t = tail_len
        BY <1>4, <2>1, <2>3, <4>1 DEF LenOf
      <4>2. CASE n = Len(blocks) + 1 /\ (blocks # <<>> => tail_len = Full)
        <5>1. b # n /\ blocks # <<>>
          BY <1>1, <1>4, <2>3, <4>2
        <5>. QED BY <2>1, <4>2, <5>1 DEF LenOf
      <4>. QED BY <1>3, <4>1, <4>2
    <3>. QED BY <3>1, <3>2, <3>3
  <2>4. CASE b = n /\ n = Len(blocks) + 1 /\ i # t
    <3>1. n # Len(blocks)
      <4>1. Len(blocks) \in Nat
        BY <1>4
      <4>. QED BY <2>4, <4>1
    <3>2. t = 0 /\ \A k \in Place \ {0} : blocks'[n][k] = Zeroed
      BY <1>3, <3>1
    <3>3. blocks'[b][i] = Zeroed /\ ~(i < 1)
      BY <1>4, <2>4, <3>2
    <3>. QED BY <2>1, <2>4, <3>2, <3>3
  <2>. QED BY <1>3, <1>4, <2>2, <2>3, <2>4
<1>8. AllAreWritten'
  <2>1. blocks' # <<>> /\ Len(blocks') = n
    BY <1>3
  <2>2. t \in Nat /\ tail_len' = t + 1 /\ written' = FullBlocks(n - 1) + t + 1
    BY <1>3, <1>4
  <2>3. FullBlocks(n - 1) \in Nat
    BY FullBlocksType
  <2>4. tail_len' >= 1 /\ written' = FullBlocks(n - 1) + tail_len'
    BY <2>2, <2>3
  <2>. QED BY <2>1, <2>4 DEF AllAreWritten
<1>9. StreamIsSource'
  <2>. DEFINE old == {blocks[b][i] : b \in DOMAIN blocks, i \in Place}
              new == {blocks'[b][i] : b \in DOMAIN blocks', i \in Place}
  <2>1. old \ {Zeroed} = 1 .. written
        /\ \A b, c \in DOMAIN blocks, i, j \in Place :
             Before(b, i, c, j) /\ Zeroed \notin {blocks[b][i], blocks[c][j]} =>
               blocks[b][i] < blocks[c][j]
    BY <1>1 DEF StreamIsSource
  <2>2. ASSUME NEW b \in DOMAIN blocks', NEW i \in Place
        PROVE  \/ b = n /\ i = t /\ blocks'[b][i] = written + 1
               \/ b \in DOMAIN blocks /\ blocks'[b][i] = blocks[b][i] /\ ~(b = n /\ i = t)
               \/ b = n /\ blocks'[b][i] = Zeroed /\ i # t
    <3>1. CASE b = n /\ i = t
      BY <1>1, <1>3, <3>1
    <3>2. CASE b \in DOMAIN blocks /\ (b # n \/ i # t)
      BY <1>3, <3>2
    <3>3. CASE b = n /\ n \notin DOMAIN blocks /\ i # t
      <4>1. n # Len(blocks)
        BY <1>4, <3>3
      <4>. QED BY <1>3, <3>3, <4>1
    <3>. QED BY <1>4, <3>1, <3>2, <3>3
  <2>3. n \in DOMAIN blocks => blocks[n][t] = Zeroed
    <3>. SUFFICES ASSUME n \in DOMAIN blocks PROVE blocks[n][t] = Zeroed
      OBVIOUS
    <3>1. n = Len(blocks) /\ t = tail_len
      <4>1. n # Len(blocks) + 1
        BY <1>4
      <4>. QED BY <1>3, <4>1
    <3>2. LenOf(n) = t
      BY <3>1 DEF LenOf
    <3>. QED BY <1>1, <1>4, <3>2 DEF PlacesHold
  <2>4. new \ {Zeroed} = (old \ {Zeroed}) \union {written + 1}
    <3>1. written + 1 # Zeroed
      BY <1>1 DEF Zeroed
    <3>2. new \ {Zeroed} \subseteq (old \ {Zeroed}) \union {written + 1}
      BY <2>2
    <3>3. written + 1 \in new
      <4>1. blocks'[n][t] \in new
        BY <1>4
      <4>2. blocks'[n][t] = written + 1
        BY <1>1, <1>3
      <4>. QED BY <4>1, <4>2
    <3>4. ASSUME NEW b \in DOMAIN blocks, NEW i \in Place, blocks[b][i] # Zeroed
          PROVE  blocks[b][i] \in new
      <4>1. b # n \/ i # t
        BY <2>3, <3>4
      <4>2. blocks'[b][i] = blocks[b][i] /\ b \in DOMAIN blocks'
        BY <1>3, <1>4, <4>1
      <4>. QED BY <4>2
    <3>. QED BY <3>1, <3>2, <3>3, <3>4
  <2>5. new \ {Zeroed} = 1 .. written'
    <3>1. (1 .. written) \union {written + 1} = 1 .. written + 1
      BY <1>1
    <3>2. old \ {Zeroed} = 1 .. written /\ written' = written + 1
      BY <1>1, <2>1
    <3>. HIDE DEF old, new
    <3>. QED BY <2>4, <3>1, <3>2
  <2>6. ASSUME NEW b \in DOMAIN blocks', NEW c \in DOMAIN blocks',
               NEW i \in Place, NEW j \in Place,
               Before(b, i, c, j), Zeroed \notin {blocks'[b][i], blocks'[c][j]}
        PROVE  blocks'[b][i] < blocks'[c][j]
    <3>1. ~(b = n /\ i = t)
      <4>. SUFFICES ASSUME b = n, i = t PROVE FALSE
        OBVIOUS
      <4>1. c = n /\ i < j
        BY <1>4, <2>6 DEF Before
      <4>2. ~(j < LenOf(n)')
        BY <1>4, <1>6, <4>1
      <4>3. blocks'[n][j] = Zeroed
        BY <1>4, <1>7, <4>2 DEF PlacesHold
      <4>. QED BY <2>6, <4>1, <4>3
    <3>2. b \in DOMAIN blocks /\ blocks'[b][i] = blocks[b][i]
      BY <2>2, <2>6, <3>1
    <3>3. CASE c = n /\ j = t
      <4>1. blocks[b][i] \in 1 .. written
        <5>1. blocks[b][i] \in old \ {Zeroed}
          BY <2>6, <3>2
        <5>. QED BY <2>1, <5>1
      <4>. QED BY <1>1, <1>3, <3>2, <3>3, <4>1
    <3>4. CASE ~(c = n /\ j = t)
      BY <2>1, <2>2, <2>6, <3>2, <3>4
    <3>. QED BY <3>3, <3>4
  <2>. QED BY <2>5, <2>6 DEF StreamIsSource
<1>10. LexerAlone' /\ ParserInStream'
  BY <1>1 DEF StreamInv, LexerAlone, ParserInStream
<1>11. NoTokenMissed' /\ OneBlockTakesOnlyTokens'
  <2>1. taken = <<>> /\ taken' = taken
    BY <1>1 DEF StreamInv, LexerAlone
  <2>2. HasTaken(0)'
    BY <2>1 DEF HasTaken
  <2>3. 0 \in 0 .. written'
    BY <1>1
  <2>. QED BY <2>1, <2>2, <2>3 DEF NoTokenMissed, HasTaken, OneBlockTakesOnlyTokens, TakesOnlyTokens
<1>. QED BY <1>5, <1>7, <1>8, <1>9, <1>10, <1>11 DEF StreamInv

LEMMA StartKeepsInv == StreamInv /\ StartParse => StreamInv'
<1>. SUFFICES ASSUME StreamInv, StartParse PROVE StreamInv'
  OBVIOUS
<1>1. /\ phase = "lex" /\ written > 0 /\ phase' = "parse" /\ cur_block' = 1
      /\ UNCHANGED <<blocks, tail_len, written, next_offset, taken, parser_aborted>>
      /\ next_offset = 0 /\ taken = <<>>
      /\ blocks \in Seq(Block) /\ tail_len \in Nat /\ PlacesHold /\ AllAreWritten
      /\ StreamIsSource
  BY CapacityType DEF StartParse, streamVars, StreamInv, StreamTypeOK, LexerAlone
<1>2. Len(blocks) \in Nat \ {0} /\ cur_block' \in 1 .. Len(blocks') /\ tail_len >= 1
  BY <1>1 DEF AllAreWritten
<1>3. StreamTypeOK'
  BY <1>1, <1>2 DEF StreamInv, StreamTypeOK
<1>4. PlacesHold' /\ AllAreWritten' /\ StreamIsSource'
  BY <1>1 DEF PlacesHold, AllAreWritten, StreamIsSource, LenOf, FullBlocks, Full, Before
<1>5. HasTaken(0)'
  BY <1>1 DEF HasTaken
<1>6. ParserInStream'
  <2>1. Passed' = 0
    <3>1. LenOf(1)' \in Nat /\ LenOf(1)' >= 1
      BY <1>1, <1>2, CapacityType DEF LenOf, Full
    <3>2. FullBlocks(1 - 1)' = 0
      BY FullBlocksType DEF FullBlocks, Full
    <3>. QED BY <1>1, <3>1, <3>2 DEF Passed
  <2>2. next_offset' <= CurLen'
    BY <1>1, <1>2, CapacityType DEF CurLen
  <2>. QED BY <1>2, <1>5, <2>1, <2>2 DEF ParserInStream, HasTaken
<1>7. NoTokenMissed' /\ OneBlockTakesOnlyTokens' /\ LexerAlone'
  <2>1. 0 \in 0 .. written'
    BY <1>1 DEF StreamInv, StreamTypeOK
  <2>. QED BY <1>1, <1>5, <2>1
       DEF NoTokenMissed, OneBlockTakesOnlyTokens, TakesOnlyTokens, LexerAlone
<1>. QED BY <1>3, <1>4, <1>6, <1>7 DEF StreamInv

\* In a stream of one block the parser stays in front of its free places.
LEMMA OneBlock ==
  ASSUME StreamInv, phase # "destroyed", written < Capacity
  PROVE  Len(blocks) <= 1
<1>1. blocks \in Seq(Block) /\ Len(blocks) \in Nat /\ tail_len \in Nat /\ written \in Nat /\ AllAreWritten
  BY CapacityType DEF StreamInv, StreamTypeOK
<1>. SUFFICES ASSUME ~(Len(blocks) <= 1) PROVE FALSE
  OBVIOUS
<1>2. Len(blocks) - 1 \in Nat /\ 1 <= Len(blocks) - 1 /\ blocks # <<>>
  BY <1>1
<1>3. FullBlocks(1) = Full
  <2>1. FullBlocks(0 + 1) = FullBlocks(0) + Full
    BY FullBlocksType
  <2>. QED BY <2>1, FullBlocksType, CapacityType
<1>4. Full <= FullBlocks(Len(blocks) - 1) /\ FullBlocks(Len(blocks) - 1) \in Nat
  BY <1>2, <1>3, FullBlocksType
<1>. QED BY <1>1, <1>2, <1>4, CapacityType DEF AllAreWritten

\* Where the parser is in the stream.
LEMMA WhereTheParserIs ==
  ASSUME StreamInv, phase = "parse"
  PROVE  /\ FullBlocks(cur_block - 1) \in Nat
         /\ FullBlocks(cur_block) = FullBlocks(cur_block - 1) + Full
         /\ LenOf(cur_block) \in 1 .. Full
         /\ CurLen = IF cur_block = Len(blocks) THEN LenOf(cur_block) ELSE Capacity
         /\ FullBlocks(cur_block - 1) + LenOf(cur_block) <= written
         /\ cur_block = Len(blocks) => FullBlocks(cur_block - 1) + LenOf(cur_block) = written
<1>1. /\ blocks \in Seq(Block) /\ tail_len \in 0 .. Full /\ written \in Nat
      /\ AllAreWritten /\ cur_block \in 1 .. Len(blocks)
  BY CapacityType DEF StreamInv, StreamTypeOK, ParserInStream
<1>2. /\ Len(blocks) \in Nat /\ cur_block \in Nat /\ cur_block - 1 \in Nat
      /\ cur_block = (cur_block - 1) + 1 /\ blocks # <<>> /\ Len(blocks) - 1 \in Nat
      /\ cur_block <= Len(blocks)
  BY <1>1
<1>3. /\ FullBlocks(cur_block - 1) \in Nat /\ FullBlocks(Len(blocks) - 1) \in Nat
      /\ FullBlocks(cur_block) = FullBlocks(cur_block - 1) + Full
  BY <1>2, FullBlocksType
<1>4. tail_len >= 1 /\ written = FullBlocks(Len(blocks) - 1) + tail_len
  BY <1>1, <1>2 DEF AllAreWritten
<1>5. LenOf(cur_block) \in 1 .. Full
  BY <1>1, <1>4, CapacityType DEF LenOf
<1>6. CASE cur_block = Len(blocks)
  BY <1>1, <1>3, <1>4, <1>5, <1>6, CapacityType DEF LenOf, CurLen
<1>7. CASE cur_block # Len(blocks)
  <2>1. cur_block <= Len(blocks) - 1
    BY <1>2, <1>7
  <2>2. FullBlocks(cur_block) <= FullBlocks(Len(blocks) - 1)
    BY <1>2, <2>1, FullBlocksType
  <2>. QED BY <1>1, <1>3, <1>4, <1>5, <1>7, <2>2, CapacityType DEF LenOf, CurLen
<1>. QED BY <1>6, <1>7

LEMMA ConsumeKeepsInv == StreamInv /\ Consume => StreamInv'
<1>. SUFFICES ASSUME StreamInv, Consume PROVE StreamInv'
  OBVIOUS
<1>1. /\ phase = "parse" /\ UNCHANGED <<blocks, tail_len, written, phase>>
      /\ blocks \in Seq(Block) /\ tail_len \in 0 .. Full /\ written \in Nat
      /\ PlacesHold /\ AllAreWritten /\ StreamIsSource
      /\ cur_block \in 1 .. Len(blocks) /\ cur_block \in Nat /\ next_offset \in 0 .. Capacity
      /\ next_offset <= CurLen /\ HasTaken(Passed) /\ taken \in Seq(Nat \union {Behind})
      /\ NoTokenMissed /\ OneBlockTakesOnlyTokens
  BY CapacityType DEF Consume, streamVars, StreamInv, StreamTypeOK, ParserInStream
<1>2. PlacesHold' /\ AllAreWritten' /\ StreamIsSource' /\ LexerAlone'
  BY <1>1 DEF PlacesHold, AllAreWritten, StreamIsSource, LenOf, FullBlocks, Full, Before, LexerAlone
<1>3. CASE next_offset >= CurLen /\ IsEnd
  <2>1. UNCHANGED <<cur_block, next_offset, taken>> /\ parser_aborted' \in BOOLEAN
    BY <1>3 DEF Consume, parserVars
  <2>2. StreamTypeOK' /\ ParserInStream' /\ NoTokenMissed' /\ OneBlockTakesOnlyTokens'
    BY <1>1, <2>1 DEF StreamInv, StreamTypeOK, ParserInStream, NoTokenMissed, OneBlockTakesOnlyTokens,
       TakesOnlyTokens, HasTaken, Passed, CurLen, LenOf, FullBlocks, Full
  <2>. QED BY <1>2, <2>2 DEF StreamInv
<1>4. CASE ~(next_offset >= CurLen /\ IsEnd)
  <2>. DEFINE base == FullBlocks(cur_block - 1)
              len == LenOf(cur_block)
  <2>1. /\ base \in Nat /\ FullBlocks(cur_block) = base + Full /\ len \in 1 .. Full
        /\ CurLen = IF cur_block = Len(blocks) THEN len ELSE Capacity
        /\ base + len <= written /\ Len(blocks) \in Nat
        /\ Passed = base + (IF next_offset < len THEN next_offset ELSE len)
    BY <1>1, WhereTheParserIs DEF Passed
  <2>2. taken' = Append(taken, Peek) /\ parser_aborted' = parser_aborted
    BY <1>4 DEF Consume
  <2>. HIDE DEF base, len
  <2>3. CASE next_offset < len
    \* A token, the next one.
    <3>1. /\ next_offset < CurLen /\ next_offset + 1 <= CurLen
          /\ next_offset + 1 <= Capacity /\ next_offset + 1 <= len
      BY <1>1, <2>1, <2>3, CapacityType
    <3>2. cur_block' = cur_block /\ next_offset' = next_offset + 1
      BY <1>4, <3>1 DEF Consume
    <3>3. PICK n \in Nat : n = base + next_offset
      BY <1>1, <2>1
    <3>4. Peek = n + 1
      <4>1. next_offset \in Place /\ cur_block \in DOMAIN blocks
        BY <1>1, <3>1, CapacityType DEF Place
      <4>2. blocks[cur_block][next_offset] = base + next_offset + 1
        BY <1>1, <2>3, <4>1 DEF PlacesHold, base, len
      <4>. QED BY <3>3, <4>1, <4>2 DEF Peek
    <3>5. Passed = n
      BY <2>1, <2>3, <3>3
    <3>6. HasTaken(n + 1)'
      BY <1>1, <2>2, <3>4, <3>5, TakeNext
    <3>7. n + 1 \in 0 .. written
      BY <1>1, <2>1, <2>3, <3>3
    <3>8. Passed' = n + 1
      <4>1. Passed' = base + (IF next_offset' < len THEN next_offset' ELSE len)
        BY <1>1, <3>2 DEF Passed, LenOf, FullBlocks, Full, base, len
      <4>. QED BY <1>1, <2>1, <3>1, <3>2, <3>3, <4>1
    <3>9. StreamTypeOK'
      <4>1. next_offset + 1 \in 0 .. Capacity /\ taken' \in Seq(Nat \union {Behind})
        BY <1>1, <2>2, <3>1, <3>4, CapacityType
      <4>. QED BY <1>1, <2>2, <3>2, <4>1 DEF StreamInv, StreamTypeOK
    <3>10. ParserInStream'
      <4>1. CurLen' = CurLen
        BY <1>1, <3>2 DEF CurLen
      <4>. QED BY <1>1, <3>1, <3>2, <3>6, <3>8, <4>1 DEF ParserInStream, HasTaken
    <3>11. NoTokenMissed'
      BY <1>1, <3>6, <3>7 DEF NoTokenMissed, HasTaken
    <3>12. OneBlockTakesOnlyTokens'
      <4>1. Peek > 0
        BY <3>4
      <4>. QED BY <1>1, <2>2, <4>1, TakeOneToken DEF OneBlockTakesOnlyTokens
    <3>. QED BY <1>2, <3>9, <3>10, <3>11, <3>12 DEF StreamInv
  <2>4. CASE ~(next_offset < len)
    \* The free place of a block that is not the last, or what lies behind it.
    <3>1. cur_block # Len(blocks) /\ CurLen = Capacity /\ len = Full
      <4>1. cur_block # Len(blocks)
        <5>. SUFFICES ASSUME cur_block = Len(blocks) PROVE FALSE
          OBVIOUS
        <5>1. next_offset >= CurLen /\ next_offset >= tail_len
          BY <1>1, <2>1, <2>4, CapacityType DEF len, LenOf
        <5>. QED BY <1>4, <5>1 DEF IsEnd
      <4>. QED BY <2>1, <4>1 DEF len, LenOf
    <3>2. next_offset \in {Full, Capacity}
      BY <1>1, <2>4, <3>1, CapacityType
    <3>3. Peek \in {Zeroed, Behind}
      <4>1. CASE next_offset \in Place
        <5>1. blocks[cur_block][next_offset] = Zeroed
          BY <1>1, <2>4, <4>1 DEF PlacesHold, len
        <5>. QED BY <4>1, <5>1 DEF Peek
      <4>2. CASE next_offset \notin Place
        BY <4>2 DEF Peek
      <4>. QED BY <4>1, <4>2
    <3>4. PICK n \in Nat : n = base + len
      BY <2>1
    <3>5. HasTaken(n)'
      <4>1. Passed = n
        BY <2>1, <2>4, <3>4
      <4>. QED BY <1>1, <2>2, <3>3, <4>1, TakeNothing
    <3>6. ~(written < Capacity)
      <4>1. Len(blocks) > 1
        BY <1>1, <2>1, <3>1
      <4>. QED BY <1>1, <2>1, <4>1, OneBlock
    <3>7. NoTokenMissed' /\ OneBlockTakesOnlyTokens'
      <4>1. n \in 0 .. written
        BY <1>1, <2>1, <3>4
      <4>. QED BY <1>1, <3>5, <3>6, <4>1, StreamAssumption
           DEF NoTokenMissed, HasTaken, OneBlockTakesOnlyTokens
    <3>8. /\ \/ /\ next_offset = Full /\ next_offset' = Capacity /\ cur_block' = cur_block
             \/ next_offset = Capacity /\ next_offset' = 0 /\ cur_block' = cur_block + 1
          /\ cur_block' \in 1 .. Len(blocks)
          /\ next_offset' \in 0 .. Capacity
      <4>1. CASE next_offset = Full
        BY <1>1, <1>4, <3>1, <4>1, CapacityType DEF Consume
      <4>2. CASE next_offset = Capacity
        BY <1>1, <1>4, <2>1, <3>1, <4>2, CapacityType DEF Consume
      <4>. QED BY <3>2, <4>1, <4>2
    <3>9. StreamTypeOK'
      <4>1. taken' \in Seq(Nat \union {Behind})
        BY <1>1, <2>2, <3>3 DEF Zeroed, Behind
      <4>2. cur_block' \in 0 .. Len(blocks')
        BY <1>1, <2>1, <3>8
      <4>. QED BY <1>1, <2>2, <3>8, <4>1, <4>2 DEF StreamInv, StreamTypeOK
    <3>10. ParserInStream'
      <4>1. CASE next_offset = Full /\ next_offset' = Capacity /\ cur_block' = cur_block
        <5>1. Passed' = base + (IF next_offset' < len THEN next_offset' ELSE len)
          BY <1>1, <4>1 DEF Passed, LenOf, FullBlocks, Full, base, len
        <5>2. Passed' = n
          BY <2>1, <3>1, <3>4, <4>1, <5>1, CapacityType
        <5>3. CurLen' = Capacity
          BY <1>1, <3>1, <4>1 DEF CurLen
        <5>. QED BY <1>1, <3>5, <3>8, <4>1, <5>2, <5>3, CapacityType DEF ParserInStream, HasTaken
      <4>2. CASE next_offset = Capacity /\ next_offset' = 0 /\ cur_block' = cur_block + 1
        <5>1. cur_block \in Nat /\ (cur_block + 1) - 1 = cur_block
          BY <1>1
        <5>2. Passed' = FullBlocks(cur_block) + (IF 0 < LenOf(cur_block)' THEN 0 ELSE LenOf(cur_block)')
          <6>1. cur_block' - 1 = cur_block
            BY <4>2, <5>1
          <6>. QED BY <4>2, <6>1 DEF Passed, FullBlocks, Full
        <5>3. LenOf(cur_block)' \in Nat /\ CurLen' \in Nat
          BY <1>1, CapacityType DEF LenOf, CurLen, Full
        <5>4. Passed' = n
          BY <2>1, <3>1, <3>4, <5>2, <5>3
        <5>. QED BY <1>1, <3>5, <3>8, <4>2, <5>3, <5>4 DEF ParserInStream, HasTaken
      <4>. QED BY <3>8, <4>1, <4>2
    <3>. QED BY <1>2, <3>7, <3>9, <3>10 DEF StreamInv
  <2>. QED BY <2>3, <2>4
<1>. QED BY <1>3, <1>4

LEMMA DestroyKeepsInv == StreamInv /\ Destroy => StreamInv'
<1>. SUFFICES ASSUME StreamInv, Destroy PROVE StreamInv'
  OBVIOUS
<1>1. /\ phase' = "destroyed" /\ blocks' = <<>> /\ tail_len' = 0
      /\ UNCHANGED <<written, cur_block, next_offset, taken, parser_aborted>>
  BY DEF Destroy, parserVars
<1>2. StreamTypeOK'
  <2>1. 0 \in 0 .. Capacity - 1 /\ <<>> \in Seq(Block)
    BY StreamAssumption
  <2>. QED BY <1>1, <2>1 DEF StreamInv, StreamTypeOK
<1>3. NoTokenMissed' /\ OneBlockTakesOnlyTokens'
  BY <1>1 DEF StreamInv, NoTokenMissed, HasTaken, OneBlockTakesOnlyTokens, TakesOnlyTokens
<1>. QED BY <1>1, <1>2, <1>3 DEF StreamInv, StreamIsSource, LexerAlone, ParserInStream

LEMMA StutterKeepsInv == StreamInv /\ UNCHANGED tokenVars => StreamInv'
<1>. SUFFICES ASSUME StreamInv, UNCHANGED tokenVars PROVE StreamInv'
  OBVIOUS
<1>. USE DEF tokenVars, streamVars, parserVars
<1>1. StreamTypeOK'
  BY DEF StreamInv, StreamTypeOK
<1>2. (phase # "destroyed" => PlacesHold /\ AllAreWritten)'
  BY DEF StreamInv, PlacesHold, AllAreWritten, LenOf, FullBlocks, Full
<1>3. StreamIsSource' /\ LexerAlone'
  BY DEF StreamInv, StreamIsSource, Before, LexerAlone
<1>4. ParserInStream'
  BY DEF StreamInv, ParserInStream, HasTaken, Passed, CurLen, LenOf, FullBlocks, Full
<1>5. NoTokenMissed' /\ OneBlockTakesOnlyTokens'
  BY DEF StreamInv, NoTokenMissed, HasTaken, OneBlockTakesOnlyTokens, TakesOnlyTokens
<1>. QED BY <1>1, <1>2, <1>3, <1>4, <1>5 DEF StreamInv

-----------------------------------------------------------------------------
(* The theorems.                                                           *)

\* The lexer's blocks and the parser's place in them agree at every step
\* (mrv_tstream_append, mrv_parser_consume).
THEOREM StreamInvariant == StreamSpec => []StreamInv
<1>1. StreamInv /\ [StreamNext]_tokenVars => StreamInv'
  BY AppendKeepsInv, StartKeepsInv, ConsumeKeepsInv, DestroyKeepsInv, StutterKeepsInv DEF StreamNext
<1>. QED BY <1>1, InitStreamInv, PTL DEF StreamSpec

\* However many blocks the lexer fills, the stream holds every token it appended,
\* once and in order, and zero elsewhere (mrv_tstream_append, mirv.c 148-185).
THEOREM LexerKeepsTheSource == StreamSpec => []StreamIsKept
<1>1. StreamInv => StreamIsKept
  BY DEF StreamInv, StreamIsKept
<1>. QED BY <1>1, StreamInvariant, PTL

\* However many blocks it crosses, the parser takes the tokens in order, each
\* once, and sees the end only behind the last (mrv_parser_is_end,
\* mrv_parser_consume, mirv.c 683-740).
THEOREM ParserTakesEveryToken == StreamSpec => []ParserKeepsUp
<1>1. StreamInv => EndIsEnd
  <2>. SUFFICES ASSUME StreamInv, phase = "parse", IsEnd PROVE HasTaken(written)
    BY DEF EndIsEnd
  <2>1. HasTaken(Passed)
    BY DEF StreamInv, ParserInStream
  <2>2. cur_block = Len(blocks) /\ ~(next_offset < LenOf(cur_block))
    <3>1. tail_len \in Nat /\ next_offset \in Nat
      BY CapacityType, StreamAssumption DEF StreamInv, StreamTypeOK
    <3>. QED BY <3>1 DEF IsEnd, LenOf
  <2>3. Passed = written
    BY <2>2, WhereTheParserIs DEF Passed
  <2>. QED BY <2>1, <2>3
<1>2. StreamInv => ParserKeepsUp
  BY <1>1 DEF StreamInv, ParserKeepsUp
<1>. QED BY <1>2, StreamInvariant, PTL

\* In a source that fits one block the parser takes nothing but tokens: the free
\* places it takes for tokens are those at the end of a block that another follows.
THEOREM OneBlockIsRead == StreamSpec => []OneBlockTakesOnlyTokens
<1>1. StreamInv => OneBlockTakesOnlyTokens
  BY DEF StreamInv
<1>. QED BY <1>1, StreamInvariant, PTL

-----------------------------------------------------------------------------
(* The lexer.                                                              *)

\* A word is a token that is no mark.
WordKinds == {"Ident", "SymbolIdent", "Keyword"}

TokenKinds ==
  WordKinds \union SingleChars
    \union {"(", "Error", "EOF", "Unit", "RightArrow", "BeginHostType", "EndHostType"}

Tokens == [kind : TokenKinds, offset : Nat, len : Nat]

\* What is known of the text and of how far the lexer is.
LexTypes ==
  /\ text \in Seq(STRING) /\ Len(text) > 0
  /\ stream \in Seq(Tokens)
  /\ comments \in SUBSET [from : Nat, to : Nat]
  /\ TypeOK

LEMMA LeastOf ==
  ASSUME NEW a \in Nat, NEW b \in Nat, a <= b, NEW S \in SUBSET (a .. b), b \in S
  PROVE  /\ Min(S) \in S
         /\ \A x \in S : Min(S) <= x
<1>1. S \in SUBSET Nat /\ S # {}
  OBVIOUS
<1>2. \E n \in S : \A m \in S : n <= m
  BY <1>1, LeastNat
<1>. QED BY <1>2 DEF Min

LEMMA BlanksEnd ==
  ASSUME LexTypes
  PROVE  /\ AfterBlanks \in offset .. Len(text)
         /\ \A i \in offset .. AfterBlanks - 1 : CharAt(i) = Blank
         /\ AfterBlanks = Len(text) \/ CharAt(AfterBlanks) # Blank
<1>. DEFINE S == {i \in offset .. Len(text) : i = Len(text) \/ CharAt(i) # Blank}
<1>1. /\ offset \in Nat /\ Len(text) \in Nat /\ offset <= Len(text)
      /\ S \in SUBSET (offset .. Len(text)) /\ Len(text) \in S
  BY DEF LexTypes, TypeOK
<1>2. AfterBlanks = Min(S)
  BY DEF AfterBlanks
<1>3. /\ AfterBlanks \in S
      /\ \A x \in S : AfterBlanks <= x
  BY <1>1, <1>2, LeastOf
<1>4. ASSUME NEW i \in offset .. AfterBlanks - 1
      PROVE  CharAt(i) = Blank
  <2>1. i \in offset .. Len(text) /\ ~(AfterBlanks <= i)
    BY <1>1, <1>3
  <2>. QED BY <1>3, <2>1
<1>. QED BY <1>1, <1>3, <1>4

LEMMA WordsEnd ==
  ASSUME LexTypes, NEW i \in 0 .. Len(text)
  PROVE  /\ WordEnd(i) \in i .. Len(text)
         /\ \A j \in i .. WordEnd(i) - 1 : IsWordChar(CharAt(j))
         /\ WordEnd(i) = Len(text) \/ ~IsWordChar(CharAt(WordEnd(i)))
<1>. DEFINE S == {j \in i .. Len(text) : j = Len(text) \/ ~IsWordChar(CharAt(j))}
            e == WordEnd(i)
<1>1. /\ i \in Nat /\ Len(text) \in Nat /\ i <= Len(text)
      /\ S \in SUBSET (i .. Len(text)) /\ Len(text) \in S
  BY DEF LexTypes
<1>2. e = Min(S)
  BY DEF WordEnd
<1>3. e \in S /\ \A x \in S : e <= x
  BY <1>1, <1>2, LeastOf
<1>4. ASSUME NEW j \in i .. e - 1
      PROVE  IsWordChar(CharAt(j))
  <2>1. j \in i .. Len(text) /\ ~(e <= j)
    BY <1>1, <1>3
  <2>. QED BY <1>3, <2>1
<1>. QED BY <1>1, <1>3, <1>4

-----------------------------------------------------------------------------
(* What a step of the lexer that appends a token does.                     *)

IsMark(i) == CharAt(i) \in {Blank, NUL, "%"}

TakesToken(tok) ==
  /\ tok \in Tokens
  /\ stream' = Append(stream, tok)
  /\ text' = text /\ comments' = comments
  /\ offset' \in offset .. Len(text)
  /\ IsCut(tok) => offset <= tok.offset /\ End(tok) <= offset'
  /\ tok.kind \in WordKinds /\ End(tok) < Len(text) => ~IsWordChar(CharAt(End(tok)))
  /\ n_reported' = n_reported + (IF tok.kind = "Error" THEN 1 ELSE 0)
  /\ \A i \in offset .. offset' - 1 : IsMark(i) \/ i \in tok.offset .. End(tok) - 1

\* An error that has no place.
LEMMA NowhereIsTaken ==
  ASSUME LexTypes, NEW i \in offset .. Len(text),
         \A j \in offset .. i - 1 : IsMark(j),
         text' = text, comments' = comments,
         Emit(Token("Error", 0, 0)), n_reported' = n_reported + 1, offset' = i
  PROVE  \E tok : TakesToken(tok)
<1>. DEFINE tok == [kind |-> "Error", offset |-> 0, len |-> 0]
<1>1. offset \in Nat /\ Len(text) \in Nat /\ i \in Nat /\ offset <= i /\ i <= Len(text) /\ n_reported \in Nat
  BY DEF LexTypes, TypeOK
<1>2. stream' = Append(stream, tok)
  BY DEF Emit, Token
<1>3. tok.kind = "Error" /\ tok.len = 0 /\ tok \in Tokens
  BY DEF Tokens, TokenKinds
<1>. HIDE DEF tok
<1>4. ~IsCut(tok) /\ tok.kind \notin WordKinds
  BY <1>3 DEF IsCut, WordKinds
<1>5. n_reported' = n_reported + (IF tok.kind = "Error" THEN 1 ELSE 0)
  BY <1>1, <1>3
<1>6. \A j \in offset .. offset' - 1 : IsMark(j)
  OBVIOUS
<1>7. TakesToken(tok)
  BY <1>1, <1>2, <1>3, <1>4, <1>5, <1>6 DEF TakesToken
<1>. QED BY <1>7

\* From where the blanks end, or a character on.
LEMMA IdentIsTaken ==
  ASSUME LexTypes, NEW i \in offset .. Len(text), NEW kind \in {"Ident", "SymbolIdent"},
         \A j \in offset .. i - 1 : IsMark(j),
         text' = text, comments' = comments,
         ScanIdent(i, kind)
  PROVE  \E tok : TakesToken(tok)
<1>. DEFINE e == WordEnd(i)
            word == WordKind(SubSeq(text, i + 1, e), kind)
<1>1. offset \in Nat /\ Len(text) \in Nat /\ i \in Nat /\ offset <= i /\ i <= Len(text)
  BY DEF LexTypes, TypeOK
<1>2. /\ e \in i .. Len(text)
      /\ e = Len(text) \/ ~IsWordChar(CharAt(e))
  BY <1>1, WordsEnd
<1>3. word \in WordKinds
  BY DEF WordKind, WordKinds
<1>. HIDE DEF word
<1>4. CASE e = i
  <2>1. Emit(Token("Error", 0, 0)) /\ n_reported' = n_reported + 1 /\ offset' = i
    BY <1>4 DEF ScanIdent
  <2>. QED BY <2>1, NowhereIsTaken
<1>5. CASE e # i
  <2>. DEFINE tok == [kind |-> word, offset |-> i, len |-> e - i]
  <2>1. stream' = Append(stream, tok) /\ n_reported' = n_reported /\ offset' = e
    BY <1>5 DEF ScanIdent, Emit, Token, word
  <2>. HIDE DEF e
  <2>a. word \in TokenKinds /\ i \in Nat /\ e - i \in Nat /\ i + (e - i) = e
    BY <1>1, <1>2, <1>3 DEF TokenKinds
  <2>b. tok.kind = word /\ tok.offset = i /\ tok.len = e - i /\ tok \in Tokens
    BY <2>a DEF Tokens
  <2>. HIDE DEF tok
  <2>2. /\ tok.kind = word /\ tok.offset = i /\ tok.len = e - i /\ tok \in Tokens
        /\ End(tok) = e
    BY <2>a, <2>b DEF End
  <2>3. word # "Error"
    BY <1>3 DEF WordKinds
  <2>4. n_reported \in Int
    BY DEF LexTypes, TypeOK
  <2>5. n_reported' = n_reported + (IF tok.kind = "Error" THEN 1 ELSE 0)
    BY <2>1, <2>2, <2>3, <2>4
  <2>6. e \in Nat /\ i <= e /\ e <= Len(text)
    BY <1>1, <1>2
  <2>7. \A j \in offset .. e - 1 : IsMark(j) \/ j \in i .. e - 1
    BY <1>1, <2>6
  <2>8. TakesToken(tok)
    BY <1>1, <1>2, <2>1, <2>2, <2>5, <2>6, <2>7 DEF TakesToken
  <2>. QED BY <2>8
<1>. QED BY <1>4, <1>5

\* A token of n characters, none of them read as a word.
LEMMA MarkIsTaken ==
  ASSUME LexTypes, NEW i \in offset .. Len(text), NEW n \in 1 .. 2, NEW kind \in TokenKinds,
         i + n <= Len(text), kind \notin WordKinds, kind # "Error",
         \A j \in offset .. i - 1 : IsMark(j),
         text' = text, comments' = comments, n_reported' = n_reported,
         offset' = i + n, Emit(Token(kind, i, n))
  PROVE  \E tok : TakesToken(tok)
<1>. DEFINE tok == [kind |-> kind, offset |-> i, len |-> n]
<1>1. offset \in Nat /\ Len(text) \in Nat /\ i \in Nat /\ offset <= i /\ n \in Nat /\ n_reported \in Nat
  BY DEF LexTypes, TypeOK
<1>2. stream' = Append(stream, tok)
  BY DEF Emit, Token
<1>3. /\ tok.kind = kind /\ tok.offset = i /\ tok.len = n /\ tok \in Tokens
      /\ End(tok) = i + n
  BY <1>1 DEF Tokens, End
<1>. HIDE DEF tok
<1>4. \A j \in offset .. i + n - 1 : IsMark(j) \/ j \in i .. i + n - 1
  BY <1>1
<1>5. n_reported' = n_reported + (IF tok.kind = "Error" THEN 1 ELSE 0)
  BY <1>1, <1>3
<1>6. TakesToken(tok)
  BY <1>1, <1>2, <1>3, <1>4, <1>5 DEF TakesToken
<1>. QED BY <1>6

LEMMA ErrorIsTaken ==
  ASSUME LexTypes, NEW i \in offset .. Len(text),
         \A j \in offset .. i - 1 : IsMark(j),
         text' = text, comments' = comments,
         UnexpectedChar(i)
  PROVE  \E tok : TakesToken(tok)
<1>. DEFINE tok == [kind |-> "Error", offset |-> i, len |-> 1]
<1>1. offset \in Nat /\ Len(text) \in Nat /\ i \in Nat /\ offset <= i /\ i <= Len(text) /\ n_reported \in Nat
  BY DEF LexTypes, TypeOK
<1>2. /\ stream' = Append(stream, tok) /\ n_reported' = n_reported + 1
      /\ offset' = IF i < Len(text) THEN i + 1 ELSE i
  BY DEF UnexpectedChar, Emit, Token, Skipped
<1>a. tok.kind = "Error" /\ tok.offset = i /\ tok.len = 1 /\ tok \in Tokens
  BY <1>1 DEF Tokens, TokenKinds
<1>. HIDE DEF tok
<1>3. /\ tok.kind = "Error" /\ tok.offset = i /\ tok.len = 1 /\ tok \in Tokens
      /\ End(tok) = i + 1
      /\ IsCut(tok) <=> i < Len(text)
  BY <1>1, <1>a DEF End, IsCut
<1>4. \A j \in offset .. offset' - 1 : IsMark(j) \/ j \in i .. (i + 1) - 1
  BY <1>1, <1>2
<1>5. TakesToken(tok)
  BY <1>1, <1>2, <1>3, <1>4 DEF TakesToken, WordKinds
<1>. QED BY <1>5

LEMMA CharIsTaken ==
  ASSUME LexTypes, NEW i \in offset .. Len(text), CharAt(i) \in SingleChars \union {"("},
         \A j \in offset .. i - 1 : IsMark(j),
         text' = text, comments' = comments,
         ConsumeChar(i)
  PROVE  \E tok : TakesToken(tok)
<1>1. offset \in Nat /\ Len(text) \in Nat /\ i \in Nat /\ offset <= i /\ i <= Len(text) /\ n_reported \in Nat
  BY DEF LexTypes, TypeOK
<1>2. CASE i >= Len(text)
  <2>1. Emit(Token("Error", 0, 0)) /\ n_reported' = n_reported + 1 /\ offset' = i
    BY <1>2 DEF ConsumeChar
  <2>. QED BY <2>1, NowhereIsTaken
<1>3. CASE ~(i >= Len(text))
  <2>1. /\ Emit(Token(CharAt(i), i, 1))
        /\ offset' = i + 1 /\ n_reported' = n_reported
    BY <1>3 DEF ConsumeChar
  <2>2. \A c \in SingleChars \union {"("} : c \in TokenKinds /\ c # "Error" /\ c \notin WordKinds
    BY DEF SingleChars, TokenKinds, WordKinds
  <2>3. i + 1 <= Len(text) /\ 1 \in 1 .. 2
    BY <1>1, <1>3
  <2>4. CharAt(i) \in TokenKinds /\ CharAt(i) # "Error" /\ CharAt(i) \notin WordKinds
    BY <2>2
  <2>. QED BY <2>1, <2>3, <2>4, MarkIsTaken
<1>. QED BY <1>2, <1>3

LEMMA PairIsTaken ==
  ASSUME LexTypes, NEW i \in offset .. Len(text), NEW kind \in TokenKinds, NEW x, NEW y,
         kind \notin WordKinds, kind # "Error",
         \A j \in offset .. i - 1 : IsMark(j),
         text' = text, comments' = comments,
         TakePair(i, <<x, y>>, kind)
  PROVE  \E tok : TakesToken(tok)
<1>1. CASE Matches(i, <<x, y>>)
  <2>1. Emit(Token(kind, i, 2)) /\ offset' = i + 2 /\ n_reported' = n_reported
    BY <1>1 DEF TakePair
  <2>2. i + 2 < Len(text)
    BY <1>1 DEF Matches
  <2>3. i + 2 <= Len(text) /\ 2 \in 1 .. 2
    BY <2>2 DEF LexTypes
  <2>. QED BY <2>1, <2>3, MarkIsTaken
<1>2. CASE ~Matches(i, <<x, y>>)
  <2>1. UnexpectedChar(i)
    BY <1>2 DEF TakePair
  <2>. QED BY <2>1, ErrorIsTaken
<1>. QED BY <1>1, <1>2

-----------------------------------------------------------------------------
(* The rounds of the lexer: each takes a token or passes over characters.  *)

\* Where the blanks end.
LEMMA RoundBegins ==
  ASSUME LexTypes
  PROVE  /\ AfterBlanks \in offset .. Len(text)
         /\ \A j \in offset .. AfterBlanks - 1 : IsMark(j)
BY BlanksEnd DEF IsMark

LEMMA IdentTakes ==
  ASSUME LexTypes, LexIdent
  PROVE  \E tok : TakesToken(tok)
<1>1. ScanIdent(AfterBlanks, "Ident") /\ text' = text /\ comments' = comments
  BY DEF LexIdent, Round, inputVars
<1>. QED BY <1>1, RoundBegins, IdentIsTaken

LEMMA SymbolTakes ==
  ASSUME LexTypes, LexSymbol
  PROVE  \E tok : TakesToken(tok)
<1>. DEFINE i == AfterBlanks
            s == Skipped(i)
<1>1. /\ ScanIdent(s, "SymbolIdent") /\ text' = text /\ comments' = comments
      /\ CharAt(i) = "%"
  BY DEF LexSymbol, Round, inputVars
<1>2. i \in offset .. Len(text) /\ \A j \in offset .. i - 1 : IsMark(j)
  BY RoundBegins
<1>3. offset \in Nat /\ Len(text) \in Nat
  BY DEF LexTypes, TypeOK
<1>4. IsMark(i)
  BY <1>1 DEF IsMark
<1>5. s = (IF i < Len(text) THEN i + 1 ELSE i)
  BY DEF Skipped
<1>. HIDE DEF i, s
<1>6. s \in offset .. Len(text) /\ \A j \in offset .. s - 1 : j = i \/ j \in offset .. i - 1
  BY <1>2, <1>3, <1>5
<1>7. \A j \in offset .. s - 1 : IsMark(j)
  BY <1>2, <1>4, <1>6
<1>. QED BY <1>1, <1>6, <1>7, IdentIsTaken

LEMMA ArrowTakes ==
  ASSUME LexTypes, LexArrow
  PROVE  \/ \E tok : TakesToken(tok)
         \/ UNCHANGED <<offset, stream, n_reported, comments, text>>
<1>. DEFINE i == AfterBlanks
<1>1. text' = text /\ comments' = comments
  BY DEF LexArrow, Round, inputVars
<1>2. i \in offset .. Len(text) /\ \A j \in offset .. i - 1 : IsMark(j)
  BY RoundBegins
<1>3. CASE i < Len(text) - 1 /\ CharAt(i + 1) = NUL
  BY <1>1, <1>3 DEF LexArrow
<1>4. CASE ~(i < Len(text) - 1 /\ CharAt(i + 1) = NUL)
  <2>1. CASE i < Len(text) - 1 /\ CharAt(i + 1) = ">"
    <3>1. Emit(Token("RightArrow", i, 2)) /\ offset' = i + 2 /\ n_reported' = n_reported
      BY <1>4, <2>1 DEF LexArrow
    <3>2. i + 2 <= Len(text) /\ 2 \in 1 .. 2
      BY <1>2, <2>1 DEF LexTypes, TypeOK
    <3>3. "RightArrow" \in TokenKinds /\ "RightArrow" \notin WordKinds /\ "RightArrow" # "Error"
      BY DEF TokenKinds, WordKinds
    <3>. HIDE DEF i
    <3>. QED BY <1>1, <1>2, <3>1, <3>2, <3>3, MarkIsTaken
  <2>2. CASE ~(i < Len(text) - 1 /\ CharAt(i + 1) = ">")
    <3>1. UnexpectedChar(i)
      BY <1>4, <2>2 DEF LexArrow
    <3>. HIDE DEF i
    <3>. QED BY <1>1, <1>2, <3>1, ErrorIsTaken
  <2>. QED BY <2>1, <2>2
<1>. QED BY <1>3, <1>4

LEMMA AngleTakes ==
  ASSUME LexTypes, LexAngle
  PROVE  \E tok : TakesToken(tok)
<1>. DEFINE i == AfterBlanks
<1>1. text' = text /\ comments' = comments
  BY DEF LexAngle, Round, inputVars
<1>2. i \in offset .. Len(text) /\ \A j \in offset .. i - 1 : IsMark(j)
  BY RoundBegins
<1>3. /\ "BeginHostType" \in TokenKinds /\ "BeginHostType" \notin WordKinds /\ "BeginHostType" # "Error"
      /\ "EndHostType" \in TokenKinds /\ "EndHostType" \notin WordKinds /\ "EndHostType" # "Error"
  BY DEF TokenKinds, WordKinds
<1>4. \/ TakePair(i, <<"<", "<">>, "BeginHostType")
      \/ TakePair(i, <<">", ">">>, "EndHostType")
  BY DEF LexAngle
<1>. HIDE DEF i
<1>5. CASE TakePair(i, <<"<", "<">>, "BeginHostType")
  BY <1>1, <1>2, <1>3, <1>5, PairIsTaken
<1>6. CASE TakePair(i, <<">", ">">>, "EndHostType")
  BY <1>1, <1>2, <1>3, <1>6, PairIsTaken
<1>. QED BY <1>4, <1>5, <1>6

LEMMA ParenTakes ==
  ASSUME LexTypes, LexParen
  PROVE  \E tok : TakesToken(tok)
<1>. DEFINE i == AfterBlanks
<1>1. /\ text' = text /\ comments' = comments
      /\ CharAt(i) = "("
  BY DEF LexParen, Round, inputVars
<1>2. i \in offset .. Len(text) /\ \A j \in offset .. i - 1 : IsMark(j)
  BY RoundBegins
<1>3. CASE Matches(i, <<"(", ")">>)
  <2>1. Emit(Token("Unit", i, 2)) /\ offset' = i + 2 /\ n_reported' = n_reported
    BY <1>3 DEF LexParen
  <2>2. i + 2 < Len(text)
    BY <1>3 DEF Matches
  <2>3. i + 2 <= Len(text) /\ 2 \in 1 .. 2
    BY <1>2, <2>2 DEF LexTypes, TypeOK
  <2>4. "Unit" \in TokenKinds /\ "Unit" \notin WordKinds /\ "Unit" # "Error"
    BY DEF TokenKinds, WordKinds
  <2>. HIDE DEF i
  <2>. QED BY <1>1, <1>2, <2>1, <2>3, <2>4, MarkIsTaken
<1>4. CASE ~Matches(i, <<"(", ")">>)
  <2>1. ConsumeChar(i) /\ CharAt(i) \in SingleChars \union {"("}
    BY <1>1, <1>4 DEF LexParen
  <2>. HIDE DEF i
  <2>. QED BY <1>1, <1>2, <2>1, CharIsTaken
<1>. QED BY <1>3, <1>4

LEMMA SingleTakes ==
  ASSUME LexTypes, LexSingleChar
  PROVE  \E tok : TakesToken(tok)
<1>1. /\ text' = text /\ comments' = comments
      /\ ConsumeChar(AfterBlanks)
      /\ CharAt(AfterBlanks) \in SingleChars \union {"("}
  BY DEF LexSingleChar, Round, inputVars
<1>. QED BY <1>1, RoundBegins, CharIsTaken

LEMMA UnexpectedTakes ==
  ASSUME LexTypes, LexUnexpected
  PROVE  \E tok : TakesToken(tok)
<1>1. text' = text /\ comments' = comments /\ UnexpectedChar(AfterBlanks)
  BY DEF LexUnexpected, inputVars
<1>. QED BY <1>1, RoundBegins, ErrorIsTaken

LEMMA EndTakes ==
  ASSUME LexTypes, EndOfFile
  PROVE  \E tok : TakesToken(tok)
<1>. DEFINE tok == [kind |-> "EOF", offset |-> offset, len |-> 0]
<1>1. offset \in Nat /\ Len(text) \in Nat /\ offset <= Len(text) /\ n_reported \in Nat
  BY DEF LexTypes, TypeOK
<1>2. /\ stream' = Append(stream, tok) /\ text' = text /\ comments' = comments
      /\ offset' = offset /\ n_reported' = n_reported
  BY DEF EndOfFile, Emit, Token, inputVars
<1>3. tok.kind = "EOF" /\ tok.offset = offset /\ tok.len = 0 /\ tok \in Tokens
  BY <1>1 DEF Tokens, TokenKinds
<1>. HIDE DEF tok
<1>4. End(tok) = offset /\ tok.kind \notin WordKinds /\ tok.kind # "Error"
  BY <1>1, <1>3 DEF End, WordKinds
<1>5. \A j \in offset .. offset' - 1 : IsMark(j)
  BY <1>1, <1>2
<1>6. n_reported' = n_reported + (IF tok.kind = "Error" THEN 1 ELSE 0)
  BY <1>1, <1>2, <1>4
<1>7. TakesToken(tok)
  BY <1>1, <1>2, <1>3, <1>4, <1>5, <1>6 DEF TakesToken
<1>. QED BY <1>7

-----------------------------------------------------------------------------
(* The inductive invariant of the lexer.                                   *)

\* The lexer is behind what it has cut out.
CutIsBehind ==
  \A i \in DOMAIN stream : IsCut(stream[i]) => End(stream[i]) <= offset

\* While a comment is open it reaches to the end of the text.
OpenIsNoted ==
  mode = "comment" => \E c \in comments : c.from <= offset /\ c.to = Len(text)

LexInv ==
  /\ LexTypes
  /\ CutIsBehind
  /\ TokensAreOfTheText
  /\ WordsAreWhole
  /\ OpenIsNoted
  /\ NothingIsLost
  /\ ErrorsLeaveATrace

LEMMA LexBegins ==
  ASSUME CharsAreApart, Init
  PROVE  LexInv
<1>1. /\ text \in Seq(STRING) /\ text # <<>>
      /\ offset = 0 /\ mode = "text" /\ stream = <<>> /\ n_reported = 0
      /\ comments = {} /\ aborted = FALSE
  BY DEF CharsAreApart, Init
<1>2. Len(text) \in Nat /\ Len(text) > 0
  BY <1>1
<1>a. stream \in Seq(Tokens) /\ Len(stream) = 0
  BY <1>1
<1>b. n_reported \in 0 .. Len(stream) /\ offset \in 0 .. Len(text)
  BY <1>1, <1>2, <1>a
<1>c. TypeOK
  BY <1>1, <1>b DEF TypeOK
<1>3. LexTypes
  BY <1>1, <1>2, <1>a, <1>c DEF LexTypes
<1>4. DOMAIN stream = {}
  BY <1>1
<1>5. {i \in DOMAIN stream : stream[i].kind = "Error"} = {}
  BY <1>4
<1>6. ErrorsLeaveATrace
  BY <1>1, <1>5, FS_EmptySet DEF ErrorsLeaveATrace, Cardinality
<1>7. CutIsBehind /\ TokensAreOfTheText /\ WordsAreWhole
  BY <1>4 DEF CutIsBehind, TokensAreOfTheText, WordsAreWhole
<1>8. OpenIsNoted /\ NothingIsLost
  BY <1>1 DEF OpenIsNoted, NothingIsLost
<1>. QED BY <1>3, <1>6, <1>7, <1>8 DEF LexInv

\* The tokens behind a step that takes one.
LEMMA TokensBehind ==
  ASSUME LexTypes, NEW tok \in Tokens, stream' = Append(stream, tok)
  PROVE  /\ stream' \in Seq(Tokens) /\ Len(stream') = Len(stream) + 1
         /\ DOMAIN stream = 1 .. Len(stream) /\ DOMAIN stream' = 1 .. Len(stream) + 1
         /\ Len(stream) \in Nat
         /\ \A i \in 1 .. Len(stream) : stream'[i] = stream[i] /\ stream[i] \in Tokens
         /\ stream'[Len(stream) + 1] = tok
BY DEF LexTypes

LEMMA TakingKeepsTypes ==
  ASSUME LexTypes, NEW tok, TakesToken(tok), mode' \in {"text", "done"}, aborted' \in BOOLEAN
  PROVE  LexTypes'
<1>1. tok \in Tokens /\ stream' = Append(stream, tok)
  BY DEF TakesToken
<1>2. stream' \in Seq(Tokens) /\ Len(stream') = Len(stream) + 1 /\ Len(stream) \in Nat
  BY <1>1, TokensBehind
<1>3. /\ n_reported \in Nat /\ n_reported <= Len(stream)
      /\ n_reported' = n_reported \/ n_reported' = n_reported + 1
  BY DEF LexTypes, TypeOK, TakesToken
<1>4. n_reported' \in 0 .. Len(stream')
  BY <1>2, <1>3
<1>5. offset' \in 0 .. Len(text)
  BY DEF LexTypes, TypeOK, TakesToken
<1>6. text' = text /\ comments' = comments
  BY DEF TakesToken
<1>7. TypeOK'
  BY <1>4, <1>5, <1>6 DEF TypeOK
<1>. QED BY <1>2, <1>6, <1>7 DEF LexTypes

LEMMA TakingKeepsTheOrder ==
  ASSUME LexInv, NEW tok, TakesToken(tok)
  PROVE  CutIsBehind' /\ TokensAreOfTheText'
<1>. DEFINE n == Len(stream)
<1>0. LexTypes
  BY DEF LexInv
<1>1. tok \in Tokens /\ stream' = Append(stream, tok) /\ text' = text
  BY DEF TakesToken
<1>2. /\ DOMAIN stream = 1 .. n /\ DOMAIN stream' = 1 .. n + 1 /\ n \in Nat
      /\ \A i \in 1 .. n : stream'[i] = stream[i] /\ stream[i] \in Tokens
      /\ stream'[n + 1] = tok
  BY <1>0, <1>1, TokensBehind
<1>. HIDE DEF n
<1>3. /\ offset \in Nat /\ offset' \in Nat /\ Len(text) \in Nat
      /\ offset <= offset' /\ offset' <= Len(text)
      /\ IsCut(tok) => offset <= tok.offset /\ End(tok) <= offset'
  BY <1>0 DEF TakesToken, LexTypes, TypeOK
<1>4. \A t \in Tokens : t.offset \in Nat /\ End(t) \in Nat
  BY DEF Tokens, End
<1>5. \A i \in 1 .. n : IsCut(stream[i]) => End(stream[i]) <= offset
  BY <1>2 DEF LexInv, CutIsBehind
<1>6. \A i \in 1 .. n + 1 : IsCut(stream'[i]) => End(stream'[i]) <= offset'
  <2>. TAKE i \in 1 .. n + 1
  <2>1. CASE i \in 1 .. n
    <3>1. stream'[i] = stream[i] /\ End(stream[i]) \in Nat
      BY <1>2, <1>4, <2>1
    <3>. QED BY <1>3, <1>5, <2>1, <3>1
  <2>2. CASE i = n + 1
    BY <1>2, <1>3, <2>2
  <2>. QED BY <1>2, <2>1, <2>2
<1>7. CutIsBehind'
  BY <1>1, <1>2, <1>6 DEF CutIsBehind, IsCut, End
<1>8. \A i \in 1 .. n + 1 : IsCut(stream'[i]) =>
        /\ End(stream'[i]) <= Len(text)
        /\ \A k \in 1 .. i - 1 : IsCut(stream'[k]) => End(stream'[k]) <= stream'[i].offset
  <2>. SUFFICES ASSUME NEW i \in 1 .. n + 1, IsCut(stream'[i])
                PROVE  /\ End(stream'[i]) <= Len(text)
                       /\ \A k \in 1 .. i - 1 : IsCut(stream'[k]) => End(stream'[k]) <= stream'[i].offset
    OBVIOUS
  <2>1. End(stream'[i]) <= Len(text)
    <3>1. stream'[i] \in Tokens
      BY <1>1, <1>2
    <3>. QED BY <1>3, <1>4, <1>6, <3>1
  <2>2. ASSUME NEW k \in 1 .. i - 1, IsCut(stream'[k])
        PROVE  End(stream'[k]) <= stream'[i].offset
    <3>1. k \in 1 .. n /\ stream'[k] = stream[k] /\ stream[k] \in Tokens
      BY <1>2
    <3>2. CASE i \in 1 .. n
      <4>1. stream'[i] = stream[i] /\ i \in DOMAIN stream
        BY <1>2, <3>2
      <4>. QED BY <2>2, <3>1, <4>1 DEF LexInv, TokensAreOfTheText
    <3>3. CASE i = n + 1
      <4>1. stream'[i] = tok /\ tok.offset \in Nat /\ End(stream[k]) \in Nat
        BY <1>1, <1>2, <1>4, <3>1, <3>3
      <4>2. End(stream[k]) <= offset /\ offset <= tok.offset
        BY <1>3, <1>5, <2>2, <3>1, <4>1
      <4>. QED BY <1>3, <3>1, <4>1, <4>2
    <3>. QED BY <1>2, <3>2, <3>3
  <2>. QED BY <2>1, <2>2
<1>9. TokensAreOfTheText'
  BY <1>1, <1>2, <1>8 DEF TokensAreOfTheText, IsCut, End
<1>. QED BY <1>7, <1>9

LEMMA TakingKeepsWords ==
  ASSUME LexInv, NEW tok, TakesToken(tok), beyond' = beyond
  PROVE  WordsAreWhole'
<1>. DEFINE n == Len(stream)
            Whole(t) == t.kind \in WordKinds /\ End(t) < Len(text) => ~IsWordChar(CharAt(End(t)))
<1>0. LexTypes
  BY DEF LexInv
<1>1. tok \in Tokens /\ stream' = Append(stream, tok) /\ text' = text /\ Whole(tok)
  BY DEF TakesToken
<1>2. /\ DOMAIN stream = 1 .. n /\ DOMAIN stream' = 1 .. n + 1 /\ n \in Nat
      /\ \A i \in 1 .. n : stream'[i] = stream[i] /\ stream[i] \in Tokens
      /\ stream'[n + 1] = tok
  BY <1>0, <1>1, TokensBehind
<1>. HIDE DEF n
<1>3. \A i \in 1 .. n : Whole(stream[i])
  BY <1>2 DEF LexInv, WordsAreWhole, WordKinds, IsWordChar
<1>. HIDE DEF Whole
<1>4. \A i \in 1 .. n + 1 : Whole(stream'[i])
  BY <1>1, <1>2, <1>3
<1>. QED BY <1>1, <1>2, <1>4 DEF Whole, WordsAreWhole, WordKinds, IsWordChar, CharAt, End

LEMMA BelowOrFrom ==
  ASSUME NEW a \in Nat, NEW b \in Nat, a <= b
  PROVE  /\ \A i \in 0 .. b - 1 : i \in 0 .. a - 1 \/ i \in a .. b - 1
         /\ \A j \in 0 .. a - 1 : j \in 0 .. b - 1
OBVIOUS

LEMMA BelowOrBetween ==
  ASSUME NEW a \in Nat, NEW b \in Nat, NEW m \in Nat, NEW l \in Nat, a <= m, m <= b, b <= l
  PROVE  \A i \in 0 .. b - 1 :
           i \in 0 .. a - 1 \/ (i \in a .. b - 1 /\ i \in a .. m - 1) \/ i \in m .. l
<1>. TAKE i \in 0 .. b - 1
<1>1. i \in Nat /\ i <= b - 1
  OBVIOUS
<1>2. CASE i < a
  BY <1>1, <1>2
<1>3. CASE a <= i /\ i < m
  BY <1>1, <1>3
<1>4. CASE m <= i
  BY <1>1, <1>4
<1>. QED BY <1>1, <1>2, <1>3, <1>4

LEMMA TakingKeepsAll ==
  ASSUME LexInv, NEW tok, TakesToken(tok), beyond' = beyond
  PROVE  NothingIsLost'
<1>. DEFINE n == Len(stream)
            Seen(i) == \/ IsMark(i)
                       \/ \E k \in DOMAIN stream' : i \in stream'[k].offset .. End(stream'[k]) - 1
                       \/ \E c \in comments : i \in c.from .. c.to
<1>0. LexTypes
  BY DEF LexInv
<1>1. /\ tok \in Tokens /\ stream' = Append(stream, tok) /\ text' = text /\ comments' = comments
      /\ \A i \in offset .. offset' - 1 : IsMark(i) \/ i \in tok.offset .. End(tok) - 1
  BY DEF TakesToken
<1>2. /\ DOMAIN stream = 1 .. n /\ DOMAIN stream' = 1 .. n + 1 /\ n \in Nat
      /\ \A i \in 1 .. n : stream'[i] = stream[i] /\ stream[i] \in Tokens
      /\ stream'[n + 1] = tok
  BY <1>0, <1>1, TokensBehind
<1>. HIDE DEF n
<1>3. offset \in Nat /\ offset' \in Nat /\ offset <= offset'
  BY <1>0 DEF TakesToken, LexTypes, TypeOK
<1>s. \A i \in 0 .. offset' - 1 : i \in 0 .. offset - 1 \/ i \in offset .. offset' - 1
  BY <1>3, BelowOrFrom
<1>4. ASSUME NEW i \in 0 .. offset' - 1 PROVE Seen(i)
  <2>1. CASE i \in 0 .. offset - 1
    <3>1. \/ IsMark(i)
          \/ \E k \in 1 .. n : i \in stream[k].offset .. End(stream[k]) - 1
          \/ \E c \in comments : i \in c.from .. c.to
      BY <1>2, <2>1 DEF LexInv, NothingIsLost, IsMark
    <3>2. \A k \in 1 .. n : k \in DOMAIN stream' /\ stream'[k] = stream[k]
      BY <1>2
    <3>. QED BY <3>1, <3>2
  <2>2. CASE i \in offset .. offset' - 1
    <3>1. IsMark(i) \/ i \in tok.offset .. End(tok) - 1
      BY <1>1, <2>2
    <3>2. n + 1 \in DOMAIN stream' /\ stream'[n + 1] = tok
      BY <1>2
    <3>. QED BY <3>1, <3>2
  <2>3. i \in 0 .. offset - 1 \/ i \in offset .. offset' - 1
    BY <1>s
  <2>. HIDE DEF Seen
  <2>. QED BY <2>1, <2>2, <2>3
<1>. QED BY <1>1, <1>4 DEF NothingIsLost, CharAt, End, IsMark

LEMMA TakingKeepsErrors ==
  ASSUME LexInv, NEW tok, TakesToken(tok)
  PROVE  ErrorsLeaveATrace'
<1>. DEFINE n == Len(stream)
            E == {i \in DOMAIN stream : stream[i].kind = "Error"}
            F == {i \in DOMAIN stream' : stream'[i].kind = "Error"}
<1>0. LexTypes
  BY DEF LexInv
<1>1. /\ tok \in Tokens /\ stream' = Append(stream, tok)
      /\ n_reported' = n_reported + (IF tok.kind = "Error" THEN 1 ELSE 0)
  BY DEF TakesToken
<1>2. /\ DOMAIN stream = 1 .. n /\ DOMAIN stream' = 1 .. n + 1 /\ n \in Nat
      /\ \A i \in 1 .. n : stream'[i] = stream[i] /\ stream[i] \in Tokens
      /\ stream'[n + 1] = tok
  BY <1>0, <1>1, TokensBehind
<1>. HIDE DEF n
<1>3. E \subseteq 1 .. n /\ IsFiniteSet(1 .. n)
  BY <1>2, FS_Interval
<1>4. IsFiniteSet(E)
  BY <1>3, FS_Subset
<1>5. n_reported = Cardinality(E)
  BY DEF LexInv, ErrorsLeaveATrace, Cardinality, Cardinality
<1>6. CASE tok.kind = "Error"
  <2>1. F = E \union {n + 1} /\ n + 1 \notin E
    BY <1>2, <1>6
  <2>2. Cardinality(F) = Cardinality(E) + 1
    BY <1>4, <2>1, FS_AddElement
  <2>3. n_reported' = Cardinality(F)
    BY <1>1, <1>5, <1>6, <2>2
  <2>. QED BY <2>3 DEF ErrorsLeaveATrace, Cardinality, Cardinality
<1>7. CASE tok.kind # "Error"
  <2>1. F = E
    BY <1>2, <1>7
  <2>2. n_reported' = n_reported
    BY <1>0, <1>1, <1>7 DEF LexTypes, TypeOK
  <2>3. n_reported' = Cardinality(F)
    BY <1>5, <2>1, <2>2
  <2>. QED BY <2>3 DEF ErrorsLeaveATrace, Cardinality, Cardinality
<1>. QED BY <1>6, <1>7

LEMMA TakingKeepsLexInv ==
  ASSUME LexInv, NEW tok, TakesToken(tok), beyond' = beyond,
         mode' \in {"text", "done"}, aborted' \in BOOLEAN
  PROVE  LexInv'
<1>1. LexTypes
  BY DEF LexInv
<1>2. OpenIsNoted'
  BY DEF OpenIsNoted
<1>3. LexTypes'
  BY <1>1, TakingKeepsTypes
<1>4. CutIsBehind' /\ TokensAreOfTheText'
  BY TakingKeepsTheOrder
<1>5. WordsAreWhole' /\ NothingIsLost'
  BY TakingKeepsWords, TakingKeepsAll
<1>6. ErrorsLeaveATrace'
  BY TakingKeepsErrors
<1>. QED BY <1>2, <1>3, <1>4, <1>5, <1>6 DEF LexInv

\* A step that takes no token, from here to some way on.
LEMMA PassingKeepsLexInv ==
  ASSUME LexInv, UNCHANGED <<text, beyond, stream, n_reported>>,
         offset' \in offset .. Len(text),
         mode' \in {"text", "comment", "done"}, aborted' \in BOOLEAN,
         comments' \in SUBSET [from : Nat, to : Nat],
         OpenIsNoted',
         \A i \in 0 .. offset' - 1 :
           \/ i \in offset .. offset' - 1 /\ IsMark(i)
           \/ i \in 0 .. offset - 1 /\ ~\E c \in comments : i \in c.from .. c.to
           \/ \E c \in comments' : i \in c.from .. c.to
  PROVE  LexInv'
<1>1. /\ LexTypes /\ offset \in Nat /\ Len(text) \in Nat /\ offset' \in Nat
      /\ offset <= offset' /\ offset' <= Len(text)
  BY DEF LexInv, LexTypes, TypeOK
<1>2. LexTypes'
  BY <1>1 DEF LexTypes, TypeOK
<1>a. \A t \in Tokens : End(t) \in Nat
  BY DEF Tokens, End
<1>b. \A i \in DOMAIN stream : stream[i] \in Tokens
  BY <1>1 DEF LexTypes
<1>3. \A i \in DOMAIN stream : stream[i] \in Tokens /\ End(stream[i]) \in Nat
  BY <1>a, <1>b
<1>4. CutIsBehind'
  <2>1. \A i \in DOMAIN stream : IsCut(stream[i]) => End(stream[i]) <= offset'
    BY <1>1, <1>3 DEF LexInv, CutIsBehind
  <2>. QED BY <2>1 DEF CutIsBehind, IsCut, End
<1>5. TokensAreOfTheText'
  BY DEF LexInv, TokensAreOfTheText, IsCut, End
<1>6. WordsAreWhole'
  BY DEF LexInv, WordsAreWhole, IsWordChar, CharAt, End
<1>7. ErrorsLeaveATrace'
  BY DEF LexInv, ErrorsLeaveATrace
<1>8. NothingIsLost'
  <2>1. ASSUME NEW i \in 0 .. offset' - 1
        PROVE  \/ IsMark(i)
               \/ \E k \in DOMAIN stream : i \in stream[k].offset .. End(stream[k]) - 1
               \/ \E c \in comments' : i \in c.from .. c.to
    <3>1. CASE i \in 0 .. offset - 1 /\ ~\E c \in comments : i \in c.from .. c.to
      BY <3>1 DEF LexInv, NothingIsLost, IsMark
    <3>. QED BY <3>1
  <2>. QED BY <2>1 DEF NothingIsLost, CharAt, End, IsMark
<1>. QED BY <1>2, <1>4, <1>5, <1>6, <1>7, <1>8 DEF LexInv

\* A comment's bounds.
LEMMA Covering ==
  ASSUME NEW c \in [from : Nat, to : Nat]
  PROVE  c.from \in Nat /\ c.to \in Nat
OBVIOUS

LEMMA NULKeepsLexInv ==
  ASSUME LexInv, LexNUL
  PROVE  LexInv'
<1>. DEFINE i == AfterBlanks
<1>1. /\ UNCHANGED <<text, beyond, stream, n_reported, mode, comments, aborted>>
      /\ mode = "text" /\ CharAt(i) = NUL
      /\ offset' = IF i < Len(text) THEN i + 1 ELSE i
  BY DEF LexNUL, Round, inputVars, Skipped
<1>2. LexTypes
  BY DEF LexInv
<1>3. i \in offset .. Len(text) /\ \A j \in offset .. i - 1 : IsMark(j)
  BY <1>2, RoundBegins
<1>4. IsMark(i)
  BY <1>1 DEF IsMark
<1>. HIDE DEF i
<1>5. offset \in Nat /\ Len(text) \in Nat
  BY <1>2 DEF LexTypes, TypeOK
<1>6. offset' \in offset .. Len(text)
  BY <1>1, <1>3, <1>5
<1>7. /\ mode' \in {"text", "comment", "done"} /\ aborted' \in BOOLEAN
      /\ comments' \in SUBSET [from : Nat, to : Nat]
  BY <1>1, <1>2 DEF LexTypes, TypeOK
<1>8. OpenIsNoted'
  BY <1>1 DEF OpenIsNoted
<1>9. \A j \in 0 .. offset' - 1 : j \in 0 .. offset - 1 \/ (j \in offset .. offset' - 1 /\ IsMark(j))
  BY <1>1, <1>3, <1>4, <1>5
<1>10. \A j \in 0 .. offset' - 1 :
         \/ j \in offset .. offset' - 1 /\ IsMark(j)
         \/ j \in 0 .. offset - 1 /\ ~\E c \in comments : j \in c.from .. c.to
         \/ \E c \in comments' : j \in c.from .. c.to
  BY <1>1, <1>9
<1>. QED BY <1>1, <1>6, <1>7, <1>8, <1>10, PassingKeepsLexInv

LEMMA OpeningKeepsLexInv ==
  ASSUME LexInv, OpenComment
  PROVE  LexInv'
<1>. DEFINE i == AfterBlanks
            c0 == [from |-> i, to |-> Len(text)]
<1>1. /\ UNCHANGED <<text, beyond, stream, n_reported, aborted>>
      /\ mode' = "comment" /\ Matches(i, <<"(", "*">>)
      /\ offset' = Skipped(Skipped(i + 2))
      /\ comments' = comments \union {c0}
  BY DEF OpenComment, Round, inputVars
<1>2. LexTypes
  BY DEF LexInv
<1>3. i \in offset .. Len(text) /\ \A j \in offset .. i - 1 : IsMark(j)
  BY <1>2, RoundBegins
<1>4. i + 2 < Len(text)
  BY <1>1 DEF Matches
<1>. HIDE DEF i
<1>5. offset \in Nat /\ Len(text) \in Nat /\ i \in Nat /\ offset <= i
  BY <1>2, <1>3 DEF LexTypes, TypeOK
<1>6. offset' \in Nat /\ i <= offset' /\ offset' <= Len(text)
  BY <1>1, <1>4, <1>5 DEF Skipped
<1>7. c0 \in [from : Nat, to : Nat] /\ c0.from = i /\ c0.to = Len(text)
  BY <1>5
<1>. HIDE DEF c0
<1>8. /\ mode' \in {"text", "comment", "done"} /\ aborted' \in BOOLEAN
      /\ comments' \in SUBSET [from : Nat, to : Nat] /\ c0 \in comments'
  BY <1>1, <1>2, <1>7 DEF LexTypes, TypeOK
<1>9. OpenIsNoted'
  BY <1>1, <1>6, <1>7, <1>8 DEF OpenIsNoted
<1>10. offset' \in offset .. Len(text)
  BY <1>5, <1>6
<1>11. \A j \in 0 .. offset' - 1 :
         j \in 0 .. offset - 1 \/ (j \in offset .. offset' - 1 /\ IsMark(j)) \/ j \in i .. Len(text)
  BY <1>3, <1>5, <1>6, BelowOrBetween
<1>12. \A c \in comments : c \in comments'
  BY <1>1
<1>13. \A j \in 0 .. offset' - 1 :
         \/ j \in offset .. offset' - 1 /\ IsMark(j)
         \/ j \in 0 .. offset - 1 /\ ~\E c \in comments : j \in c.from .. c.to
         \/ \E c \in comments' : j \in c.from .. c.to
  BY <1>7, <1>8, <1>11, <1>12
<1>. QED BY <1>1, <1>8, <1>9, <1>10, <1>13, PassingKeepsLexInv

LEMMA SkippingKeepsLexInv ==
  ASSUME LexInv, SkipInComment
  PROVE  LexInv'
<1>1. /\ UNCHANGED <<text, beyond, stream, n_reported, comments, mode, aborted>>
      /\ mode = "comment"
      /\ offset' = IF offset < Len(text) THEN offset + 1 ELSE offset
  BY DEF SkipInComment, inputVars, Skipped
<1>2. LexTypes
  BY DEF LexInv
<1>3. offset \in Nat /\ Len(text) \in Nat /\ offset <= Len(text)
  BY <1>2 DEF LexTypes, TypeOK
<1>4. PICK c0 \in comments : c0.from <= offset /\ c0.to = Len(text)
  BY <1>1 DEF LexInv, OpenIsNoted
<1>5. c0.from \in Nat
  BY <1>2, Covering DEF LexTypes
<1>6. offset' \in offset .. Len(text) /\ c0.from <= offset' /\ offset' \in Nat
  BY <1>1, <1>3, <1>4, <1>5
<1>7. /\ mode' \in {"text", "comment", "done"} /\ aborted' \in BOOLEAN
      /\ comments' \in SUBSET [from : Nat, to : Nat]
  BY <1>1, <1>2 DEF LexTypes, TypeOK
<1>8. OpenIsNoted'
  BY <1>1, <1>4, <1>6 DEF OpenIsNoted
<1>9. \A j \in 0 .. offset' - 1 : j \in 0 .. offset - 1 \/ j \in c0.from .. c0.to
  BY <1>1, <1>3, <1>4, <1>5
<1>10. \A j \in 0 .. offset' - 1 :
         \/ j \in offset .. offset' - 1 /\ IsMark(j)
         \/ j \in 0 .. offset - 1 /\ ~\E c \in comments : j \in c.from .. c.to
         \/ \E c \in comments' : j \in c.from .. c.to
  BY <1>1, <1>4, <1>9
<1>. QED BY <1>1, <1>6, <1>7, <1>8, <1>10, PassingKeepsLexInv

LEMMA ClosingKeepsLexInv ==
  ASSUME LexInv, CloseComment
  PROVE  LexInv'
<1>. DEFINE Closed(c) == IF c.to = Len(text) THEN [c EXCEPT !.to = offset + 2] ELSE c
<1>1. /\ UNCHANGED <<text, beyond, stream, n_reported, aborted>>
      /\ mode = "comment" /\ mode' = "text" /\ Matches(offset, <<"*", ")">>)
      /\ offset' = Skipped(offset + 2)
      /\ comments' = {Closed(c) : c \in comments}
  BY DEF CloseComment, inputVars
<1>2. LexTypes /\ comments \in SUBSET [from : Nat, to : Nat]
  BY DEF LexInv, LexTypes
<1>3. offset \in Nat /\ Len(text) \in Nat
  BY <1>2 DEF LexTypes, TypeOK
<1>4. offset + 2 < Len(text)
  BY <1>1 DEF Matches
<1>5. offset' = offset + 3 /\ offset' \in offset .. Len(text)
  BY <1>1, <1>3, <1>4 DEF Skipped
<1>6. PICK c0 \in comments : c0.from <= offset /\ c0.to = Len(text)
  BY <1>1 DEF LexInv, OpenIsNoted
<1>7. \A c \in comments :
        /\ Closed(c) \in [from : Nat, to : Nat]
        /\ Closed(c).from = c.from
        /\ Closed(c).to = IF c.to = Len(text) THEN offset + 2 ELSE c.to
  <2>. TAKE c \in comments
  <2>1. c \in [from : Nat, to : Nat] /\ offset + 2 \in Nat
    BY <1>2, <1>3
  <2>. QED BY <2>1
<1>8. \A c \in comments : Closed(c) \in comments'
  BY <1>1
<1>9. comments' \in SUBSET [from : Nat, to : Nat]
  BY <1>1, <1>7
<1>. HIDE DEF Closed
<1>10. /\ mode' \in {"text", "comment", "done"} /\ aborted' \in BOOLEAN
       /\ OpenIsNoted'
  BY <1>1, <1>2 DEF LexTypes, TypeOK, OpenIsNoted
<1>11. ASSUME NEW c \in comments, NEW j \in 0 .. offset - 1, j \in c.from .. c.to
       PROVE  \E d \in comments' : j \in d.from .. d.to
  <2>1. c.from \in Nat /\ c.to \in Nat
    BY <1>2, Covering
  <2>2. j \in Closed(c).from .. Closed(c).to
    BY <1>3, <1>7, <1>11, <2>1
  <2>. QED BY <1>8, <2>2
<1>12. ASSUME NEW j \in offset .. offset' - 1
       PROVE  \E d \in comments' : j \in d.from .. d.to
  <2>1. c0.from \in Nat
    BY <1>2, Covering
  <2>2. j \in c0.from .. offset + 2
    BY <1>3, <1>5, <1>6, <2>1
  <2>3. j \in Closed(c0).from .. Closed(c0).to
    BY <1>6, <1>7, <2>2
  <2>. QED BY <1>6, <1>8, <2>3
<1>13. \A j \in 0 .. offset' - 1 : j \in 0 .. offset - 1 \/ j \in offset .. offset' - 1
  BY <1>3, <1>5
<1>14. \A j \in 0 .. offset' - 1 :
         \/ j \in offset .. offset' - 1 /\ IsMark(j)
         \/ j \in 0 .. offset - 1 /\ ~\E c \in comments : j \in c.from .. c.to
         \/ \E c \in comments' : j \in c.from .. c.to
  BY <1>11, <1>12, <1>13
<1>. QED BY <1>1, <1>5, <1>9, <1>10, <1>14, PassingKeepsLexInv

LEMMA LexKeepsInv ==
  ASSUME LexInv, [Next]_vars
  PROVE  LexInv'
<1>0. LexTypes /\ mode \in {"text", "comment", "done"} /\ aborted \in BOOLEAN
  BY DEF LexInv, LexTypes, TypeOK
<1>1. CASE UNCHANGED vars
  <2>1. UNCHANGED <<text, beyond, offset, mode, stream, n_reported, comments, aborted>>
    BY <1>1 DEF vars, inputVars
  <2>2. LexTypes' /\ CutIsBehind' /\ OpenIsNoted'
    BY <2>1 DEF LexInv, LexTypes, TypeOK, CutIsBehind, IsCut, End, OpenIsNoted
  <2>3. TokensAreOfTheText' /\ WordsAreWhole'
    BY <2>1 DEF LexInv, TokensAreOfTheText, WordsAreWhole, IsCut, End, CharAt
  <2>4. NothingIsLost' /\ ErrorsLeaveATrace'
    BY <2>1 DEF LexInv, NothingIsLost, ErrorsLeaveATrace, CharAt, End
  <2>. QED BY <2>2, <2>3, <2>4 DEF LexInv
<1>2. ASSUME \/ LexIdent \/ LexSymbol \/ LexAngle \/ LexParen
             \/ LexSingleChar \/ LexUnexpected \/ EndOfFile
      PROVE  LexInv'
  <2>1. \E tok : TakesToken(tok)
    BY <1>0, <1>2, IdentTakes, SymbolTakes, AngleTakes, ParenTakes, SingleTakes, UnexpectedTakes, EndTakes
  <2>2. mode' \in {"text", "done"} /\ aborted' \in BOOLEAN /\ beyond' = beyond
    <3>1. CASE EndOfFile
      BY <1>0, <3>1 DEF EndOfFile, inputVars
    <3>2. CASE ~EndOfFile
      BY <1>0, <1>2, <3>2 DEF LexIdent, LexSymbol, LexAngle, LexParen,
           LexSingleChar, LexUnexpected, Round, inputVars
    <3>. QED BY <3>1, <3>2
  <2>. QED BY <2>1, <2>2, TakingKeepsLexInv
<1>3. CASE LexArrow
  <2>1. mode = "text" /\ mode' = "text" /\ beyond' = beyond
    BY <1>3 DEF LexArrow, Round, inputVars
  <2>2. aborted' \in BOOLEAN
    BY <1>0, <1>3 DEF LexArrow
  <2>3. CASE \E tok : TakesToken(tok)
    BY <2>1, <2>2, <2>3, TakingKeepsLexInv
  <2>4. CASE UNCHANGED <<offset, stream, n_reported, comments, text>>
    <3>1. /\ offset \in Nat /\ Len(text) \in Nat /\ offset <= Len(text)
          /\ comments \in SUBSET [from : Nat, to : Nat]
      BY <1>0 DEF LexTypes, TypeOK
    <3>2. offset' \in offset .. Len(text) /\ \A j \in 0 .. offset' - 1 : j \in 0 .. offset - 1
      BY <2>4, <3>1
    <3>3. OpenIsNoted'
      BY <2>1 DEF OpenIsNoted
    <3>4. \A j \in 0 .. offset' - 1 :
            \/ j \in offset .. offset' - 1 /\ IsMark(j)
            \/ j \in 0 .. offset - 1 /\ ~\E c \in comments : j \in c.from .. c.to
            \/ \E c \in comments' : j \in c.from .. c.to
      BY <2>4, <3>2
    <3>. QED BY <2>1, <2>2, <2>4, <3>1, <3>2, <3>3, <3>4, PassingKeepsLexInv
  <2>. QED BY <1>0, <1>3, <2>3, <2>4, ArrowTakes
<1>. QED BY <1>1, <1>2, <1>3, NULKeepsLexInv, OpeningKeepsLexInv, SkippingKeepsLexInv, ClosingKeepsLexInv
     DEF Next

\* The tokens are whole words and marks of the text, in its order, and none is
\* made of what is behind the text, whatever the text (mrv_lex, mirv.c 338-470).
THEOREM TokensAreOfEveryText == Spec => []TokensAreTheText
<1>1. Init => LexInv
  BY LexBegins, LexerAssumption
<1>2. LexInv /\ [Next]_vars => LexInv'
  BY LexKeepsInv
<1>3. LexInv => TokensAreTheText
  BY DEF LexInv, LexTypes, TokensAreTheText
<1>. QED BY <1>1, <1>2, <1>3, PTL DEF Spec

\* Neither a character nor an error goes without a trace in the stream, whatever
\* the text (mrv_lex, mirv.c 338-470).
THEOREM NothingGoesUnseenInAnyText == Spec => []NothingGoesUnseen
<1>1. Init => LexInv
  BY LexBegins, LexerAssumption
<1>2. LexInv /\ [Next]_vars => LexInv'
  BY LexKeepsInv
<1>3. LexInv => NothingGoesUnseen
  BY DEF LexInv, NothingGoesUnseen
<1>. QED BY <1>1, <1>2, <1>3, PTL DEF Spec
=============================================================================
