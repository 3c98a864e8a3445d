---------------------------- MODULE TokenStream ----------------------------
(***************************************************************************)
(* The token stream between the lexer and the parser of tools/mirv.c: a    *)
(* chain of blocks with room for Capacity tokens.  The lexer appends until *)
(* it has appended the end of file; then the parser reads from the first   *)
(* block on.                                                               *)
(*                                                                         *)
(* The lexer leaves the last place of a block free and the parser takes a  *)
(* block that is not the last one to be full, so at the end of a block it  *)
(* reads the free place, and the place behind the array, as tokens.        *)
(***************************************************************************)
EXTENDS Integers, Sequences

CONSTANTS
  Capacity,   \* MRV_TOKEN_STREAM_BLOCK_CAPACITY
  MaxTokens   \* bound on the length of the source, in tokens

ASSUME StreamAssumption ==
  /\ Capacity \in Nat /\ Capacity > 1
  /\ MaxTokens \in Nat

\* The n-th token of the source is n.
Zeroed == 0     \* a place nothing was written to: MRV_TokenKind_Error
Behind == -1    \* whatever lies behind the array
Place == 0 .. Capacity - 1
Block == [Place -> Nat]

VARIABLES
  blocks,       \* the chain, first block first
  tail_len,     \* tstream->tail_len
  written,      \* how many tokens were appended
  phase,        \* "lex", "parse", "destroyed"
  cur_block,    \* ctx->cur_block of the parser, as a position in the chain
  next_offset,  \* ctx->next_offset
  taken,        \* what the parser consumed
  parser_aborted       \* the assertion of mrv_parser_consume failed

streamVars == <<blocks, tail_len, written>>
parserVars == <<cur_block, next_offset, taken>>
tokenVars == <<streamVars, phase, parserVars, parser_aborted>>

EmptyBlock == [i \in Place |-> Zeroed]

StreamInit ==
  /\ blocks = <<>>
  /\ tail_len = 0
  /\ written = 0
  /\ phase = "lex"
  /\ cur_block = 0
  /\ next_offset = 0
  /\ taken = <<>>
  /\ parser_aborted = FALSE

\* The tail has room, but for its last place.
TailHasRoom == blocks # <<>> /\ tail_len < Capacity - 1

\* Mutant: tail_len is not reset for a new block.
AppendWithoutReset ==
  /\ phase = "lex"
  /\ written < MaxTokens
  /\ written' = written + 1
  /\ IF TailHasRoom
       THEN blocks' = [blocks EXCEPT ![Len(blocks)][tail_len] = written + 1]
       ELSE blocks' = Append(blocks, [EmptyBlock EXCEPT ![tail_len] = written + 1])
  /\ tail_len' = tail_len + 1
  /\ UNCHANGED <<phase, parserVars, parser_aborted>>

\* mrv_tstream_append
AppendToken ==
  /\ phase = "lex"
  /\ written < MaxTokens
  /\ written' = written + 1
  /\ IF TailHasRoom
       THEN /\ blocks' = [blocks EXCEPT ![Len(blocks)][tail_len] = written + 1]
            /\ tail_len' = tail_len + 1
       ELSE /\ blocks' = Append(blocks, [EmptyBlock EXCEPT ![0] = written + 1])
            /\ tail_len' = 1
  /\ UNCHANGED <<phase, parserVars, parser_aborted>>

\* The last token is the end of file; mrv_parse goes back to the first block.
StartParse ==
  /\ phase = "lex"
  /\ written > 0
  /\ phase' = "parse"
  /\ cur_block' = 1
  /\ UNCHANGED <<streamVars, next_offset, taken, parser_aborted>>

-----------------------------------------------------------------------------
(* The parser's side.                                                      *)

\* mrv_parser_is_end
IsEnd == cur_block = Len(blocks) /\ next_offset >= tail_len

\* Mutant: every block is as long as the last one.
CurLenOfTail == tail_len

\* Mutant: the last block is taken to be full, too.
CurLenFull == Capacity

\* How many tokens the parser takes the block for.
CurLen == IF cur_block = Len(blocks) THEN tail_len ELSE Capacity

\* mrv_parser_peek: the token at the next place of the block.
Peek == IF next_offset \in Place THEN blocks[cur_block][next_offset] ELSE Behind

\* mrv_parser_consume: the token returned is the one at the next place of the
\* current block, also when mrv_parser_find_next leaves that block.
Consume ==
  /\ phase = "parse" /\ ~parser_aborted
  /\ IF next_offset >= CurLen /\ IsEnd
       THEN parser_aborted' = TRUE /\ UNCHANGED parserVars
       ELSE /\ taken' = Append(taken, Peek)
            /\ IF next_offset < CurLen
                 THEN next_offset' = next_offset + 1 /\ UNCHANGED cur_block
                 ELSE next_offset' = 0 /\ cur_block' = cur_block + 1
            /\ UNCHANGED parser_aborted
  /\ UNCHANGED <<streamVars, phase>>

\* mrv_tstream_destroy
Destroy ==
  /\ phase = "parse" /\ ~parser_aborted
  /\ phase' = "destroyed"
  /\ blocks' = <<>>
  /\ tail_len' = 0
  /\ UNCHANGED <<written, parserVars, parser_aborted>>

StreamNext == AppendToken \/ StartParse \/ Consume \/ Destroy

StreamSpec == StreamInit /\ [][StreamNext]_tokenVars

-----------------------------------------------------------------------------
(* Properties.                                                             *)

StreamTypeOK ==
  /\ blocks \in Seq(Block)
  /\ tail_len \in 0 .. Capacity - 1
  /\ written \in 0 .. MaxTokens
  /\ phase \in {"lex", "parse", "destroyed"}
  /\ cur_block \in 0 .. Len(blocks) \/ phase = "destroyed"
  /\ next_offset \in 0 .. Capacity
  /\ taken \in Seq(Nat \union {Behind})
  /\ parser_aborted \in BOOLEAN

\* Place i of block b is before place j of block c.
Before(b, i, c, j) == b < c \/ (b = c /\ i < j)

\* The stream holds the tokens that were appended, in order, each once, also
\* where a block ends; what no one wrote is zero.
StreamIsSource ==
  phase # "destroyed" =>
    /\ {blocks[b][i] : b \in DOMAIN blocks, i \in Place} \ {Zeroed} = 1 .. written
    /\ \A b, c \in DOMAIN blocks, i, j \in Place :
         Before(b, i, c, j) /\ Zeroed \notin {blocks[b][i], blocks[c][j]} =>
           blocks[b][i] < blocks[c][j]

\* Leaving out what no one wrote, the first n tokens were taken, each once and in
\* order.
HasTaken(n) ==
  /\ {taken[k] : k \in DOMAIN taken} \ {Zeroed, Behind} = 1 .. n
  /\ \A k, l \in DOMAIN taken :
       k < l /\ taken[k] > 0 /\ taken[l] > 0 => taken[k] < taken[l]

\* However many blocks it crosses, the parser misses no token and takes none
\* twice.
NoTokenMissed == \E n \in 0 .. written : HasTaken(n)

\* When there is no next token, every token was taken.
EndIsEnd == phase = "parse" /\ IsEnd => HasTaken(written)

\* What the parser takes is what the lexer wrote, and nothing else
\* ("iterate over a token stream", mirv.c:667).
TakesOnlyTokens == \A i \in DOMAIN taken : taken[i] > 0

\* That holds for a source of one block.
OneBlockTakesOnlyTokens == written < Capacity => TakesOnlyTokens

\* The stream keeps the source whole over the ends of blocks (mirv.c 148-185).
StreamIsKept == StreamTypeOK /\ StreamIsSource

\* The parser misses no token and takes none twice over the ends of blocks, and
\* is at the end only when it took them all (mirv.c 683-740).
ParserKeepsUp == NoTokenMissed /\ EndIsEnd
=============================================================================
