# Verification of akimbo

akimbo is a C library for building and lowering small tensor programs, with a
code generator, mirv, that turns a description of a language (types, operators,
combinators) into the C source of a rewriting front end for it.  This directory
holds TLA+ models of the repository's code under `src/`, the TLC runs that check
them, and TLAPS proofs about them.  Every definition names in `PROJECT.json`
("map") the lines of the source it stands for.

## The system

| part | source | state | operations |
|---|---|---|---|
| arena | `include/akimbo/internal/base.c` 605-1009 | the stack of slabs, the offset into its top slab, the chain of recycled slabs | `ak_arena_alloc`, `ak_push_scope`, `ak_pop_scope`, `ak_arena_free_recycled`, `ak_arena_recycle_all`, `ak_arena_free_all` |
| hash table | `base.c` 1012-1407 | blocks of fingerprints, compare keys; iterators | `ak_table_init`, `ak_table_ensure_*`, `ak_table_get_*`, `ak_table_iter_*` |
| text | `base.c` 10-557, `mirv.c` 3240-3458 | buffers of the caller, string lists, templates | concatenation, formatted printing, snake case, `mrv_write_tmpl` |
| context | `context.c` | the first error | `ak_context_init`, `ak_report_error` |
| expressions | `expr.c` | the list of instructions of a builder, the last id; the tables and spaces of a lowering | `ak_param`, `ak_add`, `ak_contract`, `ak_pin`, `ak_lbuilder_finish`, `ak_validate_lexpr_structure`, `ak_lower_lexpr` |
| shapes | `linalg.c` | none (pure functions) | broadcasting, contraction, iteration spaces, strides |
| mirv: lexer | `tools/mirv.c` 187-470 | text position | `mrv_lex` |
| mirv: token stream | `mirv.c` 119-185, 671-760 | blocks of tokens, the length of the last one; the reader's block and offset | `mrv_tstream_append`, `mrv_parser_peek`, `mrv_parser_consume`, `mrv_parser_is_end`, `mrv_tstream_destroy` |
| mirv: parser | `mirv.c` 733-1470 | position in the tokens, a stack of node references in a scratch arena | `mrv_parse` |
| mirv: analysis | `mirv.c` 1640-3240 | the language descriptor, a stack of bound names, an instruction stream per combinator | `mrv_analyze` |
| mirv: generator | `mirv.c` 3240-4206 | what was written | `mrv_gen_source` |
| mirv: driver | `mirv.c` 4208-4365 | the phases' results | `main` |

Everything runs in one thread, nothing is persisted and nothing is sent.  What is
hard is not interleaving but state that is cut, joined and rolled back by hand,
things that are counted in one pass and written in another, and errors after
which everything goes on: the arena's chains and scopes are used by all phases of
mirv and by the library, tables give slots that index the arrays of their callers,
token positions span blocks, the parser keeps the children of all open lists on
one stack, the analysis gives names numbers from a stack that must be popped
exactly as it was pushed, and no phase of mirv asks whether the one before it
failed.

What makes each part correct:

- arena: live blocks never overlap and stay in memory the arena holds; scopes
  give back exactly what came after them; no slab leaks or is in two chains.
- table: a key keeps one slot, for ever; two keys never share one; a key is
  refused only when the table is full; iteration is complete.
- text: what is counted is what is written; a format and a template become their
  parts in order; distinct names stay distinct.
- expressions: the first error stays; an expression that was finished is what
  was asked for; validation accepts exactly the expressions in SSA form; the loops
  of a lowered operation meet the elements that belong together.
- mirv: no character, token or name is lost or seen twice; every name refers to the
  parameter that binds it; an error is reported exactly when the program is not
  well formed, and what is generated for a well-formed one is complete and in
  order; every loop ends.

Interaction.  Every phase of mirv and the expression library allocate from an
arena and bracket scratch work with `ak_push_scope` and `ak_pop_scope`
(`mirv.c` 967/1014, 1021/1075, 1166/1205, 1326/1390, 1423/1440, 2806/2955,
3204/3228, 3638/3658; `expr.c` 314/415, 499/698).  mirv runs lexer, parser,
analysis and generator in a row on one text; the lexer hands the parser a token
stream, the parser hands the analysis a tree, the analysis hands the generator a
descriptor whose entries are indexed by the slots of a table.  Errors are kept
in each phase's own context, the first one for good; the driver looks at none of
them between the phases.  The builder's client looks at the context's error at the
end, which is why the first one must stay.

## Modules

| module | what it is | proved by TLAPS |
|---|---|---|
| `ScopedMemory` | what an arena promises, abstractly | |
| `Arena`, `ArenaProofs` | the arena on sequences of slabs, with addresses; implements `ScopedMemory` | yes |
| `ArenaLinks`, `ArenaLinksProofs` | the same calls on the up and down pointers; implements `Arena` | yes |
| `ChainLemmas` | lemmas on sequences without repetition and on sums over finite sets, used by the proofs | |
| `SlotMap` | what the table promises, abstractly | |
| `Table`, `TableProofs` | the table, implementing `SlotMap`, and its theorems | yes |
| `Text` | snake case, formats, string lists and templates, as `mrv_sg_append_fn` uses them | |
| `Lexer` | the text cut into tokens, with its comments | in `TokenProofs`, but for its end |
| `TokenStream`, `TokenProofs` | the stream between lexer and parser, across blocks | yes |
| `Parser`, `ParserProofs` | the recursive descent as a machine on kinds of tokens | its stack of references, where it halts, and that its tree is the source |
| `Combinator`, `CombinatorProofs` | counting, naming and flattening of a combinator by the analysis | its counts, that nothing is left out, that nothing escapes from a lambda and that names are lexical |
| `Analysis` | the four passes of the analysis over one table | |
| `Sourcegen` | extends `Analysis`: the driver, the dump and the generator on what the analysis left | |
| `Shapes` | broadcasting, contraction, iteration spaces and strides, as operators | |
| `LExpr` | extends `Shapes`: the expression builder and the context | in `LoweringProofs` |
| `Lowering`, `LoweringProofs` | extends `LExpr`: validation and lowering of what was finished | all properties |
| `MC*` | values of constants for TLC | |

Definitions whose comment begins with "Mutant" are wrong versions of the definition
that follows them; nothing uses them.  `PROJECT.json` pairs each with a property
that fails when it is used.

### Arena

State.  `active` and `recycled` are the chains under `arena->top_slab` and
`arena->top_recycled_slab`, bottom first; `current_offset` is the field of that
name; `cap` is what the host gave for each slab.  `live` and `scopes` belong to
the user of the arena: its blocks in the order they were granted, and its open
`AK_Scope`s with the number of blocks that were live when each was opened
(`mark`).  `aborted` says that an assertion failed in a debug build; the
program stops there.

Actions.  One per call.  `Alloc` is the disjunction of the three plans of
`ak_arena_alloc`: from the top slab, from the first recycled slab that fits,
from the host.  A call the host refuses returns NULL and changes nothing, which
is a stuttering step.  `PopScope(k)` may pop any open scope, and with it those
nested in it, because `mrv_parse_decl_arg_list` returns early without popping its
own scope (`mirv.c` 998-1004) and its callers then pop theirs.  The pop has the
code's four paths: within the slab, a host that cannot recycle (the `TODO` at
base.c:892), back to the empty arena, and across slabs.

Abstractions.  Addresses and sizes are naturals: the wrap-around of `size_t` for
requests near `SIZE_MAX` is left out.  The contents of blocks are left out, and so
are zeroing (`ak_memzero`) and the poison marks of the sanitizer (943-948);
the sanitizer's padding, which moves blocks, is in the model.

`ArenaLinks` has the same user and the same offsets, but the two chains are the
`up` and `down` fields, and each call does the pointer assignments of base.c in
their order.  Its steps map to those of `Arena` with `Chain(top)` for each
sequence.

### Table

`fingerprints` and `keys` are the arrays of the table, flattened over its
blocks of `Width` slots; `next_idx` is an iterator.  `slotOf`, `visited` and
`startedWith` are history.  A key keeps two things in the table, `Cmp` (what is
compared: for a string the hash of its first sixteen bytes) and `Fp` (four bits
of the hash), and its probing starts at `Home`; these are constants, so the
theorems hold for every hash function.  Probing is a search through the slots
in the order of `Position`; `SlotToUse` ends at an empty slot, `Find` does not
(base.c 1254-1274 passes no sentinel).  `Ensure` never removes anything and
neither does the code.  The empty string has a key of its own and is left out.

### TokenStream

A token is its number in the source.  `AppendToken` is the lexer's call,
`Consume` the parser's, and `Peek` the token under the parser.  Blocks are zeroed
by the host, so a place that was never written reads as `Zeroed`, an error token;
what lies behind the array of a block is `Behind`.  The scanning of text and the
grammar are not in this module: the lexer appends up to `MaxTokens` tokens and the
parser consumes as long as it likes.

### Combinator

The tree is the argument list and the nodes of the body in source order; a
lambda node opens a block that a `close` node ends.  The first phase builds any
tree up to `MaxSize`; then `Count` is `mrv_sema_combinator_do_counting` with the
allocations that follow it, `RecordArg` one round of the loop over the arguments,
and `Invoke`, `OpenLambda` and `CloseLambda` are the visits of
`mrv_sema_block_to_inst_stream_r`.  `nodes` is the stack of bound names with the
scope depth stored in each; `insts` is the stream, whose lambdas are patched
with their length in `CloseLambda`.  Every early return is there: an unknown type
(reported, but its name is now in the table), an operator that is not declared,
an operand that is not bound, a bad parameter that leaves its scope open.

Whether an operator is declared is an attribute of the node, and a type is only
known or unknown: what declarations contain is not in this module.

### Text

Characters are members of a small set.  `NameOperand` and `NameOperator` are
`ak_str8_pascal_to_snake_case`, which counts (`CountedLen`) and then writes
(`WrittenUpTo`); what was counted and not written stays zero.  `StartPrint` to
`EndPrint` are the loop of `ak_vprintf`: `SkipText` walks over plain text,
`Convert` writes it and then looks at the conversion, so that an error writes it
once more at the label `out`.  `AllocateString` is what `ak_sprintf` does between
its two passes, `pass` says which it is, `taken` how many arguments `va_arg` gave.
`AppendString` is `ak_strlist_append`, whose lack of memory nobody looks at, and
`Generate` is `mrv_write_tmpl`, whose walk is `WriteTemplate`.  `pieces` and
`parts` are history: the format and the template as they were put together, against
which what was written is compared.  Conversions are strings and integers.

### Lexer

One action per branch of the loop of `mrv_lex`.  `mrv_lexer_skip` does not move at
the end of the text, `mrv_lexer_match_sequence` matches nothing that ends there,
and `beyond` is the character behind the text, which is read when the text ends
with a blank.  The inner loop of a comment has actions of its own
(`SkipInComment`, `CloseComment`), because it does not look for the end.  Keywords
are recognized by their hash alone, as in the code.  Not every token is cut out of the
text (`IsCut`): an error about a name that is missing has no place, and when the text
ends with a blank the character behind it can be reported as unexpected, with an offset
that is the text's length.

### Parser

A routine is the sequence of the moves of its body; `todo` is the C stack, `nodes`
what routines returned and nobody used yet.  The four loops over lists count
their children in their frame and push them on `nrs`, the stack `ctx->ref_stack_top`,
with the address in the scratch arena (`top`) where it allocated them.  A token is
made up when the one before it was consumed, so every source with a beginning
of `Beginnings` is parsed.  A node is its kind, the kinds of its children and the
leaves below it.  Peeking behind the end of file finds what was never written, and
consuming there is the assertion at mirv.c:718.

### Analysis and Sourcegen

The passes meet the declarations of their kind in the order of the text, so the
program (`source`, history) is made up as they go.  `entries` is
`ldesc.entries` indexed by identifiers in the order of their slots (`Slots`).  An
error sets `err` and leaves in the table what the code leaves there: an identifier
without an entry (`Blank`), an operator with the arguments before the bad one.
`Typecheck` checks a stream instruction by instruction; reading the type of a lambda
from an entry that is no type is any of three outcomes (`Misread`).  An argument of a type
may be a symbol, since the parser lets it pass: the analysis asserts that it is
none.  `Sourcegen` goes on with whatever table there is, as `main` does.  What is generated
is a sequence of items, each with what it defines and what its text refers to, section
by section, and for each combinator the instructions that became statements;
`halted` is the assertion, or the read of an empty name (`letter`), that ended it.

What the text of an item refers to are the names the generator makes up from the program:
types, structs, functions, the operands of a call (in the redex or among the variables,
by the kind of their type), the members of a lambda, and `AK_Context`.  The wording of the C
around them is left out.  `ReferencesHold` allows exactly those to be missing that the
generator can not provide (`Gaps`).  The tree has no errors of the parser: what the
parser leaves out of a tree never reaches these modules, so the hazard that errors
of one phase go on into the next is modelled from the analysis on.

### LExpr, Lowering and Shapes

A client calls the builder in any order, with symbols it has, the nil symbol and ids
of another builder; any allocation may fail, up to `MaxFailures`.  `nodes` is the
list behind `ir_tail`, `err` the context.  A finished expression is then validated
and lowered: one action is one round of a loop of `ak_validate_lexpr_structure` or
`ak_lower_lexpr`, `mode` is the loop and `at` the round.  `seen` is the bit vector
in blocks of `Word` bits, `symtab` the shapes, `spaces` the iteration spaces and
`addresses` the strides.  A call without an expression or a target is `LowerNothing`.
`Shapes` has the arithmetic with its widths: strides are
accumulated modulo `ByteSize`, dimensions behind the rank are what was left in
memory, and a write behind the last row of a matrix is seen.  A round that aborts or
writes outside of its memory is the last one.

## Runs

| run | bounds | question |
|---|---|---|
| `arena` | 3 slabs, default slab 64, sizes 25 and 72, alignments 1 and 32, 3 live blocks, 2 scopes | do live blocks stay apart and inside their slabs, is no slab lost, are there no more slabs of the default size than were in use at once, do scopes restore the stack, and is that `ScopedMemory`? |
| `arena_links` | 4 slabs (symmetric), the sanitizer's padding of 16, sizes 48 and 72, alignments 8 and 16, 3 live blocks, 2 scopes | do the pointers do what the sequences do, does no assertion fail, and is there padding between all live blocks, whatever was popped? |
| `table` | 5 keys, 2 blocks of 2 slots | is a key found by both searches and nothing else; refused only when full; iteration complete; and is that `SlotMap`: one slot per key, for ever? |
| `text` | 4 names, 2 operands, 3 numbers, formats and templates of 3 pieces in all | are names whole and distinct, strings what their formats say and as long as was counted, templates filled, and do assertions fail only for a client's mistake? |
| `lexer` | every text of 3 characters of 14, of 4 of words, of 6 with parentheses and comments, of 8 that open a comment | are tokens whole words of the text, is nothing lost without a trace, and does the lexer end unless a comment is open? |
| `token_stream` | blocks of 4, up to 11 tokens | is the source kept whole over blocks, does the parser miss nothing, and take nothing else if there is one block? |
| `token_stream_two_blocks` | blocks of 4, up to 6 tokens | violated: the parser takes a place no one wrote |
| `parser` | any first token, or 5 beginnings inside of lists, blocks and lambdas, then up to 7 tokens; 2 errors | do lists own the references on the stack on every error path, is a source without errors kept whole, does only an error halt the parser, and does it end? |
| `combinator` | 2 names, 2 types of which 1 is declared, operators declared or not, 2 arguments, size 6 | does what was counted suffice, are names resolved as the source nests, does the stream nest alike, and is what was left out reported? |
| `sourcegen` | 4 names, up to 6 declarations and statements (3 once there was an error), 2 statements per combinator | are errors reported exactly for programs that are not well formed, does one without errors stop the tool only for known reasons, is everything defined before it is used but for the known gaps, is every instruction written once? |
| `lowering` | 6 shapes up to rank 4 (`MaxRank` 4, bytes of 8 values, words of 2 bits), 3 instructions (2 with a mistaken one, 3 if there are only sums and all shapes are one of rank 2), 1 pin, 1 failure, 1 lowering | is what is finished what was asked for, is validation exact, do sums of equal ranks lower without a stop, do loops meet the right elements, are failures reported? |
| `lowering_matrix_product` | 2 shapes, else the same | violated: the contraction of two matrices aborts |

A property that several conjuncts make up (`LinksAreSound`, `TokensAreTheText`,
`RefStackIsSound`, `NamesAreLexical`, `LoopsMeetElements`, ...) is stated at the end of
its module; each conjunct is a definition with a comment of its own.

Why the bounds are enough.  The sizes are chosen so that each plan of the
allocator is taken: 25 fits the default slab twice or once, by its alignment, 72
never fits it, so there are slabs of two sizes, slabs that are taken from the
middle of the recycled chain, and scopes that span one and several slabs; with
four slabs the links also have a chain of three cut in the middle.  In the
table three keys start in the last block and the third goes around the end; there
are keys with equal fingerprints and keys that compare equal, and the fifth key is
refused.  Eleven tokens fill three blocks of four with a partial fourth.  The
lexer's texts have every mark at every place of three, and comments that overlap
their own marks.  Seven tokens after a beginning inside of a list reach the end of
that list, an error in it, a list in it, and the argument that is one too
many.  In the combinators a lambda nests in a lambda, a name shadows
another, and statements come before, in and after each.  In the analysis the four
names can be declared as two kinds at once and each can be used as each kind; six
declarations make a well-formed program with a lambda of two parameters and
two statements, three are enough for every mistake and what follows
from it.  Of the lowering the widths are small (`MaxRank`, `ByteSize`, `Word`,
`Align`), so that a shape of the highest rank, strides that wrap, and ids that fill
a block of the bit vector all occur; with words of two bits one and three
instructions are validated beside full blocks, in one block and in two.  Three pieces make a conversion between
texts, one behind another and one cut off by the end.

Fairness.  `Lexer` and `Parser` state weak fairness of their next step: they are
loops of one thread that nothing interrupts, so as long as a step can be made one
is made.  Nothing stronger is assumed, and no fairness about the choice of input.
`Lexer!Terminates` has the exception the code has, a comment that can not
be closed any more (`mirv.c` 392).  The other modules are calls that a client
makes or not, and state no fairness.

Deadlock is checked where the program can go on for ever (arena, table) and not
where it ends: a text that is lexed, a stream that is destroyed, an
expression that is lowered, a program that was generated or stopped.

## Theorems

The theorems hold for every value of the constants that satisfies the assumption of
the component's module.  What the assumptions say, and why the code justifies it:

- `ArenaAssumption`: sizes, addresses and alignments are naturals, alignments are not 0.
  Any set of slabs, any sizes; the host decides.  `ArenaLinksAssumption` adds that
  there are finitely many slabs, as there are in a machine.
- `TableAssumption`: there is a block and a slot in it, fingerprints are not 0 (0
  is the mark of an empty slot), and `Home` is a block.  Any hash.
- `LexerAssumption`: letters are no digits, and neither are marks (the `case` labels of
  `mrv_lex` differ), and a text is a sequence of characters.  Any text and any hash.
- `StreamAssumption`: a block has room for more than one token (it has 1024).
- `ParserAssumption`: beginnings are not empty sequences of tokens, bounds are naturals.
- `CombinatorAssumption`: the empty text is not an identifier, the types declared
  before are types.
- `ShapesAssumption`, `LExprAssumption`, `LoweringAssumption`: widths are not 0,
  alignment divides the number of byte values, shapes have at most the highest
  rank.

Some theorems have a hypothesis of their own, because without it the code does
something else: `~Asan` (the padding of the sanitizer is not in the size of a new
slab, base.c:834), `~NoRecycle` (a scope popped across slabs aborts with a host that
does not recycle, base.c:892), `NoAliases` (two keys that look the same share a slot,
base.c:1352).  Every target of the Makefile is built with the address sanitizer, so
`arena_links` has `Asan = TRUE`: its `RedzonesHold` says that padding stays between live
blocks, and that only the first block of a slab can end behind it, by less than the
padding.  `arena` has `Asan = FALSE`, a build without the flag.  The other two are
hypotheses only: no run has a host that does not recycle, or keys that look the same.

### Arena

None of the properties is inductive as it stands: that blocks are
apart does not say that the next one, put at the offset, is apart from them.
`IInv` adds that live blocks lie below the offset in the top slab
(`LiveInActive`), that the slab of every open scope is still active and covers
the blocks that were live when the scope was opened (`ScopesCover`), that outer
scopes saw no more than inner ones (`ScopesNest`), and that the two chains are
without repetition and hold what the host gave (`ChainsDistinct`, `ChainsHold`).
Each call then has a lemma that it preserves `IInv`.  A grant of a block is
one argument, used for each plan: it starts at the offset or above
(`StartInBounds`), so after all blocks of its slab.  A pop is one argument too: a
scope's slab is a position in `active`, and what it covers is all that is left.
From `ArenaInvariant` follow `TypeCorrect`, `BlocksDisjoint`, `BlocksHaveRedzones`,
`SlabsKept`, `RecycledStaysEmpty` and the action property `PopRestores`; with
`~Asan`, `BlocksInSlab`, `MemoryIsUsedAgain` (the arena never holds more slabs of the
default size than were active at the same time, by the invariant `AtMost` for each number
of them) and `ArenaIsScopedMemory`, the refinement: every call is a step of `ScopedMemory`
or a stutter, by the cases of the calls.  Of larger slabs there is no such bound: the
search takes the first slab that fits, so a small request can take a large one.

`ArenaLinksProofs` proves the same of the pointers.  `LinkedBy` says that the `up` and
`down` fields make a sequence; three lemmas say what pushing, taking out of the
middle and joining do to it (`PushIsLinked`, `RemoveIsLinked`, `JoinIsLinked`).
`Chain`, which `ArenaLinks` defines by walking down, is the sequence it walks
(`ChainIs`).  The invariant `LinksInv` is that both chains are linked, plus
`IInv` of `Arena` for the sequences, which `ArenaLinksProofs` takes from an instance of
`ArenaProofs`.  `LinksImplementArena` is the refinement; with `~NoRecycle`, `LinksSound`
says that no assertion on the links fails.

### Table

`IInv` says of every key with a slot that all slots before it on its way
are occupied and none of them is a hit.  Both searches therefore end at
that slot, whatever is entered later (`EnsuredIsFound`).  `RefusedWhenFull` rests on a
lemma that `Position` reaches every slot, by the arithmetic of the wrap-around;
`IterationIsComplete` on the order in which the iterator goes.  With `NoAliases`, slots
are distinct (`SlotsDistinct`), nothing else is found (`OnlyEnsuredIsFound`, `LookupsFindTheEnsured`), and
the table implements `SlotMap` (`TableIsSlotMap`).

### Lexer

`TokensAreTheText` and `NothingGoesUnseen` need to know of the tokens that come how they lie
to those there are.  `LexInv` adds that the lexer is behind everything it has cut out
(`CutIsBehind`), and that a comment which is open reaches from where it began to the end of
the text (`OpenIsNoted`), so that what is passed in it is covered before it is closed.
Eight of the actions append a token, and one lemma speaks of all of them: `TakesToken` is
what they have in common (the token begins where the lexer is or behind, ends where it will
be, a word does not go on, whatever is passed is in the token or a blank, `%` or NUL, and an error
is counted), and `TakingKeepsLexInv` follows from it.  Where blanks and words end is
by the least position (`BlanksEnd`, `WordsEnd`).

### Token stream

`StreamInv` says where each token is: the n-th place of block b has token
(b - 1) * (Capacity - 1) + n + 1 if it was written, and zero otherwise; and how many tokens are in
front of the parser, `Passed`, which is what it has taken, not counting the places
that nobody wrote.  The multiplication is by lemmas on
multiples.  From it follow `LexerKeepsTheSource`, `ParserTakesEveryToken` and, for a
single block, `OneBlockIsRead`.

### Parser

`RefStackIsSound` adds up what the open lists counted.  That is no induction step by
itself: a list that ends takes its own children off, and that these are on top is
what must be known.  `StackInv` therefore gives each move that is still to be made a
base, the length of the stack of references when the move below it is reached
(`Stacked`): a loop owns what lies between two bases, its count is their distance, its
mark is the top of the arena at its base.  Every kind of move has a lemma that bases
can be given again after it, and a routine that is called only has moves of a known
form (`RoutineMove`), by its definition.  The sum follows from the bases by
`SumFromTheEnd`.  `OnlyErrorsHalt` needs in addition that nobody asks for the end of
file but `mrv_parse_program`.

`TreeIsFaithful` speaks of the one node that is left in the end.  Before that, the names
which were consumed are spread over nodes that no routine has used yet and references of
lists that are open, on two stacks whose common order is nowhere in the state.  `TreeInv`
says that there is such an order: a shape before each move to come (`Shaped`), which is a
sequence of nodes and of items of lists in the order of the source, such that the stacks
have the shape of the next move, and the leaves of the pieces, one after the other, are the
names (`Holds`, `Tells`).  Two things make that inductive.  The first is that every move has
a fixed gain: a routine leaves one node more than it found whichever way it takes through
the grammar, with an error or without (`RoutineGain`, `Rises`, and a lemma for each routine),
so that the shapes behind it can be told when it is called.  The second is that a reference
is pushed only behind a move that makes a node its list is for (`Gives`, `PushLeads`), and
that this node, when it is there, is of that kind (`Prepared`).  Each kind of move has a
lemma: `NilStep`, `LeafStep`, `MakeStep`, `IfStep`, `BeginStepOfTree`, `PushStepOfTree`,
`ItemStepOfTree`, `EndStepOfTree`, `ProgramStepOfTree`, `QuietStep` for what only consumes,
and `GiveUpStep`.  A node that is made, or a list that ends, joins the leaves of its pieces;
that what is joined is the part of the names from the first piece to the last is
`FlattenOfPieces`, by the least counterexample.  Nothing is claimed of the names once
there was an error; that leaves were consumed is (`Typed`).

### Combinator

`CountsSuffice` compares a count over the whole tree with a walk that stops, skips
and goes on.  `Walk` compares them place by place: what was made is at most what the
nodes behind the walk stand for (`Total` of `AppendedAt` and `SymbolsAt`), and exactly that
unless an error was reported.  A lambda that is left out is skipped as a whole;
`MatchingClose` says that it has an end with as many lambdas open as before it, by
the least place where that is so.  `Advance` is the arithmetic that all visits share.
What is counted for a lambda's assignment makes no instruction (`AppendedAreFewer`);
this is the slack that the assertion at mirv.c:1859 needs, and a combinator of one
argument without a lambda has none: `CountsAreEnough` names that case.

`NothingEscapes` speaks of the end, after the stack is empty of lambdas; `Scopes` is what
holds on the way, while there is no error.  Symbols rise along the stream and along the stack of
names, so what is bound inside of a lambda has higher ones than the lambda.  Names
with no open lambda between them have one depth (`Grouped`), so
`mrv_nrstack_pop_scope` takes at least the names behind the symbol of the last open
lambda (`PopGroups`); it may take more, where a lambda without parameters opened no scope,
and the theorem holds there too.  A lambda that is closed has a length that ends in the
stream, its symbols are not on the stack, and so no later operand finds them
(`ClosedForGood`, `ClosedStayClosed`).  The length it is patched with ends where the stream
does (`LambdaClosed`), since its parameters were counted right (`OpensFit`).

`NamesAreLexical` is shown from heights.  `Open(p)`, how many lambdas are open at a place,
changes by one at most from place to place (`Heights`), so a definition is visible at
`p` exactly if the height has not fallen below `Level(d)`, that of its scope, on the
way from `d` to `p` (`VisibleReaches`).  The invariant `Lexical` says, while there is no error
and every lambda passed has parameters, that the next symbol is the number of
definitions before the place and that the stack has exactly the visible ones.  `Stacked`
adds that the depths start at 0, rise by one at most and end at the height at the
place: so one scope is one run of equal depths on top, and popping the topmost depth
takes exactly what goes out of sight.  Symbols rise on the stack, so the search from
its top finds the innermost definition.  Lambdas without parameters are left to the
property's condition, since there the code does take names that are still visible.

### Builder, validation and lowering

`BuilderInv` says that the list is what was asked for, as long as nothing failed, that
the context has the first of the failures, and that a finished expression is the
list; `BuilderBuilds` and `LoweringReports` follow.  The latter names the one exit that
reports nothing, for a missing argument (expr.c:487).  `ValidationKnowsSSA` has an
invariant on the bit vector: the bits that are set are the symbols defined before
the round.  `EqualRanksLower` follows the rounds of a lowering of sums: every symbol
whose shape was taken has the common rank and no dimension 0, so that an iteration
space is made, an error is reported, or the memory for the space is missing, which is a
stop of its own (`starved`): the code has a TODO there.

`LoopsMeet` speaks of every expression, contractions and mistaken operands included.
Its invariant, `MeetInv`, says of the table that what is behind the round is still
nil and what is before it is a shape, and of each sum (`SumStands`) that its
space follows from the shapes its operands have *now*: the space was made from the
table of that round, and no later round writes the symbol of an earlier
instruction.  The table is written before the operands are read from it (expr.c:447,
536), so an operand that is the instruction's own symbol has the shape that was just
inferred, as it has ever after.  An operand that comes later is still nil when the space
is made, and then the only space the code has room for has no loops (`NilHasNoRoom`).
What is left is arithmetic.  A row of a transform is a sum with one term that is not 0, because
the place of an axis tells the axis (`PlaceIsUnique`, `WalkedCoordinate`); so a point of the
loops meets itself in the result, and in an operand 0 on the axes of one element
and its own coordinate on the others (`SumMeetsElements`).  The strides are
followed through the recursion they are computed by (`RunOfStridesExists`,
`StridesFollow`); as long as none of them wraps in its byte, each is at least the
one to its right times the dimension there, the padding of the last row included
(`StridesAreABase`), so an address is a number written in a mixed base and has
its digits from one place only (`DigitsAreUnique`).

### Only model-checked

- `Text`, and `Analysis` with `Sourcegen`: what they promise is what recursive functions
  compute, or a comparison of a whole program with all that was generated for it.
- `Terminates` of `Lexer` and `Parser`: liveness under fairness is out of the prover's reach.
- What a recursive function computes for every input (`WriteItoa`, `WriteTemplate`):
  the induction theorems of the library can not be used with the provers there
  are.  Where an induction was needed (sums, walks along a chain) it is made by the
  least counterexample (`LeastNat`), which takes a page for each function.

Type correctness of the arena, that a recycled slab stays empty, and the
distinctness of slots are proved and are not repeated among the properties of the runs.

## Disagreements between the code and what it says of itself

Two are shown by runs:

- `mirv.c` 155 and 695 (`token_stream_two_blocks`): the writer leaves a place of each
  block free, the reader does not skip it.
- `linalg.c` 525 (`lowering_matrix_product`): the contracted axes of the second
  operand are walked down to 0, which the loop asserts not to reach; the product of
  two matrices stops the program.

The models have these as well, as exceptions that properties name or as paths that
end in an assertion:

- `base.c` 834: the size of a new slab leaves no room for the address sanitizer's
  padding, so that the last bytes of a large block are past the buffer, against
  `buf[] ak_check_bounds(cap)` (base.h:264).  `FirstBlocksOverrun` says by how much and
  which blocks; `BlocksInSlab` is proved for `~Asan`.
- `base.c` 1328, 1352: strings with the same first sixteen bytes and fingerprint share an
  entry.  `LookupsFindTheEnsured` and `SlotsDistinct` are proved for `NoAliases`.
- `expr.c` 430: a parameter of the highest rank loses its last dimension, against the
  "Maximum possible shape rank" of linalg.h:6.
- `linalg.c` 341: operands of different ranks are aligned from the right for the shape
  and from the left for the transform, against test/core.c:158.
- `linalg.c` 85: strides wrap at 256, against linalg.c:92.
- `expr.c` 260: a symbol id that is a multiple of 64 has no bit if it is the highest;
  the block in front of the first is used, against `ak_check_bounds(n_blocks)`
  (expr.c:237).
- `base.c` 99: `ak_strcmp` never gives -1, and gives 0 for a text and the same text
  with NUL behind it, against the comment at base.h:414.
- `base.c` 235, 294: plain text before a bad conversion is written twice; a format
  that ends in `%{` fails an assertion (241).  `test/strings.c` 30 expects a status.
- `base.c` 439: the assertion on the length of a snake case name is checked once per
  round and not for the second character of the round.
- `mirv.c` lexer: the character behind a comment is lost; `%keyword` becomes the
  keyword, and so does a word with its hash; `-` before NUL fails an assertion; a
  comment that is not closed does not end.
- `mirv.c` 1003: an argument list that is too long returns with its scope open.
- `mirv.c` 1859: the assertion asks for one place more than was counted; a
  combinator with a single argument and no lambda stops the tool.
- `mirv.c` 2031, 2725: a lambda without parameters opens no scope and ends one: it
  takes names away that are not its own, or reads in front of the stack; in the
  generator it stops at the assertion at 4112.
- `mirv.c` 2454: after a bad argument an operator is recorded with those before it.
- `mirv.c` 3102-3185: the kind of a lambda's type is not looked at, so a host type, an
  operator or a combinator is read through the wrong member of the union; a lambda
  type with a result is `ak_unreachable("TODO")`; a type with a right argument only
  accepts a lambda without parameters (3137-3147).
- `mirv.c` 4322: no phase asks for the errors of the one before; nameless entries
  stop the dump and the generator at an assertion.
- `mirv.c` 2352: a symbol among a type's arguments, which the parser lets pass (1043),
  fails an assertion of the analysis.
- `mirv.c` 3937: a program that names no language has its functions named after a byte
  behind an empty name.
- `mirv.c` 3764, 4037-4055, 4091-4103: what is generated refers to an `AK_Context` that is
  in no header it includes, to operands that no statement declared, and to the lengths of a
  lambda's arguments and body, which its type (3518-3522) does not have.
- `expr.c` 487: a missing argument is returned as a status and not reported.

And these were met while reading, in parts that are abstracted:

- `mirv.c` 3779: the generated append reads `nodes_tail` before it asks whether it
  is NULL.
- `mirv.c` 3851, 3877: operand names are turned to snake case and not escaped, while
  the node's members keep the name as it is.
- `mirv.c` 3641, 3933: the union's member of a lambda is the escaped name with
  `_declaration`, the append function uses the escaped name of `...Declaration`: they
  differ for a type whose name becomes a keyword.
- `mirv.c` 3991, 4012: a `continue` leaves the scope of the round open; an assertion
  assigns (`op_entry.kind = ...`).
- `mirv.c` 4096: the generated lambda is given the number of its arguments as the
  length of its body; generated calls lack the context and the builder.
- `mirv.c` 4305: the input is counted in chunks, so a file below 1024 bytes counts as
  nothing read and one above 4096 is cut.

## What is left

1. Proofs.  `Sourcegen`: `ReferencesHold`, by what each phase leaves in the table; the
   phases would have to be restated without recursive functions first.
2. The builder that mirv generates: its list of nodes, with the first append.
3. The composition of the phases on one arena: scopes of the parser and the analysis
   as a client of `Arena`.

## Not modelled

- `old/` is a virtual machine that nothing builds or includes any more.
- The tests are written for an earlier interface of the library; they were read for
  what they expect.  The Makefile and the sample input have no behaviour.
- The example only shows the order of the builder's calls; the client of `LExpr` makes
  them in any order.
- `ak_alloc_zero` and `ak_alloc_contiguous_blocks`: contents of memory are in no
  module, and the offsets of contiguous blocks are a sum.
- Upper and lower case, copies into buffers, and the conversions of C strings,
  characters, statuses and shapes: loops without state, of the form of those that are
  modelled.
- Reading the file and `--dump-ast`: input, and output that is text only.
- The wording of what is generated, and what it does when it is compiled and run.
- `ak_poly_make_parallelotope` and column-major strides, which nothing calls; the
  opcodes whose lowering is a `TODO`.
