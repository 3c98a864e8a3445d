------------------------------- MODULE Parser -------------------------------
(***************************************************************************)
(* The recursive-descent parser of tools/mirv.c.  A routine is the         *)
(* sequence of moves its body makes; what the C stack holds is the moves   *)
(* that are still to be made (todo) and the nodes the routines returned    *)
(* and nobody used yet (nodes).  Lists are parsed by loops, which keep     *)
(* their children on one stack of references (nrs) in the scratch arena.   *)
(*                                                                         *)
(* A token is made up when the one before it is consumed, so every source  *)
(* is parsed that begins with one of Beginnings and goes on for up to      *)
(* MaxTokens tokens.                                                       *)
(***************************************************************************)
EXTENDS Integers, Sequences, FiniteSets, SequencesExt, FiniteSetsExt

CONSTANTS
  Beginnings,  \* sequences of tokens, none of them empty
  MaxTokens,   \* bounds: tokens that follow, without the end of file,
  MaxErrors    \*   and errors that are reported before the source ends

TokenKind ==
  {"Ident", "SymbolIdent", "Unit", "Colon", "Comma", "OpenParen", "CloseParen",
   "OpenBrace", "CloseBrace", "Equals", "Lambda", "Semicolon", "RightArrow",
   "BeginHostType", "EndHostType", "Combinator", "Language", "Type", "Operator",
   "EOF", "Error"}

\* What is behind the end of file.  Nobody wrote there, so to look there is to
\* see a token of kind Error, too.
NoToken == "none"

ASSUME ParserAssumption ==
  /\ MaxTokens \in Nat /\ MaxErrors \in Nat
  /\ Beginnings \subseteq Seq(TokenKind) \ {<<>>}

\* Tokens that become a leaf of the tree, and the kind of that leaf.
LeafKind == [Ident |-> "OtherIdent", SymbolIdent |-> "SymbolIdent", Unit |-> "Unit"]

VARIABLES
  token,     \* the kind of the next token, what mrv_parser_peek returns
  pos,       \* its number
  ahead,     \* the tokens of the beginning that come after it
  free,      \* and how many others may follow
  todo,      \* the moves to be made
  nodes,     \* nodes returned by routines that have not been used
  nrs,       \* ctx->ref_stack_top and what is below, with their addresses
  top,       \* the address in the scratch arena up to which references are allocated
  errors,    \* the kinds of errors that were reported
  n_errors,  \* and their number
  names,     \* the tokens consumed that a leaf is made of
  root,      \* what mrv_parse returns
  halt       \* "no", "assert", "unreachable"

readVars == <<token, pos, ahead, free, names>>
errorVars == <<errors, n_errors>>
vars == <<readVars, todo, nodes, nrs, top, errorVars, root, halt>>

-----------------------------------------------------------------------------
(* Nodes.  Of a tree only the kinds of the children and the leaves below   *)
(* are kept.                                                               *)

Node(kind, children) ==
  [kind |-> kind,
   children |-> [i \in DOMAIN children |-> children[i].kind],
   leaves |-> FlattenSeq([i \in DOMAIN children |-> children[i].leaves])]

\* ctx->nil_node: the same node each time, cleared.
Nil == Node("nil", <<>>)

Leaf(kind, leaves) == [kind |-> kind, children |-> <<>>, leaves |-> leaves]

NoRoot == Leaf("none", <<>>)

-----------------------------------------------------------------------------
(* Moves, and the routines made of them.                                   *)

Expect(kind) == [move |-> "expect", kind |-> kind]
ExpectLeaf(kind, as) == [move |-> "leaf", kind |-> kind, as |-> as]
If(kind, then, else) == [move |-> "if", kind |-> kind, then |-> then, else |-> else]
Make(kind, n) == [move |-> "make", kind |-> kind, n |-> n]
GiveNil == [move |-> "nil"]
Report(error) == [move |-> "report", error |-> error]
PushRef == [move |-> "push"]
Begin(list, binary) == [move |-> "begin", list |-> list, binary |-> binary]
\* n items so far; mark is the scope that was pushed before the first.
Loop(list, binary, mark, n) ==
  [move |-> "loop", list |-> list, binary |-> binary, mark |-> mark, n |-> n]

OtherIdent == <<ExpectLeaf("Ident", "OtherIdent")>>

HostTypeIdent == <<ExpectLeaf("Ident", "HostTypeIdent"), Expect("EndHostType")>>

SymbolIdent == <<ExpectLeaf("SymbolIdent", "SymbolIdent")>>

Unit == <<ExpectLeaf("Unit", "Unit")>>

SymbolDecl == SymbolIdent \o <<Expect("Colon")>> \o OtherIdent \o <<Make("SymbolDeclaration", 2)>>

\* Called on an Ident or on a SymbolIdent.
DeclArg(name) ==
  name \o <<Expect("Colon"),
            If("BeginHostType", <<Report("host type"), GiveNil>>, OtherIdent),
            Make("DeclarationArg", 2)>>

DeclArgList(is_binary) == <<Begin("DeclarationArgList", is_binary)>>

InvocationArgList == <<Begin("InvocationArgList", FALSE)>>

Block == <<Begin("Block", FALSE)>>

InvocationExpr ==
  OtherIdent \o <<Expect("OpenParen")>> \o InvocationArgList \o <<Make("InvocationExpression", 2)>>

ExprStatement == InvocationExpr \o <<Expect("Semicolon"), Make("ExpressionStatement", 1)>>

LambdaExpr ==
  <<Expect("OpenParen")>> \o DeclArgList(TRUE) \o <<Expect("OpenBrace")>> \o Block
    \o <<Make("LambdaExpression", 2)>>

AssignmentStatement ==
  SymbolDecl \o <<Expect("Equals"), If("Lambda", LambdaExpr, InvocationExpr),
                  Expect("Semicolon"), Make("AssignmentStatement", 2)>>

CombinatorDecl ==
  OtherIdent \o <<Expect("OpenParen")>> \o DeclArgList(FALSE) \o <<Expect("OpenBrace")>> \o Block
    \o <<Make("CombinatorDeclaration", 3)>>

LanguageDecl == OtherIdent \o <<Expect("Semicolon"), Make("LanguageDeclaration", 1)>>

\* Of a host type there is no list of arguments.
NonTrivialType ==
  <<If("BeginHostType", HostTypeIdent \o <<GiveNil>>,
       OtherIdent \o <<Expect("OpenParen")>> \o InvocationArgList),
    Make("NonTrivialType", 2)>>

TypeDecl ==
  OtherIdent \o <<If("Equals", NonTrivialType, <<GiveNil>>), Expect("Semicolon"),
                  Make("TypeDeclaration", 2)>>

OperatorDecl ==
  OtherIdent \o <<Expect("OpenParen")>> \o DeclArgList(TRUE)
    \o <<If("RightArrow", OtherIdent, <<GiveNil>>), Expect("Semicolon"),
         Make("OperatorDeclaration", 3)>>

\* What the loop of a list does: the routine it calls by the token an item
\* begins with, the tokens it skips, and the token it ends at.
DeclArgs ==
  [items |-> [Ident |-> DeclArg(OtherIdent), SymbolIdent |-> DeclArg(SymbolIdent)],
   skips |-> {"Comma"}, end |-> "CloseParen"]

InvocationArgs ==
  [items |-> [Ident |-> OtherIdent, SymbolIdent |-> SymbolIdent, Unit |-> Unit],
   skips |-> {"Comma"}, end |-> "CloseParen"]

Statements ==
  [items |-> [Ident |-> ExprStatement, SymbolIdent |-> AssignmentStatement],
   skips |-> {}, end |-> "CloseBrace"]

Declarations ==
  [items |-> [Combinator |-> CombinatorDecl, Language |-> LanguageDecl,
              Type |-> TypeDecl, Operator |-> OperatorDecl],
   skips |-> {}, end |-> "EOF"]

LoopOf ==
  [Program |-> Declarations, DeclarationArgList |-> DeclArgs,
   InvocationArgList |-> InvocationArgs, Block |-> Statements]

-----------------------------------------------------------------------------
(* The steps.                                                              *)

Init ==
  /\ \E b \in Beginnings : token = Head(b) /\ ahead = Tail(b)
  /\ pos = 1
  /\ free = MaxTokens
  /\ names = <<>>
  /\ todo = <<Loop("Program", FALSE, 0, 0)>>
  /\ nodes = <<>>
  /\ nrs = <<>>
  /\ top = 0
  /\ errors = {} /\ n_errors = 0
  /\ root = NoRoot
  /\ halt = "no"

At(move) == halt = "no" /\ todo # <<>> /\ todo[1].move = move
Rest == Tail(todo)

\* mrv_parser_consume, when there is a next token.  When the bounds are
\* reached, the source ends.
Consume ==
  /\ token # NoToken
  /\ pos' = pos + 1
  /\ names' = IF token \in DOMAIN LeafKind THEN Append(names, pos) ELSE names
  /\ token' \in CASE token = "EOF" -> {NoToken}
                  [] token # "EOF" /\ ahead # <<>> -> {Head(ahead)}
                  [] token # "EOF" /\ ahead = <<>> ->
                       IF free = 0 \/ n_errors' >= MaxErrors THEN {"EOF"} ELSE TokenKind
  /\ ahead' = IF ahead = <<>> THEN ahead ELSE Tail(ahead)
  /\ free' = IF ahead = <<>> /\ token' \in TokenKind \ {"EOF"} THEN free - 1 ELSE free

\* mrv_report_error, for each error of the set.
ReportErrors(new) ==
  /\ errors' = errors \union new
  /\ n_errors' = n_errors + Cardinality(new)

\* A leaf is made of whatever token mrv_parser_expect returned, which is no
\* token of the source if it was not the one expected.
LeavesOf(kind) == IF token = kind THEN <<pos>> ELSE <<>>

\* mrv_parser_expect: what is not expected is consumed, too.
ExpectToken ==
  /\ At("expect")
  /\ ReportErrors(IF token = todo[1].kind THEN {} ELSE {"expected"})
  /\ Consume
  /\ todo' = Rest
  /\ UNCHANGED <<nodes, nrs, top, root, halt>>

ExpectTokenOfLeaf ==
  /\ At("leaf")
  /\ ReportErrors(IF token = todo[1].kind THEN {} ELSE {"expected"})
  /\ nodes' = Append(nodes, Leaf(todo[1].as, LeavesOf(todo[1].kind)))
  /\ Consume
  /\ todo' = Rest
  /\ UNCHANGED <<nrs, top, root, halt>>

\* A token that is looked at, and consumed if it is the one asked for.
TakeIf ==
  /\ At("if") /\ token = todo[1].kind
  /\ UNCHANGED errorVars
  /\ Consume
  /\ todo' = todo[1].then \o Rest
  /\ UNCHANGED <<nodes, nrs, top, root, halt>>

TakeElse ==
  /\ At("if") /\ token # todo[1].kind
  /\ todo' = todo[1].else \o Rest
  /\ UNCHANGED <<readVars, nodes, nrs, top, errorVars, root, halt>>

ReportMove ==
  /\ At("report")
  /\ ReportErrors({todo[1].error})
  /\ todo' = Rest
  /\ UNCHANGED <<readVars, nodes, nrs, top, root, halt>>

NilNode ==
  /\ At("nil")
  /\ nodes' = Append(nodes, Nil)
  /\ todo' = Rest
  /\ UNCHANGED <<readVars, nrs, top, errorVars, root, halt>>

\* mrv_parser_mknode of the last n nodes.  A combinator is not made once
\* there has been an error anywhere.
MakeNode ==
  /\ At("make")
  /\ LET kept == SubSeq(nodes, 1, Len(nodes) - todo[1].n)
         children == SubSeq(nodes, Len(kept) + 1, Len(nodes))
     IN nodes' = Append(kept, IF todo[1].kind = "CombinatorDeclaration" /\ errors # {}
                                THEN Nil ELSE Node(todo[1].kind, children))
  /\ todo' = Rest
  /\ UNCHANGED <<readVars, nrs, top, errorVars, root, halt>>

\* mrv_parser_nrs_push
PushNodeRef ==
  /\ At("push")
  /\ nrs' = Append(nrs, [to |-> Last(nodes), at |-> top + 1])
  /\ nodes' = Front(nodes)
  /\ top' = top + 1
  /\ todo' = Rest
  /\ UNCHANGED <<readVars, errorVars, root, halt>>

BeginList ==
  /\ At("begin")
  /\ todo' = <<Loop(todo[1].list, todo[1].binary, top, 0)>> \o Rest
  /\ UNCHANGED <<readVars, nodes, nrs, top, errorVars, root, halt>>

\* The keyword of a declaration is consumed before its routine is called.
BeginItem ==
  /\ At("loop")
  /\ token \in DOMAIN LoopOf[todo[1].list].items
  /\ todo' = LoopOf[todo[1].list].items[token] \o <<PushRef, [todo[1] EXCEPT !.n = @ + 1]>> \o Rest
  /\ UNCHANGED errorVars
  /\ IF todo[1].list = "Program" THEN Consume ELSE UNCHANGED readVars
  /\ UNCHANGED <<nodes, nrs, top, root, halt>>

\* Mutant: the separator is left where it is.
SeeSeparator ==
  /\ At("loop")
  /\ token \in LoopOf[todo[1].list].skips
  /\ UNCHANGED vars

\* Any number of commas, anywhere in a list of arguments.
SkipSeparator ==
  /\ At("loop")
  /\ token \in LoopOf[todo[1].list].skips
  /\ UNCHANGED errorVars
  /\ Consume
  /\ UNCHANGED <<todo, nodes, nrs, top, root, halt>>

\* Mutant: the references are left in the order of the stack.
UnwoundReversed(n) == [i \in 1 .. n |-> nrs[Len(nrs) + 1 - i].to]

\* mrv_parser_nrs_unwind_cpy: the last n references, in the order of the source.
Unwound(n) == [i \in 1 .. n |-> nrs[Len(nrs) - n + i].to]

Closes(list) == token = LoopOf[list].end

\* Mutant: a list that ends with an error is not taken off the stack.
RefsBelowIfClosed(loop) ==
  IF Closes(loop.list) THEN SubSeq(nrs, 1, Len(nrs) - loop.n) ELSE nrs

RefsBelow(loop) == SubSeq(nrs, 1, Len(nrs) - loop.n)

TooMany(loop) == loop.binary /\ loop.n > 2

\* Of a list that is too long the scope is not popped.
TopBelow(loop) == IF TooMany(loop) THEN top ELSE loop.mark

\* Mutant: the end of the file may end any list.
ListErrorsButEOF(loop) ==
  (IF Closes(loop.list) \/ token = "EOF" THEN {} ELSE {"unexpected"})
    \union (IF TooMany(loop) THEN {"too many"} ELSE {})

ListErrors(loop) ==
  (IF Closes(loop.list) THEN {} ELSE {"unexpected"})
    \union (IF TooMany(loop) THEN {"too many"} ELSE {})

\* The loop ends at what closes the list and at a token it does not know.
EndList ==
  /\ At("loop") /\ todo[1].list # "Program"
  /\ token \notin DOMAIN LoopOf[todo[1].list].items \union LoopOf[todo[1].list].skips
  /\ LET loop == todo[1]
     IN /\ ReportErrors(ListErrors(loop))
        /\ nodes' = Append(nodes, IF TooMany(loop) THEN Nil ELSE Node(loop.list, Unwound(loop.n)))
        /\ nrs' = RefsBelow(loop)
        /\ top' = TopBelow(loop)
  /\ Consume
  /\ todo' = Rest
  /\ UNCHANGED <<root, halt>>

\* The end of file is not consumed.
EndProgram ==
  /\ At("loop") /\ todo[1].list = "Program"
  /\ token = "EOF"
  /\ root' = Node("Program", Unwound(todo[1].n))
  /\ nrs' = RefsBelow(todo[1])
  /\ top' = todo[1].mark
  /\ todo' = Rest
  /\ UNCHANGED <<readVars, nodes, errorVars, halt>>

\* The references stay on the stack, in memory that is given back.
GiveUp ==
  /\ At("loop") /\ todo[1].list = "Program"
  /\ token \notin DOMAIN Declarations.items \union {"EOF", "Error", NoToken}
  /\ ReportErrors({"unexpected"})
  /\ Consume
  /\ root' = Leaf("Error", <<>>)
  /\ top' = todo[1].mark
  /\ todo' = <<>>
  /\ UNCHANGED <<nodes, nrs, halt>>

\* There is no next token, and the assertion of mrv_parser_consume fails; or
\* there is a token of kind Error where there should be a declaration.
Halt ==
  \/ /\ At("expect") \/ At("leaf") \/ (At("loop") /\ todo[1].list # "Program")
     /\ token = NoToken
     /\ halt' = "assert"
     /\ UNCHANGED <<readVars, todo, nodes, nrs, top, errorVars, root>>
  \/ /\ At("loop") /\ todo[1].list = "Program"
     /\ token \in {"Error", NoToken}
     /\ halt' = "unreachable"
     /\ UNCHANGED <<readVars, todo, nodes, nrs, top, errorVars, root>>

Next ==
  \/ ExpectToken \/ ExpectTokenOfLeaf \/ TakeIf \/ TakeElse \/ ReportMove \/ NilNode
  \/ MakeNode \/ PushNodeRef \/ BeginList \/ BeginItem \/ SkipSeparator
  \/ EndList \/ EndProgram \/ GiveUp \/ Halt

\* One thread that is never interrupted.
Spec == Init /\ [][Next]_vars /\ WF_vars(Next)

-----------------------------------------------------------------------------
(* Properties.                                                             *)

Done == root # NoRoot

Alive == Range(nodes) \union {nrs[i].to : i \in DOMAIN nrs} \union {root}

TypeOK ==
  /\ token \in TokenKind \union {NoToken}
  /\ pos \in Nat /\ free \in 0 .. MaxTokens
  /\ top \in Nat
  /\ errors \subseteq {"expected", "unexpected", "host type", "too many"}
  /\ halt \in {"no", "assert", "unreachable"}

\* What a move that is still to be made says of the stack of references: an open
\* list owns the items it counted, and the last of them may not be there yet.
Owned(move) ==
  IF move.move = "loop" THEN move.n ELSE IF move.move = "push" THEN -1 ELSE 0

\* The stack of references holds what the open lists counted, so that each
\* list, whatever errors there were, takes its own children off.
ListsOwnTheRefs ==
  ~Done => SumFunction([i \in DOMAIN todo |-> Owned(todo[i])]) = Len(nrs)

\* A reference on the stack is in memory that was not given back, and no two
\* are in the same place.
RefsAreLive ==
  ~Done => \A i \in DOMAIN nrs : nrs[i].at <= top /\ (i > 1 => nrs[i - 1].at < nrs[i].at)

\* The scratch arena holds the references of the open lists and nothing else,
\* and is empty when the parser is done ("you still have to use
\* ak_push/pop_scope", mirv.c:771); lists that were too long are the exception.
ScratchIsGivenBack ==
  /\ "too many" \notin errors /\ ~Done => top = Len(nrs)
  /\ Done => top = 0

\* The leaves of the trees that are alive are tokens that were consumed.
LeavesAreConsumed ==
  \A node \in Alive : \A i \in DOMAIN node.leaves : node.leaves[i] \in 1 .. pos - 1

\* Without errors every name of the source is in the tree, once and in order.
TreeIsSource == Done /\ errors = {} => root.leaves = names

\* Without errors no list has a nil child, and its children are what the code
\* that walks them takes them for.
ItemKinds ==
  [Program |-> {"CombinatorDeclaration", "LanguageDeclaration", "TypeDeclaration",
                "OperatorDeclaration"},
   DeclarationArgList |-> {"DeclarationArg"},
   InvocationArgList |-> {"OtherIdent", "SymbolIdent", "Unit"},
   Block |-> {"ExpressionStatement", "AssignmentStatement"}]

ListsHoldItems ==
  \A node \in Alive :
    node.kind \in DOMAIN ItemKinds /\ errors = {} => Range(node.children) \subseteq ItemKinds[node.kind]

\* Only a source with an error makes the parser halt: one that it reported, or
\* one that the lexer reported when it made a token of kind Error.
HaltsOnErrorsOnly == halt # "no" => errors # {} \/ token = "Error"

\* Every source is parsed to the end, or the parser halts.
Terminates == <>(Done \/ halt # "no")

\* The stack of references and its scratch memory belong to the lists that are
\* open, on every error path: each list finds its own children there, in memory
\* that was not given back, and gives back what it took (mirv.c 805, 967-1014).
RefStackIsSound == TypeOK /\ ListsOwnTheRefs /\ RefsAreLive /\ ScratchIsGivenBack

\* A source without errors becomes a tree that has all its names in order, and
\* in whose lists are the nodes that the analysis takes them for; whatever the
\* errors, no leaf is made of a token nobody consumed.
TreeIsFaithful == LeavesAreConsumed /\ TreeIsSource /\ ListsHoldItems
=============================================================================
