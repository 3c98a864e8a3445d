----------------------------- MODULE Combinator -----------------------------
(***************************************************************************)
(* How mirv.c makes the instruction stream of a combinator out of its      *)
(* syntax tree (mrv_sema_record_combinators and what it calls).  It counts *)
(* the tree first, allocates a stream, a symbol table and a stack of bound *)
(* names of the sizes it counted, and then walks the tree once, resolving  *)
(* names on the stack and patching the length of each lambda afterwards.   *)
(*                                                                         *)
(* The tree is given by its declared arguments and the nodes of its body   *)
(* in source order, a lambda being closed by a node of its own.            *)
(***************************************************************************)
EXTENDS Integers, Sequences, FiniteSets, SequencesExt, FiniteSetsExt

CONSTANTS
  Name,          \* identifiers
  Type,          \* identifiers in the place of a type
  KnownTypes,    \* the types the source declares before
  Operators,     \* whether the operators that are invoked are declared, too
  MaxArgs,       \* bounds: arguments of the combinator,
  MaxSize,       \*   arguments, nodes and what is out of order together,
  MaxParams,     \*   parameters of a lambda,
  MaxOperands    \*   operands of an invocation

ASSUME CombinatorAssumption ==
  /\ "" \notin Name   \* an identifier has letters
  /\ KnownTypes \subseteq Type
  /\ Operators \subseteq BOOLEAN
  /\ \A b \in {MaxArgs, MaxSize, MaxParams, MaxOperands} : b \in Nat

NoDecl == [name |-> "", type |-> ""]   \* of an expression statement
Decl == [name : Name, type : Type]

\* AssignmentStatement or ExpressionStatement with an InvocationExpression;
\* operator is whether an operator of that name is declared.
Invocation ==
  [kind : {"invocation"}, dest : Decl \union {NoDecl}, operator : Operators,
   operands : BoundedSeq(Name, MaxOperands)]

\* AssignmentStatement with a LambdaExpression, and where its block ends.
Lambda == [kind : {"lambda"}, dest : Decl, params : BoundedSeq(Decl, MaxParams)]
Close == [kind |-> "close"]

\* MRV_Inst, with symbols up to the last one; 0 is no symbol.
Inst(last) ==
  [kind : {"lambda"}, symbol : 0 .. last, body_len : Nat]
    \union [kind : {"arg"}, symbol : 1 .. last]
    \union [kind : {"invocation"}, symbol : 0 .. last, operands : BoundedSeq(1 .. last, 2)]

VARIABLES
  args, body,   \* the tree
  phase,        \* "parse", "args", "body", "done"
  pos,          \* the next argument or node to visit
  table,        \* the types in ldesc.table
  cap,          \* istream->cap
  max_symbol,   \* counting_max_symbol_id: nrstack and symtab are this big
  insts,        \* istream->insts
  nodes,        \* nrstack.nodes, up to current_height
  next_symbol,  \* nrstack.next_symbol_id
  lambdas,      \* the lambdas the walk is in: their instruction and parameters
  err,          \* ctx->err.is_err
  overrun,      \* a name was read in front of the stack
  aborted       \* an assertion failed

treeVars == <<args, body>>
countVars == <<cap, max_symbol>>
walkVars == <<table, insts, nodes, next_symbol, lambdas>>
failVars == <<err, overrun, aborted>>
vars == <<treeVars, phase, pos, countVars, walkVars, failVars>>

-----------------------------------------------------------------------------
(* The tree.                                                               *)

Init ==
  /\ args = <<>> /\ body = <<>>
  /\ phase = "parse" /\ pos = 1
  /\ table = KnownTypes
  /\ cap = 0 /\ max_symbol = 0
  /\ insts = <<>> /\ nodes = <<>> /\ next_symbol = 0 /\ lambdas = <<>>
  /\ err = FALSE /\ overrun = FALSE /\ aborted = FALSE

\* How many of the first p nodes are of a kind, and how many lambdas are open
\* behind them.
KindsIn(p, kind) == Cardinality({i \in 1 .. p : body[i].kind = kind})

Open(p) == KindsIn(p, "lambda") - KindsIn(p, "close")

\* Where the lambda at i is closed.
CloseOf(i) == Min({j \in i + 1 .. Len(body) : Open(j) = Open(i - 1)})

\* The size of the tree, with what is still to be closed; unknown types and
\* operators and lambdas without parameters count for more.
UnknownTypes(ds) == Cardinality({i \in DOMAIN ds : ds[i] # NoDecl /\ ds[i].type \notin KnownTypes})

SizeOf(n) ==
  CASE n.kind = "invocation" -> 1 + UnknownTypes(<<n.dest>>) + (IF n.operator THEN 0 ELSE 2)
    [] n.kind = "lambda" -> 2 + UnknownTypes(<<n.dest>> \o n.params)
                              + (IF n.params = <<>> THEN 1 ELSE 0)
    [] n.kind = "close" -> 0

NodeOfSize == [k \in 0 .. MaxSize |->
                 {n \in Invocation \union Lambda \union {Close} : SizeOf(n) = k}]

Size ==
  Len(args) + UnknownTypes(args) + SumFunction([i \in DOMAIN body |-> SizeOf(body[i])])

ParseArg(d) ==
  /\ phase = "parse" /\ body = <<>> /\ Len(args) < MaxArgs
  /\ Size + 1 + UnknownTypes(<<d>>) <= MaxSize
  /\ args' = Append(args, d)
  /\ UNCHANGED <<body, phase, pos, countVars, walkVars, failVars>>

ParseNode(n) ==
  /\ phase = "parse"
  /\ n.kind = "close" => Open(Len(body)) > 0
  /\ body' = Append(body, n)
  /\ UNCHANGED <<args, phase, pos, countVars, walkVars, failVars>>

-----------------------------------------------------------------------------
(* mrv_sema_combinator_do_counting.                                        *)

\* Instructions and symbols a node is counted for.  The assignment of a lambda
\* counts, and so do the lambda and its parameters.
InstsOf(n) ==
  CASE n.kind = "invocation" -> 1
    [] n.kind = "lambda" -> 2 + Len(n.params)
    [] n.kind = "close" -> 0

\* Mutant: the parameters of lambdas are not counted.
SymbolsWithoutParams(n) ==
  CASE n.kind = "invocation" -> IF n.dest = NoDecl THEN 0 ELSE 1
    [] n.kind = "lambda" -> 1
    [] n.kind = "close" -> 0

SymbolsOf(n) ==
  CASE n.kind = "invocation" -> IF n.dest = NoDecl THEN 0 ELSE 1
    [] n.kind = "lambda" -> 1 + Len(n.params)
    [] n.kind = "close" -> 0

CountedInsts == Len(args) + SumFunction([i \in DOMAIN body |-> InstsOf(body[i])])
CountedSymbols == Len(args) + SumFunction([i \in DOMAIN body |-> SymbolsOf(body[i])])

\* The combinator has arguments; its stream begins with a lambda of its own.
Count ==
  /\ phase = "parse" /\ Open(Len(body)) = 0
  /\ IF args = <<>>
       THEN /\ err' = TRUE /\ phase' = "done"
            /\ UNCHANGED <<countVars, insts, aborted>>
       ELSE /\ cap' = CountedInsts + Len(args)
            /\ max_symbol' = CountedSymbols
            /\ insts' = <<[kind |-> "lambda", symbol |-> 0, body_len |-> CountedInsts]>>
            /\ aborted' = ~(1 < cap')
            /\ phase' = "args"
            /\ UNCHANGED err
  /\ UNCHANGED <<treeVars, pos, table, nodes, next_symbol, lambdas, overrun>>

-----------------------------------------------------------------------------
(* The stack of bound names.                                               *)

\* mrv_nrstack_get_scope_depth
ScopeDepth(stack) == IF stack = <<>> THEN 0 ELSE Last(stack).depth

\* mrv_nrstack_push: the name gets the next symbol, and the depth of the top.
PushName(stack, name, symbol) ==
  Append(stack, [name |-> name, symbol |-> symbol, depth |-> ScopeDepth(stack)])

\* mrv_nrstack_push_first_in_scope, and mrv_nrstack_push for the other names.
PushParams(stack, names, symbol) ==
  stack \o [i \in DOMAIN names |->
              [name |-> names[i], symbol |-> symbol + i, depth |-> ScopeDepth(stack) + 1]]

Found(stack, name) == \E i \in DOMAIN stack : stack[i].name = name

\* mrv_nrstack_find_name: the topmost one.
FindName(stack, name) ==
  IF Found(stack, name)
    THEN stack[Max({i \in DOMAIN stack : stack[i].name = name})].symbol
    ELSE 0

\* Mutant: one name of the scope is left.
PopButOne(stack) ==
  SubSeq(stack, 1, 1 + Max({0} \union {i \in DOMAIN stack : stack[i].depth # ScopeDepth(stack)}))

\* mrv_nrstack_pop_scope: the names on top that have the depth of the topmost.
PopNames(stack) ==
  SubSeq(stack, 1, Max({0} \union {i \in DOMAIN stack : stack[i].depth # ScopeDepth(stack)}))

\* mrv_istream_append's assertion for the last of these instructions.
HasRoom(stream) == Len(stream) < cap

-----------------------------------------------------------------------------
(* The arguments of the combinator.                                        *)

RecordArg ==
  /\ phase = "args" /\ ~aborted /\ pos <= Len(args)
  /\ LET arg == args[pos] IN
       IF Found(nodes, arg.name) \/ arg.type \notin table
         THEN /\ err' = TRUE /\ phase' = "done"
              /\ UNCHANGED <<pos, insts, nodes, next_symbol, aborted>>
         ELSE /\ next_symbol' = next_symbol + 1
              /\ nodes' = PushName(nodes, arg.name, next_symbol')
              /\ insts' = Append(insts, [kind |-> "arg", symbol |-> next_symbol'])
              /\ aborted' = ~HasRoom(insts')
              /\ pos' = pos + 1
              /\ UNCHANGED <<err, phase>>
  /\ UNCHANGED <<treeVars, countVars, table, lambdas, overrun>>

StartBody ==
  /\ phase = "args" /\ ~aborted /\ pos > Len(args)
  /\ IF body = <<>>
       THEN err' = TRUE /\ phase' = "done"
       ELSE phase' = "body" /\ UNCHANGED err
  /\ pos' = 1
  /\ UNCHANGED <<treeVars, countVars, walkVars, overrun, aborted>>

-----------------------------------------------------------------------------
(* The body: mrv_sema_block_to_inst_stream_r.                              *)

\* The node that is visited.
Visit(kind) ==
  /\ phase = "body" /\ ~aborted
  /\ pos <= Len(body) /\ body[pos].kind = kind
  /\ UNCHANGED <<treeVars, countVars, phase>>

\* Mutant: the type is put in the table, and nothing is reported.
SkipSilently(n) ==
  /\ n.dest # NoDecl /\ n.dest.type \notin table
  /\ table' = table \union {n.dest.type}
  /\ pos' = IF n.kind = "lambda" THEN CloseOf(pos) + 1 ELSE pos + 1
  /\ UNCHANGED <<insts, nodes, next_symbol, lambdas, err, overrun, aborted>>

\* An assignment to a symbol of a type that is not in the table: that is an
\* error, which puts the name in the table, and the assignment is left out.
SkipAssignment(n) ==
  /\ n.dest # NoDecl /\ n.dest.type \notin table
  /\ table' = table \union {n.dest.type}
  /\ err' = TRUE
  /\ pos' = IF n.kind = "lambda" THEN CloseOf(pos) + 1 ELSE pos + 1
  /\ UNCHANGED <<insts, nodes, next_symbol, lambdas, overrun, aborted>>

\* The symbol of the assignment is bound before its expression is looked at.
Assigns(n) == n.dest # NoDecl
Symbol(n) == IF Assigns(n) THEN next_symbol + 1 ELSE 0
Bound(n) == IF Assigns(n) THEN PushName(nodes, n.dest.name, Symbol(n)) ELSE nodes

Resolves(n) ==
  /\ n.operator
  /\ Len(n.operands) <= 2
  /\ \A i \in DOMAIN n.operands : Found(Bound(n), n.operands[i])

\* mrv_sema_append_inst_for_expr, for an invocation.
Invoke ==
  /\ Visit("invocation")
  /\ LET n == body[pos] IN
       \/ SkipAssignment(n)
       \/ /\ Assigns(n) => n.dest.type \in table
          /\ nodes' = Bound(n)
          /\ next_symbol' = IF Assigns(n) THEN next_symbol + 1 ELSE next_symbol
          /\ IF Resolves(n)
               THEN /\ insts' = Append(insts,
                         [kind |-> "invocation", symbol |-> Symbol(n),
                          operands |-> [i \in DOMAIN n.operands |->
                                          FindName(nodes', n.operands[i])]])
                    /\ aborted' = ~HasRoom(insts')
                    /\ UNCHANGED err
               ELSE /\ err' = TRUE
                    /\ UNCHANGED <<insts, aborted>>
          /\ pos' = pos + 1
          /\ UNCHANGED <<table, lambdas, overrun>>

\* mrv_sema_append_inst_for_expr, for a lambda, up to its body.  A parameter
\* of a type that is not in the table is an error; it is bound all the same,
\* and the rest of the lambda is left out with its scope still open.
OpenLambda ==
  /\ Visit("lambda")
  /\ LET n == body[pos]
         bad == {i \in DOMAIN n.params : n.params[i].type \notin table}
         bound == IF bad = {} THEN Len(n.params) ELSE Min(bad)
         names == [i \in 1 .. bound |-> n.params[i].name]
         recorded == IF bad = {} THEN bound ELSE bound - 1
     IN \/ SkipAssignment(n)
        \/ /\ n.dest.type \in table
           /\ nodes' = PushParams(Bound(n), names, Symbol(n))
           /\ next_symbol' = Symbol(n) + bound
           /\ insts' = Append(insts, [kind |-> "lambda", symbol |-> Symbol(n), body_len |-> 0])
                         \o [i \in 1 .. recorded |->
                               [kind |-> "arg", symbol |-> Symbol(n) + i]]
           /\ aborted' = ~HasRoom(insts')
           /\ IF bad = {}
                THEN /\ lambdas' = Append(lambdas, [inst |-> Len(insts) + 1, n_args |-> bound])
                     /\ pos' = pos + 1
                     /\ UNCHANGED <<table, err>>
                ELSE /\ table' = table \union {n.params[bound].type}
                     /\ err' = TRUE
                     /\ pos' = CloseOf(pos) + 1
                     /\ UNCHANGED lambdas
           /\ UNCHANGED overrun

\* Mutant: the parameters are not taken off.
BodyLenWithParams(l) == Len(insts) - (l.inst - 1)

\* The length a lambda is patched with.
BodyLen(l) == Len(insts) - (l.inst - 1) - l.n_args

\* The end of a lambda: its scope goes and its length is known.  When no name
\* is left, the loop of mrv_nrstack_pop_scope reads the node in front of the
\* first one, which may end the program.
CloseLambda ==
  /\ Visit("close")
  /\ LET l == Last(lambdas) IN
       /\ nodes' = PopNames(nodes)
       /\ insts' = [insts EXCEPT ![l.inst].body_len = BodyLen(l)]
       /\ IF nodes' = <<>>
            THEN overrun' = TRUE /\ aborted' \in BOOLEAN
            ELSE UNCHANGED <<overrun, aborted>>
       /\ lambdas' = Front(lambdas)
       /\ pos' = pos + 1
       /\ UNCHANGED <<table, next_symbol, err>>

EndBody ==
  /\ phase = "body" /\ ~aborted /\ pos > Len(body)
  /\ phase' = "done"
  /\ UNCHANGED <<treeVars, pos, countVars, walkVars, failVars>>

Next ==
  \/ \E d \in Decl : ParseArg(d)
  \/ /\ phase = "parse"
     /\ \E k \in (0 .. MaxSize) \cap (0 .. MaxSize - Size) : \E n \in NodeOfSize[k] : ParseNode(n)
  \/ Count \/ RecordArg \/ StartBody
  \/ Invoke \/ OpenLambda \/ CloseLambda \/ EndBody

Spec == Init /\ [][Next]_vars

-----------------------------------------------------------------------------
(* Properties.                                                             *)

TypeOK ==
  /\ args \in Seq(Decl)
  /\ body \in Seq(Invocation \union Lambda \union {Close})
  /\ phase \in {"parse", "args", "body", "done"}
  /\ pos \in 1 .. Len(args) + Len(body) + 1
  /\ table \subseteq Type
  /\ {cap, max_symbol, next_symbol} \subseteq Nat
  /\ insts \in Seq(Inst(next_symbol))
  /\ nodes \in Seq([name : Name, symbol : Nat, depth : Nat])
  /\ lambdas \in Seq([inst : DOMAIN insts, n_args : Nat])
  /\ {err, overrun, aborted} \subseteq BOOLEAN

\* What was counted before the walk is enough for all the symbols it makes, on
\* the stack and in the symbol table, also after errors.
SymbolsFit == phase \in {"args", "body"} => Len(nodes) <= next_symbol /\ next_symbol <= max_symbol

\* The stream has room for every instruction, for all combinators but the
\* smallest ones.
InstsFit ==
  aborted /\ ~overrun => Len(args) = 1 /\ KindsIn(Len(body), "lambda") = 0

\* Unless an error was reported, every node has its instruction.
CompleteUnlessError ==
  phase = "done" /\ ~err /\ ~aborted =>
    Len(insts) = 1 + CountedInsts - KindsIn(Len(body), "lambda")

\* What the source defines, numbered in its order: the arguments, and for each
\* node of the body what it assigns to and its parameters.
HasDest(q) == body[q].kind # "close" /\ body[q].dest # NoDecl
ParamsAt(q) == IF body[q].kind = "lambda" THEN body[q].params ELSE <<>>

NumDefs == [q \in DOMAIN body |-> (IF HasDest(q) THEN 1 ELSE 0) + Len(ParamsAt(q))]
DefsBefore(q) == Len(args) + SumFunctionOnSet(NumDefs, 1 .. q - 1)

Def(name, node, param, symbol) ==
  [name |-> name, node |-> node, param |-> param, symbol |-> symbol]

DefsAt(q) ==
  {Def(body[q].dest.name, q, FALSE, DefsBefore(q) + 1) : k \in IF HasDest(q) THEN {1} ELSE {}}
    \union {Def(ParamsAt(q)[i].name, q, TRUE, DefsBefore(q) + 1 + i) : i \in DOMAIN ParamsAt(q)}

Defs == {Def(args[i].name, 0, FALSE, i) : i \in DOMAIN args} \union UNION {DefsAt(q) : q \in DOMAIN body}

\* The symbols that are visible at position p of the body, by the nesting of the
\* source alone: the arguments, what is assigned before in the blocks around p,
\* and the parameters of the lambdas around p.
Around(l, p) == l < p /\ p <= CloseOf(l)

IsVisible(d, p) ==
  /\ d.node < p
  /\ IF d.param THEN Around(d.node, p)
       ELSE \A l \in 1 .. d.node - 1 :
              body[l].kind = "lambda" /\ Around(l, d.node) => Around(l, p)

Visible(p) == {d \in Defs : IsVisible(d, p)}

\* A lambda without parameters opens no scope but ends one, which takes names
\* away that are not its own.
ScopesAreOpened == \A q \in 1 .. pos - 1 : body[q].kind = "lambda" => body[q].params # <<>>

\* Names are bound lexically: wherever the walk is, the stack has the symbols
\* that are visible there under their names, in their order, and no others,
\* when every lambda has a parameter.
ScopesAreLexical ==
  phase = "body" /\ ~err /\ ScopesAreOpened =>
    /\ \A i, j \in DOMAIN nodes : i < j => nodes[i].symbol < nodes[j].symbol
    /\ {<<nodes[i].name, nodes[i].symbol>> : i \in DOMAIN nodes}
         = {<<d.name, d.symbol>> : d \in Visible(pos)}

Uses(i) == IF insts[i].kind = "invocation" THEN ToSet(insts[i].operands) ELSE {}

\* A symbol is the innermost definition of a name that is visible at p: the last
\* one of the source.
IsInnermost(symbol, name, p) ==
  LET named == {d \in Visible(p) : d.name = name}
  IN \E d \in named : d.symbol = symbol /\ \A e \in named : e.symbol <= symbol

\* An operand is the innermost symbol of its name that is visible after the
\* node; the node's own symbol is, so it may use itself.
OperandsAreInnermost ==
  phase = "body" /\ ~err /\ ScopesAreOpened /\ pos > 1 /\ body[pos - 1].kind = "invocation" =>
    \A i \in DOMAIN body[pos - 1].operands :
      IsInnermost(Last(insts).operands[i], body[pos - 1].operands[i], pos)

\* The lambda at i of the stream with all that belongs to it.
Extent(i) ==
  LET params == {j \in i + 1 .. Len(insts) : \A k \in i + 1 .. j : insts[k].kind = "arg"}
  IN i .. i + Cardinality(params) + insts[i].body_len - 1

\* The lambdas of the stream are nested as those of the source, by the lengths
\* they were patched with: nothing after a lambda uses what is defined in it.
NothingEscapes ==
  phase = "done" /\ ~err /\ ~aborted =>
    \A i \in 2 .. Len(insts) : insts[i].kind = "lambda" =>
      /\ Extent(i) \subseteq DOMAIN insts
      /\ \A u \in i + 1 .. Len(insts) \ Extent(i), d \in Extent(i) \ {i} :
           insts[d].symbol # 0 => insts[d].symbol \notin Uses(u)

\* What was counted on the tree before the walk (mirv.c 2526-2551) is enough for
\* the symbols and instructions that the walk appends without a check.
CountsSuffice == TypeOK /\ SymbolsFit /\ InstsFit

\* Names are resolved as the source nests: on the stack are those that are
\* visible, and an operand is the innermost of its name (mirv.c 1960-2050).
NamesAreLexical == ScopesAreLexical /\ OperandsAreInnermost
=============================================================================
