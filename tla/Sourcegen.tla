------------------------------ MODULE Sourcegen ------------------------------
(***************************************************************************)
(* main of mirv.c from the analysis on: nobody looks at the errors, so the *)
(* dump or the generator gets whatever table the analysis left.  The       *)
(* generated C is the sequence of the things it defines, each with the     *)
(* things its text refers to; the statements of a combinator's function    *)
(* are the instructions they were made of.                                 *)
(***************************************************************************)
EXTENDS Analysis

VARIABLES
  output,   \* what was written, up to the assertion that failed
  written,  \* the instructions that became statements, by combinator
  reach     \* the furthest place of a stream that was read, by combinator

genVars == <<output, written, reach>>
vars == <<analysisVars, genVars>>

Init ==
  /\ AnalysisInit
  /\ output = <<>>
  /\ written = [n \in Name |-> <<>>]
  /\ reach = [n \in Name |-> 0]

Analyze == AnalysisNext /\ UNCHANGED genVars

InTable == InSlotOrder(table)
OfKind(kind) == SelectSeq(InTable, LAMBDA n : entries[n].kind = kind)

\* Operators, and the lambdas among the types.
HasNode(n) ==
  entries[n].kind = "operator" \/ (entries[n].kind = "type" /\ entries[n].type_kind = "lambda")

\* An item that defines something of what (a kind of thing and a name).
Item(kind, n, uses) == [kind |-> kind, name |-> n, uses |-> uses]
Use(kind, names) == {<<kind, n>> : n \in names \ {None}}

-----------------------------------------------------------------------------
(* main: --dump-istreams, or no such argument.                             *)

\* mrv_istream_dump asks for the name of every type it writes.
DumpHalts(n) ==
  LET e == entries[n]
  IN \E i \in DOMAIN e.insts : e.insts[i].symbol # 0 /\ ~HasName(e.symtab[e.insts[i].symbol])

DumpInstStreams ==
  /\ phase = "analyzed"
  /\ halted' = IF \E n \in table : entries[n].kind = "combinator" /\ DumpHalts(n)
                 THEN "nameless" ELSE "no"
  /\ phase' = "done"
  /\ UNCHANGED <<source, size, language, table, entries, err, unchecked, genVars>>

-----------------------------------------------------------------------------
(* mrv_gen_source: the types.                                              *)

\* mrv_sg_fmt_symbol_type asserts that a name is in the table, and a type's.
IsSymbolType(r) == r # None /\ entries[r].named /\ entries[r].kind = "type"

\* mrv_sg_symbol_types
SymbolTypes == [i \in DOMAIN OfKind("type") |-> Item("symbol", OfKind("type")[i], {})]

RefsOf(n) == {entries[n].left, entries[n].right, entries[n].ret}

\* mrv_sg_node_types
NodeTypes ==
  LET nodes == SelectSeq(InTable, HasNode)
  IN [i \in DOMAIN nodes |-> Item("node", nodes[i], Use("symbol", RefsOf(nodes[i])))]

\* mrv_sg_node_union_type, mrv_sg_builder_types and mrv_sg_expr_type
UnionAndBuilder ==
  <<Item("operands", None, Use("node", {n \in table : HasNode(n)})),
    Item("builder", None, {<<"operands", None>>})>>

\* Mutant: the nodes come before the types of their symbols.
NodesFirst == NodeTypes \o SymbolTypes \o UnionAndBuilder

TypeSections == SymbolTypes \o NodeTypes \o UnionAndBuilder

\* An entry without a name has an empty one, which is in no table: the first of
\* them ends the program before its type is written.
GenerateTypes ==
  /\ phase = "analyzed"
  /\ LET types == OfKind("type")
         nameless == {i \in DOMAIN types : ~entries[types[i]].named}
     IN IF nameless # {}
          THEN /\ halted' = "nameless"
               /\ output' = SubSeq(SymbolTypes, 1, Min(nameless) - 1)
               /\ UNCHANGED phase
          ELSE /\ output' = TypeSections
               /\ phase' = "redexes"
               /\ UNCHANGED halted
  /\ UNCHANGED <<source, size, language, table, entries, err, unchecked, written, reach>>

-----------------------------------------------------------------------------
(* mrv_sg_redex_types.                                                     *)

\* The instruction at a place of the array: behind the stream it is all zero.
KindAt(e, i) == IF i \in DOMAIN e.insts THEN e.insts[i].kind ELSE "nop"

\* The place of the first argument, and the one behind the last.
FirstArg(e) == Min({i \in 1 .. Len(e.insts) + 1 : KindAt(e, i) = "arg" \/ i > Len(e.insts)})
EndOfArgs(e) == Min({i \in FirstArg(e) .. Len(e.insts) + 1 : KindAt(e, i) # "arg"})

ArgTypes(e) == {e.symtab[e.insts[i].symbol] : i \in FirstArg(e) .. EndOfArgs(e) - 1}

\* The first combinator with an argument of something else than a type ends the
\* program.
GenerateRedexes ==
  /\ phase = "redexes" /\ halted = "no"
  /\ LET combs == OfKind("combinator")
         bad == {i \in DOMAIN combs : \E r \in ArgTypes(entries[combs[i]]) : ~IsSymbolType(r)}
         end == IF bad = {} THEN Len(combs) ELSE Min(bad) - 1
     IN /\ output' = output \o [i \in 1 .. end |->
             Item("redex", combs[i], Use("symbol", ArgTypes(entries[combs[i]])))]
        /\ reach' = [n \in Name |-> IF n \in ToSet(combs) THEN EndOfArgs(entries[n]) ELSE 0]
        /\ IF bad = {} THEN phase' = "functions" /\ UNCHANGED halted
                       ELSE halted' = "kind" /\ UNCHANGED phase
  /\ UNCHANGED <<source, size, language, table, entries, err, unchecked, written>>

-----------------------------------------------------------------------------
(* mrv_sg_append_fn.                                                       *)

\* The return type of a lambda is left out.  AK_Context and what reports an
\* error with it are in no section, and base.h, which the header includes, does
\* not have them.
AppendFunctions ==
  LET nodes == SelectSeq(InTable, HasNode)
      refs(n) == IF entries[n].kind = "operator" THEN RefsOf(n)
                 ELSE {entries[n].left, entries[n].right}
  IN [i \in DOMAIN nodes |->
        Item("append", nodes[i], Use("symbol", refs(nodes[i]))
               \union {<<"node", nodes[i]>>, <<"operands", None>>, <<"builder", None>>,
                       <<"context", None>>})]

\* The names of functions have the first letter of the language's name.  Of an
\* empty one it is a byte behind a block of none: the sanitizer stops the
\* program there, and without it the letter is any.
LetterOutcomes == IF language = None THEN {"no", "letter"} ELSE {"no"}

GenerateAppends ==
  /\ phase = "functions" /\ halted = "no"
  /\ \E letter \in IF AppendFunctions = <<>> THEN {"no"} ELSE LetterOutcomes :
       /\ halted' = letter
       /\ output' = IF letter = "no" THEN output \o AppendFunctions ELSE output
  /\ phase' = "combinator_functions"
  /\ unchecked' = ToSet(OfKind("combinator"))
  /\ UNCHANGED <<source, size, language, table, entries, err, written, reach>>

-----------------------------------------------------------------------------
(* mrv_sg_combinator_functions.                                            *)

\* How many parameters the type of the lambda at i says it has; if the type is
\* none, what is read there in its place.
NumParams(e, i, misread) ==
  IF i \in Misread(e) THEN misread
  ELSE LET type == entries[e.symtab[e.insts[i].symbol]]
       IN Cardinality({side \in {"left", "right"} : type[side] # None})

\* Mutant: the loop over the parameters always goes one further.
LastParamIncremented(i, n) == i + n + 1

\* The last place the loop over the parameters of the lambda at i looks at; it
\* looks at one in any case.
LastParam(i, n) == i + Max({n, 1})

\* Mutant: the last parameter is stepped over like the ones before it.
SkipTheFirst(last) == last + 2

\* Where the walk goes on behind the last parameter of a lambda.
AfterParams(last) == last + 1

\* What the walk from place i on writes, how far it reads, and whether it halts.
WalkFunction(e, misread) ==
  LET from[i \in 1 .. Len(e.insts) + 3] ==
        IF i > Len(e.insts)
          THEN [insts |-> <<>>, reach |-> 0, halts |-> FALSE]
        ELSE IF e.insts[i].kind = "invocation"
          THEN [from[i + 1] EXCEPT !.insts = <<i>> \o @, !.reach = Max({i, @})]
        ELSE IF e.insts[i].kind = "lambda" /\ e.insts[i].symbol # 0
          THEN LET last == LastParam(i, NumParams(e, i, misread))
                   others == {j \in i + 1 .. last : KindAt(e, j) # "arg"}
               IN IF others # {}
                    THEN [insts |-> <<i>>, reach |-> Min(others), halts |-> TRUE]
                    ELSE [from[AfterParams(last)] EXCEPT !.insts = [j \in 1 .. last - i + 1 |-> i + j - 1] \o @,
                                                !.reach = Max({last, @})]
        ELSE [from[i + 1] EXCEPT !.reach = Max({i, @})]
  IN from[1]

Calls(e) == {i \in DOMAIN e.insts : e.insts[i].kind = "invocation"}

\* The operands that the call at i is written with, 0 for one that was left out,
\* and the entry where it is looked up whether the host has their type.
OperandsAt(e, i) ==
  {e.insts[i][side] : side \in {s \in {"left", "right"} : entries[e.insts[i].op][s] # None}}
TypeAt(e, k) == IndexOf(IF k = 0 THEN None ELSE e.symtab[k])

\* The entries that are looked up and are no types: what is read there is the
\* length of a name or the size of a stream.
OddTypes(e, insts) ==
  {n \in {TypeAt(e, k) : k \in UNION {OperandsAt(e, i) : i \in ToSet(insts) \intersect Calls(e)}} :
     entries[n].kind # "type"}

\* An operand of a host's type is taken from the redex, which has the arguments;
\* any other is a variable, and declared by the statement that makes it.
IsHostType(n) == entries[n].kind = "type" /\ entries[n].type_kind = "host"
InRedex(e) == {e.insts[i].symbol : i \in FirstArg(e) .. EndOfArgs(e) - 1}

DeclaredUpTo(e, insts, i) ==
  LET declares(j) == j \in Calls(e) => entries[e.insts[j].op].ret # None
  IN {e.insts[j].symbol : j \in {j \in ToSet(insts) : j <= i /\ declares(j)}} \ {0}

\* The operands that neither the redex nor the function has.
Unknown(e, insts, hosts) ==
  UNION {{k \in OperandsAt(e, i) :
            k \notin IF TypeAt(e, k) \in hosts THEN InRedex(e) ELSE DeclaredUpTo(e, insts, i)} :
         i \in ToSet(insts) \intersect Calls(e)}

\* A lambda is given the lengths of its arguments and its body, which no symbol
\* type has.
FunctionUses(e, insts, hosts) ==
  LET ops == {e.insts[i].op : i \in ToSet(insts) \intersect Calls(e)}
      others == ToSet(insts) \ Calls(e)
      typesOf(places) == {e.symtab[e.insts[i].symbol] : i \in places}
  IN Use("append", ops) \union Use("symbol", {entries[o].ret : o \in ops} \union typesOf(others))
       \union Use("lengths", typesOf({i \in others : e.insts[i].kind = "lambda"}))
       \union {<<"operand", k>> : k \in Unknown(e, insts, hosts)}

\* The function of one combinator: it is written when all of it is made.
GenerateFunction(n) ==
  /\ phase = "combinator_functions" /\ halted = "no"
  /\ unchecked # {} /\ n = Head(InSlotOrder(unchecked))
  /\ LET e == entries[n] IN
       \E misread \in IF Misread(e) = {} THEN {0} ELSE 0 .. 2 :
         LET f == WalkFunction(e, misread) IN
           /\ reach' = [reach EXCEPT ![n] = Max({@, f.reach})]
           /\ \/ /\ f.halts
                 /\ halted' = "param"
                 /\ UNCHANGED <<output, written>>
              \/ /\ ~f.halts /\ "letter" \in LetterOutcomes
                 /\ halted' = "letter"
                 /\ UNCHANGED <<output, written>>
              \/ /\ ~f.halts
                 /\ \E odd \in SUBSET OddTypes(e, f.insts) :
                      output' = Append(output, Item("function", n,
                        FunctionUses(e, f.insts, odd \union {h \in table : IsHostType(h)})
                          \union {<<"redex", n>>}))
                 /\ written' = [written EXCEPT ![n] = f.insts]
                 /\ UNCHANGED halted
  /\ unchecked' = unchecked \ {n}
  /\ UNCHANGED <<source, size, phase, language, table, entries, err>>

EndFunctions ==
  /\ phase = "combinator_functions" /\ halted = "no" /\ unchecked = {}
  /\ phase' = "done"
  /\ UNCHANGED <<source, size, language, table, entries, err, halted, unchecked, genVars>>

Next ==
  \/ Analyze
  \/ DumpInstStreams
  \/ GenerateTypes \/ GenerateRedexes \/ GenerateAppends
  \/ \E n \in Name : GenerateFunction(n)
  \/ EndFunctions

Spec == Init /\ [][Next]_vars
-----------------------------------------------------------------------------
(* What the source says, with no table.                                    *)

TypesOf == ToSet(source.types)
OperatorsOf == ToSet(source.operators)
CombinatorsOf == ToSet(source.combinators)
NamesOf(decls) == {d.name : d \in decls}

Declarations == source.types \o source.operators \o source.combinators
NoNameTwice == Cardinality(NamesOf(ToSet(Declarations))) = Len(Declarations)

TypeNamed(t) == CHOOSE d \in TypesOf : d.name = t
OperatorNamed(o) == CHOOSE d \in OperatorsOf : d.name = o

LambdaIsWellFormed(i) ==
  LET d == source.types[i]
  IN /\ d.alias # "other" /\ Len(d.args) <= 3
     /\ ToSet(d.args) \subseteq {Unit} \union {source.types[j].name : j \in 1 .. i}

OperatorIsWellFormed(d) ==
  Len(d.args) <= 2 /\ (ToSet(d.args) \union {d.ret}) \ {None} \subseteq NamesOf(TypesOf)

\* The types of the symbols, in their order.
SymbolTypesOf(s) ==
  IF s.kind = "lambda" THEN <<s.dest>> \o s.params
  ELSE IF s.dest = None THEN <<>> ELSE <<s.dest>>
TypesUpTo(d, j) ==
  d.args \o FlattenSeq([k \in 1 .. j |-> SymbolTypesOf(d.body[k])])

\* What is given where, against what is declared.
Matches(got, declared) == got = None \/ got = declared

InvocationIsWellTyped(d, j) ==
  LET s == d.body[j]
      op == OperatorNamed(s.op)
      types == TypesUpTo(d, j)
  IN /\ s.op \in NamesOf(OperatorsOf)
     /\ Len(s.operands) <= Len(op.args)
     /\ \A i \in DOMAIN s.operands :
          s.operands[i] \in DOMAIN types /\ types[s.operands[i]] = op.args[i]
     /\ Matches(s.dest, op.ret)

\* Only what the type of a lambda names is looked at.
LambdaIsWellTyped(s) ==
  LET type == TypeNamed(s.dest)
  IN \A i \in 2 .. Len(type.args) :
       type.args[i] # Unit => Len(s.params) >= i - 1 /\ s.params[i - 1] = type.args[i]

\* Types, operators, and combinators up to the i-th are known in the i-th.
CombinatorIsWellFormed(i) ==
  LET d == source.combinators[i]
      known == NamesOf(TypesOf \union OperatorsOf) \union {source.combinators[j].name : j \in 1 .. i}
  IN /\ d.args # <<>> /\ d.body # <<>>
     /\ ToSet(TypesUpTo(d, Len(d.body))) \subseteq known
     /\ \A j \in DOMAIN d.body :
          IF d.body[j].kind = "invocation" THEN InvocationIsWellTyped(d, j)
                                           ELSE LambdaIsWellTyped(d.body[j])

IsWellFormed ==
  /\ Cardinality(ToSet(source.languages)) <= 1
  /\ NoNameTwice
  /\ \A i \in DOMAIN source.types : LambdaIsWellFormed(i)
  /\ \A d \in OperatorsOf : OperatorIsWellFormed(d)
  /\ \A i \in DOMAIN source.combinators : CombinatorIsWellFormed(i)

LambdasOf == {s \in UNION {ToSet(d.body) : d \in CombinatorsOf} : s.kind = "lambda"}

\* Lambdas are only assigned to what is declared as a type, and no host's.
LambdasHaveTypes ==
  \A s \in LambdasOf : \E d \in TypesOf : d.name = s.dest /\ d.alias # "host"

\* What takes a right argument takes a left one: without it, the place of the
\* right one may be that of the next lambda's left one.
RightNeedsLeft ==
  \A d \in TypesOf : RefAt(d.args, 3) # None => RefAt(d.args, 2) # None

-----------------------------------------------------------------------------
(* Properties.                                                             *)

TypeOK ==
  /\ phase \in {"types", "operators", "combinators", "typecheck", "analyzed", "redexes",
                "functions", "combinator_functions", "done"}
  /\ language \in Languages \union {None}
  /\ table \subseteq Name /\ unchecked \subseteq table
  /\ \A n \in Name :
       /\ entries[n].kind \in {"type", "operator", "combinator"}
       /\ {entries[n].left, entries[n].right, entries[n].ret} \subseteq table \union {None}
       /\ ToSet(entries[n].symtab) \subseteq table \union {None}
       /\ \A i \in DOMAIN entries[n].insts :
            entries[n].insts[i].symbol \in 0 .. Len(entries[n].symtab)
  /\ err \in BOOLEAN
  /\ halted \in {"no", "capacity", "nameless", "return", "misread", "kind", "param", "argument",
                 "letter"}

\* After the passes an error has been reported exactly if the program is not
\* well formed: whatever one pass leaves in the table after an error makes no
\* later pass forget it, and whatever is in order is accepted.  (Not so for
\* lambdas of no lambda's type, and for types that take a right argument only.)
Judged == phase \notin {"types", "operators", "combinators", "typecheck"}
ReportsExactly ==
  Judged /\ LambdasHaveTypes /\ RightNeedsLeft => (err <=> ~IsWellFormed)

\* Every reference of an operator or a lambda is to a type, whatever was
\* reported: "redex" and "nodes" are written with their names.
RefsAreTypes ==
  \A n \in table : HasNode(n) =>
    \A r \in RefsOf(n) \ {None} : r \in table /\ entries[r].kind = "type"

\* A program without errors is only given up for what the source shows: a
\* symbol as an argument of a type, no name of the language, a stream of one
\* argument and no lambda, a lambda of a type that has a result or is none, a
\* lambda with no parameters, an argument whose type is none.
UsesAsType(names) == \E d \in CombinatorsOf : ToSet(d.args) \intersect names # {}
HasResult(t) == t \in NamesOf(TypesOf) /\ RefAt(TypeNamed(t).args, 1) # None

HaltsForAReason ==
  ~err =>
    CASE halted = "no" -> TRUE
      [] halted = "capacity" ->
           \E d \in CombinatorsOf :
             Len(d.args) = 1 /\ \A i \in DOMAIN d.body : d.body[i].kind # "lambda"
      [] halted = "return" -> \E s \in LambdasOf : HasResult(s.dest)
      [] halted = "misread" -> ~LambdasHaveTypes
      [] halted = "kind" -> UsesAsType(NamesOf(OperatorsOf \union CombinatorsOf))
      [] halted = "argument" -> \E d \in TypesOf : Symbol \in ToSet(d.args)
      [] halted = "letter" -> source.languages = <<>>
      [] halted = "param" -> \E s \in LambdasOf : s.params = <<>> \/ ~LambdasHaveTypes
      [] OTHER -> FALSE

SymbolsHaveTypes ==
  \A d \in CombinatorsOf : ToSet(TypesUpTo(d, Len(d.body))) \subseteq NamesOf(TypesOf)

\* How many parameters the type of a lambda wants, and the symbols of those that
\* are more than that and not the first.
Wanted(s) == Cardinality({i \in 2 .. Len(TypeNamed(s.dest).args) : TypeNamed(s.dest).args[i] # Unit})
SpareParams(d) ==
  UNION {LET s == d.body[j]
             symbol == Len(TypesUpTo(d, j - 1)) + 1
         IN IF s.kind = "lambda" THEN {symbol + p : p \in Max({Wanted(s), 1}) + 1 .. Len(s.params)} ELSE {} :
         j \in DOMAIN d.body}

\* What nothing defines: the context of every function that appends a node, and
\* in the functions of combinators the lengths of lambdas, an operand that was
\* left out, arguments of a type the host has not, other symbols of a type it
\* has, and parameters a lambda's type does not want.
Gaps(item) ==
  CASE item.kind = "append" -> {<<"context", None>>}
    [] item.kind = "function" ->
         LET d == CHOOSE c \in CombinatorsOf : c.name = item.name
             types == TypesUpTo(d, Len(d.body))
             foreign == {k \in DOMAIN types : (k <= Len(d.args)) # (TypeNamed(types[k]).alias = "host")}
         IN Use("lengths", {s.dest : s \in {b \in ToSet(d.body) : b.kind = "lambda"}})
              \union {<<"operand", k>> : k \in {0} \union foreign \union SpareParams(d)}
    [] OTHER -> {}

\* All else that the header and the source refer to is defined in them before,
\* for all programs whose symbols have types.
DefinedBeforeUsed ==
  ~err /\ SymbolsHaveTypes /\ LambdasHaveTypes =>
    \A i \in DOMAIN output :
      output[i].uses \subseteq {<<output[j].kind, output[j].name>> : j \in 1 .. i - 1}
                               \union Gaps(output[i])

\* Every instruction behind the arguments is written once and in order, when
\* the lambdas have the parameters that their types want, and at least one.
EveryInstIsWritten ==
  phase = "done" /\ ~err /\ halted = "no" /\ output # <<>> /\ LambdasHaveTypes
    /\ (\A s \in LambdasOf : Len(s.params) = Max({Wanted(s), 1})) =>
       \A d \in CombinatorsOf :
         written[d.name] = [i \in 1 .. Len(entries[d.name].insts) - 1 - Len(d.args) |->
                              1 + Len(d.args) + i]

\* The array of a stream is read behind its last instruction, but never behind
\* its last place.
ReadsWithinStream == \A n \in table : reach[n] <= entries[n].cap

\* What the table, the header and the source refer to is there: a type in the
\* table, and in the text something that is defined further up (mirv.c 4193), or
\* one of the things that are known to be missing.
ReferencesHold == TypeOK /\ RefsAreTypes /\ DefinedBeforeUsed

\* The walk over a stream writes every instruction once, and reads none behind
\* the array (mirv.c 3728, 4110-4140).
StreamsAreWritten == EveryInstIsWritten /\ ReadsWithinStream
=============================================================================
