------------------------------- MODULE Analysis -------------------------------
(***************************************************************************)
(* What mrv_analyze (mirv.c) makes of a program: one table of everything   *)
(* that is declared, filled by a pass over the types, one over the         *)
(* operators and one over the combinators, and then a check of the types   *)
(* in the instruction streams.  An error is reported once and stops none   *)
(* of the passes; what an erroneous declaration leaves in the table is     *)
(* there for the passes after it, and for the generator.                   *)
(*                                                                         *)
(* A pass meets the declarations of its own kind in the order of the text, *)
(* so the program is made up as the passes go.  The operands of an         *)
(* invocation are the symbols their names stand for (module Combinator);   *)
(* one behind the last symbol stands for a name that is not bound.         *)
(***************************************************************************)
EXTENDS Integers, Sequences, FiniteSets, SequencesExt, FiniteSetsExt

CONSTANTS
  Slots,             \* the identifiers in the order of their slots; the first has slot 0
  None,              \* no reference: the ref that is not valid
  Unit, Symbol,      \* "()" and "%x" as arguments of a type
  Languages,         \* what a program is made of: names of languages,
  TypeDecls,         \*   declarations of types
  OperatorDecls,     \*   and of operators,
  CombinatorNames,   \*   the names,
  ArgLists,          \*   the types of the arguments
  Statements,        \*   and the statements of combinators
  MaxSize,           \* bounds: declarations and statements together,
  MaxFaultySize,     \*   the same when something is added after an error,
  MaxStatements      \*   statements of a combinator

Name == ToSet(Slots)

Ref == Name \union {None}

-----------------------------------------------------------------------------
(* Declarations.                                                           *)

\* The alias is what follows "=": nothing, a host type, Lambda, or something
\* else that has arguments.
TypeDecl ==
  [name : Name, alias : {"nominal", "host", "other"}, args : {<<>>}]
    \union [name : Name, alias : {"lambda"}, args : Seq(Name \union {Unit, Symbol})]

OperatorDecl == [name : Name, ret : Ref, args : Seq(Name)]

\* "dest: type = op(operands);", or without "dest: type ="; "dest: type =
\* lambda (params) { ... };", with the statements of its block behind it.
Invocation == [kind : {"invocation"}, dest : Ref, op : Name, operands : Seq(Nat \ {0})]
Lambda == [kind : {"lambda"}, dest : Name, params : Seq(Name)]

ASSUME AnalysisAssumption ==
  /\ {None, Unit, Symbol} \intersect (Name \union Languages) = {}
  /\ TypeDecls \subseteq TypeDecl /\ OperatorDecls \subseteq OperatorDecl
  /\ CombinatorNames \subseteq Name /\ ArgLists \subseteq Seq(Name)
  /\ Statements \subseteq Invocation \union Lambda
  /\ {MaxSize, MaxFaultySize, MaxStatements} \subseteq Nat

\* Bodies of at most k statements.
BodiesUpTo == [k \in 0 .. MaxSize |-> BoundedSeq(Statements, Min({k, MaxStatements}))]

-----------------------------------------------------------------------------
(* MRV_LanguageDescriptor and MRV_Inst.                                    *)

\* An entry that was never written is a type without a name.
Blank ==
  [kind |-> "type", named |-> FALSE, type_kind |-> "nominal", left |-> None, right |-> None,
   ret |-> None, insts |-> <<>>, symtab |-> <<>>, cap |-> 0]

VARIABLES
  source,    \* the program, as far as the passes have met it
  size,      \*   and its size
  phase,     \* "types", "operators", "combinators", "typecheck", "analyzed", ...
  language,  \* ldesc.language_name
  table,     \* the identifiers in ldesc.table
  entries,   \* ldesc.entries, by the identifier that has the slot
  err,       \* ctx.err.is_err
  halted,    \* the assertion that failed, or "no"
  unchecked  \* the combinators mrv_sema_typecheck_istreams has yet to come to

analysisVars == <<source, size, phase, language, table, entries, err, halted, unchecked>>

AnalysisInit ==
  /\ source = [languages |-> <<>>, types |-> <<>>, operators |-> <<>>, combinators |-> <<>>]
  /\ size = 0
  /\ phase = "types"
  /\ language = None
  /\ table = {}
  /\ entries = [n \in Name |-> Blank]
  /\ err = FALSE
  /\ halted = "no"
  /\ unchecked = {}

\* What may still be added to the program.
Left == (IF err THEN Min({MaxFaultySize, MaxSize}) ELSE MaxSize) - size

\* The next declaration of a kind, which counts for k.
Meet(kind, d, k) ==
  /\ k <= Left
  /\ source' = [source EXCEPT ![kind] = Append(@, d)]
  /\ size' = size + k

\* Identifiers in the order of their slots, as ak_table_iter_advance has them.
InSlotOrder(names) == SelectSeq(Slots, LAMBDA n : n \in names)

-----------------------------------------------------------------------------
(* mrv_sema_record_type_decls_r.                                           *)

RecordLanguage(l) ==
  /\ phase = "types" /\ halted = "no" /\ Meet("languages", l, 2)
  /\ err' = (err \/ language \notin {None, l})
  /\ language' = l
  /\ UNCHANGED <<phase, table, entries, halted, unchecked>>

RefAt(args, i) == IF i \in DOMAIN args /\ args[i] # Unit THEN args[i] ELSE None

\* An argument of a lambda type is a unit, or something in the table.  (The
\* parser lets no host type into the list, but symbols.)
IsBadArg(arg, known) == arg # Unit /\ arg \notin known

BadArgs(d, known) ==
  IF d.alias = "other" \/ Len(d.args) > 3 THEN {}
  ELSE {i \in DOMAIN d.args : IsBadArg(d.args[i], known)}

\* The arguments that are recorded: those before the first bad one.
ArgsUpToBad(d, known) ==
  IF d.alias = "other" \/ Len(d.args) > 3 THEN <<>>
  ELSE IF BadArgs(d, known) = {} THEN d.args
  ELSE SubSeq(d.args, 1, Min(BadArgs(d, known)) - 1)

\* The assertion that an argument is a name: the first bad one is a symbol.
HasSymbolArg(d, known) ==
  BadArgs(d, known) # {} /\ d.args[Min(BadArgs(d, known))] = Symbol

IsGoodType(d, known) ==
  d.alias # "other" /\ Len(d.args) <= 3 /\ BadArgs(d, known) = {}

\* An error about the alias leaves the name in the table, and the entry without
\* a name and kind, but with the arguments before the error.
RecordType(d) ==
  /\ phase = "types" /\ halted = "no" /\ Meet("types", d, 1)
  /\ IF d.name \in table
       THEN err' = TRUE /\ UNCHANGED <<table, entries, halted>>
       ELSE LET known == table \union {d.name}
                good == IsGoodType(d, known)
                args == ArgsUpToBad(d, known)
                asserts == HasSymbolArg(d, known)
            IN /\ table' = known
               /\ entries' = [entries EXCEPT ![d.name] =
                    [Blank EXCEPT !.named = good,
                                  !.type_kind = IF good THEN d.alias ELSE "nominal",
                                  !.ret = RefAt(args, 1),
                                  !.left = RefAt(args, 2),
                                  !.right = RefAt(args, 3)]]
               /\ err' = (err \/ ~(good \/ asserts))
               /\ halted' = IF asserts THEN "argument" ELSE "no"
  /\ UNCHANGED <<phase, language, unchecked>>

EndTypes ==
  /\ phase = "types" /\ halted = "no" /\ phase' = "operators"
  /\ UNCHANGED <<source, size, language, table, entries, err, halted, unchecked>>

-----------------------------------------------------------------------------
(* mrv_sema_record_op_decls_r.                                             *)

IsType(t) == t \in table /\ entries[t].kind = "type"

\* A bad argument only ends the loop over the arguments: the operator is
\* recorded without it and those after it.  A bad return type ends the switch.
RecordOperator(d) ==
  /\ phase = "operators" /\ Meet("operators", d, 1)
  /\ LET bad == {i \in DOMAIN d.args : ~IsType(d.args[i])}
         args == IF bad = {} THEN d.args ELSE SubSeq(d.args, 1, Min(bad) - 1)
         fits == Len(d.args) <= 2
         returns == d.ret = None \/ IsType(d.ret)
         fresh == d.name \notin table
     IN /\ err' = (err \/ ~fits \/ bad # {} \/ ~returns \/ ~fresh)
        /\ IF fits /\ returns /\ fresh
             THEN /\ table' = table \union {d.name}
                  /\ entries' = [entries EXCEPT ![d.name] =
                       [Blank EXCEPT !.kind = "operator", !.named = TRUE,
                                     !.left = RefAt(args, 1), !.right = RefAt(args, 2),
                                     !.ret = d.ret]]
             ELSE UNCHANGED <<table, entries>>
  /\ UNCHANGED <<phase, language, halted, unchecked>>

EndOperators ==
  /\ phase = "operators" /\ phase' = "combinators"
  /\ UNCHANGED <<source, size, language, table, entries, err, halted, unchecked>>

-----------------------------------------------------------------------------
(* mrv_sema_record_combinators, with the names already resolved.           *)

\* Where the walk over the body is: what it has put in the table, the stream
\* and its symbols' types so far, and whether it reported an error.
Walk(known, insts, symtab, bad) ==
  [table |-> known, insts |-> insts, symtab |-> symtab, err |-> bad]

ArgInst(symbol) == [kind |-> "arg", symbol |-> symbol]

\* mrv_sema_append_inst_for_expr.  An assignment to a symbol of an unknown type
\* is left out, and its type is in the table from then on.
WalkInvocation(w, s) ==
  LET symtab == IF s.dest = None THEN w.symtab ELSE Append(w.symtab, s.dest)
      good == /\ s.op \in w.table /\ entries[s.op].kind = "operator"
              /\ Len(s.operands) <= 2
              /\ ToSet(s.operands) \subseteq DOMAIN symtab
      operand(i) == IF i \in DOMAIN s.operands THEN s.operands[i] ELSE 0
      inst == [kind |-> "invocation", symbol |-> IF s.dest = None THEN 0 ELSE Len(symtab),
               op |-> s.op, left |-> operand(1), right |-> operand(2)]
  IN IF good THEN Walk(w.table, Append(w.insts, inst), symtab, w.err)
             ELSE Walk(w.table, w.insts, symtab, TRUE)

\* A parameter of an unknown type is bound, but without a type, and ends the lambda.
WalkLambda(w, s) ==
  LET bad == {i \in DOMAIN s.params : s.params[i] \notin w.table}
      params == IF bad = {} THEN s.params ELSE SubSeq(s.params, 1, Min(bad) - 1)
      symbol == Len(w.symtab) + 1
      insts == w.insts \o <<[kind |-> "lambda", symbol |-> symbol]>>
                 \o [i \in DOMAIN params |-> ArgInst(symbol + i)]
      symtab == Append(w.symtab, s.dest) \o params
  IN IF bad = {} THEN Walk(w.table, insts, symtab, w.err)
     ELSE Walk(w.table \union {s.params[Min(bad)]}, insts, Append(symtab, None), TRUE)

WalkStatement(w, s) ==
  IF s.dest # None /\ s.dest \notin w.table
    THEN Walk(w.table \union {s.dest}, w.insts, w.symtab, TRUE)
  ELSE IF s.kind = "invocation" THEN WalkInvocation(w, s)
  ELSE WalkLambda(w, s)

\* The arguments up to the first one of an unknown type, which ends the walk.
WalkArgs(d, known) ==
  LET bad == {i \in DOMAIN d.args : d.args[i] \notin known}
      args == IF bad = {} THEN d.args ELSE SubSeq(d.args, 1, Min(bad) - 1)
  IN Walk(known, <<[kind |-> "lambda", symbol |-> 0]>> \o [i \in DOMAIN args |-> ArgInst(i)],
          args, bad # {})

WalkCombinator(d, known) ==
  LET start == WalkArgs(d, known)
  IN IF start.err THEN start
     ELSE IF d.body = <<>> THEN [start EXCEPT !.err = TRUE]
     ELSE FoldLeft(WalkStatement, start, d.body)

\* mrv_sema_combinator_do_counting, and the places mrv_istream_init is asked for.
Counted(d) ==
  Len(d.args) + FoldLeft(LAMBDA sum, s : sum + IF s.kind = "lambda" THEN 2 + Len(s.params) ELSE 1,
                         0, d.body)
Cap(d) == Counted(d) + Len(d.args)

\* mrv_istream_append's assertion for the last of these instructions.
HasRoom(insts, cap) == Len(insts) < cap

RecordCombinator(d) ==
  /\ phase = "combinators" /\ halted = "no" /\ Meet("combinators", d, 1 + Len(d.body))
  /\ IF d.name \in table
       THEN err' = TRUE /\ UNCHANGED <<table, entries, halted>>
     ELSE IF d.args = <<>>
       THEN err' = TRUE /\ table' = table \union {d.name} /\ UNCHANGED <<entries, halted>>
     ELSE LET w == WalkCombinator(d, table \union {d.name})
          IN /\ err' = (err \/ w.err)
             /\ table' = w.table
             /\ entries' = [entries EXCEPT ![d.name] =
                  [Blank EXCEPT !.kind = "combinator", !.named = TRUE,
                                !.insts = w.insts, !.symtab = w.symtab, !.cap = Cap(d)]]
             /\ halted' = IF HasRoom(w.insts, Cap(d)) THEN "no" ELSE "capacity"
  /\ UNCHANGED <<phase, language, unchecked>>

EndCombinators ==
  /\ phase = "combinators" /\ halted = "no" /\ phase' = "typecheck"
  /\ unchecked' = {n \in table : entries[n].kind = "combinator"}
  /\ UNCHANGED <<source, size, language, table, entries, err, halted>>

-----------------------------------------------------------------------------
(* mrv_sema_typecheck_istreams.                                            *)

\* mrv_ldesc_ref_eq: the ref that is not valid has index 0.
IndexOf(r) == IF r = None THEN Slots[1] ELSE r
SameIndex(r, t) == IndexOf(r) = IndexOf(t)

\* mrv_ldesc_get_name asserts that an entry has a name.
HasName(r) == r = None \/ entries[r].named

\* What is found out about the type of a symbol when another one is wanted.
Compare(got, want) ==
  IF SameIndex(got, want) THEN "ok"
  ELSE IF HasName(got) /\ HasName(want) THEN "error"
  ELSE "nameless"

\* Mutant: what the operator does not take or give is not reported.
CheckTyped(symbol, want, symtab) ==
  IF symbol = 0 \/ want = None THEN "ok" ELSE Compare(symtab[symbol], want)

\* The type of the symbol an operator is given or gives, if there is one.
CheckSymbol(symbol, want, symtab) ==
  IF symbol = 0 THEN "ok"
  ELSE IF want = None THEN "error"
  ELSE Compare(symtab[symbol], want)

FirstNotOk(verdicts) ==
  LET found == SelectSeq(verdicts, LAMBDA v : v # "ok")
  IN IF found = <<>> THEN "ok" ELSE Head(found)

CheckInvocation(e, i) ==
  LET inst == e.insts[i]
      op == entries[inst.op]
  IN IF op.kind # "operator" THEN "operator"
     ELSE FirstNotOk(<<CheckSymbol(inst.left, op.left, e.symtab),
                       CheckSymbol(inst.right, op.right, e.symtab),
                       CheckSymbol(inst.symbol, op.ret, e.symtab)>>)

\* The parameter of the lambda at i that comes k-th, when its type wants one.
CheckParam(e, i, k, want) ==
  IF want = None THEN "ok"
  ELSE IF i + k > Len(e.insts) \/ e.insts[i + k].kind # "arg" THEN "error"
  ELSE Compare(e.symtab[e.insts[i + k].symbol], want)

\* What the type of a lambda says is read from the union of the entry, whatever
\* the entry is.
IsMisread(t) == entries[t].kind # "type" \/ entries[t].type_kind = "host"

CheckLambda(e, i) ==
  LET type == entries[e.symtab[e.insts[i].symbol]]
  IN FirstNotOk(<<CheckParam(e, i, 1, type.left), CheckParam(e, i, 2, type.right),
                  IF type.ret = None THEN "ok" ELSE "return">>)

\* The lambdas of a stream, but the one the arguments belong to, whose type is
\* none.
Misread(e) ==
  {i \in DOMAIN e.insts : /\ e.insts[i].kind = "lambda" /\ e.insts[i].symbol # 0
                          /\ IsMisread(e.symtab[e.insts[i].symbol])}

CheckInst(e, i) ==
  CASE e.insts[i].kind = "arg" -> "ok"
    [] e.insts[i].kind = "invocation" -> CheckInvocation(e, i)
    [] e.insts[i].kind = "lambda" -> IF e.insts[i].symbol = 0 THEN "ok" ELSE CheckLambda(e, i)

\* One stream: errors are reported, and an assertion ends the program.
Typecheck(n) ==
  /\ phase = "typecheck" /\ halted = "no"
  /\ unchecked # {} /\ n = Head(InSlotOrder(unchecked))
  /\ LET e == entries[n] IN
       \E outcome \in [Misread(e) -> {"ok", "error", "misread"}] :
         LET verdict == [i \in DOMAIN e.insts |->
                           IF i \in Misread(e) THEN outcome[i] ELSE CheckInst(e, i)]
             halting == {i \in DOMAIN verdict : verdict[i] \notin {"ok", "error"}}
             end == IF halting = {} THEN Len(verdict) ELSE Min(halting)
         IN /\ err' = (err \/ \E i \in 1 .. end : verdict[i] = "error")
            /\ halted' = IF halting = {} THEN "no" ELSE verdict[end]
  /\ unchecked' = unchecked \ {n}
  /\ UNCHANGED <<source, size, phase, language, table, entries>>

EndTypecheck ==
  /\ phase = "typecheck" /\ halted = "no" /\ unchecked = {} /\ phase' = "analyzed"
  /\ UNCHANGED <<source, size, language, table, entries, err, halted, unchecked>>

AnalysisNext ==
  \/ \E l \in Languages : RecordLanguage(l)
  \/ \E d \in TypeDecls : RecordType(d)
  \/ \E d \in OperatorDecls : RecordOperator(d)
  \/ /\ phase = "combinators" /\ Left > 0
     /\ \E body \in BodiesUpTo[Left - 1], n \in CombinatorNames, args \in ArgLists :
          RecordCombinator([name |-> n, args |-> args, body |-> body])
  \/ EndTypes \/ EndOperators \/ EndCombinators
  \/ \E n \in Name : Typecheck(n)
  \/ EndTypecheck
=============================================================================
