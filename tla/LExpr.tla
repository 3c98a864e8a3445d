------------------------------- MODULE LExpr --------------------------------
(***************************************************************************)
(* The expression builder of expr.c and the context it reports its errors  *)
(* to (context.c).  A client builds an expression from parameters, sums    *)
(* and contractions, pins some of them, and finishes the builder, which    *)
(* copies the instructions into an array.                                  *)
(*                                                                         *)
(* A symbol is its id; 0 is the nil symbol.  A client gives the builder    *)
(* symbols it has, nil ones, and ones it has from another builder.         *)
(***************************************************************************)
EXTENDS Shapes

CONSTANTS
  ParamShapes,   \* the dimensions of the shapes clients give to parameters
  SimpleShapes,  \* the ones that are enough where only the order of operands matters
  Contractions,  \* pairs: n_contracted_axes, n_batch_axes
  MaxInsts,      \* MaxInsts[n]: how many instructions a client asks for, n of them mistaken
  MaxPins,       \* bounds the calls of ak_pin
  MaxFailures    \* bounds the allocations that fail

ASSUME LExprAssumption ==
  /\ \A dims \in ParamShapes : dims \in Seq(Nat) /\ Len(dims) <= MaxRank
  /\ Contractions \subseteq Nat \X Nat
  /\ \A n \in DOMAIN MaxInsts : n \in Nat /\ MaxInsts[n] \in Nat \ {0}
  /\ {MaxPins, MaxFailures} \subseteq Nat

VARIABLES
  err,       \* ctx.err.relevant_status
  nodes,     \* the list behind ir_tail, oldest first; ids are the places in it
  next_id,   \* builder.next_symbol_id
  lexpr,     \* the finished expression, or NoExpr
  mode,      \* "build", "finished", "refused", "destroyed"; Lowering adds its phases
  asked,     \* the instructions asked for, those that found no memory included
  pinned,    \* the ids ak_pin was called with
  failures   \* the statuses of the calls that failed, in order

builderVars == <<err, nodes, next_id, lexpr, mode, asked, pinned, failures>>

OK == "OK"
OutOfMemory == "OutOfMemory"
Invalid == "OtherwiseInvalidArgument"

Param(shape) == [opcode |-> "Param", x0 |-> 0, x1 |-> 0, meta |-> shape]
Add(x0, x1) == [opcode |-> "Add", x0 |-> x0, x1 |-> x1, meta |-> <<>>]
Contract(x0, x1, counts) == [opcode |-> "Contract", x0 |-> x0, x1 |-> x1, meta |-> counts]

\* AK_LogicalInst: its symbol, whether that is pinned, and what was asked for.
Inst(y, pin, call) == [y |-> y, pin |-> pin, call |-> call]

NoExpr == [max_symbol_id |-> 0, insts |-> <<>>]

InitBuilder ==
  /\ err = OK
  /\ nodes = <<>>
  /\ next_id = 0
  /\ lexpr = NoExpr
  /\ mode = "build"
  /\ asked = <<>>
  /\ pinned = {}
  /\ failures = <<>>

-----------------------------------------------------------------------------
(* Errors.                                                                 *)

\* Mutant: the last error is kept.
ReportOver(status) == /\ err' = status
                      /\ failures' = Append(failures, status)

\* ak_report_error: the first one is kept.
ReportError(status) ==
  /\ err' = IF err = OK THEN status ELSE err
  /\ failures' = Append(failures, status)

NoError == UNCHANGED <<err, failures>>

\* An allocation that fails is one of a bounded number.
MemoryFails == Cardinality({k \in DOMAIN failures : failures[k] = OutOfMemory}) < MaxFailures

-----------------------------------------------------------------------------
(* Building.                                                               *)

Operands == 0 .. MaxInsts[0]

Operations(x0, x1) == {Add(x0, x1)} \union {Contract(x0, x1, counts) : counts \in Contractions}

\* An operand the client has no symbol for.
Mistaken(calls) ==
  {k \in DOMAIN calls : calls[k].opcode # "Param" /\ ~({calls[k].x0, calls[k].x1} \subseteq 1 .. k - 1)}

\* Mistaken sums of simple shapes may be as long as expressions without mistakes.
MayAsk(call) ==
  LET calls == Append(asked, call)
      n == Cardinality(Mistaken(calls))
      areSimple == \A k \in DOMAIN calls :
                     \/ calls[k].opcode = "Add"
                     \/ \E dims \in SimpleShapes : calls[k] = Param(ShapeOf(dims, 0))
  IN mode = "build" /\ n \in DOMAIN MaxInsts /\ Len(asked) < MaxInsts[IF areSimple THEN 0 ELSE n]

\* ak_lbuilder_append_, which found no memory.
AppendFails(call) ==
  /\ MemoryFails
  /\ ReportError(OutOfMemory)
  /\ UNCHANGED <<nodes, next_id>>

\* ak_lbuilder_append_
Appends(call) ==
  /\ next_id' = next_id + 1
  /\ nodes' = Append(nodes, Inst(next_id + 1, FALSE, call))
  /\ NoError

AppendInst(call) ==
  /\ MayAsk(call)
  /\ asked' = Append(asked, call)
  /\ Appends(call) \/ AppendFails(call)
  /\ UNCHANGED <<lexpr, mode, pinned>>

\* ak_param
AskParam == \E dims \in ParamShapes : AppendInst(Param(ShapeOf(dims, 0)))

\* ak_add, ak_contract
AskOperation == \E x0, x1 \in Operands : \E call \in Operations(x0, x1) : AppendInst(call)

\* The node an id is found at, from the tail on; 0 if there is none.
NodeOf(id) == LET at == {k \in DOMAIN nodes : nodes[k].y = id} IN IF at = {} THEN 0 ELSE Max(at)

\* ak_pin
Pin(id) ==
  /\ mode = "build"
  /\ Cardinality(pinned) < MaxPins /\ id \notin pinned
  /\ pinned' = pinned \union {id}
  /\ IF NodeOf(id) = 0 THEN ReportError(Invalid) /\ UNCHANGED nodes
                       ELSE nodes' = [nodes EXCEPT ![NodeOf(id)].pin = TRUE] /\ NoError
  /\ UNCHANGED <<next_id, lexpr, mode, asked>>

-----------------------------------------------------------------------------
(* Finishing.                                                              *)

\* An id that no symbol of this builder has.
Foreign == \E k \in DOMAIN nodes : \E id \in {nodes[k].y, nodes[k].call.x0, nodes[k].call.x1} : id > next_id

\* ak_lbuilder_finish returns the first error there was.
RefuseEarlierError ==
  /\ mode = "build" /\ err # OK
  /\ mode' = "refused"
  /\ UNCHANGED <<err, nodes, next_id, lexpr, asked, pinned, failures>>

RefuseWith(status) ==
  /\ ReportError(status)
  /\ mode' = "refused"
  /\ UNCHANGED <<nodes, next_id, lexpr, asked, pinned>>

RefuseEmpty ==
  /\ mode = "build" /\ err = OK
  /\ next_id = 0 \/ nodes = <<>>
  /\ RefuseWith(Invalid)

RefuseForeign ==
  /\ mode = "build" /\ err = OK /\ nodes # <<>>
  /\ Foreign
  /\ RefuseWith(Invalid)

Finishing == mode = "build" /\ err = OK /\ nodes # <<>> /\ ~Foreign

RefuseWithoutMemory ==
  /\ Finishing
  /\ MemoryFails
  /\ RefuseWith(OutOfMemory)

Finish ==
  /\ Finishing
  /\ lexpr' = [max_symbol_id |-> next_id, insts |-> nodes]
  /\ mode' = "finished"
  /\ UNCHANGED <<err, nodes, next_id, asked, pinned, failures>>

\* ak_lexpr_destroy, which clients call after a failure too.
Destroy ==
  /\ mode \in {"finished", "refused"}
  /\ lexpr' = NoExpr
  /\ mode' = "destroyed"
  /\ UNCHANGED <<err, nodes, next_id, asked, pinned, failures>>

Build ==
  \/ AskParam
  \/ AskOperation
  \/ \E id \in Operands : Pin(id)
  \/ RefuseEarlierError
  \/ RefuseEmpty
  \/ RefuseForeign
  \/ RefuseWithoutMemory
  \/ Finish
  \/ Destroy

-----------------------------------------------------------------------------
(* A client that looks at no symbol it gets can still tell from the end    *)
(* what happened: an expression that was finished has every instruction    *)
(* that was asked for, in order, numbered without a gap, and the pins that *)
(* were asked for and no others.                                           *)
FinishedIsBuilt ==
  lexpr # NoExpr =>
    /\ Len(lexpr.insts) = Len(asked)
    /\ lexpr.max_symbol_id = Len(asked)
    /\ \A k \in DOMAIN asked : lexpr.insts[k] = Inst(k, k \in pinned, asked[k])

\* What a refusal returns, ctx.err, is the cause that came first; without a
\* cause nothing is refused (ak_report_error, ak_lbuilder_finish).
RefusedForTheFirstCause ==
  /\ err = (IF failures = <<>> THEN OK ELSE Head(failures))
  /\ mode = "refused" => failures # <<>>
=============================================================================
