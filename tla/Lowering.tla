------------------------------ MODULE Lowering ------------------------------
(***************************************************************************)
(* What is done with a finished expression (expr.c): its structure is      *)
(* validated, the shape of every symbol inferred, every operation given an *)
(* iteration space and every symbol an address operator, and the loops are *)
(* written out.  One action is one round of a loop of ak_lower_lexpr or of *)
(* ak_validate_lexpr_structure; mode is the loop.                          *)
(*                                                                         *)
(* A round that aborts (an assertion, ak_unreachable) or that writes       *)
(* outside of its memory is the last one.                                  *)
(***************************************************************************)
EXTENDS LExpr

CONSTANTS
  Word,        \* the bits of a block of AK_BitVector, 64
  MaxLowerings \* bounds the calls of ak_lower_lexpr

ASSUME LoweringAssumption == {Word, MaxLowerings} \subseteq Nat \ {0}

VARIABLES
  at,         \* the round of the loop, from 1
  validates,  \* the flag NoStructuralInvariantValidation was not given
  seen,       \* the bits of seen_set that are set
  outside,    \* a block outside of seen_set was used
  symtab,     \* the shape of every symbol id
  spaces,     \* what each instruction was given, in order
  addresses,  \* the strides of the symbols whose address operators are made
  status,     \* what ak_lower_lexpr returns
  lowerings   \* how often it was called

loweringVars == <<at, validates, seen, outside, symtab, spaces, addresses, status, lowerings>>
vars == <<builderVars, loweringVars>>

Init ==
  /\ InitBuilder
  /\ at = 0 /\ validates = TRUE
  /\ seen = {} /\ outside = FALSE
  /\ symtab = <<>> /\ spaces = <<>> /\ addresses = <<>>
  /\ status = OK /\ lowerings = 0

insts == lexpr.insts
inst == insts[at]
Symbols == 0 .. lexpr.max_symbol_id

\* What the phases leave alone.
builtVars == <<nodes, next_id, lexpr, asked, pinned>>

GoTo(phase) == mode' = phase /\ at' = 1

\* The exit at label out: the scope is popped, and with it go the tables.
Leave(s) ==
  /\ status' = s
  /\ mode' = "finished"
  /\ at' = 0
  /\ seen' = {} /\ symtab' = <<>> /\ spaces' = <<>> /\ addresses' = <<>>
  /\ UNCHANGED <<validates, lowerings>>

Return(s) == Leave(s) /\ UNCHANGED outside

\* Mutant: the error is returned and not reported.
ReturnSilently(s) == NoError /\ Return(s)

ReturnWith(s) == ReportError(s) /\ Return(s)

Stop(how) == mode' = how /\ UNCHANGED <<err, failures, loweringVars>>

\* A client calls ak_lower_lexpr with what it finished.
Lower ==
  /\ mode = "finished" /\ lexpr # NoExpr /\ lowerings < MaxLowerings
  /\ lowerings' = lowerings + 1
  /\ validates' \in BOOLEAN
  /\ GoTo(IF validates' THEN "params" ELSE "tables")
  /\ outside' = FALSE
  /\ UNCHANGED <<builtVars, err, failures, seen, symtab, spaces, addresses, status>>

\* A client calls it without an expression or a target, and gets the one status
\* that is not reported.
LowerNothing ==
  /\ mode = "finished" /\ lowerings < MaxLowerings
  /\ lowerings' = lowerings + 1
  /\ status' = "NullArgument"
  /\ UNCHANGED <<builderVars, at, validates, seen, outside, symtab, spaces, addresses>>

-----------------------------------------------------------------------------
(* ak_validate_lexpr_structure.                                            *)

\* The first loop: the parameters come first, if there are any.
ParamsComeFirst(code) ==
  \A i, j \in DOMAIN code : i < j /\ code[j].call.opcode = "Param" => code[i].call.opcode = "Param"

NoBitVector == UNCHANGED <<seen, outside>>
NoTables == UNCHANGED <<symtab, spaces, addresses>>
Working == UNCHANGED <<validates, status, lowerings>>

ValidateParams ==
  /\ mode = "params"
  /\ IF ParamsComeFirst(insts)
     THEN GoTo("scopes") /\ NoBitVector /\ NoTables /\ Working /\ NoError
     ELSE ReturnWith(Invalid)
  /\ UNCHANGED builtVars

\* ak_bv_init found no memory.
BitVectorFails ==
  /\ mode = "scopes" /\ at = 1 /\ MemoryFails
  /\ ReturnWith(OutOfMemory)
  /\ UNCHANGED builtVars

\* ak_bv_init, ak_bv_get_bit, ak_bv_set_bit: the blocks are counted from the
\* last one, and an id that is the width is in one more block than there are
\* if the width is a multiple of a block's.
HasBlock(id) == id \div Word < AlignUp(lexpr.max_symbol_id, Word) \div Word

\* What is outside may have any value.
GetBit(id) == IF HasBlock(id) THEN {id \in seen} ELSE BOOLEAN

\* Mutant: operands are not looked for.
OperandsUnlooked(found_x0, found_x1, found_y) == ~found_y

\* The round's errors, but for the id 0, which the builder gives to no symbol.
IsWellFormed(found_x0, found_x1, found_y) ==
  ~found_y /\ (inst.call.opcode = "Param" \/ (found_x0 /\ found_x1))

ValidateScope ==
  /\ mode = "scopes" /\ at <= Len(insts)
  /\ outside' = (outside \/ \E id \in {inst.call.x0, inst.call.x1, inst.y} : ~HasBlock(id))
  /\ \E found_x0 \in GetBit(inst.call.x0), found_x1 \in GetBit(inst.call.x1), found_y \in GetBit(inst.y) :
       IF IsWellFormed(found_x0, found_x1, found_y)
       THEN /\ seen' = (IF HasBlock(inst.y) THEN seen \union {inst.y} ELSE seen)
            /\ at' = at + 1
            /\ UNCHANGED mode /\ NoTables /\ Working /\ NoError
       ELSE ReportError(Invalid) /\ Leave(Invalid)
  /\ UNCHANGED builtVars

IsValidated ==
  /\ mode = "scopes" /\ at > Len(insts)
  /\ GoTo("tables")
  /\ seen' = {}
  /\ NoTables /\ Working /\ NoError
  /\ UNCHANGED <<outside, builtVars>>

-----------------------------------------------------------------------------
(* Shapes and iteration spaces.                                            *)

\* symtab and spaces, zeroed.
MakeTables ==
  /\ mode = "tables"
  /\ symtab' = [id \in Symbols |-> NilShape]
  /\ GoTo("shapes")
  /\ UNCHANGED <<spaces, addresses, builtVars>>
  /\ NoBitVector /\ Working /\ NoError

TablesFail ==
  /\ mode = "tables" /\ MemoryFails
  /\ ReturnWith(OutOfMemory)
  /\ UNCHANGED builtVars

\* What ak_infer_y_shape reads of a parameter's shape: as many words as there
\* may be dimensions, from the rank on, so that the last dimension stays 0.
ParamCopied(shape) ==
  [rank |-> shape.rank, dim |-> [a \in Axes |-> IF a + 1 < MaxRank THEN shape.dim[a] ELSE 0]]

NoSpaceOf == Append(spaces, NoSpace)

TakeParam ==
  /\ mode = "shapes" /\ at <= Len(insts) /\ inst.call.opcode = "Param"
  /\ symtab' = [symtab EXCEPT ![inst.y] = ParamCopied(inst.call.meta)]
  /\ spaces' = NoSpaceOf
  /\ at' = at + 1
  /\ UNCHANGED <<mode, addresses, builtVars>>
  /\ NoBitVector /\ Working /\ NoError

x0_shape == symtab[inst.call.x0]
x1_shape == symtab[inst.call.x1]

\* The table when the round's shape is written.  The space is made from this
\* table: an operand that is the round's own symbol has the new shape.
Written(shape) == [symtab EXCEPT ![inst.y] = shape]

SumSpace(y) == BroadcastedSpace(y, Written(y)[inst.call.x0], Written(y)[inst.call.x1])

ContractionSpace(y) ==
  ContractedSpace(y, Written(y)[inst.call.x0], Written(y)[inst.call.x1], inst.call.meta[2])

\* The space of an operation is made, or the program stops: there are no
\* errors yet but ak_unreachable("TODO").
TakeSpace(shape, space) ==
  CASE space.status = "ok" ->
         /\ symtab' = Written(shape)
         /\ spaces' = Append(spaces, space)
         /\ at' = at + 1
         /\ UNCHANGED <<mode, addresses>>
         /\ NoBitVector /\ Working /\ NoError
    [] OTHER -> Stop(space.status)

InferSum ==
  /\ mode = "shapes" /\ at <= Len(insts) /\ inst.call.opcode = "Add"
  /\ LET y == InferBroadcasted(x0_shape, x1_shape)
     IN IF y.ok THEN TakeSpace(y.shape, SumSpace(y.shape))
                ELSE ReportError(Invalid) /\ Return("ShapeMismatch")
  /\ UNCHANGED builtVars

\* The dimensions behind the rank of a contraction are not written: 0, or the
\* 2 that a dimension of the other operand may be, stand for what is there.
InferContraction ==
  /\ mode = "shapes" /\ at <= Len(insts) /\ inst.call.opcode = "Contract"
  /\ LET nc == inst.call.meta[1]
         nb == inst.call.meta[2]
         dims == ContractedDims(x0_shape, x1_shape, nc, nb)
     IN IF ~CanContract(x0_shape, x1_shape, nc, nb) THEN ReturnWith(Invalid)
        ELSE IF Len(dims) > MaxRank THEN Stop("overrun")
        ELSE \E rest \in {0, 2} : TakeSpace(ShapeOf(dims, rest), ContractionSpace(ShapeOf(dims, rest)))
  /\ UNCHANGED builtVars

\* An iteration space finds no memory, which is a TODO of the code as well.
SpaceFails ==
  /\ mode = "shapes" /\ at <= Len(insts) /\ inst.call.opcode # "Param" /\ MemoryFails
  /\ Stop("starved")
  /\ UNCHANGED builtVars

ShapesAreInferred ==
  /\ mode = "shapes" /\ at > Len(insts)
  /\ GoTo("addresses")
  /\ UNCHANGED <<builtVars>>
  /\ NoBitVector /\ NoTables /\ Working /\ NoError

-----------------------------------------------------------------------------
(* Address operators and loops.                                            *)

\* The loop over the table, the nil symbol included.
Address ==
  /\ mode = "addresses" /\ Len(addresses) <= lexpr.max_symbol_id
  /\ addresses' = Append(addresses, Strides(symtab[Len(addresses)]))
  /\ UNCHANGED <<mode, at, symtab, spaces, builtVars>>
  /\ NoBitVector /\ Working /\ NoError

AddressFails ==
  /\ mode = "addresses" /\ Len(addresses) <= lexpr.max_symbol_id /\ MemoryFails
  /\ ReturnWith(OutOfMemory)
  /\ UNCHANGED builtVars

LeadingParams == {k \in DOMAIN insts : \A j \in 1 .. k : insts[j].call.opcode = "Param"}

BeginText ==
  /\ mode = "addresses" /\ Len(addresses) > lexpr.max_symbol_id
  /\ mode' = "text"
  /\ at' = Cardinality(LeadingParams) + 1
  /\ UNCHANGED builtVars
  /\ NoBitVector /\ NoTables /\ Working /\ NoError

\* The domain of what is written is read; a parameter has none.
HasSpace(space) == space.status = "ok"

\* One nest of loops: its extents are asserted to be positive.
WriteLoops ==
  /\ mode = "text" /\ at <= Len(insts)
  /\ CASE ~HasSpace(spaces[at]) -> Stop("null")
       [] HasSpace(spaces[at]) /\ (\E k \in DOMAIN spaces[at].extents : spaces[at].extents[k] <= 0) -> Stop("aborted")
       [] OTHER -> /\ at' = at + 1
                   /\ UNCHANGED mode
                   /\ NoBitVector /\ NoTables /\ Working /\ NoError
  /\ UNCHANGED builtVars

IsLowered ==
  /\ mode = "text" /\ at > Len(insts)
  /\ Return(OK)
  /\ NoError
  /\ UNCHANGED builtVars

LowerStep ==
  \/ Lower \/ LowerNothing
  \/ ValidateParams \/ BitVectorFails \/ ValidateScope \/ IsValidated
  \/ MakeTables \/ TablesFail
  \/ TakeParam \/ InferSum \/ InferContraction \/ SpaceFails \/ ShapesAreInferred
  \/ Address \/ AddressFails \/ BeginText \/ WriteLoops \/ IsLowered

Next ==
  \/ Build /\ UNCHANGED loweringVars
  \/ LowerStep

Spec == Init /\ [][Next]_vars

-----------------------------------------------------------------------------
Phases == {"params", "scopes", "tables", "shapes", "addresses", "text"}
Ends == {"refused", "destroyed", "todo", "starved", "aborted", "overrun", "null"}

TypeOK ==
  /\ err \in {OK, OutOfMemory, Invalid}
  /\ mode \in {"build", "finished"} \union Phases \union Ends
  /\ next_id = Len(nodes) /\ Len(nodes) <= Len(asked)
  /\ pinned \subseteq Operands
  /\ at \in 0 .. Len(insts) + 1
  /\ validates \in BOOLEAN /\ outside \in BOOLEAN
  /\ seen \subseteq Symbols
  /\ symtab = <<>> \/ DOMAIN symtab = Symbols
  /\ Len(spaces) <= Len(insts)
  /\ Len(addresses) <= Cardinality(Symbols)
  /\ status \in {OK, OutOfMemory, Invalid, "ShapeMismatch", "NullArgument"}
  /\ lowerings \in 0 .. MaxLowerings

\* Every operand is a symbol of an earlier instruction, no symbol is born
\* twice, and the parameters come first.
IsSSA(code) ==
  /\ ParamsComeFirst(code)
  /\ \A k \in DOMAIN code :
       LET earlier == {code[j].y : j \in 1 .. k - 1}
       IN /\ code[k].y \notin earlier
          /\ code[k].call.opcode # "Param" => {code[k].call.x0, code[k].call.x1} \subseteq earlier

(* The one pass over the instructions with its set of seen symbols         *)
(* (ak_validate_lexpr_structure) passes the expressions that are in SSA    *)
(* form and no others, and stays inside of the set, unless the ids fill its *)
(* blocks: then the last one has no bit (ak_bv_init, ak_bv_get_bit).       *)
ValidationIsExact ==
  [][lexpr.max_symbol_id % Word # 0 =>
       /\ ~outside'
       /\ mode = "scopes" /\ mode' = "tables" => IsSSA(insts)
       /\ mode \in {"params", "scopes"} /\ mode' = "finished" /\ status' = Invalid => ~IsSSA(insts)]_vars

(* When the operations are inferred, the table has the shapes that were    *)
(* given to ak_param, those of the highest rank left out                   *)
(* (ak_infer_y_shape).                                                     *)
ParamShapesAreKept ==
  mode \in {"shapes", "addresses"} =>
    \A k \in 1 .. at - 1 :
      LET call == insts[k].call
      IN mode = "shapes" /\ call.opcode = "Param" /\ call.meta.rank < MaxRank => symtab[insts[k].y] = call.meta

Points(extents) ==
  {p \in [DOMAIN extents -> UNION {0 .. e - 1 : e \in Range(extents)}] :
     \A k \in DOMAIN extents : p[k] < extents[k]}

\* The place of a shape's element that a point of the result's is made from.
ElementOf(shape, point) == [k \in DOMAIN point |-> IF shape.dim[k - 1] = 1 THEN 0 ELSE point[k]]

EqualRanks(call) == symtab[call.x0].rank = symtab[call.x1].rank

(* The inferred shape and the two transforms, which are computed one after *)
(* the other from the same operands (ak_infer_broadcasted_dims,            *)
(* ak_create_broadcasted_iteration_space), agree: every point of the loops *)
(* is a place of the result, and meets the element of each operand that    *)
(* belongs there, if the operands have the same rank.                      *)
PointsMeetTheirElements ==
  mode = "shapes" =>
    \A k \in DOMAIN spaces :
      LET space == spaces[k]
          call == insts[k].call
          Image(n, p) == [row \in DOMAIN p |-> Coordinate(space.to[n], row - 1, p)]
      IN call.opcode = "Add" /\ EqualRanks(call) =>
           \A p \in Points(space.extents) :
             /\ Image(1, p) = p
             /\ Image(2, p) = ElementOf(symtab[call.x0], p)
             /\ Image(3, p) = ElementOf(symtab[call.x1], p)

RowSize(shape) == AlignUp(shape.dim[shape.rank - 1], Align)

\* No stride is more than the byte it is computed in can hold.
StridesFit(shape) ==
  LET strides == Strides(shape)
  IN \A k \in 1 .. shape.rank - 1 :
       (IF k = shape.rank - 1 THEN RowSize(shape) ELSE strides[k + 1] * shape.dim[k]) < ByteSize

AddressOf(strides, p) == SumFunction([k \in DOMAIN strides |-> strides[k] * p[k]])

(* No two elements of a symbol have one address                            *)
(* (ak_atran_strided_projection_from_shape), if the strides fit in a byte. *)
AddressesAreDistinct ==
  mode = "addresses" =>
    \A n \in DOMAIN addresses :
      LET shape == symtab[n - 1]
          places == Points([k \in 1 .. shape.rank |-> shape.dim[k - 1]])
      IN StridesFit(shape) =>
           \A p, q \in places : AddressOf(addresses[n], p) = AddressOf(addresses[n], q) => p = q

\* Sums of symbols that have the same rank, below the highest, and elements.
SumsOfEqualRanks ==
  /\ IsSSA(insts)
  /\ \A k \in DOMAIN insts :
       LET call == insts[k].call
       IN CASE call.opcode = "Param" -> call.meta.rank < MaxRank /\ \A a \in 0 .. call.meta.rank - 1 : call.meta.dim[a] > 0
            [] call.opcode = "Add" -> mode = "shapes" /\ k <= at => EqualRanks(call)
            [] OTHER -> FALSE

(* Lowering never stops the program (ak_assert, ak_unreachable, a null     *)
(* domain) or writes outside of a matrix on sums of symbols of equal rank, *)
(* as long as there is memory for their spaces.                            *)
SumsOfEqualRanksLower ==
  [][(mode \in Phases /\ mode' \in {"todo", "aborted", "overrun", "null"}) => ~SumsOfEqualRanks]_vars

(* A lowering that fails has reported an error (ak_report_error before     *)
(* every goto out), so that a client that looks only at the context does   *)
(* not take its text for a program.  The exception is the exit in front of *)
(* the scope, for a missing argument, which reports nothing.               *)
FailuresAreReported == mode = "finished" /\ status \notin {OK, "NullArgument"} => err # OK

\* A matrix product: the columns of one are the rows of the other.
IsMatrixProduct(call) ==
  /\ call.opcode = "Contract" /\ call.meta = <<1, 0>>
  /\ symtab[call.x0].rank = 2 /\ symtab[call.x1].rank = 2
  /\ symtab[call.x0].dim[1] = symtab[call.x1].dim[0]

(* linalg.c:525 asserts x1_ax > 0 of every contracted axis; so the         *)
(* iteration space of a matrix product must not abort.                     *)
MatrixProductsAreContracted ==
  [][(mode = "shapes" /\ mode' = "aborted") => ~IsMatrixProduct(inst.call)]_vars

(* What a client gets is what it asked for: an expression that was finished  *)
(* has every instruction it asked for, and one that was not is refused for   *)
(* the first cause, whatever failed after it (ak_lbuilder_finish,            *)
(* ak_report_error).                                                         *)
BuildsAsAsked == TypeOK /\ FinishedIsBuilt /\ RefusedForTheFirstCause

(* The loops of an operation meet the elements they should: shapes reach the *)
(* inference as they were given, points are mapped to the elements that      *)
(* belong there, and those to addresses of their own.                        *)
LoopsMeetElements == ParamShapesAreKept /\ PointsMeetTheirElements /\ AddressesAreDistinct
=============================================================================
