--------------------------- MODULE LoweringProofs ---------------------------
(***************************************************************************)
(* Theorems about the expression builder, the validation of what it built  *)
(* and the lowering of it: what is finished is what was asked for, the     *)
(* validation knows the expressions in SSA form, failures are reported,    *)
(* sums of symbols of equal rank are lowered without a stop, and the loops *)
(* meet the elements they should.                                          *)
(***************************************************************************)
EXTENDS Lowering, ChainLemmas

-----------------------------------------------------------------------------
(* What the builder keeps.                                                 *)

Calls ==
  {Param(ShapeOf(dims, 0)) : dims \in ParamShapes}
    \union UNION {Operations(x0, x1) : x0, x1 \in Operands}

Insts == [y : Nat, pin : BOOLEAN, call : Calls]

\* The instructions are those that were asked for.
IsBuilt ==
  /\ Len(nodes) = Len(asked)
  /\ pinned \subseteq DOMAIN asked
  /\ \A k \in DOMAIN asked : nodes[k] = Inst(k, k \in pinned, asked[k])

\* There is an expression from when it is finished until it is destroyed.
WithoutExpr == {"build", "refused", "destroyed"}
WithExpr == {"finished"} \union Phases \union {"todo", "starved", "aborted", "overrun", "null"}

NodesOK ==
  /\ nodes \in Seq(Insts) /\ asked \in Seq(Calls)
  /\ next_id = Len(nodes) /\ Len(nodes) <= Len(asked)
  /\ pinned \subseteq Operands
  /\ \A k \in DOMAIN nodes : nodes[k].y = k

ErrorsOK ==
  /\ failures \in Seq({OutOfMemory, Invalid})
  /\ err = (IF failures = <<>> THEN OK ELSE Head(failures))
  /\ mode = "refused" => failures # <<>>

ExprOK ==
  /\ mode = "build" /\ failures = <<>> => IsBuilt
  /\ mode \in WithoutExpr => lexpr = NoExpr
  /\ mode \in WithExpr =>
       /\ lexpr = [max_symbol_id |-> next_id, insts |-> nodes]
       /\ IsBuilt /\ nodes # <<>> /\ ~Foreign

BuilderInv ==
  /\ mode \in WithoutExpr \union WithExpr
  /\ NodesOK /\ ErrorsOK /\ ExprOK

LEMMA CallFields ==
  ASSUME NEW call \in Calls
  PROVE  /\ call.opcode \in {"Param", "Add", "Contract"}
         /\ call.x0 \in Nat /\ call.x1 \in Nat
         /\ call.opcode = "Param" => \E dims \in ParamShapes : call.meta = ShapeOf(dims, 0)
<1>1. CASE call \in {Param(ShapeOf(dims, 0)) : dims \in ParamShapes}
  BY <1>1 DEF Param
<1>2. ASSUME NEW x0 \in Operands, NEW x1 \in Operands, call \in Operations(x0, x1)
      PROVE  call.opcode \in {"Add", "Contract"} /\ call.x0 \in Nat /\ call.x1 \in Nat
  BY <1>2 DEF Operations, Add, Contract, Operands
<1>. QED BY <1>1, <1>2 DEF Calls

LEMMA Grown ==
  ASSUME NEW S, NEW q \in Seq(S), NEW e \in S
  PROVE  /\ Append(q, e) \in Seq(S) /\ Len(Append(q, e)) = Len(q) + 1
         /\ Append(q, e)[Len(q) + 1] = e
         /\ \A k \in DOMAIN q : Append(q, e)[k] = q[k]
         /\ DOMAIN Append(q, e) = DOMAIN q \union {Len(q) + 1}
OBVIOUS

\* An error is reported: the list of failures grows, err is still its head.
LEMMA Reported ==
  ASSUME failures \in Seq({OutOfMemory, Invalid}),
         err = (IF failures = <<>> THEN OK ELSE Head(failures)),
         NEW s \in {OutOfMemory, Invalid},
         ReportError(s)
  PROVE  /\ failures' \in Seq({OutOfMemory, Invalid}) /\ failures' # <<>>
         /\ err' = Head(failures')
         /\ err' # OK
<1>. DEFINE E == {OutOfMemory, Invalid}
<1>1. \A e \in E : e # OK
  BY DEF OutOfMemory, Invalid, OK
<1>2. failures' = Append(failures, s) /\ failures' \in Seq(E) /\ failures' # <<>>
  BY DEF ReportError
<1>3. CASE failures = <<>>
  <2>1. err' = s /\ Head(failures') = s
    BY <1>2, <1>3 DEF ReportError
  <2>. QED BY <2>1, <1>1, <1>2
<1>4. CASE failures # <<>>
  <2>1. Head(failures) \in E /\ Head(failures') = Head(failures)
    BY <1>2, <1>4
  <2>2. err' = err
    BY <2>1, <1>1, <1>4 DEF ReportError
  <2>. QED BY <2>1, <2>2, <1>1, <1>2, <1>4
<1>. QED BY <1>3, <1>4

LEMMA BuilderInit == Init => BuilderInv
<1>. SUFFICES ASSUME Init PROVE BuilderInv
  OBVIOUS
<1>. USE DEF Init, InitBuilder
<1>1. NodesOK
  BY DEF NodesOK
<1>2. ErrorsOK
  BY DEF ErrorsOK
<1>3. ExprOK
  BY DEF ExprOK, IsBuilt, WithExpr, Phases
<1>. QED BY <1>1, <1>2, <1>3 DEF BuilderInv, WithoutExpr

\* An instruction is appended, or no memory is found for it.
LEMMA AppendKeeps ==
  ASSUME BuilderInv, NEW call \in Calls, AppendInst(call)
  PROVE  BuilderInv'
<1>. USE DEF BuilderInv
<1>1. /\ mode = "build" /\ mode' = mode /\ lexpr' = lexpr /\ pinned' = pinned
      /\ asked' = Append(asked, call)
      /\ asked' \in Seq(Calls) /\ Len(asked') = Len(asked) + 1
      /\ asked'[Len(asked) + 1] = call /\ \A k \in DOMAIN asked : asked'[k] = asked[k]
      /\ DOMAIN asked' = DOMAIN asked \union {Len(asked) + 1}
  BY DEF AppendInst, MayAsk, NodesOK
<1>2. CASE Appends(call)
  <2>1. Inst(next_id + 1, FALSE, call) \in Insts
    BY DEF NodesOK, Inst, Insts
  <2>2. /\ next_id' = next_id + 1 /\ next_id' = Len(nodes')
        /\ nodes' \in Seq(Insts) /\ Len(nodes') = Len(nodes) + 1
        /\ nodes'[Len(nodes) + 1] = Inst(Len(nodes) + 1, FALSE, call)
        /\ \A k \in DOMAIN nodes : nodes'[k] = nodes[k]
        /\ DOMAIN nodes' = DOMAIN nodes \union {Len(nodes) + 1}
    <3>1. nodes \in Seq(Insts) /\ next_id = Len(nodes) /\ Len(nodes) \in Nat
      BY DEF NodesOK
    <3>2. nodes' = Append(nodes, Inst(Len(nodes) + 1, FALSE, call)) /\ next_id' = Len(nodes) + 1
      BY <1>2, <3>1 DEF Appends
    <3>3. PICK e \in Insts : e = Inst(Len(nodes) + 1, FALSE, call)
      BY <2>1, <3>1
    <3>4. nodes' = Append(nodes, e)
      BY <3>2, <3>3
    <3>5. /\ nodes' \in Seq(Insts) /\ Len(nodes') = Len(nodes) + 1
          /\ nodes'[Len(nodes) + 1] = e
          /\ \A k \in DOMAIN nodes : nodes'[k] = nodes[k]
          /\ DOMAIN nodes' = DOMAIN nodes \union {Len(nodes) + 1}
      BY <3>1, <3>4, Grown
    <3>. QED BY <3>1, <3>2, <3>3, <3>5
  <2>3. UNCHANGED <<err, failures>>
    BY <1>2 DEF Appends, NoError
  <2>4. NodesOK'
    BY <1>1, <2>2 DEF NodesOK, Inst
  <2>5. ErrorsOK'
    BY <1>1, <2>3 DEF ErrorsOK
  <2>6. ASSUME failures' = <<>> PROVE IsBuilt'
    <3>1. IsBuilt
      BY <1>1, <2>3, <2>6 DEF ExprOK
    <3>2. Len(asked) \in Nat /\ DOMAIN asked = 1 .. Len(asked) /\ DOMAIN nodes = 1 .. Len(nodes)
      BY DEF NodesOK
    <3>3. Len(nodes) = Len(asked) /\ Len(asked) + 1 \notin pinned
      BY <3>1, <3>2 DEF IsBuilt
    <3>4. ASSUME NEW k \in DOMAIN asked' PROVE nodes'[k] = Inst(k, k \in pinned, asked'[k])
      <4>1. CASE k = Len(asked) + 1
        <5>1. k \notin pinned /\ asked'[k] = call
          BY <1>1, <3>3, <4>1
        <5>2. nodes'[k] = Inst(k, FALSE, call)
          BY <2>2, <3>3, <4>1
        <5>3. (k \in pinned) = FALSE
          BY <5>1
        <5>. QED BY <5>1, <5>2, <5>3, Zenon
      <4>2. CASE k \in DOMAIN asked
        <5>1. nodes[k] = Inst(k, k \in pinned, asked[k]) /\ k \in DOMAIN nodes
          BY <3>1, <3>2, <3>3, <4>2 DEF IsBuilt
        <5>. QED BY <1>1, <2>2, <4>2, <5>1
      <4>. QED BY <1>1, <4>1, <4>2
    <3>. QED BY <1>1, <2>2, <3>1, <3>2, <3>3, <3>4 DEF IsBuilt
  <2>7. ExprOK'
    BY <1>1, <2>6 DEF ExprOK, WithExpr, WithoutExpr, Phases
  <2>. QED BY <1>1, <2>4, <2>5, <2>7
<1>3. CASE AppendFails(call)
  <2>1. UNCHANGED <<nodes, next_id>> /\ ReportError(OutOfMemory)
    BY <1>3 DEF AppendFails
  <2>2. failures' \in Seq({OutOfMemory, Invalid}) /\ failures' # <<>> /\ err' = Head(failures')
    BY <2>1, Reported DEF ErrorsOK
  <2>3. NodesOK'
    BY <1>1, <2>1 DEF NodesOK
  <2>4. ErrorsOK'
    BY <2>2 DEF ErrorsOK
  <2>5. ExprOK'
    BY <1>1, <2>2 DEF ExprOK, WithExpr, WithoutExpr, Phases
  <2>. QED BY <1>1, <2>3, <2>4, <2>5
<1>. QED BY <1>2, <1>3 DEF AppendInst

\* The ids are places, so that a node is found at its id.
LEMMA NodeIsFound ==
  ASSUME NodesOK, NEW id \in Operands
  PROVE  NodeOf(id) = IF id \in DOMAIN nodes THEN id ELSE 0
<1>1. {k \in DOMAIN nodes : nodes[k].y = id} = IF id \in DOMAIN nodes THEN {id} ELSE {}
  BY DEF NodesOK
<1>2. id \in Int
  BY DEF Operands
<1>3. Max({id}) = id
  BY <1>2 DEF Max
<1>. QED BY <1>1, <1>3 DEF NodeOf

LEMMA PinnedInst ==
  ASSUME NEW i \in Insts
  PROVE  [i EXCEPT !.pin = TRUE] = Inst(i.y, TRUE, i.call)
<1>. DEFINE j == [i EXCEPT !.pin = TRUE]
<1>. USE DEF Insts
<1>1. j \in Insts /\ j.y = i.y /\ j.call = i.call
  OBVIOUS
<1>2. j.pin
  OBVIOUS
<1>3. j.pin = TRUE
  BY <1>1, <1>2
<1>. HIDE DEF j
<1>4. j = [y |-> j.y, pin |-> j.pin, call |-> j.call]
  BY <1>1
<1>5. j = Inst(i.y, TRUE, i.call)
  BY <1>1, <1>3, <1>4, Zenon DEF Inst
<1>. QED BY <1>5 DEF j

LEMMA PinKeeps ==
  ASSUME BuilderInv, NEW id \in Operands, Pin(id)
  PROVE  BuilderInv'
<1>. USE DEF BuilderInv
<1>1. /\ mode = "build" /\ mode' = mode /\ lexpr' = lexpr
      /\ asked' = asked /\ next_id' = next_id /\ pinned' = pinned \union {id}
  BY DEF Pin
<1>2. CASE id \in DOMAIN nodes
  <2>1. id # 0 /\ NodeOf(id) = id
    BY <1>2, NodeIsFound DEF NodesOK
  <2>2. nodes' = [nodes EXCEPT ![id].pin = TRUE] /\ UNCHANGED <<err, failures>>
    BY <2>1 DEF Pin, NoError
  <2>3. /\ nodes' \in Seq(Insts) /\ Len(nodes') = Len(nodes) /\ DOMAIN nodes' = DOMAIN nodes
        /\ \A k \in DOMAIN nodes : k # id => nodes'[k] = nodes[k]
        /\ nodes'[id] = [nodes[id] EXCEPT !.pin = TRUE]
    <3>1. [nodes[id] EXCEPT !.pin = TRUE] \in Insts
      <4>1. nodes[id] \in Insts
        BY <1>2 DEF NodesOK
      <4>. QED BY <4>1 DEF Insts
    <3>2. nodes' = [nodes EXCEPT ![id] = [nodes[id] EXCEPT !.pin = TRUE]]
      BY <2>2
    <3>. QED BY <1>2, <3>1, <3>2 DEF NodesOK
  <2>4. NodesOK'
    <3>1. nodes[id] \in Insts /\ nodes[id].y = id
      BY <1>2 DEF NodesOK
    <3>2. nodes'[id].y = id
      BY <2>3, <3>1 DEF Insts
    <3>. QED BY <1>1, <1>2, <2>3, <3>2 DEF NodesOK
  <2>5. ErrorsOK'
    BY <1>1, <2>2 DEF ErrorsOK
  <2>6. ASSUME failures' = <<>> PROVE IsBuilt'
    <3>1. IsBuilt
      BY <1>1, <2>2, <2>6 DEF ExprOK
    <3>2. nodes'[id] = Inst(id, TRUE, asked[id])
      <4>1. id \in DOMAIN asked
        BY <1>2, <3>1 DEF IsBuilt, NodesOK
      <4>2. nodes[id] = Inst(id, id \in pinned, asked[id])
        BY <3>1, <4>1 DEF IsBuilt
      <4>3. nodes[id] \in Insts
        BY <1>2 DEF NodesOK
      <4>4. nodes[id].y = id /\ nodes[id].call = asked[id]
        BY <4>2 DEF Inst
      <4>5. [nodes[id] EXCEPT !.pin = TRUE] = Inst(nodes[id].y, TRUE, nodes[id].call)
        BY <4>3, PinnedInst
      <4>. QED BY <2>3, <4>4, <4>5
    <3>3. DOMAIN asked = DOMAIN nodes
      BY <3>1 DEF IsBuilt, NodesOK
    <3>4. ASSUME NEW k \in DOMAIN asked PROVE nodes'[k] = Inst(k, k \in pinned', asked[k])
      <4>1. CASE k = id
        BY <1>1, <3>2, <4>1, Zenon DEF Inst
      <4>2. CASE k # id
        <5>1. nodes'[k] = Inst(k, k \in pinned, asked[k])
          BY <2>3, <3>1, <3>3, <4>2 DEF IsBuilt
        <5>2. (k \in pinned) = (k \in pinned')
          BY <1>1, <4>2
        <5>. QED BY <5>1, <5>2, Zenon
      <4>. QED BY <4>1, <4>2
    <3>. QED BY <1>1, <1>2, <2>3, <3>1, <3>3, <3>4 DEF IsBuilt
  <2>7. ExprOK'
    BY <1>1, <2>6 DEF ExprOK, WithExpr, WithoutExpr, Phases
  <2>. QED BY <1>1, <2>4, <2>5, <2>7
<1>3. CASE id \notin DOMAIN nodes
  <2>1. nodes' = nodes /\ ReportError(Invalid)
    BY <1>3, NodeIsFound DEF Pin
  <2>2. failures' \in Seq({OutOfMemory, Invalid}) /\ failures' # <<>> /\ err' = Head(failures')
    BY <2>1, Reported DEF ErrorsOK
  <2>3. NodesOK'
    BY <1>1, <2>1 DEF NodesOK
  <2>4. ErrorsOK'
    BY <2>2 DEF ErrorsOK
  <2>5. ExprOK'
    BY <1>1, <2>2 DEF ExprOK, WithExpr, WithoutExpr, Phases
  <2>. QED BY <1>1, <2>3, <2>4, <2>5
<1>. QED BY <1>2, <1>3

\* The builder is refused: nothing but the mode and the errors change.
LEMMA RefusalKeeps ==
  ASSUME BuilderInv, mode' = "refused", mode = "build",
         UNCHANGED <<nodes, next_id, lexpr, asked, pinned>>,
         \/ UNCHANGED <<err, failures>> /\ failures # <<>>
         \/ \E s \in {OutOfMemory, Invalid} : ReportError(s)
  PROVE  BuilderInv'
<1>. USE DEF BuilderInv
<1>1. failures' \in Seq({OutOfMemory, Invalid}) /\ failures' # <<>> /\ err' = Head(failures')
  BY Reported DEF ErrorsOK
<1>2. NodesOK'
  BY DEF NodesOK
<1>3. ErrorsOK'
  BY <1>1 DEF ErrorsOK
<1>4. ExprOK'
  BY DEF ExprOK, WithExpr, WithoutExpr, Phases
<1>. QED BY <1>2, <1>3, <1>4 DEF WithoutExpr

LEMMA FinishKeeps ==
  ASSUME BuilderInv, Finish
  PROVE  BuilderInv'
<1>. USE DEF BuilderInv
<1>1. failures = <<>>
  <2>1. failures # <<>> => Head(failures) # OK
    BY DEF ErrorsOK, OutOfMemory, Invalid, OK
  <2>. QED BY <2>1 DEF Finish, Finishing, ErrorsOK
<1>2. /\ UNCHANGED <<err, nodes, next_id, asked, pinned, failures>>
      /\ mode = "build" /\ mode' = "finished" /\ nodes # <<>> /\ ~Foreign
      /\ lexpr' = [max_symbol_id |-> next_id, insts |-> nodes]
  BY DEF Finish, Finishing
<1>3. IsBuilt
  BY <1>1, <1>2 DEF ExprOK
<1>4. NodesOK'
  BY <1>2 DEF NodesOK
<1>5. ErrorsOK'
  BY <1>2 DEF ErrorsOK
<1>6. IsBuilt' /\ ~Foreign'
  BY <1>2, <1>3 DEF IsBuilt, Foreign
<1>7. ExprOK'
  BY <1>2, <1>6 DEF ExprOK, WithExpr, WithoutExpr
<1>. QED BY <1>2, <1>4, <1>5, <1>7 DEF WithExpr

LEMMA DestroyKeeps ==
  ASSUME BuilderInv, Destroy
  PROVE  BuilderInv'
<1>. USE DEF BuilderInv, Destroy
<1>1. NodesOK'
  BY DEF NodesOK
<1>2. ErrorsOK'
  BY DEF ErrorsOK
<1>3. ExprOK'
  BY DEF ExprOK, WithExpr, WithoutExpr, Phases
<1>. QED BY <1>1, <1>2, <1>3 DEF WithoutExpr

LEMMA BuildKeepsBuilder ==
  ASSUME BuilderInv, Build
  PROVE  BuilderInv'
<1>1. ASSUME NEW dims \in ParamShapes, AppendInst(Param(ShapeOf(dims, 0))) PROVE BuilderInv'
  <2>1. Param(ShapeOf(dims, 0)) \in Calls
    BY DEF Calls
  <2>. QED BY <1>1, <2>1, AppendKeeps
<1>2. ASSUME NEW x0 \in Operands, NEW x1 \in Operands, NEW call \in Operations(x0, x1), AppendInst(call)
      PROVE  BuilderInv'
  <2>1. call \in Calls
    BY DEF Calls
  <2>. QED BY <1>2, <2>1, AppendKeeps
<1>3. ASSUME NEW id \in Operands, Pin(id) PROVE BuilderInv'
  BY <1>3, PinKeeps
<1>4. CASE RefuseEarlierError
  <2>1. failures # <<>>
    BY <1>4 DEF RefuseEarlierError, BuilderInv, ErrorsOK
  <2>. QED BY <1>4, <2>1, RefusalKeeps DEF RefuseEarlierError
<1>5. CASE RefuseEmpty
  BY <1>5, RefusalKeeps DEF RefuseEmpty, RefuseWith
<1>6. CASE RefuseForeign
  BY <1>6, RefusalKeeps DEF RefuseForeign, RefuseWith
<1>7. CASE RefuseWithoutMemory
  BY <1>7, RefusalKeeps DEF RefuseWithoutMemory, RefuseWith, Finishing
<1>8. CASE Finish
  BY <1>8, FinishKeeps
<1>9. CASE Destroy
  BY <1>9, DestroyKeeps
<1>. QED BY <1>1, <1>2, <1>3, <1>4, <1>5, <1>6, <1>7, <1>8, <1>9 DEF Build, AskParam, AskOperation

-----------------------------------------------------------------------------
(* What a round of the lowering leaves alone.                              *)

LEMMA FailedStatus ==
  ASSUME NEW s
  PROVE  Failed(s).status = s
<1>1. NoSpace \in [status : {"none"}, extents : {<<>>}, to : {<<>>}]
  BY DEF NoSpace
<1>. QED BY <1>1 DEF Failed

LEMMA BroadcastedStatus ==
  ASSUME NEW y, NEW x0, NEW x1
  PROVE  BroadcastedSpace(y, x0, x1).status \in {"ok", "todo", "aborted", "overrun"}
BY FailedStatus DEF BroadcastedSpace

LEMMA ContractedStatus ==
  ASSUME NEW y, NEW x0, NEW x1, NEW n
  PROVE  ContractedSpace(y, x0, x1, n).status \in {"ok", "todo", "aborted", "overrun"}
BY FailedStatus, Zenon DEF ContractedSpace

LEMMA SpaceStatus ==
  ASSUME NEW y
  PROVE  /\ SumSpace(y).status \in {"ok", "todo", "aborted", "overrun"}
         /\ ContractionSpace(y).status \in {"ok", "todo", "aborted", "overrun"}
BY BroadcastedStatus, ContractedStatus DEF SumSpace, ContractionSpace

Stops == {"todo", "starved", "aborted", "overrun", "null"}

\* A round returns with an error it reports, returns without one, stops the
\* program or goes on.
LEMMA RoundFrame ==
  ASSUME LowerStep, mode = "finished" => lexpr # NoExpr
  PROVE  /\ UNCHANGED builtVars
         /\ mode \in {"finished"} \union Phases
         /\ mode' \in WithExpr
         /\ \/ NoError /\ status' \in {status, OK, "NullArgument"}
            \/ \E s \in {OutOfMemory, Invalid} : ReportError(s) /\ status' \in {s, "ShapeMismatch"}
<1>. USE DEF WithExpr, Phases, GoTo, NoBitVector, NoTables, Working, Return, ReturnWith, Leave, Stop, NoError, loweringVars
<1>. DEFINE Frame == /\ UNCHANGED builtVars
                     /\ mode \in {"finished"} \union Phases
                     /\ mode' \in WithExpr
                     /\ \/ NoError /\ status' \in {status, OK, "NullArgument"}
                        \/ \E s \in {OutOfMemory, Invalid} : ReportError(s) /\ status' \in {s, "ShapeMismatch"}
<1>1. CASE Lower \/ LowerNothing
  BY <1>1 DEF Lower, LowerNothing, builderVars, builtVars
<1>2. CASE ValidateParams \/ BitVectorFails
  BY <1>2 DEF ValidateParams, BitVectorFails
<1>3. CASE ValidateScope
  BY <1>3 DEF ValidateScope
<1>4. CASE IsValidated \/ MakeTables \/ TablesFail
  BY <1>4 DEF IsValidated, MakeTables, TablesFail, builtVars
<1>5. CASE TakeParam \/ SpaceFails \/ ShapesAreInferred
  BY <1>5 DEF TakeParam, SpaceFails, ShapesAreInferred, builtVars
<1>6. ASSUME NEW shape, NEW space, TakeSpace(shape, space), mode = "shapes", UNCHANGED builtVars,
             space.status \in {"ok", "todo", "aborted", "overrun"}
      PROVE  Frame
  BY <1>6 DEF TakeSpace
<1>7. CASE InferSum
  <2>. DEFINE y == InferBroadcasted(x0_shape, x1_shape)
  <2>1. CASE y.ok
    <3>1. TakeSpace(y.shape, SumSpace(y.shape)) /\ mode = "shapes" /\ UNCHANGED builtVars
      BY <1>7, <2>1 DEF InferSum
    <3>. QED BY <1>6, <3>1, SpaceStatus
  <2>2. CASE ~y.ok
    BY <1>7, <2>2 DEF InferSum
  <2>. QED BY <2>1, <2>2
<1>8. CASE InferContraction
  <2>. DEFINE nc == inst.call.meta[1]
              nb == inst.call.meta[2]
              dims == ContractedDims(x0_shape, x1_shape, nc, nb)
  <2>0. mode = "shapes" /\ UNCHANGED builtVars
    BY <1>8 DEF InferContraction
  <2>1. CASE ~CanContract(x0_shape, x1_shape, nc, nb)
    BY <1>8, <2>1 DEF InferContraction
  <2>2. CASE CanContract(x0_shape, x1_shape, nc, nb) /\ Len(dims) > MaxRank
    BY <1>8, <2>2 DEF InferContraction
  <2>3. CASE CanContract(x0_shape, x1_shape, nc, nb) /\ ~(Len(dims) > MaxRank)
    <3>1. PICK rest \in {0, 2} :
            TakeSpace(ShapeOf(dims, rest), ContractionSpace(ShapeOf(dims, rest)))
      BY <1>8, <2>3, Zenon DEF InferContraction
    <3>. QED BY <1>6, <2>0, <3>1, SpaceStatus
  <2>. QED BY <2>1, <2>2, <2>3
<1>9. CASE Address \/ AddressFails \/ BeginText \/ IsLowered
  BY <1>9 DEF Address, AddressFails, BeginText, IsLowered, builtVars
<1>10. CASE WriteLoops
  <2>0. mode = "text" /\ UNCHANGED builtVars
    BY <1>10 DEF WriteLoops
  <2>1. \/ Stop("null") \/ Stop("aborted")
        \/ UNCHANGED <<mode, status>> /\ NoError
    BY <1>10 DEF WriteLoops
  <2>. QED BY <2>0, <2>1
<1>. QED BY <1>1, <1>2, <1>3, <1>4, <1>5, <1>7, <1>8, <1>9, <1>10 DEF LowerStep

LEMMA LowerKeepsBuilder ==
  ASSUME BuilderInv, LowerStep
  PROVE  BuilderInv'
<1>. USE DEF BuilderInv
<1>1. mode = "finished" => lexpr # NoExpr
  <2>1. mode = "finished" => lexpr.max_symbol_id = Len(nodes) /\ nodes # <<>>
    BY DEF ExprOK, WithExpr, NodesOK
  <2>. QED BY <2>1 DEF NoExpr, NodesOK
<1>2. UNCHANGED <<nodes, next_id, lexpr, asked, pinned>> /\ mode \in WithExpr /\ mode' \in WithExpr
  BY <1>1, RoundFrame DEF builtVars, WithExpr
<1>3. mode' \notin WithoutExpr /\ mode' # "build" /\ mode' # "refused"
  BY <1>2 DEF WithExpr, WithoutExpr, Phases
<1>4. NodesOK'
  BY <1>2 DEF NodesOK
<1>5. ErrorsOK'
  <2>1. CASE NoError
    BY <1>3, <2>1 DEF ErrorsOK, NoError
  <2>2. CASE \E s \in {OutOfMemory, Invalid} : ReportError(s)
    <3>1. failures' \in Seq({OutOfMemory, Invalid}) /\ failures' # <<>> /\ err' = Head(failures')
      BY <2>2, Reported DEF ErrorsOK
    <3>. QED BY <1>3, <3>1 DEF ErrorsOK
  <2>. QED BY <1>1, <2>1, <2>2, RoundFrame
<1>6. IsBuilt' /\ ~Foreign'
  BY <1>2 DEF IsBuilt, Foreign, ExprOK
<1>7. ExprOK'
  BY <1>2, <1>3, <1>6 DEF ExprOK
<1>. QED BY <1>2, <1>4, <1>5, <1>7

LEMMA BuilderInvariant == Spec => []BuilderInv
<1>1. BuilderInv /\ [Next]_vars => BuilderInv'
  <2>. SUFFICES ASSUME BuilderInv, [Next]_vars PROVE BuilderInv'
    OBVIOUS
  <2>1. CASE Build
    BY <2>1, BuildKeepsBuilder
  <2>2. CASE LowerStep
    BY <2>2, LowerKeepsBuilder
  <2>3. CASE UNCHANGED vars
    BY <2>3 DEF vars, builderVars, BuilderInv, NodesOK, ErrorsOK, ExprOK, IsBuilt, Foreign
  <2>. QED BY <2>1, <2>2, <2>3 DEF Next
<1>. QED BY <1>1, BuilderInit, PTL DEF Spec

-----------------------------------------------------------------------------
(* Failures are reported.                                                  *)

StatusInv ==
  /\ status \in {OK, OutOfMemory, Invalid, "ShapeMismatch", "NullArgument"}
  /\ status \notin {OK, "NullArgument"} => err # OK

LEMMA ExprIsThere == BuilderInv /\ mode = "finished" => lexpr # NoExpr
<1>. SUFFICES ASSUME BuilderInv, mode = "finished" PROVE lexpr # NoExpr
  OBVIOUS
<1>1. lexpr.max_symbol_id = Len(nodes) /\ Len(nodes) \in Nat /\ Len(nodes) # 0
  BY DEF BuilderInv, ExprOK, WithExpr, NodesOK
<1>. QED BY <1>1 DEF NoExpr

LEMMA StatusKeeps ==
  ASSUME BuilderInv, StatusInv, [Next]_vars
  PROVE  StatusInv'
<1>. USE DEF StatusInv
<1>1. CASE Build /\ UNCHANGED loweringVars
  <2>1. status' = status
    BY <1>1 DEF loweringVars
  <2>2. err # OK => err' # OK
    <3>1. ASSUME NEW s, ReportError(s), err # OK PROVE err' # OK
      BY <3>1 DEF ReportError
    <3>2. NoError => err' = err
      BY DEF NoError
    <3>3. Build => err' = err \/ \E s : ReportError(s)
      BY <3>2 DEF Build, AskParam, AskOperation, AppendInst, Appends, AppendFails, Pin,
           RefuseEarlierError, RefuseEmpty, RefuseForeign, RefuseWithoutMemory, RefuseWith, Finish, Destroy
    <3>. QED BY <1>1, <3>1, <3>3
  <2>. QED BY <2>1, <2>2
<1>2. CASE LowerStep
  <2>1. CASE NoError /\ status' \in {status, OK, "NullArgument"}
    BY <2>1 DEF NoError
  <2>2. ASSUME NEW s \in {OutOfMemory, Invalid}, ReportError(s), status' \in {s, "ShapeMismatch"}
        PROVE  StatusInv'
    <3>1. err' # OK
      BY <2>2, Reported DEF BuilderInv, ErrorsOK
    <3>. QED BY <2>2, <3>1
  <2>. QED BY <1>2, <2>1, <2>2, RoundFrame, ExprIsThere
<1>3. CASE UNCHANGED vars
  BY <1>3 DEF vars, builderVars, loweringVars
<1>. QED BY <1>1, <1>2, <1>3 DEF Next

(* Whatever fails in a lowering that has its arguments, an inference that   *)
(* finds shapes that do not fit included, a client that looks only at the   *)
(* context gets to know of it (ak_report_error before every goto out of     *)
(* ak_lower_lexpr).                                                         *)
THEOREM LoweringReports == Spec => []FailuresAreReported
<1>1. Init => StatusInv
  BY DEF Init, InitBuilder, StatusInv
<1>2. StatusInv => FailuresAreReported
  BY DEF StatusInv, FailuresAreReported
<1>. QED BY <1>1, <1>2, StatusKeeps, BuilderInvariant, PTL DEF Spec

-----------------------------------------------------------------------------
(* The loops of the lowering.                                              *)

\* The instructions that are lowered, as the builder left them.
IsCode ==
  /\ insts \in Seq(Insts) /\ insts # <<>>
  /\ lexpr.max_symbol_id = Len(insts)
  /\ \A k \in DOMAIN insts :
       insts[k].y = k /\ insts[k].call.x0 \in 0 .. Len(insts) /\ insts[k].call.x1 \in 0 .. Len(insts)

LEMMA CodeIsSound ==
  ASSUME BuilderInv, mode \in WithExpr
  PROVE  IsCode
<1>1. insts = nodes /\ lexpr.max_symbol_id = Len(nodes) /\ nodes # <<>> /\ ~Foreign /\ NodesOK
  BY DEF insts, BuilderInv, ExprOK, NodesOK
<1>2. ASSUME NEW k \in DOMAIN nodes
      PROVE  nodes[k].y = k /\ nodes[k].call.x0 \in 0 .. Len(nodes) /\ nodes[k].call.x1 \in 0 .. Len(nodes)
  <2>1. nodes[k].y = k /\ next_id = Len(nodes) /\ nodes[k] \in Insts
    BY <1>1 DEF NodesOK
  <2>2. nodes[k].call.x0 \in Nat /\ nodes[k].call.x1 \in Nat
    BY <2>1, CallFields DEF Insts
  <2>3. ~(nodes[k].call.x0 > next_id) /\ ~(nodes[k].call.x1 > next_id)
    BY <1>1 DEF Foreign
  <2>. QED BY <2>1, <2>2, <2>3, <1>1 DEF NodesOK
<1>. QED BY <1>1, <1>2 DEF IsCode, NodesOK

IsSeq(s) == s \in Seq({s[k] : k \in DOMAIN s})

LEMMA AppendIsSeq ==
  ASSUME NEW s, IsSeq(s), NEW e
  PROVE  /\ IsSeq(Append(s, e))
         /\ Len(Append(s, e)) = Len(s) + 1 /\ Len(s) \in Nat
         /\ DOMAIN s = 1 .. Len(s) /\ DOMAIN Append(s, e) = 1 .. Len(s) + 1
         /\ Append(s, e)[Len(s) + 1] = e
         /\ \A k \in DOMAIN s : Append(s, e)[k] = s[k]
<1>. DEFINE S == {s[k] : k \in DOMAIN s} \union {e}
            t == Append(s, e)
<1>1. s \in Seq({s[k] : k \in DOMAIN s})
  BY DEF IsSeq
<1>2. s \in Seq(S)
  BY <1>1
<1>. HIDE DEF S
<1>3. e \in S
  BY DEF S
<1>4. /\ t \in Seq(S) /\ Len(t) = Len(s) + 1 /\ t[Len(s) + 1] = e
      /\ Len(s) \in Nat /\ DOMAIN s = 1 .. Len(s) /\ DOMAIN t = DOMAIN s \union {Len(s) + 1}
      /\ \A k \in DOMAIN s : t[k] = s[k]
  BY <1>2, <1>3, Grown
<1>. HIDE DEF t
<1>5. IsSeq(t)
  BY <1>4 DEF IsSeq
<1>6. DOMAIN t = 1 .. Len(s) + 1
  BY <1>4
<1>. QED BY <1>4, <1>5, <1>6 DEF t

Idle == WithoutExpr \union {"finished"}

RoundsOK ==
  /\ at \in Nat /\ at <= Len(insts) + 1
  /\ mode \in Phases => at >= 1
  /\ mode \in Idle => at = 0
  /\ validates \in BOOLEAN /\ outside \in BOOLEAN
  /\ lowerings \in 0 .. MaxLowerings
  /\ seen \subseteq Symbols
  /\ mode # "scopes" => seen = {}

TablesOK ==
  /\ IsSeq(spaces) /\ IsSeq(addresses)
  /\ symtab # <<>> => DOMAIN symtab = Symbols
  /\ Len(spaces) <= Len(insts)
  /\ Len(addresses) <= lexpr.max_symbol_id + 1
  /\ mode \in Idle \union {"params", "scopes", "tables"} =>
       symtab = <<>> /\ spaces = <<>> /\ addresses = <<>>
  /\ mode = "shapes" => Len(spaces) = at - 1 /\ addresses = <<>>
  /\ mode \in {"addresses", "text"} => Len(spaces) = Len(insts)
  /\ mode \in {"shapes", "addresses", "text"} => DOMAIN symtab = Symbols

LoopInv == RoundsOK /\ TablesOK

LEMMA BuildKeepsLoop ==
  ASSUME BuilderInv, BuilderInv', LoopInv, Build, UNCHANGED loweringVars
  PROVE  LoopInv'
<1>. USE DEF loweringVars
<1>1. mode \in Idle /\ mode' \in Idle
  BY DEF Idle, WithoutExpr, Build, AskParam, AskOperation, AppendInst, MayAsk, Pin, RefuseEarlierError,
     RefuseEmpty, RefuseForeign, RefuseWithoutMemory, RefuseWith, Finishing, Finish, Destroy
<1>2. Len(insts') \in Nat /\ lexpr'.max_symbol_id \in Nat
  <2>1. CASE mode' \in WithExpr
    <3>1. lexpr' = [max_symbol_id |-> next_id', insts |-> nodes']
      BY <2>1 DEF BuilderInv, ExprOK
    <3>2. next_id' = Len(nodes') /\ Len(nodes') \in Nat
      BY DEF BuilderInv, NodesOK
    <3>. QED BY <3>1, <3>2 DEF insts
  <2>2. CASE mode' \in WithoutExpr
    BY <2>2 DEF BuilderInv, ExprOK, NoExpr, insts
  <2>. QED BY <2>1, <2>2 DEF BuilderInv
<1>3. /\ at = 0 /\ seen = {} /\ symtab = <<>> /\ spaces = <<>> /\ addresses = <<>>
      /\ mode' \notin Phases /\ mode' \notin {"scopes", "shapes", "addresses", "text"}
  BY <1>1 DEF LoopInv, RoundsOK, TablesOK, Idle, WithoutExpr, Phases
<1>4. RoundsOK'
  BY <1>1, <1>2, <1>3 DEF LoopInv, RoundsOK
<1>5. TablesOK'
  BY <1>1, <1>2, <1>3 DEF LoopInv, TablesOK, IsSeq
<1>. QED BY <1>4, <1>5 DEF LoopInv

\* The exit at the label, with any error.
LEMMA LeaveKeepsLoop ==
  ASSUME LoopInv, IsCode, UNCHANGED lexpr, NEW s, Leave(s), outside' \in BOOLEAN
  PROVE  LoopInv'
<1>. USE DEF Leave, insts, IsCode
<1>1. RoundsOK'
  BY DEF LoopInv, RoundsOK, Phases, Idle, Symbols
<1>2. TablesOK'
  BY DEF LoopInv, TablesOK, IsSeq
<1>. QED BY <1>1, <1>2 DEF LoopInv

LEMMA StopKeepsLoop ==
  ASSUME LoopInv, UNCHANGED lexpr, mode # "scopes", NEW s \in Stops, Stop(s)
  PROVE  LoopInv'
<1>. USE DEF Stop, Stops, loweringVars, insts
<1>0. mode' \notin Phases \union Idle /\ mode' \notin {"scopes", "params", "tables", "shapes", "addresses", "text"}
  BY DEF Phases, Idle, WithoutExpr
<1>1. RoundsOK'
  BY <1>0 DEF LoopInv, RoundsOK, Symbols
<1>2. TablesOK'
  BY <1>0 DEF LoopInv, TablesOK, IsSeq, Symbols
<1>. QED BY <1>1, <1>2 DEF LoopInv

\* A round of the shapes: the table is written, and a space is taken down.
LEMMA ShapeTakenKeepsLoop ==
  ASSUME LoopInv, IsCode, UNCHANGED <<lexpr, mode, addresses, seen, outside, validates, status, lowerings>>,
         mode = "shapes", at <= Len(insts),
         NEW space, spaces' = Append(spaces, space), at' = at + 1,
         NEW id, NEW shape, symtab' = [symtab EXCEPT ![id] = shape]
  PROVE  LoopInv'
<1>. USE DEF insts
<1>1. RoundsOK'
  BY DEF LoopInv, RoundsOK, IsCode, Phases, Idle, WithoutExpr, Symbols
<1>2. /\ IsSeq(spaces') /\ Len(spaces') = Len(spaces) + 1
      /\ DOMAIN symtab' = Symbols
  BY AppendIsSeq DEF LoopInv, TablesOK
<1>3. TablesOK'
  BY <1>2 DEF LoopInv, TablesOK, RoundsOK, IsCode, Idle, WithoutExpr, Symbols
<1>. QED BY <1>1, <1>3 DEF LoopInv

LEMMA LeadingAreCode ==
  ASSUME IsCode
  PROVE  Cardinality(LeadingParams) \in 0 .. Len(insts)
<1>1. LeadingParams \subseteq 1 .. Len(insts) /\ Len(insts) \in Nat
  BY DEF LeadingParams, IsCode
<1>2. IsFiniteSet(1 .. Len(insts)) /\ Cardinality(1 .. Len(insts)) = Len(insts)
  BY <1>1, FS_Interval
<1>3. IsFiniteSet(LeadingParams) /\ Cardinality(LeadingParams) <= Len(insts)
  BY <1>1, <1>2, FS_Subset
<1>4. Cardinality(LeadingParams) \in Nat
  BY <1>3, FS_CardinalityType
<1>. QED BY <1>1, <1>3, <1>4

LEMMA LowerKeepsLoop ==
  ASSUME BuilderInv, LoopInv, LowerStep
  PROVE  LoopInv'
<1>1. /\ lexpr' = lexpr /\ IsCode /\ insts' = insts
      /\ mode \in {"finished"} \union Phases /\ mode' \in WithExpr
  <2>1. mode \in WithExpr /\ lexpr' = lexpr
    BY RoundFrame, ExprIsThere DEF builtVars, WithExpr
  <2>. QED BY <2>1, RoundFrame, ExprIsThere, CodeIsSound DEF insts
<1>. DEFINE quiet == UNCHANGED <<validates, lowerings>>
<1>2. CASE Lower
  <2>1. /\ lowerings' \in 0 .. MaxLowerings /\ validates' \in BOOLEAN /\ outside' = FALSE /\ at' = 1
        /\ mode = "finished" /\ mode' \in {"params", "tables"}
        /\ UNCHANGED <<seen, symtab, spaces, addresses>>
    BY <1>2, LoweringAssumption DEF Lower, GoTo, LoopInv, RoundsOK
  <2>2. RoundsOK'
    <3>1. seen' = {} /\ outside' \in BOOLEAN /\ mode' \notin Idle
      BY <2>1 DEF LoopInv, RoundsOK, Idle, WithoutExpr
    <3>2. at' \in Nat /\ at' >= 1 /\ at' <= Len(insts') + 1
      BY <1>1, <2>1 DEF IsCode
    <3>. QED BY <2>1, <3>1, <3>2 DEF RoundsOK
  <2>3. TablesOK'
    BY <1>1, <2>1 DEF LoopInv, TablesOK, Idle, WithoutExpr, Symbols
  <2>. QED BY <2>2, <2>3 DEF LoopInv
<1>3. CASE ValidateParams
  <2>1. CASE ParamsComeFirst(insts)
    <3>1. /\ at' = 1 /\ mode = "params" /\ mode' = "scopes"
          /\ UNCHANGED <<seen, outside, symtab, spaces, addresses, validates, status, lowerings>>
      BY <1>3, <2>1 DEF ValidateParams, GoTo, NoBitVector, NoTables, Working
    <3>2. RoundsOK'
      BY <1>1, <3>1 DEF LoopInv, RoundsOK, IsCode, Phases, Idle, WithoutExpr, Symbols
    <3>3. TablesOK'
      BY <1>1, <3>1 DEF LoopInv, TablesOK, Idle, WithoutExpr, Symbols
    <3>. QED BY <3>2, <3>3 DEF LoopInv
  <2>2. CASE ~ParamsComeFirst(insts)
    BY <1>1, <1>3, <2>2, LeaveKeepsLoop DEF ValidateParams, ReturnWith, Return, LoopInv, RoundsOK
  <2>. QED BY <2>1, <2>2
<1>4. CASE BitVectorFails \/ TablesFail \/ AddressFails \/ IsLowered
  BY <1>1, <1>4, LeaveKeepsLoop
     DEF BitVectorFails, TablesFail, AddressFails, IsLowered, ReturnWith, Return, LoopInv, RoundsOK
<1>5. CASE ValidateScope
  <2>0. mode = "scopes" /\ at <= Len(insts) /\ outside' \in BOOLEAN
    BY <1>5 DEF ValidateScope
  <2>1. CASE Leave(Invalid)
    BY <1>1, <2>0, <2>1, LeaveKeepsLoop
  <2>2. CASE ~Leave(Invalid)
    <3>1. /\ seen' \in {seen, seen \union {inst.y}} /\ at' = at + 1
          /\ UNCHANGED <<mode, symtab, spaces, addresses, validates, status, lowerings>>
      BY <1>5, <2>2 DEF ValidateScope, NoTables, Working
    <3>2. inst.y \in Symbols
      BY <1>1, <2>0 DEF inst, Symbols, IsCode, LoopInv, RoundsOK, Phases
    <3>3. RoundsOK'
      BY <1>1, <2>0, <3>1, <3>2 DEF LoopInv, RoundsOK, IsCode, Phases, Idle, WithoutExpr, Symbols
    <3>4. TablesOK'
      BY <1>1, <2>0, <3>1 DEF LoopInv, TablesOK, Idle, WithoutExpr, Symbols
    <3>. QED BY <3>3, <3>4 DEF LoopInv
  <2>. QED BY <2>1, <2>2
<1>6. CASE IsValidated
  <2>1. /\ at' = 1 /\ mode = "scopes" /\ mode' = "tables" /\ seen' = {}
        /\ UNCHANGED <<outside, symtab, spaces, addresses, validates, status, lowerings>>
    BY <1>6 DEF IsValidated, GoTo, NoTables, Working
  <2>2. RoundsOK'
    BY <1>1, <2>1 DEF LoopInv, RoundsOK, IsCode, Phases, Idle, WithoutExpr, Symbols
  <2>3. TablesOK'
    BY <1>1, <2>1 DEF LoopInv, TablesOK, Idle, WithoutExpr, Symbols
  <2>. QED BY <2>2, <2>3 DEF LoopInv
<1>7. CASE MakeTables
  <2>1. /\ at' = 1 /\ mode = "tables" /\ mode' = "shapes" /\ DOMAIN symtab' = Symbols
        /\ UNCHANGED <<seen, outside, spaces, addresses, validates, status, lowerings>>
    BY <1>7 DEF MakeTables, GoTo, NoBitVector, Working
  <2>2. RoundsOK'
    BY <1>1, <2>1 DEF LoopInv, RoundsOK, IsCode, Phases, Idle, WithoutExpr, Symbols
  <2>3. TablesOK'
    BY <1>1, <2>1 DEF LoopInv, TablesOK, Idle, WithoutExpr, Symbols
  <2>. QED BY <2>2, <2>3 DEF LoopInv
<1>8. CASE TakeParam
  <2>1. symtab' = [symtab EXCEPT ![inst.y] = ParamCopied(inst.call.meta)] /\ spaces' = Append(spaces, NoSpace)
    BY <1>8 DEF TakeParam, NoSpaceOf
  <2>. QED BY <1>1, <1>8, <2>1, ShapeTakenKeepsLoop DEF TakeParam, NoBitVector, Working
<1>9. ASSUME NEW shape, NEW space, TakeSpace(shape, space), mode = "shapes", at <= Len(insts),
             space.status \in {"ok", "todo", "aborted", "overrun"}
      PROVE  LoopInv'
  <2>1. CASE space.status = "ok"
    <3>1. /\ symtab' = [symtab EXCEPT ![inst.y] = shape] /\ spaces' = Append(spaces, space) /\ at' = at + 1
          /\ UNCHANGED <<mode, addresses, seen, outside, validates, status, lowerings>>
      BY <1>9, <2>1 DEF TakeSpace, Written, NoBitVector, Working
    <3>. QED BY <1>1, <1>9, <3>1, ShapeTakenKeepsLoop
  <2>2. CASE space.status # "ok"
    <3>1. Stop(space.status)
      BY <1>9, <2>2 DEF TakeSpace
    <3>. QED BY <1>1, <1>9, <2>2, <3>1, StopKeepsLoop DEF Stops
  <2>. QED BY <2>1, <2>2
<1>10. CASE InferSum
  <2>. DEFINE y == InferBroadcasted(x0_shape, x1_shape)
  <2>1. CASE y.ok
    <3>1. /\ TakeSpace(y.shape, SumSpace(y.shape))
          /\ mode = "shapes" /\ at <= Len(insts)
      BY <1>10, <2>1 DEF InferSum
    <3>. QED BY <1>9, <3>1, SpaceStatus
  <2>2. CASE ~y.ok
    BY <1>1, <1>10, <2>2, LeaveKeepsLoop DEF InferSum, Return, LoopInv, RoundsOK
  <2>. QED BY <2>1, <2>2
<1>11. CASE InferContraction
  <2>. DEFINE nc == inst.call.meta[1]
              nb == inst.call.meta[2]
              dims == ContractedDims(x0_shape, x1_shape, nc, nb)
  <2>0. mode = "shapes" /\ at <= Len(insts)
    BY <1>11 DEF InferContraction
  <2>1. CASE ~CanContract(x0_shape, x1_shape, nc, nb)
    <3>1. ReturnWith(Invalid)
      BY <1>11, <2>1 DEF InferContraction
    <3>. QED BY <1>1, <3>1, LeaveKeepsLoop DEF ReturnWith, Return, LoopInv, RoundsOK
  <2>2. CASE CanContract(x0_shape, x1_shape, nc, nb) /\ Len(dims) > MaxRank
    <3>1. Stop("overrun")
      BY <1>11, <2>2 DEF InferContraction
    <3>. QED BY <1>1, <2>0, <3>1, StopKeepsLoop DEF Stops
  <2>3. CASE CanContract(x0_shape, x1_shape, nc, nb) /\ ~(Len(dims) > MaxRank)
    <3>1. PICK rest \in {0, 2} :
            TakeSpace(ShapeOf(dims, rest), ContractionSpace(ShapeOf(dims, rest)))
      BY <1>11, <2>3, Zenon DEF InferContraction
    <3>. QED BY <1>9, <2>0, <3>1, SpaceStatus
  <2>. QED BY <2>1, <2>2, <2>3
<1>12. CASE SpaceFails
  BY <1>1, <1>12, StopKeepsLoop DEF SpaceFails, Stops
<1>13. CASE ShapesAreInferred
  <2>1. /\ at' = 1 /\ mode = "shapes" /\ mode' = "addresses" /\ at > Len(insts)
        /\ UNCHANGED <<seen, outside, symtab, spaces, addresses, validates, status, lowerings>>
    BY <1>13 DEF ShapesAreInferred, GoTo, NoBitVector, NoTables, Working
  <2>2. RoundsOK'
    BY <1>1, <2>1 DEF LoopInv, RoundsOK, IsCode, Phases, Idle, WithoutExpr, Symbols
  <2>3. Len(spaces) = Len(insts)
    BY <1>1, <2>1 DEF LoopInv, RoundsOK, TablesOK, IsCode
  <2>4. TablesOK'
    BY <1>1, <2>1, <2>3 DEF LoopInv, TablesOK, Idle, WithoutExpr, Symbols
  <2>. QED BY <2>2, <2>4 DEF LoopInv
<1>14. CASE Address
  <2>1. /\ mode = "addresses" /\ Len(addresses) <= lexpr.max_symbol_id
        /\ addresses' = Append(addresses, Strides(symtab[Len(addresses)]))
        /\ UNCHANGED <<mode, at, symtab, spaces, seen, outside, validates, status, lowerings>>
    BY <1>14 DEF Address, NoBitVector, Working
  <2>2. RoundsOK'
    BY <1>1, <2>1 DEF LoopInv, RoundsOK, Symbols
  <2>3. IsSeq(addresses') /\ Len(addresses') = Len(addresses) + 1 /\ Len(addresses) \in Nat
    BY <2>1, AppendIsSeq DEF LoopInv, TablesOK
  <2>4. TablesOK'
    BY <1>1, <2>1, <2>3 DEF LoopInv, TablesOK, IsCode, Idle, WithoutExpr, Symbols
  <2>. QED BY <2>2, <2>4 DEF LoopInv
<1>15. CASE BeginText
  <2>1. /\ mode = "addresses" /\ mode' = "text" /\ at' = Cardinality(LeadingParams) + 1
        /\ UNCHANGED <<seen, outside, symtab, spaces, addresses, validates, status, lowerings>>
    BY <1>15 DEF BeginText, NoBitVector, NoTables, Working
  <2>2. at' \in Nat /\ at' >= 1 /\ at' <= Len(insts) + 1
    BY <1>1, <2>1, LeadingAreCode DEF IsCode
  <2>3. RoundsOK'
    BY <1>1, <2>1, <2>2 DEF LoopInv, RoundsOK, Phases, Idle, WithoutExpr, Symbols
  <2>4. TablesOK'
    BY <1>1, <2>1 DEF LoopInv, TablesOK, Idle, WithoutExpr, Symbols
  <2>. QED BY <2>3, <2>4 DEF LoopInv
<1>16. CASE WriteLoops
  <2>0. mode = "text" /\ at <= Len(insts)
    BY <1>16 DEF WriteLoops
  <2>1. CASE Stop("null") \/ Stop("aborted")
    BY <1>1, <2>0, <2>1, StopKeepsLoop DEF Stops
  <2>2. CASE ~(Stop("null") \/ Stop("aborted"))
    <3>1. /\ at' = at + 1
          /\ UNCHANGED <<mode, seen, outside, symtab, spaces, addresses, validates, status, lowerings>>
      BY <1>16, <2>2 DEF WriteLoops, NoBitVector, NoTables, Working
    <3>2. RoundsOK'
      BY <1>1, <2>0, <3>1 DEF LoopInv, RoundsOK, IsCode, Phases, Idle, WithoutExpr, Symbols
    <3>3. TablesOK'
      BY <1>1, <2>0, <3>1 DEF LoopInv, TablesOK, Symbols, Idle, WithoutExpr
    <3>. QED BY <3>2, <3>3 DEF LoopInv
  <2>. QED BY <2>1, <2>2
<1>17. CASE LowerNothing
  <2>1. /\ lowerings' \in 0 .. MaxLowerings /\ mode' = mode
        /\ UNCHANGED <<at, validates, seen, outside, symtab, spaces, addresses>>
    BY <1>17, LoweringAssumption DEF LowerNothing, builderVars, LoopInv, RoundsOK
  <2>2. RoundsOK'
    BY <1>1, <2>1 DEF LoopInv, RoundsOK, Symbols
  <2>3. TablesOK'
    BY <1>1, <2>1 DEF LoopInv, TablesOK, IsSeq, Symbols
  <2>. QED BY <2>2, <2>3 DEF LoopInv
<1>. QED BY <1>2, <1>3, <1>4, <1>5, <1>6, <1>7, <1>8, <1>10, <1>11, <1>12, <1>13, <1>14, <1>15, <1>16, <1>17
         DEF LowerStep

LEMMA LoopInvariant == Spec => []LoopInv
<1>1. Init => LoopInv
  <2>. SUFFICES ASSUME Init PROVE LoopInv
    OBVIOUS
  <2>. USE DEF Init, InitBuilder
  <2>1. Len(insts) = 0 /\ lexpr.max_symbol_id = 0
    BY DEF insts, NoExpr
  <2>2. RoundsOK
    <3>1. lowerings \in 0 .. MaxLowerings
      BY LoweringAssumption
    <3>2. mode \notin Phases /\ validates \in BOOLEAN /\ outside \in BOOLEAN
      BY DEF Phases
    <3>. QED BY <2>1, <3>1, <3>2 DEF RoundsOK
  <2>3. TablesOK
    BY <2>1 DEF TablesOK, IsSeq
  <2>. QED BY <2>2, <2>3 DEF LoopInv
<1>2. BuilderInv /\ BuilderInv' /\ LoopInv /\ [Next]_vars => LoopInv'
  <2>. SUFFICES ASSUME BuilderInv, BuilderInv', LoopInv, [Next]_vars PROVE LoopInv'
    OBVIOUS
  <2>1. CASE Build /\ UNCHANGED loweringVars
    BY <2>1, BuildKeepsLoop
  <2>2. CASE LowerStep
    BY <2>2, LowerKeepsLoop
  <2>3. CASE UNCHANGED vars
    BY <2>3 DEF vars, builderVars, loweringVars, LoopInv, RoundsOK, TablesOK, IsSeq, insts, Symbols
  <2>. QED BY <2>1, <2>2, <2>3 DEF Next
<1>. QED BY <1>1, <1>2, BuilderInvariant, PTL DEF Spec

(* What a client finishes is what it asked for, and what it is refused with *)
(* is the first cause, however many parameters, sums, contractions and pins *)
(* it asks for and whichever of them find no memory (expr.c, context.c).    *)
THEOREM BuilderBuilds == Spec => []BuildsAsAsked
<1>1. BuilderInv /\ LoopInv /\ StatusInv => BuildsAsAsked
  <2>. SUFFICES ASSUME BuilderInv, LoopInv, StatusInv PROVE BuildsAsAsked
    OBVIOUS
  <2>1. Cardinality(Symbols) = lexpr.max_symbol_id + 1
    <3>1. lexpr.max_symbol_id \in Nat
      BY DEF BuilderInv, ExprOK, NodesOK, NoExpr
    <3>. QED BY <3>1, FS_Interval DEF Symbols
  <2>2. err \in {OK, OutOfMemory, Invalid}
    BY DEF BuilderInv, ErrorsOK
  <2>3. mode \in {"build", "finished"} \union Phases \union Ends
    BY DEF BuilderInv, WithExpr, WithoutExpr, Ends
  <2>4. TypeOK
    BY <2>1, <2>2, <2>3 DEF TypeOK, BuilderInv, NodesOK, LoopInv, RoundsOK, TablesOK, StatusInv
  <2>5. FinishedIsBuilt
    <3>1. SUFFICES ASSUME lexpr # NoExpr PROVE FinishedIsBuilt
      BY DEF FinishedIsBuilt
    <3>2. lexpr = [max_symbol_id |-> next_id, insts |-> nodes] /\ IsBuilt /\ NodesOK
      BY <3>1 DEF BuilderInv, ExprOK
    <3>3. lexpr.max_symbol_id = Len(asked) /\ lexpr.insts = nodes /\ Len(nodes) = Len(asked)
      BY <3>2 DEF IsBuilt, NodesOK
    <3>. QED BY <3>2, <3>3 DEF FinishedIsBuilt, IsBuilt
  <2>6. RefusedForTheFirstCause
    BY DEF RefusedForTheFirstCause, BuilderInv, ErrorsOK
  <2>. QED BY <2>4, <2>5, <2>6 DEF BuildsAsAsked
<1>2. Init => StatusInv
  BY DEF Init, InitBuilder, StatusInv
<1>. QED BY <1>1, <1>2, StatusKeeps, BuilderInvariant, LoopInvariant, PTL DEF Spec

-----------------------------------------------------------------------------
(* The validation.                                                         *)

LEMMA EnoughBlocks ==
  ASSUME NEW w \in Nat \ {0}, NEW m \in Nat, m % w # 0, NEW id \in 0 .. m
  PROVE  id \div w < AlignUp(m, w) \div w
<1>. DEFINE q == m \div w
            p == id \div w
            z == (m + w - 1) \div w
<1>1. /\ q \in Int /\ m = w * q + (m % w) /\ m % w \in 0 .. w - 1
      /\ p \in Int /\ id = w * p + (id % w) /\ id % w \in 0 .. w - 1
  OBVIOUS
<1>2. /\ z \in Int /\ m + w - 1 = w * z + ((m + w - 1) % w) /\ (m + w - 1) % w \in 0 .. w - 1
  OBVIOUS
<1>. HIDE DEF q, p, z
<1>3. \A a, b \in Int : w * a > w * b - w => a >= b
  <2>. SUFFICES ASSUME NEW a \in Int, NEW b \in Int, w * a > w * b - w, a <= b - 1 PROVE FALSE
    OBVIOUS
  <2>1. w * a <= w * (b - 1)
    OBVIOUS
  <2>2. w * (b - 1) = w * b - w
    OBVIOUS
  <2>. QED BY <2>1, <2>2
<1>4. p <= q
  <2>. SUFFICES ASSUME p >= q + 1 PROVE FALSE
    BY <1>1
  <2>1. w * p >= w * (q + 1) /\ w * (q + 1) = w * q + w
    BY <1>1
  <2>. QED BY <1>1, <2>1
<1>5. z >= q + 1
  <2>1. w * (q + 1) = w * q + w
    BY <1>1
  <2>2. w * z > w * (q + 1) - w
    BY <1>1, <1>2, <2>1
  <2>. QED BY <1>1, <1>2, <1>3, <2>2
<1>6. (z * w) \div w = z
  BY <1>2
<1>. QED BY <1>1, <1>2, <1>4, <1>5, <1>6 DEF AlignUp, q, p, z

\* The last block of the set has room for the id that is its width.
HasRoom == lexpr.max_symbol_id % Word # 0

\* The operands of the k-th instruction are symbols of earlier ones.
OperandsAreEarlier(k) ==
  insts[k].call.opcode # "Param" => insts[k].call.x0 \in 1 .. k - 1 /\ insts[k].call.x1 \in 1 .. k - 1

ScopeInv ==
  /\ mode = "build" => outside = FALSE
  /\ HasRoom => outside = FALSE
  /\ HasRoom /\ mode = "scopes" =>
       /\ ParamsComeFirst(insts)
       /\ seen = 1 .. at - 1
       /\ \A k \in 1 .. at - 1 : OperandsAreEarlier(k)

LEMMA EmptyHasNoRoom == lexpr = NoExpr => ~HasRoom
<1>1. \A w \in Nat \ {0} : 0 % w = 0
  OBVIOUS
<1>. QED BY <1>1, LoweringAssumption DEF HasRoom, NoExpr

\* The ids are places, so that those of the earlier instructions are 1 .. k - 1.
LEMMA SSAOfPlaces ==
  ASSUME IsCode
  PROVE  IsSSA(insts) <=> ParamsComeFirst(insts) /\ \A k \in 1 .. Len(insts) : OperandsAreEarlier(k)
<1>0. DOMAIN insts = 1 .. Len(insts) /\ Len(insts) \in Nat
  BY DEF IsCode
<1>1. ASSUME NEW k \in DOMAIN insts
      PROVE  {insts[j].y : j \in 1 .. k - 1} = 1 .. k - 1 /\ insts[k].y = k
  <2>1. \A j \in 1 .. k - 1 : insts[j].y = j
    BY <1>0 DEF IsCode
  <2>. QED BY <2>1 DEF IsCode
<1>2. ASSUME NEW k \in DOMAIN insts
      PROVE  (/\ insts[k].y \notin {insts[j].y : j \in 1 .. k - 1}
              /\ insts[k].call.opcode # "Param" =>
                   {insts[k].call.x0, insts[k].call.x1} \subseteq {insts[j].y : j \in 1 .. k - 1})
             <=> OperandsAreEarlier(k)
  <2>1. insts[k].y \notin 1 .. k - 1
    BY <1>0, <1>1
  <2>. QED BY <1>1, <2>1 DEF OperandsAreEarlier
<1>. QED BY <1>0, <1>2 DEF IsSSA

LEMMA BuildKeepsScope ==
  ASSUME BuilderInv, BuilderInv', LoopInv, ScopeInv, Build, UNCHANGED loweringVars
  PROVE  ScopeInv'
<1>1. outside' = outside
  BY DEF loweringVars
<1>2. mode' \in Idle /\ (lexpr' = lexpr \/ mode = "build" \/ lexpr' = NoExpr) /\ (mode' = "build" => mode = "build")
  BY DEF Idle, WithoutExpr, Build, AskParam, AskOperation, AppendInst, MayAsk, Pin, RefuseEarlierError,
     RefuseEmpty, RefuseForeign, RefuseWithoutMemory, RefuseWith, Finishing, Finish, Destroy
<1>3. mode' # "scopes"
  BY <1>2 DEF Idle, WithoutExpr
<1>4. CASE lexpr' = lexpr \/ mode = "build"
  BY <1>1, <1>2, <1>3, <1>4 DEF ScopeInv, HasRoom
<1>5. CASE lexpr' = NoExpr
  <2>1. lexpr'.max_symbol_id = 0
    BY <1>5 DEF NoExpr
  <2>2. \A w \in Nat \ {0} : 0 % w = 0
    OBVIOUS
  <2>3. ~HasRoom'
    BY <2>1, <2>2, LoweringAssumption DEF HasRoom
  <2>. QED BY <1>1, <1>2, <1>3, <2>3 DEF ScopeInv
<1>. QED BY <1>2, <1>4, <1>5

\* What the conjuncts of the property say of a round, and that it keeps ScopeInv.
IsExactRound ==
  /\ outside' = FALSE
  /\ mode = "scopes" /\ mode' = "tables" => IsSSA(insts)
  /\ mode \in {"params", "scopes"} /\ mode' = "finished" /\ status' = Invalid => ~IsSSA(insts)

LEMMA ScopeRoundIsExact ==
  ASSUME IsCode, LoopInv, ScopeInv, HasRoom, ValidateScope
  PROVE  /\ IsExactRound
         /\ UNCHANGED lexpr
         /\ mode' = "scopes" => seen' = 1 .. at' - 1 /\ \A k \in 1 .. at' - 1 : OperandsAreEarlier(k)
<1>0. /\ mode = "scopes" /\ at \in 1 .. Len(insts) /\ Len(insts) \in Nat /\ UNCHANGED lexpr
      /\ ParamsComeFirst(insts) /\ seen = 1 .. at - 1 /\ outside = FALSE
      /\ \A k \in 1 .. at - 1 : OperandsAreEarlier(k)
      /\ inst = insts[at]
  BY DEF ValidateScope, builtVars, LoopInv, RoundsOK, Phases, ScopeInv, IsCode, inst
<1>1. inst.y = at /\ inst.call.x0 \in 0 .. Len(insts) /\ inst.call.x1 \in 0 .. Len(insts)
  BY <1>0 DEF IsCode
<1>2. ASSUME NEW id \in 0 .. Len(insts) PROVE HasBlock(id)
  <2>1. lexpr.max_symbol_id = Len(insts) /\ lexpr.max_symbol_id \in Nat /\ Word \in Nat \ {0}
    BY <1>0, LoweringAssumption DEF IsCode
  <2>. QED BY <2>1, EnoughBlocks DEF HasBlock, HasRoom
<1>3. HasBlock(inst.y) /\ HasBlock(inst.call.x0) /\ HasBlock(inst.call.x1)
  BY <1>0, <1>1, <1>2
<1>4. outside' = FALSE
  BY <1>0, <1>3 DEF ValidateScope
<1>5. inst.y \notin seen
  BY <1>0, <1>1
<1>6. IsWellFormed(inst.call.x0 \in seen, inst.call.x1 \in seen, inst.y \in seen) <=> OperandsAreEarlier(at)
  BY <1>0, <1>5 DEF IsWellFormed, OperandsAreEarlier
<1>7. IF IsWellFormed(inst.call.x0 \in seen, inst.call.x1 \in seen, inst.y \in seen)
      THEN seen' = seen \union {inst.y} /\ at' = at + 1 /\ UNCHANGED mode
      ELSE Leave(Invalid)
  <2>1. \A id \in {inst.y, inst.call.x0, inst.call.x1} : GetBit(id) = {id \in seen}
    BY <1>3 DEF GetBit
  <2>2. PICK found_x0 \in {inst.call.x0 \in seen}, found_x1 \in {inst.call.x1 \in seen}, found_y \in {inst.y \in seen} :
          IF IsWellFormed(found_x0, found_x1, found_y)
          THEN /\ seen' = (IF HasBlock(inst.y) THEN seen \union {inst.y} ELSE seen)
               /\ at' = at + 1
               /\ UNCHANGED mode /\ NoTables /\ Working /\ NoError
          ELSE ReportError(Invalid) /\ Leave(Invalid)
    BY <2>1, Zenon DEF ValidateScope
  <2>3. found_x0 = (inst.call.x0 \in seen) /\ found_x1 = (inst.call.x1 \in seen) /\ found_y = (inst.y \in seen)
    BY <2>2, Zenon
  <2>. QED BY <1>3, <2>2, <2>3
<1>8. CASE OperandsAreEarlier(at)
  <2>1. seen' = seen \union {at} /\ at' = at + 1 /\ mode' = "scopes"
    BY <1>0, <1>1, <1>6, <1>7, <1>8
  <2>2. seen' = 1 .. at' - 1
    BY <1>0, <2>1
  <2>3. \A k \in 1 .. at' - 1 : OperandsAreEarlier(k)
    BY <1>0, <1>8, <2>1
  <2>. QED BY <1>0, <1>4, <2>1, <2>2, <2>3 DEF IsExactRound
<1>9. CASE ~OperandsAreEarlier(at)
  <2>1. mode' = "finished"
    BY <1>6, <1>7, <1>9 DEF Leave
  <2>2. ~IsSSA(insts)
    BY <1>0, <1>9, SSAOfPlaces
  <2>. QED BY <1>0, <1>4, <2>1, <2>2 DEF IsExactRound
<1>. QED BY <1>8, <1>9

LEMMA LowerIsExact ==
  ASSUME BuilderInv, LoopInv, ScopeInv, LowerStep
  PROVE  ScopeInv' /\ (HasRoom => IsExactRound)
<1>1. /\ lexpr' = lexpr /\ IsCode /\ insts' = insts
      /\ mode \in {"finished"} \union Phases /\ mode' \in WithExpr
  <2>1. mode \in WithExpr /\ lexpr' = lexpr
    BY RoundFrame, ExprIsThere DEF builtVars, WithExpr
  <2>. QED BY <2>1, RoundFrame, ExprIsThere, CodeIsSound DEF insts
<1>2. mode' # "build"
  BY <1>1 DEF WithExpr, Phases
<1>3. CASE ~HasRoom
  BY <1>1, <1>2, <1>3 DEF ScopeInv, HasRoom
<1>4. CASE HasRoom
  <2>1. outside = FALSE /\ HasRoom'
    BY <1>1, <1>4 DEF ScopeInv, HasRoom
  <2>2. SUFFICES
          /\ IsExactRound
          /\ mode' = "scopes" =>
               /\ ParamsComeFirst(insts) /\ seen' = 1 .. at' - 1
               /\ \A k \in 1 .. at' - 1 : OperandsAreEarlier(k)
    BY <1>1, <1>2, <2>1 DEF ScopeInv, IsExactRound, OperandsAreEarlier
  <2>3. CASE ValidateScope
    <3>1. mode = "scopes"
      BY <2>3 DEF ValidateScope
    <3>. QED BY <1>1, <1>4, <2>3, <3>1, ScopeRoundIsExact DEF ScopeInv
  <2>4. CASE ValidateParams
    <3>1. CASE ParamsComeFirst(insts)
      <4>1. /\ mode = "params" /\ mode' = "scopes" /\ at' = 1 /\ seen' = seen /\ outside' = outside
        BY <2>4, <3>1 DEF ValidateParams, GoTo, NoBitVector
      <4>2. seen' = {}
        BY <4>1 DEF LoopInv, RoundsOK
      <4>. QED BY <2>1, <3>1, <4>1, <4>2 DEF IsExactRound
    <3>2. CASE ~ParamsComeFirst(insts)
      <4>1. mode = "params" /\ mode' = "finished" /\ outside' = outside
        BY <2>4, <3>2 DEF ValidateParams, ReturnWith, Return, Leave
      <4>. QED BY <2>1, <3>2, <4>1 DEF IsExactRound, IsSSA
    <3>. QED BY <3>1, <3>2
  <2>5. CASE BitVectorFails
    <3>1. mode' = "finished" /\ status' = OutOfMemory /\ outside' = outside
      BY <2>5 DEF BitVectorFails, ReturnWith, Return, Leave
    <3>. QED BY <2>1, <3>1 DEF IsExactRound, OutOfMemory, Invalid
  <2>6. CASE IsValidated
    <3>1. mode = "scopes" /\ mode' = "tables" /\ outside' = outside /\ at > Len(insts)
      BY <2>6 DEF IsValidated, GoTo
    <3>2. ParamsComeFirst(insts) /\ \A k \in 1 .. Len(insts) : OperandsAreEarlier(k)
      BY <1>1, <1>4, <3>1 DEF ScopeInv, LoopInv, RoundsOK, IsCode
    <3>. QED BY <1>1, <2>1, <3>1, <3>2, SSAOfPlaces DEF IsExactRound
  <2>7. ASSUME mode \notin {"params", "scopes"}, mode' # "scopes", outside' \in {FALSE, outside}
        PROVE  /\ IsExactRound
               /\ mode' # "scopes"
    BY <2>1, <2>7 DEF IsExactRound
  <2>8. CASE Lower \/ LowerNothing
    BY <2>7, <2>8 DEF Lower, LowerNothing, builderVars, GoTo
  <2>9. CASE \/ MakeTables \/ TablesFail \/ TakeParam \/ SpaceFails \/ ShapesAreInferred
             \/ Address \/ AddressFails \/ BeginText \/ IsLowered
    BY <2>7, <2>9 DEF MakeTables, TablesFail, TakeParam, SpaceFails, ShapesAreInferred, Address, AddressFails,
       BeginText, IsLowered, GoTo, NoBitVector, ReturnWith, Return, Leave, Stop, loweringVars
  <2>10. ASSUME NEW shape, NEW space, TakeSpace(shape, space), mode = "shapes",
                space.status \in {"ok", "todo", "aborted", "overrun"}
         PROVE  mode' # "scopes" /\ outside' = outside
    BY <2>10 DEF TakeSpace, NoBitVector, Stop, loweringVars
  <2>11. CASE InferSum
    <3>. DEFINE y == InferBroadcasted(x0_shape, x1_shape)
    <3>1. mode = "shapes"
      BY <2>11 DEF InferSum
    <3>2. \/ TakeSpace(y.shape, SumSpace(y.shape))
          \/ Return("ShapeMismatch")
      BY <2>11 DEF InferSum
    <3>3. mode' # "scopes" /\ outside' = outside
      BY <2>10, <3>1, <3>2, SpaceStatus DEF Return, Leave
    <3>. QED BY <2>7, <3>1, <3>3
  <2>12. CASE InferContraction
    <3>. DEFINE nc == inst.call.meta[1]
                nb == inst.call.meta[2]
                dims == ContractedDims(x0_shape, x1_shape, nc, nb)
    <3>1. mode = "shapes"
      BY <2>12 DEF InferContraction
    <3>2. \/ Stop("overrun") \/ ReturnWith(Invalid)
          \/ \E rest \in {0, 2} :
               TakeSpace(ShapeOf(dims, rest), ContractionSpace(ShapeOf(dims, rest)))
      BY <2>12, Zenon DEF InferContraction
    <3>3. mode' # "scopes" /\ outside' = outside
      <4>1. CASE Stop("overrun") \/ ReturnWith(Invalid)
        BY <3>1, <4>1 DEF Stop, ReturnWith, Return, Leave, loweringVars
      <4>2. ASSUME NEW rest \in {0, 2},
                   TakeSpace(ShapeOf(dims, rest), ContractionSpace(ShapeOf(dims, rest)))
            PROVE  mode' # "scopes" /\ outside' = outside
        BY <2>10, <3>1, <4>2, SpaceStatus
      <4>. QED BY <3>2, <4>1, <4>2
    <3>. QED BY <2>7, <3>1, <3>3
  <2>13. CASE WriteLoops
    <3>1. mode = "text"
      BY <2>13 DEF WriteLoops
    <3>2. mode' # "scopes" /\ outside' = outside
      BY <2>13, <3>1 DEF WriteLoops, Stop, NoBitVector, loweringVars
    <3>. QED BY <2>7, <3>1, <3>2
  <2>. QED BY <2>3, <2>4, <2>5, <2>6, <2>7, <2>8, <2>9, <2>11, <2>12, <2>13 DEF LowerStep
<1>. QED BY <1>3, <1>4

LEMMA ScopeStep ==
  ASSUME BuilderInv, BuilderInv', LoopInv, ScopeInv, [Next]_vars
  PROVE  ScopeInv' /\ (HasRoom => IsExactRound \/ UNCHANGED vars)
<1>1. CASE Build /\ UNCHANGED loweringVars
  <2>1. ScopeInv'
    BY <1>1, BuildKeepsScope
  <2>2. mode \in Idle /\ outside' = outside
    BY <1>1 DEF loweringVars, Idle, WithoutExpr, Build, AskParam, AskOperation, AppendInst, MayAsk, Pin,
       RefuseEarlierError, RefuseEmpty, RefuseForeign, RefuseWithoutMemory, RefuseWith, Finishing, Finish, Destroy
  <2>3. mode \notin {"params", "scopes"}
    BY <2>2 DEF Idle, WithoutExpr
  <2>. QED BY <2>1, <2>2, <2>3 DEF IsExactRound, ScopeInv
<1>2. CASE LowerStep
  BY <1>2, LowerIsExact
<1>3. CASE UNCHANGED vars
  <2>1. ScopeInv'
    BY <1>3 DEF vars, builderVars, loweringVars, ScopeInv, HasRoom, insts, OperandsAreEarlier
  <2>. QED BY <1>3, <2>1
<1>. QED BY <1>1, <1>2, <1>3 DEF Next

(* The one pass over the instructions passes the expressions in SSA form   *)
(* and no others, and never touches a block that its set has not, whatever *)
(* the instructions are, if the number of symbols is no multiple of the    *)
(* bits of a block (ak_validate_lexpr_structure, ak_bv_init).              *)
THEOREM ValidationKnowsSSA == Spec => ValidationIsExact
<1>1. Init => ScopeInv
  <2>1. Init => lexpr = NoExpr /\ outside = FALSE
    BY DEF Init, InitBuilder
  <2>. QED BY <2>1, EmptyHasNoRoom DEF ScopeInv
<1>. DEFINE Exact == lexpr.max_symbol_id % Word # 0 =>
               /\ ~outside'
               /\ mode = "scopes" /\ mode' = "tables" => IsSSA(insts)
               /\ mode \in {"params", "scopes"} /\ mode' = "finished" /\ status' = Invalid => ~IsSSA(insts)
<1>2. BuilderInv /\ BuilderInv' /\ LoopInv /\ ScopeInv /\ [Next]_vars => ScopeInv' /\ [Exact]_vars
  <2>1. ASSUME HasRoom => IsExactRound \/ UNCHANGED vars PROVE [Exact]_vars
    BY <2>1 DEF HasRoom, IsExactRound
  <2>. QED BY <2>1, ScopeStep
<1>. QED BY <1>1, <1>2, BuilderInvariant, LoopInvariant, PTL DEF Spec, ValidationIsExact

-----------------------------------------------------------------------------
(* Sums of symbols of equal rank.                                          *)

HasElements(shape) ==
  /\ shape.rank \in 0 .. MaxRank
  /\ \A a \in 0 .. shape.rank - 1 : shape.dim[a] \in Nat \ {0}

LEMMA RankIsPositive == MaxRank \in Nat \ {0}
BY ShapesAssumption

LEMMA AccumulatedDim ==
  ASSUME NEW d, NEW e
  PROVE  /\ Accumulate(d, e) \in {d, e, Mismatch}
         /\ Accumulate(d, e) # Mismatch => d \in {Accumulate(d, e), 1} /\ e \in {Accumulate(d, e), 1}
BY DEF Accumulate

LEMMA FromRightIsPositive ==
  ASSUME NEW x, HasElements(x), NEW rank \in Nat, x.rank <= rank, NEW a \in 0 .. rank - 1
  PROVE  FromRight(x, a, rank) \in Nat \ {0}
<1>1. x.rank \in Nat
  BY RankIsPositive DEF HasElements
<1>2. CASE a >= rank - x.rank
  <2>1. a - (rank - x.rank) \in 0 .. x.rank - 1
    BY <1>1, <1>2
  <2>. QED BY <1>2, <2>1 DEF FromRight, HasElements
<1>3. CASE ~(a >= rank - x.rank)
  BY <1>3 DEF FromRight
<1>. QED BY <1>2, <1>3

LEMMA BroadcastedShape ==
  ASSUME NEW x0, NEW x1, HasElements(x0), HasElements(x1)
  PROVE  LET rank == Larger(x0.rank, x1.rank)
             y == InferBroadcasted(x0, x1)
         IN y.ok => /\ HasElements(y.shape)
                    /\ y.shape.rank = rank
                    /\ \A a \in 0 .. rank - 1 :
                         /\ y.shape.dim[a] = Accumulate(FromRight(x0, a, rank), FromRight(x1, a, rank))
                         /\ y.shape.dim[a] # Mismatch
<1>. DEFINE rank == Larger(x0.rank, x1.rank)
            y == InferBroadcasted(x0, x1)
            Dim(k) == Accumulate(FromRight(x0, k - 1, rank), FromRight(x1, k - 1, rank))
            dims == [k \in 1 .. rank |-> Dim(k)]
<1>1. /\ rank \in Nat /\ rank <= MaxRank /\ MaxRank \in Nat
      /\ x0.rank <= rank /\ x1.rank <= rank
  BY RankIsPositive DEF Larger, HasElements
<1>2. y = [ok |-> \A k \in 1 .. rank : dims[k] # Mismatch, shape |-> ShapeOf(dims, 0)]
  BY DEF InferBroadcasted
<1>. HIDE DEF rank, Dim
<1>3. Len(dims) = rank
  BY <1>1
<1>4. /\ y.shape.rank = rank
      /\ \A a \in 0 .. rank - 1 : y.shape.dim[a] = Dim(a + 1)
  <2>. HIDE DEF dims
  <2>1. y.shape = [rank |-> rank, dim |-> [a \in Axes |-> IF a < rank THEN dims[a + 1] ELSE 0]]
    BY <1>2, <1>3 DEF ShapeOf
  <2>2. ASSUME NEW a \in 0 .. rank - 1
        PROVE  a \in Axes /\ a < rank /\ a + 1 \in 1 .. rank
    BY <1>1 DEF Axes
  <2>3. \A a \in 0 .. rank - 1 : dims[a + 1] = Dim(a + 1)
    BY <2>2 DEF dims
  <2>. QED BY <2>1, <2>2, <2>3
<1>5. ASSUME y.ok, NEW a \in 0 .. rank - 1
      PROVE  Dim(a + 1) # Mismatch
  <2>1. a + 1 \in 1 .. rank
    BY <1>1
  <2>2. \A k \in 1 .. rank : dims[k] # Mismatch
    BY <1>2, <1>5
  <2>. QED BY <2>1, <2>2
<1>6. ASSUME y.ok, NEW a \in 0 .. rank - 1
      PROVE  /\ Dim(a + 1) = Accumulate(FromRight(x0, a, rank), FromRight(x1, a, rank))
             /\ Dim(a + 1) \in Nat \ {0}
  <2>1. (a + 1) - 1 = a
    BY <1>1
  <2>2. Dim(a + 1) = Accumulate(FromRight(x0, a, rank), FromRight(x1, a, rank))
    BY <2>1 DEF Dim
  <2>3. FromRight(x0, a, rank) \in Nat \ {0} /\ FromRight(x1, a, rank) \in Nat \ {0}
    BY <1>1, FromRightIsPositive
  <2>. QED BY <1>5, <1>6, <2>2, <2>3, AccumulatedDim
<1>. HIDE DEF y
<1>7. y.ok => HasElements(y.shape)
  BY <1>1, <1>4, <1>6 DEF HasElements
<1>8. y.ok => /\ HasElements(y.shape) /\ y.shape.rank = rank
              /\ \A a \in 0 .. rank - 1 :
                   /\ y.shape.dim[a] = Accumulate(FromRight(x0, a, rank), FromRight(x1, a, rank))
                   /\ y.shape.dim[a] # Mismatch
  BY <1>4, <1>5, <1>6, <1>7
<1>. QED BY <1>8 DEF rank, y

\* The operands of a sum fit, and there is room for their entries.
LEMMA EqualRanksHaveSpace ==
  ASSUME NEW x0, NEW x1, HasElements(x0), HasElements(x1), x0.rank = x1.rank, InferBroadcasted(x0, x1).ok
  PROVE  BroadcastedSpace(InferBroadcasted(x0, x1).shape, x0, x1).status = "ok"
<1>. DEFINE r == x0.rank
            y == InferBroadcasted(x0, x1).shape
            axes == 0 .. y.rank - 1
            Fits(x) == \A a \in axes : x.dim[a] \in {y.dim[a], 0, 1}
            Room(x) == \A a \in axes : Place(a, x.rank) < (y.rank + 1) * x.rank
<1>0. InferBroadcasted(x0, x1).ok /\ InferBroadcasted(x0, x1).shape = y
  OBVIOUS
<1>1. r \in Nat /\ x1.rank = r /\ Larger(x0.rank, x1.rank) = r
  BY RankIsPositive DEF HasElements, Larger
<1>2. /\ y.rank = r
      /\ \A a \in 0 .. r - 1 :
           /\ y.dim[a] = Accumulate(FromRight(x0, a, r), FromRight(x1, a, r))
           /\ y.dim[a] # Mismatch
  BY <1>1, BroadcastedShape
<1>. HIDE DEF y
<1>3. \A a \in 0 .. r - 1 : FromRight(x0, a, r) = x0.dim[a] /\ FromRight(x1, a, r) = x1.dim[a]
  BY <1>1 DEF FromRight
<1>4. Fits(x0) /\ Fits(x1)
  BY <1>2, <1>3, AccumulatedDim
<1>5. ASSUME NEW a \in 0 .. r - 1 PROVE Place(a, r) < (r + 1) * r
  <2>1. a * r + a = a * (r + 1) /\ a + 1 <= r /\ a \in Nat
    BY <1>1
  <2>2. a * (r + 1) < (a + 1) * (r + 1) /\ (a + 1) * (r + 1) <= r * (r + 1)
    BY <1>1, <2>1
  <2>3. r * (r + 1) = (r + 1) * r /\ a * (r + 1) \in Int /\ (a + 1) * (r + 1) \in Int /\ r * (r + 1) \in Int
    BY <1>1, <2>1
  <2>. QED BY <2>1, <2>2, <2>3 DEF Place
<1>6. Room(x0) /\ Room(x1)
  BY <1>1, <1>2, <1>5
<1>. DEFINE space == [status |-> "ok",
             extents |-> [k \in 1 .. y.rank |-> y.dim[k - 1]],
             to |-> <<Transform(y.rank, y.rank, WalkedAxes(y, y)),
                      Transform(x0.rank, y.rank, WalkedAxes(y, x0)),
                      Transform(x1.rank, y.rank, WalkedAxes(y, x1))>>]
<1>7. BroadcastedSpace(y, x0, x1) = space
  BY <1>0, <1>4, <1>6 DEF BroadcastedSpace
<1>. QED BY <1>7 DEF y

\* The loops of a sum take the elements of its result.
LEMMA SpaceExtents ==
  ASSUME NEW y, NEW x0, NEW x1, HasElements(y), BroadcastedSpace(y, x0, x1).status = "ok"
  PROVE  \A k \in DOMAIN BroadcastedSpace(y, x0, x1).extents : BroadcastedSpace(y, x0, x1).extents[k] \in Nat \ {0}
<1>. DEFINE space == [status |-> "ok",
             extents |-> [k \in 1 .. y.rank |-> y.dim[k - 1]],
             to |-> <<Transform(y.rank, y.rank, WalkedAxes(y, y)),
                      Transform(x0.rank, y.rank, WalkedAxes(y, x0)),
                      Transform(x1.rank, y.rank, WalkedAxes(y, x1))>>]
<1>1. BroadcastedSpace(y, x0, x1) \in {Failed("todo"), Failed("aborted"), Failed("overrun"), space}
  BY DEF BroadcastedSpace
<1>2. BroadcastedSpace(y, x0, x1) = space
  BY <1>1, FailedStatus
<1>3. ASSUME NEW k \in 1 .. y.rank PROVE y.dim[k - 1] \in Nat \ {0}
  <2>1. y.rank \in Nat /\ k - 1 \in 0 .. y.rank - 1
    BY RankIsPositive DEF HasElements
  <2>. QED BY <2>1 DEF HasElements
<1>. QED BY <1>2, <1>3

\* What SumsOfEqualRanks says of the instructions alone.
SumsOnly ==
  /\ IsSSA(insts)
  /\ \A k \in DOMAIN insts :
       \/ insts[k].call.opcode = "Add"
       \/ /\ insts[k].call.opcode = "Param" /\ insts[k].call.meta.rank < MaxRank
          /\ \A a \in 0 .. insts[k].call.meta.rank - 1 : insts[k].call.meta.dim[a] > 0

LEMMA EqualRanksAreSums == SumsOfEqualRanks => SumsOnly
BY DEF SumsOfEqualRanks, SumsOnly

\* What is done for the k-th instruction: its symbol has a shape, and its loops
\* go somewhere.
IsDone(k) ==
  /\ HasElements(symtab[k])
  /\ insts[k].call.opcode = "Add" =>
       /\ spaces[k].status = "ok"
       /\ \A e \in DOMAIN spaces[k].extents : spaces[k].extents[e] \in Nat \ {0}

SumsInv ==
  /\ SumsOnly /\ mode \in {"shapes", "addresses", "text"} => \A k \in DOMAIN spaces : IsDone(k)
  /\ mode = "text" => at > Cardinality(LeadingParams)

\* The copy of a parameter's shape keeps its elements.
LEMMA ParamHasElements ==
  ASSUME IsCode, SumsOnly, NEW k \in DOMAIN insts, insts[k].call.opcode = "Param"
  PROVE  HasElements(ParamCopied(insts[k].call.meta))
<1>. DEFINE shape == insts[k].call.meta
<1>1. PICK dims \in ParamShapes : shape = ShapeOf(dims, 0)
  <2>1. insts[k] \in Insts
    BY DEF IsCode
  <2>. QED BY <2>1, CallFields DEF Insts
<1>2. Len(dims) \in Nat /\ \A a \in 0 .. Len(dims) - 1 : dims[a + 1] \in Nat
  <2>1. dims \in Seq(Nat)
    BY LExprAssumption
  <2>. QED BY <2>1
<1>3. shape.rank = Len(dims) /\ shape.rank < MaxRank /\ \A a \in 0 .. shape.rank - 1 : shape.dim[a] > 0
  BY <1>1 DEF SumsOnly, ShapeOf
<1>4. ASSUME NEW a \in 0 .. shape.rank - 1
      PROVE  ParamCopied(shape).dim[a] = shape.dim[a] /\ shape.dim[a] = dims[a + 1]
  <2>1. a \in Axes /\ a + 1 < MaxRank /\ a < Len(dims)
    BY <1>2, <1>3, RankIsPositive DEF Axes
  <2>. QED BY <1>1, <2>1 DEF ParamCopied, ShapeOf
<1>5. ParamCopied(shape).rank = shape.rank
  BY DEF ParamCopied
<1>6. \A a \in 0 .. shape.rank - 1 : ParamCopied(shape).dim[a] \in Nat \ {0}
  BY <1>2, <1>3, <1>4
<1>7. shape.rank \in 0 .. MaxRank
  BY <1>2, <1>3, RankIsPositive
<1>. QED BY <1>5, <1>6, <1>7 DEF HasElements

\* A round of the shapes is done.
LEMMA ShapeTakenIsDone ==
  ASSUME IsCode, LoopInv, mode = "shapes", at <= Len(insts), \A k \in DOMAIN spaces : IsDone(k), insts' = insts,
         NEW shape, HasElements(shape), symtab' = [symtab EXCEPT ![inst.y] = shape],
         NEW space, spaces' = Append(spaces, space),
         inst.call.opcode = "Add" =>
           space.status = "ok" /\ \A e \in DOMAIN space.extents : space.extents[e] \in Nat \ {0}
  PROVE  \A k \in DOMAIN spaces' : IsDone(k)'
<1>1. /\ DOMAIN spaces' = 1 .. at /\ DOMAIN spaces = 1 .. at - 1
      /\ spaces'[at] = space /\ \A k \in 1 .. at - 1 : spaces'[k] = spaces[k]
      /\ at \in DOMAIN insts
  <2>1. IsSeq(spaces) /\ Len(spaces) = at - 1 /\ at \in Nat /\ at >= 1
    BY DEF LoopInv, TablesOK, RoundsOK, Phases
  <2>2. /\ Len(spaces) + 1 = at
        /\ DOMAIN spaces = 1 .. Len(spaces) /\ DOMAIN spaces' = 1 .. Len(spaces) + 1
        /\ spaces'[Len(spaces) + 1] = space
        /\ \A k \in DOMAIN spaces : spaces'[k] = spaces[k]
    BY <2>1, AppendIsSeq
  <2>. QED BY <2>1, <2>2 DEF IsCode
<1>2. inst = insts[at] /\ inst.y = at
  BY <1>1 DEF inst, IsCode
<1>3. DOMAIN symtab = Symbols /\ at \in Symbols
  BY <1>1 DEF LoopInv, TablesOK, IsCode, Symbols
<1>4. symtab'[at] = shape /\ \A k \in 1 .. at - 1 : symtab'[k] = symtab[k]
  <2>1. symtab' = [symtab EXCEPT ![at] = shape]
    BY <1>2
  <2>2. \A k \in 1 .. at - 1 : k \in Symbols /\ k # at
    BY <1>1 DEF Symbols, IsCode
  <2>. QED BY <1>3, <2>1, <2>2
<1>5. ASSUME NEW k, k = at PROVE IsDone(k)'
  <2>1. symtab'[k] = shape /\ spaces'[k] = space /\ insts'[k] = inst
    BY <1>1, <1>2, <1>4, <1>5
  <2>. QED BY <2>1 DEF IsDone
<1>6. ASSUME NEW k \in 1 .. at - 1 PROVE IsDone(k)'
  BY <1>1, <1>4 DEF IsDone
<1>7. \A k \in 1 .. at : k = at \/ k \in 1 .. at - 1
  BY <1>1 DEF IsCode
<1>. QED BY <1>1, <1>5, <1>6, <1>7

\* The operands of a sum whose shape is inferred; none of them is written.
LEMMA OperandsHaveElements ==
  ASSUME IsCode, LoopInv, SumsOnly, mode = "shapes", at <= Len(insts), \A k \in DOMAIN spaces : IsDone(k),
         inst.call.opcode = "Add"
  PROVE  /\ HasElements(x0_shape) /\ HasElements(x1_shape)
         /\ \A y : SumSpace(y) = BroadcastedSpace(y, x0_shape, x1_shape)
<1>1. DOMAIN spaces = 1 .. at - 1 /\ at \in 1 .. Len(insts) /\ inst = insts[at]
  BY AppendIsSeq DEF LoopInv, TablesOK, RoundsOK, Phases, IsCode, inst
<1>2. OperandsAreEarlier(at)
  BY <1>1, SSAOfPlaces DEF SumsOnly
<1>3. HasElements(x0_shape) /\ HasElements(x1_shape)
  BY <1>1, <1>2 DEF OperandsAreEarlier, IsDone, x0_shape, x1_shape
<1>4. ASSUME NEW y
      PROVE  Written(y)[inst.call.x0] = x0_shape /\ Written(y)[inst.call.x1] = x1_shape
  <2>1. inst.call.x0 \in 1 .. at - 1 /\ inst.call.x1 \in 1 .. at - 1 /\ inst.y = at
    BY <1>1, <1>2 DEF OperandsAreEarlier, IsCode
  <2>2. 1 .. at - 1 \subseteq DOMAIN symtab /\ at \notin 1 .. at - 1
    BY <1>1 DEF LoopInv, TablesOK, IsCode, Symbols
  <2>. QED BY <2>1, <2>2 DEF Written, x0_shape, x1_shape
<1>. QED BY <1>3, <1>4 DEF SumSpace

\* The parameters come first, so that behind as many there are none.
LEMMA NoParamsBehind ==
  ASSUME IsCode, ParamsComeFirst(insts), NEW n \in DOMAIN insts, n > Cardinality(LeadingParams)
  PROVE  insts[n].call.opcode # "Param"
<1>. SUFFICES ASSUME insts[n].call.opcode = "Param" PROVE FALSE
  OBVIOUS
<1>1. DOMAIN insts = 1 .. Len(insts) /\ Len(insts) \in Nat /\ n \in Nat
  BY DEF IsCode
<1>2. 1 .. n \subseteq LeadingParams
  BY <1>1 DEF LeadingParams, ParamsComeFirst
<1>3. IsFiniteSet(LeadingParams)
  <2>1. LeadingParams \subseteq 1 .. Len(insts)
    BY <1>1 DEF LeadingParams
  <2>2. IsFiniteSet(1 .. Len(insts))
    BY <1>1, FS_Interval
  <2>. QED BY <2>1, <2>2, FS_Subset
<1>4. Cardinality(1 .. n) = n /\ Cardinality(1 .. n) <= Cardinality(LeadingParams)
  <2>1. Cardinality(1 .. n) = n
    BY <1>1, FS_Interval
  <2>2. Cardinality(1 .. n) <= Cardinality(LeadingParams)
    BY <1>2, <1>3, FS_Subset
  <2>. QED BY <2>1, <2>2
<1>5. Cardinality(LeadingParams) \in Nat
  BY <1>3, FS_CardinalityType
<1>. QED BY <1>1, <1>4, <1>5

\* What a round does for sums of symbols: it keeps SumsInv and stops for no
\* reason but a missing space.
NoBadStop == mode \in Phases /\ mode' \in {"todo", "aborted", "overrun", "null"} => ~SumsOfEqualRanks

LEMMA SumIsDone ==
  ASSUME IsCode, LoopInv, SumsInv, InferSum, insts' = insts
  PROVE  SumsInv' /\ NoBadStop
<1>. DEFINE y == InferBroadcasted(x0_shape, x1_shape)
            space == SumSpace(y.shape)
<1>0. /\ mode = "shapes" /\ at <= Len(insts) /\ inst.call.opcode = "Add" /\ UNCHANGED builtVars
      /\ IF y.ok THEN TakeSpace(y.shape, space) ELSE ReportError(Invalid) /\ Return("ShapeMismatch")
  BY DEF InferSum
<1>1. SumsOnly' = SumsOnly
  BY DEF SumsOnly
<1>2. CASE ~y.ok
  <2>1. mode' = "finished"
    BY <1>0, <1>2 DEF Return, Leave
  <2>. QED BY <2>1 DEF SumsInv, NoBadStop
<1>3. CASE y.ok /\ space.status # "ok"
  <2>1. Stop(space.status)
    BY <1>0, <1>3 DEF TakeSpace
  <2>2. mode' \in {"todo", "aborted", "overrun"}
    BY <1>3, <2>1, SpaceStatus DEF Stop
  <2>3. ASSUME SumsOfEqualRanks PROVE FALSE
    <3>1. SumsOnly
      BY <2>3, EqualRanksAreSums
    <3>2. HasElements(x0_shape) /\ HasElements(x1_shape) /\ space = BroadcastedSpace(y.shape, x0_shape, x1_shape)
      BY <1>0, <3>1, OperandsHaveElements DEF SumsInv
    <3>3. EqualRanks(inst.call)
      <4>1. at \in DOMAIN insts
        BY <1>0 DEF LoopInv, RoundsOK, Phases, IsCode
      <4>. QED BY <1>0, <2>3, <4>1 DEF SumsOfEqualRanks, inst, LoopInv, RoundsOK
    <3>4. x0_shape.rank = x1_shape.rank
      BY <3>3 DEF EqualRanks, x0_shape, x1_shape
    <3>. QED BY <1>3, <3>2, <3>4, EqualRanksHaveSpace
  <2>. QED BY <2>2, <2>3 DEF SumsInv, NoBadStop
<1>4. CASE y.ok /\ space.status = "ok"
  <2>1. /\ symtab' = [symtab EXCEPT ![inst.y] = y.shape] /\ spaces' = Append(spaces, space)
        /\ mode' = "shapes"
    BY <1>0, <1>4 DEF TakeSpace, Written
  <2>2. ASSUME SumsOnly PROVE \A k \in DOMAIN spaces' : IsDone(k)'
    <3>1. \A k \in DOMAIN spaces : IsDone(k)
      BY <1>0, <2>2 DEF SumsInv
    <3>2. HasElements(x0_shape) /\ HasElements(x1_shape) /\ space = BroadcastedSpace(y.shape, x0_shape, x1_shape)
      BY <1>0, <2>2, <3>1, OperandsHaveElements
    <3>3. HasElements(y.shape)
      BY <1>4, <3>2, BroadcastedShape
    <3>4. \A e \in DOMAIN space.extents : space.extents[e] \in Nat \ {0}
      BY <1>4, <3>2, <3>3, SpaceExtents
    <3>5. PICK sp : sp = space
      OBVIOUS
    <3>6. PICK sh : sh = y.shape
      OBVIOUS
    <3>. HIDE DEF y, space
    <3>7. /\ HasElements(sh) /\ symtab' = [symtab EXCEPT ![inst.y] = sh] /\ spaces' = Append(spaces, sp)
          /\ sp.status = "ok" /\ \A e \in DOMAIN sp.extents : sp.extents[e] \in Nat \ {0}
      BY <1>4, <2>1, <3>3, <3>4, <3>5, <3>6
    <3>. QED BY <1>0, <3>1, <3>7, ShapeTakenIsDone
  <2>. QED BY <1>1, <2>1, <2>2 DEF SumsInv, NoBadStop
<1>. QED BY <1>2, <1>3, <1>4

LEMMA LowerKeepsSums ==
  ASSUME BuilderInv, LoopInv, SumsInv, LowerStep
  PROVE  SumsInv' /\ NoBadStop
<1>1. /\ lexpr' = lexpr /\ IsCode /\ insts' = insts
      /\ mode \in {"finished"} \union Phases
  <2>1. mode \in WithExpr /\ lexpr' = lexpr
    BY RoundFrame, ExprIsThere DEF builtVars, WithExpr
  <2>. QED BY <2>1, RoundFrame, ExprIsThere, CodeIsSound DEF insts
<1>2. SumsOnly' = SumsOnly /\ LeadingParams' = LeadingParams
  BY <1>1 DEF SumsOnly, LeadingParams
<1>3. ASSUME mode' \in {"params", "scopes", "tables", "finished", "starved"}
      PROVE  SumsInv' /\ NoBadStop
  BY <1>3 DEF SumsInv, NoBadStop
<1>4. CASE Lower \/ LowerNothing \/ ValidateParams \/ BitVectorFails \/ IsValidated \/ TablesFail \/ AddressFails \/ IsLowered \/ SpaceFails
  BY <1>3, <1>4 DEF Lower, LowerNothing, builderVars, ValidateParams, BitVectorFails, IsValidated, TablesFail, AddressFails, IsLowered,
     SpaceFails, GoTo, ReturnWith, Return, Leave, Stop
<1>5. CASE ValidateScope
  BY <1>3, <1>5 DEF ValidateScope, Leave
<1>6. CASE MakeTables
  <2>1. mode = "tables" /\ mode' = "shapes" /\ spaces' = spaces
    BY <1>6 DEF MakeTables, GoTo
  <2>2. DOMAIN spaces' = {}
    BY <2>1 DEF LoopInv, TablesOK
  <2>. QED BY <2>1, <2>2 DEF SumsInv, NoBadStop
<1>7. CASE TakeParam
  <2>. DEFINE copied == ParamCopied(inst.call.meta)
  <2>1. /\ mode = "shapes" /\ mode' = "shapes" /\ at <= Len(insts) /\ inst.call.opcode = "Param"
        /\ symtab' = [symtab EXCEPT ![inst.y] = copied] /\ spaces' = Append(spaces, NoSpace)
    BY <1>7 DEF TakeParam, NoSpaceOf
  <2>2. ASSUME SumsOnly PROVE \A k \in DOMAIN spaces' : IsDone(k)'
    <3>1. \A k \in DOMAIN spaces : IsDone(k)
      BY <2>1, <2>2 DEF SumsInv
    <3>2. at \in DOMAIN insts /\ inst = insts[at]
      BY <1>1, <2>1 DEF LoopInv, RoundsOK, Phases, IsCode, inst
    <3>3. HasElements(copied)
      BY <1>1, <2>1, <2>2, <3>2, ParamHasElements
    <3>4. PICK sh : sh = copied
      OBVIOUS
    <3>. HIDE DEF copied
    <3>5. HasElements(sh) /\ symtab' = [symtab EXCEPT ![inst.y] = sh] /\ inst.call.opcode # "Add"
      BY <2>1, <3>3, <3>4
    <3>6. PICK sp : sp = NoSpace
      OBVIOUS
    <3>. QED BY <1>1, <2>1, <3>1, <3>5, <3>6, ShapeTakenIsDone
  <2>. QED BY <1>2, <2>1, <2>2 DEF SumsInv, NoBadStop
<1>8. CASE InferSum
  BY <1>1, <1>8, SumIsDone
<1>9. CASE InferContraction
  <2>1. mode = "shapes" /\ inst.call.opcode = "Contract" /\ at <= Len(insts)
    BY <1>9 DEF InferContraction
  <2>2. ~SumsOnly
    <3>1. at \in DOMAIN insts /\ inst = insts[at]
      BY <1>1, <2>1 DEF LoopInv, RoundsOK, Phases, IsCode, inst
    <3>. QED BY <2>1, <3>1 DEF SumsOnly
  <2>3. mode' # "text"
    <3>. DEFINE nc == inst.call.meta[1]
                nb == inst.call.meta[2]
                dims == ContractedDims(x0_shape, x1_shape, nc, nb)
    <3>1. \/ Stop("overrun") \/ ReturnWith(Invalid)
          \/ \E rest \in {0, 2} :
               TakeSpace(ShapeOf(dims, rest), ContractionSpace(ShapeOf(dims, rest)))
      BY <1>9, Zenon DEF InferContraction
    <3>2. Stop("overrun") \/ ReturnWith(Invalid) => mode' # "text"
      BY DEF Stop, ReturnWith, Return, Leave
    <3>3. ASSUME NEW shape, NEW space, space.status \in {"ok", "todo", "aborted", "overrun"}, TakeSpace(shape, space)
          PROVE  mode' # "text"
      BY <2>1, <3>3 DEF TakeSpace, Stop
    <3>. QED BY <3>1, <3>2, <3>3, SpaceStatus
  <2>. QED BY <1>2, <2>2, <2>3, EqualRanksAreSums DEF SumsInv, NoBadStop
<1>10. CASE ShapesAreInferred \/ Address
  <2>1. mode' = "addresses" /\ mode \in {"shapes", "addresses"} /\ UNCHANGED <<symtab, spaces>>
    BY <1>10 DEF ShapesAreInferred, GoTo, NoTables, Address
  <2>2. \A k : IsDone(k)' = IsDone(k)
    BY <1>1, <2>1 DEF IsDone
  <2>. QED BY <1>2, <2>1, <2>2 DEF SumsInv, NoBadStop
<1>11. CASE BeginText
  <2>1. mode' = "text" /\ mode = "addresses" /\ UNCHANGED <<symtab, spaces>> /\ at' = Cardinality(LeadingParams) + 1
    BY <1>11 DEF BeginText, NoTables
  <2>2. \A k : IsDone(k)' = IsDone(k)
    BY <1>1, <2>1 DEF IsDone
  <2>3. at' > Cardinality(LeadingParams)
    BY <1>1, <2>1, LeadingAreCode
  <2>. QED BY <1>2, <2>1, <2>2, <2>3 DEF SumsInv, NoBadStop
<1>12. CASE WriteLoops
  <2>1. mode = "text" /\ at <= Len(insts)
    BY <1>12 DEF WriteLoops
  <2>2. /\ at \in DOMAIN insts /\ at \in DOMAIN spaces /\ at > Cardinality(LeadingParams)
        /\ at \in Nat
    BY <1>1, <2>1, AppendIsSeq DEF LoopInv, RoundsOK, TablesOK, Phases, IsCode, SumsInv
  <2>3. CASE mode' = "text"
    <3>1. at' = at + 1 /\ UNCHANGED <<symtab, spaces>>
      BY <1>12, <2>1, <2>3 DEF WriteLoops, NoTables, Stop
    <3>2. \A k : IsDone(k)' = IsDone(k)
      BY <1>1, <3>1 DEF IsDone
    <3>3. at' > Cardinality(LeadingParams)
      BY <1>1, <2>2, <3>1, LeadingAreCode
    <3>. QED BY <1>2, <2>1, <2>3, <3>1, <3>2, <3>3 DEF SumsInv, NoBadStop
  <2>4. CASE mode' # "text"
    <3>1. mode' \in {"null", "aborted"}
      BY <1>12, <2>1, <2>4 DEF WriteLoops, Stop
    <3>2. ASSUME SumsOfEqualRanks PROVE FALSE
      <4>1. SumsOnly
        BY <3>2, EqualRanksAreSums
      <4>2. insts[at].call.opcode = "Add"
        <5>1. insts[at].call.opcode # "Param"
          BY <1>1, <2>2, <4>1, NoParamsBehind DEF SumsOnly, IsSSA
        <5>. QED BY <2>2, <4>1, <5>1 DEF SumsOnly
      <4>3. IsDone(at)
        BY <2>1, <2>2, <4>1 DEF SumsInv
      <4>4. spaces[at].status = "ok" /\ \A e \in DOMAIN spaces[at].extents : spaces[at].extents[e] \in Nat \ {0}
        BY <4>2, <4>3 DEF IsDone
      <4>5. PICK e \in DOMAIN spaces[at].extents : spaces[at].extents[e] <= 0
        BY <1>12, <2>1, <2>4, <4>4 DEF WriteLoops, HasSpace
      <4>. QED BY <4>4, <4>5
    <3>. QED BY <3>1, <3>2 DEF SumsInv, NoBadStop
  <2>. QED BY <2>3, <2>4
<1>. QED BY <1>4, <1>5, <1>6, <1>7, <1>8, <1>9, <1>10, <1>11, <1>12 DEF LowerStep

(* A lowering of sums of symbols that have one rank each, below the highest, *)
(* and elements, writes every loop or fails with an error: no assertion of   *)
(* linalg.c fails, no matrix is overrun and no domain is missing, of however *)
(* many sums the expression is (ak_create_broadcasted_iteration_space).      *)
THEOREM EqualRanksLower == Spec => SumsOfEqualRanksLower
<1>. DEFINE Good == (mode \in Phases /\ mode' \in {"todo", "aborted", "overrun", "null"}) => ~SumsOfEqualRanks
<1>1. Init => SumsInv
  BY DEF Init, InitBuilder, SumsInv
<1>2. BuilderInv /\ LoopInv /\ SumsInv /\ [Next]_vars => SumsInv' /\ [Good]_vars
  <2>. SUFFICES ASSUME BuilderInv, LoopInv, SumsInv, [Next]_vars PROVE SumsInv' /\ [Good]_vars
    OBVIOUS
  <2>1. CASE Build /\ UNCHANGED loweringVars
    <3>1. mode \in Idle /\ mode' \in Idle
      BY <2>1 DEF Idle, WithoutExpr, Build, AskParam, AskOperation, AppendInst, MayAsk, Pin,
         RefuseEarlierError, RefuseEmpty, RefuseForeign, RefuseWithoutMemory, RefuseWith, Finishing, Finish, Destroy
    <3>. QED BY <3>1 DEF SumsInv, Idle, WithoutExpr, Phases
  <2>2. CASE LowerStep
    BY <2>2, LowerKeepsSums DEF NoBadStop
  <2>3. CASE UNCHANGED vars
    BY <2>3 DEF vars, builderVars, loweringVars, SumsInv, SumsOnly, insts, IsDone, LeadingParams
  <2>. QED BY <2>1, <2>2, <2>3 DEF Next
<1>. QED BY <1>1, <1>2, BuilderInvariant, LoopInvariant, PTL DEF Spec, SumsOfEqualRanksLower

-----------------------------------------------------------------------------
(* What the loops of a sum meet.                                           *)

\* A shape as the table has it.
IsShape(shape) == shape.rank \in 0 .. MaxRank /\ \A a \in Axes : shape.dim[a] \in Nat

\* A place in the loops over these dimensions.
LEMMA PlacesAreBelow ==
  ASSUME NEW r \in Nat, NEW e, DOMAIN e = 1 .. r, \A k \in 1 .. r : e[k] \in Nat, NEW p \in Points(e)
  PROVE  DOMAIN p = 1 .. r /\ p = [k \in 1 .. r |-> p[k]] /\ IsBelow(p, e, r)
<1>1. p \in [1 .. r -> UNION {0 .. d - 1 : d \in Range(e)}] /\ \A k \in 1 .. r : p[k] < e[k]
  BY DEF Points
<1>2. ASSUME NEW k \in 1 .. r PROVE p[k] \in Nat
  <2>1. p[k] \in UNION {0 .. d - 1 : d \in Range(e)}
    BY <1>1
  <2>2. PICK d \in Range(e) : p[k] \in 0 .. d - 1
    BY <2>1
  <2>3. d \in Nat
    BY <2>2 DEF Range
  <2>. QED BY <2>2, <2>3
<1>3. DOMAIN p = 1 .. r /\ p = [k \in 1 .. r |-> p[k]]
  BY <1>1
<1>. QED BY <1>1, <1>2, <1>3 DEF IsBelow

\* The place of an axis tells the axis, and no place of an axis is in the row
\* behind the last.
LEMMA PlaceIsUnique ==
  ASSUME NEW r \in Nat, NEW a \in 0 .. r - 1, NEW b \in 0 .. r - 1, NEW c \in 0 .. r
  PROVE  Place(a, r) = c * r + b => a = b /\ a = c
<1>. SUFFICES ASSUME a * r + a = c * r + b PROVE a = b /\ a = c
  BY DEF Place
<1>1. r * a + a = r * c + b /\ a \in Nat /\ b \in Nat /\ c \in Nat /\ a < r /\ b < r
  OBVIOUS
<1>2. a = c /\ a = b
  BY <1>1, PlacesAgree
<1>. QED BY <1>2

\* A row of such a transform: the point's coordinate, or 0 if the operand has
\* another dimension there.
LEMMA WalkedCoordinate ==
  ASSUME NEW x, NEW y, NEW r \in Nat, x.rank = r, y.rank = r,
         NEW p, \A k \in 1 .. r : p[k] \in Int, NEW row \in 0 .. r - 1
  PROVE  Coordinate(Transform(x.rank, y.rank, WalkedAxes(y, x)), row, p) =
           IF x.dim[row] = y.dim[row] THEN p[row + 1] ELSE 0
<1>. DEFINE ones == WalkedAxes(y, x)
            Entry(place) == IF place \in ones THEN 1 ELSE 0
            f == [col \in 0 .. r - 1 |-> Entry(row * r + col) * p[col + 1]]
<1>1. \A z : z \in ones <=> \E a \in 0 .. r - 1 : x.dim[a] = y.dim[a] /\ z = Place(a, r)
  BY DEF WalkedAxes
<1>2. ASSUME NEW b \in 0 .. r - 1, NEW c \in 0 .. r
      PROVE  c * r + b \in ones <=> b = c /\ x.dim[b] = y.dim[b]
  <2>1. c * r + b \in ones => b = c /\ x.dim[b] = y.dim[b]
    BY <1>1, PlaceIsUnique
  <2>2. b = c => c * r + b = Place(b, r)
    BY DEF Place
  <2>. QED BY <1>1, <2>1, <2>2
<1>3. Coordinate(Transform(x.rank, y.rank, ones), row, p) = SumFunction(f) + Entry(r * r + row)
  BY DEF Coordinate, Transform
<1>. HIDE DEF ones
<1>4. Entry(r * r + row) = 0
  <2>1. r \in 0 .. r /\ row # r
    OBVIOUS
  <2>. QED BY <1>2, <2>1
<1>5. \A col \in 0 .. r - 1 : p[col + 1] \in Int
  OBVIOUS
<1>6. \A col \in 0 .. r - 1 :
        f[col] = IF col = row /\ x.dim[row] = y.dim[row] THEN p[row + 1] ELSE 0
  <2>1. ASSUME NEW col \in 0 .. r - 1
        PROVE  f[col] = IF col = row /\ x.dim[row] = y.dim[row] THEN p[row + 1] ELSE 0
    <3>1. row * r + col \in ones <=> col = row /\ x.dim[col] = y.dim[col]
      <4>1. row \in 0 .. r
        OBVIOUS
      <4>. QED BY <1>2, <4>1
    <3>2. f[col] = Entry(row * r + col) * p[col + 1] /\ p[col + 1] \in Int
      BY <1>5
    <3>3. CASE row * r + col \in ones
      BY <3>1, <3>2, <3>3
    <3>4. CASE row * r + col \notin ones
      BY <3>1, <3>2, <3>4
    <3>. QED BY <3>3, <3>4
  <2>. QED BY <2>1
<1>7. DOMAIN f = 0 .. r - 1 /\ IsFiniteSet(0 .. r - 1)
  BY FS_Interval
<1>. DEFINE v == IF x.dim[row] = y.dim[row] THEN p[row + 1] ELSE 0
<1>8. v \in Int
  BY <1>5
<1>. HIDE DEF f, v
<1>9. SumFunctionOnSet(f, 0 .. r - 1) = v
  <2>1. PICK S, g : S = 0 .. r - 1 /\ g = f
    OBVIOUS
  <2>2. row \in S /\ g[row] = v /\ g[row] \in Int /\ \A z \in S : z # row => g[z] = 0
    BY <1>6, <1>8, <2>1 DEF v
  <2>3. SumFunctionOnSet(g, S) = g[row]
    BY <1>7, <2>1, <2>2, SumOfOne
  <2>. QED BY <2>1, <2>2, <2>3
<1>10. SumFunction(f) = v
  BY <1>7, <1>9 DEF SumFunction
<1>. QED BY <1>3, <1>4, <1>8, <1>10 DEF v, ones

\* What a point of a sum's loops meets.
LEMMA SumMeetsElements ==
  ASSUME NEW y, NEW x0, NEW x1, IsShape(x0), IsShape(x1), x0.rank = x1.rank,
         NEW space, space = BroadcastedSpace(y, x0, x1), space.status = "ok",
         NEW p \in Points(space.extents)
  PROVE  /\ [row \in DOMAIN p |-> Coordinate(space.to[1], row - 1, p)] = p
         /\ [row \in DOMAIN p |-> Coordinate(space.to[2], row - 1, p)] = ElementOf(x0, p)
         /\ [row \in DOMAIN p |-> Coordinate(space.to[3], row - 1, p)] = ElementOf(x1, p)
<1>. DEFINE r == x0.rank
            again == InferBroadcasted(x0, x1)
            made == [status |-> "ok",
                     extents |-> [k \in 1 .. y.rank |-> y.dim[k - 1]],
                     to |-> <<Transform(y.rank, y.rank, WalkedAxes(y, y)),
                              Transform(x0.rank, y.rank, WalkedAxes(y, x0)),
                              Transform(x1.rank, y.rank, WalkedAxes(y, x1))>>]
<1>1. r \in Nat /\ r <= MaxRank /\ x1.rank = r /\ Larger(x0.rank, x1.rank) = r /\ MaxRank \in Nat
  BY RankIsPositive DEF IsShape, Larger
<1>3. /\ space = made
      /\ again.ok /\ again.shape.rank = y.rank /\ \A a \in 0 .. y.rank - 1 : again.shape.dim[a] = y.dim[a]
  <2>1. \/ space \in {Failed("todo"), Failed("aborted"), Failed("overrun")}
        \/ /\ space = made
           /\ again.ok /\ again.shape.rank = y.rank /\ \A a \in 0 .. y.rank - 1 : again.shape.dim[a] = y.dim[a]
    BY DEF BroadcastedSpace
  <2>. QED BY <2>1, FailedStatus
<1>. HIDE DEF made
<1>2. /\ y.rank = r
      /\ \A a \in 0 .. r - 1 : /\ y.dim[a] = Accumulate(x0.dim[a], x1.dim[a])
                               /\ y.dim[a] # Mismatch
  <2>. DEFINE dims == [k \in 1 .. r |-> Accumulate(FromRight(x0, k - 1, r), FromRight(x1, k - 1, r))]
  <2>1. InferBroadcasted(x0, x1) = [ok |-> \A k \in 1 .. r : dims[k] # Mismatch, shape |-> ShapeOf(dims, 0)]
    BY <1>1 DEF InferBroadcasted
  <2>2. Len(dims) = r /\ \A k \in 1 .. r : dims[k] = Accumulate(FromRight(x0, k - 1, r), FromRight(x1, k - 1, r))
    BY <1>1
  <2>. HIDE DEF dims
  <2>3. y.rank = r /\ \A a \in 0 .. r - 1 : y.dim[a] = dims[a + 1] /\ a + 1 \in 1 .. r
    <3>1. again.shape.rank = r /\ \A a \in 0 .. r - 1 : again.shape.dim[a] = dims[a + 1] /\ a + 1 \in 1 .. r
      BY <1>1, <2>1, <2>2 DEF ShapeOf, Axes
    <3>. QED BY <1>3, <3>1
  <2>4. \A k \in 1 .. r : dims[k] # Mismatch
    BY <1>3, <2>1
  <2>5. \A a \in 0 .. r - 1 : FromRight(x0, a, r) = x0.dim[a] /\ FromRight(x1, a, r) = x1.dim[a]
    BY <1>1 DEF FromRight
  <2>6. ASSUME NEW a \in 0 .. r - 1
        PROVE  y.dim[a] = Accumulate(x0.dim[a], x1.dim[a]) /\ y.dim[a] # Mismatch
    <3>1. a + 1 \in 1 .. r /\ (a + 1) - 1 = a
      BY <1>1
    <3>. QED BY <2>2, <2>3, <2>4, <2>5, <3>1
  <2>. QED BY <2>3, <2>6
<1>4. /\ space.extents = [k \in 1 .. r |-> y.dim[k - 1]]
      /\ space.to[1] = Transform(y.rank, y.rank, WalkedAxes(y, y))
      /\ space.to[2] = Transform(x0.rank, y.rank, WalkedAxes(y, x0))
      /\ space.to[3] = Transform(x1.rank, y.rank, WalkedAxes(y, x1))
  BY <1>2, <1>3 DEF made
<1>5. \A a \in 0 .. r - 1 : y.dim[a] \in Nat /\ x0.dim[a] \in Nat /\ x1.dim[a] \in Nat
  <2>1. \A a \in 0 .. r - 1 : a \in Axes
    BY <1>1 DEF Axes
  <2>. QED BY <1>2, <2>1, AccumulatedDim DEF IsShape
<1>6. DOMAIN p = 1 .. r /\ p = [k \in 1 .. r |-> p[k]] /\ \A k \in 1 .. r : p[k] \in Int /\ p[k] >= 0 /\ p[k] < y.dim[k - 1]
  <2>. DEFINE ext == [k \in 1 .. r |-> y.dim[k - 1]]
  <2>1. DOMAIN ext = 1 .. r /\ \A k \in 1 .. r : ext[k] = y.dim[k - 1] /\ ext[k] \in Nat
    <3>1. \A k \in 1 .. r : k - 1 \in 0 .. r - 1
      BY <1>1
    <3>. QED BY <1>5, <3>1
  <2>2. p \in Points(ext)
    BY <1>4
  <2>. HIDE DEF ext
  <2>3. DOMAIN p = 1 .. r /\ p = [k \in 1 .. r |-> p[k]] /\ IsBelow(p, ext, r)
    BY <1>1, <2>1, <2>2, PlacesAreBelow
  <2>4. ASSUME NEW k \in 1 .. r PROVE p[k] \in Int /\ p[k] >= 0 /\ p[k] < y.dim[k - 1]
    <3>1. p[k] \in Nat /\ p[k] < ext[k]
      BY <2>3 DEF IsBelow
    <3>. QED BY <2>1, <3>1
  <2>. QED BY <2>3, <2>4
<1>7. ASSUME NEW x \in {x0, x1}, NEW t, t = Transform(x.rank, y.rank, WalkedAxes(y, x))
      PROVE  [row \in 1 .. r |-> Coordinate(t, row - 1, p)] = ElementOf(x, p)
  <2>1. ASSUME NEW row \in 1 .. r
        PROVE  Coordinate(t, row - 1, p) = IF x.dim[row - 1] = 1 THEN 0 ELSE p[row]
    <3>1. row - 1 \in 0 .. r - 1 /\ x.rank = r /\ (row - 1) + 1 = row
      BY <1>1, <1>7
    <3>2. Coordinate(t, row - 1, p) = IF x.dim[row - 1] = y.dim[row - 1] THEN p[row] ELSE 0
      <4>1. Coordinate(Transform(x.rank, y.rank, WalkedAxes(y, x)), row - 1, p) =
              IF x.dim[row - 1] = y.dim[row - 1] THEN p[(row - 1) + 1] ELSE 0
        <5>1. PICK i \in 0 .. r - 1 : i = row - 1
          BY <3>1
        <5>2. Coordinate(Transform(x.rank, y.rank, WalkedAxes(y, x)), i, p) = IF x.dim[i] = y.dim[i] THEN p[i + 1] ELSE 0
          <6>1. x.rank = r /\ y.rank = r /\ r \in Nat /\ \A k \in 1 .. r : p[k] \in Int
            BY <1>1, <1>2, <1>6, <3>1
          <6>. QED BY <6>1, WalkedCoordinate
        <5>. QED BY <5>1, <5>2
      <4>. QED BY <1>7, <3>1, <4>1
    <3>3. x.dim[row - 1] \in {y.dim[row - 1], 1}
      BY <1>2, <3>1, AccumulatedDim
    <3>4. p[row] \in Int /\ p[row] >= 0 /\ p[row] < y.dim[row - 1]
      BY <1>6
    <3>. QED BY <3>2, <3>3, <3>4
  <2>2. ElementOf(x, p) = [row \in 1 .. r |-> IF x.dim[row - 1] = 1 THEN 0 ELSE p[row]]
    BY <1>6 DEF ElementOf
  <2>. QED BY <2>1, <2>2
<1>8. [row \in 1 .. r |-> Coordinate(space.to[1], row - 1, p)] = p
  <2>1. ASSUME NEW row \in 1 .. r PROVE Coordinate(space.to[1], row - 1, p) = p[row]
    <3>1. row - 1 \in 0 .. r - 1 /\ (row - 1) + 1 = row
      BY <1>1
    <3>2. Coordinate(Transform(y.rank, y.rank, WalkedAxes(y, y)), row - 1, p) =
              IF y.dim[row - 1] = y.dim[row - 1] THEN p[(row - 1) + 1] ELSE 0
      <4>1. PICK i \in 0 .. r - 1 : i = row - 1
        BY <3>1
      <4>2. Coordinate(Transform(y.rank, y.rank, WalkedAxes(y, y)), i, p) = IF y.dim[i] = y.dim[i] THEN p[i + 1] ELSE 0
        <5>1. y.rank = r /\ r \in Nat /\ \A k \in 1 .. r : p[k] \in Int
          BY <1>1, <1>2, <1>6
        <5>. QED BY <5>1, WalkedCoordinate
      <4>. QED BY <4>1, <4>2
    <3>. QED BY <1>4, <3>1, <3>2
  <2>. QED BY <1>6, <2>1
<1>. QED BY <1>4, <1>6, <1>7, <1>8

-----------------------------------------------------------------------------
(* What the addresses of a symbol's elements are.                          *)

\* The strides of the last m - 1 axes, from the right, by the recursion of Strides.
IsRunOfStrides(g, shape, m) ==
  g = [n \in 1 .. m |-> IF n = 1 THEN 1 ELSE NextStride(shape, n - 1, g[n - 1])]

LEMMA RunOfStridesExists ==
  ASSUME NEW shape, NEW m \in Nat
  PROVE  \E g : IsRunOfStrides(g, shape, m)
<1>. DEFINE Exists(k) == \E g : IsRunOfStrides(g, shape, k)
            Bad == {k \in 0 .. m : ~Exists(k)}
<1>1. Exists(0)
  <2>1. IsRunOfStrides([n \in 1 .. 0 |-> 1], shape, 0)
    BY DEF IsRunOfStrides
  <2>. QED BY <2>1
<1>2. ASSUME NEW k \in Nat, Exists(k) PROVE Exists(k + 1)
  <2>1. PICK g : IsRunOfStrides(g, shape, k)
    BY <1>2
  <2>2. /\ DOMAIN g = 1 .. k
        /\ \A n \in 1 .. k : g[n] = IF n = 1 THEN 1 ELSE NextStride(shape, n - 1, g[n - 1])
    <3>. DEFINE V(n) == IF n = 1 THEN 1 ELSE NextStride(shape, n - 1, g[n - 1])
    <3>1. g = [n \in 1 .. k |-> V(n)]
      BY <2>1 DEF IsRunOfStrides
    <3>. HIDE DEF V
    <3>2. DOMAIN g = 1 .. k /\ \A n \in 1 .. k : g[n] = V(n)
      BY <3>1
    <3>. QED BY <3>2 DEF V
  <2>. DEFINE last == IF k + 1 = 1 THEN 1 ELSE NextStride(shape, k, g[k])
              h == [n \in 1 .. k + 1 |-> IF n = k + 1 THEN last ELSE g[n]]
              W(n) == IF n = 1 THEN 1 ELSE NextStride(shape, n - 1, h[n - 1])
  <2>3. ASSUME NEW n \in 1 .. k + 1 PROVE h[n] = W(n)
    <3>1. n # 1 => n - 1 \in 1 .. k /\ n - 1 \in 1 .. k + 1 /\ n - 1 # k + 1 /\ h[n - 1] = g[n - 1]
      OBVIOUS
    <3>2. CASE n = k + 1
      <4>1. h[n] = last /\ n - 1 = k /\ (n = 1 <=> k + 1 = 1)
        BY <3>2
      <4>. HIDE DEF h
      <4>. QED BY <3>1, <4>1
    <3>3. CASE n # k + 1
      <4>1. n \in 1 .. k /\ h[n] = g[n]
        BY <3>3
      <4>. HIDE DEF h
      <4>. QED BY <2>2, <3>1, <4>1
    <3>. QED BY <3>2, <3>3
  <2>4. h = [n \in 1 .. k + 1 |-> h[n]]
    OBVIOUS
  <2>. HIDE DEF h
  <2>5. h = [n \in 1 .. k + 1 |-> W(n)]
    <3>. HIDE DEF W
    <3>. QED BY <2>3, <2>4
  <2>6. IsRunOfStrides(h, shape, k + 1)
    BY <2>5 DEF IsRunOfStrides
  <2>. QED BY <2>6
<1>. HIDE DEF Exists
<1>3. Bad = {}
  <2>. SUFFICES ASSUME Bad # {} PROVE FALSE
    OBVIOUS
  <2>1. PICK k \in Bad : \A c \in Bad : k <= c
    <3>1. Bad \in SUBSET Nat
      OBVIOUS
    <3>. QED BY <3>1, LeastNat
  <2>2. k \in 0 .. m /\ k # 0
    BY <1>1, <2>1
  <2>3. k - 1 \in 0 .. m /\ k - 1 \notin Bad /\ (k - 1) + 1 = k /\ k - 1 \in Nat
    BY <2>1, <2>2
  <2>. QED BY <1>2, <2>1, <2>3
<1>4. m \in 0 .. m
  OBVIOUS
<1>. QED BY <1>3, <1>4 DEF Exists

\* What the strides are, from the last one on.
LEMMA StridesFollow ==
  ASSUME NEW shape, shape.rank \in Nat
  PROVE  /\ DOMAIN Strides(shape) = 1 .. shape.rank
         /\ shape.rank >= 1 => Strides(shape)[shape.rank] = 1
         /\ \A k \in 1 .. shape.rank - 1 :
              Strides(shape)[k] = NextStride(shape, shape.rank - k, Strides(shape)[k + 1])
<1>. DEFINE r == shape.rank
            run == CHOOSE g : IsRunOfStrides(g, shape, r + 1)
            s == Strides(shape)
<1>1. IsRunOfStrides(run, shape, r + 1)
  <2>1. r + 1 \in Nat
    OBVIOUS
  <2>. QED BY <2>1, RunOfStridesExists
<1>2. s = [k \in 1 .. r |-> run[r + 1 - k]]
  BY DEF Strides, IsRunOfStrides
<1>. HIDE DEF run
<1>3. \A n \in 1 .. r + 1 : run[n] = IF n = 1 THEN 1 ELSE NextStride(shape, n - 1, run[n - 1])
  <2>. DEFINE V(n) == IF n = 1 THEN 1 ELSE NextStride(shape, n - 1, run[n - 1])
  <2>1. run = [n \in 1 .. r + 1 |-> V(n)]
    BY <1>1 DEF IsRunOfStrides
  <2>. HIDE DEF V
  <2>2. \A n \in 1 .. r + 1 : run[n] = V(n)
    BY <2>1
  <2>. QED BY <2>2 DEF V
<1>4. DOMAIN s = 1 .. r /\ \A k \in 1 .. r : s[k] = run[r + 1 - k]
  BY <1>2
<1>. HIDE DEF s
<1>5. r >= 1 => s[r] = 1
  <2>. SUFFICES ASSUME r >= 1 PROVE s[r] = 1
    OBVIOUS
  <2>1. r \in 1 .. r /\ r + 1 - r = 1 /\ 1 \in 1 .. r + 1
    OBVIOUS
  <2>. QED BY <1>3, <1>4, <2>1
<1>6. ASSUME NEW k \in 1 .. r - 1 PROVE s[k] = NextStride(shape, r - k, s[k + 1])
  <2>1. PICK n : n = r + 1 - k
    OBVIOUS
  <2>2. n \in 1 .. r + 1 /\ n # 1 /\ n - 1 = r - k /\ n - 1 = r + 1 - (k + 1) /\ k \in 1 .. r /\ k + 1 \in 1 .. r
    BY <2>1
  <2>3. s[k] = run[n] /\ s[k + 1] = run[n - 1]
    BY <1>4, <2>1, <2>2
  <2>4. run[n] = NextStride(shape, n - 1, run[n - 1])
    BY <1>3, <2>2
  <2>. QED BY <2>2, <2>3, <2>4
<1>. QED BY <1>4, <1>5, <1>6 DEF s

LEMMA AlignedUp ==
  ASSUME NEW d \in Nat, NEW a \in Nat \ {0}
  PROVE  AlignUp(d, a) \in Nat /\ d <= AlignUp(d, a)
<1>. DEFINE z == (d + a - 1) \div a
<1>1. z \in Int /\ d + a - 1 = a * z + ((d + a - 1) % a) /\ (d + a - 1) % a \in 0 .. a - 1
  OBVIOUS
<1>2. AlignUp(d, a) = z * a
  BY DEF AlignUp
<1>. HIDE DEF z
<1>3. z * a = a * z /\ a * z \in Int
  BY <1>1
<1>. QED BY <1>1, <1>2, <1>3

\* Strides that fit make a base: each leaves room for what is to its right.
LEMMA StridesAreABase ==
  ASSUME NEW shape, IsShape(shape), StridesFit(shape), shape.rank # 0
  PROVE  IsBase(Strides(shape), [k \in 1 .. shape.rank |-> shape.dim[k - 1]], shape.rank)
<1>. DEFINE r == shape.rank
            s == Strides(shape)
            e == [k \in 1 .. r |-> shape.dim[k - 1]]
<1>1. r \in Nat \ {0} /\ r <= MaxRank /\ MaxRank \in Nat /\ Align \in Nat \ {0} /\ ByteSize \in Nat \ {0}
  BY ShapesAssumption DEF IsShape
<1>2. \A k \in 1 .. r : e[k] = shape.dim[k - 1] /\ e[k] \in Nat
  <2>1. \A k \in 1 .. r : k - 1 \in Axes
    BY <1>1 DEF Axes
  <2>. QED BY <1>1, <2>1 DEF IsShape
<1>3. s[r] = 1 /\ \A k \in 1 .. r - 1 : s[k] = NextStride(shape, r - k, s[k + 1])
  BY <1>1, StridesFollow
<1>4. \A k \in 1 .. r - 1 : (IF k = r - 1 THEN RowSize(shape) ELSE s[k + 1] * shape.dim[k]) < ByteSize
  BY DEF StridesFit
<1>. HIDE DEF s, e
<1>5. \A v \in Nat : v < ByteSize => v % ByteSize = v
  BY <1>1
<1>6. ASSUME NEW k \in 1 .. r - 1, s[k + 1] \in Nat
      PROVE  s[k] \in Nat /\ s[k + 1] * e[k + 1] <= s[k]
  <2>1. PICK d \in Nat, t \in Nat : d = shape.dim[k] /\ t = s[k + 1]
    <3>1. k + 1 \in 1 .. r /\ (k + 1) - 1 = k
      BY <1>1
    <3>. QED BY <1>2, <1>6, <3>1
  <2>2. e[k + 1] = d
    <3>1. k + 1 \in 1 .. r /\ (k + 1) - 1 = k
      BY <1>1
    <3>. QED BY <1>2, <2>1, <3>1
  <2>3. r - (r - k) = k /\ (r - k = 1 <=> k = r - 1) /\ (k = r - 1 => k + 1 = r)
    BY <1>1
  <2>4. s[k] = LET product == (t * d) % ByteSize
               IN IF k = r - 1 THEN AlignUp(product, Align) % ByteSize ELSE product
    BY <1>3, <2>1, <2>3 DEF NextStride
  <2>5. t * d \in Nat
    OBVIOUS
  <2>6. CASE k = r - 1
    <3>1. t = 1 /\ t * d = d
      BY <1>3, <2>1, <2>3, <2>6
    <3>2. AlignUp(d, Align) \in Nat /\ d <= AlignUp(d, Align)
      BY <1>1, AlignedUp
    <3>3. RowSize(shape) = AlignUp(d, Align)
      BY <2>1, <2>6 DEF RowSize
    <3>4. AlignUp(d, Align) < ByteSize
      BY <1>4, <2>6, <3>3
    <3>5. PICK u \in Nat : u = AlignUp(d, Align)
      BY <3>2
    <3>6. d < ByteSize /\ u < ByteSize
      BY <1>1, <3>2, <3>4, <3>5
    <3>7. d % ByteSize = d /\ u % ByteSize = u
      BY <1>5, <3>6
    <3>8. s[k] = u
      BY <2>4, <2>6, <3>1, <3>5, <3>7
    <3>. QED BY <2>1, <2>2, <3>1, <3>2, <3>5, <3>8
  <2>7. CASE k # r - 1
    <3>1. t * d < ByteSize
      BY <1>4, <2>1, <2>7
    <3>2. PICK v \in Nat : v = t * d
      BY <2>5
    <3>3. s[k] = v
      BY <1>5, <2>4, <2>7, <3>1, <3>2
    <3>. QED BY <2>1, <2>2, <3>2, <3>3
  <2>. QED BY <2>6, <2>7
<1>. DEFINE Bad == {d \in 0 .. r - 1 : s[r - d] \notin Nat}
<1>7. Bad = {}
  <2>. SUFFICES ASSUME Bad # {} PROVE FALSE
    OBVIOUS
  <2>1. PICK d \in Bad : \A c \in Bad : d <= c
    <3>1. Bad \in SUBSET Nat
      BY <1>1
    <3>. QED BY <3>1, LeastNat
  <2>2. d \in 0 .. r - 1 /\ s[r - d] \notin Nat
    BY <2>1
  <2>3. d # 0
    <3>1. r - 0 = r
      BY <1>1
    <3>. QED BY <1>3, <2>2, <3>1
  <2>4. d - 1 \in 0 .. r - 1 /\ d - 1 \notin Bad /\ r - d \in 1 .. r - 1 /\ r - (d - 1) = (r - d) + 1
    BY <1>1, <2>1, <2>2, <2>3
  <2>. QED BY <1>6, <2>2, <2>4
<1>8. ASSUME NEW k \in 1 .. r PROVE s[k] \in Nat
  <2>1. r - k \in 0 .. r - 1 /\ r - (r - k) = k
    BY <1>1
  <2>. QED BY <1>7, <2>1
<1>9. \A k \in 1 .. r - 1 : s[k + 1] * e[k + 1] <= s[k]
  <2>1. \A k \in 1 .. r - 1 : k + 1 \in 1 .. r
    BY <1>1
  <2>. QED BY <1>6, <1>8, <2>1
<1>10. IsBase(s, e, r)
  BY <1>2, <1>3, <1>8, <1>9 DEF IsBase
<1>. QED BY <1>10 DEF s, e

LEMMA ElementsHaveTheirAddresses ==
  ASSUME NEW shape, IsShape(shape), StridesFit(shape),
         NEW p \in Points([k \in 1 .. shape.rank |-> shape.dim[k - 1]]),
         NEW q \in Points([k \in 1 .. shape.rank |-> shape.dim[k - 1]]),
         AddressOf(Strides(shape), p) = AddressOf(Strides(shape), q)
  PROVE  p = q
<1>. DEFINE r == shape.rank
            s == Strides(shape)
            e == [k \in 1 .. r |-> shape.dim[k - 1]]
<1>1. r \in Nat /\ r <= MaxRank /\ MaxRank \in Nat
  BY RankIsPositive DEF IsShape
<1>2. DOMAIN e = 1 .. r /\ \A k \in 1 .. r : e[k] \in Nat
  <2>1. \A k \in 1 .. r : k - 1 \in Axes
    BY <1>1 DEF Axes
  <2>. QED BY <1>1, <2>1 DEF IsShape
<1>3. r # 0 => IsBase(s, e, r)
  BY StridesAreABase
<1>4. DOMAIN s = 1 .. r
  BY <1>1, StridesFollow
<1>5. PICK f, g : /\ f = [k \in 1 .. r |-> s[k] * p[k]]
                  /\ g = [k \in 1 .. r |-> s[k] * q[k]]
  OBVIOUS
<1>6. SumFunctionOnSet(f, 1 .. r) = SumFunctionOnSet(g, 1 .. r)
  <2>1. AddressOf(s, p) = SumFunction(f) /\ AddressOf(s, q) = SumFunction(g)
    BY <1>4, <1>5 DEF AddressOf
  <2>2. DOMAIN f = 1 .. r /\ DOMAIN g = 1 .. r
    BY <1>5
  <2>. QED BY <2>1, <2>2 DEF SumFunction
<1>7. p \in Points(e) /\ q \in Points(e)
  OBVIOUS
<1>. HIDE DEF s, e
<1>8. /\ p = [k \in 1 .. r |-> p[k]] /\ IsBelow(p, e, r)
      /\ q = [k \in 1 .. r |-> q[k]] /\ IsBelow(q, e, r)
  BY <1>1, <1>2, <1>7, PlacesAreBelow
<1>9. \A k \in 1 .. r : p[k] = q[k]
  <2>1. CASE r = 0
    BY <2>1
  <2>2. CASE r # 0
    <3>1. r \in Nat \ {0} /\ IsBase(s, e, r)
      BY <1>1, <1>3, <2>2
    <3>2. IsBelow(p, e, r) /\ IsBelow(q, e, r)
      BY <1>8
    <3>3. \A k \in 1 .. r : f[k] = s[k] * p[k] /\ g[k] = s[k] * q[k]
      BY <1>5
    <3>. QED BY <1>6, <3>1, <3>2, <3>3, DigitsAreUnique, SMTT(30)
  <2>. QED BY <2>1, <2>2
<1>. QED BY <1>8, <1>9

-----------------------------------------------------------------------------
(* The shapes in the table.                                                *)

LEMMA ShapeOfIsShape ==
  ASSUME NEW dims \in Seq(Nat), Len(dims) <= MaxRank, NEW rest \in Nat
  PROVE  IsShape(ShapeOf(dims, rest))
<1>1. MaxRank \in Nat /\ Len(dims) \in Nat
  BY RankIsPositive
<1>2. ASSUME NEW a \in Axes PROVE (IF a < Len(dims) THEN dims[a + 1] ELSE rest) \in Nat
  <2>1. a < Len(dims) => a + 1 \in DOMAIN dims
    BY <1>1 DEF Axes
  <2>. QED BY <2>1
<1>3. ShapeOf(dims, rest).rank = Len(dims) /\ \A a \in Axes : ShapeOf(dims, rest).dim[a] = IF a < Len(dims) THEN dims[a + 1] ELSE rest
  BY DEF ShapeOf
<1>4. Len(dims) \in 0 .. MaxRank
  BY <1>1
<1>. QED BY <1>2, <1>3, <1>4 DEF IsShape

LEMMA ParamIsShape ==
  ASSUME IsCode, NEW k \in DOMAIN insts, insts[k].call.opcode = "Param"
  PROVE  /\ IsShape(ParamCopied(insts[k].call.meta))
         /\ insts[k].call.meta.rank < MaxRank => ParamCopied(insts[k].call.meta) = insts[k].call.meta
<1>. DEFINE shape == insts[k].call.meta
<1>1. PICK dims \in ParamShapes : shape = ShapeOf(dims, 0)
  <2>1. insts[k] \in Insts
    BY DEF IsCode
  <2>2. insts[k].call \in Calls
    BY <2>1 DEF Insts
  <2>. QED BY <2>2, CallFields
<1>2. dims \in Seq(Nat) /\ Len(dims) <= MaxRank /\ Len(dims) \in Nat /\ MaxRank \in Nat
  BY LExprAssumption, RankIsPositive
<1>3. IsShape(shape)
  BY <1>1, <1>2, ShapeOfIsShape
<1>4. /\ ParamCopied(shape).rank = shape.rank
      /\ \A a \in Axes : ParamCopied(shape).dim[a] = IF a + 1 < MaxRank THEN shape.dim[a] ELSE 0
  BY DEF ParamCopied
<1>5. ASSUME shape.rank < MaxRank PROVE ParamCopied(shape) = shape
  <2>. DEFINE d == [a \in Axes |-> IF a < Len(dims) THEN dims[a + 1] ELSE 0]
              c == [a \in Axes |-> IF a + 1 < MaxRank THEN d[a] ELSE 0]
  <2>1. shape = [rank |-> Len(dims), dim |-> d] /\ shape.dim = d /\ shape.rank = Len(dims)
    BY <1>1 DEF ShapeOf
  <2>2. ASSUME NEW a \in Axes PROVE c[a] = d[a]
    <3>1. a + 1 < MaxRank \/ ~(a < Len(dims))
      BY <1>2, <1>5, <2>1 DEF Axes
    <3>. QED BY <3>1
  <2>3. c = d
    BY <2>2
  <2>4. ParamCopied(shape) = [rank |-> Len(dims), dim |-> c]
    <3>. HIDE DEF d
    <3>. QED BY <2>1 DEF ParamCopied
  <2>. HIDE DEF d, c, shape
  <2>. QED BY <2>1, <2>3, <2>4
<1>6. IsShape(ParamCopied(shape))
  <2>. HIDE DEF shape
  <2>. QED BY <1>3, <1>4 DEF IsShape
<1>. QED BY <1>5, <1>6

LEMMA BroadcastedIsShape ==
  ASSUME NEW x0, NEW x1, IsShape(x0), IsShape(x1), InferBroadcasted(x0, x1).ok
  PROVE  IsShape(InferBroadcasted(x0, x1).shape)
<1>. DEFINE rank == Larger(x0.rank, x1.rank)
            dims == [k \in 1 .. rank |-> Accumulate(FromRight(x0, k - 1, rank), FromRight(x1, k - 1, rank))]
<1>1. /\ rank \in Nat /\ rank <= MaxRank /\ MaxRank \in Nat
      /\ x0.rank <= rank /\ x1.rank <= rank
  BY RankIsPositive DEF Larger, IsShape
<1>2. InferBroadcasted(x0, x1) = [ok |-> \A k \in 1 .. rank : dims[k] # Mismatch, shape |-> ShapeOf(dims, 0)]
  BY DEF InferBroadcasted
<1>. HIDE DEF rank
<1>3. ASSUME NEW x, IsShape(x), x.rank <= rank, NEW k \in 1 .. rank PROVE FromRight(x, k - 1, rank) \in Nat
  <2>1. x.rank \in Nat /\ x.rank <= MaxRank
    BY <1>1, <1>3 DEF IsShape
  <2>2. CASE k - 1 >= rank - x.rank
    <3>1. (k - 1) - (rank - x.rank) \in Axes
      BY <1>1, <2>1, <2>2 DEF Axes
    <3>. QED BY <1>3, <2>2, <3>1 DEF FromRight, IsShape
  <2>3. CASE ~(k - 1 >= rank - x.rank)
    BY <2>3 DEF FromRight
  <2>. QED BY <2>2, <2>3
<1>4. ASSUME NEW k \in 1 .. rank PROVE dims[k] \in Nat
  <2>1. FromRight(x0, k - 1, rank) \in Nat /\ FromRight(x1, k - 1, rank) \in Nat
    BY <1>1, <1>3
  <2>2. dims[k] # Mismatch
    BY <1>2
  <2>3. dims[k] = Accumulate(FromRight(x0, k - 1, rank), FromRight(x1, k - 1, rank))
    OBVIOUS
  <2>. QED BY <2>1, <2>2, <2>3, AccumulatedDim
<1>5. Len(dims) = rank /\ DOMAIN dims = 1 .. rank /\ dims = [k \in 1 .. rank |-> dims[k]]
  BY <1>1
<1>. HIDE DEF dims
<1>6. dims \in Seq(Nat)
  <2>1. dims \in [1 .. rank -> Nat]
    BY <1>4, <1>5
  <2>. QED BY <1>1, <2>1
<1>7. IsShape(ShapeOf(dims, 0))
  BY <1>1, <1>5, <1>6, ShapeOfIsShape
<1>. QED BY <1>2, <1>7

LEMMA UptoValues ==
  ASSUME NEW low \in Int, NEW high \in Int
  PROVE  /\ Len(Upto(low, high)) \in Nat /\ DOMAIN Upto(low, high) = 1 .. Len(Upto(low, high))
         /\ \A k \in DOMAIN Upto(low, high) : Upto(low, high)[k] \in low .. high - 1
<1>. DEFINE n == Larger(high - low, 0)
            u == [k \in 1 .. n |-> low + k - 1]
<1>1. n \in Nat /\ (n = high - low \/ n = 0)
  BY DEF Larger
<1>2. Upto(low, high) = u
  BY DEF Upto
<1>. HIDE DEF n
<1>3. Len(u) = n /\ DOMAIN u = 1 .. n /\ \A k \in 1 .. n : u[k] = low + k - 1
  BY <1>1
<1>. HIDE DEF u
<1>4. \A k \in 1 .. n : low + k - 1 \in low .. high - 1
  BY <1>1
<1>. QED BY <1>1, <1>2, <1>3, <1>4

LEMMA ContractedDimsAreDims ==
  ASSUME NEW x0, NEW x1, IsShape(x0), IsShape(x1), NEW nc \in Nat, NEW nb \in Nat
  PROVE  ContractedDims(x0, x1, nc, nb) \in Seq(Nat)
<1>. DEFINE kept == KeptAxes(x0, nc, nb)
            free == Upto(nc + nb, x1.rank)
            n == Len(free)
            a == [k \in 1 .. Len(kept) |-> x0.dim[kept[k]]]
            b == [k \in 1 .. n |-> x1.dim[free[n + 1 - k]]]
<1>1. /\ x0.rank \in Nat /\ x0.rank <= MaxRank /\ x1.rank \in Nat /\ x1.rank <= MaxRank
      /\ MaxRank \in Nat
  BY RankIsPositive DEF IsShape
<1>2. ContractedDims(x0, x1, nc, nb) = a \o b
  BY DEF ContractedDims
<1>3. /\ Len(kept) \in Nat /\ DOMAIN kept = 1 .. Len(kept)
      /\ \A k \in DOMAIN kept : kept[k] \in nb .. (x0.rank - nc) - 1
  <2>1. nb \in Int /\ x0.rank - nc \in Int
    BY <1>1
  <2>2. kept = Upto(nb, x0.rank - nc)
    BY DEF KeptAxes
  <2>. HIDE DEF kept
  <2>. QED BY <2>1, <2>2, UptoValues
<1>4. /\ n \in Nat /\ DOMAIN free = 1 .. n
      /\ \A k \in DOMAIN free : free[k] \in nc + nb .. x1.rank - 1
  <2>1. nc + nb \in Int /\ x1.rank \in Int
    BY <1>1
  <2>. HIDE DEF free
  <2>2. free = Upto(nc + nb, x1.rank)
    BY DEF free
  <2>. QED BY <2>1, <2>2, UptoValues
<1>. HIDE DEF kept, free
<1>5. ASSUME NEW k \in 1 .. Len(kept) PROVE x0.dim[kept[k]] \in Nat
  <2>1. kept[k] \in Axes
    BY <1>1, <1>3 DEF Axes
  <2>. QED BY <2>1 DEF IsShape
<1>6. ASSUME NEW k \in 1 .. n PROVE x1.dim[free[n + 1 - k]] \in Nat
  <2>1. n + 1 - k \in DOMAIN free
    BY <1>4
  <2>2. free[n + 1 - k] \in Axes
    BY <1>1, <1>4, <2>1 DEF Axes
  <2>. QED BY <2>2 DEF IsShape
<1>7. a \in Seq(Nat) /\ b \in Seq(Nat)
  <2>1. a \in [1 .. Len(kept) -> Nat]
    BY <1>5
  <2>2. b \in [1 .. n -> Nat]
    BY <1>6
  <2>3. \A m \in Nat : \A f \in [1 .. m -> Nat] : f \in Seq(Nat)
    OBVIOUS
  <2>4. PICK m \in Nat, l \in Nat : m = Len(kept) /\ l = n
    BY <1>3, <1>4
  <2>. HIDE DEF a, b
  <2>5. a \in [1 .. m -> Nat] /\ b \in [1 .. l -> Nat]
    BY <2>1, <2>2, <2>4
  <2>. QED BY <2>3, <2>5
<1>. HIDE DEF a, b
<1>. QED BY <1>2, <1>7

\* An operand without a shape has no room for the entries of any axis.
LEMMA NilHasNoRoom ==
  ASSUME NEW y, y.rank \in Nat, NEW x0, NEW x1, x0 = NilShape \/ x1 = NilShape,
         BroadcastedSpace(y, x0, x1).status = "ok"
  PROVE  DOMAIN BroadcastedSpace(y, x0, x1).extents = {}
<1>. DEFINE made == [status |-> "ok",
                     extents |-> [k \in 1 .. y.rank |-> y.dim[k - 1]],
                     to |-> <<Transform(y.rank, y.rank, WalkedAxes(y, y)),
                              Transform(x0.rank, y.rank, WalkedAxes(y, x0)),
                              Transform(x1.rank, y.rank, WalkedAxes(y, x1))>>]
            Room(x) == \A a \in 0 .. y.rank - 1 : Place(a, x.rank) < (y.rank + 1) * x.rank
<1>1. BroadcastedSpace(y, x0, x1) = made /\ Room(x0) /\ Room(x1)
  <2>1. \/ BroadcastedSpace(y, x0, x1) \in {Failed("todo"), Failed("aborted"), Failed("overrun")}
        \/ BroadcastedSpace(y, x0, x1) = made /\ Room(x0) /\ Room(x1)
    BY DEF BroadcastedSpace
  <2>. QED BY <2>1, FailedStatus
<1>2. NilShape.rank = 0
  BY DEF NilShape, ShapeOf
<1>3. y.rank = 0
  <2>. SUFFICES ASSUME y.rank # 0 PROVE FALSE
    OBVIOUS
  <2>1. 0 \in 0 .. y.rank - 1
    OBVIOUS
  <2>2. Place(0, 0) < (y.rank + 1) * 0
    BY <1>1, <1>2, <2>1
  <2>3. Place(0, 0) = 0 /\ (y.rank + 1) * 0 = 0
    BY DEF Place
  <2>. QED BY <2>2, <2>3
<1>4. made.extents = [k \in 1 .. y.rank |-> y.dim[k - 1]]
  OBVIOUS
<1>. HIDE DEF made
<1>5. 1 .. y.rank = {}
  BY <1>3
<1>. QED BY <1>1, <1>4, <1>5

\* What was made for the k-th instruction, a sum: no loops, or those that follow
\* from the shapes of its operands, its own symbol possibly among them, which
\* still are what they were when the space was made.
SumStands(k) ==
  LET x0 == insts[k].call.x0
      x1 == insts[k].call.x1
  IN \/ DOMAIN spaces[k].extents = {}
     \/ /\ x0 <= k /\ x1 <= k
        /\ spaces[k] = BroadcastedSpace(symtab[k], symtab[x0], symtab[x1])
        /\ spaces[k].status = "ok"

\* What the table holds of the first n instructions.
TableOf(n) ==
  /\ \A id \in Symbols : id > n => symtab[id] = NilShape
  /\ \A k \in 1 .. n :
       /\ insts[k].call.opcode = "Param" => symtab[k] = ParamCopied(insts[k].call.meta)
       /\ insts[k].call.opcode = "Add" => SumStands(k)

MeetInv ==
  /\ mode \in {"shapes", "addresses"} => \A id \in Symbols : IsShape(symtab[id])
  /\ mode = "shapes" => TableOf(at - 1)
  /\ mode = "addresses" => \A n \in DOMAIN addresses : addresses[n] = Strides(symtab[n - 1])

LEMMA NilIsShape == IsShape(NilShape) /\ NilShape.rank = 0
<1>1. <<>> \in Seq(Nat) /\ Len(<<>>) = 0
  OBVIOUS
<1>2. Len(<<>>) <= MaxRank
  BY <1>1, RankIsPositive
<1>3. IsShape(ShapeOf(<<>>, 0))
  BY <1>1, <1>2, ShapeOfIsShape
<1>. QED BY <1>3 DEF NilShape, ShapeOf

\* What is known in a round of the loop over the instructions.
LEMMA InRound ==
  ASSUME IsCode, LoopInv, mode = "shapes", at <= Len(insts)
  PROVE  /\ at \in DOMAIN insts /\ inst = insts[at] /\ inst.y = at /\ at \in Symbols
         /\ inst.call.x0 \in Symbols /\ inst.call.x1 \in Symbols
         /\ DOMAIN symtab = Symbols /\ Len(insts) \in Nat /\ DOMAIN insts = 1 .. Len(insts)
         /\ Symbols = 0 .. Len(insts)
         /\ DOMAIN spaces = 1 .. at - 1 /\ IsSeq(spaces) /\ Len(spaces) = at - 1 /\ at \in Nat
         /\ insts[at] \in Insts /\ inst.call \in Calls
<1>1. /\ at \in Nat /\ at >= 1 /\ IsSeq(spaces) /\ Len(spaces) = at - 1 /\ DOMAIN symtab = Symbols
  BY DEF LoopInv, RoundsOK, TablesOK, Phases
<1>2. DOMAIN insts = 1 .. Len(insts) /\ Len(insts) \in Nat /\ at \in DOMAIN insts
  BY <1>1 DEF IsCode
<1>3. inst = insts[at] /\ inst.y = at /\ insts[at] \in Insts
  BY <1>2 DEF inst, IsCode
<1>4. Symbols = 0 .. Len(insts)
  BY DEF Symbols, IsCode
<1>5. inst.call.x0 \in 0 .. Len(insts) /\ inst.call.x1 \in 0 .. Len(insts)
  BY <1>2, <1>3 DEF IsCode
<1>6. DOMAIN spaces = 1 .. Len(spaces)
  BY <1>1, AppendIsSeq
<1>7. inst.call \in Calls
  BY <1>3 DEF Insts
<1>. QED BY <1>1, <1>2, <1>3, <1>4, <1>5, <1>6, <1>7

\* The shape of the round's symbol is put down, and the space made for it.
LEMMA ShapeTakenMeets ==
  ASSUME IsCode, LoopInv, MeetInv, mode = "shapes", at <= Len(insts),
         UNCHANGED <<mode, lexpr>>, at' = at + 1,
         NEW shape, IsShape(shape), symtab' = [symtab EXCEPT ![inst.y] = shape],
         NEW space, spaces' = Append(spaces, space),
         inst.call.opcode = "Param" => shape = ParamCopied(inst.call.meta),
         inst.call.opcode = "Add" =>
           \/ DOMAIN space.extents = {}
           \/ inst.call.x0 <= at /\ inst.call.x1 <= at /\ space = SumSpace(shape) /\ space.status = "ok"
  PROVE  MeetInv'
<1>1. /\ at \in DOMAIN insts /\ inst = insts[at] /\ inst.y = at /\ at \in Symbols
      /\ DOMAIN symtab = Symbols /\ Len(insts) \in Nat /\ DOMAIN insts = 1 .. Len(insts)
      /\ Symbols = 0 .. Len(insts) /\ at \in Nat
  BY InRound
<1>2. insts' = insts /\ Symbols' = Symbols
  BY DEF insts, Symbols
<1>3. spaces'[at] = space /\ \A k \in 1 .. at - 1 : spaces'[k] = spaces[k]
  <2>1. DOMAIN spaces = 1 .. at - 1 /\ IsSeq(spaces) /\ Len(spaces) = at - 1 /\ (at - 1) + 1 = at
    BY InRound, <1>1
  <2>2. spaces'[Len(spaces) + 1] = space /\ \A k \in DOMAIN spaces : spaces'[k] = spaces[k]
    BY <2>1, AppendIsSeq
  <2>. QED BY <2>1, <2>2
<1>4. symtab'[at] = shape /\ \A id \in Symbols : id # at => symtab'[id] = symtab[id]
  <2>1. symtab' = [symtab EXCEPT ![at] = shape]
    BY <1>1
  <2>. QED BY <1>1, <2>1
<1>5. \A id \in Symbols : IsShape(symtab'[id])
  BY <1>4 DEF MeetInv
<1>6. TableOf(at - 1)
  BY DEF MeetInv
<1>7. \A id \in Symbols : id > at => symtab'[id] = NilShape
  BY <1>1, <1>4, <1>6 DEF TableOf
<1>8. ASSUME NEW k \in 1 .. at, insts[k].call.opcode = "Param"
      PROVE  symtab'[k] = ParamCopied(insts[k].call.meta)
  <2>1. CASE k = at
    BY <1>1, <1>4, <1>8, <2>1
  <2>2. CASE k # at
    <3>1. k \in 1 .. at - 1 /\ k \in Symbols
      BY <1>1, <2>2
    <3>. QED BY <1>4, <1>6, <1>8, <2>2, <3>1 DEF TableOf
  <2>. QED BY <2>1, <2>2
<1>9. ASSUME NEW k \in 1 .. at, insts[k].call.opcode = "Add"
      PROVE  SumStands(k)'
  <2>. DEFINE x0 == insts[k].call.x0
              x1 == insts[k].call.x1
  <2>1. x0 \in Symbols /\ x1 \in Symbols /\ x0 \in Nat /\ x1 \in Nat
    BY <1>1 DEF IsCode
  <2>2. k # at /\ x0 <= k /\ x1 <= k => symtab'[x0] = symtab[x0] /\ symtab'[x1] = symtab[x1] /\ symtab'[k] = symtab[k]
    BY <1>1, <1>4, <2>1
  <2>3. CASE k = at
    <3>1. spaces'[k] = space /\ symtab'[k] = shape /\ inst.call.x0 = x0 /\ inst.call.x1 = x1 /\ symtab' = Written(shape)
      BY <1>1, <1>3, <1>4, <2>3 DEF Written
    <3>2. \/ DOMAIN space.extents = {}
          \/ /\ x0 <= k /\ x1 <= k /\ space.status = "ok"
             /\ space = BroadcastedSpace(shape, symtab'[x0], symtab'[x1])
      BY <1>1, <1>9, <2>3, <3>1 DEF SumSpace
    <3>. QED BY <1>2, <3>1, <3>2 DEF SumStands
  <2>4. CASE k # at
    <3>1. k \in 1 .. at - 1
      BY <1>1, <2>4
    <3>2. SumStands(k) /\ spaces'[k] = spaces[k]
      BY <1>3, <1>6, <1>9, <3>1 DEF TableOf
    <3>. QED BY <1>2, <2>2, <2>4, <3>2 DEF SumStands
  <2>. QED BY <2>3, <2>4
<1>10. at' - 1 = at
  BY <1>1
<1>11. TableOf(at - 1)'
  BY <1>2, <1>7, <1>8, <1>9, <1>10 DEF TableOf
<1>. QED BY <1>2, <1>5, <1>11 DEF MeetInv

LEMMA SumTakenMeets ==
  ASSUME IsCode, LoopInv, MeetInv, InferSum, mode' = "shapes"
  PROVE  MeetInv'
<1>. DEFINE y == InferBroadcasted(x0_shape, x1_shape)
            space == SumSpace(y.shape)
<1>1. /\ mode = "shapes" /\ at <= Len(insts) /\ inst.call.opcode = "Add" /\ UNCHANGED lexpr
      /\ IF y.ok THEN TakeSpace(y.shape, space) ELSE ReportError(Invalid) /\ Return("ShapeMismatch")
  BY DEF InferSum, builtVars
<1>2. y.ok /\ TakeSpace(y.shape, space)
  BY <1>1 DEF Return, Leave
<1>3. IsShape(x0_shape) /\ IsShape(x1_shape)
  BY <1>1, InRound DEF MeetInv, x0_shape, x1_shape
<1>4. IsShape(y.shape)
  BY <1>2, <1>3, BroadcastedIsShape
<1>5. space.status \in {"ok", "todo", "aborted", "overrun"}
  BY SpaceStatus
<1>. HIDE DEF space
<1>6. /\ space.status = "ok" /\ symtab' = [symtab EXCEPT ![inst.y] = y.shape]
      /\ spaces' = Append(spaces, space) /\ at' = at + 1 /\ mode' = mode
  BY <1>1, <1>2, <1>5 DEF TakeSpace, Stop, Written
<1>7. ASSUME ~(inst.call.x0 <= at /\ inst.call.x1 <= at)
      PROVE  DOMAIN space.extents = {}
  <2>1. \A id \in Symbols : id > at => symtab[id] = NilShape /\ Written(y.shape)[id] = symtab[id]
    <3>1. \A id \in Symbols : id > at - 1 => symtab[id] = NilShape
      BY <1>1 DEF MeetInv, TableOf
    <3>. QED BY <1>1, <3>1, InRound DEF Written
  <2>2. PICK sh, a, b : sh = y.shape /\ a = Written(y.shape)[inst.call.x0] /\ b = Written(y.shape)[inst.call.x1]
    OBVIOUS
  <2>3. a = NilShape \/ b = NilShape
    BY <1>1, <1>7, <2>1, <2>2, InRound
  <2>4. sh.rank \in Nat
    BY <1>4, <2>2 DEF IsShape
  <2>5. space = BroadcastedSpace(sh, a, b)
    BY <2>2 DEF space, SumSpace
  <2>6. DOMAIN BroadcastedSpace(sh, a, b).extents = {}
    BY <1>6, <2>3, <2>4, <2>5, NilHasNoRoom
  <2>. QED BY <2>5, <2>6
<1>8. PICK sh, sp : sh = y.shape /\ sp = space
  OBVIOUS
<1>9. \/ DOMAIN sp.extents = {}
      \/ inst.call.x0 <= at /\ inst.call.x1 <= at /\ sp = SumSpace(sh) /\ sp.status = "ok"
  BY <1>6, <1>7, <1>8 DEF space
<1>10. /\ IsShape(sh) /\ symtab' = [symtab EXCEPT ![inst.y] = sh]
       /\ spaces' = Append(spaces, sp)
       /\ inst.call.opcode # "Param"
  BY <1>1, <1>4, <1>6, <1>8
<1>. QED BY <1>1, <1>6, <1>9, <1>10, ShapeTakenMeets

LEMMA ContractionTakenMeets ==
  ASSUME IsCode, LoopInv, MeetInv, InferContraction, mode' = "shapes"
  PROVE  MeetInv'
<1>. DEFINE nc == inst.call.meta[1]
            nb == inst.call.meta[2]
            dims == ContractedDims(x0_shape, x1_shape, nc, nb)
<1>1. /\ mode = "shapes" /\ at <= Len(insts) /\ inst.call.opcode = "Contract" /\ UNCHANGED lexpr
      /\ \/ ReturnWith(Invalid) \/ Stop("overrun")
         \/ ~(Len(dims) > MaxRank) /\ \E rest \in {0, 2} :
              TakeSpace(ShapeOf(dims, rest), ContractionSpace(ShapeOf(dims, rest)))
  <2>. DEFINE Takes == \E rest \in {0, 2} :
              TakeSpace(ShapeOf(dims, rest), ContractionSpace(ShapeOf(dims, rest)))
              far == Len(dims) > MaxRank
  <2>1. /\ mode = "shapes" /\ at <= Len(insts) /\ inst.call.opcode = "Contract"
        /\ IF ~CanContract(x0_shape, x1_shape, nc, nb) THEN ReturnWith(Invalid)
           ELSE IF far THEN Stop("overrun") ELSE Takes
    BY Zenon DEF InferContraction
  <2>2. UNCHANGED lexpr
    BY DEF InferContraction, builtVars
  <2>. HIDE DEF Takes
  <2>3. ReturnWith(Invalid) \/ Stop("overrun") \/ (~far /\ Takes)
    BY <2>1
  <2>. QED BY <2>1, <2>2, <2>3 DEF Takes
<1>2. IsShape(x0_shape) /\ IsShape(x1_shape)
  BY <1>1, InRound DEF MeetInv, x0_shape, x1_shape
<1>3. inst.call.meta \in Nat \X Nat
  <2>1. inst.call \in Calls /\ inst.call.opcode = "Contract"
    BY <1>1, InRound
  <2>2. PICK x0 \in Operands, x1 \in Operands : inst.call \in Operations(x0, x1)
    BY <2>1 DEF Calls, Param
  <2>3. PICK counts \in Contractions : inst.call = Contract(x0, x1, counts)
    BY <2>1, <2>2 DEF Operations, Add
  <2>. QED BY <2>3, LExprAssumption DEF Contract
<1>4. dims \in Seq(Nat)
  <2>1. nc \in Nat /\ nb \in Nat
    BY <1>3
  <2>. QED BY <1>2, <2>1, ContractedDimsAreDims
<1>. HIDE DEF nc, nb, dims
<1>5. ~ReturnWith(Invalid) /\ ~Stop("overrun")
  BY DEF ReturnWith, Return, Leave, Stop
<1>6. PICK rest \in {0, 2} : TakeSpace(ShapeOf(dims, rest), ContractionSpace(ShapeOf(dims, rest)))
  BY <1>1, <1>5
<1>7. PICK sh, sp : sh = ShapeOf(dims, rest) /\ sp = ContractionSpace(ShapeOf(dims, rest))
  OBVIOUS
<1>8. IsShape(sh)
  <2>1. Len(dims) <= MaxRank
    <3>1. Len(dims) \in Nat /\ ~(Len(dims) > MaxRank)
      BY <1>1, <1>4, <1>5
    <3>. QED BY <3>1, RankIsPositive
  <2>. QED BY <1>4, <1>7, <2>1, ShapeOfIsShape
<1>9. sp.status \in {"ok", "todo", "aborted", "overrun"}
  BY <1>7, SpaceStatus
<1>10. TakeSpace(sh, sp)
  BY <1>6, <1>7
<1>11. /\ symtab' = [symtab EXCEPT ![inst.y] = sh]
       /\ spaces' = Append(spaces, sp) /\ at' = at + 1 /\ mode' = mode
  BY <1>1, <1>9, <1>10 DEF TakeSpace, Stop, Written
<1>. QED BY <1>1, <1>8, <1>11, ShapeTakenMeets

LEMMA LowerKeepsMeet ==
  ASSUME BuilderInv, LoopInv, MeetInv, LowerStep
  PROVE  MeetInv'
<1>1. /\ lexpr' = lexpr /\ IsCode /\ insts' = insts
      /\ mode \in {"finished"} \union Phases
  <2>1. mode \in WithExpr /\ lexpr' = lexpr
    BY RoundFrame, ExprIsThere DEF builtVars, WithExpr
  <2>. QED BY <2>1, RoundFrame, ExprIsThere, CodeIsSound DEF insts
<1>2. Symbols' = Symbols
  BY <1>1 DEF Symbols
<1>3. ASSUME mode' \notin {"shapes", "addresses"} PROVE MeetInv'
  BY <1>3 DEF MeetInv
<1>4. CASE Lower \/ LowerNothing \/ ValidateParams \/ BitVectorFails \/ IsValidated \/ TablesFail \/ AddressFails \/ IsLowered \/ SpaceFails
  BY <1>3, <1>4 DEF Lower, LowerNothing, builderVars, ValidateParams, BitVectorFails, IsValidated, TablesFail, AddressFails, IsLowered,
     SpaceFails, GoTo, ReturnWith, Return, Leave, Stop
<1>5. CASE ValidateScope
  BY <1>3, <1>5 DEF ValidateScope, Leave
<1>6. CASE BeginText \/ WriteLoops
  BY <1>3, <1>6 DEF BeginText, WriteLoops, Stop
<1>7. CASE MakeTables
  <2>1. mode' = "shapes" /\ at' = 1 /\ symtab' = [id \in Symbols |-> NilShape]
    BY <1>7 DEF MakeTables, GoTo
  <2>2. \A id \in Symbols : symtab'[id] = NilShape
    BY <2>1
  <2>3. at' - 1 = 0 /\ 1 .. 0 = {}
    BY <2>1
  <2>4. TableOf(at - 1)'
    BY <1>2, <2>2, <2>3 DEF TableOf
  <2>. QED BY <1>2, <2>1, <2>2, <2>4, NilIsShape DEF MeetInv
<1>8. CASE TakeParam
  <2>1. /\ mode = "shapes" /\ mode' = mode /\ at <= Len(insts) /\ inst.call.opcode = "Param" /\ at' = at + 1
        /\ symtab' = [symtab EXCEPT ![inst.y] = ParamCopied(inst.call.meta)] /\ spaces' = Append(spaces, NoSpace)
    BY <1>8 DEF TakeParam, NoSpaceOf
  <2>2. IsShape(ParamCopied(inst.call.meta))
    BY <1>1, <2>1, InRound, ParamIsShape
  <2>3. PICK sh, sp : sh = ParamCopied(inst.call.meta) /\ sp = NoSpace
    OBVIOUS
  <2>4. /\ symtab' = [symtab EXCEPT ![inst.y] = sh] /\ spaces' = Append(spaces, sp) /\ IsShape(sh)
        /\ inst.call.opcode # "Add"
    BY <2>1, <2>2, <2>3
  <2>. QED BY <1>1, <2>1, <2>3, <2>4, ShapeTakenMeets
<1>9. CASE InferSum
  <2>1. mode' \in {"shapes", "finished", "todo", "aborted", "overrun"}
    <3>. DEFINE y == InferBroadcasted(x0_shape, x1_shape)
    <3>1. /\ mode = "shapes"
          /\ Return("ShapeMismatch") \/ TakeSpace(y.shape, SumSpace(y.shape))
      BY <1>9 DEF InferSum
    <3>2. Return("ShapeMismatch") => mode' = "finished"
      BY DEF Return, Leave
    <3>3. ASSUME NEW shape, NEW space, space.status \in {"ok", "todo", "aborted", "overrun"}, TakeSpace(shape, space)
          PROVE  mode' \in {"shapes", "todo", "aborted", "overrun"}
      BY <3>1, <3>3 DEF TakeSpace, Stop
    <3>. QED BY <3>1, <3>2, <3>3, SpaceStatus
  <2>. QED BY <1>1, <1>3, <1>9, <2>1, SumTakenMeets
<1>10. CASE InferContraction
  <2>1. mode' \in {"shapes", "finished", "overrun", "todo", "aborted"}
    <3>. DEFINE nc == inst.call.meta[1]
                nb == inst.call.meta[2]
                dims == ContractedDims(x0_shape, x1_shape, nc, nb)
    <3>1. /\ mode = "shapes"
          /\ \/ Stop("overrun") \/ ReturnWith(Invalid)
             \/ \E rest \in {0, 2} :
                  TakeSpace(ShapeOf(dims, rest), ContractionSpace(ShapeOf(dims, rest)))
      BY <1>10, Zenon DEF InferContraction
    <3>2. Stop("overrun") \/ ReturnWith(Invalid) => mode' \in {"overrun", "finished"}
      BY DEF Stop, ReturnWith, Return, Leave
    <3>3. ASSUME NEW shape, NEW space, space.status \in {"ok", "todo", "aborted", "overrun"}, TakeSpace(shape, space)
          PROVE  mode' \in {"shapes", "todo", "aborted", "overrun"}
      BY <3>1, <3>3 DEF TakeSpace, Stop
    <3>. QED BY <3>1, <3>2, <3>3, SpaceStatus
  <2>. QED BY <1>1, <1>3, <1>10, <2>1, ContractionTakenMeets
<1>11. CASE ShapesAreInferred
  <2>1. mode = "shapes" /\ mode' = "addresses" /\ UNCHANGED <<symtab, addresses>>
    BY <1>11 DEF ShapesAreInferred, GoTo, NoTables
  <2>2. DOMAIN addresses' = {}
    BY <2>1 DEF LoopInv, TablesOK
  <2>. QED BY <1>2, <2>1, <2>2 DEF MeetInv
<1>12. CASE Address
  <2>1. /\ mode = "addresses" /\ mode' = "addresses" /\ UNCHANGED symtab
        /\ addresses' = Append(addresses, Strides(symtab[Len(addresses)]))
    BY <1>12 DEF Address
  <2>2. PICK s : s = Strides(symtab[Len(addresses)])
    OBVIOUS
  <2>3. /\ DOMAIN addresses = 1 .. Len(addresses) /\ DOMAIN addresses' = 1 .. Len(addresses) + 1
        /\ addresses'[Len(addresses) + 1] = s /\ Len(addresses) \in Nat
        /\ \A n \in DOMAIN addresses : addresses'[n] = addresses[n]
    <3>1. IsSeq(addresses) /\ addresses' = Append(addresses, s)
      BY <2>1, <2>2 DEF LoopInv, TablesOK
    <3>. QED BY <3>1, AppendIsSeq
  <2>4. ASSUME NEW n \in DOMAIN addresses' PROVE addresses'[n] = Strides(symtab[n - 1])
    <3>1. CASE n \in DOMAIN addresses
      BY <2>1, <2>3, <3>1 DEF MeetInv
    <3>2. CASE n \notin DOMAIN addresses
      <4>1. n = Len(addresses) + 1 /\ n - 1 = Len(addresses)
        BY <2>3, <3>2
      <4>. QED BY <2>2, <2>3, <4>1
    <3>. QED BY <3>1, <3>2
  <2>. QED BY <1>2, <2>1, <2>4 DEF MeetInv
<1>. QED BY <1>4, <1>5, <1>6, <1>7, <1>8, <1>9, <1>10, <1>11, <1>12 DEF LowerStep

\* The three parts of the property.
LEMMA TablesMeet ==
  ASSUME BuilderInv, LoopInv, MeetInv
  PROVE  LoopsMeetElements
<1>1. mode \in {"shapes", "addresses"} => IsCode
  BY CodeIsSound DEF WithExpr, Phases
<1>2. mode = "shapes" => /\ at \in Nat /\ at >= 1 /\ at <= Len(insts) + 1 /\ Len(insts) \in Nat
                         /\ DOMAIN insts = 1 .. Len(insts) /\ Symbols = 0 .. Len(insts)
                         /\ DOMAIN spaces = 1 .. at - 1
  <2>. SUFFICES ASSUME mode = "shapes"
                PROVE  /\ at \in Nat /\ at >= 1 /\ at <= Len(insts) + 1 /\ Len(insts) \in Nat
                       /\ DOMAIN insts = 1 .. Len(insts) /\ Symbols = 0 .. Len(insts)
                       /\ DOMAIN spaces = 1 .. at - 1
    OBVIOUS
  <2>1. /\ at \in Nat /\ at >= 1 /\ at <= Len(insts) + 1 /\ IsSeq(spaces) /\ Len(spaces) = at - 1
    BY DEF LoopInv, RoundsOK, TablesOK, Phases
  <2>2. DOMAIN spaces = 1 .. Len(spaces)
    BY <2>1, AppendIsSeq
  <2>. QED BY <1>1, <2>1, <2>2 DEF IsCode, Symbols
<1>3. ParamShapesAreKept
  <2>1. ASSUME mode = "shapes", NEW k \in 1 .. at - 1,
               insts[k].call.opcode = "Param", insts[k].call.meta.rank < MaxRank
        PROVE  symtab[insts[k].y] = insts[k].call.meta
    <3>1. k \in DOMAIN insts /\ insts[k].y = k
      BY <1>1, <1>2, <2>1 DEF IsCode
    <3>2. symtab[k] = ParamCopied(insts[k].call.meta)
      BY <2>1 DEF MeetInv, TableOf
    <3>. QED BY <1>1, <2>1, <3>1, <3>2, ParamIsShape
  <2>. QED BY <2>1 DEF ParamShapesAreKept
<1>4. PointsMeetTheirElements
  <2>. DEFINE Meets(k) ==
         LET space == spaces[k]
             call == insts[k].call
             Image(n, p) == [row \in DOMAIN p |-> Coordinate(space.to[n], row - 1, p)]
         IN call.opcode = "Add" /\ EqualRanks(call) =>
              \A p \in Points(space.extents) :
                /\ Image(1, p) = p
                /\ Image(2, p) = ElementOf(symtab[call.x0], p)
                /\ Image(3, p) = ElementOf(symtab[call.x1], p)
  <2>1. ASSUME mode = "shapes", NEW k \in DOMAIN spaces PROVE Meets(k)
    <3>. DEFINE space == spaces[k]
                call == insts[k].call
                x0 == symtab[call.x0]
                x1 == symtab[call.x1]
    <3>. SUFFICES ASSUME call.opcode = "Add", x0.rank = x1.rank, NEW p \in Points(space.extents)
                  PROVE  /\ [row \in DOMAIN p |-> Coordinate(space.to[1], row - 1, p)] = p
                         /\ [row \in DOMAIN p |-> Coordinate(space.to[2], row - 1, p)] = ElementOf(x0, p)
                         /\ [row \in DOMAIN p |-> Coordinate(space.to[3], row - 1, p)] = ElementOf(x1, p)
      BY DEF EqualRanks
    <3>1. k \in 1 .. at - 1 /\ k \in DOMAIN insts /\ call.x0 \in Symbols /\ call.x1 \in Symbols
      BY <1>1, <1>2, <2>1 DEF IsCode
    <3>2. SumStands(k)
      BY <2>1, <3>1 DEF MeetInv, TableOf
    <3>3. IsShape(x0) /\ IsShape(x1)
      BY <2>1, <3>1 DEF MeetInv
    <3>4. CASE DOMAIN space.extents = {}
      <4>1. DOMAIN p = {}
        BY <3>4 DEF Points
      <4>2. p \in [DOMAIN space.extents -> UNION {0 .. e - 1 : e \in Range(space.extents)}]
        BY DEF Points
      <4>3. \A f, g : f = [row \in {} |-> f[row]] /\ g = [row \in {} |-> g[row]] => f = g
        OBVIOUS
      <4>4. p = [row \in {} |-> p[row]]
        BY <3>4, <4>2
      <4>5. ASSUME NEW t PROVE [row \in DOMAIN p |-> Coordinate(t, row - 1, p)] = p
        BY <4>1, <4>4
      <4>6. ASSUME NEW x PROVE ElementOf(x, p) = p
        BY <4>1, <4>4 DEF ElementOf
      <4>. QED BY <4>5, <4>6
    <3>5. CASE DOMAIN space.extents # {}
      <4>1. space.status = "ok" /\ space = BroadcastedSpace(symtab[k], x0, x1)
        BY <3>2, <3>5 DEF SumStands
      <4>2. PICK sp, y, a, b : sp = space /\ y = symtab[k] /\ a = x0 /\ b = x1
        OBVIOUS
      <4>. HIDE DEF space, x0, x1
      <4>3. /\ IsShape(a) /\ IsShape(b) /\ a.rank = b.rank
            /\ sp = BroadcastedSpace(y, a, b) /\ sp.status = "ok"
            /\ p \in Points(sp.extents)
        BY <3>3, <4>1, <4>2
      <4>4. /\ [row \in DOMAIN p |-> Coordinate(sp.to[1], row - 1, p)] = p
            /\ [row \in DOMAIN p |-> Coordinate(sp.to[2], row - 1, p)] = ElementOf(a, p)
            /\ [row \in DOMAIN p |-> Coordinate(sp.to[3], row - 1, p)] = ElementOf(b, p)
        BY <4>3, SumMeetsElements
      <4>. QED BY <4>2, <4>4
    <3>. QED BY <3>4, <3>5
  <2>. QED BY <2>1 DEF PointsMeetTheirElements
<1>5. AddressesAreDistinct
  <2>. SUFFICES ASSUME mode = "addresses", NEW n \in DOMAIN addresses, StridesFit(symtab[n - 1]),
                       NEW p \in Points([k \in 1 .. symtab[n - 1].rank |-> symtab[n - 1].dim[k - 1]]),
                       NEW q \in Points([k \in 1 .. symtab[n - 1].rank |-> symtab[n - 1].dim[k - 1]]),
                       AddressOf(addresses[n], p) = AddressOf(addresses[n], q)
                PROVE  p = q
    BY DEF AddressesAreDistinct
  <2>1. n - 1 \in Symbols
    <3>1. IsSeq(addresses) /\ Len(addresses) <= lexpr.max_symbol_id + 1
      BY DEF LoopInv, TablesOK
    <3>2. DOMAIN addresses = 1 .. Len(addresses) /\ Len(addresses) \in Nat
      BY <3>1, AppendIsSeq
    <3>3. lexpr.max_symbol_id \in Nat
      BY <1>1 DEF IsCode
    <3>. QED BY <3>1, <3>2, <3>3 DEF Symbols
  <2>2. PICK shape : shape = symtab[n - 1]
    OBVIOUS
  <2>3. IsShape(shape) /\ addresses[n] = Strides(shape)
    BY <2>1, <2>2 DEF MeetInv
  <2>4. StridesFit(shape) /\ AddressOf(Strides(shape), p) = AddressOf(Strides(shape), q)
    BY <2>2, <2>3
  <2>5. /\ p \in Points([k \in 1 .. shape.rank |-> shape.dim[k - 1]])
        /\ q \in Points([k \in 1 .. shape.rank |-> shape.dim[k - 1]])
    BY <2>2
  <2>. QED BY <2>3, <2>4, <2>5, ElementsHaveTheirAddresses
<1>. QED BY <1>3, <1>4, <1>5 DEF LoopsMeetElements

(* However many parameters, sums and contractions an expression has, and     *)
(* whatever their ranks, dimensions and alignment: the shapes given to       *)
(* ak_param reach the inference, but for those of the highest rank; each     *)
(* point of the loops of a sum of equal ranks meets the element of either    *)
(* operand that belongs there; and the elements of a symbol whose strides    *)
(* fit in a byte have addresses of their own (ak_infer_y_shape,              *)
(* ak_create_broadcasted_iteration_space, ak_atran_strided_projection_from_shape). *)
THEOREM LoopsMeet == Spec => []LoopsMeetElements
<1>1. Init => MeetInv
  BY DEF Init, InitBuilder, MeetInv
<1>2. BuilderInv /\ LoopInv /\ MeetInv /\ [Next]_vars => MeetInv'
  <2>. SUFFICES ASSUME BuilderInv, LoopInv, MeetInv, [Next]_vars PROVE MeetInv'
    OBVIOUS
  <2>1. CASE Build /\ UNCHANGED loweringVars
    <3>1. mode' \in Idle
      BY <2>1 DEF Idle, WithoutExpr, Build, AskParam, AskOperation, AppendInst, MayAsk, Pin,
         RefuseEarlierError, RefuseEmpty, RefuseForeign, RefuseWithoutMemory, RefuseWith, Finishing, Finish, Destroy
    <3>. QED BY <3>1 DEF MeetInv, Idle, WithoutExpr
  <2>2. CASE LowerStep
    BY <2>2, LowerKeepsMeet
  <2>3. CASE UNCHANGED vars
    BY <2>3 DEF vars, builderVars, loweringVars, MeetInv, TableOf, SumStands, insts, Symbols
  <2>. QED BY <2>1, <2>2, <2>3 DEF Next
<1>3. BuilderInv /\ LoopInv /\ MeetInv => LoopsMeetElements
  BY TablesMeet
<1>. QED BY <1>1, <1>2, <1>3, BuilderInvariant, LoopInvariant, PTL DEF Spec
=============================================================================
