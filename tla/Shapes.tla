------------------------------- MODULE Shapes -------------------------------
(***************************************************************************)
(* The arithmetic of shapes and iteration spaces of linalg.c.  A shape is  *)
(* its rank and as many dimensions as any shape may have; those behind the *)
(* rank are whatever was left in memory.  Axes count from 0.               *)
(*                                                                         *)
(* An affine transform is given by its rows and columns and by the places  *)
(* of its data that hold a 1; the matrix is stored by rows.                *)
(***************************************************************************)
EXTENDS Integers, Sequences, FiniteSets, FiniteSetsExt, Functions

CONSTANTS
  MaxRank,  \* AK_MAX_RANK
  Align,    \* DEFAULT_ALIGN of the lowering, a power of two
  ByteSize  \* how many values a uint8_t has, a multiple of Align

ASSUME ShapesAssumption ==
  /\ {MaxRank, Align, ByteSize} \subseteq Nat \ {0}
  /\ ByteSize % Align = 0

Axes == 0 .. MaxRank - 1

\* The shape with these dimensions, and rest behind them.
ShapeOf(dims, rest) ==
  [rank |-> Len(dims), dim |-> [a \in Axes |-> IF a < Len(dims) THEN dims[a + 1] ELSE rest]]

NilShape == ShapeOf(<<>>, 0)

Larger(m, n) == IF m > n THEN m ELSE n

\* What a loop from low on while below high takes.
Upto(low, high) == [k \in 1 .. Larger(high - low, 0) |-> low + k - 1]

-----------------------------------------------------------------------------
(* ak_infer_broadcasted_dims of two shapes.                                *)

Mismatch == -1

\* Mutant: the last operand's dimension is taken, even if it is 1.
TakeLast(dim, next) == IF 1 \in {dim, next} \/ dim = next THEN next ELSE Mismatch

\* One round of the loop over axes, for the dimension that is accumulated.
Accumulate(dim, next) ==
  CASE next = 1 \/ next = dim -> dim
    [] dim = 1 /\ next # 1 -> next
    [] OTHER -> Mismatch

\* The dimension of a shape that meets an axis of a result of that rank: the
\* shapes are aligned at their last axes.  One that does not exist is as 1.
FromRight(shape, axis, rank) ==
  IF axis >= rank - shape.rank THEN shape.dim[axis - (rank - shape.rank)] ELSE 1

InferBroadcasted(x0, x1) ==
  LET rank == Larger(x0.rank, x1.rank)
      dims == [k \in 1 .. rank |-> Accumulate(FromRight(x0, k - 1, rank), FromRight(x1, k - 1, rank))]
  IN [ok |-> \A k \in 1 .. rank : dims[k] # Mismatch, shape |-> ShapeOf(dims, 0)]

-----------------------------------------------------------------------------
(* ak_infer_contracted_dims.  Only the dimensions below the rank of the    *)
(* result are written; more than MaxRank are written past the array.       *)

KeptAxes(x0, n_contracted, n_batch) == Upto(n_batch, x0.rank - n_contracted)

ContractedDims(x0, x1, n_contracted, n_batch) ==
  LET kept == KeptAxes(x0, n_contracted, n_batch)
      free == Upto(n_contracted + n_batch, x1.rank)
      n == Len(free)
  IN [k \in 1 .. Len(kept) |-> x0.dim[kept[k]]] \o [k \in 1 .. n |-> x1.dim[free[n + 1 - k]]]

CanContract(x0, x1, n_contracted, n_batch) ==
  x0.rank >= n_contracted /\ n_contracted + n_batch <= x1.rank

-----------------------------------------------------------------------------
(* Iteration spaces: extents, and the transforms to the coordinates of y,  *)
(* x0 and x1.                                                              *)

Transform(rows, cols, ones) == [rows |-> rows, cols |-> cols, ones |-> ones]

\* status: "ok"; "todo", an error, which the lowering has no code for; "aborted",
\* an assertion failed; "overrun", an entry is written outside of its matrix.
NoSpace == [status |-> "none", extents |-> <<>>, to |-> <<>>]
Failed(status) == [NoSpace EXCEPT !.status = status]

\* Where the loops put the entry of axis r of an operand of that rank.
Place(r, rank) == r * rank + r

\* Mutant: axes of one element are walked along as well.
EveryAxis(y, x) == {Place(a, x.rank) : a \in 0 .. y.rank - 1}

\* The entries that are 1: axes of one element are walked on the spot.
WalkedAxes(y, x) == {Place(a, x.rank) : a \in {b \in 0 .. y.rank - 1 : x.dim[b] = y.dim[b]}}

\* ak_create_broadcasted_iteration_space.  The shape of y is inferred again and
\* must be the same.  Axes are compared from the left, up to the rank of y,
\* whatever the rank of the operand, which has room for (rank of y + 1) * rank
\* entries.
BroadcastedSpace(y, x0, x1) ==
  LET axes == 0 .. y.rank - 1
      again == InferBroadcasted(x0, x1)
      IsAgain == again.ok /\ again.shape.rank = y.rank /\ \A a \in axes : again.shape.dim[a] = y.dim[a]
      Fits(x) == \A a \in axes : x.dim[a] \in {y.dim[a], 0, 1}
      Room(x) == \A a \in axes : Place(a, x.rank) < (y.rank + 1) * x.rank
  IN CASE ~IsAgain -> Failed("todo")
       [] IsAgain /\ (~Fits(x0) \/ ~Fits(x1)) -> Failed("aborted")
       [] IsAgain /\ Fits(x0) /\ Fits(x1) /\ (~Room(x0) \/ ~Room(x1)) -> Failed("overrun")
       [] OTHER ->
            [status |-> "ok",
             extents |-> [k \in 1 .. y.rank |-> y.dim[k - 1]],
             to |-> <<Transform(y.rank, y.rank, WalkedAxes(y, y)),
                      Transform(x0.rank, y.rank, WalkedAxes(y, x0)),
                      Transform(x1.rank, y.rank, WalkedAxes(y, x1))>>]

\* ak_create_contracted_iteration_space.  The rounds of its four loops, in
\* order, each with the dimensions that must agree, whether its assertion
\* holds, and which operands the axis belongs to.
ContractedAxes(y, x0, x1, n_batch, n_contracted) ==
  LET batch == Upto(0, n_batch)
      x0_free == Upto(n_batch, x0.rank - n_contracted)
      x1_free == Upto(n_contracted + n_batch, x1.rank)
      contracted == Upto(x0.rank - n_contracted, x0.rank)
      At(r) == IF r < MaxRank THEN y.dim[r] ELSE Mismatch
      nb == Len(batch)
      nf == nb + Len(x0_free)
  IN [k \in 1 .. nb |->
        [dims |-> {At(k - 1), x0.dim[k - 1], x1.dim[k - 1]}, holds |-> TRUE,
         extent |-> x0.dim[k - 1], of |-> {1, 2, 3}]]
     \o [k \in DOMAIN x0_free |->
        [dims |-> {At(nb + k - 1), x0.dim[x0_free[k]]}, holds |-> TRUE,
         extent |-> x0.dim[x0_free[k]], of |-> {1, 2}]]
     \o [k \in DOMAIN x1_free |->
        [dims |-> {At(nf + k - 1), x1.dim[x1_free[k]]}, holds |-> TRUE,
         extent |-> x1.dim[x1_free[k]], of |-> {1, 3}]]
     \o [k \in DOMAIN contracted |->
        LET x1_axis == n_contracted + n_batch - k   \* from the last one down
        IN [dims |-> {x0.dim[contracted[k]], IF x1_axis \in Axes THEN x1.dim[x1_axis] ELSE Mismatch},
            holds |-> x1_axis > 0,
            extent |-> x0.dim[contracted[k]], of |-> {2, 3}]]

\* The rows and columns of its transforms are not written and stay 0.
ContractedSpace(y, x0, x1, n_batch) ==
  LET n_contracted == (x0.rank + x1.rank - y.rank - n_batch) \div 2
      rank == y.rank + n_contracted
      axes == ContractedAxes(y, x0, x1, n_batch, n_contracted)
      wrong == {k \in DOMAIN axes : ~axes[k].holds \/ Cardinality(axes[k].dims) > 1}
      To(n, x) == Transform(0, 0, {Place(k - 1, x.rank) : k \in {j \in DOMAIN axes : n \in axes[j].of}})
      Room(x) == \A k \in DOMAIN axes : Place(k - 1, x.rank) < rank * x.rank
  IN CASE n_batch > y.rank \/ n_batch > x0.rank \/ n_batch > x1.rank -> Failed("todo")
       [] OTHER ->
            IF ~({n_contracted, rank, x0.rank - n_contracted, n_contracted + n_batch,
                  x0.rank - n_batch - n_contracted, x1.rank - n_batch - n_contracted} \subseteq Axes)
            THEN Failed("aborted")
            ELSE IF wrong # {} THEN Failed(IF axes[Min(wrong)].holds THEN "todo" ELSE "aborted")
            ELSE IF Len(axes) # rank THEN Failed("aborted")
            ELSE IF ~Room(y) \/ ~Room(x0) \/ ~Room(x1) THEN Failed("overrun")
            ELSE [status |-> "ok",
                  extents |-> [k \in 1 .. rank |-> axes[k].extent],
                  to |-> <<To(1, y), To(2, x0), To(3, x1)>>]

-----------------------------------------------------------------------------
(* ak_atran_strided_projection_from_shape, by rows.                        *)

AlignUp(n, align) == ((n + align - 1) \div align) * align

\* last_stride, a uint8_t, after round n, which counts axes from the right: the
\* last dimension is padded, and all strides but its own follow from that.
NextStride(shape, n, stride) ==
  LET product == (stride * shape.dim[shape.rank - n]) % ByteSize
  IN IF n = 1 THEN AlignUp(product, Align) % ByteSize ELSE product

\* The entries of the matrix, which is one row.
Strides(shape) ==
  LET before[n \in 1 .. shape.rank + 1] == IF n = 1 THEN 1 ELSE NextStride(shape, n - 1, before[n - 1])
  IN [k \in 1 .. shape.rank |-> before[shape.rank + 1 - k]]

\* ak_atran_apply: one row of Ax + b.
Coordinate(t, row, point) ==
  LET Entry(place) == IF place \in t.ones THEN 1 ELSE 0
  IN SumFunction([col \in 0 .. t.cols - 1 |-> Entry(row * t.cols + col) * point[col + 1]])
       + Entry(t.rows * t.cols + row)
=============================================================================
