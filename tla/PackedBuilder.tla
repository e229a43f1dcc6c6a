--------------------------- MODULE PackedBuilder ---------------------------
(***************************************************************************)
(* The exporter packed_program.py: tensor expressions become nodes of a    *)
(* packed program, each value flattened in row-major order.  A script is a *)
(* sequence of steps over earlier steps, in the order the model's code     *)
(* runs them.                                                              *)
(***************************************************************************)
EXTENDS Integers, Sequences, FiniteSets, FiniteSetsExt, SequencesExt, SlotVector

Size(shape) == FoldSeq(LAMBDA d, total : d * total, 1, shape)

\* Row-major coordinates of a flat position, and back.
Stride(shape, axis) == Size(SubSeq(shape, axis + 1, Len(shape)))
Coordinate(shape, p, axis) == (p \div Stride(shape, axis)) % shape[axis]
Flat(shape, at(_)) ==
  FoldSet(LAMBDA axis, total : total + at(axis) * Stride(shape, axis), 0, DOMAIN shape)

\* numpy.broadcast_to: which position of the small array is at position p.
BroadcastSource(small, shape, p) ==
  Flat(small, LAMBDA axis : IF small[axis] = 1 THEN 0 ELSE Coordinate(shape, p, axis))

\* Leading axes of 1, up to that rank.
Lifted(shape, rank) == [k \in 1 .. rank - Len(shape) |-> 1] \o shape

BroadcastShape(a, b) ==
  LET rank == Max({Len(a), Len(b)})
  IN  [k \in 1 .. rank |-> Max({Lifted(a, rank)[k], Lifted(b, rank)[k]})]

Power2Above(width) == CHOOSE w \in {2 ^ e : e \in 0 .. 15} : w >= width /\ w < 2 * width

-----------------------------------------------------------------------------
(* A value under construction: the nodes so far, the node that has the     *)
(* value, and the value's shape.                                           *)

Built(nodes, index, shape) == [nodes |-> nodes, index |-> index, shape |-> shape]

Emit(nodes, op, parents, shape, data) ==
  Built(Append(nodes, [op |-> op, parents |-> parents, size |-> Size(shape), data |-> data]),
        Len(nodes) + 1, shape)

\* The identity map, with whatever shape, is no operation.
builder_gather(v, shape, mapping) ==
  IF Size(v.shape) = Len(mapping) /\ \A k \in DOMAIN mapping : mapping[k] = k - 1
  THEN [v EXCEPT !.shape = shape]
  ELSE Emit(v.nodes, "gather", <<v.index>>, shape, mapping)

\* One axis of the value is repeated.
RepeatAxis(v, axis, times) ==
  Emit(v.nodes, "repeat", <<v.index>>, [v.shape EXCEPT ![axis] = times],
       <<Size(SubSeq(v.shape, 1, axis - 1)), Stride(v.shape, axis), times>>)

\* mutant: the block of an axis is measured before the later axes were expanded
broadcast_stale(v, shape, extended) ==
  LET lifted == [v EXCEPT !.shape = Lifted(v.shape, Len(shape))]
      axes == SetToSeq({k \in DOMAIN shape : lifted.shape[k] # shape[k]})
      expand[k \in 0 .. Len(axes)] ==
        IF k = 0 THEN lifted
        ELSE LET before == expand[k - 1]
                 axis == axes[Len(axes) + 1 - k]
                 out == RepeatAxis(before, axis, shape[axis])
             IN  [out EXCEPT !.nodes[out.index].data[2] = Stride(lifted.shape, axis)]
  IN  expand[Len(axes)]

\* Trailing axes first, one repeat each.  The plain format repeats powers of
\* two only and gathers what is left at another axis.
broadcast(v, shape, extended) ==
  LET lifted == [v EXCEPT !.shape = Lifted(v.shape, Len(shape))]
      expand[axis \in 1 .. Len(shape) + 1] ==
        IF axis = Len(shape) + 1 THEN lifted
        ELSE LET later == expand[axis + 1]
             IN  IF later.shape[axis] = shape[axis] \/ later.shape = shape THEN later
                 ELSE IF extended \/ \E e \in 0 .. 15 : shape[axis] = 2 ^ e
                 THEN RepeatAxis(later, axis, shape[axis])
                 ELSE builder_gather(later, shape,
                        [p \in 1 .. Size(shape) |-> BroadcastSource(later.shape, shape, p - 1)])
  IN  expand[1]

\* In nodes, the node of value v and that of w, which is older.
builder_add(left, right) ==
  Emit(right.nodes, "add", <<left.index, right.index>>, right.shape, <<>>)

broadcast_second(left, w, extended) ==
  builder_add(left, broadcast([w EXCEPT !.nodes = left.nodes], left.shape, extended))

builder_binary(v, w, extended) ==
  broadcast_second(broadcast(v, BroadcastShape(v.shape, w.shape), extended), w, extended)

\* Groups of a width that is no power of two are moved apart first.
sum_last(v) ==
  LET width == v.shape[Len(v.shape)]
      padded == Power2Above(width)
      wide == [v.shape EXCEPT ![Len(v.shape)] = padded]
      scattered == Emit(v.nodes, "scatter", <<v.index>>, wide,
                        [p \in 1 .. Size(v.shape) |->
                           ((p - 1) \div width) * padded + ((p - 1) % width)])
      x == IF padded = width THEN v ELSE scattered
  IN  Emit(x.nodes, "sum", <<x.index>>, [v.shape EXCEPT ![Len(v.shape)] = 1], <<padded>>)

\* Flat position, in the concatenation along axis, of position p of a piece
\* of that shape that begins at offset.
Placed(shape, axis, offset, piece, p) ==
  Flat(shape, LAMBDA a : Coordinate(piece, p, a) + IF a = axis THEN offset ELSE 0)

Extent(values, axis, count) == FoldSet(LAMBDA k, total : total + values[k].shape[axis], 0, 1 .. count)

ConcatenatedShape(values, axis) == [values[1].shape EXCEPT ![axis] = Extent(values, axis, Len(values))]

\* A scatter for each piece, added up.
concatenate(nodes, values, axis) ==
  LET shape == ConcatenatedShape(values, axis)
      joined[k \in 1 .. Len(values)] ==
        LET before == IF k = 1 THEN nodes ELSE joined[k - 1].nodes
            v == values[k]
            piece == Emit(before, "scatter", <<v.index>>, shape,
                          [p \in 1 .. Size(v.shape) |->
                             Placed(shape, axis, Extent(values, axis, k - 1), v.shape, p - 1)])
        IN  IF k = 1 THEN piece
            ELSE Emit(piece.nodes, "add", <<joined[k - 1].index, piece.index>>, shape, <<>>)
  IN  joined[Len(values)]

\* The first projection by a weight carries it, later ones refer to it; the
\* plain format repeats the weight.
builder_linear(v, rows, weight, owner, extended) ==
  IF extended /\ weight \in DOMAIN owner
  THEN Emit(v.nodes, "linear_ref", <<v.index>>, <<rows>>, <<owner[weight]>>)
  ELSE Emit(v.nodes, "linear", <<v.index>>, <<rows>>, <<weight>>)

-----------------------------------------------------------------------------
(* Scripts.  Steps: input(shape), add(a, b), sum_last(a), take(a, shape,   *)
(* mapping), concatenate(parts, axis), linear(a, rows, weight).            *)

\* The builder: its nodes, its values by step and its weight owners.
EmptyProgram == [nodes |-> <<>>, values |-> <<>>, owner |-> <<>>]

Handle(program, i) == [program.values[i] EXCEPT !.nodes = program.nodes]

\* What one step builds.
Output(program, s, extended) ==
  CASE s.op = "input" -> Emit(program.nodes, "input", <<>>, s.shape, <<>>)
    [] s.op = "add" -> builder_binary(Handle(program, s.a), Handle(program, s.b), extended)
    [] s.op = "sum_last" -> sum_last(Handle(program, s.a))
    [] s.op = "take" -> builder_gather(Handle(program, s.a), s.shape, s.mapping)
    [] s.op = "concatenate" ->
         concatenate(program.nodes, [i \in DOMAIN s.parts |-> Handle(program, s.parts[i])], s.axis)
    [] OTHER -> builder_linear(Handle(program, s.a), s.rows, s.weight, program.owner, extended)

\* The first projection by a weight owns it.
Extended(program, s, out) ==
  [nodes |-> out.nodes,
   values |-> Append(program.values, out),
   owner |-> IF s.op = "linear" /\ s.weight \notin DOMAIN program.owner
             THEN program.owner @@ (s.weight :> out.index) ELSE program.owner]

Step(program, s, extended) == Extended(program, s, Output(program, s, extended))

Script(script, extended) ==
  LET run[k \in 0 .. Len(script)] ==
        IF k = 0 THEN EmptyProgram ELSE Step(run[k - 1], script[k], extended)
  IN  run[Len(script)]
=============================================================================
