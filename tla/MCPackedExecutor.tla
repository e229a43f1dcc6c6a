-------------------------- MODULE MCPackedExecutor --------------------------
(* Programs of Size nodes: an input, a projection of it, then operations   *)
(* on earlier nodes; the last node is an output, and any one other         *)
(* operation may be one too.  There are two families, one whose operations *)
(* alias, reuse and share, one whose operations cost levels and defer      *)
(* masks, and beside them larger programs (Blocks).                        *)
EXTENDS PackedExecutor

CONSTANT Size

Unordered(n) == {x \in (0 .. n - 1) \X (0 .. n - 1) : x[1] <= x[2]}
Sharing(n) ==
  {<<"alias", <<a>>, 0>> : a \in 0 .. n - 1}
    \cup {<<"cheb", <<a>>, v>> : a \in 0 .. n - 1, v \in {0, 1}}
    \cup {<<"add", <<b, a>>, 0>> : a, b \in 0 .. n - 1}
Costly(n) ==
  {<<o, <<a>>, 0>> : o \in {"linear", "gather", "feedback"}, a \in 0 .. n - 1}
    \cup {<<"mul", ab, 0>> : ab \in Unordered(n)}

BodiesOf(Operations(_)) ==
  LET upto[n \in 0 .. Size - 1] ==
        IF n = 0 THEN {<<>>}
        ELSE {Append(f, s) : f \in upto[n - 1],
                             s \in IF n = 1 THEN {<<"linear", <<0>>, 0>>} ELSE Operations(n)}
  IN  upto[Size - 1]
Body(f, n) == IF n = 0 THEN <<"input", <<>>, 0>> ELSE f[n]

(* What an operation of a small program spends, given what a projection    *)
(* does.                                                                   *)
SmallCost(operation, projection) ==
  CASE operation = "linear" -> projection
    [] operation = "cheb" -> 2
    [] operation \in {"mul", "gather"} -> 1
    [] OTHER -> 0

(* What the operations spend: what they are counted with, or the least a   *)
(* projection or a polynomial can.                                         *)
Exact(p) == [p EXCEPT !.spent = [n \in Nodes(p) |-> NodeDepth(p, n)]]
Thrifty(p) == [p EXCEPT !.spent = [n \in Nodes(p) |-> LeastSpent(p, n)]]

(* <<operations, slots, what a projection spends>> *)
Bodies ==
  {<<f, 3, 2>> : f \in BodiesOf(Sharing)}
    \cup {<<f, 2, spent>> : f \in BodiesOf(Costly), spent \in 1 .. 2}

SmallPrograms ==
  {[count |-> Size, slots |-> b[2],
    op |-> [n \in 0 .. Size - 1 |-> Body(b[1], n)[1]],
    parents |-> [n \in 0 .. Size - 1 |-> Body(b[1], n)[2]],
    data |-> [n \in 0 .. Size - 1 |-> 1],
    size |-> [n \in 0 .. Size - 1 |-> 1],
    interval |-> [n \in 0 .. Size - 1 |-> Body(b[1], n)[3]],
    spent |-> [n \in 0 .. Size - 1 |-> SmallCost(Body(b[1], n)[1], b[3])],
    outputs |-> {Size - 1, o}] : b \in Bodies, o \in 1 .. Size - 1}

-----------------------------------------------------------------------------

(* Larger programs, shaped like what the exporter writes: a step with a    *)
(* deferred projection, shared Chebyshev bases and client feedback, the    *)
(* fork of test_packed_depth.cpp and one with two arms, the epochs and     *)
(* duplicate edges of test_packed_schedule.cpp, with their costs scaled to *)
(* the policy of the run.                                                  *)
(* A node is <<operation, operands, data, size, interval>>.                *)
Step ==
  << <<"input", <<>>, 0, 4, 0>>,
     <<"linear", <<0>>, 0, 8, 0>>,
     <<"gather", <<1>>, 2, 4, 0>>,
     <<"gather", <<1>>, 1, 4, 0>>,
     <<"cheb", <<2>>, 2, 4, 1>>,
     <<"cheb", <<2>>, 2, 4, 1>>,
     <<"mul", <<4, 3>>, 0, 4, 0>>,
     <<"alias", <<6>>, 0, 4, 0>>,
     <<"add", <<7, 5>>, 0, 4, 0>>,
     <<"feedback", <<8>>, 0, 4, 0>>,
     <<"linear", <<9>>, 0, 4, 0>>,
     <<"add", <<10, 6>>, 0, 4, 0>>,
     <<"cheb", <<11>>, 2, 4, 1>> >>

Fork ==
  << <<"input", <<>>, 0, 2, 0>>,
     <<"unary", <<0>>, 1, 2, 0>>,
     <<"unary", <<1>>, 2, 2, 0>>,
     <<"unary", <<2>>, 0, 2, 0>>, <<"cheb", <<3>>, 2, 2, 1>>,
     <<"unary", <<2>>, 0, 2, 0>>, <<"cheb", <<5>>, 2, 2, 1>>,
     <<"unary", <<2>>, 0, 2, 0>>, <<"cheb", <<7>>, 2, 2, 2>>,
     <<"add", <<4, 6>>, 0, 2, 0>>, <<"add", <<9, 8>>, 0, 2, 0>> >>

TwoArms ==
  << <<"input", <<>>, 0, 2, 0>>,
     <<"unary", <<0>>, 1, 2, 0>>,
     <<"unary", <<1>>, 2, 2, 0>>,
     <<"unary", <<2>>, 0, 2, 0>>, <<"cheb", <<3>>, 2, 2, 1>>,
     <<"unary", <<2>>, 0, 2, 0>>, <<"cheb", <<5>>, 2, 2, 1>>,
     <<"add", <<4, 6>>, 0, 2, 0>> >>

Epochs2 ==
  << <<"input", <<>>, 0, 1, 0>>,
     <<"unary", <<0>>, 1, 1, 0>>,
     <<"input", <<>>, 0, 1, 0>>,
     <<"mul", <<1, 1>>, 0, 1, 0>>,
     <<"feedback", <<3>>, 0, 1, 0>>,
     <<"public", <<>>, 0, 1, 0>>,
     <<"add", <<4, 5>>, 0, 1, 0>>,
     <<"feedback", <<6>>, 0, 1, 0>>,
     <<"add", <<7, 0>>, 0, 1, 0>>,
     <<"unary", <<0>>, 1, 1, 0>> >>

Program(nodes, slots, outputs) ==
  [count |-> Len(nodes), slots |-> slots,
   op |-> [n \in 0 .. Len(nodes) - 1 |-> nodes[n + 1][1]],
   parents |-> [n \in 0 .. Len(nodes) - 1 |-> nodes[n + 1][2]],
   data |-> [n \in 0 .. Len(nodes) - 1 |-> nodes[n + 1][3]],
   size |-> [n \in 0 .. Len(nodes) - 1 |-> nodes[n + 1][4]],
   interval |-> [n \in 0 .. Len(nodes) - 1 |-> nodes[n + 1][5]],
   spent |-> <<>>,
   outputs |-> outputs]

Shapes ==
  {Program(Step, 12, {12}), Program(Step, 8, {6, 12}),
   Program(Fork, 4, {10}), Program(Fork, 8, {4, 10}),
   Program(TwoArms, 4, {7}),
   Program(Epochs2, 16, {0, 2, 8})}
Blocks == {Exact(p) : p \in Shapes} \cup {Thrifty(p) : p \in Shapes}

MCPrograms == SmallPrograms \cup Blocks

MCOptions ==
  {[frontier |-> mode = "frontier", batch |-> mode # "file",
    reuse |-> TRUE, share |-> TRUE] : mode \in {"file", "batch", "frontier"}}
MCBootLevels == {Refreshed}
=============================================================================
