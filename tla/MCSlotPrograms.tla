--------------------------- MODULE MCSlotPrograms --------------------------
(***************************************************************************)
(* The jobs TLC evaluates: every geometry of small projections, maps and   *)
(* state layouts that the code accepts, and programs of a few nodes.       *)
(***************************************************************************)
EXTENDS SlotMachine

\* Projections: the chosen shape, and with fewer replicas; both schedules;
\* no baby steps and baby steps of 1 to 3.
Shapes(m, n, batch) ==
  LET chosen == choose_window(m, n, batch)
      interleaved == choose_interleaved_window(m, n, batch)
  IN  {s \in {interleaved} \cup {[chosen EXCEPT !.replicas = r] : r \in 1 .. chosen.replicas} :
         s.replicas >= 1}

ProjectionJobs ==
  UNION {{[kind |-> "projection", m |-> m, n |-> n, batch |-> batch, shape |-> shape,
           logarithmic |-> logarithmic, baby_step |-> baby_step] :
            shape \in Shapes(m, n, batch), logarithmic \in BOOLEAN, baby_step \in {0, 1, 2, 3}} :
         <<m, n, batch>> \in (1 .. 4) \X (1 .. 5) \X {8, 12, 16, 24, 32}}

-----------------------------------------------------------------------------

Bits == {1, 2, 4, 8, 16}

BlockJobs ==
  UNION {{[kind |-> "blocks", state_size |-> s, group_block |-> b, batch |-> s * b,
           bc_base |-> bc_base, base |-> base] :
            base \in {bc_base, bc_base + s}} :
         <<s, b, bc_base>> \in {t \in Bits \X Bits \X {0, 1} :
                                  t[1] * t[2] \in 4 .. 64 /\ t[3] + 2 * t[1] <= t[1] * t[2]}}

HeadJobs ==
  UNION {{[kind |-> "heads", heads |-> heads, head_dim |-> head_dim, state_size |-> state_size,
           group_heads |-> group_heads, group |-> group,
           batch |-> group_heads * head_dim * state_size] :
            group \in 0 .. heads \div group_heads - 1} :
         <<heads, head_dim, state_size, group_heads>> \in
           {t \in {2, 3, 4} \X {1, 2, 4} \X {2, 4} \X {1, 2} :
              t[1] % t[4] = 0 /\ t[1] * t[2] <= t[4] * t[2] * t[3]}}

KeyJobs ==
  {[kind |-> "keys", batch |-> 32, max_direct |-> max_direct, affordable |-> affordable,
    inventory |-> {[index |-> i, frequency |-> IF i % 2 = 0 THEN 3 ELSE 1] : i \in indices}] :
     max_direct \in {0, 1, 99}, affordable \in {0, 11, 99},
     indices \in {{3, 7}, {-13, 5, 11}, {6, 10, -6, 15}, {1, 16, -16, 13}, {2, 4}, {-11, -7, 14}}}

-----------------------------------------------------------------------------

\* planned, with staged routing by shared rotations; planned; not planned,
\* with binary rotations; --direct-linear.
Modes ==
  {[planned_refresh |-> TRUE, bsgs_routing_stages |-> TRUE, replicated_linear |-> TRUE,
    naf_rotations |-> TRUE],
   [planned_refresh |-> TRUE, bsgs_routing_stages |-> FALSE, replicated_linear |-> TRUE,
    naf_rotations |-> TRUE],
   [planned_refresh |-> FALSE, bsgs_routing_stages |-> FALSE, replicated_linear |-> TRUE,
    naf_rotations |-> FALSE],
   [planned_refresh |-> FALSE, bsgs_routing_stages |-> FALSE, replicated_linear |-> FALSE,
    naf_rotations |-> FALSE]}

N(op, parents, size, data) == [op |-> op, parents |-> parents, size |-> size, data |-> data]
Input(size) == N("input", <<>>, size, <<>>)

Increasing(length, limit) ==
  {s \in [1 .. length -> 0 .. limit - 1] : \A k \in 1 .. length - 1 : s[k] < s[k + 1]}

\* Strictly increasing maps, some staged, with stages of three and four
\* equally spaced digits among them; and maps that are not increasing, with
\* equally spaced displacements or a coordinate taken twice.
Maps == Increasing(4, 9) \cup Increasing(5, 7) \cup Increasing(3, 4)
        \cup {<<3, 2, 1, 0>>, <<4, 0, 4>>, <<1, 0, 3, 2>>, <<6, 4, 2, 0>>, <<0, 2, 4, 6, 1>>}
        \cup {[k \in 1 .. 5 |-> 3 * (k - 1)], [k \in 1 .. 7 |-> 2 * (k - 1)],
              [k \in 1 .. 3 |-> 4 * k], [k \in 1 .. 4 |-> 5 * (k - 1)]}

Injective(s) == \A i, j \in DOMAIN s : s[i] = s[j] => i = j

Spread(s) == Max({13} \cup {s[k] + 1 : k \in DOMAIN s})
GatherProgram(s) == <<Input(Spread(s)), N("gather", <<1>>, Len(s), s)>>
ScatterProgram(s) == <<Input(Len(s)), N("scatter", <<1>>, Spread(s), s)>>

\* A projection whose mask is left to the gather after it.
DirtyProgram(s) ==
  <<Input(2), N("linear", <<1>>, 4, <<7>>), N("gather", <<2>>, Len(s), s)>>

RepeatPrograms ==
  {<<Input(t[1] * t[2]), N("repeat", <<1>>, t[1] * t[2] * t[3], t)>> :
     t \in {u \in (1 .. 4) \X (1 .. 3) \X (2 .. 5) : u[1] * u[2] * u[3] <= 16}}

SumPrograms ==
  {<<Input(t[1] * t[2]), N("sum", <<1>>, t[1], <<t[2]>>)>> :
     t \in {u \in (1 .. 4) \X {1, 2, 4} : u[1] * u[2] <= 16}}

\* Two projections by one matrix, and a projection by another.
LinearPrograms ==
  {<<Input(n), N("linear", <<1>>, m, <<7>>)>> : m \in 1 .. 6, n \in 1 .. 6}
  \cup {<<Input(3), N("linear", <<1>>, 3, <<7>>), N("linear_ref", <<2>>, 3, <<2>>),
          N("add", <<2, 3>>, 3, <<>>)>>,
        <<Input(9), N("linear", <<1>>, 8, <<7>>)>>}

Packed(nodes, deferred, mode) ==
  [kind |-> "packed", nodes |-> nodes, deferred |-> deferred, mode |-> mode, batch |-> 16]

PackedJobs ==
  {Packed(p, {}, mode) :
     p \in {GatherProgram(s) : s \in Maps} \cup {ScatterProgram(s) : s \in {t \in Maps : Injective(t)}}
           \cup RepeatPrograms \cup SumPrograms \cup LinearPrograms,
     mode \in Modes}
  \cup {Packed(DirtyProgram(s), {2}, mode) :
          s \in Increasing(3, 4) \cup {<<0, 1, 2, 3>>, <<2, 0>>},
          mode \in {m \in Modes : m.planned_refresh}}

-----------------------------------------------------------------------------
(* Scripts.  The nodes of the inputs are the first ones.                   *)

In(node, shape) == [op |-> "input", node |-> node, shape |-> shape]
Add2(a, b) == [op |-> "add", a |-> a, b |-> b]
SumLast(a) == [op |-> "sum_last", a |-> a]

\* x + y for every two shapes that broadcast to at most 16 slots.
ShapesUpTo(rank, limit) == {s \in UNION {[1 .. k -> {1, 2, 3}] : k \in 1 .. rank} : Size(s) <= limit}
Compatible(a, b) ==
  LET rank == Max({Len(a), Len(b)})
  IN  /\ \A k \in 1 .. rank : LET x == Lifted(a, rank)[k]
                                  y == Lifted(b, rank)[k]
                              IN  x = y \/ x = 1 \/ y = 1
      /\ Size(BroadcastShape(a, b)) <= 16

Broadcasts ==
  {<<In(1, t[1]), In(2, t[2]), Add2(1, 2)>> :
     t \in {u \in {s \in ShapesUpTo(3, 6) : Len(s) = 3} \X ShapesUpTo(2, 6) : Compatible(u[1], u[2])}}
  \cup {<<In(1, <<2, 1, 3>>), In(2, <<1, 2, 1>>), Add2(2, 1)>>,
        <<In(1, <<2>>), In(2, <<2, 4, 1>>), Add2(1, 2)>>}

\* x + sum_last(x), the shape of a normalization.
Reductions(widths) ==
  {<<In(1, s), SumLast(1), Add2(1, 2)>> :
     s \in {<<w>> : w \in widths} \cup {<<2, w>> : w \in widths} \cup {<<3, w>> : w \in widths \cap 1 .. 4}}

Concatenations ==
  {<<In(1, <<2, 3>>), In(2, <<2, 1>>), [op |-> "concatenate", parts |-> <<1, 2>>, axis |-> 2]>>,
   <<In(1, <<1, 3>>), In(2, <<2, 3>>), In(3, <<1, 3>>),
     [op |-> "concatenate", parts |-> <<2, 1, 3>>, axis |-> 1]>>,
   <<In(1, <<2, 2, 1>>), In(2, <<2, 1, 1>>), [op |-> "concatenate", parts |-> <<1, 2, 1>>, axis |-> 2],
     SumLast(3)>>}

Takes ==
  {<<In(1, <<2, 3>>), [op |-> "take", a |-> 1, shape |-> <<3, 2>>, mapping |-> <<0, 3, 1, 4, 2, 5>>],
     SumLast(2)>>,
   <<In(1, <<2, 4>>), [op |-> "take", a |-> 1, shape |-> <<2, 2>>, mapping |-> <<1, 3, 5, 7>>],
     [op |-> "take", a |-> 2, shape |-> <<4>>, mapping |-> <<0, 1, 2, 3>>], Add2(3, 3)>>}

\* Two uses of one weight and another weight, on two inputs.
Projections ==
  {<<In(1, <<3>>), In(2, <<3>>), [op |-> "linear", a |-> 1, rows |-> 3, weight |-> 7],
     [op |-> "linear", a |-> 2, rows |-> 3, weight |-> w], Add2(3, 4),
     [op |-> "linear", a |-> 5, rows |-> 2, weight |-> 9]>> : w \in {7, 8}}

Written(script, extended) ==
  [kind |-> "built", script |-> script, extended |-> extended, batch |-> 16,
   mode |-> CHOOSE mode \in Modes : mode.bsgs_routing_stages]

\* The plain format reduces widths of powers of two only.
BuiltJobs ==
  {Written(s, TRUE) : s \in Broadcasts \cup Reductions(1 .. 5) \cup Concatenations \cup Takes
                           \cup Projections}
  \cup {Written(s, FALSE) : s \in Broadcasts \cup Reductions({1, 2, 4}) \cup Concatenations
                                 \cup Takes \cup Projections}

\* Groups that fill the batch, or not.
RefreshJobs ==
  {[kind |-> "refresh", batch |-> 8, sizes |-> sizes] :
     sizes \in {s \in UNION {[1 .. k -> 1 .. 6] : k \in 1 .. 3} :
                  FoldSeq(LAMBDA a, total : a + total, 0, s) <= 8}}

MCJobs == RefreshJobs \cup BuiltJobs \cup ProjectionJobs \cup BlockJobs \cup HeadJobs \cup KeyJobs \cup PackedJobs
=============================================================================
