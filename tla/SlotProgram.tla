---------------------------- MODULE SlotProgram ----------------------------
(***************************************************************************)
(* The routines of the slot layouts as straight-line programs over named   *)
(* registers: the simulators of bsgs_layout.py and state_layout.py, and    *)
(* what the packed executor does for the nodes of a program.  SlotMachine  *)
(* executes them.                                                          *)
(***************************************************************************)
EXTENDS PackedRouting, ReplicatedWindows, SlotVector, SequencesExt

Work == 1    \* what a routine transforms
Base == 2    \* the operand of a routine, where it keeps it
Term == 3
Acc == 4
Inner == 5
Baby(i) == 10 + i
Node(i) == 50 + i

Encrypt(to, k, size) == [op |-> "encrypt", to |-> to, input |-> k, size |-> size]
Copy(to, from) == [op |-> "copy", to |-> to, from |-> from]
Roll(to, from, by) == [op |-> "roll", to |-> to, from |-> from, by |-> by]
Add(to, a, b) == [op |-> "add", to |-> to, from |-> a, other |-> b]
Mult(to, from, mask) == [op |-> "mult", to |-> to, from |-> from, mask |-> mask]

\* body(0), body(1), ..., body(count - 1).
Each(count, body(_)) == FlattenSeq([k \in 1 .. count |-> body(k - 1)])

\* Add Term to a register that the first term creates.
Accumulate(to, first) == IF first THEN <<Copy(to, Term)>> ELSE <<Add(to, to, Term)>>

-----------------------------------------------------------------------------

\* Work becomes the sum of its shifts by 0, stride, ..., (count - 1) * stride.
rotation_sum(count, stride, logarithmic) ==
  LET schedule == rotation_sum_schedule(count, logarithmic)
      step(k) == <<Roll(Term, IF schedule[k + 1].accumulated THEN Work ELSE Base,
                        schedule[k + 1].offset * stride),
                   Add(Work, Work, Term)>>
  IN  <<Copy(Base, Work)>> \o Each(Len(schedule), step)

\* x through every tile of every window.
replicate_input(n, shape, logarithmic) ==
  rotation_sum(shape.window \div n, -n, logarithmic)
  \o rotation_sum(shape.replicas + shape.guard_windows, -shape.window, logarithmic)

fold_replicas(shape, logarithmic) ==
  rotation_sum(shape.replicas, shape.window + 1,
               logarithmic \/ IsPowerOf2(shape.replicas))

replicated_matmul(W, m, n, shape, logarithmic) ==
  LET group(k) == <<Roll(Term, Base, k * shape.replicas),
                    Mult(Term, Term, CombinedMask(W, m, n, k, shape))>>
                  \o Accumulate(Acc, k = 0)
  IN  replicate_input(n, shape, logarithmic)
      \o <<Copy(Base, Work)>>
      \o Each(per_replica(n, shape.replicas), group)
      \o <<Copy(Work, Acc)>>
      \o fold_replicas(shape, logarithmic)

\* Baby rotations are shared; the mask of a giant group is rotated right by
\* what its sum is rotated left by.
replicated_bsgs_groups(W, m, n, shape, baby_step, batch) ==
  LET groups == per_replica(n, shape.replicas)
      babies(i) == <<Roll(Baby(i), Work, i * shape.replicas)>>
      giant(g) ==
        LET by == g * baby_step * shape.replicas
            term(i) == <<Mult(Term, Baby(i),
                              RotateMask(CombinedMask(W, m, n, g * baby_step + i, shape),
                                         by, batch))>>
                       \o Accumulate(Inner, i = 0)
        IN  Each(Smaller(baby_step, groups - g * baby_step), term)
            \o <<Roll(Term, Inner, by)>> \o Accumulate(Acc, g = 0)
  IN  Each(baby_step, babies) \o Each(CeilDiv(groups, baby_step), giant) \o <<Copy(Work, Acc)>>

replicated_bsgs_matmul(W, m, n, shape, baby_step, logarithmic, batch) ==
  replicate_input(n, shape, logarithmic)
  \o replicated_bsgs_groups(W, m, n, shape, baby_step, batch)
  \o fold_replicas(shape, logarithmic)

-----------------------------------------------------------------------------
(* The state layout: B or C of the state, one coordinate to a block.       *)

\* Rotate-add doubling: step, 2 * step, ... while less than count.
Doubling(count, by(_)) ==
  LET steps == {e \in 0 .. 15 : 2 ^ e < count}
  IN  Each(Cardinality(steps), LAMBDA e : <<Roll(Term, Work, by(2 ^ e)), Add(Work, Work, Term)>>)

\* mutant: copies at the distance of a block
replicated_state_blocks_aligned(base, bc_base, state_size, group_block) ==
  <<Mult(Work, Work, Ones(bc_base .. bc_base + 2 * state_size - 1)), Roll(Work, Work, base)>>
  \o Doubling(state_size, LAMBDA step : -(group_block * step))
  \o <<Mult(Work, Work, Ones({s * group_block : s \in 0 .. state_size - 1}))>>
  \o Doubling(group_block, LAMBDA step : -step)

\* Copy n, at stride group_block - 1, has coordinate n at slot n * group_block.
replicated_state_blocks(base, bc_base, state_size, group_block) ==
  <<Mult(Work, Work, Ones(bc_base .. bc_base + 2 * state_size - 1)), Roll(Work, Work, base)>>
  \o Doubling(state_size, LAMBDA step : -((group_block - 1) * step))
  \o <<Mult(Work, Work, Ones({s * group_block : s \in 0 .. state_size - 1}))>>
  \o Doubling(group_block, LAMBDA step : -step)

\* All heads are placed head_dim apart and filled once; then each group of
\* group_block slots is taken to slot 0 and repeated through the states.
shared_grouped_head_expansion(heads, head_dim, state_size, group_heads, group) ==
  LET group_block == group_heads * head_dim
      place(h) == <<Mult(Term, Base, Ones({h})), Roll(Term, Term, h - h * head_dim)>>
                  \o Accumulate(Work, h = 0)
  IN  <<Copy(Base, Work)>> \o Each(heads, place)
      \o Doubling(head_dim, LAMBDA step : -step)
      \o <<Roll(Work, Work, group * group_block), Mult(Work, Work, Ones(0 .. group_block - 1))>>
      \o Doubling(state_size, LAMBDA step : -(group_block * step))

-----------------------------------------------------------------------------
(* The packed executor.  A mode is its command line: planned_refresh,      *)
(* bsgs_routing_stages, replicated_linear, naf_rotations.                  *)

\* masks is a function from the offsets to masks.  Every offset by itself,
\* ascending.
direct_transform(masks, offsets) ==
  Each(Len(offsets),
       LAMBDA k : <<Roll(Term, Work, offsets[k + 1]), Mult(Term, Term, masks[offsets[k + 1]])>>
                  \o Accumulate(Acc, k = 0))
  \o <<Copy(Work, Acc)>>

\* Shared baby rotations; a mask is rotated right by what its sum is rotated
\* left by.
shared_transform(masks, offsets, baby, batch) ==
  LET giant(g) ==
        LET by == g * baby * (offsets[2] - offsets[1])
            term(j) == <<Mult(Term, Baby(j),
                              RotateMask(masks[offsets[g * baby + j + 1]], by, batch))>>
                       \o Accumulate(Inner, j = 0)
        IN  Each(Smaller(baby, Len(offsets) - g * baby), term)
            \o <<Roll(Term, Inner, by)>> \o Accumulate(Acc, g = 0)
  IN  Each(baby, LAMBDA i : <<Roll(Baby(i), Work, offsets[i + 1])>>)
      \o Each(CeilDiv(Len(offsets), baby), giant) \o <<Copy(Work, Acc)>>

scheduled_transform(masks, plan, batch) ==
  IF plan.baby_step > 0
  THEN shared_transform(masks, plan.offsets, plan.baby_step, batch)
  ELSE direct_transform(masks, plan.offsets)

transform(masks, mode, batch) ==
  IF DOMAIN masks = {} THEN <<Mult(Work, Work, {})>>
  ELSE scheduled_transform(masks,
         IF mode.planned_refresh
         THEN plan_packed_diagonals(DOMAIN masks, batch, mode.naf_rotations)
         ELSE Schedule(Ascending(DOMAIN masks), 0, 0), batch)

MaskOf(selected) == [offset \in DOMAIN selected |-> Ones(selected[offset])]

\* Mask, then rotate.
direct_stage(stage, offsets) ==
  Each(Len(offsets),
       LAMBDA k : <<Mult(Term, Work, Ones(stage[offsets[k + 1]])),
                    Roll(Term, Term, offsets[k + 1])>>
                  \o Accumulate(Acc, k = 0))
  \o <<Copy(Work, Acc)>>

\* One stage of a routed map.  With shared rotations the masks are those of
\* the destinations.
routing_stage(stage, mode, batch) ==
  IF /\ mode.bsgs_routing_stages
     /\ plan_packed_diagonals(DOMAIN stage, batch, mode.naf_rotations).baby_step > 0
  THEN transform(MaskOf(AtDestination(stage)), mode, batch)
  ELSE direct_stage(stage, Ascending(DOMAIN stage))

\* Only a scatter may rely on clean padding.
gather(indices, scatter, mode, batch) ==
  LET stages == monotone_routing(indices, scatter)
  IN  IF mode.replicated_linear /\ scatter /\ Identity(indices) THEN <<>>
      ELSE IF mode.replicated_linear /\ Staged(indices)
      THEN Each(Len(stages), LAMBDA k : routing_stage(stages[k + 1], mode, batch))
      ELSE transform(MaskOf(DirectMasks(indices, scatter)), mode, batch)

repeat(outer, inner, times, mode, batch) ==
  gather([k \in 1 .. outer * inner |->
            ((k - 1) \div inner) * inner * times + ((k - 1) % inner)], TRUE, mode, batch)
  \o rotation_sum(times, -inner, TRUE)

\* Doubling past the width would add the next group: widths are powers of two.
sum(size, width, mode, batch) ==
  Doubling(width, LAMBDA step : step)
  \o gather([k \in 1 .. size |-> (k - 1) * width], FALSE, mode, batch)

isqrt(v) == CHOOSE s \in 0 .. v : s * s <= v /\ (s + 1) * (s + 1) > v

PackedBabyStep(groups) == IF isqrt(groups) < 2 THEN 2 ELSE isqrt(groups)

\* Without a shape that fits, the diagonals one by one: mask d - i at slot i.
linear(W, m, n, mask_output, mode, batch) ==
  LET shape == choose_interleaved_window(m, n, batch)
  IN  IF mode.replicated_linear /\ m + n <= batch /\ shape.replicas > 1
      THEN replicated_bsgs_matmul(W, m, n, shape,
                                  PackedBabyStep(per_replica(n, shape.replicas)), TRUE, batch)
           \o (IF mask_output THEN <<Mult(Work, Work, Ones(0 .. m - 1))>> ELSE <<>>)
      ELSE transform([d \in 1 - m .. n - 1 |->
                        {<<i, <<W, i, i + d>> >> : i \in {r \in 0 .. m - 1 : r + d \in 0 .. n - 1}}],
                     mode, batch)

-----------------------------------------------------------------------------
(* A packed program: a sequence of nodes, each with its operation, its     *)
(* earlier parents, its size and its data.                                 *)

Columns(nodes, k) == nodes[nodes[k].parents[1]].size

\* A projection carries its matrix; a later one may refer to it.
WeightOf(nodes, k) ==
  IF nodes[k].op = "linear_ref" THEN nodes[nodes[k].data[1]].data[1] ELSE nodes[k].data[1]

\* PackedEvaluator::evaluate, of node k; deferred are the projections whose
\* output mask the depth plan leaves to their consumers.
EvaluateNode(nodes, k, deferred, mode, batch) ==
  LET n == nodes[k]
      d == n.data
      onto(body) == <<Copy(Work, Node(n.parents[1]))>> \o body \o <<Copy(Node(k), Work)>>
  IN  CASE n.op = "input" -> <<Encrypt(Node(k), k, n.size)>>
        [] n.op = "add" -> <<Add(Node(k), Node(n.parents[1]), Node(n.parents[2]))>>
        [] n.op = "gather" -> onto(gather(d, FALSE, mode, batch))
        [] n.op = "scatter" -> onto(gather(d, TRUE, mode, batch))
        [] n.op = "repeat" -> onto(repeat(d[1], d[2], d[3], mode, batch))
        [] n.op = "sum" -> onto(sum(n.size, d[1], mode, batch))
        [] OTHER -> onto(linear(WeightOf(nodes, k), n.size, Columns(nodes, k),
                                k \notin deferred, mode, batch))

Evaluate(nodes, deferred, mode, batch) ==
  Each(Len(nodes), LAMBDA k : EvaluateNode(nodes, k + 1, deferred, mode, batch))

-----------------------------------------------------------------------------
(* One bootstrap for a group of values: packed one behind the other, and   *)
(* unpacked the same way.  The bootstrap itself leaves the slots alone.    *)

Behind(sizes, k) == FoldSet(LAMBDA i, total : total + sizes[i], 0, 1 .. k - 1)

refresh_group(sizes) ==
  Each(Len(sizes), LAMBDA k :
    <<Mult(Term, Node(k + 1), Ones(0 .. sizes[k + 1] - 1)),
      Roll(Term, Term, -Behind(sizes, k + 1))>>
    \o Accumulate(Acc, k = 0))
  \o Each(Len(sizes), LAMBDA k :
       <<Roll(Term, Acc, Behind(sizes, k + 1)),
         Mult(Node(k + 1), Term, Ones(0 .. sizes[k + 1] - 1))>>)
=============================================================================
