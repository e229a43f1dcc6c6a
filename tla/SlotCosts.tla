----------------------------- MODULE SlotCosts -----------------------------
(***************************************************************************)
(* What the planners expect a routine to cost: the cost models of          *)
(* bsgs_layout.py and state_layout.py, the rotations the native code       *)
(* collects for its keys, and the levels packed_depth.hpp charges.         *)
(***************************************************************************)
EXTENDS SlotProgram

ScheduleLength(count, logarithmic) == Len(rotation_sum_schedule(count, logarithmic))

ReplicationCost(n, shape, logarithmic) ==
  ScheduleLength(shape.window \div n, logarithmic)
  + ScheduleLength(shape.replicas + shape.guard_windows, logarithmic)
  + ScheduleLength(shape.replicas, logarithmic \/ IsPowerOf2(shape.replicas))

replicated_cost(n, shape, logarithmic) ==
  [ct_pt_mul |-> per_replica(n, shape.replicas),
   rotations |-> ReplicationCost(n, shape, logarithmic) + per_replica(n, shape.replicas) - 1]

replicated_bsgs_cost(n, shape, baby_step, logarithmic) ==
  LET groups == per_replica(n, shape.replicas)
  IN  [ct_pt_mul |-> groups,
       rotations |-> ReplicationCost(n, shape, logarithmic)
                     + baby_step - 1 + CeilDiv(groups, baby_step) - 1]

Log2(v) == CHOOSE e \in 0 .. 16 : 2 ^ e = v

replicated_state_block_cost(state_size, group_block) ==
  [levels |-> 2, rotations |-> 1 + Log2(state_size) + Log2(group_block)]

shared_grouped_head_expansion_levels == 2

-----------------------------------------------------------------------------

OffsetsOf(count, stride, logarithmic) ==
  {step.offset * stride : step \in ToSet(rotation_sum_schedule(count, logarithmic))}

\* mutant: the fold steps by the window, not by one slot more
FoldRotations_window(shape, logarithmic) ==
  OffsetsOf(shape.replicas, shape.window, logarithmic \/ IsPowerOf2(shape.replicas))

FoldRotations(shape, logarithmic) ==
  OffsetsOf(shape.replicas, shape.window + 1, logarithmic \/ IsPowerOf2(shape.replicas))

\* baby_step 0 is the unshared schedule.
insert_replicated_rotations(n, shape, baby_step, logarithmic) ==
  LET groups == per_replica(n, shape.replicas)
  IN  OffsetsOf(shape.window \div n, -n, logarithmic)
      \cup OffsetsOf(shape.replicas + shape.guard_windows, -shape.window, logarithmic)
      \cup (IF baby_step > 1
            THEN {i * shape.replicas : i \in 1 .. baby_step - 1}
                 \cup {g * baby_step * shape.replicas : g \in 1 .. CeilDiv(groups, baby_step) - 1}
            ELSE {k * shape.replicas : k \in 1 .. groups - 1})
      \cup FoldRotations(shape, logarithmic)

-----------------------------------------------------------------------------

\* What the depth planner charges for a node.
packed_node_depth(n) ==
  CASE n.op \in {"input", "add"} -> 0
    [] n.op \in {"linear", "linear_ref"} -> 2
    [] n.op \in {"gather", "scatter"} -> packed_routing_depth(n.data, n.op = "scatter")
    [] n.op = "repeat" ->
         packed_routing_depth([k \in 1 .. n.data[1] * n.data[2] |->
                                 ((k - 1) \div n.data[2]) * n.data[2] * n.data[3]
                                 + ((k - 1) % n.data[2])], TRUE)
    [] n.op = "sum" ->
         packed_routing_depth([k \in 1 .. n.size |-> (k - 1) * n.data[1]], FALSE)
=============================================================================
