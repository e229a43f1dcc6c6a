--------------------------- MODULE RotationSteps ---------------------------
(***************************************************************************)
(* A rotation key exists for a few offsets only; every other rotation is a *)
(* composition of them.  How the packed executor decomposes an offset      *)
(* (rotation_steps.hpp), the schedule that adds up consecutive rotations   *)
(* (bsgs_layout.py, stage1_mamba2_plan.cpp), and the planner that chooses  *)
(* which offsets get a key of their own (rotation_keys.py).                *)
(***************************************************************************)
EXTENDS Integers, FiniteSets, Sequences, Folds, FiniteSetsExt

Abs(i) == IF i < 0 THEN -i ELSE i
IsPowerOf2(k) == \E e \in 0 .. 20 : k = 2 ^ e

-----------------------------------------------------------------------------

\* Signed powers of two that add up to v, ascending.  v minus its digit is a
\* multiple of 4, so that the digit after a digit is 0.
naf[v \in Int] ==
  IF v = 0 THEN <<>>
  ELSE LET digit == IF v % 2 = 0 THEN 0 ELSE 2 - (v % 4)
           later == naf[(v - digit) \div 2]
           twice == [k \in DOMAIN later |-> 2 * later[k]]
       IN  IF digit = 0 THEN twice ELSE <<digit>> \o twice

\* The powers of two of |v|, each with the sign of v.
binary[v \in Int] ==
  IF v = 0 THEN <<>>
  ELSE LET sign == IF v < 0 THEN -1 ELSE 1
           later == binary[sign * (Abs(v) \div 2)]
           twice == [k \in DOMAIN later |-> 2 * later[k]]
       IN  IF v % 2 = 0 THEN twice ELSE <<sign>> \o twice

\* offset %= slots truncates toward zero, so that -slots/2 stays negative.
canonical_rotation(offset, slots) ==
  LET rest == Abs(offset) % slots
      signed == IF offset < 0 THEN -rest ELSE rest
  IN  CASE signed > slots \div 2 -> signed - slots
        [] signed < -(slots \div 2) -> signed + slots
        [] OTHER -> signed

rotation_steps(offset, slots, with_naf) ==
  LET within == canonical_rotation(offset, slots)
  IN  IF with_naf THEN naf[within] ELSE binary[within]

packed_rotation_cost(offset, slots, with_naf) ==
  Len(rotation_steps(offset, slots, with_naf))

\* main: the keys generated for the packed executor.
packed_keys(slots) ==
  UNION {{2 ^ e, -(2 ^ e)} : e \in {f \in 0 .. 15 : 2 ^ f < slots}}

-----------------------------------------------------------------------------

\* The bits of count from the left: double the partial sum, then append one
\* more shift of the input if the bit is set.
doubling[count \in Nat \ {0}] ==
  IF count = 1 THEN <<>>
  ELSE doubling[count \div 2]
       \o <<[offset |-> count \div 2, accumulated |-> TRUE]>>
       \o (IF count % 2 = 1 THEN <<[offset |-> count - 1, accumulated |-> FALSE]>>
           ELSE <<>>)

rotation_sum_schedule(count, logarithmic) ==
  IF logarithmic THEN doubling[count]
  ELSE [k \in 1 .. count - 1 |-> [offset |-> k, accumulated |-> FALSE]]

-----------------------------------------------------------------------------
(* The key planner.  An inventory is a set of [index, frequency], one      *)
(* record for an index.                                                    *)

base_keys(slots) ==
  UNION {{2 ^ e, -(2 ^ e)} : e \in {f \in 0 .. 15 : 2 ^ f <= slots \div 2}}

Savings(use) == use.frequency * (Len(naf[use.index]) - 1)

direct_keys(inventory, slots, max_direct, affordable) ==
  LET candidates == {u \in inventory :
                       u.index \notin base_keys(slots) /\ Savings(u) > 0}
      within == Max({0, affordable - Cardinality(base_keys(slots))})
      budget == Min({max_direct, within})
      before(u, v) == \/ Savings(u) > Savings(v)
                      \/ Savings(u) = Savings(v) /\ u.index > v.index
  IN  {u.index : u \in {v \in candidates :
                          Cardinality({w \in candidates : before(w, v)}) < budget}}

plan_keys(inventory, slots, max_direct, affordable) ==
  LET direct == direct_keys(inventory, slots, max_direct, affordable)
      all == base_keys(slots) \cup direct
  IN  [all_keys |-> all,
       direct |-> direct,
       decompositions |->
         [i \in {u.index : u \in inventory} |-> IF i \in all THEN <<i>> ELSE naf[i]]]
=============================================================================
