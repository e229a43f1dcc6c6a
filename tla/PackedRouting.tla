--------------------------- MODULE PackedRouting ---------------------------
(***************************************************************************)
(* How the packed executor moves coordinates between slots                 *)
(* (packed_routing.hpp): gather takes slot indices[i] to slot i, scatter   *)
(* takes slot i to slot indices[i].  A strictly increasing map with many   *)
(* distinct displacements is routed in stages, one digit of the            *)
(* displacements at a time; any other map is a sum of masked rotations,    *)
(* with shared baby rotations where the offsets are equally spaced.        *)
(*                                                                         *)
(* A map is a sequence; coordinate i of the code is element i + 1.         *)
(***************************************************************************)
EXTENDS Integers, Sequences, RotationSteps

CONSTANTS
  ManyOffsets,   \* more distinct displacements than this are staged: 32
  Radix          \* of the digits: 8, three bits

ASSUME RoutingAssumption == ManyOffsets \in Nat /\ Radix \in Nat \ {0, 1}

Coordinates(indices) == 0 .. Len(indices) - 1
Distance(indices, i) == indices[i + 1] - i

Offsets(indices) == {Distance(indices, i) : i \in Coordinates(indices)}
Monotone(indices) == \A i, j \in Coordinates(indices) :
                       i < j => indices[i + 1] < indices[j + 1]
Identity(indices) == \A i \in Coordinates(indices) : indices[i + 1] = i

\* mutant: so many displacements are staged already
StagedAtLimit(indices) == Monotone(indices) /\ Cardinality(Offsets(indices)) >= ManyOffsets
Staged(indices) == Monotone(indices) /\ Cardinality(Offsets(indices)) > ManyOffsets

-----------------------------------------------------------------------------

\* Digits needed for v; one stage even if nothing moves, for its mask.
Digits(v) == CHOOSE d \in 1 .. v + 1 :
               v < Radix ^ d /\ \A e \in 1 .. d - 1 : v >= Radix ^ e

\* Of a displacement, what the digits below the one of that unit move.  The
\* unit of a digit is the power of the radix it counts.
Below(distance, unit) == distance % unit
Digit(distance, unit) == Below(distance, Radix * unit) - Below(distance, unit)

\* mutant: an expansion, too, starts with its least digit
SourcePosition_ascending(indices, scatter, i, unit) ==
  IF scatter THEN i + Below(Distance(indices, i), unit)
  ELSE indices[i + 1] - Below(Distance(indices, i), unit)

\* Where coordinate i is before the stage of that digit: a compaction takes
\* its digits from the least, an expansion from the greatest.
SourcePosition(indices, scatter, i, unit) ==
  IF scatter THEN indices[i + 1] - Below(Distance(indices, i), Radix * unit)
  ELSE indices[i + 1] - Below(Distance(indices, i), unit)

\* The stages in order, each the positions to select for each left rotation.
monotone_routing(indices, scatter) ==
  LET moved == Digits(Max(Offsets(indices) \cup {0}))
      stage(unit) ==
        LET shift(i) == IF scatter THEN -Digit(Distance(indices, i), unit)
                        ELSE Digit(Distance(indices, i), unit)
        IN  [offset \in {shift(i) : i \in Coordinates(indices)} |->
               {SourcePosition(indices, scatter, i, unit) :
                  i \in {c \in Coordinates(indices) : shift(c) = offset}}]
  IN  [k \in 1 .. moved |-> stage(Radix ^ (IF scatter THEN moved - k ELSE k - 1))]

\* mutant: shared rotations with the masks of the single ones
AtSource(stage) == stage

\* packed_routing_masks: select at the destination instead of the source.
AtDestination(stage) ==
  [offset \in DOMAIN stage |-> {p - offset : p \in stage[offset]}]

\* The masks of the unstaged map: rotation by source minus destination, then
\* the destinations.
DirectMasks(indices, scatter) ==
  LET source(i) == IF scatter THEN i ELSE indices[i + 1]
      destination(i) == IF scatter THEN indices[i + 1] ELSE i
      offset(i) == source(i) - destination(i)
  IN  [by \in {offset(i) : i \in Coordinates(indices)} |->
         {destination(i) : i \in {c \in Coordinates(indices) : offset(c) = by}}]

\* The levels the depth plan counts for a map (packed_depth.hpp).  The plan
\* has its own copy of the distinctions above, and counts digits by dividing.
packed_routing_depth(indices, scatter) ==
  LET increasing == \A k \in 2 .. Len(indices) : indices[k] > indices[k - 1]
      identity == \A k \in 1 .. Len(indices) : indices[k] = k - 1
      displacements == {indices[k] + 1 - k : k \in 1 .. Len(indices)}
      divisions[v \in Nat] == IF v = 0 THEN 0 ELSE 1 + divisions[v \div Radix]
  IN  CASE scatter /\ identity -> 0
        [] ~ increasing \/ Cardinality(displacements) <= ManyOffsets -> 1
        [] OTHER -> Max({1, divisions[Max(displacements \cup {0})]})

-----------------------------------------------------------------------------
(* Shared rotations for equally spaced offsets.                            *)

Ascending(offsets) ==
  [k \in 1 .. Cardinality(offsets) |->
     CHOOSE x \in offsets : Cardinality({y \in offsets : y < x}) = k - 1]

Descending(offsets) == [k \in 1 .. Cardinality(offsets) |->
                          Ascending(offsets)[Cardinality(offsets) + 1 - k]]

Regular(offsets) ==
  \A k \in 2 .. Len(offsets) - 1 :
    offsets[k + 1] - offsets[k] = offsets[2] - offsets[1]

Firsts(count, baby) == {f \in 0 .. count - 1 : f % baby = 0}

\* Every offset is rotated by itself.
DirectCost(offsets, slots, with_naf) ==
  FoldSet(LAMBDA offset, sum : sum + packed_rotation_cost(offset, slots, with_naf),
          0, offsets)

\* Rotations of the schedule with that many baby rotations.
SharedCost(offsets, baby, slots, with_naf) ==
  LET step == offsets[2] - offsets[1]
  IN  DirectCost({offsets[1] + j * step : j \in 0 .. baby - 1}, slots, with_naf)
      + DirectCost({f * step : f \in Firsts(Len(offsets), baby)}, slots, with_naf)

\* A schedule; without baby rotations it is the direct one.
Schedule(offsets, baby_step, rotations) ==
  [offsets |-> offsets, baby_step |-> baby_step, rotations |-> rotations]

SharedSchedules(offsets, slots, with_naf) ==
  {Schedule(offsets, b, SharedCost(offsets, b, slots, with_naf)) : b \in 2 .. Len(offsets) - 1}

\* p is tried before q: ascending offsets before descending ones, and less
\* sharing before more.
Before(p, q) ==
  \/ p.offsets = q.offsets /\ p.baby_step < q.baby_step
  \/ p.offsets # q.offsets /\ p.offsets[1] < p.offsets[2]

\* The first of the cheapest.
Cheapest(schedules) ==
  CHOOSE p \in schedules : \A q \in schedules \ {p} :
    \/ p.rotations < q.rotations
    \/ p.rotations = q.rotations /\ Before(p, q)

plan_packed_diagonals(offsets, slots, with_naf) ==
  LET up == Ascending(offsets)
      orders == IF Len(up) < 3 \/ ~ Regular(up) THEN {} ELSE {up, Descending(offsets)}
  IN  Cheapest({Schedule(up, 0, DirectCost(offsets, slots, with_naf))}
               \cup UNION {SharedSchedules(s, slots, with_naf) : s \in orders})
=============================================================================
