---------------------------- MODULE PackedDepth ----------------------------
(***************************************************************************)
(* The static depth plan of packed_depth.hpp: levels consumed per node,    *)
(* projection masks deferred to gathers, and a simulation that predicts    *)
(* where the executor refreshes.  A level counts consumed primes; -1 is a  *)
(* fresh ciphertext.  Beyond PackedProgram a program p gives, per node,    *)
(*   p.data      Chebyshev coefficients ("cheb"), or routing stages (a     *)
(*               gather has at least one)                                  *)
(*   p.size      slots it occupies                                         *)
(*   p.interval  the normalisation interval of a "cheb"                    *)
(*   p.spent     levels the evaluation of the node spends when its result  *)
(*               is masked                                                 *)
(* and p.slots, the slots of a ciphertext.                                 *)
(***************************************************************************)
EXTENDS PackedProgram, Integers, FiniteSetsExt

CONSTANTS Ceiling,    \* deepest level an operation may produce
          Refreshed   \* level of a bootstrapped ciphertext

ASSUME PolicyAssumption ==
  /\ Refreshed \in Nat
  /\ Ceiling \in Nat
  /\ Refreshed < Ceiling

Fresh == -1

(* packed_node_depth.  A Chebyshev node spends an affine level, the height *)
(* of its evaluation tree and one level of padding correction.             *)
TreeHeight(coefficients) == Min({d \in 0 .. coefficients : 2 ^ d >= coefficients})
NodeDepth(p, n) ==
  CASE p.op[n] \in Sources \cup {"feedback", "add", "alias"} -> 0
    [] p.op[n] = "mul" -> 1
    [] p.op[n] = "cheb" -> TreeHeight(p.data[n]) + 2
    [] p.op[n] = "linear" -> 2
    [] OTHER -> p.data[n]

(* The plan bounds two operations from above: a projection that is not     *)
(* replicated is one product with masked weights, and a polynomial with    *)
(* few coefficients (or a number that is not a power of two) needs less    *)
(* than its tree and its padding.                                          *)
LeastSpent(p, n) ==
  CASE p.op[n] = "linear" -> 1
    [] p.op[n] = "cheb" -> 2
    [] OTHER -> NodeDepth(p, n)

Annotated(p) ==
  /\ p.slots \in Nat \ {0}
  /\ p.data \in [Nodes(p) -> Nat]
  /\ p.size \in [Nodes(p) -> 1 .. p.slots]
  /\ DOMAIN p.interval = Nodes(p)
  /\ \A n \in Nodes(p) : p.op[n] = "gather" => p.data[n] >= 1
  /\ p.spent \in [Nodes(p) -> Nat]
  /\ \A n \in Nodes(p) : p.spent[n] \in LeastSpent(p, n) .. NodeDepth(p, n)

(* A projection leaves its output mask to its consumers when all of them,  *)
(* dead ones included, are gathers and no client reads it.                 *)
DeferredDespiteOutput(p) ==   \* mutant: outputs are left unmasked
  {n \in Nodes(p) : /\ p.op[n] = "linear"
                    /\ \A e \in EdgesFrom(p, n) : p.op[e[1]] = "gather"}
DeferredMask(p) ==
  {n \in Nodes(p) : /\ p.op[n] = "linear"
                    /\ \A e \in EdgesFrom(p, n) : p.op[e[1]] = "gather"
                    /\ n \notin p.outputs}

Cost(p) ==
  [n \in Nodes(p) |-> NodeDepth(p, n) - IF n \in DeferredMask(p) THEN 1 ELSE 0]

(* The backward sweep that marks the live nodes. *)
LiveSweep(p) ==
  LET sweep[k \in 0 .. p.count] ==
        IF k = 0 THEN p.outputs
        ELSE LET n == p.count - k
             IN  sweep[k - 1] \cup (IF n \in sweep[k - 1] THEN ParentsOf(p, n) ELSE {})
  IN  sweep[p.count]

-----------------------------------------------------------------------------

(* simulate_packed_depth over a plan [live, cost, hoists].  "current" is   *)
(* the level of the value a node holds, "produced" the level it was made   *)
(* at; cost is that of the node that reads its operands.                   *)
ReadOperandUncached(cost, s, m) ==   \* mutant: a refresh serves one consumer
  IF s.current[m] + cost > Ceiling
  THEN [s EXCEPT !.refreshes = @ + 1, !.level = Max({@, Refreshed})]
  ELSE [s EXCEPT !.level = Max({@, s.current[m]})]
ReadOperand(cost, s, m) ==
  IF s.current[m] + cost > Ceiling
  THEN [s EXCEPT !.current[m] = Refreshed, !.refreshes = @ + 1,
                 !.level = Max({@, Refreshed})]
  ELSE [s EXCEPT !.level = Max({@, s.current[m]})]

ReadOperands(p, cost, s, n) ==
  LET read[k \in 0 .. Len(p.parents[n])] ==
        IF k = 0 THEN [s EXCEPT !.level = Fresh]
        ELSE ReadOperand(cost, read[k - 1], p.parents[n][k])
  IN  read[Len(p.parents[n])]

SimulateNode(p, plan, s, n) ==
  LET fed  == p.op[n] = "feedback"
      read == IF fed THEN s ELSE ReadOperands(p, plan.cost[n], s, n)
      out  == IF fed THEN Fresh ELSE read.level + plan.cost[n]
      cut  == n \in plan.hoists /\ out > Refreshed
      kept == IF cut THEN Refreshed ELSE out
  IN  [read EXCEPT !.current[n] = kept, !.produced[n] = kept,
                   !.refreshes = @ + IF cut THEN 1 ELSE 0]

Simulate(p, plan) ==
  LET start == [current |-> [n \in Nodes(p) |-> Fresh],
                produced |-> [n \in Nodes(p) |-> 0],
                refreshes |-> 0, level |-> Fresh]
      run[k \in 0 .. p.count] ==
        IF k = 0 THEN start
        ELSE IF k - 1 \in plan.live THEN SimulateNode(p, plan, run[k - 1], k - 1)
        ELSE run[k - 1]
  IN  run[p.count]

-----------------------------------------------------------------------------

(* A plan: the hoists, what the simulation is told of the program, and     *)
(* what the last accepted simulation predicted.                            *)
Plans(p) ==
  [live : SUBSET Nodes(p), cost : [Nodes(p) -> Int], hoists : SUBSET Nodes(p),
   refreshes : Nat, levels : [Nodes(p) -> Int]]

(* plan_packed_depth before the search, and one trial of the search.       *)
Predicted(p, plan) ==
  LET sim == Simulate(p, plan)
  IN  [plan EXCEPT !.refreshes = sim.refreshes, !.levels = sim.produced]
Unhoisted(p) ==
  Predicted(p, [live |-> LiveSweep(p), cost |-> Cost(p), hoists |-> {},
                refreshes |-> 0, levels |-> [n \in Nodes(p) |-> 0]])

BranchesOfThree(p, plan, n) ==   \* mutant: off by one
  /\ n \in plan.live \ plan.hoists
  /\ Cardinality(LiveUses(p, plan.live, n)) >= 3
  /\ plan.levels[n] > Refreshed
Branches(p, plan, n) ==
  /\ n \in plan.live \ plan.hoists
  /\ Cardinality(LiveUses(p, plan.live, n)) >= 2
  /\ plan.levels[n] > Refreshed

Hoisted(plan, n) == [plan EXCEPT !.hoists = @ \cup {n}]
TrialStaleLevels(p, plan, n) ==   \* mutant: levels are not simulated again
  LET sim == Simulate(p, Hoisted(plan, n))
  IN  IF Branches(p, plan, n) /\ sim.refreshes < plan.refreshes
      THEN [Hoisted(plan, n) EXCEPT !.refreshes = sim.refreshes]
      ELSE plan
Trial(p, plan, n) ==
  IF Branches(p, plan, n) /\ Simulate(p, Hoisted(plan, n)).refreshes < plan.refreshes
  THEN Predicted(p, Hoisted(plan, n))
  ELSE plan

Passes == 8

(* One sweep of the search.  At most Passes are made. *)
SearchPass(p, plan) ==
  LET at[k \in 0 .. p.count] == IF k = 0 THEN plan ELSE Trial(p, at[k - 1], k - 1)
  IN  at[p.count]
=============================================================================
