---------------------------- MODULE DepthPlanner ---------------------------
(***************************************************************************)
(* plan_packed_depth as a search: sweeps over the program that hoist a     *)
(* refresh above a branch when a simulation of the whole program predicts  *)
(* fewer refreshes, until a sweep accepts none or Passes sweeps are done.  *)
(***************************************************************************)
EXTENDS PackedDepth

Feasible(p) == \A n \in Nodes(p) : Cost(p)[n] <= Ceiling - Refreshed

VARIABLES
  program,
  plan,     \* the plan: live, cost, hoists and the prediction for them
  pass,     \* sweeps made
  stopped   \* the last sweep accepted nothing

(* plan_packed_depth before the search. *)
PlannerInit ==
  /\ plan = Unhoisted(program)
  /\ pass = 0
  /\ stopped = FALSE

Sweep ==
  /\ ~stopped
  /\ pass < Passes
  /\ plan' = SearchPass(program, plan)
  /\ pass' = pass + 1
  /\ stopped' = (plan'.hoists = plan.hoists)
  /\ UNCHANGED program

-----------------------------------------------------------------------------

(* With operations that fit between a refresh and the ceiling, no value of *)
(* the plan lies beyond the ceiling, whatever was hoisted.                 *)
CeilingKept ==
  Feasible(program) => \A n \in plan.live : plan.levels[n] <= Ceiling

(* The plan is what the program and its hoists determine: live are exactly *)
(* the nodes an output depends on, and the prediction carried along is the *)
(* simulation of the accepted hoists; a rejected trial leaves no trace.    *)
PredictionCurrent ==
  LET sim == Simulate(program, plan)
  IN  /\ plan.live = Live(program)
      /\ plan.refreshes = sim.refreshes /\ plan.levels = sim.produced

(* When the search stops by itself, no further hoist above a branch would  *)
(* save a refresh: rejecting early and in one order lost nothing.          *)
LocallyOptimal ==
  stopped =>
    \A n \in plan.live \ plan.hoists :
       Cardinality(LiveUses(program, plan.live, n)) > 1 =>
         Simulate(program, Hoisted(plan, n)).refreshes >= plan.refreshes
=============================================================================
