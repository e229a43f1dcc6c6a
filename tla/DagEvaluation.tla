--------------------------- MODULE DagEvaluation ---------------------------
(***************************************************************************)
(* What any evaluation order of a packed program promises: a live node is  *)
(* evaluated once, after its operands, and never before every live node of *)
(* an earlier feedback epoch.  The file order and the ready frontier of    *)
(* packed_schedule.hpp are two implementations.                            *)
(***************************************************************************)
EXTENDS PackedProgram

VARIABLES program, live, done

vars == <<program, live, done>>

Init ==
  /\ WellFormed(program)
  /\ live = Live(program)
  /\ done = Nodes(program) \ live

Evaluate(n) ==
  /\ n \in live \ done
  /\ ParentsOf(program, n) \subseteq done
  /\ \A m \in live : Epoch(program, m) < Epoch(program, n) => m \in done
  /\ done' = done \cup {n}
  /\ UNCHANGED <<program, live>>

Next == \E n \in Nodes(program) : Evaluate(n)

Spec == Init /\ [][Next]_vars /\ WF_vars(Next)

(* Every output is eventually evaluated. *)
Delivers == <>(program.outputs \subseteq done)
=============================================================================
