--------------------------- MODULE PackedSchedule --------------------------
(***************************************************************************)
(* PackedReadySchedule (packed_schedule.hpp): the runtime frontier of a    *)
(* packed program.  It counts operand edges rather than distinct users and *)
(* holds back every node of a later feedback epoch.  The caller may        *)
(* complete any ready node; which one is the executor's choice.            *)
(***************************************************************************)
EXTENDS PackedProgram, Integers, FiniteSetsExt

CONSTANT Programs   \* programs the executable may have read

ASSUME ProgramsAssumption == \A p \in Programs : WellFormed(p)

VARIABLES
  program,          \* the program, fixed once read
  live,             \* the liveness vector of the depth plan
  pending,          \* operand edges of a live node not yet produced
  remaining_uses,   \* live consumer edges of a node not yet evaluated
  epoch_remaining,  \* live nodes of each epoch not yet evaluated
  remaining,        \* live nodes not yet evaluated
  done,             \* evaluated and dead nodes
  ready,            \* the frontier
  active_epoch,
  stalled           \* complete() threw "packed frontier cannot advance"

vars == <<program, live, pending, remaining_uses, epoch_remaining, remaining,
          done, ready, active_epoch, stalled>>

-----------------------------------------------------------------------------

(* The first epoch at or after "from" that still has work, or the number   *)
(* of epochs.                                                              *)
NextEpoch(p, from, left) ==
  Min({e \in from .. Epochs(p) : e < Epochs(p) => left[e] # 0})

(* The nodes activate_epoch inserts. *)
ActivatedAnyEpoch(p, unfinished, open, epoch) ==   \* mutant: no epoch test
  {n \in unfinished : open[n] = 0}
Activated(p, unfinished, open, epoch) ==
  {n \in unfinished : Epoch(p, n) = epoch /\ open[n] = 0}

InitialPending(p, L) ==
  [n \in Nodes(p) |-> IF n \in L THEN Len(p.parents[n]) ELSE 0]

EpochWork(p, L) ==
  [e \in 0 .. Epochs(p) - 1 |-> Cardinality({n \in L : Epoch(p, n) = e})]

Init ==
  /\ program \in Programs
  /\ live = Live(program)
  /\ pending = InitialPending(program, live)
  /\ remaining_uses = [n \in Nodes(program) |->
                         Cardinality(LiveUses(program, live, n))]
  /\ epoch_remaining = EpochWork(program, live)
  /\ remaining = Cardinality(live)
  /\ done = Nodes(program) \ live
  /\ active_epoch = NextEpoch(program, 0, epoch_remaining)
  /\ ready = Activated(program, live, pending, active_epoch)
  /\ stalled = FALSE

(* Edges of complete(i): its operands lose a use per edge, its live        *)
(* consumers a pending operand per edge.                                   *)
SpendUses(i) ==
  [n \in Nodes(program) |->
     remaining_uses[n] - Cardinality(EdgesBetween(program, n, i))]
DeliverPerUser(i) ==   \* mutant: one decrement per user, not per edge
  [c \in Nodes(program) |->
     IF c \in live /\ EdgesBetween(program, i, c) # {}
     THEN pending[c] - 1 ELSE pending[c]]
Deliver(i) ==
  [c \in Nodes(program) |->
     IF c \in live
     THEN pending[c] - Cardinality(EdgesBetween(program, i, c))
     ELSE pending[c]]
WokenAnyEpoch(i, open) ==   \* mutant: no barrier
  {c \in live : EdgesBetween(program, i, c) # {} /\ open[c] = 0}
Woken(i, open) ==
  {c \in live : /\ EdgesBetween(program, i, c) # {}
                /\ open[c] = 0
                /\ Epoch(program, c) = active_epoch}

Complete(i) ==
  /\ ~stalled
  /\ i \in ready
  /\ done' = done \cup {i}
  /\ remaining' = remaining - 1
  /\ epoch_remaining' = [epoch_remaining EXCEPT ![active_epoch] = @ - 1]
  /\ remaining_uses' = SpendUses(i)
  /\ pending' = Deliver(i)
  /\ LET frontier == (ready \ {i}) \cup Woken(i, pending')
     IN  IF epoch_remaining'[active_epoch] # 0
         THEN /\ ready' = frontier
              /\ UNCHANGED active_epoch
         ELSE /\ active_epoch' = NextEpoch(program, active_epoch, epoch_remaining')
              /\ ready' = frontier \cup Activated(program, live \ done', pending', active_epoch')
  /\ stalled' = (remaining' # 0 /\ ready' = {})
  /\ UNCHANGED <<program, live>>

Next == \E i \in Nodes(program) : Complete(i)

Spec == Init /\ [][Next]_vars /\ WF_vars(Next)

-----------------------------------------------------------------------------

(* Queries of the executor. *)
Pinned == program.outputs
LastOfOneUse(parent, operation) ==   \* mutant: x*x is never a final use
  parent \notin Pinned /\ remaining_uses[parent] = 1
final_use(parent, operation) ==
  /\ parent \notin Pinned
  /\ remaining_uses[parent] = Cardinality(EdgesBetween(program, parent, operation))
releasable(n) == n \notin Pinned /\ remaining_uses[n] = 0

-----------------------------------------------------------------------------

Unfinished == live \ done
Waiting(n) == {c \in Unfinished : n \in ParentsOf(program, c)}

(* Types of the counters, the frontier and the program. *)
TypeOK ==
  /\ WellFormed(program)
  /\ live \subseteq Nodes(program)
  /\ pending \in [Nodes(program) -> Nat]
  /\ remaining_uses \in [Nodes(program) -> Nat]
  /\ epoch_remaining \in [0 .. Epochs(program) - 1 -> Nat]
  /\ remaining \in Nat
  /\ done \subseteq Nodes(program)
  /\ ready \subseteq Nodes(program)
  /\ active_epoch \in 0 .. Epochs(program)
  /\ stalled \in BOOLEAN

(* The incremental frontier of complete() and activate_epoch() is exactly  *)
(* the set of nodes whose operands exist and whose epoch is open: nothing  *)
(* is offered early and nothing is forgotten.                              *)
FrontierExact ==
  ready = {n \in Unfinished : /\ ParentsOf(program, n) \subseteq done
                              /\ Epoch(program, n) = active_epoch}

(* final_use() licenses the executor to destroy an operand in place: it    *)
(* must hold exactly when the operand is no output and the operation is    *)
(* its only consumer still to come.                                        *)
FinalUseIsLast ==
  \A i \in ready : \A p \in ParentsOf(program, i) :
     final_use(p, i) <=> p \notin program.outputs /\ Waiting(p) = {i}

(* releasable() frees an evaluated value exactly when no live consumer is  *)
(* left, so memory is neither freed early nor kept.                        *)
ReleaseExact ==
  \A n \in live : releasable(n) <=> n \notin program.outputs /\ Waiting(n) = {}

(* complete() never throws "packed frontier cannot advance". *)
NeverStalls == ~stalled

(* Feedback epochs are barriers: a step evaluates a node only when every   *)
(* live node before the client callback that opened its epoch is done.     *)
EpochBarrier ==
  [][\A n \in done' \ done : \A m \in live :
        Epoch(program, m) < Epoch(program, n) => m \in done]_vars

-----------------------------------------------------------------------------

(* The inductive invariant: the four counters count what they are meant    *)
(* to, the open epoch is the first with work, evaluated nodes have         *)
(* evaluated operands.                                                     *)
CountersExact ==
  /\ \A c \in live :
       pending[c] = Cardinality({e \in EdgesInto(program, c) :
                                   Operand(program, e) \notin done})
  /\ \A n \in Nodes(program) :
       remaining_uses[n] = Cardinality({e \in LiveUses(program, live, n) :
                                          e[1] \notin done})
  /\ \A k \in 0 .. Epochs(program) - 1 :
       epoch_remaining[k] = Cardinality({n \in Unfinished : Epoch(program, n) = k})
  /\ remaining = Cardinality(Unfinished)

EpochOpen ==
  /\ \A n \in Unfinished : Epoch(program, n) >= active_epoch
  /\ active_epoch < Epochs(program) => epoch_remaining[active_epoch] # 0

DoneClosed ==
  /\ Nodes(program) \ live \subseteq done
  /\ \A n \in live \cap done : ParentsOf(program, n) \subseteq done

(* The counters of the schedule agree with the set of evaluated nodes at   *)
(* every point, whatever order the caller completes the frontier in.       *)
IInv ==
  /\ TypeOK
  /\ live = Live(program)
  /\ CountersExact
  /\ EpochOpen
  /\ DoneClosed
  /\ FrontierExact
  /\ NeverStalls

-----------------------------------------------------------------------------

(* The frontier evaluates the program as DagEvaluation promises: every     *)
(* live node once, after its operands and in its epoch, and all in the end. *)
Dag == INSTANCE DagEvaluation
RefinesDag == Dag!Spec

(* The safety part of it. *)
DagSafety == Dag!Init /\ [][Dag!Next]_(Dag!vars)
=============================================================================
