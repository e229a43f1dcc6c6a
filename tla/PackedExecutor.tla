--------------------------- MODULE PackedExecutor --------------------------
(***************************************************************************)
(* PackedEvaluator::evaluate (packed_fideslib.cpp) under planned refresh:  *)
(* the loop that picks a node, refreshes operands that would pass the      *)
(* ceiling, applies the operation and releases values nobody needs.  It    *)
(* owns the ciphertext handles; the order comes from the file or from      *)
(* PackedSchedule.  A handle is an index into heap; a record of heap says  *)
(* whose numerical value the ciphertext holds and at which level.          *)
(***************************************************************************)
EXTENDS DepthPlanner

CONSTANTS
  Programs,     \* programs the executable may have read
  Options,      \* command lines: [frontier, batch, reuse, share]
  BootLevels,   \* levels a bootstrap may return
  Margin,       \* a value this close to the ceiling joins a batch (6)
  GroupLimit,   \* values in one batch (16)
  Depth         \* multiplicative depth of the context (44)

ASSUME ExecutorAssumption ==
  /\ \A o \in Options : o.frontier => o.batch
  /\ \A p \in Programs : WellFormed(p) /\ Annotated(p)
  /\ BootLevels \in (SUBSET (0 .. Ceiling)) \ {{}}
  /\ \A p \in Programs : \A n \in Nodes(p) : Cost(p)[n] \in 0 .. Ceiling - Max(BootLevels)
  /\ Depth \in Nat /\ Ceiling + 4 <= Depth

VARIABLES
  live, pending, remaining_uses, epoch_remaining, remaining, done,
  ready, active_epoch, stalled,   \* of PackedSchedule
  options,
  phase, current, operand,        \* where the loop is
  values,     \* the handle of each node, or Null
  heap,       \* the ciphertexts ever made
  dirty,      \* nodes whose projection mask was deferred
  bases,      \* the shared Chebyshev basis of each group, or NoBasis
  refreshes,  \* logical_refreshes
  unmasked,   \* a bootstrap ran on unmasked coordinates
  deepest     \* deepest level of any ciphertext so far

Schedule == INSTANCE PackedSchedule
schedule == <<live, pending, remaining_uses, epoch_remaining, remaining, done,
              ready, active_epoch, stalled>>
planning == <<plan, pass, stopped>>
loop == <<phase, current, operand>>
store == <<values, heap, dirty>>
vars == <<program, schedule, options, planning, loop, store, bases, refreshes,
          unmasked, deepest>>

Null == 0
None == -1
NoBasis == [source |-> Null, level |-> Fresh, content |-> <<>>]

-----------------------------------------------------------------------------

(* Uses of a value as the executor asks for them. *)
LastUseUnpinned(m) == Max(Consumers(program, live, m) \cup {0})   \* mutant
LastUse(m) ==
  IF m \in program.outputs THEN program.count
  ELSE Max(Consumers(program, live, m) \cup {0})

FinalUse(m, n) ==
  IF options.frontier THEN Schedule!final_use(m, n) ELSE LastUse(m) = n

NextUse(m, from) ==
  LET left == {c \in Consumers(program, live, m) :
                 IF options.frontier THEN c \notin done ELSE c >= from}
  IN  IF left = {} THEN None ELSE Min(left)

Level(m) == Max({0, heap[values[m]].level})
UseCount(vals, h) == Cardinality({n \in Nodes(program) : vals[n] = h})

-----------------------------------------------------------------------------

(* The Chebyshev nodes that share the basis of n. *)
GroupAnyInterval(n) ==   \* mutant: the interval is not part of the key
  {m \in live : /\ program.op[m] = "cheb"
                /\ program.parents[m] = program.parents[n]
                /\ program.size[m] = program.size[n]}
GroupWithDead(n) ==   \* mutant: dead nodes are counted
  {m \in Nodes(program) : /\ program.op[m] = "cheb"
                          /\ program.parents[m] = program.parents[n]
                          /\ program.size[m] = program.size[n]
                          /\ program.interval[m] = program.interval[n]}
SharingGroup(n) ==
  {m \in live : /\ program.op[m] = "cheb"
                /\ program.parents[m] = program.parents[n]
                /\ program.size[m] = program.size[n]
                /\ program.interval[m] = program.interval[n]}

(* The value a node's ciphertext holds: an identity routing returns the    *)
(* handle of its operand.                                                  *)
Root(p, n) ==
  LET root[m \in Nodes(p)] == IF p.op[m] = "alias" THEN root[p.parents[m][1]] ELSE m
  IN  root[n]

-----------------------------------------------------------------------------

Init ==
  /\ Schedule!Init
  /\ PlannerInit
  /\ options \in Options
  /\ phase = "planning" /\ current = None /\ operand = 1
  /\ values = [n \in Nodes(program) |-> Null]
  /\ heap = <<>>
  /\ dirty = {}
  /\ bases = [n \in Nodes(program) |-> NoBasis]
  /\ refreshes = 0
  /\ unmasked = FALSE
  /\ deepest = 0

(* The depth plan is searched first.  The frontier drops its hoists and    *)
(* predicts again, which undoes the search.                                *)
Plan ==
  /\ phase = "planning"
  /\ IF options.frontier \/ stopped \/ pass = Passes
     THEN /\ phase' = "idle"
          /\ plan' = IF options.frontier THEN Unhoisted(program) ELSE plan
          /\ UNCHANGED <<pass, stopped>>
     ELSE Sweep /\ UNCHANGED phase
  /\ UNCHANGED <<program, schedule, options, current, operand, store, bases,
                 refreshes, unmasked, deepest>>

(* The next node: in file order, or the first ready node whose operands    *)
(* need no refresh, or the first ready node.                               *)
Fits(n) ==
  \/ program.op[n] = "feedback"
  \/ \A m \in ParentsOf(program, n) : Level(m) + plan.cost[n] <= Ceiling
Pick ==
  LET fitting == {n \in ready : Fits(n)}
  IN  Min(IF ~options.frontier THEN live \ done
          ELSE IF fitting # {} THEN fitting ELSE ready)

Begin ==
  /\ phase = "idle"
  /\ live \ done # {}
  /\ ~stalled
  /\ current' = Pick
  /\ operand' = 1
  /\ phase' = "operands"
  /\ UNCHANGED <<program, schedule, options, planning, store, bases, refreshes,
                 unmasked, deepest>>

-----------------------------------------------------------------------------

(* refresh_value: the requested value and, when batching, others whose     *)
(* next use is close to the ceiling, while slots last.                     *)
Joins(group, m, requested, from) ==
  /\ Cardinality(group.members) < GroupLimit
  /\ m # requested
  /\ values[m] # Null
  /\ group.occupied + program.size[m] <= program.slots
  /\ LET next == NextUse(m, from)
     IN  /\ next # None
         /\ program.op[next] # "feedback"
         /\ Level(m) > Refreshed
         /\ Level(m) < Ceiling - Margin => Level(m) + plan.cost[next] > Ceiling
Admit(group, m, requested, from) ==
  IF Joins(group, m, requested, from)
  THEN [members |-> group.members \cup {m}, occupied |-> group.occupied + program.size[m]]
  ELSE group
Group(requested, from) ==
  LET upto[k \in 0 .. program.count] ==
        IF k = 0 THEN [members |-> {requested}, occupied |-> program.size[requested]]
        ELSE Admit(upto[k - 1], k - 1, requested, from)
  IN  IF options.batch THEN upto[program.count].members ELSE {requested}

(* What is still dirty when the bootstrap runs: a batch masks its members, *)
(* a single value is cleaned first.                                        *)
StillDirtyAlone(group) ==   \* mutant: a single value is not cleaned
  IF Cardinality(group) > 1 THEN dirty \ group ELSE dirty
StillDirty(group) == dirty \ group

(* Levels spent before the second bootstrap of the two-pass wrapper: the   *)
(* mask or scale, the mask of a dirty single value, the rescale and the    *)
(* residual's scale.                                                       *)
SpentByRefresh(group, m) ==
  heap[values[m]].level + 3 + IF Cardinality(group) = 1 /\ m \in dirty THEN 1 ELSE 0

RefreshValue(requested, from, level) ==
  LET group == Group(requested, from)
      rank(m) == Cardinality({j \in group : j <= m})
      member(k) == CHOOSE m \in group : rank(m) = k
  IN  /\ heap' = heap \o [k \in 1 .. Cardinality(group) |->
                            [root |-> heap[values[member(k)]].root, level |-> level]]
      /\ values' = [m \in Nodes(program) |->
                      IF m \in group THEN Len(heap) + rank(m) ELSE values[m]]
      /\ dirty' = StillDirty(group)
      /\ unmasked' = (unmasked \/ group \cap StillDirty(group) # {})
      /\ refreshes' = refreshes + Cardinality(group)
      /\ deepest' = Max({deepest} \cup {SpentByRefresh(group, m) : m \in group})

LateOperandsNoCost ==   \* mutant: the operation's own cost is forgotten
  {k \in operand .. Len(program.parents[current]) :
     program.op[current] # "feedback" /\ Level(program.parents[current][k]) > Ceiling}
LateOperands ==
  {k \in operand .. Len(program.parents[current]) :
     /\ program.op[current] # "feedback"
     /\ Level(program.parents[current][k]) + plan.cost[current] > Ceiling}

RefreshOperand(level) ==
  /\ phase = "operands"
  /\ LateOperands # {}
  /\ LET k == Min(LateOperands)
     IN  /\ RefreshValue(program.parents[current][k], current, level)
         /\ operand' = k + 1
  /\ UNCHANGED <<program, schedule, options, planning, phase, current, bases>>

-----------------------------------------------------------------------------

(* consume_or_clone: a dying operand gives up its ciphertext only if no    *)
(* other node holds it.                                                    *)
ConsumesAliased(vals, m) ==   \* mutant: the use count is not consulted
  options.reuse /\ FinalUse(m, current)
Consumes(vals, m) ==
  options.reuse /\ FinalUse(m, current) /\ UseCount(vals, vals[m]) = 1

(* Where the result of the current node goes: values and heap after it.    *)
Stored(vals, level) ==
  /\ heap' = Append(heap, [root |-> current, level |-> level])
  /\ values' = [vals EXCEPT ![current] = Len(heap) + 1]
StoredIn(vals, handle, level) ==
  /\ heap' = [heap EXCEPT ![handle] = [root |-> current, level |-> level]]
  /\ values' = [vals EXCEPT ![current] = handle]

Source ==
  /\ program.op[current] \in Sources \cup {"feedback"}
  /\ Stored(values, Fresh)
  /\ UNCHANGED <<dirty, bases>>

(* The right operand is taken first, the left one receives the result.     *)
Binary ==
  LET left   == program.parents[current][1]
      right  == program.parents[current][2]
      level  == Max({heap[values[left]].level, heap[values[right]].level})
                  + plan.cost[current]
      taken  == IF right # left /\ Consumes(values, right)
                THEN [values EXCEPT ![right] = Null] ELSE values
  IN  /\ program.op[current] \in Binaries
      /\ IF Consumes(taken, left)
         THEN StoredIn([taken EXCEPT ![left] = Null], values[left], level)
         ELSE Stored(taken, level)
      /\ UNCHANGED <<dirty, bases>>

Alias ==
  /\ program.op[current] = "alias"
  /\ values' = [values EXCEPT ![current] = values[program.parents[current][1]]]
  /\ UNCHANGED <<heap, dirty, bases>>

(* What an operation spends: at most the bound of the plan, which counts   *)
(* no mask for a projection that leaves it to its gathers.                 *)
Spent(n) == IF program.spent[n] < plan.cost[n] THEN program.spent[n] ELSE plan.cost[n]

Unary ==
  /\ program.op[current] \in {"unary", "linear"}
  /\ Stored(values, heap[values[program.parents[current][1]]].level + Spent(current))
  /\ dirty' = IF current \in DeferredMask(program) THEN dirty \cup {current} ELSE dirty
  /\ UNCHANGED bases

(* A gather routes in stages of one level and bootstraps in between when a *)
(* stage would pass the ceiling; the first stage is also the mask of a     *)
(* dirty operand.                                                          *)
Gather ==
  LET m      == program.parents[current][1]
      stages == plan.cost[current]
      room   == Ceiling - heap[values[m]].level
  IN  /\ program.op[current] = "gather"
      /\ Stored(values, IF stages <= room THEN heap[values[m]].level + stages
                        ELSE Refreshed + stages - room)
      /\ refreshes' = refreshes + IF stages <= room THEN 0 ELSE 1
      /\ unmasked' = (unmasked \/ (room = 0 /\ m \in dirty))
      /\ UNCHANGED <<dirty, bases>>

(* A shared basis is used if it was made from this very ciphertext at this *)
(* level, else made again; the last member of the group drops it.          *)
BasisOf(m) == [source |-> values[m], level |-> heap[values[m]].level,
               content |-> <<Root(program, m), program.interval[current]>>]
Chebyshev ==
  LET m     == program.parents[current][1]
      group == SharingGroup(current)
      key   == Min(group)
      hit   == /\ bases[key].source = values[m]
               /\ bases[key].level = heap[values[m]].level
  IN  /\ program.op[current] = "cheb"
      /\ Stored(values, heap[values[m]].level + Spent(current))
      /\ bases' = IF ~options.share \/ Cardinality(group) = 1 THEN bases
                  ELSE IF group \ (live \cap done) = {current} THEN [bases EXCEPT ![key] = NoBasis]
                  ELSE IF hit THEN bases
                  ELSE [bases EXCEPT ![key] = BasisOf(m)]
      /\ UNCHANGED dirty

Apply ==
  /\ phase = "operands"
  /\ LateOperands = {}
  /\ \/ Gather
     \/ /\ Source \/ Binary \/ Alias \/ Unary \/ Chebyshev
        /\ UNCHANGED <<refreshes, unmasked>>
  /\ phase' = "produced"
  /\ deepest' = Max({deepest, heap'[values'[current]].level})
  /\ UNCHANGED <<program, schedule, options, planning, current, operand>>

(* A hoisted refresh of the node just made. *)
HoistDue == current \in plan.hoists /\ Level(current) > Refreshed
HoistRefresh(level) ==
  /\ phase = "produced"
  /\ HoistDue
  /\ RefreshValue(current, current + 1, level)
  /\ phase' = "hoisted"
  /\ UNCHANGED <<program, schedule, options, planning, current, operand, bases>>

(* The node is complete and its dead operands are released.                *)
Retire ==
  /\ phase = "hoisted" \/ (phase = "produced" /\ ~HoistDue)
  /\ IF options.frontier THEN Schedule!Complete(current)
     ELSE /\ done' = done \cup {current}
          /\ UNCHANGED <<program, live, pending, remaining_uses, epoch_remaining,
                         remaining, ready, active_epoch, stalled>>
  /\ LET dead(m) == IF options.frontier THEN Schedule!releasable(m)'
                    ELSE LastUse(m) = current
     IN  values' = [m \in Nodes(program) |->
                      IF m \in ParentsOf(program, current) /\ dead(m) THEN Null ELSE values[m]]
  /\ phase' = "idle"
  /\ current' = None
  /\ operand' = 1
  /\ UNCHANGED <<options, planning, heap, dirty, bases, refreshes, unmasked, deepest>>

(* evaluate() returns the outputs.  No other state may be without a step.  *)
Finished == phase = "idle" /\ live \subseteq done
Finish == Finished /\ UNCHANGED vars

Next ==
  \/ Plan
  \/ Begin
  \/ \E level \in BootLevels : RefreshOperand(level) \/ HoistRefresh(level)
  \/ Apply
  \/ Retire
  \/ Finish

Spec == Init /\ [][Next]_vars

-----------------------------------------------------------------------------

Held == {n \in Nodes(program) : values[n] # Null}

(* Every handle a node holds carries that node's value: destroying dying   *)
(* operands in place never overwrites a value an alias, an output or a     *)
(* later consumer still names.                                             *)
HandleIntegrity == \A n \in Held : heap[values[n]].root = Root(program, n)

(* Between operations a value is held exactly as long as it is needed: it  *)
(* is there for every consumer still to come, outputs survive to the end   *)
(* and nothing else does.                                                  *)
RetainedExactly ==
  phase = "idle" =>
    Held = {n \in live \cap done :
              \/ n \in program.outputs
              \/ \E c \in live \ done : n \in ParentsOf(program, c)}

(* Unmasked replica coordinates of a deferred projection are read by       *)
(* gathers only, and no client sees them.                                  *)
DirtyOnlyGathered ==
  /\ phase = "operands" =>
       \A m \in ParentsOf(program, current) \cap dirty : program.op[current] = "gather"
  /\ phase = "idle" => dirty \cap program.outputs = {}

(* "Never bootstrap unmasked replica/guard coordinates."                   *)
NeverBootsUnmasked == ~unmasked

(* No ciphertext, the scratch values of a refresh included, needs more     *)
(* levels than the context has, and no held value is beyond the ceiling.   *)
DepthBudget ==
  /\ deepest <= Depth
  /\ \A n \in Held : Level(n) <= Ceiling

(* The executor refreshes where the depth plan foresees it: in file order  *)
(* without batches, as long as every operation done so far has spent the   *)
(* levels it was counted with, each value has the predicted level until it *)
(* is refreshed, and at the end there were as many refreshes as predicted. *)
(* The bounds are conservative, so a program may spend less and need other *)
(* refreshes than predicted ("predicts 378 physical refreshes while the    *)
(* real baseline uses 363").                                               *)
BoundsMet == \A n \in live \cap done : Spent(n) = plan.cost[n]
PlanIsExact ==
  ~options.batch /\ phase = "idle" /\ BoundsMet =>
    /\ \A n \in Held : heap[values[n]].level \in {plan.levels[n], Refreshed}
    /\ Finished => refreshes = plan.refreshes

(* A shared Chebyshev basis that would be taken for an operand was made    *)
(* from that operand's value and on that node's interval, although handles *)
(* are overwritten and refreshed between the members of a group.           *)
BasisSound ==
  \A n \in {m \in live \ done : program.op[m] = "cheb"} :
     LET m     == program.parents[n][1]
         basis == bases[Min(SharingGroup(n))]
     IN  /\ basis # NoBasis
         /\ phase \in {"idle", "operands"}
         /\ values[m] # Null
         /\ basis.source = values[m]
         /\ basis.level = heap[values[m]].level
         => basis.content = <<Root(program, m), program.interval[n]>>

(* No shared basis outlives its group. *)
BasesDropped ==
  Finished => \A n \in Nodes(program) : bases[n] = NoBasis

(* While plan_packed_depth searches, its plan is what DepthPlanner states  *)
(* of it: levels stay below the ceiling, whatever was hoisted;             *)
PlanCeilingKept == phase = "planning" => CeilingKept

(* the prediction belongs to the accepted hoists, and rejected trials      *)
(* leave no trace;                                                         *)
PlanPredictionCurrent == phase = "planning" => PredictionCurrent

(* and where the search stops, no hoist above a branch would pay.          *)
PlanLocallyOptimal == phase = "planning" => LocallyOptimal

(* Whatever the options, the executor evaluates the program in an order    *)
(* DagEvaluation allows.                                                   *)
Dag == INSTANCE DagEvaluation
EvaluatesDag == Dag!Init /\ [][Dag!Next]_(Dag!vars)

-----------------------------------------------------------------------------

(* The inductive invariant.                                                *)
Working == phase \in {"operands", "produced", "hoisted"}
Made == phase \in {"produced", "hoisted"}

(* A ciphertext holds the value of a node at a level below the ceiling.    *)
TypeOK ==
  /\ program \in Programs
  /\ options \in Options
  /\ plan \in Plans(program) /\ plan.cost = Cost(program)
  /\ phase \in {"planning", "idle", "operands", "produced", "hoisted"}
  /\ operand \in Nat \ {0}
  /\ heap \in Seq([root : Nodes(program), level : -1 .. Ceiling])
  /\ values \in [Nodes(program) -> 0 .. Len(heap)]
  /\ dirty \subseteq DeferredMask(program)
  /\ DOMAIN bases = Nodes(program)
  /\ deepest \in 0 .. Depth

(* The plan: its prediction is current, a search that ended ended at a     *)
(* local optimum, and the frontier never searches.                         *)
PlanKept ==
  /\ PredictionCurrent
  /\ LocallyOptimal
  /\ options.frontier => ~stopped

(* The order: the frontier's own invariant, or everything before a point   *)
(* of the file.                                                            *)
OrderKept ==
  /\ live = Live(program)
  /\ done \subseteq Nodes(program)
  /\ Nodes(program) \ live \subseteq done
  /\ ~stalled
  /\ options.frontier => Schedule!IInv
  /\ ~options.frontier => \A m \in live \cap done, n \in live \ done : m < n
  /\ Working =>
       /\ current \in live \ done
       /\ IF options.frontier THEN current \in ready
          ELSE \A n \in live \ done : current <= n

(* Between operations exactly the needed values are held; an operation may *)
(* have taken operands nobody else waits for.                              *)
Awaits(c, m) == c \in live \ done /\ m \in ParentsOf(program, c)
Needed == {n \in live \cap done : n \in program.outputs \/ \E c \in live : Awaits(c, n)}
LastAwaited(m) == m \notin program.outputs /\ \A c \in live : Awaits(c, m) => c = current
HeldAsNeeded ==
  IF Made
  THEN /\ current \in Held
       /\ Held \ {current} \subseteq Needed
       /\ \A m \in Needed \ Held : m \in ParentsOf(program, current) /\ LastAwaited(m)
  ELSE Held = Needed

(* Operands before "operand" leave room for the operation. *)
OperandsFit ==
  phase = "operands" /\ program.op[current] # "feedback" =>
    \A k \in DOMAIN program.parents[current] :
       k < operand => Level(program.parents[current][k]) + plan.cost[current] <= Ceiling

(* A basis is stored under the first member of a shared group, for the     *)
(* value and interval of the group, while a member is still to come.       *)
BasesKept ==
  \A k \in Nodes(program) : bases[k] # NoBasis =>
    /\ k \in live /\ program.op[k] = "cheb"
    /\ options.share /\ Cardinality(SharingGroup(k)) # 1
    /\ \A m \in SharingGroup(k) : k <= m
    /\ bases[k].content = <<Root(program, program.parents[k][1]), program.interval[k]>>
    /\ \E m \in SharingGroup(k) : m \notin done /\ (Made => m # current)

IInv ==
  /\ TypeOK
  /\ PlanKept
  /\ OrderKept
  /\ HeldAsNeeded
  /\ HandleIntegrity
  /\ OperandsFit
  /\ BasesKept
  /\ NeverBootsUnmasked
=============================================================================
