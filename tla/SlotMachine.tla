---------------------------- MODULE SlotMachine ----------------------------
(***************************************************************************)
(* One evaluation in slots.  A job is a routine with its geometry; the     *)
(* machine executes the routine's program, one homomorphic operation per   *)
(* step, and keeps the level of every register (a product with a mask      *)
(* costs one), the rotations executed and the masks multiplied.            *)
(***************************************************************************)
EXTENDS SlotCosts, PackedBuilder

CONSTANT Jobs

VARIABLES
  job,
  code,    \* what is left to execute
  regs,    \* register to [slots, level]
  rolls,   \* the rotation offsets executed, in order
  mults

vars == <<job, code, regs, rolls, mults>>

\* The projection of the first n slots by the m x n matrix 0, in the layout
\* of the simulators; shape, logarithmic and baby_step are their arguments.
Projection(j) ==
  <<Encrypt(Work, 0, j.n)>>
  \o (IF j.baby_step = 0
      THEN replicated_matmul(0, j.m, j.n, j.shape, j.logarithmic)
      ELSE replicated_bsgs_matmul(0, j.m, j.n, j.shape, j.baby_step, j.logarithmic, j.batch))

\* The rotations of an inventory, one after the other, by the planned keys.
Plan(j) == plan_keys(j.inventory, j.batch, j.max_direct, j.affordable)
Indices(j) == {u.index : u \in j.inventory}

Code(j) ==
  CASE j.kind = "projection" -> Projection(j)
    [] j.kind = "blocks" ->
         <<Encrypt(Work, 0, j.batch)>>
         \o replicated_state_blocks(j.base, j.bc_base, j.state_size, j.group_block)
    [] j.kind = "heads" ->
         <<Encrypt(Work, 0, j.heads)>>
         \o shared_grouped_head_expansion(j.heads, j.head_dim, j.state_size, j.group_heads, j.group)
    [] j.kind = "keys" ->
         <<Encrypt(Work, 0, j.batch)>>
         \o Each(Cardinality(Indices(j)),
                 LAMBDA u : LET steps == Plan(j).decompositions[Ascending(Indices(j))[u + 1]]
                            IN  Each(Len(steps), LAMBDA k : <<Roll(Work, Work, steps[k + 1])>>))
    [] j.kind = "refresh" ->
         Each(Len(j.sizes), LAMBDA k : <<Encrypt(Node(k + 1), k + 1, j.batch)>>)
         \o refresh_group(j.sizes)
    [] j.kind = "built" -> Evaluate(Script(j.script, j.extended).nodes, {}, j.mode, j.batch)
    [] OTHER -> Evaluate(j.nodes, j.deferred, j.mode, j.batch)

-----------------------------------------------------------------------------

\* The shape of a projection is one a planner may choose; baby_step 0 is the
\* schedule without baby steps.
Geometry(j) ==
  /\ j.m \in Nat \ {0} /\ j.n \in Nat \ {0} /\ j.batch \in Nat \ {0}
  /\ j.logarithmic \in BOOLEAN /\ j.baby_step \in Nat
  /\ Sound(j.shape, j.m, j.n, j.batch)

ASSUME ProjectionAssumption == \A j \in Jobs : j.kind = "projection" => Geometry(j)

Init ==
  /\ job \in Jobs
  /\ code = Code(job)
  /\ regs = <<>>
  /\ rolls = <<>>
  /\ mults = 0

-----------------------------------------------------------------------------

Executes(op) == code # <<>> /\ Head(code).op = op /\ code' = Tail(code) /\ UNCHANGED job

Write(to, value) ==
  regs' = [r \in DOMAIN regs \cup {to} |-> IF r = to THEN value ELSE regs[r]]

EncryptInput ==
  /\ Executes("encrypt")
  /\ Write(Head(code).to, [slots |-> Encrypted(Head(code).input, Head(code).size, job.batch),
                           level |-> 0])
  /\ UNCHANGED <<rolls, mults>>

CopyRegister ==
  /\ Executes("copy")
  /\ Write(Head(code).to, regs[Head(code).from])
  /\ UNCHANGED <<rolls, mults>>

\* Rotating by nothing executes nothing.
RollRegister ==
  /\ Executes("roll")
  /\ LET from == regs[Head(code).from]
         by == Head(code).by
     IN  /\ Write(Head(code).to, [from EXCEPT !.slots = Rotate(from.slots, by)])
         /\ rolls' = IF by = 0 THEN rolls ELSE Append(rolls, by)
  /\ UNCHANGED mults

\* The operand of the lower level is adjusted to the other.
AddRegisters ==
  /\ Executes("add")
  /\ LET a == regs[Head(code).from]
         b == regs[Head(code).other]
     IN  Write(Head(code).to, [slots |-> Plus(a.slots, b.slots),
                               level |-> Max({a.level, b.level})])
  /\ UNCHANGED <<rolls, mults>>

MultiplyMask ==
  /\ Executes("mult")
  /\ LET from == regs[Head(code).from]
     IN  Write(Head(code).to, [slots |-> Times(from.slots, Head(code).mask),
                               level |-> from.level + 1])
  /\ mults' = mults + 1
  /\ UNCHANGED rolls

Next == EncryptInput \/ CopyRegister \/ RollRegister \/ AddRegisters \/ MultiplyMask

Spec == Init /\ [][Next]_vars

Done == code = <<>>

-----------------------------------------------------------------------------
(* What the routines compute, as the reference does: numpy on the dense    *)
(* values, slot by slot.                                                   *)

\* Entry i of W x.
Product(W, i, columns, x) ==
  FoldSet(LAMBDA c, total : total (+) Scaled(<<W, i, c>>, x[c]), EmptyBag, 0 .. columns - 1)

\* The values of the nodes of a packed program.
NodeValues(nodes) ==
  LET value[k \in 1 .. Len(nodes)] ==
        LET n == nodes[k]
            d == n.data
            x == value[n.parents[1]]
            at(p) ==
              CASE n.op = "input" -> SumOf({<<k, p>>})
                [] n.op = "add" -> x[p] (+) value[n.parents[2]][p]
                [] n.op = "gather" -> x[d[p + 1]]
                [] n.op = "scatter" ->
                     IF \E i \in Coordinates(d) : d[i + 1] = p
                     THEN x[CHOOSE i \in Coordinates(d) : d[i + 1] = p] ELSE EmptyBag
                [] n.op = "repeat" -> x[(p \div (d[2] * d[3])) * d[2] + (p % d[2])]
                [] n.op = "sum" -> FoldSet(LAMBDA t, total : total (+) x[p * d[1] + t],
                                           EmptyBag, 0 .. d[1] - 1)
                [] OTHER -> Product(WeightOf(nodes, k), p, Columns(nodes, k), x)
        IN  [p \in Slots(n.size) |-> at(p)]
  IN  value

\* Dense values, [shape, at], at from flat positions.
Tensor(shape, at(_)) == [shape |-> shape, at |-> [p \in Slots(Size(shape)) |-> at(p)]]

BroadcastTo(v, shape) ==
  Tensor(shape, LAMBDA p : v.at[BroadcastSource(Lifted(v.shape, Len(shape)), shape, p)])

TensorSum(v, w) == Tensor(v.shape, LAMBDA p : v.at[p] (+) w.at[p])

TensorSumLast(v) ==
  LET width == v.shape[Len(v.shape)]
  IN  Tensor([v.shape EXCEPT ![Len(v.shape)] = 1],
             LAMBDA p : FoldSet(LAMBDA t, total : total (+) v.at[p * width + t],
                                EmptyBag, 0 .. width - 1))

\* The parts of a concatenation lie one behind the other along the axis.
Joined(parts, axis, whole) ==
  LET begin(i) == Extent(parts, axis, i - 1)
      part(at) == CHOOSE i \in DOMAIN parts : begin(i) <= at /\ at < Extent(parts, axis, i)
      in(i, p) == parts[i].at[Flat(parts[i].shape,
                                   LAMBDA a : Coordinate(whole, p, a) - IF a = axis THEN begin(i) ELSE 0)]
  IN  Tensor(whole, LAMBDA p : in(part(Coordinate(whole, p, axis)), p))

\* x and y are the operands, parts the pieces of a concatenation.
DenseStep(s, x, y, parts) ==
  CASE s.op = "input" -> Tensor(s.shape, LAMBDA p : SumOf({<<s.node, p>>}))
    [] s.op = "add" -> TensorSum(BroadcastTo(x, BroadcastShape(x.shape, y.shape)),
                                 BroadcastTo(y, BroadcastShape(x.shape, y.shape)))
    [] s.op = "sum_last" -> TensorSumLast(x)
    [] s.op = "take" -> Tensor(s.shape, LAMBDA p : x.at[s.mapping[p + 1]])
    [] s.op = "concatenate" -> Joined(parts, s.axis, ConcatenatedShape(parts, s.axis))
    [] OTHER -> Tensor(<<s.rows>>, LAMBDA p : Product(s.weight, p, Size(x.shape), x.at))

\* The dense values of a script, by step.
Dense(script) ==
  LET value[k \in 1 .. Len(script)] ==
        DenseStep(script[k], value[script[k].a], value[script[k].b],
                  [i \in DOMAIN script[k].parts |-> value[script[k].parts[i]]])
  IN  value

\* The leading slots hold value; the padding is zero, if it must be.
Holds(register, value, clean) ==
  \A p \in Slots(job.batch) :
    IF p \in DOMAIN value THEN regs[register].slots[p] = value[p]
    ELSE clean => regs[register].slots[p] = EmptyBag

Represents(built, dense) ==
  \A k \in DOMAIN built :
    built[k].shape = dense[k].shape /\ Holds(Node(built[k].index), dense[k].at, TRUE)

NodesHold(ops) ==
  LET values == NodeValues(job.nodes)
  IN  \A k \in DOMAIN job.nodes :
        job.nodes[k].op \in ops => Holds(Node(k), values[k], k \notin job.deferred)

-----------------------------------------------------------------------------

\* A replicated projection computes W x in its leading slots, for every
\* shape, schedule and split the code accepts, whatever it leaves elsewhere;
\* a masked projection of the packed executor leaves nothing elsewhere.
ProjectionExact ==
  Done => CASE job.kind = "projection" ->
                 Holds(Work, [i \in Slots(job.m) |->
                                Product(0, i, job.n, [c \in Slots(job.n) |-> SumOf({<<0, c>>})])],
                       FALSE)
            [] job.kind = "packed" -> NodesHold({"linear", "linear_ref"})
            [] OTHER -> TRUE

\* Gathers, scatters, repeats and reductions move every coordinate to its
\* slot and leave zeros elsewhere, staged, shared or direct, also from a
\* projection whose output mask is left to them; a group that shares one
\* bootstrap gets each of its values back, without what followed it.
RoutingExact ==
  Done =>
    CASE job.kind = "packed" -> NodesHold({"add", "gather", "scatter", "repeat", "sum"})
      [] job.kind = "refresh" ->
           \A k \in DOMAIN job.sizes :
             Holds(Node(k), [p \in Slots(job.sizes[k]) |-> SumOf({<<k, p>>})], TRUE)
      [] OTHER -> TRUE

\* An exported expression, executed by the packed executor, holds in its
\* leading slots what numpy computes: broadcasts, padded reductions,
\* concatenations, indexing and shared weights, in both formats.
BuilderExact ==
  Done /\ job.kind = "built" =>
    Represents(Script(job.script, job.extended).values, Dense(job.script))

\* The state layout broadcasts coordinate s to block s exactly if a block is
\* twice as long as the state (or there is one coordinate); the copies at
\* stride group_block - 1 overlap otherwise.  The head expansion is exact.
StateLayoutExact ==
  Done => CASE job.kind = "blocks" ->
                 Holds(Work, [p \in Slots(job.batch) |->
                                SumOf({<<0, job.base + p \div job.group_block>>})], TRUE)
                 <=> \/ job.group_block >= 2 * job.state_size
                     \/ job.state_size = 1
            [] job.kind = "heads" ->
                 Holds(Work, [p \in Slots(job.batch) |->
                                LET block == job.group_heads * job.head_dim
                                IN  SumOf({<<0, job.group * job.group_heads
                                                + (p % block) \div job.head_dim>>})], TRUE)
            [] OTHER -> TRUE

\* No routine costs more than its planner counts on: the simulators take the
\* rotations, products and levels of their cost models, and a node of a
\* planned packed program adds at most the levels the planner charges for it.
DepthCounted ==
  Done =>
    CASE job.kind = "projection" ->
           LET cost == IF job.baby_step = 0
                       THEN replicated_cost(job.n, job.shape, job.logarithmic)
                       ELSE replicated_bsgs_cost(job.n, job.shape, job.baby_step, job.logarithmic)
           IN  regs[Work].level = 1 /\ mults = cost.ct_pt_mul /\ Len(rolls) = cost.rotations
      [] job.kind = "blocks" ->
           LET cost == replicated_state_block_cost(job.state_size, job.group_block)
           IN  regs[Work].level = cost.levels /\ Len(rolls) <= cost.rotations
      [] job.kind = "heads" -> regs[Work].level = shared_grouped_head_expansion_levels
      [] job.kind = "packed" /\ job.mode.planned_refresh ->
           \A k \in DOMAIN job.nodes :
             LET n == job.nodes[k]
                 parents == {regs[Node(n.parents[i])].level : i \in DOMAIN n.parents}
             IN  regs[Node(k)].level <= Max(parents \cup {0}) + packed_node_depth(n)
      [] OTHER -> TRUE

\* Every rotation has its keys: the steps of a packed program's rotations are
\* signed powers of two that add up to it; a projection rotates only by what
\* the native code collects for its shape; and the planner's decompositions
\* use planned keys, within the budget, and rotate by what they stand for.
KeysCover ==
  Done =>
    CASE job.kind = "packed" ->
           \A k \in DOMAIN rolls :
             LET steps == rotation_steps(rolls[k], job.batch, job.mode.naf_rotations)
             IN  /\ ToSet(steps) \subseteq packed_keys(job.batch)
                 /\ (FoldSeq(LAMBDA s, total : s + total, 0, steps) - rolls[k]) % job.batch = 0
      [] job.kind = "projection" ->
           ToSet(rolls) \subseteq
             insert_replicated_rotations(job.n, job.shape, job.baby_step, job.logarithmic)
      [] job.kind = "keys" ->
           /\ ToSet(rolls) \subseteq Plan(job).all_keys
           /\ Cardinality(Plan(job).direct) <= job.max_direct
           /\ Plan(job).direct # {} => Cardinality(Plan(job).all_keys) <= job.affordable
           /\ regs[Work].slots =
                Rotate(Encrypted(0, job.batch, job.batch),
                       FoldSet(LAMBDA i, total : i + total, 0, Indices(job)))
      [] OTHER -> TRUE
=============================================================================
