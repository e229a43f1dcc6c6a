# fhe-native-mamba3: a TLA+ verification project

The repository runs Mamba inference on CKKS ciphertexts. Python exports a model as a *packed
program* or as a Mamba-2 payload; C++ executables on FIDESlib (a GPU backend of OpenFHE) evaluate
it; a Python driver runs campaigns of such evaluations on GPU hosts and collects evidence. This
project models the parts whose correctness is a matter of order, state and bookkeeping: which
ciphertext is overwritten when, where a bootstrap is due and how many levels are left for it, which
node may run next, which weight meets which input in which slot, which file on disk counts as
evidence, which seconds are charged to which budget. Real arithmetic is not modelled: a value is the
node it belongs to, a ciphertext is its level, or a slot is a formal sum of weights and inputs.

Source paths below are relative to the repository; `stage0/` stands for
`native/fideslib_stage0/`.

## 1. Inventory

| Part (source) | State it keeps | Operations | What makes it hard | What makes it correct |
|---|---|---|---|---|
| Packed program reader (`stage0/include/packed_program.hpp`) | none after reading | parse, validate | none (input parsing) | operands before users; arities; at least one output |
| Use plan, ready frontier (`packed_lifetime.hpp`, `packed_schedule.hpp`) | counters of pending operands, remaining uses, work per epoch; the frontier | construct, `complete`, `final_use`, `releasable` | incremental counts over edges, duplicated operands, dead nodes, feedback barriers; caller picks any ready node | never stalls; nothing early, nothing forgotten; barriers; last use is last |
| Depth planner (`packed_depth.hpp`) | live set, costs, hoisted refreshes, predicted levels | plan, simulate, greedy search | refreshing an operand changes the level later users see; rejected trials must leave no trace | levels stay below the ceiling; prediction is exact; no single hoist is left that pays |
| Packed executor (`stage0/src/packed_fideslib.cpp`) | handle and level per node, deferred masks, shared bases | node loop, refresh, batched refresh, apply, release, feedback callback | in-place reuse under aliasing; refresh between members of a basis group; unmasked coordinates; headroom of a refresh | values intact, retained exactly as long as needed, level budget kept, plan equals run where the plan's bounds are met |
| Chebyshev basis sharing (`chebyshev_basis_cache.hpp`) | basis per (operand, interval, size) group | plan, reuse, drop | cached object keyed by handle and level | never a basis of another value; dropped with its group |
| Owned arithmetic (`owned_arithmetic.hpp`, `fideslib_owned_arithmetic.hpp`) | none | consume or clone | aliasing | part of the executor's |
| Routing, rotations (`packed_routing.hpp`, `rotation_steps.hpp`) | none (pure) | decompose a gather or scatter into masked rotations | stages in the wrong order make coordinates meet; negative and half-batch offsets; identity scatters skip their mask | composition equals the map; every rotation has a key |
| Replicated projections (`src/fhemamba/bsgs_layout.py`, `stage1_mamba2_plan.cpp`) | none (pure) | choose windows, replicate, multiply diagonals, fold | window arithmetic: reads overrun a window, wrap around the batch | y = W x, within the predicted products and rotations |
| State layouts (`src/fhemamba/state_layout.py`) | none (pure) | spread state blocks and heads | copies that overlap | equal to the direct expansion |
| Rotation key planner (`src/fhemamba/rotation_keys.py`) | none (pure) | choose the offsets that get keys | greedy replacement of the least used key | every rotation decomposes into keys that exist |
| Packed program exporter (`src/fhemamba/packed_program.py`) | node list, weights by identity | inputs, sums, broadcasts, reductions, concatenations, indexing | strides of several axes; shared weights | a node's slots are the tensor's, row-major |
| Plaintext mask cache (`plaintext_cache.hpp`, `plaintext_mask.hpp`) | LRU list of plaintexts | find, insert, evict | hash collisions; eviction while the GPU reads | returns the plaintext of that mask and level |
| Plaintext encoder, upload (`fideslib_plaintext_encoder.*`, `plaintext_rns.hpp`) | GPU tables | encode, upload in modes | two external libraries | same residues in every mode |
| Dual ring bridge (`fideslib_dual_ring.hpp`) | second context | switch rings to bootstrap | level bookkeeping across rings | same value and level as a plain bootstrap |
| Mamba-2 decode (`stage1_mamba2_decode_fideslib.cpp`) | levels of state, conv inputs and residual, plaintext tables, encoder threads | token loop, layer, checkpoints, look-ahead encoder | whether to refresh is decided from one level and a written-down requirement; carried state creeps over tokens; look-ahead threads | never out of levels, a refresh included; the right diagonal in the right place |
| Mamba-2 depth ledger and plan (`stage1_mamba2_depth.cpp`, `stage1_mamba2_plan.cpp`) | none (pure) | predicted levels, requirements, Chebyshev plan | a second copy of the circuit's arithmetic; recursion with sparse coefficients | prediction bounds the evaluator |
| Payload, configuration, artifact (`stage1_mamba2_payload.cpp`, `_config`, `_artifact`) | none | parse, validate, print | none | none stateful |
| Process separation (`stage1_mamba2_process.cpp`, `fideslib_handoff.cpp`, `experiments/run_dgx_process_separated.sh`) | a shared directory | prepare, evaluate, decrypt phases | crashes between phases; stale directories | the decrypted result belongs to this client's input |
| Campaign driver (`experiments/run_dgx_campaign.py`, the two runner scripts) | report and artifacts on disk, records in memory, a child process group | gate, skip, resume, preflight, launch, time out, terminate, collect, report | signals, hung and left-over runners and backends, stale artifacts, partial reports | evidence is what it claims to be |
| Probe runner (`experiments/run_packed_probe.py`) | the budget ledger and the run directory on disk, the probe process | read the ledger under its lock, run the probe under a hard timeout, terminate, record, charge | two runners on one ledger; a probe that outlives its timeout or its runner; a torn ledger | the budget is never overdrawn; a pass is the run's own; every runner ends |
| Build identity (`experiments/manage_dgx_build.py`) | build directory, provenance file | build, validate, attach to an artifact | rebuild between validation and use; provenance attached to an artifact of another runner | binary and payload match provenance |
| Probes, research library, exporters, analysis scripts, Docker, CI | none evolving | numerical experiments | numerical, not behavioural | out of scope |

Interactions: the exporter writes programs; the reader validates them; `plan_packed_uses` and
`plan_packed_depth` derive liveness, edges, costs and hoists; the executor owns one
`PackedReadySchedule` (frontier mode) or walks the file order, calls the client through a callback
at `feedback` nodes, and shares bases through the basis cache. The campaign driver starts a runner
script as a process group of its own; they share only the artifact files and an exit status.
What a `linear`, `gather`, `scatter`, `repeat` or `sum` node does to the slots are the layout
routines; the key planner and the collectors of the native code must foresee the rotations those
execute. Probe runners share one ledger file under `flock`. The decode's pre-run ledger and its
checkpoints both repeat, by hand, how many products the circuit makes.

## 2. Modules

```
PackedProgram ──► PackedSchedule ──(refines)──► DagEvaluation
      │             ▲        ▲                        ▲
      │             │        └ PackedScheduleProofs   │
      │             │                                 │
      └► PackedDepth│                                 │
            └► DepthPlanner ──► PackedExecutor ──(evaluates)
                                      └ PackedExecutorProofs

RotationSteps ──► PackedRouting ──┐
ReplicatedWindows ────────────────┼─► SlotProgram ──► SlotCosts ──┐
SlotVector ───────────────────────┘                               ├─► SlotMachine
        └───────────────► PackedBuilder ──────────────────────────┘     └ SlotMachineProofs

DiagonalPrefetch ──(refines)──► SerialDiagonals        DecodeLevels ── DecodeLevelsProofs
        └ DiagonalPrefetchProofs

Campaign ── CampaignProofs                             GpuBudget ── GpuBudgetProofs

CommonLemmas: counts, ranks, chains, arithmetic and the program graph, used by the proofs of all
```

* **PackedProgram** is the program graph the reader guarantees (`WellFormed`), consumer edges
  (`plan_packed_uses` counts edges, so `x*x` uses `x` twice), live nodes, feedback epochs. The
  operations are kept apart only where a pass treats them differently; `unary` stands for `addp`,
  `mulp`, `sum` and non-trivial routings, `alias` for a routing that returns its operand's handle.
* **PackedSchedule** is `PackedReadySchedule` variable by variable: `pending`, `remaining_uses`,
  `epoch_remaining`, `remaining`, `ready`, `active_epoch`; `stalled` records that `complete()` threw
  "packed frontier cannot advance". The one action `Complete(i)` is the whole of `complete()`,
  including `activate_epoch`; any ready `i` may be chosen, because the class leaves the choice to its
  caller. `final_use` and `releasable` are the two queries.
* **DagEvaluation** is the abstract specification: each live node once, after its operands and after
  every live node of earlier epochs, and all of them in the end.
* **PackedDepth** and **DepthPlanner** are the planner: `Cost` is `packed_node_depth` with deferred
  masks taken off, `Simulate` is `simulate_packed_depth`, `Trial` one candidate of the greedy
  search, `SearchPass`/`Sweep` one sweep. Level −1 is a fresh ciphertext, as in the code.
* **PackedExecutor** is `PackedEvaluator::evaluate` with planned refresh. `phase` is the point in the
  loop body: `planning`, `idle` (pick), `operands` (refresh those too deep, one action each, then
  apply), `produced` (hoisted refresh), `hoisted` (retire). `heap` holds every ciphertext ever made,
  with the node whose value it holds; `values` maps nodes to handles, so aliasing and in-place reuse
  are visible. It extends `DepthPlanner` (planning is its `Sweep`) and composes `PackedSchedule`
  (frontier mode runs `Schedule!Complete`) by INSTANCE on shared variables. What an operation spends is
  data of the program (`spent`), between the least the code can (`LeastSpent`: one level for a
  projection that is not replicated, two for a short polynomial) and the bound the planner counts
  (`NodeDepth`); `Spent` takes the mask off that a deferred projection does not pay.
* **Campaign** is the driver's `main()` loop, the report and artifacts that survive it, and the
  runner script as a process of its own (`runners[i]`, clears and measures, path by path). The Spark
  script (`Stamps`) then attaches provenance: `RunnerAttaches` compares the artifact's binary and
  replaces its payload hash, whoever measured it, as `manage_dgx_build.py` does. `Terminated` waits for
  the script only, as `_terminate_process_group` does; a backend that goes on after the SIGTERM
  (`Lingering`) stays in `backends` and writes when it likes.
  `pc` is the place in `main()`, with a point between `Popen` and the `try` of `_run_runner`.
  `Payload` is `_campaign_payload`, `Promoted` is `_promotion_satisfied`, `Known` and `Identified`
  are the two halves of the resume test. An effective environment is split into what a backend
  writes into its artifact (`version`, `binary`), what the Spark script stamps on it (`payload`) and what
  only a report records (`settings`); an artifact also keeps, as history, the one it was measured in.
* **SerialDiagonals** and **DiagonalPrefetch** are the ciphertext-plaintext products of one slot-BSGS
  linear map (`slot_bsgs_linear_block0_from_babies` of the Mamba-2 decoder): the serial path as the
  abstract specification, and the path with `--encode-threads`. `StartBatch` is `prefetch_from` up to
  the start of its threads, `Encode(w)` and `Catch(w)` are one job of a thread, `Join` the joins, the
  rethrow and the publication; `FromTable`, `FromPrefetched` and `EncodeInline` are the three ways the
  evaluation gets a plaintext. A plaintext is named by its diagonal; null is the marker of an
  all-zero mask, as in the code. Rotations and additions follow the products and are left out.
* **DecodeLevels** is the token loop of the same program in levels. One action is one segment of a
  layer (`BlockNorm`, `InProj`, `Conv`, `Gates`, `StateUpdate`, `GatedNorm`, `OutProj`) or the head
  or tail of a token (`StartToken`, `Output`); `ct` holds the levels of a layer's ciphertexts, `state`
  and `fifo` what is carried to the next token. The `req_…` operators are the requirements of
  `make_layer_plan`, `maybe_bootstrap` the checkpoint, `reached` every level the last segment needed,
  the two levels that prepare a refresh (five for a Meta-BTS, which needs a modulus to spare)
  included. `token_output_levels` is the pre-run ledger `estimate_levels`, one operator per variable of
  that function. A polynomial is its depth. At the end stand the hypotheses of the theorems about the
  module, `WithinReach` and `Foreseen`, which the instance is checked to satisfy.
* **SlotVector** is a ciphertext as a vector of formal sums (bags of products), with rotation,
  addition and product with a plaintext: two slots are equal iff they are for all inputs and weights.
  **RotationSteps** decomposes offsets and plans keys; **PackedRouting** is the staged and the direct
  form of gather and scatter; **ReplicatedWindows** the geometry of a replicated projection;
  **SlotProgram** turns each routine into a straight-line program over registers; **SlotCosts** is what
  the planners predict of it; **PackedBuilder** is the exporter. `packed_routing_depth` repeats the
  distinctions of the executor's gather independently, as the code's own copy does, so that
  `DepthCounted` notices when the two part (its mutant lets them). **SlotMachine** executes one such
  program, one homomorphic operation per step, counting levels, products and rotations.
* **GpuBudget** is `run_packed_probe.py` as several processes, from `Acquire` (the lock) and `ReadLedger`
  over `Launch`, `WaitExpires` and `Kill` to `Record`, `Charge` and `WriteLedger`; probes are processes
  of their own that hang, fail, or write results late; interrupts and kills may come at any point.
* **MC…** modules define the instances. **CommonLemmas** and the modules named **…Proofs** hold the
  proofs.

Operators with the comment `mutant` are plausible wrong versions of the definition that follows them
(a count per user instead of per edge, a forgotten cost, a missing reset); nothing uses them. Each
property of each passing run fails when its mutant takes the place of the real definition, which
shows that the instance is large enough for that property to matter.

## 3. What TLC checks

| Run (config) | Instance and bounds | Shows |
|---|---|---|
| `schedule` (MCPackedSchedule) | every program of `Size = 4` nodes, one or two outputs, any choice of ready node | `final_use` and `releasable` exact, never stalls, epochs are barriers, refines `DagEvaluation` including its liveness |
| `packed_executor` (MCPackedExecutor) | every five-node program of sums, aliases and Chebyshev nodes (three slots), and of projections, gathers, products and feedback (two slots), and six of 8–13 nodes shaped like exported blocks and unit tests, each spending what the planner counts or the least it can; three refresh modes, reuse on; `Ceiling = 4`, `Refreshed = 1`, `Depth = 8`, groups of three (1.91 million states) | no ciphertext overwritten while named; values held exactly as long as needed; bases sound and dropped; the hoist search keeps its prediction current and ends at a local optimum; level budget incl. a refresh's scratch values, deferred masks, plan equals file-order run as long as its bounds are met, legal order in every mode, no deadlock |
| `slot_programs` (MCSlotPrograms) | every projection with m ≤ 4, n ≤ 5 in batches of 8 to 32, block and head layouts of up to 64 slots, increasing and other maps, rotation plans, exporter scripts of a few nodes; `ManyOffsets = 2`, `Radix = 4` (72 342 states) | projections, routings, layouts and exported expressions compute the dense reference; levels, products and rotations are those counted; every rotation has its keys; every shape is one that the theorems cover |
| `decode_levels` (MCDecodeLevels) | the real depth 44 and requirements; chains of one and two layers fitted as in the measured runs, and others; 3–16 tokens; headrooms 4 and 12; state refreshed every 1st, 2nd, 4th token or by its level under Meta-BTS; round trips; circuits without bootstraps at depth 200 (189 280 states) | no segment and no refresh needs a level that does not exist; whatever was refreshed, the first layer ends no deeper than the pre-run ledger says; every chain satisfies the hypotheses of the theorems |
| `decode_level_driven` | the default options, 20 tokens; see section 6 | a disagreement with a comment |
| `gpu_budget` (MCGpuBudget) | two runners in seven combinations of command lines over one or two ledgers and directories; limits 5 and 6, `Reserve = 2`, `Grace = 1`, `Overhead = 1`, one interrupt or kill anywhere (647 576 states) | the ledger and the seconds really used stay within the limit, a pass is a pass of the run's own probe, every runner ends |
| `diagonal_prefetch` (MCDiagonalPrefetch) | `Positions = 6` diagonals, each persistent, all zero, failing (at most two) or ordinary; 1–3 threads, two encodings per thread and batch | in every order of the workers: products, miss counter and end as on the serial path (safety and liveness), no entry written twice, look-ahead bounded |
| `campaign` (MCCampaign) | three gated experiments of the Spark script; two inputs of one build, one of them under two settings; two invocations; runners hang and fail (205 186 states) | gates rest on evidence, `passed` is sound, executed evidence is this invocation's, no record, resumed or executed, rests on another payload than it names, fails fast, no left-over runner, every invocation ends |
| `campaign_resume` (MCCampaignResume) | one experiment of the Spark script; two inputs of one build, and another build; three invocations, signals anywhere, runners that exit early, backends that survive SIGTERM (2.42 million states) | measured records have the version and binary they claim and carry their payload's hash although left-over processes keep writing; resume reuses what it can |
| `campaign_stale_resume`, `campaign_stale_execution`, `campaign_orphan` | one experiment of the Spark script, or (`campaign_orphan`) a ladder of two layers and a gated experiment; see section 6 | three disagreements with what docs or tests say |

Why these bounds (constants of the .cfg files and definitions of the MC modules): four nodes already
give duplicated operands, dead nodes, empty epochs, an output that is also an operand, and two ready
nodes to choose from; the proof covers every size anyway. The executor's interesting cases (a basis
refreshed between two members, a dying operand aliased by an output, a dirty value refreshed alone
or in a group, a gather interrupted by the ceiling) need an input, a projection and three
operations; the larger programs add deep ones. `Ceiling`, `Refreshed`, `Depth`, `Margin` and
`GroupLimit` are scaled down from 39/22 of 44, 6 and 16 so that refreshes happen within five nodes;
operation costs are scaled with them. The ladder, with several
artifacts in one experiment, is run in `campaign_orphan`; the theorems cover it for the other campaign
properties but `Ends`. Two invocations suffice to resume, three to resume a resumed
report, and a left-over runner of the first may still write in the third. Six diagonals with batches
of two to six give several batches, a short last one with fewer jobs than threads, and gaps left by
persistent diagonals. The projections come with one and with several replicas, with windows that
fill the batch and that leave a rest, with a partial last diagonal group and with a guard window;
the threshold 32 of the routing and its radix 8 are scaled to 2 and 4 so that direct and staged forms
occur in 16 slots, and with them stages of three equally spaced offsets, which are done by shared
rotations with the masks of the destination (`AtDestination`, whose mutant the run kills too). The
decode is not scaled at all: its numbers are the ones of the source, and the payloads' depths are
those fitted for the measured 24-layer runs. Two layers suffice there, since a layer only hands its
residual to the next and a layer's carried levels depend on its own history; 16 tokens see several
refreshes of the state at every interval. The cases with headroom 4 are the tight ones: with 3, y
runs out of levels at the first token. Two runners suffice to lose a charge, and one fault to leave
a probe, a ledger or a directory behind for the other runner.

Deadlock is checked in the executor and decode runs (their end stutters). It is off where the system
is supposed to stop: the schedule, the look-ahead encoder, slot programs, runners that are done,
campaigns after `MaxInvocations`.

Fairness: `PackedSchedule` assumes WF of `Next`: the executor's loop keeps completing nodes while it
has ready ones (it is a `while` loop without waiting). `Campaign` assumes WF of `Progress`, the
steps of `main()`: the interpreter runs, and both waits (for the runner, and for the GPU preflight)
have timeouts, which every manifest in the repository sets (the code also accepts none). `DiagonalPrefetch` assumes WF of `Next`: the encodings terminate, the threads are
scheduled and joined without a lock between them. `GpuBudget` assumes WF of the clock and of each
runner's steps: its waits have timeouts, `SIGKILL` cannot be ignored, and the lock is released with
its holder. Nothing is assumed of the probes. In the campaign nothing is assumed of the runner, of
signals or of the operator who starts invocations. Everything else is safety.

## 4. What is proved

`PackedScheduleProofs`, for every set of programs that `WellFormed` admits (any size, any sharing,
any number of epochs), from the assumption `ProgramsAssumption` alone:

* `Invariant`: `Spec => []IInv`, and from it `TypeCorrect`, `NoStall`, `FrontierIsExact`,
  `FinalUse`, `Release`;
* `Barrier`: `Spec => EpochBarrier`;
* `Refinement`: every initial state and step is one of `DagEvaluation` (its safety part).

None of the properties is inductive by itself. That `complete()` cannot stall needs the frontier to
be exactly the runnable nodes, which needs `pending` to count exactly the unproduced operand *edges*
and `active_epoch` to be the first epoch with work, which needs `epoch_remaining` to count the
unfinished nodes; `IInv` is the conjunction of these, with `DoneClosed` (evaluated nodes have
evaluated operands) for the uses. The step (`StepIInv`) has a lemma per counter (`PendingStep`,
`UsesStep`, `WorkStep`), one for the epoch (`EpochStep`) and one for the frontier (`FrontierStep`,
where the case that the epoch stays open differs from the one that activates the next). The
progress argument is `FrontierAdvances`: the least unfinished node of the first unfinished epoch has
all its operands, since operands come earlier in the file and epochs grow with the file order.
`CommonLemmas` has the facts about programs this rests on.

`DiagonalPrefetchProofs`, for every number of diagonals, threads and encodings per thread and every
division of the diagonals into persistent, all-zero and failing ones, from `PrefetchAssumption`:

* `PrefetchInvariant`: `Spec => []IInv`; `InFlightBounded` and `NoRace` follow;
* `PrefetchIsSerial`: every behaviour is one of `SerialDiagonals` (safety part of `RefinesSerial`).

The invariant's point is `Ahead`: what waits, and what a batch encodes, has no gap from the cursor on.
Without it a batch could start while later diagonals still wait, and both the bound and the order
would break; with it a batch starts only when nothing waits. `BatchRight` says of each result that
it is right or still in some worker's stripe, so that a join without exception has all of them, and
that a caught exception belongs to a diagonal that the serial path would fail on too.
`StripesDivide` and `BatchAheadOfCursor` are the facts about ranks and remainders behind it.

`CampaignProofs`, for every manifest, environment, fault and number of invocations, from
`CampaignAssumption`: `PassedIsSound`, `GatesRestOnEvidence`, `IdentitiesHold`, `StopsAtFailure`,
`ResumesWhatItCan`; `NoRunnerIsLeft` without signals; `PayloadsHold` without signals and if backends end
on SIGTERM (`~Lingering`); `ExecutedIsOwn` if moreover no script exits before it clears. `IdentitiesHold`
has no such hypothesis, but says of the payload only that the artifact carries its hash: the
script restamps, so that the hash is true needs `PayloadsHold`. Its hypothesis about signals is that of
`NoRunnerIsLeft`, and without it the property is false (section 6). The findings about the campaign are
behaviours outside these hypotheses. A backend that survives SIGTERM is one that nothing in the
repository rules out or shows; it breaks the last two theorems, and `NoRunnerIsLeft` still holds of
the scripts. For `PayloadsHold` the invariant adds `StampInv`: a runner about to attach finds nothing or its
own artifact, so a stamp is never false. The invariant `CampaignInv` says of the report, and of the one a resume
reads, that it covers what it claims (`SoundReport`), of the records that they rest on artifacts
(`SoundRecords`), and ties the place in `main()` to them: `failing` needs a failed record, a fatal
failure leads nowhere but to the end, and a launched experiment is the current one and its gate was
open. The promotion test reads records of earlier experiments only, which is why the invariant has to
carry both.

`PackedExecutorProofs`, for every set of programs and options, from `ExecutorAssumption`, `Annotated` and
`PolicyAssumption`:

* `Invariant`: `Spec => []IInv`, and from it `TypeCorrect` and every safety property that
  `packed_executor` checks: `Handles`, `Retained`, `Dirty`, `Masked`, `Depths`, `Bases`, `Dropped` of the
  executor, `PlanPrediction` and `PlanOptimal` of the planner that runs before it; also `PlanCeiling`,
  that the planner's levels stay up to the ceiling, which only the proof shows;
* `PlanExact`: `PlanIsExact`, if every bootstrap returns the level the planner counts with, for as long
  as every operation has spent what was counted for it (`BoundsMet`, a part of the property);
* `Refinement`: `Spec => EvaluatesDag`, in file order, batched and on the frontier alike.

`IInv` has eight parts, and no property is inductive without several of them. `HandleIntegrity` at an
operation that destroys its operand needs `HeldAsNeeded` (what is held, and for which consumers still
to come: in file order by position, on the frontier by the schedule's counters) and `OrderKept` (what is
evaluated when, where the loop stands); the counters bring in the invariant of `PackedScheduleProofs`,
cited for the instance. `BasisSound` needs `BasesKept`: a basis is only stored for the value and the
interval of its group, while a member is still to come; that it was made from that value is
`HandleIntegrity` of the operand at that moment. `DepthBudget` needs `OperandsFit`: an operand already
passed has room for the operation, and keeps it while the others are refreshed, also if they share
its handle. `PlanKept` says of the planner's state what its three properties say. `NeverBootsUnmasked` needs that dirty values are deferred
projections, whose only readers are gathers. There is one lemma per action and part.

`PlanExact` has a second invariant, `PlanFollowed`: at each point of the loop body the levels held are
those of the simulation at the same point, and the refreshes done are those it has counted. The delicate
place is an operand read twice or under two names: the simulation refreshes by node, the executor by
handle. The simulation is a fold over the program; it is handled as a sequence of states chosen by
`Chain` (in `CommonLemmas`), so that no induction over an operator is needed. The hypothesis
`BootLevels = {Refreshed}` is that of the property, which is checked where a bootstrap always
returns the same level; if it does not, a prediction can only be an estimate. The same is true of a
program whose operations spend less than the planner's bounds, as projections without replicas and
short polynomials do: it may refresh less often, or elsewhere, than predicted (378 predicted, 363 actual in
`docs/research/2026-09-25-packed-frontiers.md:145-151`). The run has such programs, and `BoundsMet` is false
from their first such operation on; without it the property is violated.
All other theorems hold whatever the operations spend.

Two things had to be said about the constants before the proof went through, and both are real
conditions on the code. Every operation must fit between the deepest level a bootstrap returns and the
ceiling, a gather having at least one stage: the planner accepts a node that costs more, and the
executor then passes the ceiling. And the context must be four levels deeper than the ceiling, for the
scratch values of a two-pass refresh at the ceiling.

`GpuBudgetProofs`, for any number of runners, limits, timeouts and faults, from `BudgetAssumption`
(finitely many runners; what one does outside its waits, plus the grace period, fits the reserve):
`LedgerWithinLimit`, `PassedRunsAreOwn`, and `SecondsWithinLimit`, that the seconds really used stay within
the limit where nobody is killed or interrupted. The invariant accounts for the seconds of a run phase
by phase (`Accounted`) and says that the timeout it took leaves the reserve free in the budget it read
(`Provided`); a charge is then within the limit whatever the probe does. For the seconds of all runners
it adds that only the holder of the lock has seconds that are not yet charged (`SpentBy`), and that the
ledger accounts for all seconds when nobody holds it (`LedgerTotal`).

`SlotMachineProofs`, for every m, n and batch: `ShapesAreSound` (what the window planner returns),
and of every sound shape `SlotsDistinct`, `ReadIsFilled` and `EveryWeightOnce`: together the reason why
the diagonal schedule is W x. For every radix and strictly increasing map: `CoordinatesNeverMeet`,
`CoordinatesStayBetween`. Both are arithmetic: a staged position lies between source and destination,
and the digits taken so far preserve the order.

The same module executes the replicated projections, for any set of jobs that meets
`ProjectionAssumption` (numbers are positive, the shape is `Sound`, which by `ShapesAreSound` every shape of
the interleaved planner is), both replication schedules, no baby steps and any number of them:

* `ProjectionsExact`: `Spec => [](job.kind = "projection" => ProjectionExact)`, the leading slots are W x;
* `ProjectionsCounted`: the same of `DepthCounted`, one level and exactly the products and rotations
  that `replicated_cost` and `replicated_bsgs_cost` predict;
* `ProjectionsHaveKeys`: the same of `KeysCover`, no rotation by an offset without a key.

The inductive invariant is `Traced`: the code of the job is what was executed followed by what is left,
and executing the first part leads from the start to the current state (`Runs`, an execution as a
function from positions to states). It holds of every job. What remains is sequential: a lemma for
each operation and for each routine says what it leaves in its registers, how many products it takes,
and how often and by what it rotates (`Stores`, `Keeps`, `Rolls`), whatever was executed before it.

* `rotation_sum` with v in `Work` leaves the sum of the shifts of v (`Collected`), for both schedules.
  The logarithmic one is a recursive function; that the schedule for c extends the one for c / 2
  (`DoubledFacts`) is shown first, and the sum by a least counterexample.
* `replicate_input` then fills windows with copies of x (`Filled`).
* A slot holds a formal sum, a bag. `SumOf` of a set of terms is what all slots hold on the way
  (`Holding`, by output, replica and range of groups): sums of disjoint sets add to the sum of the union
  (`PlusAt`), so each group adds its terms, and none twice (`SpansJoin`, from `EveryWeightOnce`'s
  arithmetic). A product with a mask is a fold over the entries that name the slot; that the
  recursion behind a fold has one solution is `FoldsWhole`.
* With baby steps a giant step collects its groups shifted right by its own rotation, and the
  rotation brings them back (`RunGiant`). Spans of giants have neither gap nor overlap (`GiantFacts`).
* The fold over the replicas collects what they hold in the slot of the output (`OutputTerms`,
  `ProjectedOutput`), and that is the set of terms the reference sums up (`ProductTerms`).

`DecodeLevelsProofs`, for every number of layers, tokens, taps and streams, and every payload and
option in `Cases`, from `DecodeAssumption` (counts are natural numbers, and a bootstrap with its
Meta-BTS returns above the level from which one is worth it, 18 + 8):

* `Lineage`: `Spec => []LineageKept`, for chains `WithinReach`;
* `Ledger`: `Spec => []LedgerCovers`, for chains that are also `Foreseen`.

Both are false of arbitrary options, and the hypotheses name what the code takes for granted. They
are conservative; the run checks that each of its 3 272 chains and options meets them, and the default options
of the finding in section 6 do not. `WithinReach` asks for

* a context of at least 44 levels, the depth the code is fitted to;
* polynomials that leave room for a Meta-BTS above them (`PolynomialsFit`), and a decay of at least
  four levels: a conv, gate, dt or decay input that is not refreshed sits at most at level 25, or at
  the level its requirement and the headroom allow, and the polynomial starts there;
* a headroom of 8, or of 4 if all layers are scheduled or none needs a Meta-BTS inside it: the
  checkpoint counts one level for a Meta-BTS that takes five;
* a final norm's polynomial of depth 9 at most, since nothing is refreshed before it;
* a state that is refreshed in time (`StateFits`): by request after every token, or by its own
  requirement with enough levels to spare, or after a number of tokens that the headroom covers, each
  token costing one level. This is the clause that the default options break.

The inductive invariant has two parts. `Drained` says where a layer's ciphertexts can stand at each
segment: a checkpoint lets a level pass only if it is at most 25 or leaves requirement and headroom
(`Cap`), so each bound is the cap of the last checkpoint plus the products since. `Carries` says it of
what is carried: the state of a layer is below the cap of its last refresh plus its age in tokens
since then, and below what its own checkpoint lets pass. One lemma per segment shows that the levels
needed stay within the context and that the next segment's bounds hold.

The ledger needs a second invariant, `Forecast`: as long as the first layer is at work, each
ciphertext is no deeper than the ledger's variable of that name, and so are the inputs of the conv
and the state carried from the last token. A checkpoint never raises a level (it bootstraps
from 26 on and returns below that), which gives every product. The exception is a refresh that the ledger sees too: it counts
the refreshed state as 18 where the evaluator may leave it up to 25, and it forgets that the next
token's update multiplies it by a decay that may be deeper. Hence `Foreseen`: no refresh is
requested, or the products with the state are so deep that its own level does not matter
(`Deep`), as they are in all fitted payloads. The iterations of the norms and the ledger's recursion
over tokens are recursive functions; they are shown to be chains (`CommonLemmas`) first, and the
bound is then carried along the chain.

`CommonLemmas` has what these proofs share: counts, ranks, remainders, chains (a sequence of states
from a start and a step function), and facts about programs.

Only model-checked:

* liveness, of `DagEvaluation`, `SerialDiagonals`, runners and campaigns;
* of the properties of `SlotMachine` all that is not about a replicated projection: routings, state
  layouts, key plans and exported programs (`RoutingExact`, `BuilderExact`, `StateLayoutExact`, and the
  other cases of `ProjectionExact`, `DepthCounted` and `KeysCover`). `Traced` holds of them too, but their
  programs are generated from a map, a program or a script, and what they compute is an
  induction over that data.

## 5. What is left out, and why

* Ciphertext arithmetic, noise and precision: numerical, not behavioural.
* The executor without planned refresh, two-pass bootstraps, `frontier` with `s2c_first`, and the
  dual ring: further refresh implementations behind the same loop. `Depth` abstracts the context.
* Of the slot routines: the legacy radix-2 routing, hoisted rotation batches, the table
  `mamba2_inventory`, calibration and polynomials of the exporter, the scales of a normalised state.
* Of the decode: values, noise, normalisation bounds, complex pairing as two ciphertexts (groups share
  one history), groups without decay, refreshes of selected layers only, the plaintext budget.
  A headroom below 4 is left out of `decode_levels`: the code accepts it and runs out of levels.
* What `native.json` must contain is one verdict in `GpuBudget`; the artifact validator one in
  `Campaign`.
* The largest sources are numerical Python without state (`ops.py`, `m1_payload.py`, `noise_flow.py`,
  `reference.py`, the calibration and error-growth experiments) or archived studies under
  `results/`; `readout_layout.py`, `lowering.py` and `prefill_budget.py` are cost tables.
* A node whose cost exceeds `Ceiling − Refreshed` (the planner accepts it, the executor would pass
  the ceiling): no exported program has one; `ExecutorAssumption` states it.
* In the look-ahead encoder: a thread that cannot be started (the program terminates), and the
  start-up test that falls back to one thread when concurrent encoding changes a plaintext
  (`stage1_mamba2_decode_fideslib.cpp:2757-2856`); the external encoder is a function of its input.
* In the campaign: `--dry-run`, the numeric acceptance criteria (one verdict per artifact), the
  wording of issues, and hosts that crash (the report is replaced by an atomic rename).
* The parts marked `not_modelled` in `PROJECT.json`, each with its reason.

## 6. Where code and text disagree

* `campaign_stale_resume`: a record in state `preflight-failed` carries the environment of an
  invocation that measured nothing; a later `--resume` under it takes over an older artifact
  (`experiments/run_dgx_campaign.py:696` against `docs/validation.md:407-412`).
* `campaign_stale_execution`: the runner's return code is recorded and not used; a runner that exits
  before it archives the old artifact has it reported as executed
  (`experiments/run_dgx_campaign.py:1149` against `docs/validation.md:404-405`).
* `campaign_orphan`: a signal between `Popen` and `try`, or a second one during termination, leaves
  the runner alive (`experiments/run_dgx_campaign.py:724` against
  `tests/test_dgx_campaign_runner.py:745`).
* `decode_level_driven`: with the default options a state of level 37 is not refreshed after its
  update; y then stands at level 40 and its Meta-BTS needs level 45 of 44, at the fourteenth token of
  one layer (`stage1_mamba2_decode_fideslib.cpp:2668` against its comment at `:3627`, and
  `stage1_mamba2_depth.hpp:20` for what happens there). Measured runs refresh the state every token.

Met while modelling, without a run:

* `experiments/manage_dgx_build.py:129-134` compares only the binary of an artifact before it replaces
  the payload's hash. A runner left over by a signal finishes with payload 1 after the next runner, for
  payload 2 of the same build, has cleared the path; that runner's backend fails, its script stamps
  payload 2 on what lies there, and the artifact of payload 1 is accepted, against the comment at
  `experiments/run_dgx_campaign.py:1011-1012`. `PayloadHolds` with `Interrupts = TRUE` shows the trace.
* `choose_interleaved_window` calls its window the tightest safe one; for every instance checked the
  window `n * ceil(m / n)` would be exact already.
* `replicated_state_blocks` says slot-exact; it is if `group_block >= 2 * state_size` or the state has
  size 1, and its check accepts shorter blocks.
* `rotation_keys.py` says every rotation decomposes into its keys; so does every rotation by at most
  half the slots.
* `run_packed_probe.py:2` promises a hard timeout; a Ctrl-C ends the runner and leaves the probe
  running. A runner that is killed charges nothing, or leaves an empty ledger (a fresh budget) or a
  torn one. `GpuSecondsWithinLimit` is therefore stated for behaviours without such faults.
* `estimate_levels` counts nothing of a polynomial gated norm, so `LedgerCovers` leaves that payload
  out; it also takes a refreshed state to be at level 18, where the evaluator puts it at 20 or 21.
* With headroom 4, shared heads and a separate decay, the refresh of the state at level 40 reaches the
  last modulus: `req_decay` omits the level of the shared extraction.

## 7. Plan

1. Done: packed program, ready schedule with proofs; depth planner and executor; campaign with proofs;
   look-ahead encoder with proofs; routing, projections, layouts, key planner and exporter in slots,
   with proofs of their arithmetic and of the projections; probe runner with proofs; levels of the Mamba-2 decode against its
   requirements and its ledger.
2. The Chebyshev split (`cheb_ps_cost`, `plan_cheb_ps`) against the evaluator; the plaintext budget.
3. The plaintext mask cache refining a map; the process-separated handoff with crashes between its
   phases; the rest of build identity (a rebuild between
   validation and measurement).
4. Proofs: done for the schedule, planner, executor, look-ahead encoder, campaign, probe runner, decode and
   replicated projections. Left are the split and the staged routings of a slot program.
