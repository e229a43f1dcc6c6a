---------------------------- MODULE DecodeLevels ----------------------------
(***************************************************************************)
(* Levels of the Mamba-2 decode (stage1_mamba2_decode_fideslib.cpp): every *)
(* product consumes one of the Depth levels of the context, and before     *)
(* each segment of a layer the program decides, from the level of one      *)
(* ciphertext and a requirement written down for the segment, whether to   *)
(* bootstrap.  Nothing checks that the requirements fit the circuit.       *)
(*                                                                         *)
(* A ciphertext is its level: Fresh before its first product (which        *)
(* GetLevel does not show yet), one more after each.  State groups and     *)
(* streams of one layer have one history and one level, paired or not.     *)
(***************************************************************************)
EXTENDS Integers, Sequences, FiniteSetsExt

CONSTANTS
  Cases,      \* [config, plans]: command line, and the payload of each layer
  Taps,       \* conv_kernel
  Refreshed   \* level at which EvalBootstrap returns its result

(* Options and payloads as the command line and the artifact are checked:  *)
(* a norm has a polynomial for its guess, a constant or a schedule.        *)
Counts(norm) ==
  /\ norm.kind # "none" => norm.iterations \in Nat \ {0}
  /\ norm.kind \in {"newton", "polynomial"} => norm.depth \in Nat
Options(c) ==
  /\ {c.tokens, c.streams} \subseteq Nat \ {0}
  /\ {c.depth, c.auto_headroom, c.residual_headroom, c.carried_headroom, c.interval}
       \subseteq Nat
  /\ {c.meta, c.normalized, c.normalized_meta, c.post, c.replicated, c.replicated_out,
      c.shared, c.late} \subseteq BOOLEAN
  /\ c.final.kind \in {"none", "newton", "schedule"} /\ Counts(c.final)
Payload(p) ==
  /\ {p.conv, p.gate, p.dt, p.roots, p.exp, p.squarings} \subseteq Nat
  /\ p.joint \in BOOLEAN
  /\ p.rms.kind \in {"newton", "schedule"} /\ Counts(p.rms)
  /\ p.gated.kind \in {"polynomial", "guess", "schedule"} /\ Counts(p.gated)

(* A bootstrapped ciphertext, once more for a Meta-BTS, is not refreshed   *)
(* again before it has lost a level (kAssumedBootstrapOutputLevel and      *)
(* kMinBootstrapGain).                                                     *)
ASSUME DecodeAssumption ==
  /\ Taps \in Nat \ {0}
  /\ Refreshed \in Nat /\ Refreshed + 2 < 18 + 8
  /\ \A c \in Cases : /\ Options(c.config)
                      /\ c.plans \in Seq({c.plans[l] : l \in DOMAIN c.plans}) /\ c.plans # <<>>
                      /\ \A l \in DOMAIN c.plans : Payload(c.plans[l])

VARIABLES
  config, plans,
  token, layer, segment,   \* where the token loop is
  ct,           \* levels of the ciphertexts of the layer at hand
  state, fifo,  \* carried per layer: recurrent state (or NoState), conv inputs
  reached       \* every level the last segment needed

vars == <<config, plans, token, layer, segment, ct, state, fifo, reached>>

Layers == 1 .. Len(plans)
plan == plans[layer]
Fresh == -1
NoState == -2
Two(a, b) == IF a > b THEN a ELSE b
Least(a, b) == IF a < b THEN a ELSE b
Times(a, b) == Two(a, b) + 1
GetLevel(l) == Two(l, 0)
If(condition) == IF condition THEN 1 ELSE 0

-----------------------------------------------------------------------------

kAssumedBootstrapOutputLevel == 18
kMinBootstrapGain == 8
kNewtonSegmentEstimate == 14
kScheduledNormInputRequirement == 18
kJointWriteTailRequirementOfFive == 5   \* mutant: the tail's products miscounted
kJointWriteTailRequirement == 6

(* What each segment of a layer is taken to need (make_layer_plan). *)
NormExtra(c) == If(c.streams > 1)
HeadExtra(c) == If(c.shared)
Joint(p) == p.joint
DtTail(p) == IF Joint(p) THEN 2 ELSE 1
req_residual(c, p) ==
  NormExtra(c) + IF p.rms.kind = "schedule" THEN kScheduledNormInputRequirement
                 ELSE 4 + p.rms.depth + 2 * p.rms.iterations
req_proj(c, p) == 1 + Two(p.conv, Two(p.gate + 2, p.dt + DtTail(p)))
req_fifo(c, p) == 2 + p.conv
req_conv(c, p) == IF c.replicated THEN 7 ELSE 6
req_dt(c, p) == IF Joint(p) THEN kJointWriteTailRequirement + HeadExtra(c)
                ELSE 2 + p.exp + p.squarings
req_decay(c, p) == 3
req_state_pre(c, p) == 5 + HeadExtra(c)
req_state_tail(c, p) == 4
req_y(c, p) ==
  NormExtra(c) + IF p.gated.kind = "schedule" THEN kScheduledNormInputRequirement ELSE 4
req_out(c, p) == 2

-----------------------------------------------------------------------------

(* Which refreshes are done twice (Meta-BTS): on branches of a scheduled   *)
(* layer, and where the command line asks for it.                          *)
Carried(what) == what \in {"state", "fifo"}
ScheduledLayer == "schedule" \in {plan.rms.kind, plan.gated.kind}
should_use_meta_bts(what) ==
  \/ ~Carried(what) /\ (ScheduledLayer \/ what = "scheduled_norm")
  \/ /\ config.meta
     /\ ~(what = "state" /\ config.normalized /\ ~config.normalized_meta)
     /\ \/ Carried(what) \/ what = "gated_poly_input"
        \/ what = "residual" /\ layer \in config.meta_residual_layers

headroom(what) ==
  IF Carried(what) THEN config.carried_headroom
  ELSE IF what = "residual" THEN config.residual_headroom ELSE config.auto_headroom

bootstrap_needed(l, requirement, what) ==
  /\ config.depth - GetLevel(l) <
       requirement + If(should_use_meta_bts(what)) + headroom(what)
  /\ GetLevel(l) >= kAssumedBootstrapOutputLevel + kMinBootstrapGain

(* A stretch of a circuit: the level it ends at, and every level it needs  *)
(* on the way.                                                             *)
Through(l) == [at |-> l, needs |-> {l}]
Then(s, t) == [at |-> t.at, needs |-> s.needs \cup t.needs]
Product(s, l) == Then(s, Through(l))

(* maybe_bootstrap.  Preparing the input (normalised, rescaled) takes two  *)
(* levels.  A Meta-BTS needs four, and one more modulus below them: its    *)
(* correction is lost on the last one.                                     *)
maybe_bootstrap(l, requirement, what) ==
  LET meta == should_use_meta_bts(what)
      back == Refreshed + 1 + If(meta)
  IN  IF bootstrap_needed(l, requirement, what)
      THEN [at |-> back, needs |-> {l + (IF meta THEN 5 ELSE 2), back}]
      ELSE Through(l)

(* y <- 1.5 y - (v y / 2) y^2, refreshed before each iteration. *)
Refined(before, v, requirement, what) ==
  LET y == maybe_bootstrap(before.at, requirement, what)
  IN  Product(Then(before, y), Times(Times(v, y.at), y.at + 1))
Iterated(guess, v, iterations, requirement, what) ==
  LET iterate[i \in 0 .. iterations] ==
        IF i = 0 THEN guess ELSE Refined(iterate[i - 1], v, requirement, what)
  IN  iterate[iterations]

newton_refine(guess, v, iterations) == Iterated(guess, v, iterations, 2, "newton")

(* The scheduled cubic iteration: a seed of four scalings, then the same   *)
(* update with the original variance, scaled anew each time.               *)
scheduled_inverse(v, iterations) ==
  Iterated(Through(v + 4), v + 1, iterations, 5, "scheduled_norm")

(* 1/sqrt of the variance sum v of the residual stream. *)
block_inverse(v, norm) ==
  IF norm.kind = "schedule" THEN scheduled_inverse(v + 1, norm.iterations)
  ELSE newton_refine(Through(v + 1 + norm.depth), v + 1, norm.iterations)

(* 1/sqrt of the variance sum of the gated output: scheduled; a polynomial *)
(* for the quarter root, squared and damped; or a constant guess.          *)
gated_inverse(v, norm) ==
  CASE norm.kind = "schedule" -> scheduled_inverse(v + 1, norm.iterations)
    [] norm.kind = "polynomial" ->
         LET u == maybe_bootstrap(v + 1, norm.depth + 1 + 2 * norm.iterations,
                                  "gated_poly_input")
         IN  newton_refine(Product(u, u.at + norm.depth + 2), u.at + 1, norm.iterations)
    [] norm.kind = "guess" ->
         LET u == maybe_bootstrap(v + 1, kNewtonSegmentEstimate, "gated_variance")
             z == newton_refine(u, u.at, norm.iterations - 1)
         IN  Product(z, z.at + 1)

-----------------------------------------------------------------------------

(* The pre-run ledger: the level of each token's output if nothing but the *)
(* requested state refreshes interrupts the circuit (estimate_levels).     *)
ExpandedHeadShared(c, l) == l + 1   \* mutant: the extraction of a shared head is free
ExpandedHead(c, l) == l + 1 + HeadExtra(c)

inv1(c, p) == NormExtra(c) + IF p.rms.kind = "schedule" THEN 6 + 2 * p.rms.iterations
                             ELSE 2 + p.rms.depth + 2 * p.rms.iterations
proj_level(c, p) == inv1(c, p) + 1
xconv(c, p) == proj_level(c, p) + 1 + p.conv
dt_lvl(c, p) == proj_level(c, p) + 1 + p.dt + DtTail(p)
decay_lvl(c, p) == IF Joint(p) THEN dt_lvl(c, p) ELSE dt_lvl(c, p) + 1 + p.exp + p.squarings
bc_exp(c, p) == xconv(c, p) + IF c.replicated THEN 2 ELSE 1
update_level(c, p) ==
  Times(Times(xconv(c, p) + 1, ExpandedHead(c, dt_lvl(c, p))), bc_exp(c, p))

(* The state after token t, from the one before it.                        *)
EstimateRefreshes(c, t) == t > 0 /\ (c.post \/ (c.interval > 0 /\ t % c.interval = 0))
EstimateBefore(c, t, s) ==
  IF t \in c.reencrypt_before THEN 0
  ELSE IF t \in c.bootstrap_before THEN Least(s, kAssumedBootstrapOutputLevel) ELSE s
EstimateNext(c, p, t, s) ==
  IF EstimateRefreshes(c, t) THEN kAssumedBootstrapOutputLevel
  ELSE Times(ExpandedHead(c, decay_lvl(c, p)), EstimateBefore(c, t, s))
state_levels(c, p) ==
  LET after[t \in 0 .. c.tokens - 1] ==
        IF t = 0 THEN update_level(c, p) ELSE EstimateNext(c, p, t, after[t - 1])
  IN  after

y_level(c, p, t) ==
  Times(Two(state_levels(c, p)[t], bc_exp(c, p)) + 2, proj_level(c, p) + 1 + p.gate)
inv2(c, p, y) ==
  y + 1 + NormExtra(c) + IF p.gated.kind = "schedule" THEN 5 + 2 * p.gated.iterations
                         ELSE 1 + 2 * (p.gated.iterations - 1)
token_output_levels(c, p) ==
  [t \in 0 .. c.tokens - 1 |-> LET y == y_level(c, p, t) IN Times(y + 1, inv2(c, p, y))]

-----------------------------------------------------------------------------

Blank == [hidden |-> Fresh, inverse |-> Fresh, proj |-> Fresh, conv |-> Fresh,
          gate |-> Fresh, dt |-> Fresh, decay |-> Fresh, y |-> Fresh]

Init ==
  /\ \E c \in Cases : config = c.config /\ plans = c.plans
  /\ token = 0 /\ layer = 1 /\ segment = "token"
  /\ ct = Blank
  /\ state = [l \in Layers |-> NoState]
  /\ fifo = [l \in Layers |-> <<>>]
  /\ reached = {}

(* The loop is in segment s and goes on to next, having run the stretches  *)
(* of circuits in flows.                                                   *)
Segment(s, next, flows) ==
  /\ segment = s
  /\ segment' = next
  /\ reached' = UNION {f.needs : f \in flows}
  /\ UNCHANGED <<config, plans>>

HasState == state[layer] # NoState

(* A token: carried ciphertexts are encrypted anew by the client, then     *)
(* bootstrapped, before the tokens the command line names; the token's     *)
(* embedding is encrypted.                                                 *)
StartToken ==
  LET here(l) == state[l] # NoState
      anew == token \in config.reencrypt_before
      boot(l, what) == IF token \in config.bootstrap_before
                       THEN maybe_bootstrap(l, config.depth, what) ELSE Through(l)
      s(l) == boot(IF anew THEN Fresh ELSE state[l], "state")
      f(l) == [k \in DOMAIN fifo[l] |-> boot(IF anew THEN Fresh ELSE fifo[l][k], "fifo")]
  IN  /\ Segment("token", "block_norm",
           {s(l) : l \in {k \in Layers : here(k)}}
             \cup UNION {{f(l)[k] : k \in DOMAIN fifo[l]} : l \in Layers})
      /\ state' = [l \in Layers |-> IF here(l) THEN s(l).at ELSE NoState]
      /\ fifo' = [l \in Layers |-> [k \in DOMAIN fifo[l] |-> f(l)[k].at]]
      /\ ct' = Blank
      /\ UNCHANGED <<token, layer>>

BlockNorm ==
  LET h == maybe_bootstrap(ct.hidden, req_residual(config, plan), "residual")
      v == h.at + 1 + NormExtra(config)
      inverse == block_inverse(v, plan.rms)
  IN  /\ Segment("block_norm", "in_proj", {h, inverse})
      /\ ct' = [ct EXCEPT !.hidden = h.at, !.inverse = inverse.at]
      /\ UNCHANGED <<token, layer, state, fifo>>

(* late_level_projection_input: the input is dropped to the level at which *)
(* the inverse will meet its product.                                      *)
DroppedTo(l, inverse, products) ==
  IF config.late THEN Two(l, inverse - products) ELSE l

InProj ==
  LET product == Times(DroppedTo(ct.hidden, ct.inverse, 1) + 1, ct.inverse)
      proj == maybe_bootstrap(product, req_proj(config, plan), "proj")
  IN  /\ Segment("in_proj", "conv", {Through(product), proj})
      /\ ct' = [ct EXCEPT !.proj = proj.at]
      /\ UNCHANGED <<token, layer, state, fifo>>

(* The last Taps projections, each refreshed for itself, then the taps and *)
(* the polynomial.                                                         *)
Conv ==
  LET all == Append(fifo[layer], ct.proj)
      kept == SubSeq(all, 1 + Two(0, Len(all) - Taps), Len(all))
      inputs == [k \in DOMAIN kept |-> maybe_bootstrap(kept[k], req_fifo(config, plan), "fifo")]
      u == Max({inputs[k].at : k \in DOMAIN inputs}) + 1
      conv == maybe_bootstrap(u + plan.conv, req_conv(config, plan), "conv_silu")
  IN  /\ Segment("conv", "gates",
           {inputs[k] : k \in DOMAIN inputs} \cup {Through(u + plan.conv), conv})
      /\ fifo' = [fifo EXCEPT ![layer] = [k \in DOMAIN inputs |-> inputs[k].at]]
      /\ ct' = [ct EXCEPT !.conv = conv.at]
      /\ UNCHANGED <<token, layer, state>>

(* Gate, step size and decay, all from the projection.  Jointly fitted     *)
(* roots give dissipation and step as squares; otherwise the step is a     *)
(* squared polynomial and the decay one of the step, squared repeatedly.   *)
Squared(before, left) ==
  LET v == maybe_bootstrap(before.at, left + req_decay(config, plan), "decay_sq")
  IN  Product(Then(before, v), v.at + 1)

Decay(dt) ==
  LET square[i \in 0 .. plan.squarings] ==
        IF i = 0 THEN Through(dt + 1 + plan.exp)
        ELSE Squared(square[i - 1], plan.squarings - i + 1)
  IN  square[plan.squarings]

Gates ==
  LET gate == ct.proj + 1 + plan.gate
      dissipation == ct.proj + 1 + plan.roots + 1
      step == IF Joint(plan) THEN dissipation + 1 ELSE ct.proj + 1 + plan.dt + 1
      dt == maybe_bootstrap(step, req_dt(config, plan), "dt")
      before == IF Joint(plan) THEN Through(dissipation + 1) ELSE Decay(dt.at)
      decay == Then(before, maybe_bootstrap(before.at, req_decay(config, plan), "decay"))
  IN  /\ Segment("gates", "state", {Through(gate), Through(step), dt}
                                     \cup {f \in {decay} : HasState})
      /\ ct' = [ct EXCEPT !.gate = gate, !.dt = dt.at, !.decay = decay.at]
      /\ UNCHANGED <<token, layer, state, fifo>>

(* The recurrence and its readout: the state is refreshed before and after *)
(* its update; asked for, the second refresh takes place whatever its      *)
(* level.                                                                  *)
PlacedBlocks(l) == l + IF config.replicated THEN 2 ELSE 1
PlacedHead(l) == l + 1 + HeadExtra(config)
RefreshDue ==
  HasState /\ (config.post \/ (config.interval > 0 /\ token % config.interval = 0))

StateUpdate ==
  LET update == Times(Times(ct.conv + 1, PlacedHead(ct.dt)), PlacedBlocks(ct.conv))
      old == maybe_bootstrap(state[layer], req_state_pre(config, plan), "state")
      new == IF HasState THEN Product(old, Two(update, Times(PlacedHead(ct.decay), old.at)))
             ELSE Through(update)
      kept == maybe_bootstrap(new.at,
                IF RefreshDue THEN config.depth ELSE req_state_tail(config, plan), "state")
      readout == Two(kept.at, PlacedBlocks(ct.conv)) + 2
      product == Times(Two(readout, ct.conv + 1), ct.gate)
      y == maybe_bootstrap(product, req_y(config, plan), "y")
  IN  /\ Segment("state", "gated_norm", {Through(update), new, kept, Through(product), y})
      /\ state' = [state EXCEPT ![layer] = kept.at]
      /\ ct' = [ct EXCEPT !.y = y.at]
      /\ UNCHANGED <<token, layer, fifo>>

GatedNorm ==
  LET inverse == gated_inverse(ct.y + 1 + NormExtra(config), plan.gated)
      y == maybe_bootstrap(ct.y, req_out(config, plan), "y_out")
  IN  /\ Segment("gated_norm", "out_proj", {inverse, y})
      /\ ct' = [ct EXCEPT !.inverse = inverse.at, !.y = y.at]
      /\ UNCHANGED <<token, layer, state, fifo>>

OutProj ==
  LET products == IF config.replicated_out THEN 2 ELSE 1
      out == Times(DroppedTo(ct.y, ct.inverse, products) + products, ct.inverse)
      last == layer = Len(plans)
  IN  /\ Segment("out_proj", IF last THEN "output" ELSE "block_norm", {Through(out)})
      /\ ct' = [Blank EXCEPT !.hidden = Two(out, ct.hidden)]
      /\ layer' = IF last THEN layer ELSE layer + 1
      /\ UNCHANGED <<token, state, fifo>>

(* A whole chain ends in a norm of its own; a truncated one only keeps     *)
(* levels for the decryption.                                              *)
FinalNorm(norm) ==
  LET what == IF norm.kind = "schedule" THEN "scheduled_norm" ELSE "final_norm"
      h == maybe_bootstrap(ct.hidden + 1,
             IF norm.kind = "schedule" THEN kScheduledNormInputRequirement ELSE 12, what)
      inverse == block_inverse(h.at + 1 + NormExtra(config), norm)
      product == IF norm.kind = "schedule" THEN Times(h.at + 1, inverse.at)
                 ELSE Times(h.at, inverse.at) + 1
  IN  Product(Then(h, inverse), product)

Output ==
  LET out == IF config.final.kind = "none"
             THEN maybe_bootstrap(ct.hidden, Two(0, 12 - config.auto_headroom), "output")
             ELSE FinalNorm(config.final)
  IN  /\ Segment("output", IF token + 1 < config.tokens THEN "token" ELSE "done", {out})
      /\ token' = token + 1 /\ layer' = 1
      /\ ct' = [Blank EXCEPT !.hidden = out.at]
      /\ UNCHANGED <<state, fifo>>

Finish == segment = "done" /\ UNCHANGED vars

Next ==
  \/ StartToken \/ BlockNorm \/ InProj \/ Conv \/ Gates \/ StateUpdate
  \/ GatedNorm \/ OutProj \/ Output \/ Finish

Spec == Init /\ [][Next]_vars

-----------------------------------------------------------------------------

(* Every level a segment needs, its refreshes included, exists in the      *)
(* context ("mid-circuit bootstrap checkpoints keep every ciphertext       *)
(* lineage within the depth-44 geometry", run_layer).                      *)
LineageKept == \A l \in reached : l <= config.depth

(* Whatever is refreshed on the way, the first layer ends no deeper than   *)
(* the pre-run ledger says (estimate_levels counts a fresh ciphertext as   *)
(* level 0).  A gated norm with a polynomial guess is left out: the ledger *)
(* counts none of that polynomial.                                         *)
AfterFirstLayer ==
  \/ layer = 2 /\ segment = "block_norm"
  \/ Len(plans) = 1 /\ segment = "output"
LedgerCovers ==
  AfterFirstLayer /\ plans[1].gated.kind # "polynomial" =>
    GetLevel(ct.hidden) <= token_output_levels(config, plans[1])[token]

-----------------------------------------------------------------------------

(* The chains of which LineageKept is a theorem: polynomials shallow       *)
(* enough for a Meta-BTS above them, room for the decay, a headroom of 8,  *)
(* or of 4 in chains of one kind, and a state refreshed in time.           *)
Scheduled(p) == p.rms.kind = "schedule" /\ p.gated.kind = "schedule"
Fitted(p) == p.rms.kind = "newton" /\ p.gated.kind = "polynomial"
SomeSchedule(p) == "schedule" \in {p.rms.kind, p.gated.kind}

PolynomialsFit(c, p) ==
  /\ p.conv + 31 <= c.depth /\ p.gate + 32 <= c.depth
  /\ IF p.joint THEN p.roots <= p.dt /\ p.roots + 33 <= c.depth
     ELSE /\ p.dt + 32 <= c.depth /\ p.exp + 31 <= c.depth
          /\ p.exp + p.squarings >= 4 + HeadExtra(c)
  /\ p.rms.kind = "newton" =>
       p.rms.depth + 34 <= c.depth /\ p.rms.depth + 2 * p.rms.iterations >= 5
  /\ p.gated.kind = "polynomial" => p.gated.depth + 34 <= c.depth

Plain(c, ps) ==
  /\ \A l \in DOMAIN ps : Fitted(ps[l])
  /\ c.meta_residual_layers = {} /\ c.final.kind # "schedule"
HeadroomFits(c, ps) ==
  \/ c.auto_headroom >= 8
  \/ /\ c.auto_headroom >= 4
     /\ (\A l \in DOMAIN ps : Scheduled(ps[l])) \/ (Plain(c, ps) /\ ~c.shared)

(* How many tokens a state may pass without a requested refresh.           *)
Gap(c) == IF c.post THEN 1 ELSE IF c.interval > 0 THEN Least(c.interval, c.tokens) ELSE c.tokens
StateMeta(c) == c.meta /\ ~(c.normalized /\ ~c.normalized_meta)
StateFits(c, p) ==
  \/ Gap(c) = 1
  \/ c.carried_headroom + If(StateMeta(c)) >= (IF SomeSchedule(p) THEN 4 ELSE 1)
  \/ /\ Gap(c) + 36 <= c.depth
     /\ c.auto_headroom >= HeadExtra(c) + Gap(c) + (IF SomeSchedule(p) THEN 5 ELSE 3)

WithinReach(c, ps) ==
  /\ c.depth >= 44
  /\ HeadroomFits(c, ps)
  /\ c.final.kind = "newton" => c.final.depth <= 9
  /\ \A l \in DOMAIN ps : PolynomialsFit(c, ps[l]) /\ StateFits(c, ps[l])

(* The layers of which LedgerCovers is a theorem: no refresh of the state  *)
(* is asked for, or what follows one is deeper than any refreshed state    *)
(* (the ledger counts a refreshed state as 18, and forgets the update).    *)
NoRequest(c) ==
  ~c.post /\ c.interval = 0 /\ c.reencrypt_before = {} /\ c.bootstrap_before = {}
GuessExtra(p) == If(p.gated.kind = "guess")
Deep(c, p) ==
  LET decay == decay_lvl(c, p) + HeadExtra(c)
  IN  /\ bc_exp(c, p) >= 25 + GuessExtra(p) /\ decay >= 24 + GuessExtra(p)
      /\ xconv(c, p) + GuessExtra(p) <= decay
Foreseen(c, p) == (p.joint => p.roots < p.dt) /\ (NoRequest(c) \/ Deep(c, p))
=============================================================================
