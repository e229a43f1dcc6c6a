------------------------- MODULE DecodeLevelsProofs -------------------------
(* The checkpoints of the decode keep every level within the context, and  *)
(* its pre-run ledger covers the first layer's output: for any number of   *)
(* layers and tokens, and all chains WithinReach and Foreseen.             *)
EXTENDS DecodeLevels, CommonLemmas

Levels == {l \in Int : l >= Fresh}
Cyphers == [hidden : Levels, inverse : Levels, proj : Levels, conv : Levels,
            gate : Levels, dt : Levels, decay : Levels, y : Levels]
Segments == {"token", "block_norm", "in_proj", "conv", "gates", "state",
             "gated_norm", "out_proj", "output", "done"}

TypeInv ==
  /\ \E c \in Cases : config = c.config /\ plans = c.plans
  /\ token \in Nat /\ layer \in Layers /\ segment \in Segments
  /\ segment # "done" => token < config.tokens
  /\ segment = "token" => layer = 1
  /\ ct \in Cyphers
  /\ state \in [Layers -> Levels \cup {NoState}]
  /\ fifo \in [Layers -> Seq(Levels)]

(* Which refreshes of a layer are Meta-BTS, and what an input of a refresh *)
(* loses before it.                                                        *)
Meta(p) == If(SomeSchedule(p))
Loss(meta) == IF meta = 1 THEN 5 ELSE 2

(* The deepest level a checkpoint lets through, by the headroom of most.   *)
Cap(c, p, requirement) == Two(25, c.depth - requirement - Meta(p) - c.auto_headroom)

(* A residual can still be refreshed, by Meta-BTS unless the chain has     *)
(* none.                                                                   *)
HiddenCap == config.depth - (IF Plain(config, plans) THEN 3 ELSE 6)
BlockCap(p) == config.depth - 6 - Meta(p)
ProductCap(p) == config.depth - 1 - Loss(Meta(p))

Drained ==
  LET within(requirement) == Cap(config, plan, requirement)
  IN  /\ segment \in {"block_norm", "output"} => ct.hidden <= HiddenCap
      /\ segment \in {"in_proj", "conv", "gates", "state", "gated_norm", "out_proj"} =>
           ct.hidden <= BlockCap(plan)
      /\ segment = "in_proj" => ct.inverse <= ProductCap(plan)
      /\ segment \in {"conv", "gates"} => ct.proj <= within(req_proj(config, plan))
      /\ segment \in {"gates", "state"} => ct.conv <= within(req_conv(config, plan))
      /\ segment = "state" => /\ ct.gate + 1 + Loss(Meta(plan)) <= config.depth
                              /\ ct.dt <= within(req_dt(config, plan))
                              /\ ct.decay <= within(req_decay(config, plan))
      /\ segment = "gated_norm" => ct.y <= within(req_y(config, plan))
      /\ segment = "out_proj" => /\ ct.y <= within(4)
                                 /\ ct.inverse <= HiddenCap - 1

(* The state of a layer was last updated at the token Updated(l), Age      *)
(* tokens after its last requested refresh.                                *)
Updated(l) ==
  IF l < layer \/ segment = "output" \/ (l = layer /\ segment \in {"gated_norm", "out_proj"})
  THEN token ELSE token - 1
Age(c, t) == IF c.post THEN 0 ELSE IF c.interval > 0 THEN t % c.interval ELSE t

StateCap(c) == Two(25, c.depth - 4 - If(StateMeta(c)) - c.carried_headroom)
UpdateCap(c, p) ==
  Two(28 + HeadExtra(c), c.depth - 1 + HeadExtra(c) - Meta(p) - c.auto_headroom)
FifoCap(c, p) == Two(25, c.depth - 1 - p.conv - Meta(p) - c.auto_headroom)

Carries ==
  \A l \in Layers :
    /\ state[l] = NoState => Updated(l) < 0
    /\ state[l] # NoState => /\ Updated(l) \in Nat
                             /\ state[l] <= StateCap(config)
                             /\ state[l] <= UpdateCap(config, plans[l]) + Age(config, Updated(l))
    /\ \A k \in DOMAIN fifo[l] : fifo[l][k] <= FifoCap(config, plans[l])

IInv == TypeInv /\ Drained /\ Carries

-----------------------------------------------------------------------------
(* Checkpoints.                                                            *)

Stretches == [at : Levels, needs : SUBSET Int]
Sound(s) == \A l \in s.needs : l <= config.depth

Reach == \A c \in Cases : WithinReach(c.config, c.plans)

(* The options are counts and flags, and the context is that of the        *)
(* measured runs or deeper.                                                *)
Sizes(c) ==
  /\ c.tokens \in Nat \ {0} /\ c.streams \in Nat \ {0}
  /\ c.depth \in Nat /\ c.auto_headroom \in Nat /\ c.residual_headroom \in Nat
  /\ c.carried_headroom \in Nat /\ c.interval \in Nat
  /\ c.meta \in BOOLEAN /\ c.normalized \in BOOLEAN /\ c.normalized_meta \in BOOLEAN
  /\ c.post \in BOOLEAN /\ c.replicated \in BOOLEAN /\ c.replicated_out \in BOOLEAN
  /\ c.shared \in BOOLEAN /\ c.late \in BOOLEAN
  /\ c.final.kind \in {"none", "newton", "schedule"} /\ Counts(c.final)
Shape(p) ==
  /\ p.conv \in Nat /\ p.gate \in Nat /\ p.dt \in Nat /\ p.roots \in Nat
  /\ p.exp \in Nat /\ p.squarings \in Nat /\ p.joint \in BOOLEAN
  /\ p.rms.kind \in {"newton", "schedule"} /\ Counts(p.rms)
  /\ p.gated.kind \in {"polynomial", "guess", "schedule"} /\ Counts(p.gated)

(* What is known of the chain at hand.                                     *)
Known ==
  /\ Sizes(config) /\ Refreshed \in Nat /\ Refreshed + 2 < 26
  /\ Taps \in Nat \ {0}
  /\ Layers = DOMAIN plans /\ Layers # {} /\ Len(plans) \in Nat
  /\ \A l \in Layers : Shape(plans[l])
LEMMA ChainKnown ==
  ASSUME TypeInv
  PROVE  Known
<1>1. PICK c \in Cases : config = c.config /\ plans = c.plans
  BY DEF TypeInv
<1>2. /\ Options(config) /\ plans \in Seq({plans[l] : l \in DOMAIN plans}) /\ plans # <<>>
      /\ \A l \in DOMAIN plans : Payload(plans[l])
  BY <1>1, DecodeAssumption
<1>3. Sizes(config)
  BY <1>2 DEF Options, Sizes
<1>4. \A l \in DOMAIN plans : Shape(plans[l])
  BY <1>2 DEF Payload, Shape
<1>5. Layers = DOMAIN plans /\ Layers # {} /\ Len(plans) \in Nat
  BY <1>2 DEF Layers
<1>6. QED BY <1>3, <1>4, <1>5, DecodeAssumption DEF Known

(* A chain within reach: the case at hand.                                 *)
LEMMA ChainReached ==
  ASSUME TypeInv, Reach
  PROVE  WithinReach(config, plans)
<1>1. PICK c \in Cases : config = c.config /\ plans = c.plans
  BY DEF TypeInv
<1>2. QED BY <1>1 DEF Reach

(* A checkpoint lets through what leaves its requirement and the headroom, *)
(* or is not worth a bootstrap; it never raises a level.                   *)
Checked(s, l, requirement, what) ==
  /\ s.at <= l
  /\ \/ s.at <= 25
     \/ s.at + requirement + If(should_use_meta_bts(what)) + headroom(what) <= config.depth
LossOf(what) == Loss(If(should_use_meta_bts(what)))
LEMMA Checkpoint ==
  ASSUME Known, NEW l \in Levels, NEW requirement \in Int, NEW what
  PROVE  LET s == maybe_bootstrap(l, requirement, what)
         IN  /\ s \in Stretches
             /\ Checked(s, l, requirement, what)
             /\ 44 <= config.depth /\ l + LossOf(what) <= config.depth => Sound(s)
<1> DEFINE s == maybe_bootstrap(l, requirement, what)
           meta == should_use_meta_bts(what)
           back == Refreshed + 1 + If(meta)
<1>1. headroom(what) \in Nat /\ config.depth \in Nat
  BY DEF Known, Sizes, headroom
<1>2. back \in Nat /\ back <= 25 /\ If(meta) \in {0, 1}
  BY DEF Known, If
<1>3. CASE bootstrap_needed(l, requirement, what)
  <2>1. s = [at |-> back, needs |-> {l + (IF meta THEN 5 ELSE 2), back}]
    BY <1>3 DEF maybe_bootstrap
  <2>2. l >= 26
    BY <1>3 DEF bootstrap_needed, GetLevel, Two, kAssumedBootstrapOutputLevel,
                kMinBootstrapGain, Levels
  <2>3. l + (IF meta THEN 5 ELSE 2) = l + LossOf(what) /\ l + LossOf(what) \in Int
    BY DEF LossOf, Loss, If, Levels
  <2>4. s \in Stretches
    <3> HIDE DEF back, meta, s
    <3>1. back \in Levels
      BY <1>2 DEF Levels, Fresh
    <3>2. {l + (IF meta THEN 5 ELSE 2), back} \in SUBSET Int
      BY <1>2, <2>3
    <3>3. QED BY <2>1, <3>1, <3>2 DEF Stretches
  <2>5. Checked(s, l, requirement, what)
    BY <1>2, <2>1, <2>2 DEF Checked, Levels
  <2>6. ASSUME 44 <= config.depth, l + LossOf(what) <= config.depth PROVE Sound(s)
    <3> HIDE DEF back, s
    <3>1. s.needs = {l + LossOf(what), back}
      BY <2>1, <2>3
    <3>2. back <= config.depth
      BY <1>1, <1>2, <2>6
    <3>3. QED BY <2>6, <3>1, <3>2 DEF Sound
  <2>7. QED BY <2>4, <2>5, <2>6
<1>4. CASE ~ bootstrap_needed(l, requirement, what)
  <2>1. s = [at |-> l, needs |-> {l}]
    BY <1>4 DEF maybe_bootstrap, Through
  <2>2. s \in Stretches
    BY <2>1 DEF Stretches, Levels
  <2>3. Checked(s, l, requirement, what)
    <3>1. CASE l <= 25
      BY <2>1, <3>1 DEF Checked, Levels
    <3>2. CASE l > 25
      <4>1. GetLevel(l) = l
        BY <3>2 DEF GetLevel, Two, Levels
      <4>2. ~ (config.depth - l < requirement + If(meta) + headroom(what))
        BY <1>4, <3>2, <4>1 DEF bootstrap_needed, kAssumedBootstrapOutputLevel,
                                kMinBootstrapGain, Levels
      <4>3. l + requirement + If(meta) + headroom(what) <= config.depth
        <5> HIDE DEF meta
        <5>1. QED BY <1>1, <1>2, <4>2 DEF Levels
      <4>4. QED BY <2>1, <4>3 DEF Checked, Levels
    <3>3. QED BY <3>1, <3>2 DEF Levels
  <2>4. ASSUME l + LossOf(what) <= config.depth PROVE Sound(s)
    <3>1. LossOf(what) \in {2, 5}
      BY DEF LossOf, Loss
    <3>2. l <= config.depth
      BY <1>1, <2>4, <3>1 DEF Levels
    <3>3. QED BY <2>1, <3>2 DEF Sound
  <2>5. QED BY <2>2, <2>3, <2>4
<1>5. QED BY <1>3, <1>4

(* Which refreshes are Meta-BTS, and which headroom they keep.             *)
Plainly == {"proj", "conv_silu", "dt", "decay", "decay_sq", "y", "y_out", "newton",
            "gated_variance", "output", "final_norm"}
LEMMA MetaBits ==
  ASSUME Known, Shape(plan)
  PROVE  /\ ScheduledLayer <=> SomeSchedule(plan)
         /\ \A what \in Plainly : /\ If(should_use_meta_bts(what)) = Meta(plan)
                                  /\ LossOf(what) = Loss(Meta(plan))
                                  /\ headroom(what) = config.auto_headroom
         /\ If(should_use_meta_bts("scheduled_norm")) = 1
         /\ LossOf("scheduled_norm") = 5
         /\ headroom("scheduled_norm") = config.auto_headroom
         /\ If(should_use_meta_bts("gated_poly_input"))
              = If(SomeSchedule(plan) \/ config.meta)
         /\ headroom("gated_poly_input") = config.auto_headroom
         /\ If(should_use_meta_bts("state")) = If(StateMeta(config))
         /\ headroom("state") = config.carried_headroom
         /\ If(should_use_meta_bts("fifo")) = If(config.meta)
         /\ headroom("fifo") = config.carried_headroom
         /\ If(should_use_meta_bts("residual"))
              = If(SomeSchedule(plan) \/ (config.meta /\ layer \in config.meta_residual_layers))
         /\ headroom("residual") = config.residual_headroom
<1>1. ScheduledLayer <=> SomeSchedule(plan)
  BY DEF ScheduledLayer, SomeSchedule
<1>2. \A what \in Plainly : should_use_meta_bts(what) <=> SomeSchedule(plan)
  BY <1>1 DEF should_use_meta_bts, Carried, Plainly
<1>3. should_use_meta_bts("scheduled_norm")
  BY DEF should_use_meta_bts, Carried
<1>4. should_use_meta_bts("gated_poly_input") <=> SomeSchedule(plan) \/ config.meta
  BY <1>1 DEF should_use_meta_bts, Carried
<1>5. should_use_meta_bts("state") <=> StateMeta(config)
  BY DEF should_use_meta_bts, Carried, StateMeta
<1>6. should_use_meta_bts("fifo") <=> config.meta
  BY DEF should_use_meta_bts, Carried
<1>7. should_use_meta_bts("residual")
        <=> SomeSchedule(plan) \/ (config.meta /\ layer \in config.meta_residual_layers)
  BY <1>1 DEF should_use_meta_bts, Carried
<1>8. /\ \A what \in Plainly \cup {"scheduled_norm", "gated_poly_input"} :
           headroom(what) = config.auto_headroom
      /\ headroom("state") = config.carried_headroom
      /\ headroom("fifo") = config.carried_headroom
      /\ headroom("residual") = config.residual_headroom
  BY DEF headroom, Carried, Plainly
<1>9. QED BY <1>1, <1>2, <1>3, <1>4, <1>5, <1>6, <1>7, <1>8 DEF If, LossOf, Loss, Meta

-----------------------------------------------------------------------------
(* Iterations.                                                             *)

(* A stretch of no products.                                               *)
LEMMA ThroughSound ==
  ASSUME Known, NEW l \in Levels
  PROVE  /\ Through(l) \in Stretches /\ Through(l).at = l
         /\ l <= config.depth => Sound(Through(l))
  BY DEF Through, Stretches, Sound, Levels

(* One stretch after another needs what both need.                         *)
LEMMA ThenSound ==
  ASSUME Known, NEW s \in Stretches, NEW t \in Stretches
  PROVE  /\ Then(s, t) \in Stretches /\ Then(s, t).at = t.at
         /\ Sound(s) /\ Sound(t) => Sound(Then(s, t))
<1>1. s.needs \in SUBSET Int /\ t.needs \in SUBSET Int /\ t.at \in Levels
  BY DEF Stretches
<1>2. Then(s, t) = [at |-> t.at, needs |-> s.needs \cup t.needs]
  BY DEF Then
<1>3. Then(s, t) \in Stretches
  BY <1>1, <1>2 DEF Stretches
<1>4. QED BY <1>2, <1>3 DEF Sound

(* A stretch and a product at its end.                                     *)
LEMMA ProductSound ==
  ASSUME Known, NEW s \in Stretches, NEW l \in Levels
  PROVE  /\ Product(s, l) \in Stretches /\ Product(s, l).at = l
         /\ Sound(s) /\ l <= config.depth => Sound(Product(s, l))
<1>1. /\ Through(l) \in Stretches /\ Through(l).at = l
      /\ l <= config.depth => Sound(Through(l))
  BY ThroughSound
<1>2. QED BY <1>1, ThenSound DEF Product

(* One update.                                                             *)
RefinedTo(r, s, v, requirement, what) ==
  /\ r.at <= Two(v, s.at) + 2
  /\ \/ r.at <= v + 2
     \/ r.at <= 27
     \/ r.at - 2 + requirement + If(should_use_meta_bts(what)) + headroom(what) <= config.depth
LEMMA RefinedStep ==
  ASSUME Known, NEW s \in Stretches, NEW v \in Levels, NEW requirement \in Int, NEW what
  PROVE  LET r == Refined(s, v, requirement, what)
         IN  /\ r \in Stretches
             /\ RefinedTo(r, s, v, requirement, what)
             /\ 44 <= config.depth /\ Sound(s) /\ s.at + LossOf(what) <= config.depth
                  /\ r.at <= config.depth => Sound(r)
<1> DEFINE y == maybe_bootstrap(s.at, requirement, what)
           l == Times(Times(v, y.at), y.at + 1)
           r == Refined(s, v, requirement, what)
<1>1. s.at \in Levels
  BY DEF Stretches
<1>2. /\ y \in Stretches
      /\ Checked(y, s.at, requirement, what)
      /\ 44 <= config.depth /\ s.at + LossOf(what) <= config.depth => Sound(y)
  BY <1>1, Checkpoint
<1>3. y.at \in Levels
  BY <1>2 DEF Stretches
<1> HIDE DEF y
<1>4. l \in Levels /\ l = Two(v, y.at) + 2
  BY <1>3 DEF Times, Two, Levels, Fresh
<1> HIDE DEF l
<1>5. r = Product(Then(s, y), l)
  BY DEF Refined, y, l
<1>6. /\ Then(s, y) \in Stretches
      /\ Sound(s) /\ Sound(y) => Sound(Then(s, y))
  BY <1>2, ThenSound
<1>7. /\ r \in Stretches /\ r.at = l
      /\ Sound(Then(s, y)) /\ l <= config.depth => Sound(r)
  BY <1>4, <1>5, <1>6, ProductSound
<1>8. RefinedTo(r, s, v, requirement, what)
  <2>1. headroom(what) \in Nat /\ If(should_use_meta_bts(what)) \in {0, 1} /\ config.depth \in Nat
    BY DEF headroom, If, Known, Sizes
  <2>2. s.at \in Int /\ v \in Int /\ y.at \in Int
    BY <1>1, <1>3 DEF Levels
  <2> HIDE DEF r
  <2>3. QED BY <1>2, <1>4, <1>7, <2>1, <2>2 DEF RefinedTo, Checked, Two
<1>9. QED BY <1>2, <1>6, <1>7, <1>8

(* The iterates one after the other.                                       *)
Iterates(f, guess, v, n, requirement, what) ==
  /\ f \in [0 .. n -> Stretches] /\ f[0] = guess
  /\ \A i \in 1 .. n : f[i] = Refined(f[i - 1], v, requirement, what)
LEMMA IterationUnfolds ==
  ASSUME Known, NEW guess \in Stretches, NEW v \in Levels, NEW n \in Nat,
         NEW requirement \in Int, NEW what
  PROVE  \E f : /\ Iterates(f, guess, v, n, requirement, what)
                /\ Iterated(guess, v, n, requirement, what) = f[n]
<1> DEFINE R(s) == Refined(s, v, requirement, what)
           step == [x \in (1 .. n) \X Stretches |-> R(x[2])]
           Equation(f) == f = [i \in 0 .. n |-> IF i = 0 THEN guess ELSE R(f[i - 1])]
           iterate == CHOOSE f : Equation(f)
<1>1. \A s \in Stretches : R(s) \in Stretches
  BY RefinedStep
<1> HIDE DEF R
<1>2. step \in [(1 .. n) \X Stretches -> Stretches]
  BY <1>1
<1>3. PICK g \in [0 .. n -> Stretches] : Follows(g, n, guess, step)
  <2> HIDE DEF step
  <2>1. QED BY <1>2, Chain
<1>4. \A i \in 1 .. n : g[i] = R(g[i - 1])
  <2> TAKE i \in 1 .. n
  <2>1. i - 1 \in 0 .. n /\ g[i - 1] \in Stretches
    BY <1>3
  <2>2. step[<<i, g[i - 1]>>] = R(g[i - 1])
    BY <2>1
  <2>3. QED BY <1>3, <2>2 DEF Follows
<1>5. Equation(g)
  <2>1. g[0] = guess
    BY <1>3 DEF Follows
  <2>2. \A i \in 0 .. n : g[i] = IF i = 0 THEN guess ELSE R(g[i - 1])
    BY <1>4, <2>1
  <2>3. QED BY <1>3, <2>2
<1>6. Equation(iterate)
  <2>1. \E f : Equation(f)
    BY <1>5
  <2>2. QED BY <2>1, Zenon
<1>7. Iterated(guess, v, n, requirement, what) = iterate[n]
  BY DEF Iterated, R
<1> HIDE DEF iterate
<1>8. /\ iterate[0] = guess
      /\ \A i \in 1 .. n : iterate[i] = R(iterate[i - 1])
      /\ DOMAIN iterate = 0 .. n
      /\ iterate = [i \in 0 .. n |-> iterate[i]]
  <2>1. \A i \in 0 .. n : iterate[i] = IF i = 0 THEN guess ELSE R(iterate[i - 1])
    BY <1>6
  <2>2. DOMAIN iterate = 0 .. n
    BY <1>6
  <2>3. iterate = [i \in 0 .. n |-> iterate[i]]
    BY <1>6, <2>1
  <2>4. 0 \in 0 .. n /\ \A i \in 1 .. n : i \in 0 .. n /\ i # 0
    OBVIOUS
  <2>5. iterate[0] = guess /\ \A i \in 1 .. n : iterate[i] = R(iterate[i - 1])
    BY <2>1, <2>4
  <2>6. QED BY <2>2, <2>3, <2>5
<1>9. \A i \in 0 .. n : iterate[i] \in Stretches
  <2> DEFINE B == {i \in 0 .. n : iterate[i] \notin Stretches}
  <2>1. SUFFICES ASSUME B # {} PROVE FALSE
    OBVIOUS
  <2>2. PICK i \in B : \A j \in B : i <= j
    BY <2>1, B \subseteq Nat, LeastNat
  <2>3. i \in 1 .. n /\ i - 1 \in 0 .. n /\ i - 1 \notin B
    BY <1>8, <2>2
  <2>4. iterate[i - 1] \in Stretches
    BY <2>3
  <2>5. iterate[i] \in Stretches
    BY <1>1, <1>8, <2>3, <2>4
  <2>6. QED BY <2>2, <2>5
<1>10. Iterates(iterate, guess, v, n, requirement, what)
  <2>1. iterate \in [0 .. n -> Stretches]
    BY <1>8, <1>9
  <2>2. QED BY <1>8, <2>1 DEF Iterates, R
<1>11. QED BY <1>7, <1>10

(* An iteration whose inputs can be refreshed stays within the context,    *)
(* and ends at most at top, a bound of each update.                        *)
Refinable(guess, v, requirement, what, top) ==
  /\ 44 <= config.depth /\ Sound(guess) /\ guess.at + LossOf(what) <= config.depth
  /\ top \in Int /\ top + LossOf(what) <= config.depth
  /\ v + 2 <= top /\ 27 <= top
  /\ config.depth - requirement - If(should_use_meta_bts(what)) - headroom(what) + 2 <= top
RefinedAll(s, guess, n, top) ==
  /\ s \in Stretches /\ Sound(s)
  /\ n # 0 => s.at <= top
  /\ n = 0 => s.at = guess.at
LEMMA IterationSound ==
  ASSUME Known, NEW guess \in Stretches, NEW v \in Levels, NEW n \in Nat,
         NEW requirement \in Int, NEW what, NEW top,
         Refinable(guess, v, requirement, what, top)
  PROVE  RefinedAll(Iterated(guess, v, n, requirement, what), guess, n, top)
<1>1. PICK f : /\ Iterates(f, guess, v, n, requirement, what)
               /\ Iterated(guess, v, n, requirement, what) = f[n]
  BY IterationUnfolds
<1>2. headroom(what) \in Nat /\ If(should_use_meta_bts(what)) \in {0, 1} /\ config.depth \in Nat
      /\ LossOf(what) \in {2, 5}
  BY DEF headroom, If, Known, Sizes, LossOf, Loss
<1> DEFINE Good(i) == /\ Sound(f[i]) /\ f[i].at + LossOf(what) <= config.depth
                      /\ i # 0 => f[i].at <= top
           B == {i \in 0 .. n : ~ Good(i)}
<1> USE DEF Refinable
<1>3. \A i \in 1 .. n : Good(i - 1) => Good(i)
  <2> TAKE i \in 1 .. n
  <2> HAVE Good(i - 1)
  <2>1. i - 1 \in 0 .. n /\ f[i - 1] \in Stretches /\ f[i] = Refined(f[i - 1], v, requirement, what)
    BY <1>1 DEF Iterates
  <2>2. /\ f[i] \in Stretches
        /\ RefinedTo(f[i], f[i - 1], v, requirement, what)
        /\ f[i].at <= config.depth => Sound(f[i])
    BY <2>1, RefinedStep
  <2>3. f[i].at \in Int /\ f[i].at <= top
    <3>1. f[i].at \in Int /\ v \in Int
      BY <2>2 DEF Stretches, Levels
    <3>2. QED BY <1>2, <2>2, <3>1 DEF RefinedTo
  <2>4. QED BY <1>2, <2>2, <2>3
<1>4. Good(0)
  BY <1>1 DEF Iterates
<1>5. B = {}
  <2>1. SUFFICES ASSUME B # {} PROVE FALSE
    OBVIOUS
  <2> HIDE DEF Good
  <2>2. PICK i \in B : \A j \in B : i <= j
    BY <2>1, B \subseteq Nat, LeastNat
  <2>3. i \in 1 .. n /\ i - 1 \in 0 .. n /\ i - 1 \notin B
    BY <1>4, <2>2
  <2>4. QED BY <1>3, <2>2, <2>3
<1>6. Good(n) /\ f[n] \in Stretches
  <2>1. n \in 0 .. n /\ n \notin B
    BY <1>5
  <2>2. f[n] \in Stretches
    BY <1>1, <2>1 DEF Iterates
  <2> HIDE DEF Good
  <2>3. QED BY <2>1, <2>2
<1>7. n = 0 => f[n].at = guess.at
  BY <1>1 DEF Iterates
<1>8. QED BY <1>1, <1>6, <1>7 DEF RefinedAll

(* The decay's squarings, the same way.                                    *)
SquaresOf(f, dt) ==
  /\ f \in [0 .. plan.squarings -> Stretches] /\ f[0] = Through(dt + 1 + plan.exp)
  /\ \A i \in 1 .. plan.squarings : f[i] = Squared(f[i - 1], plan.squarings - i + 1)
LEMMA SquaredStep ==
  ASSUME Known, Shape(plan), NEW s \in Stretches, NEW left \in Int
  PROVE  LET r == Squared(s, left)
         IN  /\ r \in Stretches
             /\ r.at <= s.at + 1
             /\ \/ r.at <= 26
                \/ r.at + 2 + left + Meta(plan) + config.auto_headroom <= config.depth
             /\ 44 <= config.depth /\ Sound(s) /\ s.at + Loss(Meta(plan)) <= config.depth
                  => Sound(r)
<1> DEFINE v == maybe_bootstrap(s.at, left + req_decay(config, plan), "decay_sq")
           r == Squared(s, left)
<1>1. s.at \in Levels /\ left + req_decay(config, plan) = left + 3
  BY DEF Stretches, req_decay
<1>2. /\ v \in Stretches
      /\ Checked(v, s.at, left + req_decay(config, plan), "decay_sq")
      /\ 44 <= config.depth /\ s.at + LossOf("decay_sq") <= config.depth => Sound(v)
  BY <1>1, Checkpoint
<1>3. /\ If(should_use_meta_bts("decay_sq")) = Meta(plan)
      /\ LossOf("decay_sq") = Loss(Meta(plan))
      /\ headroom("decay_sq") = config.auto_headroom
  BY MetaBits DEF Plainly
<1>4. r = Product(Then(s, v), v.at + 1)
  BY DEF Squared
<1> HIDE DEF v
<1>5. v.at \in Levels /\ v.at + 1 \in Levels
  BY <1>2 DEF Stretches, Levels, Fresh
<1>6. /\ Then(s, v) \in Stretches
      /\ Sound(s) /\ Sound(v) => Sound(Then(s, v))
  BY <1>2, ThenSound
<1>7. /\ r \in Stretches /\ r.at = v.at + 1
      /\ Sound(Then(s, v)) /\ v.at + 1 <= config.depth => Sound(r)
  BY <1>4, <1>5, <1>6, ProductSound
<1>8. Meta(plan) \in {0, 1} /\ Loss(Meta(plan)) \in {2, 5} /\ config.auto_headroom \in Nat
      /\ config.depth \in Nat
  BY DEF Meta, If, Loss, Known, Sizes
<1>9. /\ v.at \in Int /\ s.at \in Int /\ v.at <= s.at
      /\ v.at <= 25 \/ v.at + (left + 3) + Meta(plan) + config.auto_headroom <= config.depth
  BY <1>1, <1>2, <1>3, <1>5 DEF Checked, Levels
<1>10. QED BY <1>2, <1>3, <1>6, <1>7, <1>8, <1>9

(* The decay's recursion has a solution, and the model's is one.           *)
LEMMA DecayUnfolds ==
  ASSUME Known, Shape(plan), NEW dt \in Levels
  PROVE  \E f : SquaresOf(f, dt) /\ Decay(dt) = f[plan.squarings]
<1> DEFINE n == plan.squarings
           guess == Through(dt + 1 + plan.exp)
           R(i, s) == Squared(s, n - i + 1)
           step == [x \in (1 .. n) \X Stretches |-> R(x[1], x[2])]
           Equation(f) == f = [i \in 0 .. n |-> IF i = 0 THEN guess ELSE R(i, f[i - 1])]
           square == CHOOSE f : Equation(f)
<1>1. n \in Nat /\ guess \in Stretches
  <2>1. n \in Nat /\ dt + 1 + plan.exp \in Levels
    BY DEF Shape, Levels, Fresh
  <2>2. QED BY <2>1, ThroughSound
<1>2. \A s \in Stretches : \A i \in 1 .. n : R(i, s) \in Stretches
  <2> TAKE s \in Stretches
  <2> TAKE i \in 1 .. n
  <2>1. n - i + 1 \in Int
    BY <1>1
  <2>2. QED BY <2>1, SquaredStep
<1>3. Decay(dt) = square[n]
  BY DEF Decay
<1> HIDE DEF R, n, guess
<1>4. step \in [(1 .. n) \X Stretches -> Stretches]
  BY <1>2
<1>5. PICK g \in [0 .. n -> Stretches] : Follows(g, n, guess, step)
  <2> HIDE DEF step
  <2>1. QED BY <1>1, <1>4, Chain
<1>6. \A i \in 1 .. n : g[i] = R(i, g[i - 1])
  <2> TAKE i \in 1 .. n
  <2>1. i - 1 \in 0 .. n /\ g[i - 1] \in Stretches
    BY <1>1, <1>5
  <2>2. step[<<i, g[i - 1]>>] = R(i, g[i - 1])
    BY <2>1
  <2>3. QED BY <1>5, <2>2 DEF Follows
<1>7. Equation(g)
  <2>1. g[0] = guess
    BY <1>5 DEF Follows
  <2>2. \A i \in 0 .. n : i # 0 => i \in 1 .. n
    BY <1>1
  <2>3. \A i \in 0 .. n : g[i] = IF i = 0 THEN guess ELSE R(i, g[i - 1])
    BY <1>6, <2>1, <2>2
  <2>4. QED BY <1>5, <2>3
<1>8. Equation(square)
  <2>1. \E f : Equation(f)
    BY <1>7
  <2>2. QED BY <2>1, Zenon
<1> HIDE DEF square
<1>9. /\ square[0] = guess
      /\ \A i \in 1 .. n : square[i] = R(i, square[i - 1])
      /\ DOMAIN square = 0 .. n
      /\ square = [i \in 0 .. n |-> square[i]]
  <2>1. \A i \in 0 .. n : square[i] = IF i = 0 THEN guess ELSE R(i, square[i - 1])
    BY <1>8
  <2>2. DOMAIN square = 0 .. n
    BY <1>8
  <2>3. square = [i \in 0 .. n |-> square[i]]
    BY <1>8, <2>1
  <2>4. 0 \in 0 .. n /\ \A i \in 1 .. n : i \in 0 .. n /\ i # 0
    BY <1>1
  <2>5. square[0] = guess /\ \A i \in 1 .. n : square[i] = R(i, square[i - 1])
    BY <2>1, <2>4
  <2>6. QED BY <2>2, <2>3, <2>5
<1>10. \A i \in 0 .. n : square[i] \in Stretches
  <2> DEFINE B == {i \in 0 .. n : square[i] \notin Stretches}
  <2>1. SUFFICES ASSUME B # {} PROVE FALSE
    OBVIOUS
  <2>2. PICK i \in B : \A j \in B : i <= j
    BY <1>1, <2>1, B \subseteq Nat, LeastNat
  <2>3. i \in 1 .. n /\ i - 1 \in 0 .. n /\ i - 1 \notin B
    BY <1>1, <1>9, <2>2
  <2>4. square[i - 1] \in Stretches
    BY <2>3
  <2>5. square[i] \in Stretches
    BY <1>2, <1>9, <2>3, <2>4
  <2>6. QED BY <2>2, <2>5
<1>11. SquaresOf(square, dt)
  <2>1. square \in [0 .. n -> Stretches]
    BY <1>9, <1>10
  <2>2. QED BY <1>9, <2>1 DEF SquaresOf, R, n, guess
<1>12. QED BY <1>3, <1>11 DEF n

(* Each squaring can be refreshed, and so can the last.                    *)
LEMMA DecaySound ==
  ASSUME Known, Shape(plan), NEW dt \in Levels, 44 <= config.depth, config.auto_headroom >= 4,
         dt + 1 + plan.exp + Loss(Meta(plan)) <= config.depth
  PROVE  /\ Decay(dt) \in Stretches /\ Sound(Decay(dt))
         /\ Decay(dt).at + Loss(Meta(plan)) <= config.depth
<1>1. PICK f : SquaresOf(f, dt) /\ Decay(dt) = f[plan.squarings]
  BY DecayUnfolds
<1> DEFINE n == plan.squarings
           Good(i) == Sound(f[i]) /\ f[i].at + Loss(Meta(plan)) <= config.depth
           B == {i \in 0 .. n : ~ Good(i)}
<1>2. n \in Nat /\ Meta(plan) \in {0, 1} /\ config.depth \in Nat /\ config.auto_headroom \in Nat
      /\ Loss(1) = 5 /\ Loss(0) = 2
  BY DEF Known, Sizes, Shape, Loss, Meta, If
<1>3. \A i \in 1 .. n : Good(i - 1) => Good(i)
  <2> TAKE i \in 1 .. n
  <2> HAVE Good(i - 1)
  <2>1. i - 1 \in 0 .. n /\ f[i - 1] \in Stretches /\ f[i] = Squared(f[i - 1], n - i + 1)
        /\ n - i + 1 \in Int /\ n - i + 1 >= 1
    <3>1. i - 1 \in 0 .. n /\ n - i + 1 \in Int /\ n - i + 1 >= 1
      BY <1>2
    <3>2. f \in [0 .. n -> Stretches] /\ f[i] = Squared(f[i - 1], n - i + 1)
      BY <1>1 DEF SquaresOf
    <3>3. QED BY <3>1, <3>2
  <2>2. /\ f[i] \in Stretches /\ Sound(f[i])
        /\ \/ f[i].at <= 26
           \/ f[i].at + 2 + (n - i + 1) + Meta(plan) + config.auto_headroom <= config.depth
    BY <2>1, SquaredStep
  <2>3. f[i].at \in Int
    BY <2>2 DEF Stretches, Levels
  <2>4. f[i].at + Loss(Meta(plan)) <= config.depth
    BY <1>2, <2>1, <2>2, <2>3
  <2>5. QED BY <2>2, <2>4
<1>4. Good(0)
  <2>1. dt + 1 + plan.exp \in Levels /\ dt + 1 + plan.exp <= config.depth
    BY <1>2 DEF Shape, Levels, Fresh
  <2>2. f[0] = Through(dt + 1 + plan.exp)
    BY <1>1 DEF SquaresOf
  <2>3. QED BY <2>1, <2>2, ThroughSound
<1>5. B = {}
  <2>1. SUFFICES ASSUME B # {} PROVE FALSE
    OBVIOUS
  <2> HIDE DEF Good
  <2>2. PICK i \in B : \A j \in B : i <= j
    BY <1>2, <2>1, B \subseteq Nat, LeastNat
  <2>3. i \in 1 .. n /\ i - 1 \in 0 .. n /\ i - 1 \notin B
    BY <1>2, <1>4, <2>2
  <2>4. QED BY <1>3, <2>2, <2>3
<1>6. Good(n) /\ f[n] \in Stretches
  <2>1. n \in 0 .. n /\ n \notin B
    BY <1>2, <1>5
  <2>2. f[n] \in Stretches
    BY <1>1, <2>1 DEF SquaresOf
  <2> HIDE DEF Good
  <2>3. QED BY <2>1, <2>2
<1>7. QED BY <1>1, <1>6

-----------------------------------------------------------------------------
(* The chain at hand.                                                      *)

(* How much headroom the layer at hand has, and of which kind it is.       *)
Room(c, p, plain) ==
  /\ c.auto_headroom >= 4
  /\ \/ c.auto_headroom >= 8
     \/ Scheduled(p)
     \/ plain /\ ~c.shared
  /\ plain => Fitted(p) /\ c.meta_residual_layers = {} /\ c.final.kind # "schedule"
LEMMA PlanHere ==
  ASSUME TypeInv, Reach
  PROVE  /\ Known /\ layer \in Layers /\ Shape(plan)
         /\ 44 <= config.depth
         /\ Room(config, plan, Plain(config, plans))
         /\ PolynomialsFit(config, plan) /\ StateFits(config, plan)
         /\ config.final.kind = "newton" => config.final.depth <= 9
<1>1. Known /\ layer \in Layers /\ WithinReach(config, plans)
  BY ChainKnown, ChainReached DEF TypeInv
<1>2. layer \in DOMAIN plans /\ Shape(plan)
  BY <1>1 DEF Known, plan
<1>3. Room(config, plan, Plain(config, plans))
  <2>1. HeadroomFits(config, plans) /\ config.auto_headroom \in Nat
    BY <1>1 DEF WithinReach, Known, Sizes
  <2>2. Plain(config, plans) => /\ Fitted(plan) /\ config.meta_residual_layers = {}
                                /\ config.final.kind # "schedule"
    BY <1>2 DEF Plain, plan
  <2>3. (\A l \in DOMAIN plans : Scheduled(plans[l])) => Scheduled(plan)
    BY <1>2 DEF plan
  <2>4. config.auto_headroom >= 8 => config.auto_headroom >= 4
    BY <2>1
  <2>5. QED BY <2>1, <2>2, <2>3, <2>4 DEF HeadroomFits, Room
<1>4. QED BY <1>1, <1>2, <1>3 DEF WithinReach, plan

(* The numbers among it.                                                   *)
LEMMA Numbers ==
  ASSUME Known, Shape(plan)
  PROVE  /\ config.depth \in Nat /\ config.auto_headroom \in Nat
         /\ config.residual_headroom \in Nat /\ config.carried_headroom \in Nat
         /\ NormExtra(config) \in {0, 1} /\ HeadExtra(config) \in {0, 1}
         /\ Meta(plan) \in {0, 1} /\ Loss(Meta(plan)) = 2 + 3 * Meta(plan)
         /\ plan.conv \in Nat /\ plan.gate \in Nat /\ plan.dt \in Nat /\ plan.roots \in Nat
         /\ plan.exp \in Nat /\ plan.squarings \in Nat
         /\ If(config.meta) \in {0, 1} /\ If(StateMeta(config)) \in {0, 1}
  BY DEF Known, Sizes, Shape, NormExtra, HeadExtra, Meta, Loss, If

(* Kinds and bits.                                                         *)
LEMMA Kinds ==
  ASSUME Known, Shape(plan), Room(config, plan, Plain(config, plans))
  PROVE  /\ plan.rms.kind = "schedule" => Meta(plan) = 1
         /\ plan.gated.kind = "schedule" => Meta(plan) = 1
         /\ Scheduled(plan) => Meta(plan) = 1
         /\ Plain(config, plans) => Meta(plan) = 0
         /\ config.auto_headroom >= 4
         /\ \/ config.auto_headroom >= 8
            \/ Scheduled(plan)
            \/ Plain(config, plans) /\ HeadExtra(config) = 0 /\ Fitted(plan)
  BY DEF Meta, If, SomeSchedule, Scheduled, Fitted, Room, HeadExtra

(* A step within the chain: what a segment leaves alone, and the levels it *)
(* needed.                                                                 *)
LEMMA Onward ==
  ASSUME TypeInv, NEW s, NEW next \in Segments \ {"done", "token"}, NEW flows,
         Segment(s, next, flows), segment # "done",
         \A f \in flows : f \in Stretches /\ Sound(f),
         UNCHANGED <<token, layer>>, ct' \in Cyphers,
         state' \in [Layers -> Levels \cup {NoState}], fifo' \in [Layers -> Seq(Levels)]
  PROVE  /\ TypeInv' /\ LineageKept'
         /\ config' = config /\ plans' = plans /\ segment' = next /\ segment = s
         /\ plan' = plan /\ token' = token /\ layer' = layer /\ Layers' = Layers
<1>1. /\ config' = config /\ plans' = plans /\ segment' = next /\ segment = s
      /\ plan' = plan /\ Layers' = Layers
      /\ reached' = UNION {f.needs : f \in flows}
  BY DEF Segment, plan, Layers
<1>2. LineageKept'
  BY <1>1 DEF Sound, LineageKept
<1>3. TypeInv'
  BY <1>1 DEF TypeInv
<1>4. QED BY <1>1, <1>2, <1>3

(* What is carried does not change in a segment that does not write it.    *)
LEMMA CarriesStay ==
  ASSUME Carries, UNCHANGED <<config, plans, state, fifo>>,
         \A l \in Layers : Updated(l)' = Updated(l)
  PROVE  Carries'
<1>1. Layers' = Layers
  BY DEF Layers
<1>2. QED BY <1>1 DEF Carries

-----------------------------------------------------------------------------
(* The segments of a layer.                                                *)

(* The norm of the residual stream, of a layer or at the end of the chain. *)
LEMMA ScheduleSound ==
  ASSUME Known, Shape(plan), NEW v \in Levels, NEW n \in Nat \ {0}, 44 <= config.depth,
         config.auto_headroom >= 4, v + 11 <= config.depth
  PROVE  LET s == scheduled_inverse(v, n)
         IN  /\ s \in Stretches /\ Sound(s) /\ s.at <= config.depth - 8
<1> DEFINE top == config.depth - 8
<1>1. config.depth \in Nat /\ config.auto_headroom \in Nat
  BY Numbers
<1>2. /\ If(should_use_meta_bts("scheduled_norm")) = 1
      /\ LossOf("scheduled_norm") = 5
      /\ headroom("scheduled_norm") = config.auto_headroom
  BY MetaBits
<1>3. v + 4 \in Levels /\ v + 1 \in Levels
  BY DEF Levels, Fresh
<1>4. /\ Through(v + 4) \in Stretches /\ Through(v + 4).at = v + 4
      /\ Sound(Through(v + 4))
  <2>1. v + 4 <= config.depth
    BY <1>1 DEF Levels
  <2>2. QED BY <1>3, <2>1, ThroughSound
<1>5. /\ top \in Int /\ top + 5 <= config.depth /\ (v + 1) + 2 <= top /\ 27 <= top
      /\ config.depth - 5 - 1 - config.auto_headroom + 2 <= top
      /\ (v + 4) + 5 <= config.depth
  BY <1>1 DEF Levels
<1> HIDE DEF top
<1>6. Refinable(Through(v + 4), v + 1, 5, "scheduled_norm", top)
  BY <1>2, <1>4, <1>5 DEF Refinable
<1>7. RefinedAll(Iterated(Through(v + 4), v + 1, n, 5, "scheduled_norm"), Through(v + 4), n, top)
  BY <1>3, <1>4, <1>6, IterationSound
<1>8. QED BY <1>7 DEF scheduled_inverse, RefinedAll, top

(* The polynomial norms: an iteration that keeps two levels a step.        *)
LEMMA NewtonSound ==
  ASSUME Known, Shape(plan), NEW guess \in Stretches, NEW v \in Levels, NEW n \in Nat,
         NEW top \in Int, 44 <= config.depth, Sound(guess),
         guess.at + Loss(Meta(plan)) <= config.depth, top + Loss(Meta(plan)) <= config.depth,
         v + 2 <= top, 27 <= top, config.depth - Meta(plan) - config.auto_headroom <= top
  PROVE  RefinedAll(newton_refine(guess, v, n), guess, n, top)
<1>1. /\ If(should_use_meta_bts("newton")) = Meta(plan)
      /\ LossOf("newton") = Loss(Meta(plan))
      /\ headroom("newton") = config.auto_headroom
  BY MetaBits DEF Plainly
<1>2. config.depth - 2 - Meta(plan) - config.auto_headroom + 2 <= top
  BY Numbers
<1>3. Refinable(guess, v, 2, "newton", top)
  BY <1>1, <1>2 DEF Refinable
<1>4. QED BY <1>3, IterationSound DEF newton_refine

(* What a residual norm needs of its variance to end at most at top.       *)
NormInput(v, norm, top) ==
  /\ norm.kind = "schedule" => v + 12 <= config.depth
  /\ norm.kind = "newton" =>
       /\ v + 1 + norm.depth + Loss(Meta(plan)) <= config.depth
       /\ v + 3 <= top /\ 27 <= top /\ top + Loss(Meta(plan)) <= config.depth
       /\ config.depth - Meta(plan) - config.auto_headroom <= top
LEMMA BlockInverseSound ==
  ASSUME Known, Shape(plan), NEW v \in Levels, NEW norm, Counts(norm),
         norm.kind \in {"newton", "schedule"}, NEW top \in Int, NormInput(v, norm, top),
         44 <= config.depth, config.auto_headroom >= 4
  PROVE  LET s == block_inverse(v, norm)
         IN  /\ s \in Stretches /\ Sound(s)
             /\ norm.kind = "schedule" => s.at <= config.depth - 8
             /\ norm.kind = "newton" => s.at <= top
<1>1. v + 1 \in Levels
  BY DEF Levels, Fresh
<1>2. CASE norm.kind = "schedule"
  <2>1. norm.iterations \in Nat \ {0} /\ (v + 1) + 11 <= config.depth
    BY <1>2, Numbers DEF Counts, NormInput, Levels
  <2>2. QED BY <1>1, <1>2, <2>1, ScheduleSound DEF block_inverse
<1>3. CASE norm.kind = "newton"
  <2> DEFINE g == Through(v + 1 + norm.depth)
  <2>1. norm.iterations \in Nat \ {0} /\ norm.depth \in Nat
    BY <1>3 DEF Counts
  <2>2. v + 1 + norm.depth \in Levels /\ v + 1 + norm.depth <= config.depth
    BY <1>3, <2>1, Numbers DEF NormInput, Levels, Fresh
  <2>3. g \in Stretches /\ Sound(g) /\ g.at = v + 1 + norm.depth
    BY <2>2, ThroughSound
  <2>4. /\ top \in Int /\ top + Loss(Meta(plan)) <= config.depth
        /\ (v + 1) + 2 <= top /\ 27 <= top
        /\ config.depth - Meta(plan) - config.auto_headroom <= top
    BY <1>3, Numbers DEF NormInput, Levels
  <2>5. g.at + Loss(Meta(plan)) <= config.depth
    BY <1>3, <2>3 DEF NormInput
  <2> HIDE DEF g
  <2>6. RefinedAll(newton_refine(g, v + 1, norm.iterations), g, norm.iterations, top)
    BY <1>1, <2>1, <2>3, <2>4, <2>5, NewtonSound
  <2>7. block_inverse(v, norm) = newton_refine(g, v + 1, norm.iterations)
    BY <1>3 DEF block_inverse, g
  <2>8. QED BY <1>3, <2>1, <2>6, <2>7 DEF RefinedAll
<1>4. QED BY <1>2, <1>3

(* The norm of the residual: what is refreshed leaves the norm its levels. *)
LEMMA BlockNormStep ==
  ASSUME IInv, Reach, BlockNorm
  PROVE  IInv' /\ LineageKept'
<1> DEFINE R == req_residual(config, plan)
           h == maybe_bootstrap(ct.hidden, R, "residual")
           v == h.at + 1 + NormExtra(config)
           inverse == block_inverse(v, plan.rms)
<1>1. TypeInv /\ Drained /\ Carries /\ segment = "block_norm"
  BY DEF IInv, BlockNorm, Segment
<1>2. /\ Known /\ layer \in Layers /\ Shape(plan) /\ 44 <= config.depth
      /\ Room(config, plan, Plain(config, plans)) /\ PolynomialsFit(config, plan)
  BY <1>1, PlanHere
<1>3. ct.hidden \in Levels /\ ct \in Cyphers /\ ct.hidden <= HiddenCap
  BY <1>1 DEF TypeInv, Cyphers, Drained
<1>4. /\ plan.rms.kind \in {"newton", "schedule"} /\ Counts(plan.rms)
      /\ plan.rms.kind = "newton" => plan.rms.depth \in Nat /\ plan.rms.iterations \in Nat \ {0}
  BY <1>2 DEF Shape, Counts
<1>5. /\ R \in Int
      /\ plan.rms.kind = "schedule" => R = NormExtra(config) + 18
      /\ plan.rms.kind = "newton" =>
           R = NormExtra(config) + 4 + plan.rms.depth + 2 * plan.rms.iterations
  BY <1>2, <1>4, Numbers DEF req_residual, kScheduledNormInputRequirement
<1>6. /\ If(should_use_meta_bts("residual")) \in {0, 1}
      /\ Meta(plan) <= If(should_use_meta_bts("residual"))
      /\ ct.hidden + LossOf("residual") <= config.depth
  <2>1. /\ If(should_use_meta_bts("residual"))
             = If(SomeSchedule(plan) \/ (config.meta /\ layer \in config.meta_residual_layers))
    BY <1>2, MetaBits
  <2>2. Plain(config, plans) => If(should_use_meta_bts("residual")) = 0
    BY <1>2, <2>1, Kinds DEF Room, Meta, If
  <2>3. config.depth \in Nat
    BY <1>2, Numbers
  <2>4. ct.hidden + LossOf("residual") <= config.depth
    BY <1>3, <2>2, <2>3 DEF HiddenCap, LossOf, Loss, Levels, If
  <2>5. QED BY <2>1, <2>4 DEF If, Meta
<1>7. /\ h \in Stretches /\ Sound(h) /\ Checked(h, ct.hidden, R, "residual")
  BY <1>2, <1>3, <1>5, <1>6, Checkpoint
<1> HIDE DEF h
<1>8. /\ h.at \in Levels
      /\ h.at <= 25 \/ h.at + R + Meta(plan) <= config.depth
  <2>1. h.at \in Levels
    BY <1>7 DEF Stretches
  <2>2. headroom("residual") \in Nat
    BY <1>2, MetaBits, Numbers
  <2>3. h.at <= 25 \/ h.at + R + If(should_use_meta_bts("residual")) + headroom("residual")
                       <= config.depth
    BY <1>7 DEF Checked
  <2>4. QED BY <1>2, <1>5, <1>6, <2>1, <2>2, <2>3, Numbers DEF Levels
<1> HIDE DEF R
<1>9. v \in Levels /\ NormInput(v, plan.rms, ProductCap(plan))
  <2>1. v \in Levels
    BY <1>2, <1>8, Numbers DEF Levels, Fresh
  <2>2. ASSUME plan.rms.kind = "schedule" PROVE v + 12 <= config.depth
    BY <1>2, <1>5, <1>8, <2>2, Numbers, Kinds DEF Levels
  <2>3. ASSUME plan.rms.kind = "newton"
        PROVE  /\ v + 1 + plan.rms.depth + Loss(Meta(plan)) <= config.depth
               /\ v + 3 <= ProductCap(plan) /\ 27 <= ProductCap(plan)
               /\ ProductCap(plan) + Loss(Meta(plan)) <= config.depth
               /\ config.depth - Meta(plan) - config.auto_headroom <= ProductCap(plan)
    <3>1. plan.rms.depth + 34 <= config.depth /\ plan.rms.depth + 2 * plan.rms.iterations >= 5
      BY <1>2, <2>3 DEF PolynomialsFit
    <3>2. config.auto_headroom >= 8 \/ Meta(plan) = 0
      BY <1>2, <2>3, Kinds DEF Scheduled
    <3>3. ProductCap(plan) = config.depth - 3 - 3 * Meta(plan)
      BY <1>2, Numbers DEF ProductCap
    <3>4. QED BY <1>2, <1>4, <1>5, <1>8, <2>3, <3>1, <3>2, <3>3, Numbers, Kinds DEF Levels
  <2>4. QED BY <2>1, <2>2, <2>3 DEF NormInput
<1>10. /\ inverse \in Stretches /\ Sound(inverse)
       /\ inverse.at <= ProductCap(plan)
  <2>1. config.auto_headroom >= 4
    BY <1>2, Kinds
  <2>2. /\ inverse \in Stretches /\ Sound(inverse)
        /\ plan.rms.kind = "schedule" => inverse.at <= config.depth - 8
        /\ plan.rms.kind = "newton" => inverse.at <= ProductCap(plan)
    <3>1. ProductCap(plan) \in Int
      BY <1>2, Numbers DEF ProductCap
    <3>2. QED BY <1>2, <1>4, <1>9, <2>1, <3>1, BlockInverseSound
  <2>3. inverse.at \in Int
    BY <2>2 DEF Stretches, Levels
  <2> HIDE DEF inverse
  <2>4. QED BY <1>2, <1>4, <2>2, <2>3, Numbers DEF ProductCap
<1>11. /\ Segment("block_norm", "in_proj", {h, inverse})
       /\ ct' = [ct EXCEPT !.hidden = h.at, !.inverse = inverse.at]
       /\ UNCHANGED <<token, layer, state, fifo>>
  BY DEF BlockNorm, h, v, inverse, R
<1> HIDE DEF inverse, v
<1>12. /\ ct' \in Cyphers /\ ct'.hidden = h.at /\ ct'.inverse = inverse.at
  <2>1. inverse.at \in Levels
    BY <1>10 DEF Stretches
  <2>2. QED BY <1>3, <1>8, <1>11, <2>1 DEF Cyphers
<1>13. /\ TypeInv' /\ LineageKept'
       /\ config' = config /\ plans' = plans /\ segment' = "in_proj"
       /\ plan' = plan /\ token' = token /\ layer' = layer /\ Layers' = Layers
  <2>1. "in_proj" \in Segments \ {"done", "token"} /\ segment # "done"
    BY <1>1 DEF Segments
  <2>2. state' \in [Layers -> Levels \cup {NoState}] /\ fifo' \in [Layers -> Seq(Levels)]
    BY <1>1, <1>11 DEF TypeInv
  <2>3. QED BY <1>1, <1>7, <1>10, <1>11, <1>12, <2>1, <2>2, Onward, SMTT(20)
<1>14. Carries'
  <2>1. \A l \in Layers : Updated(l)' = Updated(l)
    BY <1>1, <1>13 DEF Updated
  <2>2. QED BY <1>1, <1>11, <1>13, <2>1, CarriesStay
<1>15. Drained'
  <2>1. h.at <= BlockCap(plan)
    BY <1>2, <1>4, <1>5, <1>8, Numbers, Kinds DEF BlockCap, Levels
  <2>2. QED BY <1>10, <1>12, <1>13, <2>1 DEF Drained, BlockCap, ProductCap
<1>16. QED BY <1>13, <1>14, <1>15 DEF IInv

(* The checkpoint of a ciphertext inside a layer.                          *)
LEMMA LayerCheckpoint ==
  ASSUME Known, Shape(plan), 44 <= config.depth, NEW l \in Levels, NEW requirement \in Int,
         NEW what \in Plainly, l + Loss(Meta(plan)) <= config.depth
  PROVE  LET s == maybe_bootstrap(l, requirement, what)
         IN  /\ s \in Stretches /\ Sound(s) /\ s.at \in Levels
             /\ s.at <= l /\ s.at <= Cap(config, plan, requirement)
<1> DEFINE s == maybe_bootstrap(l, requirement, what)
<1>1. /\ If(should_use_meta_bts(what)) = Meta(plan)
      /\ LossOf(what) = Loss(Meta(plan))
      /\ headroom(what) = config.auto_headroom
  BY MetaBits
<1>2. s \in Stretches /\ Sound(s) /\ Checked(s, l, requirement, what)
  BY <1>1, Checkpoint
<1> HIDE DEF s
<1>3. s.at \in Levels
  BY <1>2 DEF Stretches
<1>4. s.at <= l /\ (s.at <= 25 \/ s.at + requirement + Meta(plan) + config.auto_headroom <= config.depth)
  BY <1>1, <1>2 DEF Checked
<1>5. s.at <= Cap(config, plan, requirement)
  BY <1>3, <1>4, Numbers DEF Cap, Two, Levels
<1>6. QED BY <1>2, <1>3, <1>4, <1>5 DEF s

(* The projection takes the inverse and the residual one product further.  *)
LEMMA InProjStep ==
  ASSUME IInv, Reach, InProj
  PROVE  IInv' /\ LineageKept'
<1> DEFINE product == Times(DroppedTo(ct.hidden, ct.inverse, 1) + 1, ct.inverse)
           R == req_proj(config, plan)
           proj == maybe_bootstrap(product, R, "proj")
<1>1. TypeInv /\ Drained /\ Carries /\ segment = "in_proj"
  BY DEF IInv, InProj, Segment
<1>2. Known /\ layer \in Layers /\ Shape(plan) /\ 44 <= config.depth
  BY <1>1, PlanHere
<1>3. /\ ct \in Cyphers /\ ct.hidden \in Levels /\ ct.inverse \in Levels
      /\ ct.hidden <= BlockCap(plan) /\ ct.inverse <= ProductCap(plan)
  BY <1>1 DEF TypeInv, Cyphers, Drained
<1>4. /\ product \in Levels /\ product = Two(ct.hidden + 1, ct.inverse) + 1
  BY <1>3 DEF DroppedTo, Times, Two, Levels, Fresh
<1>5. product + Loss(Meta(plan)) <= config.depth
  BY <1>2, <1>3, <1>4, Numbers DEF BlockCap, ProductCap, Two, Levels
<1>6. R \in Int
  BY <1>2, Numbers DEF req_proj, Two, DtTail
<1> HIDE DEF product, R
<1>7. /\ proj \in Stretches /\ Sound(proj) /\ proj.at \in Levels
      /\ proj.at <= Cap(config, plan, R)
  BY <1>2, <1>4, <1>5, <1>6, LayerCheckpoint DEF Plainly
<1>8. Through(product) \in Stretches /\ Sound(Through(product))
  <2>1. product <= config.depth
    BY <1>2, <1>4, <1>5, Numbers DEF Levels
  <2>2. QED BY <1>2, <1>4, <2>1, ThroughSound
<1>9. /\ Segment("in_proj", "conv", {Through(product), proj})
      /\ ct' = [ct EXCEPT !.proj = proj.at]
      /\ UNCHANGED <<token, layer, state, fifo>>
  BY DEF InProj, product, proj, R
<1> HIDE DEF proj
<1>10. ct' \in Cyphers /\ ct'.proj = proj.at /\ ct'.hidden = ct.hidden
  BY <1>3, <1>7, <1>9 DEF Cyphers
<1>11. /\ TypeInv' /\ LineageKept'
       /\ config' = config /\ plans' = plans /\ segment' = "conv"
       /\ plan' = plan /\ token' = token /\ layer' = layer /\ Layers' = Layers
  <2>1. "conv" \in Segments \ {"done", "token"} /\ segment # "done"
    BY <1>1 DEF Segments
  <2>2. state' \in [Layers -> Levels \cup {NoState}] /\ fifo' \in [Layers -> Seq(Levels)]
    BY <1>1, <1>9 DEF TypeInv
  <2> DEFINE flows == {Through(product), proj}
  <2>3. \A f \in flows : f \in Stretches /\ Sound(f)
    BY <1>7, <1>8
  <2>4. Segment("in_proj", "conv", flows)
    BY <1>9
  <2> HIDE DEF flows
  <2>5. QED BY <1>1, <1>9, <1>10, <2>1, <2>2, <2>3, <2>4, Onward
<1>12. Carries'
  <2>1. \A l \in Layers : Updated(l)' = Updated(l)
    BY <1>1, <1>11 DEF Updated
  <2>2. QED BY <1>1, <1>9, <1>11, <2>1, CarriesStay
<1>13. Drained'
  BY <1>3, <1>7, <1>10, <1>11 DEF Drained, BlockCap, R
<1>14. QED BY <1>11, <1>12, <1>13 DEF IInv

(* The deepest of some levels is one of them.                              *)
LEMMA DeepestLevel ==
  ASSUME NEW S, S \subseteq Levels, S # {}, NEW b \in Nat, \A l \in S : l <= b
  PROVE  Max(S) \in S
<1> DEFINE T == {l + 1 : l \in S}
<1>1. T \subseteq 0 .. (b + 1) /\ T # {}
  <2>1. \A l \in S : l + 1 \in 0 .. (b + 1)
    BY DEF Levels, Fresh
  <2>2. QED BY <2>1
<1>2. PICK n \in T : \A m \in T : m <= n
  BY <1>1, GreatestNat, b + 1 \in Nat
<1>3. PICK x \in S : n = x + 1
  OBVIOUS
<1>4. \A l \in S : x >= l
  BY <1>2, <1>3 DEF Levels
<1>5. QED BY <1>3, <1>4 DEF Max

(* The inputs of the convolution: the last Taps projections.               *)
LastTaps(q, l) ==
  LET all == Append(q, l)
  IN  SubSeq(all, 1 + Two(0, Len(all) - Taps), Len(all))
LEMMA ConvInputs ==
  ASSUME NEW q \in Seq(Levels), NEW l \in Levels, Taps \in Nat \ {0}, NEW b \in Int,
         l <= b, \A k \in DOMAIN q : q[k] <= b
  PROVE  /\ LastTaps(q, l) \in Seq(Levels) /\ Len(LastTaps(q, l)) \in Nat \ {0}
         /\ \A k \in DOMAIN LastTaps(q, l) : LastTaps(q, l)[k] <= b
<1> DEFINE all == Append(q, l)
           from == 1 + Two(0, Len(all) - Taps)
           kept == SubSeq(all, from, Len(all))
<1>1. /\ all \in Seq(Levels) /\ Len(all) = Len(q) + 1 /\ Len(q) \in Nat
      /\ \A k \in 1 .. Len(all) : all[k] <= b
  OBVIOUS
<1>2. from \in 1 .. Len(all)
  BY <1>1 DEF Two
<1> HIDE DEF all, from
<1>3. /\ kept \in Seq(Levels) /\ Len(kept) = Len(all) - from + 1
      /\ \A k \in 1 .. Len(kept) : kept[k] = all[from + k - 1]
  BY <1>1, <1>2
<1>4. \A k \in 1 .. Len(kept) : from + k - 1 \in 1 .. Len(all)
  BY <1>1, <1>2, <1>3
<1> HIDE DEF kept
<1>5. Len(kept) \in Nat \ {0}
  BY <1>1, <1>2, <1>3
<1>6. \A k \in 1 .. Len(kept) : kept[k] <= b
  BY <1>1, <1>3, <1>4
<1>7. DOMAIN kept = 1 .. Len(kept)
  BY <1>3
<1>8. LastTaps(q, l) = kept
  BY DEF LastTaps, kept, from, all
<1>9. QED BY <1>3, <1>5, <1>6, <1>7, <1>8

(* The convolution: every input is refreshed for itself.                   *)
LEMMA ConvStep ==
  ASSUME IInv, Reach, Conv
  PROVE  IInv' /\ LineageKept'
<1> DEFINE kept == LastTaps(fifo[layer], ct.proj)
           F == req_fifo(config, plan)
           inputs == [k \in DOMAIN kept |-> maybe_bootstrap(kept[k], F, "fifo")]
           levels == {inputs[k].at : k \in DOMAIN inputs}
           u == Max(levels) + 1
           R == req_conv(config, plan)
           conv == maybe_bootstrap(u + plan.conv, R, "conv_silu")
           b == FifoCap(config, plan)
           flows == {inputs[k] : k \in DOMAIN inputs} \cup {Through(u + plan.conv), conv}
<1>1. TypeInv /\ Drained /\ Carries /\ segment = "conv"
  BY DEF IInv, Conv, Segment
<1>2. /\ Known /\ layer \in Layers /\ Shape(plan) /\ 44 <= config.depth
      /\ PolynomialsFit(config, plan) /\ config.auto_headroom >= 4
  BY <1>1, PlanHere, Kinds
<1>3. /\ ct \in Cyphers /\ ct.hidden \in Levels /\ ct.proj \in Levels
      /\ ct.hidden <= BlockCap(plan) /\ ct.proj <= Cap(config, plan, req_proj(config, plan))
      /\ fifo \in [Layers -> Seq(Levels)] /\ fifo[layer] \in Seq(Levels)
      /\ state \in [Layers -> Levels \cup {NoState}]
  BY <1>1, <1>2 DEF TypeInv, Cyphers, Drained
<1>4. /\ F = 2 + plan.conv /\ R \in Int /\ b \in Nat
      /\ b + LossOf("fifo") <= config.depth
      /\ b + 1 + plan.conv + Loss(Meta(plan)) <= config.depth
  <2>1. LossOf("fifo") \in {2, 5}
    BY DEF LossOf, Loss
  <2>2. plan.conv + 31 <= config.depth
    BY <1>2 DEF PolynomialsFit
  <2>3. /\ F = 2 + plan.conv /\ R \in Int
    BY DEF req_fifo, req_conv
  <2>4. QED BY <1>2, <2>1, <2>2, <2>3, Numbers DEF FifoCap, Two
<1>5. ct.proj <= b
  <2>1. req_proj(config, plan) \in Int /\ req_proj(config, plan) >= 1 + plan.conv
    BY <1>2, Numbers DEF req_proj, Two, DtTail
  <2>2. ct.proj \in Int /\ ct.proj <= Cap(config, plan, req_proj(config, plan))
    BY <1>3 DEF Levels
  <2>3. /\ config.depth \in Nat /\ plan.conv \in Nat /\ Meta(plan) \in {0, 1}
        /\ config.auto_headroom \in Nat
    BY <1>2, Numbers
  <2>4. QED BY <2>1, <2>2, <2>3 DEF FifoCap, Cap, Two
<1>6. \A k \in DOMAIN fifo[layer] : fifo[layer][k] <= b
  BY <1>1, <1>2 DEF Carries, plan
<1> HIDE DEF b
<1>7. /\ kept \in Seq(Levels) /\ Len(kept) \in Nat \ {0}
      /\ \A k \in DOMAIN kept : kept[k] <= b
  <2>1. Taps \in Nat \ {0} /\ b \in Int
    BY <1>2, <1>4 DEF Known
  <2>2. QED BY <1>3, <1>5, <1>6, <2>1, ConvInputs
<1> HIDE DEF kept, F, b
<1>8. \A k \in DOMAIN kept : /\ inputs[k] \in Stretches /\ Sound(inputs[k])
                             /\ inputs[k].at \in Levels /\ inputs[k].at <= b
  <2> TAKE k \in DOMAIN kept
  <2> DEFINE s == maybe_bootstrap(kept[k], F, "fifo")
  <2>1. kept[k] \in Levels /\ kept[k] <= b
    BY <1>7
  <2>2. s \in Stretches /\ Checked(s, kept[k], F, "fifo")
    BY <1>2, <1>4, <2>1, Checkpoint, Numbers
  <2>3. kept[k] + LossOf("fifo") <= config.depth
    <3>1. LossOf("fifo") \in {2, 5}
      BY DEF LossOf, Loss
    <3>2. QED BY <1>2, <1>4, <2>1, <3>1, Numbers DEF Levels
  <2>4. Sound(s)
    BY <1>2, <1>4, <2>1, <2>3, Checkpoint, Numbers
  <2> HIDE DEF s
  <2>5. s.at \in Levels /\ s.at <= b
    BY <1>4, <2>1, <2>2 DEF Stretches, Checked, Levels
  <2>6. inputs[k] = s
    BY DEF s
  <2>7. QED BY <2>2, <2>4, <2>5, <2>6
<1>9. DOMAIN inputs = DOMAIN kept
  OBVIOUS
<1> HIDE DEF inputs
<1>10. levels \subseteq Levels /\ levels # {} /\ \A l \in levels : l <= b
  <2>1. 1 \in DOMAIN inputs
    BY <1>7, <1>9
  <2>2. QED BY <1>8, <1>9, <2>1
<1> HIDE DEF levels
<1>11. Max(levels) \in Levels /\ Max(levels) <= b
  BY <1>4, <1>10, DeepestLevel
<1>12. u + plan.conv \in Levels /\ u + plan.conv + Loss(Meta(plan)) <= config.depth
  BY <1>2, <1>4, <1>11, Numbers DEF Levels, Fresh
<1> HIDE DEF u, R
<1>13. /\ conv \in Stretches /\ Sound(conv) /\ conv.at \in Levels
       /\ conv.at <= Cap(config, plan, R)
  BY <1>2, <1>4, <1>12, LayerCheckpoint, SMTT(30) DEF Plainly
<1>14. Through(u + plan.conv) \in Stretches /\ Sound(Through(u + plan.conv))
  <2>1. u + plan.conv <= config.depth
    BY <1>2, <1>12, Numbers DEF Levels
  <2>2. QED BY <1>2, <1>12, <2>1, ThroughSound
<1>15. /\ Segment("conv", "gates", flows)
       /\ fifo' = [fifo EXCEPT ![layer] = [k \in DOMAIN inputs |-> inputs[k].at]]
       /\ ct' = [ct EXCEPT !.conv = conv.at]
       /\ UNCHANGED <<token, layer, state>>
  BY Zenon DEF Conv, conv, R, u, levels, inputs, F, kept, LastTaps
<1> HIDE DEF conv
<1>16. \A f \in flows : f \in Stretches /\ Sound(f)
  BY <1>8, <1>9, <1>13, <1>14
<1>17. ct' \in Cyphers /\ ct'.conv = conv.at /\ ct'.hidden = ct.hidden /\ ct'.proj = ct.proj
  BY <1>3, <1>13, <1>15 DEF Cyphers
<1>18. /\ fifo' \in [Layers -> Seq(Levels)]
       /\ \A k \in DOMAIN fifo'[layer] : fifo'[layer][k] <= b
       /\ \A l \in Layers \ {layer} : fifo'[l] = fifo[l]
  <2> DEFINE q == [k \in DOMAIN inputs |-> inputs[k].at]
  <2>1. DOMAIN inputs = 1 .. Len(kept)
    BY <1>7, <1>9
  <2>2. \A k \in 1 .. Len(kept) : q[k] \in Levels /\ q[k] <= b
    BY <1>8, <1>9, <2>1
  <2>3. q \in Seq(Levels) /\ DOMAIN q = 1 .. Len(kept)
    BY <1>7, <2>1, <2>2
  <2> HIDE DEF q
  <2>4. fifo' = [fifo EXCEPT ![layer] = q]
    BY <1>15 DEF q
  <2>5. QED BY <1>2, <1>3, <2>2, <2>3, <2>4
<1> HIDE DEF flows
<1>19. /\ TypeInv' /\ LineageKept'
       /\ config' = config /\ plans' = plans /\ segment' = "gates"
       /\ plan' = plan /\ token' = token /\ layer' = layer /\ Layers' = Layers
  <2>1. "gates" \in Segments \ {"done", "token"} /\ segment # "done"
    BY <1>1 DEF Segments
  <2>2. state' \in [Layers -> Levels \cup {NoState}]
    BY <1>3, <1>15
  <2>3. QED BY <1>1, <1>15, <1>16, <1>17, <1>18, <2>1, <2>2, Onward
<1>20. Carries'
  <2>1. \A l \in Layers : Updated(l)' = Updated(l)
    BY <1>1, <1>19 DEF Updated
  <2>2. \A l \in Layers : \A k \in DOMAIN fifo'[l] : fifo'[l][k] <= FifoCap(config, plans[l])
    BY <1>1, <1>18 DEF Carries, b, plan
  <2>3. QED BY <1>1, <1>15, <1>19, <2>1, <2>2 DEF Carries
<1>21. Drained'
  BY <1>1, <1>3, <1>13, <1>17, <1>19, SMTT(20) DEF Drained, BlockCap, R
<1>22. QED BY <1>19, <1>20, <1>21 DEF IInv

(* The bounds of the branches of the projection.                           *)
LEMMA BranchLevels ==
  ASSUME Known, Shape(plan), PolynomialsFit(config, plan), config.auto_headroom >= 4,
         NEW proj \in Levels, proj <= Cap(config, plan, req_proj(config, plan))
  PROVE  /\ proj + 1 + plan.gate + 1 + Loss(Meta(plan)) <= config.depth
         /\ Joint(plan) => proj + 1 + plan.roots + 1 + 1 + Loss(Meta(plan)) <= config.depth
         /\ ~Joint(plan) => proj + 1 + plan.dt + 1 + Loss(Meta(plan)) <= config.depth
<1> DEFINE R == req_proj(config, plan)
<1>1. R \in Int /\ R >= 3 + plan.gate /\ R >= 1 + plan.dt + DtTail(plan)
  BY Numbers DEF req_proj, Two, DtTail
<1>2. proj \in Int /\ (proj <= 25 \/ proj <= config.depth - R - Meta(plan) - config.auto_headroom)
  BY <1>1, Numbers DEF Cap, Two, Levels
<1> HIDE DEF R
<1>3. proj + 1 + plan.gate + 1 + Loss(Meta(plan)) <= config.depth
  <2>1. plan.gate + 32 <= config.depth
    BY DEF PolynomialsFit
  <2>2. QED BY <1>1, <1>2, <2>1, Numbers
<1>4. ASSUME Joint(plan)
      PROVE  proj + 1 + plan.roots + 1 + 1 + Loss(Meta(plan)) <= config.depth
  <2>1. plan.roots <= plan.dt /\ plan.roots + 33 <= config.depth /\ DtTail(plan) = 2
    BY <1>4 DEF PolynomialsFit, Joint, DtTail
  <2>2. QED BY <1>1, <1>2, <2>1, Numbers
<1>5. ASSUME ~Joint(plan)
      PROVE  proj + 1 + plan.dt + 1 + Loss(Meta(plan)) <= config.depth
  <2>1. plan.dt + 32 <= config.depth /\ DtTail(plan) = 1
    BY <1>5 DEF PolynomialsFit, Joint, DtTail
  <2>2. QED BY <1>1, <1>2, <2>1, Numbers
<1>6. QED BY <1>3, <1>4, <1>5

(* The gates are not refreshed but the step size and the decay are.        *)
LEMMA GatesStep ==
  ASSUME IInv, Reach, Gates
  PROVE  IInv' /\ LineageKept'
<1> DEFINE gate == ct.proj + 1 + plan.gate
           dissipation == ct.proj + 1 + plan.roots + 1
           step == IF Joint(plan) THEN dissipation + 1 ELSE ct.proj + 1 + plan.dt + 1
           R == req_dt(config, plan)
           dt == maybe_bootstrap(step, R, "dt")
           before == IF Joint(plan) THEN Through(dissipation + 1) ELSE Decay(dt.at)
           Q == req_decay(config, plan)
           last == maybe_bootstrap(before.at, Q, "decay")
           decay == Then(before, last)
           flows == {Through(gate), Through(step), dt} \cup {f \in {decay} : HasState}
<1>1. TypeInv /\ Drained /\ Carries /\ segment = "gates"
  BY DEF IInv, Gates, Segment
<1>2. /\ Known /\ layer \in Layers /\ Shape(plan) /\ 44 <= config.depth
      /\ PolynomialsFit(config, plan) /\ config.auto_headroom >= 4
  BY <1>1, PlanHere, Kinds
<1>3. /\ ct \in Cyphers /\ ct.proj \in Levels
      /\ ct.hidden <= BlockCap(plan) /\ ct.proj <= Cap(config, plan, req_proj(config, plan))
      /\ ct.conv <= Cap(config, plan, req_conv(config, plan))
  BY <1>1 DEF TypeInv, Cyphers, Drained
<1>4. /\ gate + 1 + Loss(Meta(plan)) <= config.depth
      /\ Joint(plan) => dissipation + 1 + Loss(Meta(plan)) <= config.depth
      /\ ~Joint(plan) => ct.proj + 1 + plan.dt + 1 + Loss(Meta(plan)) <= config.depth
  BY <1>2, <1>3, BranchLevels
<1>5. /\ gate \in Levels /\ gate <= config.depth
      /\ step \in Levels /\ step <= config.depth /\ step + Loss(Meta(plan)) <= config.depth
      /\ Joint(plan) => dissipation + 1 \in Levels /\ step = dissipation + 1
  BY <1>2, <1>3, <1>4, Numbers DEF Levels, Fresh
<1> HIDE DEF gate, dissipation, step
<1>6. R \in Int /\ Q = 3
  BY <1>2, Numbers DEF req_dt, req_decay, kJointWriteTailRequirement
<1>7. /\ dt \in Stretches /\ Sound(dt) /\ dt.at \in Levels
      /\ dt.at <= Cap(config, plan, R)
  BY <1>2, <1>5, <1>6, LayerCheckpoint DEF Plainly
<1> HIDE DEF dt, Q
<1>8. /\ before \in Stretches /\ Sound(before)
      /\ before.at + Loss(Meta(plan)) <= config.depth
  <2>1. CASE Joint(plan)
    <3>1. Through(step) \in Stretches /\ Through(step).at = step /\ Sound(Through(step))
      BY <1>2, <1>5, ThroughSound
    <3>2. QED BY <1>5, <2>1, <3>1
  <2>2. CASE ~Joint(plan)
    <3>1. R = 2 + plan.exp + plan.squarings /\ plan.exp + 31 <= config.depth
      BY <1>2, <2>2 DEF req_dt, PolynomialsFit, Joint
    <3> HIDE DEF R
    <3>2. dt.at + 1 + plan.exp + Loss(Meta(plan)) <= config.depth
      <4>1. dt.at \in Int /\ (dt.at <= 25 \/ dt.at <= config.depth - R - Meta(plan) - config.auto_headroom)
        BY <1>2, <1>6, <1>7, Numbers DEF Cap, Two, Levels
      <4>2. QED BY <1>2, <3>1, <4>1, Numbers
    <3>3. QED BY <1>2, <1>7, <2>2, <3>2, DecaySound
  <2>3. QED BY <2>1, <2>2
<1> HIDE DEF before
<1>9. before.at \in Levels
  BY <1>8 DEF Stretches
<1>10. /\ last \in Stretches /\ Sound(last) /\ last.at \in Levels
       /\ last.at <= Cap(config, plan, Q)
  BY <1>2, <1>6, <1>8, <1>9, LayerCheckpoint DEF Plainly
<1> HIDE DEF last
<1>11. decay \in Stretches /\ Sound(decay) /\ decay.at = last.at
  BY <1>2, <1>8, <1>10, ThenSound
<1>12. /\ Through(gate) \in Stretches /\ Sound(Through(gate))
       /\ Through(step) \in Stretches /\ Sound(Through(step))
  BY <1>2, <1>5, ThroughSound
<1>13. /\ Segment("gates", "state", flows)
       /\ ct' = [ct EXCEPT !.gate = gate, !.dt = dt.at, !.decay = decay.at]
       /\ UNCHANGED <<token, layer, state, fifo>>
  BY DEF Gates, gate, dissipation, step, dt, R, before, Q, last, decay, flows
<1> HIDE DEF R
<1> HIDE DEF decay
<1>14. \A f \in flows : f \in Stretches /\ Sound(f)
  BY <1>7, <1>11, <1>12
<1>15. /\ ct' \in Cyphers /\ ct'.gate = gate /\ ct'.dt = dt.at /\ ct'.decay = last.at
       /\ ct'.hidden = ct.hidden /\ ct'.conv = ct.conv
  BY <1>3, <1>5, <1>7, <1>10, <1>11, <1>13 DEF Cyphers
<1> HIDE DEF flows
<1>16. /\ TypeInv' /\ LineageKept'
       /\ config' = config /\ plans' = plans /\ segment' = "state"
       /\ plan' = plan /\ token' = token /\ layer' = layer /\ Layers' = Layers
  <2>1. "state" \in Segments \ {"done", "token"} /\ segment # "done"
    BY <1>1 DEF Segments
  <2>2. state' \in [Layers -> Levels \cup {NoState}] /\ fifo' \in [Layers -> Seq(Levels)]
    BY <1>1, <1>13 DEF TypeInv
  <2>3. QED BY <1>1, <1>13, <1>14, <1>15, <2>1, <2>2, Onward
<1>17. Carries'
  <2>1. \A l \in Layers : Updated(l)' = Updated(l)
    BY <1>1, <1>16 DEF Updated
  <2>2. QED BY <1>1, <1>13, <1>16, <2>1, CarriesStay
<1>18. Drained'
  <2>1. R = req_dt(config, plan) /\ Q = req_decay(config, plan)
    BY DEF R, Q
  <2>2. QED BY <1>3, <1>4, <1>7, <1>10, <1>15, <1>16, <2>1 DEF Drained, BlockCap
<1>19. QED BY <1>16, <1>17, <1>18 DEF IInv

(* The age of a state counts the tokens until the requested refresh.       *)
Requested(c, t) == c.post \/ (c.interval > 0 /\ t % c.interval = 0)
LEMMA Ageing ==
  ASSUME Known, NEW t \in Nat, t < config.tokens
  PROVE  /\ Gap(config) \in Nat \ {0}
         /\ Age(config, t) \in Nat /\ Age(config, t) <= Gap(config) - 1
         /\ t # 0 /\ ~Requested(config, t) => Age(config, t) = Age(config, t - 1) + 1
         /\ Gap(config) = 1 /\ t # 0 => Requested(config, t)
<1>1. config.tokens \in Nat \ {0} /\ config.interval \in Nat /\ config.post \in BOOLEAN
  BY DEF Known, Sizes
<1>2. CASE config.post
  BY <1>1, <1>2 DEF Gap, Age, Requested
<1>3. CASE ~config.post /\ config.interval = 0
  BY <1>1, <1>3 DEF Gap, Age, Requested
<1>4. CASE ~config.post /\ config.interval > 0
  <2> DEFINE r == t % config.interval
             s == (t - 1) % config.interval
  <2>1. config.interval \in Nat \ {0}
    BY <1>1, <1>4
  <2>2. r \in Nat /\ r <= config.interval - 1 /\ r <= t
    BY <2>1, RemainderAtMost
  <2>3. t # 0 /\ r # 0 => r = s + 1
    BY <2>1, NextRemainder
  <2>4. Age(config, t) = r /\ Age(config, t - 1) = s /\ (Requested(config, t) <=> r = 0)
    BY <1>1, <1>4 DEF Age, Requested
  <2>5. Gap(config) = Least(config.interval, config.tokens)
    BY <1>4 DEF Gap
  <2> HIDE DEF r, s
  <2>6. Gap(config) \in Nat \ {0} /\ r <= Gap(config) - 1
    BY <1>1, <2>1, <2>2, <2>5 DEF Least
  <2>7. Gap(config) = 1 => r = 0
    BY <2>2, <2>6
  <2>8. QED BY <2>2, <2>3, <2>4, <2>6, <2>7
<1>5. QED BY <1>1, <1>2, <1>3, <1>4

(* The update of the state, of a fresh one or not, before its refresh.     *)
LEMMA UpdateLevel ==
  ASSUME Known, Shape(plan), 44 <= config.depth, PolynomialsFit(config, plan),
         config.auto_headroom >= 4,
         NEW conv \in Levels, conv <= Cap(config, plan, req_conv(config, plan)),
         NEW dt \in Levels, dt <= Cap(config, plan, req_dt(config, plan))
  PROVE  LET update == Times(Times(conv + 1, PlacedHead(dt)), PlacedBlocks(conv))
         IN  /\ update \in Levels
             /\ \/ update <= 28 + HeadExtra(config)
                \/ update <= config.depth - 3 - Meta(plan) - config.auto_headroom
             /\ PlacedBlocks(conv) + 3 + Loss(Meta(plan)) <= config.depth
             /\ conv + 2 + Loss(Meta(plan)) <= config.depth
             /\ PlacedBlocks(conv) \in Levels
<1> DEFINE update == Times(Times(conv + 1, PlacedHead(dt)), PlacedBlocks(conv))
           rep == IF config.replicated THEN 2 ELSE 1
           Q == req_dt(config, plan)
<1>1. /\ Q \in Int /\ Q >= 6 + HeadExtra(config)
  <2>1. CASE Joint(plan)
    BY <2>1, Numbers DEF req_dt, kJointWriteTailRequirement
  <2>2. CASE ~Joint(plan)
    <3>1. plan.exp + plan.squarings >= 4 + HeadExtra(config)
      BY <2>2 DEF PolynomialsFit, Joint
    <3>2. QED BY <2>2, <3>1, Numbers DEF req_dt
  <2>3. QED BY <2>1, <2>2
<1>2. /\ rep \in {1, 2} /\ req_conv(config, plan) = 5 + rep
      /\ PlacedBlocks(conv) = conv + rep /\ PlacedHead(dt) = dt + 1 + HeadExtra(config)
  BY DEF req_conv, PlacedBlocks, PlacedHead
<1>3. conv \in Int /\ conv >= -1 /\ dt \in Int /\ dt >= -1
  BY DEF Levels, Fresh
<1>4. conv <= 25 \/ conv <= config.depth - 5 - rep - Meta(plan) - config.auto_headroom
  BY <1>2, <1>3, Numbers DEF Cap, Two
<1>5. dt <= 25 \/ dt <= config.depth - Q - Meta(plan) - config.auto_headroom
  BY <1>1, <1>3, Numbers DEF Cap, Two
<1>6. update = Two(Two(conv + 1, dt + 1 + HeadExtra(config)) + 1, conv + rep) + 1
  BY <1>2 DEF Times
<1> HIDE DEF update, rep, Q
<1>7. /\ update \in Int /\ update >= -1
      /\ update = conv + 3 \/ update = dt + 3 + HeadExtra(config)
  BY <1>2, <1>3, <1>6, Numbers DEF Two
<1>8. \/ update <= 28 + HeadExtra(config)
      \/ update <= config.depth - 3 - Meta(plan) - config.auto_headroom
  BY <1>1, <1>2, <1>3, <1>4, <1>5, <1>7, Numbers
<1>9. /\ PlacedBlocks(conv) + 3 + Loss(Meta(plan)) <= config.depth
      /\ conv + 2 + Loss(Meta(plan)) <= config.depth
  BY <1>2, <1>3, <1>4, Numbers
<1>10. update \in Levels /\ PlacedBlocks(conv) \in Levels
  BY <1>2, <1>3, <1>7 DEF Levels, Fresh
<1>11. QED BY <1>8, <1>9, <1>10 DEF update

(* The state after its update: of the update alone, or one more than the   *)
(* old state.                                                              *)
NewState(s, update, decay) ==
  LET old == maybe_bootstrap(s, req_state_pre(config, plan), "state")
  IN  IF s # NoState THEN Product(old, Two(update, Times(PlacedHead(decay), old.at)))
      ELSE Through(update)
UpdateFits(update) ==
  \/ update <= 28 + HeadExtra(config)
  \/ update <= config.depth - 3 - Meta(plan) - config.auto_headroom
LEMMA NewStateSound ==
  ASSUME Known, Shape(plan), 44 <= config.depth, Room(config, plan, Plain(config, plans)),
         NEW update \in Levels, UpdateFits(update),
         NEW decay \in Levels, decay <= Cap(config, plan, req_decay(config, plan)),
         NEW s \in Levels \cup {NoState}, s # NoState => s <= StateCap(config)
  PROVE  LET new == NewState(s, update, decay)
         IN  /\ new \in Stretches /\ Sound(new) /\ new.at \in Levels
             /\ new.at + LossOf("state") <= config.depth
             /\ s = NoState => new.at = update
             /\ s # NoState => new.at <= Two(UpdateCap(config, plan), s + 1)
<1> DEFINE hx == HeadExtra(config)   ms == If(StateMeta(config))
           m == Meta(plan)           D == config.depth
           old == maybe_bootstrap(s, req_state_pre(config, plan), "state")
           l == Two(update, Times(PlacedHead(decay), old.at))
           new == NewState(s, update, decay)
<1>1. /\ If(should_use_meta_bts("state")) = ms /\ headroom("state") = config.carried_headroom
      /\ LossOf("state") = 2 + 3 * ms
      /\ ms \in {0, 1} /\ hx \in {0, 1} /\ m \in {0, 1} /\ D \in Nat /\ D >= 44
      /\ config.auto_headroom \in Nat /\ config.carried_headroom \in Nat
      /\ req_state_pre(config, plan) = 5 + hx /\ req_decay(config, plan) = 3
  BY Numbers, MetaBits DEF LossOf, Loss, req_state_pre, req_decay
<1>2. /\ config.auto_headroom >= 4 /\ hx + 3 * ms + 1 <= m + config.auto_headroom
  <2>1. /\ config.auto_headroom >= 4
        /\ config.auto_headroom >= 8 \/ m = 1 \/ hx = 0
    BY Kinds
  <2> HIDE DEF hx, ms, m
  <2>2. QED BY <1>1, <2>1
<1>3. /\ update \in Int /\ decay \in Int /\ decay >= -1 /\ update >= -1
      /\ update <= 28 + hx \/ update <= D - 3 - m - config.auto_headroom
  BY DEF UpdateFits, Levels, Fresh
<1>4. decay <= 25 \/ decay <= D - 3 - m - config.auto_headroom
  BY <1>1, <1>3 DEF Cap, Two
<1>5. CASE s = NoState
  <2>1. new = Through(update)
    BY <1>5 DEF NewState
  <2>2. update + 2 + 3 * ms <= D
    <3> HIDE DEF hx, ms, m, D
    <3>1. QED BY <1>1, <1>2, <1>3
  <2>3. update <= config.depth
    BY <1>1, <1>3, <2>2
  <2>4. Through(update) \in Stretches /\ Through(update).at = update /\ Sound(Through(update))
    BY <2>3, ThroughSound
  <2>5. QED BY <1>1, <1>3, <1>5, <2>1, <2>2, <2>4
<1>6. CASE s # NoState
  <2>1. s \in Levels /\ s \in Int /\ (s <= 25 \/ s <= D - 4 - ms - config.carried_headroom)
    <3>1. s \in Levels /\ s <= StateCap(config)
      BY <1>6
    <3>2. QED BY <1>1, <3>1 DEF StateCap, Two, Levels
  <2>2. s + LossOf("state") <= config.depth
    BY <1>1, <2>1
  <2>3. /\ old \in Stretches /\ Sound(old) /\ Checked(old, s, 5 + hx, "state")
    BY <1>1, <2>1, <2>2, Checkpoint
  <2> HIDE DEF old
  <2>4. /\ old.at \in Int /\ old.at >= -1 /\ old.at <= s
        /\ old.at <= 25 \/ old.at <= D - 5 - hx - ms - config.carried_headroom
    <3>1. old.at \in Int /\ old.at >= -1
      BY <2>3 DEF Stretches, Levels, Fresh
    <3>2. QED BY <1>1, <2>1, <2>3, <3>1 DEF Checked
  <2>5. /\ l \in Int /\ l >= -1
        /\ l = update \/ l = decay + 2 + hx \/ l = old.at + 1
    BY <1>1, <1>3, <2>4 DEF Two, Times, PlacedHead
  <2> HIDE DEF l
  <2>6. l + 2 + 3 * ms <= D
    <3> HIDE DEF hx, ms, m, D
    <3>1. QED BY <1>1, <1>2, <1>3, <1>4, <2>4, <2>5
  <2>7. l <= Two(UpdateCap(config, plan), s + 1)
    <3>1. UpdateCap(config, plan) = Two(28 + hx, D - 1 + hx - m - config.auto_headroom)
      BY DEF UpdateCap
    <3> HIDE DEF hx, ms, m, D
    <3>2. QED BY <1>1, <1>3, <1>4, <2>1, <2>4, <2>5, <3>1 DEF Two
  <2>8. new = Product(old, l)
    BY <1>6 DEF NewState, old, l
  <2>9. l \in Levels /\ l <= config.depth
    BY <1>1, <2>5, <2>6 DEF Levels, Fresh
  <2>10. /\ Product(old, l) \in Stretches /\ Product(old, l).at = l
         /\ Sound(Product(old, l))
    BY <2>3, <2>9, ProductSound
  <2> HIDE DEF new
  <2>11. QED BY <1>1, <1>6, <2>5, <2>6, <2>7, <2>8, <2>9, <2>10 DEF new
<1>7. QED BY <1>5, <1>6

(* The state as it is kept, which the readout still multiplies.            *)
KeptFits(k, t) ==
  /\ k.at <= StateCap(config)
  /\ k.at <= UpdateCap(config, plan) + Age(config, t)
  /\ k.at + 3 + Loss(Meta(plan)) <= config.depth
LEMMA KeptSound ==
  ASSUME Known, Shape(plan), 44 <= config.depth, Room(config, plan, Plain(config, plans)),
         StateFits(config, plan), NEW update \in Levels, UpdateFits(update),
         NEW t \in Nat, t < config.tokens, NEW s \in Levels \cup {NoState},
         s # NoState => t # 0 /\ s <= UpdateCap(config, plan) + Age(config, t - 1),
         NEW new \in Levels, new + LossOf("state") <= config.depth,
         s = NoState => new = update,
         s # NoState => new <= Two(UpdateCap(config, plan), s + 1)
  PROVE  LET kept == maybe_bootstrap(new, IF s # NoState /\ Requested(config, t) THEN config.depth
                                          ELSE req_state_tail(config, plan), "state")
         IN  kept \in Stretches /\ Sound(kept) /\ KeptFits(kept, t)
<1> DEFINE due == s # NoState /\ Requested(config, t)
           requirement == IF due THEN config.depth ELSE req_state_tail(config, plan)
           kept == maybe_bootstrap(new, requirement, "state")
           hx == HeadExtra(config)   ms == If(StateMeta(config))
           m == Meta(plan)           D == config.depth
           cap == UpdateCap(config, plan)
<1>1. /\ If(should_use_meta_bts("state")) = ms /\ headroom("state") = config.carried_headroom
      /\ ms \in {0, 1} /\ hx \in {0, 1} /\ m \in {0, 1} /\ D \in Nat /\ D >= 44
      /\ config.auto_headroom \in Nat /\ config.carried_headroom \in Nat
      /\ req_state_tail(config, plan) = 4 /\ config.auto_headroom >= 4
      /\ Loss(Meta(plan)) = 2 + 3 * m
  BY Numbers, MetaBits, Kinds DEF req_state_tail
<1>2. /\ requirement \in Int /\ requirement >= 4
      /\ due => requirement = D
  BY <1>1
<1> HIDE DEF requirement, due
<1>3. kept \in Stretches /\ Sound(kept) /\ Checked(kept, new, requirement, "state")
  BY <1>2, Checkpoint
<1> HIDE DEF kept
<1>4. /\ kept.at \in Int /\ kept.at >= -1 /\ kept.at <= new /\ new \in Int
      /\ kept.at <= 25 \/ kept.at + requirement + ms + config.carried_headroom <= D
  <2>1. kept.at \in Int /\ kept.at >= -1 /\ new \in Int
    BY <1>3 DEF Stretches, Levels, Fresh
  <2>2. QED BY <1>1, <1>2, <1>3, <2>1 DEF Checked
<1>5. kept.at <= 25 \/ kept.at <= D - 4 - ms - config.carried_headroom
  <2> HIDE DEF hx, ms, m, D
  <2>1. QED BY <1>1, <1>2, <1>4
<1>6. kept.at <= StateCap(config)
  BY <1>1, <1>4, <1>5 DEF StateCap, Two
<1>7. /\ Gap(config) \in Nat \ {0}
      /\ Age(config, t) \in Nat /\ Age(config, t) <= Gap(config) - 1
      /\ t # 0 /\ ~Requested(config, t) => Age(config, t) = Age(config, t - 1) + 1
      /\ t # 0 => Age(config, t - 1) \in Nat
      /\ Gap(config) = 1 /\ t # 0 => Requested(config, t)
  <2>1. config.tokens \in Nat
    BY DEF Known, Sizes
  <2>2. t # 0 => t - 1 \in Nat /\ t - 1 < config.tokens
    BY <2>1
  <2>3. QED BY <2>2, Ageing
<1>8. /\ cap \in Int /\ cap >= 28 + hx
      /\ cap = 28 + hx \/ cap = D - 1 + hx - m - config.auto_headroom
  BY <1>1 DEF UpdateCap, Two
<1>9. /\ update \in Int
      /\ update <= 28 + hx \/ update <= D - 3 - m - config.auto_headroom
      /\ update <= cap
  <2>1. update \in Int /\ (update <= 28 + hx \/ update <= D - 3 - m - config.auto_headroom)
    BY DEF UpdateFits, Levels
  <2>2. cap = Two(28 + hx, D - 1 + hx - m - config.auto_headroom)
    BY DEF UpdateCap
  <2> HIDE DEF hx, ms, m, D, cap
  <2>3. QED BY <1>1, <2>1, <2>2 DEF Two
<1>10. due => kept.at <= 25
  <2> HIDE DEF hx, ms, m, D
  <2>1. QED BY <1>1, <1>2, <1>4
<1>11. kept.at <= cap + Age(config, t)
  <2>1. CASE due
    BY <1>1, <1>4, <1>7, <1>8, <1>10, <2>1
  <2>2. CASE s = NoState
    BY <1>4, <1>7, <1>8, <1>9, <2>2
  <2>3. CASE s # NoState /\ ~due
    <3>1. s \in Int /\ t # 0 /\ s <= cap + Age(config, t - 1) /\ new <= Two(cap, s + 1)
      BY <2>3 DEF Levels
    <3>2. Age(config, t) = Age(config, t - 1) + 1 /\ Age(config, t - 1) \in Nat
      BY <1>7, <2>3, <3>1 DEF due
    <3> HIDE DEF cap
    <3>3. QED BY <1>4, <1>7, <1>8, <3>1, <3>2 DEF Two
  <2>4. QED BY <2>1, <2>2, <2>3
<1>12. kept.at + 3 + (2 + 3 * m) <= D
  <2>1. CASE Gap(config) = 1
    <3>1. due \/ s = NoState
      BY <1>7, <2>1 DEF due
    <3>2. kept.at <= 25 \/ kept.at <= update
      BY <1>10, <3>1, <1>4
    <3> HIDE DEF hx, ms, m, D
    <3>3. QED BY <1>1, <1>4, <1>9, <3>2 DEF D
  <2>2. CASE config.carried_headroom + ms >= (IF SomeSchedule(plan) THEN 4 ELSE 1)
    <3>1. config.carried_headroom + ms >= 1 + 3 * m
      BY <1>1, <2>2 DEF Meta, If
    <3> HIDE DEF hx, ms, m, D
    <3>2. QED BY <1>1, <1>4, <1>5, <3>1 DEF D
  <2>3. CASE /\ Gap(config) + 36 <= config.depth
             /\ config.auto_headroom >= hx + Gap(config) + (IF SomeSchedule(plan) THEN 5 ELSE 3)
    <3>1. config.auto_headroom >= hx + Gap(config) + 3 + 2 * m
      BY <1>1, <1>7, <2>3 DEF Meta, If
    <3>2. Gap(config) + 36 <= D
      BY <2>3
    <3> HIDE DEF hx, ms, m, D, cap
    <3>3. QED BY <1>1, <1>4, <1>7, <1>8, <1>11, <3>1, <3>2
  <2>4. QED BY <2>1, <2>2, <2>3 DEF StateFits
<1>13. QED BY <1>1, <1>3, <1>6, <1>11, <1>12 DEF KeptFits, kept, requirement, due

(* The state: refreshed before, and after its update if asked for.         *)
LEMMA StateStep ==
  ASSUME IInv, Reach, StateUpdate
  PROVE  IInv' /\ LineageKept'
<1> DEFINE update == Times(Times(ct.conv + 1, PlacedHead(ct.dt)), PlacedBlocks(ct.conv))
           s == state[layer]
           new == NewState(s, update, ct.decay)
           requirement == IF s # NoState /\ Requested(config, token) THEN config.depth
                          ELSE req_state_tail(config, plan)
           kept == maybe_bootstrap(new.at, requirement, "state")
           readout == Two(kept.at, PlacedBlocks(ct.conv)) + 2
           product == Times(Two(readout, ct.conv + 1), ct.gate)
           R == req_y(config, plan)
           y == maybe_bootstrap(product, R, "y")
           flows == {Through(update), new, kept, Through(product), y}
<1>1. TypeInv /\ Drained /\ Carries /\ segment = "state"
  BY DEF IInv, StateUpdate, Segment
<1>2. /\ Known /\ layer \in Layers /\ Shape(plan) /\ 44 <= config.depth
      /\ Room(config, plan, Plain(config, plans))
      /\ PolynomialsFit(config, plan) /\ StateFits(config, plan)
      /\ config.auto_headroom >= 4
  BY <1>1, PlanHere, Kinds
<1>3. /\ ct \in Cyphers /\ ct.conv \in Levels /\ ct.dt \in Levels /\ ct.decay \in Levels
      /\ ct.gate \in Levels
      /\ ct.hidden <= BlockCap(plan) /\ ct.conv <= Cap(config, plan, req_conv(config, plan))
      /\ ct.gate + 1 + Loss(Meta(plan)) <= config.depth
      /\ ct.dt <= Cap(config, plan, req_dt(config, plan))
      /\ ct.decay <= Cap(config, plan, req_decay(config, plan))
  BY <1>1 DEF TypeInv, Cyphers, Drained
<1>4. /\ token \in Nat /\ token < config.tokens
      /\ state \in [Layers -> Levels \cup {NoState}] /\ fifo \in [Layers -> Seq(Levels)]
      /\ s \in Levels \cup {NoState}
  BY <1>1, <1>2 DEF TypeInv
<1>5. s # NoState => /\ token # 0 /\ s <= StateCap(config)
                     /\ s <= UpdateCap(config, plan) + Age(config, token - 1)
  <2>1. Updated(layer) = token - 1
    BY <1>1, <1>2, <1>4 DEF Updated, Layers, Known
  <2>2. s # NoState => /\ token - 1 \in Nat /\ s <= StateCap(config)
                       /\ s <= UpdateCap(config, plan) + Age(config, token - 1)
    BY <1>1, <1>2, <2>1 DEF Carries, plan
  <2>3. QED BY <1>4, <2>2
<1>6. /\ update \in Levels /\ UpdateFits(update)
      /\ PlacedBlocks(ct.conv) + 3 + Loss(Meta(plan)) <= config.depth
      /\ ct.conv + 2 + Loss(Meta(plan)) <= config.depth
      /\ PlacedBlocks(ct.conv) \in Levels
  BY <1>2, <1>3, UpdateLevel, SMTT(30) DEF UpdateFits
<1>7. /\ Segment("state", "gated_norm", flows)
      /\ state' = [state EXCEPT ![layer] = kept.at]
      /\ ct' = [ct EXCEPT !.y = y.at]
      /\ UNCHANGED <<token, layer, fifo>>
  BY DEF StateUpdate, NewState, HasState, RefreshDue, Requested
<1> HIDE DEF update, s
<1>8. /\ new \in Stretches /\ Sound(new) /\ new.at \in Levels
      /\ new.at + LossOf("state") <= config.depth
      /\ s = NoState => new.at = update
      /\ s # NoState => new.at <= Two(UpdateCap(config, plan), s + 1)
  BY <1>2, <1>3, <1>4, <1>5, <1>6, NewStateSound
<1> HIDE DEF new
<1>9. kept \in Stretches /\ Sound(kept) /\ KeptFits(kept, token)
  BY <1>2, <1>4, <1>5, <1>6, <1>8, KeptSound
<1> HIDE DEF kept
<1>10. kept.at \in Levels
  BY <1>9 DEF Stretches
<1>11. product \in Levels /\ product + Loss(Meta(plan)) <= config.depth
  <2>1. /\ kept.at \in Int /\ kept.at >= -1 /\ ct.conv \in Int /\ ct.conv >= -1
        /\ ct.gate \in Int /\ ct.gate >= -1
        /\ PlacedBlocks(ct.conv) \in Int /\ PlacedBlocks(ct.conv) >= -1
    BY <1>3, <1>6, <1>10 DEF Levels, Fresh
  <2>2. product \in Int /\ product >= -1
        /\ \/ product = kept.at + 3 \/ product = PlacedBlocks(ct.conv) + 3
           \/ product = ct.conv + 2 \/ product = ct.gate + 1
    BY <2>1 DEF Two, Times
  <2> HIDE DEF product
  <2>3. kept.at + 3 + Loss(Meta(plan)) <= config.depth
    BY <1>9 DEF KeptFits
  <2>4. product + Loss(Meta(plan)) <= config.depth
    BY <1>2, <1>3, <1>6, <2>1, <2>2, <2>3, Numbers
  <2>5. QED BY <2>2, <2>4 DEF Levels, Fresh
<1> HIDE DEF product
<1>12. R \in Int
  BY <1>2, Numbers DEF req_y, kScheduledNormInputRequirement
<1> HIDE DEF R
<1>13. /\ y \in Stretches /\ Sound(y) /\ y.at \in Levels
       /\ y.at <= Cap(config, plan, R)
  BY <1>2, <1>11, <1>12, LayerCheckpoint DEF Plainly
<1> HIDE DEF y
<1>14. /\ Through(product) \in Stretches /\ Sound(Through(product))
       /\ Through(update) \in Stretches /\ Sound(Through(update))
  <2>1. product <= config.depth /\ update <= config.depth
    BY <1>2, <1>6, <1>11, Numbers DEF Levels, UpdateFits
  <2>2. QED BY <1>2, <1>6, <1>11, <2>1, ThroughSound
<1>15. \A f \in flows : f \in Stretches /\ Sound(f)
  BY <1>8, <1>9, <1>13, <1>14
<1> HIDE DEF flows
<1>16. ct' \in Cyphers /\ ct'.y = y.at /\ ct'.hidden = ct.hidden
  BY <1>3, <1>7, <1>13 DEF Cyphers
<1>17. /\ state' \in [Layers -> Levels \cup {NoState}] /\ fifo' \in [Layers -> Seq(Levels)]
       /\ state'[layer] = kept.at /\ \A l \in Layers \ {layer} : state'[l] = state[l]
  BY <1>2, <1>4, <1>7, <1>10
<1>18. /\ TypeInv' /\ LineageKept'
       /\ config' = config /\ plans' = plans /\ segment' = "gated_norm"
       /\ plan' = plan /\ token' = token /\ layer' = layer /\ Layers' = Layers
  <2>1. "gated_norm" \in Segments \ {"done", "token"} /\ segment # "done"
    BY <1>1 DEF Segments
  <2>2. QED BY <1>1, <1>7, <1>15, <1>16, <1>17, <2>1, Onward
<1>19. Carries'
  <2>1. \A l \in Layers \ {layer} : Updated(l)' = Updated(l)
    BY <1>1, <1>18 DEF Updated
  <2>2. Updated(layer)' = token /\ NoState \notin Levels
    BY <1>18 DEF Updated, Levels, Fresh, NoState
  <2>3. /\ kept.at <= StateCap(config)
        /\ kept.at <= UpdateCap(config, plans[layer]) + Age(config, token)
    BY <1>9 DEF KeptFits, plan
  <2>4. QED BY <1>1, <1>4, <1>7, <1>10, <1>17, <1>18, <2>1, <2>2, <2>3 DEF Carries
<1>20. Drained'
  BY <1>3, <1>13, <1>16, <1>18, SMTT(20) DEF Drained, BlockCap, R
<1>21. QED BY <1>18, <1>19, <1>20 DEF IInv

(* The inverse of the gated norm.                                          *)
LEMMA GatedInverseSound ==
  ASSUME Known, Shape(plan), 44 <= config.depth, Room(config, plan, Plain(config, plans)),
         PolynomialsFit(config, plan), NEW y \in Levels,
         y <= Cap(config, plan, req_y(config, plan))
  PROVE  LET s == gated_inverse(y + 1 + NormExtra(config), plan.gated)
         IN  s \in Stretches /\ Sound(s) /\ s.at <= HiddenCap - 1
<1> DEFINE v == y + 1 + NormExtra(config)
           norm == plan.gated
           D == config.depth   m == Meta(plan)   a == config.auto_headroom
           top == HiddenCap - 1
<1>1. /\ D \in Nat /\ D >= 44 /\ m \in {0, 1} /\ a \in Nat /\ a >= 4
      /\ Loss(Meta(plan)) = 2 + 3 * m /\ NormExtra(config) \in {0, 1}
  BY Numbers, Kinds
<1>2. /\ norm.kind \in {"polynomial", "guess", "schedule"} /\ norm.iterations \in Nat \ {0}
      /\ norm.kind = "polynomial" => norm.depth \in Nat /\ norm.depth + 34 <= D
  BY DEF Shape, Counts, PolynomialsFit
<1>3. /\ top \in Int /\ (top = D - 4 \/ top = D - 7)
      /\ top = D - 4 => m = 0
      /\ norm.kind = "guess" => top = D - 7
      /\ norm.kind # "schedule" => D - m - a <= top
  <2>1. /\ Plain(config, plans) => m = 0 /\ top = D - 4 /\ norm.kind = "polynomial"
        /\ ~Plain(config, plans) => top = D - 7
    <3>1. Plain(config, plans) => m = 0 /\ norm.kind = "polynomial"
      BY Kinds DEF Room, Fitted
    <3>2. HiddenCap = IF Plain(config, plans) THEN D - 3 ELSE D - 6
      BY <1>1 DEF HiddenCap
    <3>3. QED BY <1>1, <3>1, <3>2
  <2>2. norm.kind # "schedule" => a >= 8 \/ Plain(config, plans)
    BY Kinds DEF Scheduled
  <2> HIDE DEF top, m, a, D, norm
  <2>3. QED BY <1>1, <2>1, <2>2
<1>4. /\ v \in Int /\ v >= -1 /\ y \in Int
      /\ v <= 27 \/ v <= D - 3 - m - a
      /\ norm.kind = "schedule" => v <= 27 \/ v <= D - 17 - m - a
  <2>1. req_y(config, plan) = NormExtra(config) + (IF norm.kind = "schedule" THEN 18 ELSE 4)
    BY DEF req_y, kScheduledNormInputRequirement
  <2>2. y \in Int /\ y >= -1
    BY DEF Levels, Fresh
  <2>3. y <= 25 \/ y <= D - req_y(config, plan) - m - a
    BY <1>1, <2>1, <2>2 DEF Cap, Two
  <2> HIDE DEF norm, m, a, D
  <2>4. QED BY <1>1, <2>1, <2>2, <2>3
<1>5. v \in Levels /\ v + 1 \in Levels
  BY <1>4 DEF Levels, Fresh
<1> DEFINE s == gated_inverse(v, norm)
<1> HIDE DEF v
<1>6. CASE norm.kind = "schedule"
  <2>1. (v + 1) + 11 <= config.depth
    <3> HIDE DEF norm, m, a
    <3>1. QED BY <1>1, <1>4, <1>6
  <2> DEFINE r == scheduled_inverse(v + 1, norm.iterations)
  <2>2. /\ r \in Stretches /\ Sound(r) /\ r.at <= config.depth - 8
    BY <1>1, <1>2, <1>5, <2>1, ScheduleSound
  <2>3. s = r
    BY <1>6 DEF gated_inverse
  <2> HIDE DEF r, s, norm, top
  <2>4. r.at \in Int
    BY <2>2 DEF Stretches, Levels
  <2>5. r.at <= top
    BY <1>1, <1>3, <2>2, <2>4
  <2>6. QED BY <2>2, <2>3, <2>5 DEF s, top, v, norm
<1>7. CASE norm.kind = "polynomial"
  <2> DEFINE X == norm.depth + 1 + 2 * norm.iterations
             u == maybe_bootstrap(v + 1, X, "gated_poly_input")
             g == Product(u, u.at + norm.depth + 2)
             r == newton_refine(g, u.at + 1, norm.iterations)
  <2>1. X \in Int /\ X >= norm.depth + 3 /\ norm.depth \in Nat /\ norm.depth + 34 <= D
    BY <1>2, <1>7
  <2>2. LossOf("gated_poly_input") \in {2, 5} /\ headroom("gated_poly_input") = a
        /\ If(should_use_meta_bts("gated_poly_input")) \in {0, 1}
        /\ If(should_use_meta_bts("gated_poly_input")) >= m
    <3>1. /\ headroom("gated_poly_input") = a
          /\ If(should_use_meta_bts("gated_poly_input")) = If(SomeSchedule(plan) \/ config.meta)
      BY MetaBits
    <3>2. /\ If(SomeSchedule(plan) \/ config.meta) \in {0, 1}
          /\ If(SomeSchedule(plan) \/ config.meta) >= m
      BY DEF If, Meta
    <3>3. LossOf("gated_poly_input") \in {2, 5}
      BY DEF LossOf, Loss
    <3>4. QED BY <3>1, <3>2, <3>3
  <2>3. v + 1 + LossOf("gated_poly_input") <= config.depth
    <3> HIDE DEF norm, m, a
    <3>1. QED BY <1>1, <1>4, <2>2
  <2> HIDE DEF X
  <2>4. /\ u \in Stretches /\ Sound(u) /\ Checked(u, v + 1, X, "gated_poly_input")
    BY <1>1, <1>5, <2>1, <2>3, Checkpoint
  <2> HIDE DEF u
  <2>5. u.at \in Int /\ u.at >= -1 /\ (u.at <= 25 \/ u.at + X + m + a <= D)
    <3>1. u.at \in Int /\ u.at >= -1
      BY <2>4 DEF Stretches, Levels, Fresh
    <3>2. u.at <= 25 \/ u.at + X + If(should_use_meta_bts("gated_poly_input")) + a <= D
      BY <2>2, <2>4 DEF Checked
    <3> HIDE DEF m, a, D
    <3>3. QED BY <1>1, <2>1, <2>2, <3>1, <3>2
  <2>6. /\ u.at + norm.depth + 2 + Loss(Meta(plan)) <= config.depth
        /\ (u.at + 1) + 2 <= top /\ 27 <= top
        /\ top + Loss(Meta(plan)) <= config.depth
        /\ config.depth - Meta(plan) - config.auto_headroom <= top
    <3>1. top = D - 4 \/ top = D - 7
      BY <1>3
    <3>2. D - m - a <= top
      BY <1>3, <1>7
    <3>3. /\ u.at + norm.depth + 2 + (2 + 3 * m) <= D
          /\ (u.at + 1) + 2 <= top /\ 27 <= top /\ top + (2 + 3 * m) <= D
      <4> HIDE DEF norm, m, a, top, D
      <4>1. QED BY <1>1, <1>3, <2>1, <2>5, <3>1, <3>2
    <3>4. QED BY <1>1, <3>2, <3>3
  <2>7. u.at + norm.depth + 2 \in Levels /\ u.at + norm.depth + 2 <= config.depth
        /\ u.at + 1 \in Levels
    BY <1>1, <2>1, <2>5, <2>6 DEF Levels, Fresh
  <2>8. g \in Stretches /\ g.at = u.at + norm.depth + 2 /\ Sound(g)
    BY <2>4, <2>7, ProductSound
  <2> HIDE DEF g
  <2>9. RefinedAll(r, g, norm.iterations, top)
    <3>1. top \in Int
      BY <1>3, <1>1
    <3>2. norm.iterations \in Nat /\ g.at + Loss(Meta(plan)) <= config.depth
      BY <1>2, <2>6, <2>8
    <3> HIDE DEF top, norm
    <3>3. QED BY <2>6, <2>7, <2>8, <3>1, <3>2, <1>1, NewtonSound
  <2>10. s = r
    BY <1>7 DEF gated_inverse, r, g, u, X
  <2> HIDE DEF r, s, top
  <2>11. QED BY <1>2, <2>9, <2>10 DEF RefinedAll, s, top, v
<1>8. CASE norm.kind = "guess"
  <2> DEFINE u == maybe_bootstrap(v + 1, kNewtonSegmentEstimate, "gated_variance")
             z == newton_refine(u, u.at, norm.iterations - 1)
             r == Product(z, z.at + 1)
  <2>1. v + 1 + Loss(Meta(plan)) <= config.depth
    <3> HIDE DEF norm, m, a
    <3>1. QED BY <1>1, <1>4
  <2>2. /\ u \in Stretches /\ Sound(u) /\ u.at \in Levels /\ u.at <= v + 1
        /\ u.at <= Cap(config, plan, 14)
    BY <1>1, <1>5, <2>1, LayerCheckpoint DEF Plainly, kNewtonSegmentEstimate
  <2> HIDE DEF u
  <2>3. u.at \in Int /\ (u.at <= 25 \/ u.at <= D - 14 - m - a)
    BY <1>1, <2>2 DEF Cap, Two, Levels
  <2>4. top = D - 7 /\ D - m - a <= top
    BY <1>3, <1>8
  <2>5. /\ u.at + Loss(Meta(plan)) <= config.depth
        /\ top - 1 \in Int /\ (top - 1) + Loss(Meta(plan)) <= config.depth
        /\ u.at + 2 <= top - 1 /\ 27 <= top - 1
        /\ config.depth - Meta(plan) - config.auto_headroom <= top - 1
    <3>1. a >= 8
      BY <1>8, <2>4, Kinds DEF Scheduled, Fitted
    <3> HIDE DEF norm, top
    <3>2. QED BY <1>1, <2>1, <2>2, <2>3, <2>4, <3>1 DEF Levels
  <2>6. norm.iterations - 1 \in Nat
    BY <1>2
  <2>7. RefinedAll(z, u, norm.iterations - 1, top - 1)
    <3> HIDE DEF top, norm
    <3>1. QED BY <1>1, <2>2, <2>5, <2>6, NewtonSound
  <2> HIDE DEF z
  <2>8. z \in Stretches /\ Sound(z) /\ z.at \in Int /\ z.at >= -1 /\ z.at <= top - 1
    <3>1. z \in Stretches /\ Sound(z) /\ z.at \in Int /\ z.at >= -1
      BY <2>7 DEF RefinedAll, Stretches, Levels, Fresh
    <3> HIDE DEF top
    <3>2. z.at <= top - 1
      BY <2>3, <2>5, <2>6, <2>7 DEF RefinedAll
    <3>3. QED BY <3>1, <3>2
  <2>9. z.at + 1 \in Levels /\ z.at + 1 <= config.depth /\ z.at + 1 <= top
    <3> HIDE DEF top
    <3>1. QED BY <1>1, <2>4, <2>8 DEF Levels, Fresh
  <2>10. r \in Stretches /\ r.at = z.at + 1 /\ Sound(r)
    BY <2>8, <2>9, ProductSound
  <2>11. s = r
    BY <1>8 DEF gated_inverse, r, z, u
  <2> HIDE DEF r, s, top
  <2>12. QED BY <2>9, <2>10, <2>11 DEF s, top, v
<1>9. QED BY <1>2, <1>6, <1>7, <1>8 DEF v

(* The norm of the gated output.                                           *)
LEMMA GatedNormStep ==
  ASSUME IInv, Reach, GatedNorm
  PROVE  IInv' /\ LineageKept'
<1> DEFINE v == ct.y + 1 + NormExtra(config)
           inverse == gated_inverse(v, plan.gated)
           y == maybe_bootstrap(ct.y, req_out(config, plan), "y_out")
           flows == {inverse, y}
<1>1. TypeInv /\ Drained /\ Carries /\ segment = "gated_norm"
  BY DEF IInv, GatedNorm, Segment
<1>2. /\ Known /\ layer \in Layers /\ Shape(plan) /\ 44 <= config.depth
      /\ Room(config, plan, Plain(config, plans)) /\ PolynomialsFit(config, plan)
      /\ config.auto_headroom >= 4
  BY <1>1, PlanHere, Kinds
<1>3. /\ ct \in Cyphers /\ ct.y \in Levels
      /\ ct.hidden <= BlockCap(plan) /\ ct.y <= Cap(config, plan, req_y(config, plan))
  BY <1>1 DEF TypeInv, Cyphers, Drained
<1>4. inverse \in Stretches /\ Sound(inverse) /\ inverse.at <= HiddenCap - 1
  BY <1>2, <1>3, GatedInverseSound
<1>5. ct.y <= Cap(config, plan, 4) /\ ct.y + Loss(Meta(plan)) <= config.depth
      /\ req_out(config, plan) \in Int
  <2>1. req_y(config, plan) \in Int /\ req_y(config, plan) >= 4 /\ req_out(config, plan) = 2
    BY <1>2, Numbers DEF req_y, req_out, kScheduledNormInputRequirement
  <2>2. ct.y \in Int /\ ct.y <= Cap(config, plan, req_y(config, plan))
    BY <1>3 DEF Levels
  <2>3. /\ config.depth \in Nat /\ Meta(plan) \in {0, 1} /\ config.auto_headroom \in Nat
        /\ Loss(Meta(plan)) = 2 + 3 * Meta(plan)
    BY <1>2, Numbers
  <2>4. QED BY <1>2, <2>1, <2>2, <2>3 DEF Cap, Two
<1>6. y \in Stretches /\ Sound(y) /\ y.at \in Levels /\ y.at <= ct.y
  BY <1>2, <1>3, <1>5, LayerCheckpoint DEF Plainly
<1>7. /\ Segment("gated_norm", "out_proj", flows)
      /\ ct' = [ct EXCEPT !.inverse = inverse.at, !.y = y.at]
      /\ UNCHANGED <<token, layer, state, fifo>>
  BY DEF GatedNorm
<1> HIDE DEF inverse, y
<1>8. \A f \in flows : f \in Stretches /\ Sound(f)
  BY <1>4, <1>6
<1> HIDE DEF flows
<1>9. inverse.at \in Levels
  BY <1>4 DEF Stretches
<1>10. ct' \in Cyphers /\ ct'.y = y.at /\ ct'.inverse = inverse.at /\ ct'.hidden = ct.hidden
  BY <1>3, <1>6, <1>7, <1>9 DEF Cyphers
<1>11. /\ TypeInv' /\ LineageKept'
       /\ config' = config /\ plans' = plans /\ segment' = "out_proj"
       /\ plan' = plan /\ token' = token /\ layer' = layer /\ Layers' = Layers
  <2>1. "out_proj" \in Segments \ {"done", "token"} /\ segment # "done"
    BY <1>1 DEF Segments
  <2>2. state' \in [Layers -> Levels \cup {NoState}] /\ fifo' \in [Layers -> Seq(Levels)]
    BY <1>1, <1>7 DEF TypeInv
  <2>3. QED BY <1>1, <1>7, <1>8, <1>10, <2>1, <2>2, Onward
<1>12. Carries'
  <2>1. \A l \in Layers : Updated(l)' = Updated(l)
    BY <1>1, <1>11 DEF Updated
  <2>2. QED BY <1>1, <1>7, <1>11, <2>1, CarriesStay
<1>13. y.at <= Cap(config, plan, 4)
  <2>1. Cap(config, plan, 4) \in Int /\ ct.y \in Int /\ y.at \in Int
    BY <1>2, <1>3, <1>6, Numbers DEF Cap, Two, Levels
  <2>2. QED BY <1>5, <1>6, <2>1
<1>14. Drained'
  BY <1>3, <1>4, <1>10, <1>11, <1>13 DEF Drained, BlockCap, HiddenCap
<1>15. QED BY <1>11, <1>12, <1>14 DEF IInv

(* The output projection, back onto the residual stream.                   *)
LEMMA OutProjStep ==
  ASSUME IInv, Reach, OutProj
  PROVE  IInv' /\ LineageKept'
<1> DEFINE products == IF config.replicated_out THEN 2 ELSE 1
           out == Times(DroppedTo(ct.y, ct.inverse, products) + products, ct.inverse)
           last == layer = Len(plans)
           h == Two(out, ct.hidden)
<1>1. TypeInv /\ Drained /\ Carries /\ segment = "out_proj"
  BY DEF IInv, OutProj, Segment
<1>2. /\ Known /\ layer \in Layers /\ Shape(plan) /\ 44 <= config.depth
      /\ Room(config, plan, Plain(config, plans))
  BY <1>1, PlanHere
<1>3. /\ ct.hidden \in Levels /\ ct.y \in Levels /\ ct.inverse \in Levels
      /\ ct.hidden <= BlockCap(plan) /\ ct.y <= Cap(config, plan, 4)
      /\ ct.inverse <= HiddenCap - 1
  BY <1>1 DEF TypeInv, Cyphers, Drained
<1>4. /\ products \in {1, 2} /\ out = Two(ct.y + products, ct.inverse) + 1
  BY <1>3 DEF DroppedTo, Times, Two, Levels, Fresh
<1> HIDE DEF products, out
<1>5. /\ h \in Levels /\ h <= HiddenCap /\ out \in Levels /\ out <= config.depth
  <2>1. /\ ct.y \in Int /\ ct.y >= -1 /\ ct.inverse \in Int /\ ct.inverse >= -1
        /\ ct.hidden \in Int /\ ct.hidden >= -1
    BY <1>3 DEF Levels, Fresh
  <2>2. out \in Int /\ out >= -1 /\ (out <= ct.y + 3 \/ out <= ct.inverse + 1)
    BY <1>4, <2>1 DEF Two
  <2>3. /\ Meta(plan) \in {0, 1} /\ config.depth \in Nat /\ config.auto_headroom \in Nat
        /\ config.auto_headroom >= 4
    BY <1>2, Numbers, Kinds
  <2>4. ct.y <= 25 \/ ct.y <= config.depth - 4 - Meta(plan) - config.auto_headroom
    BY <1>3, <2>1, <2>3 DEF Cap, Two
  <2>5. /\ HiddenCap = config.depth - 3 \/ HiddenCap = config.depth - 6
        /\ HiddenCap # config.depth - 3 => config.auto_headroom + Meta(plan) >= 5
    <3>1. ~Plain(config, plans) => config.auto_headroom + Meta(plan) >= 5
      BY <1>2, <2>3, Kinds
    <3>2. QED BY <2>3, <3>1 DEF HiddenCap
  <2>6. out <= HiddenCap
    BY <1>2, <1>3, <2>1, <2>2, <2>3, <2>4, <2>5
  <2>7. ct.hidden <= HiddenCap
    BY <1>3, <2>1, <2>3, <2>5 DEF BlockCap
  <2>8. QED BY <2>1, <2>2, <2>3, <2>5, <2>6, <2>7 DEF Two, Levels, Fresh
<1>6. /\ Segment("out_proj", IF last THEN "output" ELSE "block_norm", {Through(out)})
      /\ ct' = [Blank EXCEPT !.hidden = h]
      /\ layer' = IF last THEN layer ELSE layer + 1
      /\ UNCHANGED <<token, state, fifo>>
  BY DEF OutProj, out, products
<1> HIDE DEF h
<1>7. Through(out) \in Stretches /\ Sound(Through(out))
  BY <1>2, <1>5, ThroughSound
<1>8. ct' \in Cyphers /\ ct'.hidden = h
  BY <1>5, <1>6 DEF Cyphers, Blank, Levels, Fresh
<1>9. /\ config' = config /\ plans' = plans /\ token' = token /\ Layers' = Layers
      /\ segment' = IF last THEN "output" ELSE "block_norm"
      /\ reached' = Through(out).needs
  BY <1>6 DEF Segment, Layers
<1>10. LineageKept'
  BY <1>7, <1>9 DEF Sound, LineageKept
<1>11. /\ Layers = 1 .. Len(plans) /\ Len(plans) \in Nat
       /\ token \in Nat /\ token < config.tokens
       /\ state \in [Layers -> Levels \cup {NoState}] /\ fifo \in [Layers -> Seq(Levels)]
  BY <1>1, <1>2 DEF TypeInv, Layers, Known
<1>12. layer' \in Layers
  BY <1>2, <1>6, <1>11
<1>13. TypeInv'
  <2>1. \E c \in Cases : config' = c.config /\ plans' = c.plans
    BY <1>1, <1>9 DEF TypeInv
  <2>2. segment' \in Segments /\ segment' \notin {"done", "token"}
    BY <1>9 DEF Segments
  <2>3. QED BY <1>6, <1>8, <1>9, <1>11, <1>12, <2>1, <2>2 DEF TypeInv
<1>14. Carries'
  <2>1. \A l \in Layers : Updated(l)' = Updated(l)
    BY <1>1, <1>2, <1>6, <1>9, <1>11 DEF Updated
  <2>2. QED BY <1>1, <1>6, <1>9, <2>1, CarriesStay
<1>15. Drained'
  <2>1. HiddenCap' = HiddenCap
    BY <1>9 DEF HiddenCap
  <2>2. segment' \in {"output", "block_norm"} /\ ct'.hidden <= HiddenCap
    BY <1>5, <1>8, <1>9
  <2>3. QED BY <2>1, <2>2 DEF Drained
<1>16. QED BY <1>10, <1>13, <1>14, <1>15 DEF IInv

-----------------------------------------------------------------------------
(* The ends of a token, and the theorem.                                   *)

(* The norm at the end of the chain. *)
LEMMA FinalNormSound ==
  ASSUME Known, Shape(plan), 44 <= config.depth, Room(config, plan, Plain(config, plans)),
         NEW norm, norm = config.final, norm.kind \in {"newton", "schedule"},
         norm.kind = "newton" => norm.depth <= 9,
         ct.hidden \in Levels, ct.hidden <= HiddenCap
  PROVE  FinalNorm(norm) \in Stretches /\ Sound(FinalNorm(norm))
<1> DEFINE D == config.depth   m == Meta(plan)   a == config.auto_headroom
           n == NormExtra(config)
           what == IF norm.kind = "schedule" THEN "scheduled_norm" ELSE "final_norm"
           R == IF norm.kind = "schedule" THEN kScheduledNormInputRequirement ELSE 12
           h == maybe_bootstrap(ct.hidden + 1, R, what)
           v == h.at + 1 + n
           inverse == block_inverse(v, norm)
           product == IF norm.kind = "schedule" THEN Times(h.at + 1, inverse.at)
                      ELSE Times(h.at, inverse.at) + 1
           top == config.depth - Loss(Meta(plan))
           I == If(should_use_meta_bts(what))
<1>1. /\ D \in Nat /\ D >= 44 /\ m \in {0, 1} /\ a \in Nat /\ a >= 4 /\ n \in {0, 1}
      /\ Loss(Meta(plan)) = 2 + 3 * m
      /\ a >= 8 \/ m = 1 \/ Plain(config, plans)
      /\ norm.iterations \in Nat \ {0} /\ Counts(norm)
      /\ norm.kind = "newton" => norm.depth \in Nat /\ norm.depth <= 9
  <2>1. Counts(norm)
    BY DEF Known, Sizes
  <2>2. /\ norm.iterations \in Nat \ {0}
        /\ norm.kind = "newton" => norm.depth \in Nat
    BY <2>1 DEF Counts
  <2>3. QED BY <2>1, <2>2, Numbers, Kinds
<1>2. /\ R = (IF norm.kind = "schedule" THEN 18 ELSE 12)
      /\ headroom(what) = a
      /\ norm.kind = "schedule" => LossOf(what) = 5 /\ I = 1
      /\ norm.kind = "newton" => LossOf(what) = 2 + 3 * m /\ I = m
  BY <1>1, MetaBits DEF Plainly, kScheduledNormInputRequirement
<1>3. ct.hidden \in Int /\ ct.hidden >= -1 /\ ct.hidden + 1 + LossOf(what) <= config.depth
  <2>1. /\ norm.kind = "schedule" => ~Plain(config, plans)
        /\ Plain(config, plans) => m = 0
        /\ HiddenCap = IF Plain(config, plans) THEN D - 3 ELSE D - 6
    BY <1>1, Kinds DEF Room, HiddenCap
  <2>2. ct.hidden \in Int /\ ct.hidden >= -1
    BY DEF Levels, Fresh
  <2> HIDE DEF what, m, a, D, I
  <2>3. ct.hidden + 1 + LossOf(what) <= D
    BY <1>1, <1>2, <2>1, <2>2
  <2>4. QED BY <2>2, <2>3 DEF D
<1> HIDE DEF what, R
<1>4. /\ h \in Stretches /\ Sound(h) /\ Checked(h, ct.hidden + 1, R, what)
  <2>1. ct.hidden + 1 \in Levels /\ R \in Int
    BY <1>2, <1>3 DEF Levels, Fresh
  <2>2. QED BY <1>3, <2>1, Checkpoint
<1> HIDE DEF h
<1>5. /\ h.at \in Int /\ h.at >= -1
      /\ norm.kind = "schedule" => h.at <= 25 \/ h.at <= D - 19 - a
      /\ norm.kind = "newton" => h.at <= 25 \/ h.at <= D - 12 - m - a
  <2>1. h.at \in Int /\ h.at >= -1
    BY <1>4 DEF Stretches, Levels, Fresh
  <2>2. h.at <= 25 \/ h.at + R + I + a <= D
    BY <1>2, <1>4 DEF Checked
  <2> HIDE DEF I, m, a, D
  <2>3. QED BY <1>1, <1>2, <2>1, <2>2
<1>6. v \in Levels /\ NormInput(v, norm, top) /\ top \in Int
  <2>1. v \in Int /\ v = h.at + 1 + n /\ v >= -1
    BY <1>1, <1>5
  <2>2. ASSUME norm.kind = "schedule" PROVE v + 12 <= D
    <3> HIDE DEF v, n, m, a, D
    <3>1. QED BY <1>1, <1>5, <2>1, <2>2
  <2>3. top = D - 2 - 3 * m
    BY <1>1
  <2>4. ASSUME norm.kind = "newton"
        PROVE  /\ v + 1 + norm.depth + (2 + 3 * m) <= D
               /\ v + 3 <= top /\ 27 <= top /\ top + (2 + 3 * m) <= D
               /\ D - m - a <= top
    <3>1. norm.depth \in Nat /\ norm.depth <= 9 /\ (h.at <= 25 \/ h.at <= D - 12 - m - a)
      BY <1>1, <1>5, <2>4
    <3>2. m = 1 => a >= 4
      BY <1>1
    <3> HIDE DEF v, n, m, a, D, top
    <3>3. QED BY <1>1, <1>5, <2>1, <2>3, <3>1, <3>2
  <2>5. NormInput(v, norm, top)
    BY <1>1, <2>2, <2>4 DEF NormInput
  <2>6. QED BY <1>1, <2>1, <2>3, <2>5 DEF Levels, Fresh
<1> HIDE DEF v
<1>7. /\ inverse \in Stretches /\ Sound(inverse)
      /\ norm.kind = "schedule" => inverse.at <= D - 8
      /\ norm.kind = "newton" => inverse.at <= top
  BY <1>1, <1>6, BlockInverseSound
<1> HIDE DEF inverse
<1>8. product \in Levels /\ product <= config.depth
  <2>1. inverse.at \in Int /\ inverse.at >= -1
    BY <1>7 DEF Stretches, Levels, Fresh
  <2>2. /\ product \in Int /\ product >= -1
        /\ norm.kind = "schedule" => product <= h.at + 2 \/ product <= inverse.at + 1
        /\ norm.kind = "newton" => product <= h.at + 2 \/ product <= inverse.at + 2
    BY <1>5, <2>1 DEF Times, Two
  <2>3. top = D - 2 - 3 * m
    BY <1>1
  <2> HIDE DEF product
  <2>4. product <= D
    <3> HIDE DEF n, m, a, D, top
    <3>1. QED BY <1>1, <1>5, <1>7, <2>1, <2>2, <2>3
  <2>5. QED BY <2>2, <2>4 DEF Levels, Fresh
<1> HIDE DEF product
<1>9. Then(h, inverse) \in Stretches /\ Sound(Then(h, inverse))
  BY <1>4, <1>7, ThenSound
<1>10. FinalNorm(norm) = Product(Then(h, inverse), product)
  BY DEF FinalNorm, product, inverse, v, h, R, what
<1>11. QED BY <1>8, <1>9, <1>10, ProductSound

(* The end of the chain: a norm, or a refresh for the decryption.          *)
LEMMA OutputStep ==
  ASSUME IInv, Reach, Output
  PROVE  IInv' /\ LineageKept'
<1> DEFINE R == Two(0, 12 - config.auto_headroom)
           out == IF config.final.kind = "none" THEN maybe_bootstrap(ct.hidden, R, "output")
                  ELSE FinalNorm(config.final)
<1>1. TypeInv /\ Drained /\ Carries /\ segment = "output"
  BY DEF IInv, Output, Segment
<1>2. /\ Known /\ layer \in Layers /\ Shape(plan) /\ 44 <= config.depth
      /\ Room(config, plan, Plain(config, plans))
      /\ config.final.kind = "newton" => config.final.depth <= 9
  BY <1>1, PlanHere
<1>3. ct.hidden \in Levels /\ ct.hidden <= HiddenCap
  BY <1>1 DEF TypeInv, Cyphers, Drained
<1>4. out \in Stretches /\ Sound(out)
  <2>1. CASE config.final.kind = "none"
    <3>1. R \in Int
      BY <1>2, Numbers DEF Two
    <3>2. ct.hidden + Loss(Meta(plan)) <= config.depth
      <4>1. /\ Plain(config, plans) => Meta(plan) = 0
            /\ HiddenCap = IF Plain(config, plans) THEN config.depth - 3 ELSE config.depth - 6
        BY <1>2, Kinds, Numbers DEF HiddenCap
      <4>2. ct.hidden \in Int
        BY <1>3 DEF Levels
      <4>3. QED BY <1>2, <1>3, <4>1, <4>2, Numbers
    <3> HIDE DEF R
    <3>3. /\ maybe_bootstrap(ct.hidden, R, "output") \in Stretches
          /\ Sound(maybe_bootstrap(ct.hidden, R, "output"))
      BY <1>2, <1>3, <3>1, <3>2, LayerCheckpoint DEF Plainly
    <3>4. QED BY <2>1, <3>3
  <2>2. CASE config.final.kind # "none"
    <3>1. config.final.kind \in {"newton", "schedule"}
      BY <1>2, <2>2 DEF Known, Sizes
    <3>2. FinalNorm(config.final) \in Stretches /\ Sound(FinalNorm(config.final))
      BY <1>2, <1>3, <3>1, FinalNormSound
    <3>3. QED BY <2>2, <3>2
  <2>3. QED BY <2>1, <2>2
<1>5. /\ Segment("output", IF token + 1 < config.tokens THEN "token" ELSE "done", {out})
      /\ token' = token + 1 /\ layer' = 1
      /\ ct' = [Blank EXCEPT !.hidden = out.at]
      /\ UNCHANGED <<state, fifo>>
  BY DEF Output
<1> HIDE DEF out
<1>6. ct' \in Cyphers
  <2>1. out.at \in Levels
    BY <1>4 DEF Stretches
  <2>2. QED BY <1>5, <2>1 DEF Cyphers, Blank, Levels, Fresh
<1>7. /\ config' = config /\ plans' = plans /\ Layers' = Layers
      /\ segment' = IF token + 1 < config.tokens THEN "token" ELSE "done"
      /\ reached' = out.needs
  BY <1>5 DEF Segment, Layers
<1>8. LineageKept'
  BY <1>4, <1>7 DEF Sound, LineageKept
<1>9. /\ Layers = 1 .. Len(plans) /\ Len(plans) \in Nat /\ Layers # {}
      /\ token \in Nat
      /\ state \in [Layers -> Levels \cup {NoState}] /\ fifo \in [Layers -> Seq(Levels)]
  BY <1>1, <1>2 DEF TypeInv, Layers, Known
<1>10. TypeInv'
  <2>1. \E c \in Cases : config' = c.config /\ plans' = c.plans
    BY <1>1, <1>7 DEF TypeInv
  <2>2. segment' \in Segments /\ (segment' # "done" => token' < config.tokens)
    BY <1>5, <1>7 DEF Segments
  <2>3. layer' \in Layers
    BY <1>5, <1>9
  <2>4. QED BY <1>5, <1>6, <1>7, <1>9, <2>1, <2>2, <2>3 DEF TypeInv
<1>11. Carries'
  <2>1. \A l \in Layers : Updated(l)' = Updated(l)
    BY <1>1, <1>5, <1>7, <1>9 DEF Updated
  <2>2. QED BY <1>1, <1>5, <1>7, <2>1, CarriesStay
<1>12. Drained'
  BY <1>7 DEF Drained
<1>13. QED BY <1>8, <1>10, <1>11, <1>12 DEF IInv

(* A carried ciphertext before a token: encrypted anew, bootstrapped, or   *)
(* left as it is.                                                          *)
Reloaded(l, what) ==
  LET anew == token \in config.reencrypt_before
      from == IF anew THEN Fresh ELSE l
  IN  IF token \in config.bootstrap_before THEN maybe_bootstrap(from, config.depth, what)
      ELSE Through(from)
LEMMA ReloadSound ==
  ASSUME Known, 44 <= config.depth, NEW l \in Levels, NEW what,
         l + LossOf(what) <= config.depth
  PROVE  LET s == Reloaded(l, what)
         IN  s \in Stretches /\ Sound(s) /\ s.at \in Levels /\ (s.at <= l \/ s.at <= Fresh)
<1> DEFINE from == IF token \in config.reencrypt_before THEN Fresh ELSE l
           s == Reloaded(l, what)
<1>1. /\ from \in Levels /\ from <= l
  BY DEF Levels, Fresh
<1>2. LossOf(what) \in {2, 5} /\ config.depth \in Nat
  BY DEF LossOf, Loss, Known, Sizes
<1>3. from + LossOf(what) <= config.depth /\ from <= config.depth
  BY <1>1, <1>2 DEF Levels
<1>4. s = IF token \in config.bootstrap_before THEN maybe_bootstrap(from, config.depth, what)
          ELSE Through(from)
  BY DEF Reloaded
<1> HIDE DEF from, s
<1>5. CASE token \in config.bootstrap_before
  <2>1. s \in Stretches /\ Checked(s, from, config.depth, what) /\ Sound(s)
    BY <1>1, <1>2, <1>3, <1>4, <1>5, Checkpoint
  <2>2. s.at \in Levels
    BY <2>1 DEF Stretches
  <2>3. s.at <= from
    BY <2>1 DEF Checked
  <2>4. QED BY <1>1, <2>1, <2>2, <2>3 DEF Levels, s
<1>6. CASE token \notin config.bootstrap_before
  <2>1. s \in Stretches /\ s.at = from /\ Sound(s)
    BY <1>1, <1>3, <1>4, <1>6, ThroughSound
  <2>2. QED BY <1>1, <2>1 DEF s
<1>7. QED BY <1>5, <1>6

(* A token starts with what it carries within its bounds.                  *)
LEMMA StartTokenStep ==
  ASSUME IInv, Reach, StartToken
  PROVE  IInv' /\ LineageKept'
<1> DEFINE here(l) == state[l] # NoState
           s(l) == Reloaded(state[l], "state")
           f(l, k) == Reloaded(fifo[l][k], "fifo")
           states == {s(l) : l \in {k \in Layers : here(k)}}
           inputs == UNION {{f(l, k) : k \in DOMAIN fifo[l]} : l \in Layers}
           flows == states \cup inputs
<1>1. TypeInv /\ Drained /\ Carries /\ segment = "token"
  BY DEF IInv, StartToken, Segment
<1>2. /\ Known /\ Shape(plan) /\ 44 <= config.depth /\ config.auto_headroom >= 4
      /\ WithinReach(config, plans)
  BY <1>1, PlanHere, Kinds, ChainReached
<1>3. /\ state \in [Layers -> Levels \cup {NoState}] /\ fifo \in [Layers -> Seq(Levels)]
      /\ token \in Nat /\ token < config.tokens /\ layer = 1
      /\ NoState \notin Levels
  BY <1>1 DEF TypeInv, Levels, NoState, Fresh
<1>4. ASSUME NEW l \in Layers, here(l)
      PROVE  /\ s(l) \in Stretches /\ Sound(s(l)) /\ s(l).at \in Levels
             /\ s(l).at <= StateCap(config)
             /\ s(l).at <= UpdateCap(config, plans[l]) + Age(config, Updated(l))
  <2>1. /\ state[l] \in Levels /\ Updated(l) \in Nat
        /\ state[l] <= StateCap(config)
        /\ state[l] <= UpdateCap(config, plans[l]) + Age(config, Updated(l))
    BY <1>1, <1>3, <1>4 DEF Carries
  <2>2. /\ config.depth \in Nat /\ config.carried_headroom \in Nat
        /\ config.auto_headroom \in Nat
        /\ If(StateMeta(config)) \in {0, 1} /\ LossOf("state") = 2 + 3 * If(StateMeta(config))
    BY <1>2, Numbers, MetaBits DEF LossOf, Loss
  <2>3. /\ StateCap(config) \in Nat /\ StateCap(config) + LossOf("state") <= config.depth
    BY <1>2, <2>2 DEF StateCap, Two
  <2>4. state[l] + LossOf("state") <= config.depth
    BY <2>1, <2>2, <2>3 DEF Levels
  <2>5. /\ s(l) \in Stretches /\ Sound(s(l)) /\ s(l).at \in Levels
        /\ s(l).at <= state[l] \/ s(l).at <= Fresh
    BY <1>2, <2>1, <2>4, ReloadSound
  <2>6. UpdateCap(config, plans[l]) \in Nat /\ Age(config, Updated(l)) \in Nat
    <3>1. HeadExtra(config) \in {0, 1} /\ Meta(plans[l]) \in {0, 1}
      BY DEF HeadExtra, Meta, If
    <3>2. UpdateCap(config, plans[l]) \in Nat
      BY <2>2, <3>1 DEF UpdateCap, Two
    <3>3. Updated(l) < config.tokens
      <4>1. Updated(l) = token \/ Updated(l) = token - 1
        BY DEF Updated
      <4>2. config.tokens \in Nat
        BY <1>2 DEF Known, Sizes
      <4>3. QED BY <1>3, <4>1, <4>2
    <3>4. QED BY <1>2, <2>1, <3>2, <3>3, Ageing
  <2> HIDE DEF s
  <2>7. QED BY <2>1, <2>3, <2>5, <2>6 DEF Levels, Fresh
<1>5. ASSUME NEW l \in Layers, NEW k \in DOMAIN fifo[l]
      PROVE  /\ f(l, k) \in Stretches /\ Sound(f(l, k)) /\ f(l, k).at \in Levels
             /\ f(l, k).at <= FifoCap(config, plans[l])
  <2>1. fifo[l][k] \in Levels /\ fifo[l][k] <= FifoCap(config, plans[l])
    BY <1>1, <1>3 DEF Carries
  <2>2. /\ FifoCap(config, plans[l]) \in Nat
        /\ FifoCap(config, plans[l]) + LossOf("fifo") <= config.depth
    <3>1. plans[l].conv \in Nat /\ Meta(plans[l]) \in {0, 1} /\ LossOf("fifo") \in {2, 5}
      BY <1>2 DEF Known, Shape, Meta, If, LossOf, Loss
    <3>2. QED BY <1>2, <3>1, Numbers DEF FifoCap, Two
  <2>3. fifo[l][k] + LossOf("fifo") <= config.depth
    <3>1. LossOf("fifo") \in {2, 5}
      BY DEF LossOf, Loss
    <3>2. QED BY <1>2, <2>1, <2>2, <3>1, Numbers DEF Levels
  <2>4. /\ f(l, k) \in Stretches /\ Sound(f(l, k)) /\ f(l, k).at \in Levels
        /\ f(l, k).at <= fifo[l][k] \/ f(l, k).at <= Fresh
    BY <1>2, <2>1, <2>3, ReloadSound
  <2> HIDE DEF f
  <2>5. QED BY <2>1, <2>2, <2>4 DEF Levels, Fresh
<1>6. /\ Segment("token", "block_norm", flows)
      /\ state' = [l \in Layers |-> IF here(l) THEN s(l).at ELSE NoState]
      /\ fifo' = [l \in Layers |-> [k \in DOMAIN fifo[l] |-> f(l, k).at]]
      /\ ct' = Blank
      /\ UNCHANGED <<token, layer>>
  <2>1. /\ state' = [l \in Layers |-> IF here(l) THEN s(l).at ELSE NoState]
        /\ ct' = Blank /\ UNCHANGED <<token, layer>>
    BY DEF StartToken, Reloaded
  <2> DEFINE boot(l, what) == IF token \in config.bootstrap_before
                              THEN maybe_bootstrap(l, config.depth, what) ELSE Through(l)
             g(l) == [k \in DOMAIN fifo[l] |->
                        boot(IF token \in config.reencrypt_before THEN Fresh ELSE fifo[l][k], "fifo")]
             t(l) == boot(IF token \in config.reencrypt_before THEN Fresh ELSE state[l], "state")
  <2>2. /\ Segment("token", "block_norm",
              {t(l) : l \in {k \in Layers : here(k)}}
                \cup UNION {{g(l)[k] : k \in DOMAIN fifo[l]} : l \in Layers})
        /\ fifo' = [l \in Layers |-> [k \in DOMAIN fifo[l] |-> g(l)[k].at]]
    BY DEF StartToken
  <2>3. \A l : t(l) = s(l)
    BY DEF Reloaded
  <2>4. \A l : \A k \in DOMAIN fifo[l] : g(l)[k] = f(l, k)
    BY DEF Reloaded
  <2> HIDE DEF t, g, s, f
  <2>5. fifo' = [l \in Layers |-> [k \in DOMAIN fifo[l] |-> f(l, k).at]]
    BY <2>2, <2>4
  <2>6. {t(l) : l \in {k \in Layers : here(k)}} = states
    BY <2>3
  <2>7. UNION {{g(l)[k] : k \in DOMAIN fifo[l]} : l \in Layers} = inputs
    <3> DEFINE A(l) == {g(l)[k] : k \in DOMAIN fifo[l]}
               B(l) == {f(l, k) : k \in DOMAIN fifo[l]}
    <3>1. \A l : A(l) = B(l)
      BY <2>4
    <3> HIDE DEF A, B
    <3>2. UNION {A(l) : l \in Layers} = UNION {B(l) : l \in Layers}
      BY <3>1
    <3>3. QED BY <3>2 DEF A, B, inputs
  <2> HIDE DEF states, inputs
  <2>8. Segment("token", "block_norm", flows)
    BY <2>2, <2>6, <2>7
  <2>9. QED BY <2>1, <2>5, <2>8 DEF s
<1>7. \A x \in flows : x \in Stretches /\ Sound(x)
  <2> HIDE DEF s, f
  <2>1. \A x \in states : x \in Stretches /\ Sound(x)
    BY <1>4
  <2>2. \A x \in inputs : x \in Stretches /\ Sound(x)
    <3> TAKE x \in inputs
    <3>1. PICK l \in Layers : x \in {f(l, k) : k \in DOMAIN fifo[l]}
      OBVIOUS
    <3>2. PICK k \in DOMAIN fifo[l] : x = f(l, k)
      BY <3>1
    <3>3. QED BY <1>5, <3>2
  <2>3. QED BY <2>1, <2>2
<1> HIDE DEF s, f, flows
<1>8. ct' \in Cyphers /\ ct'.hidden = Fresh
  BY <1>6 DEF Cyphers, Blank, Levels, Fresh
<1>9. /\ state' \in [Layers -> Levels \cup {NoState}]
      /\ \A l \in Layers : /\ here(l) => state'[l] = s(l).at
                           /\ ~here(l) => state'[l] = NoState
  BY <1>4, <1>6
<1>10. /\ fifo' \in [Layers -> Seq(Levels)]
       /\ \A l \in Layers : /\ DOMAIN fifo'[l] = DOMAIN fifo[l]
                            /\ \A k \in DOMAIN fifo[l] : fifo'[l][k] = f(l, k).at
  <2>1. ASSUME NEW l \in Layers
        PROVE  [k \in DOMAIN fifo[l] |-> f(l, k).at] \in Seq(Levels)
    <3>1. Len(fifo[l]) \in Nat /\ DOMAIN fifo[l] = 1 .. Len(fifo[l])
      BY <1>3
    <3>2. QED BY <1>5, <3>1
  <2>2. QED BY <1>6, <2>1
<1>11. /\ TypeInv' /\ LineageKept'
       /\ config' = config /\ plans' = plans /\ segment' = "block_norm"
       /\ plan' = plan /\ token' = token /\ layer' = layer /\ Layers' = Layers
  <2>1. "block_norm" \in Segments \ {"done", "token"} /\ segment # "done"
    BY <1>1 DEF Segments
  <2>2. QED BY <1>1, <1>6, <1>7, <1>8, <1>9, <1>10, <2>1, Onward
<1>12. Carries'
  <2>1. \A l \in Layers : Updated(l)' = Updated(l)
    BY <1>1, <1>11 DEF Updated
  <2>2. \A l \in Layers :
          /\ state'[l] = NoState => Updated(l) < 0
          /\ state'[l] # NoState => /\ Updated(l) \in Nat
                                    /\ state'[l] <= StateCap(config)
                                    /\ state'[l] <= UpdateCap(config, plans[l]) + Age(config, Updated(l))
    <3> TAKE l \in Layers
    <3>1. CASE here(l)
      BY <1>1, <1>3, <1>4, <1>9, <3>1 DEF Carries
    <3>2. CASE ~here(l)
      BY <1>1, <1>9, <3>2 DEF Carries
    <3>3. QED BY <3>1, <3>2
  <2>3. \A l \in Layers : \A k \in DOMAIN fifo'[l] : fifo'[l][k] <= FifoCap(config, plans[l])
    BY <1>5, <1>10
  <2>4. QED BY <1>11, <2>1, <2>2, <2>3 DEF Carries
<1>13. Drained'
  <2>1. Fresh <= HiddenCap
    BY <1>2, Numbers DEF HiddenCap, Fresh
  <2>2. HiddenCap' = HiddenCap
    BY <1>11 DEF HiddenCap
  <2>3. QED BY <1>8, <1>11, <2>1, <2>2 DEF Drained
<1>14. QED BY <1>11, <1>12, <1>13 DEF IInv

(* A case starts with nothing encrypted. *)
LEMMA StartOfRun ==
  ASSUME Init
  PROVE  IInv /\ LineageKept
<1>1. PICK c \in Cases : config = c.config /\ plans = c.plans
  BY DEF Init
<1>2. /\ Options(config) /\ plans \in Seq({plans[l] : l \in DOMAIN plans}) /\ plans # <<>>
  BY <1>1, DecodeAssumption
<1>3. 1 \in Layers /\ config.tokens \in Nat \ {0}
  BY <1>2 DEF Layers, Options
<1>4. TypeInv
  <2>1. ct \in Cyphers
    BY DEF Init, Blank, Cyphers, Levels, Fresh
  <2>2. /\ state \in [Layers -> Levels \cup {NoState}]
        /\ fifo \in [Layers -> Seq(Levels)]
    BY DEF Init
  <2>3. /\ token \in Nat /\ layer \in Layers /\ segment \in Segments
        /\ token < config.tokens
    <3>1. layer = 1 /\ token = 0 /\ segment = "token"
      BY DEF Init
    <3>2. QED BY <1>3, <3>1 DEF Segments
  <2>4. segment = "token" => layer = 1
    BY DEF Init
  <2>5. \E d \in Cases : config = d.config /\ plans = d.plans
    BY <1>1
  <2>6. QED BY <2>1, <2>2, <2>3, <2>4, <2>5 DEF TypeInv
<1>5. Drained
  BY DEF Init, Drained
<1>6. Carries
  <2>1. \A l \in Layers : state[l] = NoState /\ fifo[l] = <<>>
    BY DEF Init
  <2>2. \A l \in Layers : Updated(l) = -1
    BY DEF Init, Updated, Layers
  <2>3. QED BY <2>1, <2>2 DEF Carries
<1>7. LineageKept
  BY DEF Init, LineageKept
<1>8. QED BY <1>4, <1>5, <1>6, <1>7 DEF IInv

(* Every step keeps the invariant, and every level it needs exists.        *)
LEMMA Step ==
  ASSUME IInv, Reach, LineageKept, [Next]_vars
  PROVE  IInv' /\ LineageKept'
<1>1. CASE UNCHANGED vars
  <2>1. /\ TypeInv' = TypeInv /\ Drained' = Drained /\ Carries' = Carries
        /\ LineageKept' = LineageKept
    BY <1>1 DEF vars, TypeInv, Drained, Carries, LineageKept, Layers, plan, HiddenCap,
                BlockCap, ProductCap, Updated
  <2>2. QED BY <2>1 DEF IInv
<1>2. CASE Finish
  BY <1>1, <1>2 DEF Finish
<1>3. CASE StartToken
  BY <1>3, StartTokenStep
<1>4. CASE BlockNorm
  BY <1>4, BlockNormStep
<1>5. CASE InProj
  BY <1>5, InProjStep
<1>6. CASE Conv
  BY <1>6, ConvStep
<1>7. CASE Gates
  BY <1>7, GatesStep
<1>8. CASE StateUpdate
  BY <1>8, StateStep
<1>9. CASE GatedNorm
  BY <1>9, GatedNormStep
<1>10. CASE OutProj
  BY <1>10, OutProjStep
<1>11. CASE Output
  BY <1>11, OutputStep
<1>12. QED BY <1>1, <1>2, <1>3, <1>4, <1>5, <1>6, <1>7, <1>8, <1>9, <1>10, <1>11 DEF Next

(* Every case within reach runs to its end with no level missing: what the *)
(* checkpoints of a segment let through leaves the next ones theirs.       *)
THEOREM Lineage ==
  ASSUME Reach
  PROVE  Spec => []LineageKept
<1>1. Init => IInv /\ LineageKept
  BY StartOfRun
<1>2. (IInv /\ LineageKept) /\ [Next]_vars => (IInv /\ LineageKept)'
  BY Step
<1>3. QED BY <1>1, <1>2, PTL DEF Spec

-----------------------------------------------------------------------------
(* The pre-run ledger.  A checkpoint never raises a level, so it is enough *)
(* that each product of the first layer rises no higher than the ledger's. *)

first == plans[1]
Foresight == \A c \in Cases : Foreseen(c.config, c.plans[1])

(* A state no deeper than the ledger says after token t, by as much as the *)
(* guess of the gated norm is off; or refreshed, where that goes unnoticed.*)
Covered(s, t) ==
  \/ s + GuessExtra(first) <= state_levels(config, first)[t]
  \/ Deep(config, first) /\ s <= 25
StateForeseen(s, t) ==
  s # NoState =>
    /\ Covered(s, t)
    /\ NoRequest(config) => update_level(config, first) <= state_levels(config, first)[t]
InputsForeseen(q) == \A k \in DOMAIN q : q[k] < proj_level(config, first)

(* A state encrypted or bootstrapped before this token is not yet updated. *)
Reloads(s) ==
  s # NoState /\ token \in config.reencrypt_before \cup config.bootstrap_before => s <= 25

Branches == {"block_norm", "in_proj", "conv", "gates", "state"}
FirstLayer ==
  /\ segment \in Branches \cup {"gated_norm", "out_proj"} => ct.hidden = Fresh
  /\ segment = "in_proj" => ct.inverse < inv1(config, first)
  /\ segment \in {"conv", "gates"} => ct.proj < proj_level(config, first)
  /\ segment \in {"gates", "state"} => ct.conv < xconv(config, first)
  /\ segment = "state" =>
       /\ ct.gate < proj_level(config, first) + 1 + first.gate
       /\ ct.dt < dt_lvl(config, first) - If(first.joint)
       /\ ct.decay < decay_lvl(config, first)
  /\ segment \in {"gated_norm", "out_proj"} =>
       ct.y + GuessExtra(first) <= y_level(config, first, token)
  /\ segment = "out_proj" /\ first.gated.kind # "polynomial" =>
       ct.inverse <= inv2(config, first, y_level(config, first, token))
  /\ segment \in Branches => Reloads(state[1])

Forecast ==
  /\ layer = 1 => FirstLayer
  /\ InputsForeseen(fifo[1])
  /\ StateForeseen(state[1], Updated(1))

(* A checkpoint never raises a level.                                      *)
LEMMA Settles ==
  ASSUME Known, NEW l \in Levels, NEW requirement \in Int, NEW what
  PROVE  LET s == maybe_bootstrap(l, requirement, what)
         IN  s \in Stretches /\ s.at \in Levels /\ s.at <= l
<1> DEFINE s == maybe_bootstrap(l, requirement, what)
<1>1. s \in Stretches /\ Checked(s, l, requirement, what)
  BY Checkpoint
<1> HIDE DEF s
<1>2. s.at \in Levels /\ s.at <= l
  BY <1>1 DEF Stretches, Checked
<1>3. QED BY <1>1, <1>2 DEF s

(* An iteration rises by two levels an update.                             *)
LEMMA IterationRises ==
  ASSUME Known, NEW guess \in Stretches, NEW v \in Levels, NEW n \in Nat,
         NEW requirement \in Int, NEW what
  PROVE  LET s == Iterated(guess, v, n, requirement, what)
         IN  s \in Stretches /\ s.at \in Levels /\ s.at <= Two(v, guess.at) + 2 * n
<1>1. PICK f : /\ Iterates(f, guess, v, n, requirement, what)
               /\ Iterated(guess, v, n, requirement, what) = f[n]
  BY IterationUnfolds
<1> DEFINE low == Two(v, guess.at)
           Good(i) == f[i].at <= low + 2 * i
           B == {i \in 0 .. n : ~ Good(i)}
<1>2. v \in Int /\ guess.at \in Int /\ low \in Int /\ v <= low /\ guess.at <= low
  BY DEF Levels, Stretches, Two
<1> HIDE DEF low
<1>3. \A i \in 0 .. n : f[i] \in Stretches /\ f[i].at \in Levels
  BY <1>1 DEF Iterates, Stretches
<1>4. \A i \in 1 .. n : Good(i - 1) => Good(i)
  <2> TAKE i \in 1 .. n
  <2> HAVE Good(i - 1)
  <2>1. i \in 0 .. n /\ i - 1 \in 0 .. n /\ f[i] = Refined(f[i - 1], v, requirement, what)
    BY <1>1 DEF Iterates
  <2>2. RefinedTo(f[i], f[i - 1], v, requirement, what)
    BY <1>3, <2>1, RefinedStep
  <2>3. f[i].at <= Two(v, f[i - 1].at) + 2
    BY <2>2 DEF RefinedTo
  <2>4. f[i].at \in Int /\ f[i - 1].at \in Int
    BY <1>3, <2>1 DEF Levels
  <2>5. 2 * i = 2 * (i - 1) + 2
    BY <2>1
  <2>6. f[i].at <= low + 2 * i
    BY <1>2, <2>3, <2>4, <2>5 DEF Two
  <2>7. QED BY <2>6
<1>5. Good(0)
  BY <1>1, <1>2 DEF Iterates
<1>6. B = {}
  <2>1. SUFFICES ASSUME B # {} PROVE FALSE
    OBVIOUS
  <2> HIDE DEF Good
  <2>2. PICK i \in B : \A j \in B : i <= j
    BY <2>1, B \subseteq Nat, LeastNat
  <2>3. i \in 1 .. n /\ i - 1 \in 0 .. n /\ i - 1 \notin B
    BY <1>5, <2>2
  <2>4. QED BY <1>4, <2>2, <2>3
<1>7. f[n].at <= low + 2 * n
  <2>1. n \in 0 .. n /\ n \notin B
    BY <1>6
  <2>2. QED BY <2>1
<1>8. QED BY <1>1, <1>3, <1>7, n \in 0 .. n DEF low

(* The squarings rise by one each.                                         *)
LEMMA DecayRises ==
  ASSUME Known, Shape(plan), NEW dt \in Levels
  PROVE  /\ Decay(dt) \in Stretches /\ Decay(dt).at \in Levels
         /\ Decay(dt).at <= dt + 1 + plan.exp + plan.squarings
<1>1. PICK f : SquaresOf(f, dt) /\ Decay(dt) = f[plan.squarings]
  BY DecayUnfolds
<1> DEFINE n == plan.squarings
           low == dt + 1 + plan.exp
           Good(i) == f[i].at <= low + i
           B == {i \in 0 .. n : ~ Good(i)}
<1>2. n \in Nat /\ low \in Levels /\ low \in Int
  BY DEF Shape, Levels, Fresh
<1>3. \A i \in 0 .. n : f[i] \in Stretches /\ f[i].at \in Levels
  BY <1>1 DEF SquaresOf, Stretches
<1>4. \A i \in 1 .. n : f[i] = Squared(f[i - 1], n - i + 1)
  BY <1>1 DEF SquaresOf
<1>5. f[0].at = low
  BY <1>1, <1>2, ThroughSound DEF SquaresOf
<1> HIDE DEF low, n
<1>6. \A i \in 1 .. n : Good(i - 1) => Good(i)
  <2> TAKE i \in 1 .. n
  <2> HAVE Good(i - 1)
  <2>1. i \in 0 .. n /\ i - 1 \in 0 .. n /\ n - i + 1 \in Int
    BY <1>2
  <2>2. f[i].at <= f[i - 1].at + 1
    BY <1>3, <1>4, <2>1, SquaredStep
  <2>3. f[i].at \in Int /\ f[i - 1].at \in Int
    BY <1>3, <2>1 DEF Levels
  <2>4. QED BY <1>2, <2>1, <2>2, <2>3
<1>7. Good(0)
  BY <1>2, <1>5
<1>8. B = {}
  <2>1. SUFFICES ASSUME B # {} PROVE FALSE
    OBVIOUS
  <2> HIDE DEF Good
  <2>2. PICK i \in B : \A j \in B : i <= j
    BY <1>2, <2>1, B \subseteq Nat, LeastNat
  <2>3. i \in 1 .. n /\ i - 1 \in 0 .. n /\ i - 1 \notin B
    BY <1>2, <1>7, <2>2
  <2>4. QED BY <1>6, <2>2, <2>3
<1>9. f[n].at <= low + n
  <2>1. n \in 0 .. n /\ n \notin B
    BY <1>2, <1>8
  <2>2. QED BY <2>1
<1>10. QED BY <1>1, <1>2, <1>3, <1>9 DEF n, low

(* The ledger's levels of the first layer.                                 *)
LedgerSizes(c, p) ==
  /\ inv1(c, p) \in Nat /\ inv1(c, p) >= 2
  /\ proj_level(c, p) = inv1(c, p) + 1
  /\ xconv(c, p) = proj_level(c, p) + 1 + p.conv
  /\ dt_lvl(c, p) = proj_level(c, p) + 2 + p.dt + If(p.joint)
  /\ p.joint => decay_lvl(c, p) = dt_lvl(c, p)
  /\ ~p.joint => decay_lvl(c, p) = dt_lvl(c, p) + 1 + p.exp + p.squarings
  /\ bc_exp(c, p) = xconv(c, p) + 1 + If(c.replicated)
  /\ update_level(c, p) =
       Two(Two(xconv(c, p) + 1, dt_lvl(c, p) + 1 + HeadExtra(c)) + 1, bc_exp(c, p)) + 1
  /\ {inv1(c, p), proj_level(c, p), xconv(c, p), dt_lvl(c, p), decay_lvl(c, p),
      bc_exp(c, p), update_level(c, p)} \subseteq Nat
  /\ HeadExtra(c) \in {0, 1} /\ GuessExtra(p) \in {0, 1} /\ NormExtra(c) \in {0, 1}
  /\ If(p.joint) \in {0, 1} /\ If(c.replicated) \in {0, 1}
  /\ (p.joint => If(p.joint) = 1) /\ (~p.joint => If(p.joint) = 0)
LEMMA LedgerNumbers ==
  ASSUME Known, 1 \in Layers, Shape(first)
  PROVE  LedgerSizes(config, first)
<1> DEFINE c == config
           p == first
<1>1. /\ HeadExtra(c) \in {0, 1} /\ GuessExtra(p) \in {0, 1} /\ NormExtra(c) \in {0, 1}
      /\ If(p.joint) \in {0, 1} /\ If(c.replicated) \in {0, 1}
      /\ (p.joint => If(p.joint) = 1) /\ (~p.joint => If(p.joint) = 0)
      /\ (c.replicated => If(c.replicated) = 1) /\ (~c.replicated => If(c.replicated) = 0)
  BY DEF HeadExtra, GuessExtra, NormExtra, If
<1>2. /\ p.conv \in Nat /\ p.dt \in Nat /\ p.exp \in Nat /\ p.squarings \in Nat
      /\ p.joint \in BOOLEAN /\ c.replicated \in BOOLEAN
  BY DEF Shape, Known, Sizes
<1>3. inv1(c, p) \in Nat /\ inv1(c, p) >= 2
  <2>1. CASE p.rms.kind = "schedule"
    <3>1. p.rms.iterations \in Nat \ {0}
      BY <2>1 DEF Shape, Counts
    <3>2. QED BY <1>1, <2>1, <3>1 DEF inv1
  <2>2. CASE p.rms.kind = "newton"
    <3>1. p.rms.iterations \in Nat \ {0} /\ p.rms.depth \in Nat
      BY <2>2 DEF Shape, Counts
    <3>2. QED BY <1>1, <2>2, <3>1 DEF inv1
  <2>3. QED BY <2>1, <2>2 DEF Shape
<1>4. proj_level(c, p) = inv1(c, p) + 1 /\ proj_level(c, p) \in Nat
  BY <1>3 DEF proj_level
<1> HIDE DEF c, p
<1>5. xconv(c, p) = proj_level(c, p) + 1 + p.conv /\ xconv(c, p) \in Nat
  BY <1>2, <1>4 DEF xconv
<1>6. dt_lvl(c, p) = proj_level(c, p) + 2 + p.dt + If(p.joint) /\ dt_lvl(c, p) \in Nat
  BY <1>1, <1>2, <1>4 DEF dt_lvl, DtTail, Joint
<1>7. /\ p.joint => decay_lvl(c, p) = dt_lvl(c, p)
      /\ ~p.joint => decay_lvl(c, p) = dt_lvl(c, p) + 1 + p.exp + p.squarings
      /\ decay_lvl(c, p) \in Nat
  BY <1>2, <1>6 DEF decay_lvl, Joint
<1>8. bc_exp(c, p) = xconv(c, p) + 1 + If(c.replicated) /\ bc_exp(c, p) \in Nat
  BY <1>1, <1>2, <1>5 DEF bc_exp
<1>9. /\ update_level(c, p) =
           Two(Two(xconv(c, p) + 1, dt_lvl(c, p) + 1 + HeadExtra(c)) + 1, bc_exp(c, p)) + 1
      /\ update_level(c, p) \in Nat
  BY <1>1, <1>5, <1>6, <1>8 DEF update_level, Times, ExpandedHead, Two
<1>10. {inv1(c, p), proj_level(c, p), xconv(c, p), dt_lvl(c, p), decay_lvl(c, p),
        bc_exp(c, p), update_level(c, p)} \subseteq Nat
  BY <1>3, <1>4, <1>5, <1>6, <1>7, <1>8, <1>9
<1>11. LedgerSizes(c, p)
  BY <1>1, <1>3, <1>4, <1>5, <1>6, <1>7, <1>8, <1>9, <1>10 DEF LedgerSizes
<1>12. QED BY <1>11 DEF c, p

(* The ledger's state, token by token.                                     *)
LEMMA EstimateSizes ==
  ASSUME Known, LedgerSizes(config, first), NEW t \in Nat, NEW s \in Nat
  PROVE  /\ EstimateBefore(config, t, s) \in Nat
         /\ EstimateNext(config, first, t, s) \in Nat
         /\ EstimateRefreshes(config, t) => EstimateNext(config, first, t, s) = 18
         /\ ~EstimateRefreshes(config, t) =>
              EstimateNext(config, first, t, s)
                = Two(decay_lvl(config, first) + 1 + HeadExtra(config),
                      EstimateBefore(config, t, s)) + 1
<1>1. EstimateBefore(config, t, s) \in Nat
  BY DEF EstimateBefore, Least, kAssumedBootstrapOutputLevel
<1>2. decay_lvl(config, first) \in Nat /\ HeadExtra(config) \in {0, 1}
  BY DEF LedgerSizes
<1>3. QED BY <1>1, <1>2 DEF EstimateNext, Times, Two, ExpandedHead, kAssumedBootstrapOutputLevel

(* The state's recursion has a solution, and the ledger's is one.          *)
LEMMA StateLevels ==
  ASSUME Known, LedgerSizes(config, first)
  PROVE  LET f == state_levels(config, first)
         IN  /\ f[0] = update_level(config, first)
             /\ \A t \in 0 .. config.tokens - 1 : f[t] \in Nat
             /\ \A t \in 1 .. config.tokens - 1 : f[t] = EstimateNext(config, first, t, f[t - 1])
<1> DEFINE n == config.tokens - 1
           start == update_level(config, first)
           R(t, s) == EstimateNext(config, first, t, s)
           step == [x \in (1 .. n) \X Nat |-> R(x[1], x[2])]
           Equation(f) == f = [t \in 0 .. n |-> IF t = 0 THEN start ELSE R(t, f[t - 1])]
           after == CHOOSE f : Equation(f)
<1>1. n \in Nat /\ start \in Nat
  <2>1. n \in Nat
    BY DEF Known, Sizes
  <2>2. start \in Nat
    BY DEF LedgerSizes
  <2>3. QED BY <2>1, <2>2
<1>2. \A t \in 1 .. n : \A s \in Nat : R(t, s) \in Nat
  <2> TAKE t \in 1 .. n
  <2> TAKE s \in Nat
  <2>1. t \in Nat
    BY <1>1
  <2>2. QED BY <2>1, EstimateSizes
<1>3. state_levels(config, first) = after
  BY DEF state_levels
<1> HIDE DEF R, n, start
<1>4. step \in [(1 .. n) \X Nat -> Nat]
  BY <1>2
<1>5. PICK g \in [0 .. n -> Nat] : Follows(g, n, start, step)
  <2> HIDE DEF step
  <2>1. QED BY <1>1, <1>4, Chain
<1>6. \A t \in 1 .. n : g[t] = R(t, g[t - 1])
  <2> TAKE t \in 1 .. n
  <2>1. t - 1 \in 0 .. n /\ g[t - 1] \in Nat
    BY <1>1, <1>5
  <2>2. step[<<t, g[t - 1]>>] = R(t, g[t - 1])
    BY <2>1
  <2>3. QED BY <1>5, <2>2 DEF Follows
<1>7. Equation(g)
  <2>1. g[0] = start
    BY <1>5 DEF Follows
  <2>2. \A t \in 0 .. n : t # 0 => t \in 1 .. n
    BY <1>1
  <2>3. \A t \in 0 .. n : g[t] = IF t = 0 THEN start ELSE R(t, g[t - 1])
    BY <1>6, <2>1, <2>2
  <2>4. QED BY <1>5, <2>3
<1>8. Equation(after)
  <2>1. \E f : Equation(f)
    BY <1>7
  <2>2. QED BY <2>1, Zenon
<1> HIDE DEF after
<1>9. /\ after[0] = start
      /\ \A t \in 1 .. n : after[t] = R(t, after[t - 1])
  <2>1. \A t \in 0 .. n : after[t] = IF t = 0 THEN start ELSE R(t, after[t - 1])
    BY <1>8
  <2>2. 0 \in 0 .. n /\ \A t \in 1 .. n : t \in 0 .. n /\ t # 0
    BY <1>1
  <2>3. QED BY <2>1, <2>2
<1>10. \A t \in 0 .. n : after[t] \in Nat
  <2> DEFINE B == {t \in 0 .. n : after[t] \notin Nat}
  <2>1. SUFFICES ASSUME B # {} PROVE FALSE
    OBVIOUS
  <2>2. PICK t \in B : \A u \in B : t <= u
    BY <1>1, <2>1, B \subseteq Nat, LeastNat
  <2>3. t \in 1 .. n /\ t - 1 \in 0 .. n /\ t - 1 \notin B
    BY <1>1, <1>9, <2>2
  <2>4. after[t - 1] \in Nat
    BY <2>3
  <2>5. after[t] \in Nat
    BY <1>2, <1>9, <2>3, <2>4
  <2>6. QED BY <2>2, <2>5
<1>11. QED BY <1>3, <1>9, <1>10 DEF R, n, start

(* What is known of the first layer.                                       *)
LEMMA FirstKnown ==
  ASSUME TypeInv, Foresight
  PROVE  /\ Known /\ 1 \in Layers /\ Shape(first) /\ LedgerSizes(config, first)
         /\ Foreseen(config, first) /\ layer \in Layers /\ Layers \subseteq Nat
         /\ layer = 1 => plan = first
<1>1. Known /\ layer \in Layers
  BY ChainKnown DEF TypeInv
<1>2. 1 \in Layers /\ Layers \subseteq Nat
  BY <1>1 DEF Known, Layers
<1>3. Shape(first)
  BY <1>1, <1>2 DEF Known, first
<1>4. Foreseen(config, first)
  BY DEF TypeInv, Foresight, first
<1>5. QED BY <1>1, <1>2, <1>3, <1>4, LedgerNumbers DEF plan, first

(* A segment that leaves the first layer's state and inputs alone.         *)
LEMMA ForecastOnward ==
  ASSUME Forecast, UNCHANGED <<config, plans, token, layer>>,
         state'[1] = state[1], fifo'[1] = fifo[1], Updated(1)' = Updated(1),
         layer = 1 => FirstLayer'
  PROVE  Forecast'
  BY DEF Forecast, InputsForeseen, StateForeseen, Covered, first

(* The residual's inverse: the ledger's updates, less one level.           *)
LEMMA BlockNormForecast ==
  ASSUME TypeInv, Foresight, Forecast, BlockNorm
  PROVE  Forecast'
<1> DEFINE h == maybe_bootstrap(ct.hidden, req_residual(config, plan), "residual")
           v == h.at + 1 + NormExtra(config)
           inverse == block_inverse(v, plan.rms)
<1>1. /\ Segment("block_norm", "in_proj", {h, inverse})
      /\ ct' = [ct EXCEPT !.hidden = h.at, !.inverse = inverse.at]
      /\ UNCHANGED <<token, layer, state, fifo>>
  BY DEF BlockNorm
<1>2. /\ segment = "block_norm" /\ segment' = "in_proj" /\ config' = config /\ plans' = plans
      /\ ct \in Cyphers /\ ct.hidden \in Levels
  BY <1>1 DEF Segment, TypeInv, Cyphers
<1>3. ASSUME layer = 1 PROVE FirstLayer'
  <2>1. /\ Known /\ Shape(first) /\ LedgerSizes(config, first) /\ plan = first
    BY <1>3, FirstKnown
  <2>2. ct.hidden = Fresh /\ Reloads(state[1])
    BY <1>2, <1>3 DEF Forecast, FirstLayer, Branches
  <2>3. req_residual(config, plan) \in Int
    <3>1. plan.rms.kind = "newton" => plan.rms.depth \in Nat /\ plan.rms.iterations \in Nat
      BY <2>1 DEF Shape, Counts
    <3>2. QED BY <2>1, <3>1, Numbers DEF req_residual, kScheduledNormInputRequirement, Shape
  <2>4. h \in Stretches /\ h.at \in Levels /\ h.at <= Fresh
    BY <1>2, <2>1, <2>2, <2>3, Settles
  <2>5. h.at = Fresh
    BY <2>4 DEF Levels, Fresh
  <2> HIDE DEF h
  <2>6. v = NormExtra(config) /\ NormExtra(config) \in {0, 1}
    BY <2>5 DEF Fresh, NormExtra, If
  <2> HIDE DEF v
  <2>7. inverse.at < inv1(config, first)
    <3>1. CASE plan.rms.kind = "schedule"
      <4> DEFINE n == plan.rms.iterations
      <4>1. n \in Nat
        BY <2>1, <3>1 DEF Shape, Counts
      <4>2. /\ v + 1 \in Levels /\ v + 1 + 4 \in Levels /\ v + 1 + 1 \in Levels
        BY <2>6 DEF Levels, Fresh
      <4>3. /\ Through(v + 1 + 4) \in Stretches /\ Through(v + 1 + 4).at = v + 1 + 4
        BY <2>1, <4>2, ThroughSound
      <4>4. inverse = Iterated(Through(v + 1 + 4), v + 1 + 1, n, 5, "scheduled_norm")
        BY <3>1 DEF block_inverse, scheduled_inverse
      <4> HIDE DEF n, inverse
      <4>5. inverse.at \in Levels /\ inverse.at <= Two(v + 1 + 1, v + 1 + 4) + 2 * n
        BY <2>1, <4>1, <4>2, <4>3, <4>4, IterationRises
      <4>6. inv1(config, first) = NormExtra(config) + (6 + 2 * n)
        BY <2>1, <3>1 DEF inv1, n
      <4>7. QED BY <2>6, <4>1, <4>5, <4>6 DEF Two, Levels
    <3>2. CASE plan.rms.kind = "newton"
      <4> DEFINE n == plan.rms.iterations
                 d == plan.rms.depth
      <4>1. n \in Nat /\ d \in Nat
        BY <2>1, <3>2 DEF Shape, Counts
      <4>2. v + 1 \in Levels /\ v + 1 + d \in Levels
        BY <2>6, <4>1 DEF Levels, Fresh
      <4>3. Through(v + 1 + d) \in Stretches /\ Through(v + 1 + d).at = v + 1 + d
        BY <2>1, <4>2, ThroughSound
      <4>4. inverse = Iterated(Through(v + 1 + d), v + 1, n, 2, "newton")
        BY <3>2 DEF block_inverse, newton_refine
      <4>5. inv1(config, first) = NormExtra(config) + (2 + d + 2 * n)
        BY <2>1, <3>2 DEF inv1
      <4> HIDE DEF n, d, inverse
      <4>6. inverse.at \in Levels /\ inverse.at <= Two(v + 1, v + 1 + d) + 2 * n
        BY <2>1, <4>1, <4>2, <4>3, <4>4, IterationRises
      <4>7. QED BY <2>6, <4>1, <4>5, <4>6 DEF Two, Levels
    <3>3. QED BY <2>1, <3>1, <3>2 DEF Shape
  <2>8. ct'.hidden = Fresh /\ ct'.inverse = inverse.at
    BY <1>1, <1>2, <2>5 DEF Cyphers
  <2>9. inv1(config, first)' = inv1(config, first)
    BY <1>2 DEF first
  <2>10. Reloads(state[1])'
    BY <1>1, <1>2, <2>2 DEF Reloads
  <2> HIDE DEF inverse
  <2>11. QED BY <1>2, <2>7, <2>8, <2>9, <2>10 DEF FirstLayer
<1>4. Updated(1)' = Updated(1)
  BY <1>1, <1>2 DEF Updated
<1>5. QED BY <1>1, <1>2, <1>3, <1>4, ForecastOnward

(* A projection one product after the inverse.                             *)
LEMMA InProjForecast ==
  ASSUME TypeInv, Foresight, Forecast, InProj
  PROVE  Forecast'
<1> DEFINE product == Times(DroppedTo(ct.hidden, ct.inverse, 1) + 1, ct.inverse)
           proj == maybe_bootstrap(product, req_proj(config, plan), "proj")
<1>1. /\ Segment("in_proj", "conv", {Through(product), proj})
      /\ ct' = [ct EXCEPT !.proj = proj.at]
      /\ UNCHANGED <<token, layer, state, fifo>>
  BY DEF InProj
<1>2. /\ segment = "in_proj" /\ segment' = "conv" /\ config' = config /\ plans' = plans
      /\ ct \in Cyphers /\ ct.hidden \in Levels /\ ct.inverse \in Levels
  BY <1>1 DEF Segment, TypeInv, Cyphers
<1>3. ASSUME layer = 1 PROVE FirstLayer'
  <2>1. /\ Known /\ Shape(first) /\ LedgerSizes(config, first) /\ plan = first
    BY <1>3, FirstKnown
  <2>2. ct.hidden = Fresh /\ ct.inverse < inv1(config, first) /\ Reloads(state[1])
    BY <1>2, <1>3 DEF Forecast, FirstLayer, Branches
  <2>3. product = Two(0, ct.inverse) + 1 /\ product \in Levels
    BY <1>2, <2>2 DEF DroppedTo, Times, Two, Levels, Fresh
  <2>4. req_proj(config, plan) \in Int
    BY <2>1, Numbers DEF req_proj, Two, DtTail
  <2> HIDE DEF product
  <2>5. proj.at \in Levels /\ proj.at <= product
    BY <2>1, <2>3, <2>4, Settles
  <2>6. /\ inv1(config, first) \in Nat /\ inv1(config, first) >= 2
        /\ proj_level(config, first) = inv1(config, first) + 1
    BY <2>1 DEF LedgerSizes
  <2> HIDE DEF proj
  <2>7. proj.at < proj_level(config, first)
    BY <1>2, <2>2, <2>3, <2>5, <2>6 DEF Two, Levels
  <2>8. ct'.hidden = Fresh /\ ct'.proj = proj.at
    BY <1>1, <1>2, <2>2 DEF Cyphers
  <2>9. proj_level(config, first)' = proj_level(config, first)
    BY <1>2 DEF first
  <2>10. Reloads(state[1])'
    BY <1>1, <1>2, <2>2 DEF Reloads
  <2>11. QED BY <1>2, <2>7, <2>8, <2>9, <2>10 DEF FirstLayer
<1>4. Updated(1)' = Updated(1)
  BY <1>1, <1>2 DEF Updated
<1>5. QED BY <1>1, <1>2, <1>3, <1>4, ForecastOnward

(* No input of the convolution is deeper than a projection.                *)
LEMMA ConvForecast ==
  ASSUME TypeInv, Foresight, Forecast, Conv
  PROVE  Forecast'
<1> DEFINE kept == LastTaps(fifo[layer], ct.proj)
           F == req_fifo(config, plan)
           inputs == [k \in DOMAIN kept |-> maybe_bootstrap(kept[k], F, "fifo")]
           levels == {inputs[k].at : k \in DOMAIN inputs}
           u == Max(levels) + 1
           conv == maybe_bootstrap(u + plan.conv, req_conv(config, plan), "conv_silu")
           flows == {inputs[k] : k \in DOMAIN inputs} \cup {Through(u + plan.conv), conv}
           queue == [k \in DOMAIN inputs |-> inputs[k].at]
<1>1. /\ Segment("conv", "gates", flows)
      /\ fifo' = [fifo EXCEPT ![layer] = queue]
      /\ ct' = [ct EXCEPT !.conv = conv.at]
      /\ UNCHANGED <<token, layer, state>>
  BY Zenon DEF Conv, LastTaps
<1>2. /\ segment = "conv" /\ segment' = "gates" /\ config' = config /\ plans' = plans
      /\ ct \in Cyphers /\ ct.hidden \in Levels /\ ct.proj \in Levels
      /\ fifo \in [Layers -> Seq(Levels)]
  BY <1>1 DEF Segment, TypeInv, Cyphers
<1>3. /\ Known /\ Shape(first) /\ LedgerSizes(config, first) /\ 1 \in Layers
      /\ layer \in Layers /\ layer = 1 => plan = first
  BY FirstKnown
<1>4. ASSUME layer = 1
      PROVE  /\ InputsForeseen(queue) /\ conv.at < xconv(config, first)
             /\ ct.hidden = Fresh /\ ct.proj < proj_level(config, first) /\ Reloads(state[1])
  <2> DEFINE b == proj_level(config, first) - 1
  <2>1. /\ plan = first /\ fifo[1] \in Seq(Levels) /\ Taps \in Nat \ {0}
        /\ F \in Int /\ req_conv(config, plan) \in Int
    <3>1. plan = first /\ fifo[1] \in Seq(Levels) /\ Taps \in Nat \ {0}
      BY <1>2, <1>3, <1>4 DEF Known
    <3>2. F \in Int /\ req_conv(config, plan) \in Int
      BY <1>3, <3>1, Numbers DEF req_fifo, req_conv
    <3>3. QED BY <3>1, <3>2
  <2>2. /\ proj_level(config, first) \in Nat /\ b \in Nat
        /\ xconv(config, first) = b + 2 + first.conv /\ first.conv \in Nat
    BY <1>3 DEF LedgerSizes, Shape
  <2>3. /\ ct.hidden = Fresh /\ ct.proj < proj_level(config, first) /\ Reloads(state[1])
        /\ InputsForeseen(fifo[1])
    BY <1>2, <1>4 DEF Forecast, FirstLayer, Branches
  <2>4. ct.proj <= b /\ \A k \in DOMAIN fifo[1] : fifo[1][k] <= b
    <3>1. \A k \in DOMAIN fifo[1] : fifo[1][k] \in Levels
      BY <2>1
    <3>2. QED BY <1>2, <2>2, <2>3, <3>1 DEF InputsForeseen, Levels
  <2> HIDE DEF b
  <2>5. /\ kept \in Seq(Levels) /\ Len(kept) \in Nat \ {0}
        /\ \A k \in DOMAIN kept : kept[k] <= b
    BY <1>2, <1>4, <2>1, <2>2, <2>4, ConvInputs
  <2> HIDE DEF kept, F
  <2>6. \A k \in DOMAIN kept : inputs[k].at \in Levels /\ inputs[k].at <= b
    <3> TAKE k \in DOMAIN kept
    <3> DEFINE s == maybe_bootstrap(kept[k], F, "fifo")
    <3>1. kept[k] \in Levels /\ kept[k] <= b
      BY <2>5
    <3>2. s.at \in Levels /\ s.at <= kept[k]
      BY <1>3, <2>1, <3>1, Settles
    <3> HIDE DEF s
    <3>3. s.at <= b
      BY <2>2, <3>1, <3>2 DEF Levels
    <3>4. QED BY <3>2, <3>3 DEF s
  <2>7. DOMAIN inputs = DOMAIN kept
    OBVIOUS
  <2> HIDE DEF inputs
  <2>8. levels \subseteq Levels /\ levels # {} /\ \A l \in levels : l <= b
    <3>1. 1 \in DOMAIN inputs
      BY <2>5, <2>7
    <3>2. QED BY <2>6, <2>7, <3>1
  <2> HIDE DEF levels
  <2>9. Max(levels) \in Levels /\ Max(levels) <= b
    BY <2>2, <2>8, DeepestLevel
  <2>10. u + plan.conv \in Levels /\ u + plan.conv <= b + 1 + plan.conv
    BY <2>1, <2>2, <2>9, SMTT(20) DEF Levels, Fresh
  <2> HIDE DEF u
  <2>11. conv.at \in Levels /\ conv.at <= u + plan.conv
    BY <1>3, <2>1, <2>10, Settles
  <2> HIDE DEF conv
  <2>12. conv.at < xconv(config, first)
    BY <2>1, <2>2, <2>10, <2>11 DEF Levels
  <2>13. \A k \in DOMAIN queue : queue[k] < proj_level(config, first)
    BY <2>2, <2>6, <2>7 DEF Levels, b
  <2> HIDE DEF queue
  <2>14. QED BY <2>3, <2>12, <2>13 DEF InputsForeseen
<1> HIDE DEF conv, queue, flows
<1>5. layer = 1 => FirstLayer'
  <2> HAVE layer = 1
  <2>1. ct'.hidden = Fresh /\ ct'.proj < proj_level(config, first) /\ ct'.conv < xconv(config, first)
    BY <1>1, <1>2, <1>4 DEF Cyphers
  <2>2. /\ proj_level(config, first)' = proj_level(config, first)
        /\ xconv(config, first)' = xconv(config, first)
    BY <1>2 DEF first
  <2>3. Reloads(state[1])'
    BY <1>1, <1>2, <1>4 DEF Reloads
  <2>4. QED BY <1>2, <2>1, <2>2, <2>3 DEF FirstLayer
<1>6. InputsForeseen(fifo[1])'
  <2>1. fifo'[1] = IF layer = 1 THEN queue ELSE fifo[1]
    BY <1>1, <1>2, <1>3
  <2>2. InputsForeseen(fifo'[1])
    BY <1>4, <2>1 DEF Forecast
  <2>3. QED BY <1>2, <2>2 DEF InputsForeseen, first
<1>7. StateForeseen(state[1], Updated(1))'
  <2>1. Updated(1)' = Updated(1)
    BY <1>1, <1>2 DEF Updated
  <2>2. StateForeseen(state[1], Updated(1))
    BY DEF Forecast
  <2>3. QED BY <1>1, <1>2, <2>1, <2>2 DEF StateForeseen, Covered, first
<1>8. layer' = layer
  BY <1>1
<1>9. QED BY <1>5, <1>6, <1>7, <1>8 DEF Forecast

(* The step size has a level to spare, two from joint roots.               *)
LEMMA GatesForecast ==
  ASSUME TypeInv, Foresight, Forecast, Gates
  PROVE  Forecast'
<1> DEFINE gate == ct.proj + 1 + plan.gate
           dissipation == ct.proj + 1 + plan.roots + 1
           step == IF Joint(plan) THEN dissipation + 1 ELSE ct.proj + 1 + plan.dt + 1
           dt == maybe_bootstrap(step, req_dt(config, plan), "dt")
           before == IF Joint(plan) THEN Through(dissipation + 1) ELSE Decay(dt.at)
           last == maybe_bootstrap(before.at, req_decay(config, plan), "decay")
           decay == Then(before, last)
           flows == {Through(gate), Through(step), dt} \cup {f \in {decay} : HasState}
<1>1. /\ Segment("gates", "state", flows)
      /\ ct' = [ct EXCEPT !.gate = gate, !.dt = dt.at, !.decay = decay.at]
      /\ UNCHANGED <<token, layer, state, fifo>>
  BY DEF Gates
<1>2. /\ segment = "gates" /\ segment' = "state" /\ config' = config /\ plans' = plans
      /\ ct \in Cyphers /\ ct.hidden \in Levels /\ ct.proj \in Levels /\ ct.conv \in Levels
  BY <1>1 DEF Segment, TypeInv, Cyphers
<1>3. ASSUME layer = 1 PROVE FirstLayer'
  <2>1. /\ Known /\ Shape(plan) /\ LedgerSizes(config, first) /\ plan = first
        /\ first.joint => first.roots < first.dt
    BY <1>3, FirstKnown DEF Foreseen
  <2>2. /\ ct.hidden = Fresh /\ ct.proj < proj_level(config, first)
        /\ ct.conv < xconv(config, first) /\ Reloads(state[1])
    BY <1>2, <1>3 DEF Forecast, FirstLayer, Branches
  <2>3. /\ first.gate \in Nat /\ first.dt \in Nat /\ first.roots \in Nat /\ first.exp \in Nat
        /\ first.squarings \in Nat /\ first.joint \in BOOLEAN
    BY <2>1 DEF Shape
  <2>4. /\ proj_level(config, first) \in Nat /\ decay_lvl(config, first) \in Nat
        /\ dt_lvl(config, first) = proj_level(config, first) + 2 + first.dt + If(first.joint)
        /\ first.joint => /\ If(first.joint) = 1
                          /\ decay_lvl(config, first) = dt_lvl(config, first)
        /\ ~first.joint => /\ If(first.joint) = 0
                           /\ decay_lvl(config, first)
                                = dt_lvl(config, first) + 1 + first.exp + first.squarings
    <3>1. proj_level(config, first) \in Nat /\ decay_lvl(config, first) \in Nat
      BY <2>1 DEF LedgerSizes
    <3>2. QED BY <2>1, <3>1 DEF LedgerSizes
  <2>5. gate < proj_level(config, first) + 1 + first.gate
    BY <1>2, <2>1, <2>2, <2>3, <2>4 DEF Levels
  <2>6. step \in Levels /\ step < dt_lvl(config, first) - If(first.joint)
    BY <1>2, <2>1, <2>2, <2>3, <2>4 DEF Joint, Levels, Fresh
  <2>7. req_dt(config, plan) \in Int
    BY <2>1, Numbers DEF req_dt, kJointWriteTailRequirement
  <2>8. first.joint => dissipation + 1 = step /\ dissipation + 1 \in Levels
    BY <2>1, <2>6 DEF Joint
  <2> HIDE DEF step, dissipation, gate
  <2>9. dt \in Stretches /\ dt.at \in Levels /\ dt.at <= step
    BY <2>1, <2>6, <2>7, Settles
  <2> HIDE DEF dt
  <2>10. /\ before \in Stretches /\ before.at \in Levels
         /\ before.at < decay_lvl(config, first)
    <3>1. CASE first.joint
      <4>1. before = Through(dissipation + 1)
        BY <2>1, <3>1 DEF Joint
      <4>2. before \in Stretches /\ before.at = step
        BY <2>1, <2>8, <3>1, <4>1, ThroughSound
      <4>3. If(first.joint) = 1 /\ decay_lvl(config, first) = dt_lvl(config, first)
        BY <2>4, <3>1
      <4>4. step \in Levels /\ step < decay_lvl(config, first)
        BY <2>3, <2>4, <2>6, <4>3 DEF Levels
      <4> HIDE DEF before
      <4>5. QED BY <4>2, <4>4
    <3>2. CASE ~first.joint
      <4>1. before = Decay(dt.at)
        BY <2>1, <3>2 DEF Joint
      <4>2. /\ Decay(dt.at) \in Stretches /\ Decay(dt.at).at \in Levels
            /\ Decay(dt.at).at <= dt.at + 1 + plan.exp + plan.squarings
        BY <2>1, <2>9, DecayRises
      <4>3. dt.at < dt_lvl(config, first) /\ dt_lvl(config, first) \in Int
        BY <2>3, <2>4, <2>6, <2>9, <3>2 DEF Levels
      <4> HIDE DEF before
      <4>4. before.at < decay_lvl(config, first)
        BY <2>1, <2>3, <2>4, <2>9, <3>2, <4>1, <4>2, <4>3 DEF Levels
      <4>5. QED BY <4>1, <4>2, <4>4
    <3>3. QED BY <3>1, <3>2
  <2> HIDE DEF before
  <2>11. last \in Stretches /\ last.at \in Levels /\ last.at <= before.at
    BY <2>1, <2>10, Settles DEF req_decay
  <2> HIDE DEF last
  <2>12. decay.at = last.at
    BY DEF Then
  <2> HIDE DEF decay
  <2>13. /\ decay.at < decay_lvl(config, first)
         /\ dt.at < dt_lvl(config, first) - If(first.joint)
    <3>1. dt_lvl(config, first) - If(first.joint) \in Int
      BY <2>3, <2>4
    <3>2. QED BY <2>4, <2>6, <2>9, <2>10, <2>11, <2>12, <3>1 DEF Levels
  <2>14. /\ ct'.hidden = Fresh /\ ct'.conv = ct.conv /\ ct'.gate = gate /\ ct'.dt = dt.at
         /\ ct'.decay = decay.at
    BY <1>1, <1>2, <2>2 DEF Cyphers
  <2>15. first' = first
    BY <1>2 DEF first
  <2>16. Reloads(state[1])'
    BY <1>1, <1>2, <2>2 DEF Reloads
  <2>17. QED BY <1>2, <2>2, <2>5, <2>13, <2>14, <2>15, <2>16 DEF FirstLayer
<1>4. Updated(1)' = Updated(1)
  BY <1>1, <1>2 DEF Updated
<1>5. QED BY <1>1, <1>2, <1>3, <1>4, ForecastOnward

(* The update, and the ledger's state whatever it was a token earlier.     *)
Floor == decay_lvl(config, first) + HeadExtra(config) + 2
LEMMA UpdateForeseen ==
  ASSUME Known, Shape(first), LedgerSizes(config, first), NEW conv \in Levels, NEW dt \in Levels,
         conv < xconv(config, first), dt < dt_lvl(config, first) - If(first.joint)
  PROVE  LET update == Times(Times(conv + 1, PlacedHead(dt)), PlacedBlocks(conv))
         IN  /\ update \in Levels /\ update < update_level(config, first)
             /\ Deep(config, first) => update + GuessExtra(first) <= Floor
             /\ PlacedBlocks(conv) \in Levels /\ PlacedBlocks(conv) < bc_exp(config, first)
<1> DEFINE update == Times(Times(conv + 1, PlacedHead(dt)), PlacedBlocks(conv))
           e == GuessExtra(first)           hx == HeadExtra(config)
           xc == xconv(config, first)       bc == bc_exp(config, first)
           d == dt_lvl(config, first)       a == decay_lvl(config, first)
           r == If(config.replicated)       pb == PlacedBlocks(conv)
<1>1. /\ e \in {0, 1} /\ hx \in {0, 1} /\ r \in {0, 1} /\ bc = xc + 1 + r
      /\ update_level(config, first) = Two(Two(xc + 1, d + 1 + hx) + 1, bc) + 1
  BY DEF LedgerSizes
<1>2. xc \in Nat /\ d \in Nat /\ a \in Nat
  BY DEF LedgerSizes
<1>3. dt <= d - 1 /\ dt <= a - 2
  <2>1. CASE first.joint
    <3>1. If(first.joint) = 1 /\ a = d
      BY <2>1 DEF LedgerSizes
    <3> HIDE DEF a, d
    <3>2. dt < d - 1
      BY <3>1 DEF d
    <3>3. QED BY <1>2, <3>1, <3>2 DEF Levels
  <2>2. CASE ~first.joint
    <3>1. If(first.joint) = 0 /\ a = d + 1 + first.exp + first.squarings
      BY <2>2 DEF LedgerSizes
    <3>2. first.exp \in Nat /\ first.squarings \in Nat
      BY DEF Shape
    <3> HIDE DEF a, d
    <3>3. dt < d - 0
      BY <3>1 DEF d
    <3>4. QED BY <1>2, <3>1, <3>2, <3>3 DEF Levels
  <2>3. QED BY <2>1, <2>2
<1>4. pb = conv + 1 + r
  BY <1>1 DEF PlacedBlocks, If, Levels
<1>5. update = Two(Two(conv + 1, dt + 1 + hx) + 1, pb) + 1
  BY DEF Times, PlacedHead
<1>6. Deep(config, first) => xc + e <= a + hx
  BY DEF Deep
<1>7. conv \in Int /\ conv >= -1 /\ dt \in Int /\ dt >= -1 /\ conv <= xc - 1
  BY <1>2 DEF Levels, Fresh
<1>8. Floor = a + hx + 2
  BY DEF Floor
<1> HIDE DEF update, e, hx, xc, bc, d, a, r, pb
<1>9. /\ pb \in Int /\ pb >= -1 /\ pb < bc
      /\ update \in Int /\ update >= -1
  BY <1>1, <1>2, <1>4, <1>5, <1>7 DEF Two
<1>10. \/ update = conv + 3 \/ update = dt + hx + 3 \/ update = conv + r + 2
  BY <1>1, <1>2, <1>4, <1>5, <1>7 DEF Two
<1>11. update < update_level(config, first)
  BY <1>1, <1>2, <1>3, <1>7, <1>10 DEF Two
<1>12. Deep(config, first) => update + e <= Floor
  BY <1>1, <1>2, <1>3, <1>6, <1>7, <1>8, <1>10
<1>13. QED BY <1>9, <1>11, <1>12 DEF update, e, bc, pb, Levels, Fresh

(* The state a token later: covered if it was.                             *)
LEMMA StateRises ==
  ASSUME Known, Shape(first), plan = first, LedgerSizes(config, first),
         Foreseen(config, first),
         NEW update \in Levels, update < update_level(config, first),
         Deep(config, first) => update + GuessExtra(first) <= Floor,
         NEW decay \in Levels, decay < decay_lvl(config, first),
         token \in Nat, token < config.tokens,
         NEW s \in Levels \cup {NoState}, Reloads(s),
         s # NoState => token # 0 /\ StateForeseen(s, token - 1),
         s = NoState => token = 0
  PROVE  LET new == NewState(s, update, decay)
             kept == maybe_bootstrap(new.at,
                       IF s # NoState /\ Requested(config, token) THEN config.depth
                       ELSE req_state_tail(config, plan), "state")
         IN  kept.at \in Levels /\ StateForeseen(kept.at, token)
<1> DEFINE new == NewState(s, update, decay)
           due == s # NoState /\ Requested(config, token)
           requirement == IF due THEN config.depth ELSE req_state_tail(config, plan)
           kept == maybe_bootstrap(new.at, requirement, "state")
           old == maybe_bootstrap(s, req_state_pre(config, plan), "state")
           f == state_levels(config, first)
           e == GuessExtra(first)
           before == EstimateBefore(config, token, f[token - 1])
<1>1. /\ e \in {0, 1} /\ HeadExtra(config) \in {0, 1} /\ config.depth \in Nat
      /\ decay_lvl(config, first) \in Nat /\ update_level(config, first) \in Nat
      /\ Floor \in Nat /\ req_state_pre(config, plan) \in Int /\ requirement \in Int
  <2>1. /\ e \in {0, 1} /\ HeadExtra(config) \in {0, 1} /\ config.depth \in Nat
    BY DEF LedgerSizes, Known, Sizes
  <2>2. decay_lvl(config, first) \in Nat /\ update_level(config, first) \in Nat
    BY DEF LedgerSizes
  <2>3. QED BY <2>1, <2>2 DEF Floor, req_state_pre, req_state_tail
<1>2. /\ f[0] = update_level(config, first)
      /\ \A t \in 0 .. config.tokens - 1 : f[t] \in Nat
      /\ \A t \in 1 .. config.tokens - 1 : f[t] = EstimateNext(config, first, t, f[t - 1])
  BY StateLevels
<1>3. token \in 0 .. config.tokens - 1 /\ config.tokens \in Nat
  BY DEF Known, Sizes
<1> HIDE DEF f, requirement
<1>4. CASE s = NoState
  <2>1. new.at = update
    BY <1>4 DEF NewState, Through
  <2> HIDE DEF new
  <2>2. kept.at \in Levels /\ kept.at <= update
    BY <1>1, <2>1, Settles
  <2> HIDE DEF kept
  <2>3. f[token] = update_level(config, first)
    BY <1>2, <1>4
  <2>4. kept.at + e <= f[token]
    BY <1>1, <2>2, <2>3 DEF Levels
  <2>5. update_level(config, first) <= f[token]
    BY <1>1, <2>3
  <2>6. QED BY <2>2, <2>4, <2>5 DEF StateForeseen, Covered, f, kept, new, requirement
<1>5. CASE s # NoState
  <2>1. /\ s \in Levels /\ token # 0 /\ token - 1 \in 0 .. config.tokens - 1
        /\ token \in 1 .. config.tokens - 1 /\ f[token] = EstimateNext(config, first, token, f[token - 1])
    BY <1>2, <1>3, <1>5
  <2>2. /\ Covered(s, token - 1)
        /\ NoRequest(config) => update_level(config, first) <= f[token - 1]
    BY <1>5 DEF StateForeseen, f
  <2>3. f[token - 1] \in Nat /\ f[token] \in Nat /\ before \in Nat
    BY <1>2, <1>3, <2>1, EstimateSizes
  <2>4. old.at \in Levels /\ old \in Stretches /\ old.at <= s
    BY <1>1, <2>1, Settles
  <2> DEFINE l == Two(update, Times(PlacedHead(decay), old.at))
  <2>5. new = Product(old, l)
    BY <1>5 DEF NewState
  <2> HIDE DEF old, new
  <2>6. /\ l \in Levels
        /\ l = update \/ l = decay + 2 + HeadExtra(config) \/ l = old.at + 1
    BY <1>1, <2>4 DEF Two, Times, PlacedHead, Levels, Fresh
  <2> HIDE DEF l
  <2>7. new.at = l
    BY <2>4, <2>5, <2>6, ProductSound
  <2>8. kept.at \in Levels /\ kept.at <= l
    BY <1>1, <2>6, <2>7, Settles
  <2>9. CASE due
    <3>1. Deep(config, first)
      BY <2>9 DEF Foreseen, NoRequest, Requested, Known, Sizes
    <3>2. requirement = config.depth
      BY <2>9 DEF requirement
    <3>3. Checked(kept, new.at, requirement, "state")
      BY <1>1, <2>6, <2>7, Checkpoint
    <3>4. If(should_use_meta_bts("state")) \in Nat /\ headroom("state") \in Nat
      BY DEF If, headroom, Known, Sizes
    <3> HIDE DEF kept
    <3>5. kept.at <= 25
      BY <1>1, <2>8, <3>2, <3>3, <3>4 DEF Checked, Levels
    <3>6. ~NoRequest(config)
      BY <2>9 DEF NoRequest, Requested, Known, Sizes
    <3>7. QED BY <2>8, <3>1, <3>5, <3>6 DEF StateForeseen, Covered, kept, new, requirement
  <2>10. CASE ~due
    <3>1. ~EstimateRefreshes(config, token)
      BY <1>5, <2>10 DEF EstimateRefreshes, Requested
    <3>2. f[token] = Two(decay_lvl(config, first) + 1 + HeadExtra(config), before) + 1
      BY <2>1, <2>3, <3>1, EstimateSizes
    <3>3. f[token] >= Floor /\ f[token] >= before + 1
      BY <1>1, <2>3, <3>2 DEF Two, Floor
    <3>4. NoRequest(config) => /\ before = f[token - 1]
                               /\ update_level(config, first) <= f[token]
      BY <1>1, <2>2, <2>3, <3>3 DEF NoRequest, EstimateBefore
    <3>5. update + e <= f[token]
      <4>1. CASE NoRequest(config)
        BY <1>1, <2>3, <3>4, <4>1 DEF Levels
      <4>2. CASE Deep(config, first)
        BY <1>1, <2>3, <3>3, <4>2 DEF Levels
      <4>3. QED BY <4>1, <4>2 DEF Foreseen
    <3>6. decay + 2 + HeadExtra(config) + e <= f[token]
      BY <1>1, <2>3, <3>3 DEF Floor, Levels
    <3>7. old.at + 1 + e <= f[token]
      <4>1. Deep(config, first) /\ s <= 25 => s + 1 + e <= Floor
        <5>1. Deep(config, first) => decay_lvl(config, first) + HeadExtra(config) >= 24 + e
          BY DEF Deep
        <5>2. QED BY <1>1, <2>1, <5>1 DEF Floor, Levels
      <4>2. CASE token \in config.reencrypt_before \cup config.bootstrap_before
        <5>1. s <= 25
          BY <1>5, <4>2 DEF Reloads
        <5>2. Deep(config, first)
          BY <4>2 DEF Foreseen, NoRequest
        <5>3. QED BY <1>1, <2>1, <2>3, <2>4, <3>3, <4>1, <5>1, <5>2 DEF Levels
      <4>3. CASE token \notin config.reencrypt_before \cup config.bootstrap_before
        <5>1. before = f[token - 1]
          BY <4>3 DEF EstimateBefore
        <5>2. s + e <= f[token - 1] \/ (Deep(config, first) /\ s <= 25)
          BY <2>2 DEF Covered, f
        <5>3. QED BY <1>1, <2>1, <2>3, <2>4, <3>3, <4>1, <5>1, <5>2 DEF Levels
      <4>4. QED BY <4>2, <4>3
    <3>8. l + e <= f[token]
      BY <2>6, <3>5, <3>6, <3>7
    <3> HIDE DEF kept
    <3>9. kept.at + e <= f[token]
      BY <1>1, <2>3, <2>6, <2>8, <3>8 DEF Levels
    <3>10. QED BY <2>8, <3>4, <3>9 DEF StateForeseen, Covered, f, kept, new, requirement
  <2>11. QED BY <2>9, <2>10
<1>6. QED BY <1>4, <1>5

(* The state and the gated output after the update.                        *)
LEMMA StateForecast ==
  ASSUME TypeInv, Carries, Foresight, Forecast, StateUpdate
  PROVE  Forecast'
<1> DEFINE update == Times(Times(ct.conv + 1, PlacedHead(ct.dt)), PlacedBlocks(ct.conv))
           s == state[layer]
           new == NewState(s, update, ct.decay)
           requirement == IF s # NoState /\ Requested(config, token) THEN config.depth
                          ELSE req_state_tail(config, plan)
           kept == maybe_bootstrap(new.at, requirement, "state")
           readout == Two(kept.at, PlacedBlocks(ct.conv)) + 2
           product == Times(Two(readout, ct.conv + 1), ct.gate)
           y == maybe_bootstrap(product, req_y(config, plan), "y")
           flows == {Through(update), new, kept, Through(product), y}
<1>1. /\ Segment("state", "gated_norm", flows)
      /\ state' = [state EXCEPT ![layer] = kept.at]
      /\ ct' = [ct EXCEPT !.y = y.at]
      /\ UNCHANGED <<token, layer, fifo>>
  BY DEF StateUpdate, NewState, HasState, RefreshDue, Requested
<1>2. /\ segment = "state" /\ segment' = "gated_norm" /\ config' = config /\ plans' = plans
      /\ ct \in Cyphers /\ ct.hidden \in Levels /\ ct.conv \in Levels /\ ct.dt \in Levels
      /\ ct.decay \in Levels /\ ct.gate \in Levels
      /\ state \in [Layers -> Levels \cup {NoState}]
      /\ token \in Nat /\ token < config.tokens
  BY <1>1 DEF Segment, TypeInv, Cyphers
<1>3. /\ Known /\ Shape(first) /\ LedgerSizes(config, first) /\ 1 \in Layers
      /\ layer \in Layers /\ Layers \subseteq Nat /\ (layer = 1 => plan = first)
      /\ Foreseen(config, first)
  BY FirstKnown
<1>4. ASSUME layer = 1
      PROVE  /\ kept.at \in Levels /\ StateForeseen(kept.at, token)
             /\ y.at + GuessExtra(first) <= y_level(config, first, token)
             /\ ct.hidden = Fresh
  <2>1. /\ plan = first /\ s \in Levels \cup {NoState} /\ s = state[1]
    BY <1>2, <1>3, <1>4
  <2>2. /\ ct.hidden = Fresh /\ ct.conv < xconv(config, first)
        /\ ct.gate < proj_level(config, first) + 1 + first.gate
        /\ ct.dt < dt_lvl(config, first) - If(first.joint)
        /\ ct.decay < decay_lvl(config, first) /\ Reloads(s)
    BY <1>2, <1>4 DEF Forecast, FirstLayer, Branches
  <2>3. Updated(1) = token - 1
    BY <1>2, <1>4 DEF Updated
  <2>4. /\ s # NoState => token # 0 /\ StateForeseen(s, token - 1)
        /\ s = NoState => token = 0
    <3>1. /\ s = NoState => token - 1 < 0
          /\ s # NoState => token - 1 \in Nat
      BY <1>3, <2>1, <2>3 DEF Carries
    <3>2. StateForeseen(s, token - 1)
      BY <2>1, <2>3 DEF Forecast
    <3>3. QED BY <1>2, <3>1, <3>2
  <2>5. /\ update \in Levels /\ update < update_level(config, first)
        /\ Deep(config, first) => update + GuessExtra(first) <= Floor
        /\ PlacedBlocks(ct.conv) \in Levels /\ PlacedBlocks(ct.conv) < bc_exp(config, first)
    BY <1>2, <1>3, <2>2, UpdateForeseen
  <2> HIDE DEF update, s
  <2>6. kept.at \in Levels /\ StateForeseen(kept.at, token)
    BY <1>2, <1>3, <2>1, <2>2, <2>4, <2>5, StateRises
  <2> HIDE DEF kept, new, requirement
  <2> DEFINE f == state_levels(config, first)[token]
             e == GuessExtra(first)
             bc == bc_exp(config, first)
             g == proj_level(config, first) + 1 + first.gate
             pb == PlacedBlocks(ct.conv)
  <2>7. /\ e \in {0, 1} /\ bc \in Nat /\ g \in Nat /\ ct.conv + 1 <= bc - 1
        /\ f \in Nat /\ pb <= bc - 1
    <3>1. /\ e \in {0, 1} /\ bc = xconv(config, first) + 1 + If(config.replicated)
          /\ If(config.replicated) \in {0, 1}
      BY <1>3 DEF LedgerSizes
    <3>2. proj_level(config, first) \in Nat /\ xconv(config, first) \in Nat
      BY <1>3 DEF LedgerSizes
    <3>3. f \in Nat
      <4>1. token \in 0 .. config.tokens - 1
        BY <1>2, <1>3 DEF Known, Sizes
      <4>2. QED BY <1>3, <4>1, StateLevels
    <3>4. first.gate \in Nat
      BY <1>3 DEF Shape
    <3> HIDE DEF f, e, bc
    <3>5. bc \in Nat /\ ct.conv + 1 <= bc - 1
      BY <1>2, <2>2, <3>1, <3>2 DEF Levels
    <3>6. pb <= bc - 1
      BY <2>5, <3>5 DEF Levels, bc
    <3>7. QED BY <3>1, <3>2, <3>3, <3>4, <3>5, <3>6
  <2>8. kept.at + e <= f \/ (kept.at <= 25 /\ 25 + e <= bc)
    <3>1. kept.at # NoState
      BY <2>6 DEF Levels, Fresh, NoState
    <3>2. QED BY <2>6, <3>1 DEF StateForeseen, Covered, Deep
  <2>9. y_level(config, first, token) = Two(Two(f, bc) + 2, g) + 1
    BY DEF y_level, Times
  <2>10. ct.gate <= g - 1
    BY <1>2, <2>2, <2>7 DEF Levels
  <2> HIDE DEF f, e, bc, g, pb
  <2>11. product \in Levels /\ product + e <= y_level(config, first, token)
    <3>1. /\ kept.at \in Int /\ kept.at >= -1 /\ pb \in Int /\ pb >= -1
          /\ ct.conv \in Int /\ ct.conv >= -1 /\ ct.gate \in Int /\ ct.gate >= -1
      BY <1>2, <2>5, <2>6 DEF Levels, Fresh, pb
    <3>2. /\ product \in Int /\ product >= -1
          /\ \/ product = kept.at + 3 \/ product = pb + 3
             \/ product = ct.conv + 2 \/ product = ct.gate + 1
      BY <3>1 DEF Two, Times, pb
    <3>3. y_level(config, first, token) >= f + 3 /\ y_level(config, first, token) >= bc + 3
          /\ y_level(config, first, token) >= g + 1 /\ y_level(config, first, token) \in Int
      BY <2>7, <2>9 DEF Two
    <3> HIDE DEF product
    <3>4. product + e <= y_level(config, first, token)
      BY <2>7, <2>8, <2>10, <3>1, <3>2, <3>3
    <3>5. QED BY <3>2, <3>4 DEF Levels, Fresh
  <2> HIDE DEF product
  <2>12. req_y(config, plan) \in Int
    BY <1>3, <2>1, Numbers DEF req_y, kScheduledNormInputRequirement
  <2>13. y.at \in Levels /\ y.at <= product
    BY <1>3, <2>11, <2>12, Settles
  <2> HIDE DEF y
  <2>14. y_level(config, first, token) \in Int
    BY <2>7, <2>9 DEF Two
  <2>15. y.at + e <= y_level(config, first, token)
    BY <2>7, <2>11, <2>13, <2>14 DEF Levels
  <2>16. QED BY <2>2, <2>6, <2>15 DEF e
<1> HIDE DEF s, new, kept, y, flows, requirement
<1>5. layer = 1 => FirstLayer'
  <2> HAVE layer = 1
  <2>1. ct'.hidden = Fresh /\ ct'.y + GuessExtra(first) <= y_level(config, first, token)
    BY <1>1, <1>2, <1>4 DEF Cyphers
  <2>2. first' = first
    BY <1>2 DEF first
  <2>3. QED BY <1>1, <1>2, <2>1, <2>2 DEF FirstLayer, Branches
<1>6. InputsForeseen(fifo[1])'
  BY <1>1, <1>2 DEF Forecast, InputsForeseen, first
<1>7. StateForeseen(state[1], Updated(1))'
  <2>1. Updated(1)' = token
    BY <1>1, <1>2, <1>3 DEF Updated, Layers
  <2>2. StateForeseen(state'[1], token)
    <3>1. CASE layer = 1
      BY <1>1, <1>2, <1>3, <1>4, <3>1
    <3>2. CASE layer # 1
      <4>1. Updated(1) = token /\ state'[1] = state[1]
        BY <1>1, <1>2, <1>3, <3>2 DEF Updated, Layers
      <4>2. QED BY <4>1 DEF Forecast
    <3>3. QED BY <3>1, <3>2
  <2>3. QED BY <1>2, <2>1, <2>2 DEF StateForeseen, Covered, first
<1>8. layer' = layer
  BY <1>1
<1>9. (layer = 1 => FirstLayer)'
  BY <1>5, <1>8
<1>10. QED BY <1>6, <1>7, <1>9 DEF Forecast

(* The gated norm's inverse: a guess is a product below the ledger's.      *)
LEMMA GatedNormForecast ==
  ASSUME TypeInv, Foresight, Forecast, GatedNorm
  PROVE  Forecast'
<1> DEFINE v == ct.y + 1 + NormExtra(config)
           inverse == gated_inverse(v, plan.gated)
           y == maybe_bootstrap(ct.y, req_out(config, plan), "y_out")
<1>1. /\ Segment("gated_norm", "out_proj", {inverse, y})
      /\ ct' = [ct EXCEPT !.inverse = inverse.at, !.y = y.at]
      /\ UNCHANGED <<token, layer, state, fifo>>
  BY DEF GatedNorm
<1>2. /\ segment = "gated_norm" /\ segment' = "out_proj" /\ config' = config /\ plans' = plans
      /\ ct \in Cyphers /\ ct.hidden \in Levels /\ ct.y \in Levels
  BY <1>1 DEF Segment, TypeInv, Cyphers
<1>3. ASSUME layer = 1 PROVE FirstLayer'
  <2> DEFINE Y == y_level(config, first, token)
             e == GuessExtra(first)
             n == first.gated.iterations
  <2>1. /\ Known /\ Shape(first) /\ LedgerSizes(config, first) /\ plan = first
    BY <1>3, FirstKnown
  <2>2. ct.hidden = Fresh /\ ct.y + e <= Y
    BY <1>2, <1>3 DEF Forecast, FirstLayer
  <2>3. NormExtra(config) \in {0, 1} /\ e \in {0, 1}
    BY <2>1 DEF LedgerSizes
  <2>4. Y \in Int
    <3>1. /\ state_levels(config, first)[token] \in Nat
      <4>1. token \in 0 .. config.tokens - 1
        <5>1. token \in Nat /\ token < config.tokens
          BY <1>2 DEF TypeInv
        <5>2. QED BY <2>1, <5>1 DEF Known, Sizes
      <4>2. QED BY <2>1, <4>1, StateLevels
    <3>2. bc_exp(config, first) \in Nat /\ proj_level(config, first) \in Nat
      BY <2>1 DEF LedgerSizes
    <3>3. first.gate \in Nat
      BY <2>1 DEF Shape
    <3>4. QED BY <3>1, <3>2, <3>3 DEF y_level, Times, Two
  <2> HIDE DEF Y, e
  <2>5. y.at \in Levels /\ y.at <= ct.y
    BY <1>2, <2>1, Settles DEF req_out
  <2> HIDE DEF y
  <2>6. y.at + e <= Y
    BY <1>2, <2>2, <2>3, <2>4, <2>5 DEF Levels
  <2>7. v \in Levels /\ v = ct.y + 1 + NormExtra(config)
    BY <1>2, <2>3 DEF Levels, Fresh
  <2> HIDE DEF v
  <2>8. ASSUME first.gated.kind # "polynomial" PROVE inverse.at <= inv2(config, first, Y)
    <3>1. n \in Nat \ {0}
      BY <2>1 DEF Shape, Counts
    <3>2. CASE first.gated.kind = "schedule"
      <4>1. v + 1 \in Levels /\ v + 1 + 4 \in Levels /\ v + 1 + 1 \in Levels
        BY <2>7 DEF Levels, Fresh
      <4>2. Through(v + 1 + 4) \in Stretches /\ Through(v + 1 + 4).at = v + 1 + 4
        BY <2>1, <4>1, ThroughSound
      <4>3. inverse = Iterated(Through(v + 1 + 4), v + 1 + 1, n, 5, "scheduled_norm")
        BY <2>1, <3>2 DEF gated_inverse, scheduled_inverse
      <4>4. inv2(config, first, Y) = Y + 1 + NormExtra(config) + (5 + 2 * n)
        BY <3>2 DEF inv2
      <4> HIDE DEF inverse, n
      <4>5. inverse.at \in Levels /\ inverse.at <= Two(v + 1 + 1, v + 1 + 4) + 2 * n
        BY <2>1, <3>1, <4>1, <4>2, <4>3, IterationRises
      <4>6. QED BY <1>2, <2>2, <2>3, <2>4, <2>7, <3>1, <4>4, <4>5 DEF Two, Levels
    <3>3. CASE first.gated.kind = "guess"
      <4> DEFINE u == maybe_bootstrap(v + 1, kNewtonSegmentEstimate, "gated_variance")
                 z == newton_refine(u, u.at, n - 1)
      <4>1. v + 1 \in Levels /\ n - 1 \in Nat
        BY <2>7, <3>1 DEF Levels, Fresh
      <4>2. inverse = Product(z, z.at + 1)
        BY <2>1, <3>3 DEF gated_inverse
      <4>3. inv2(config, first, Y) = Y + 1 + NormExtra(config) + (1 + 2 * (n - 1))
        BY <3>3 DEF inv2
      <4> HIDE DEF inverse, n
      <4>4. u \in Stretches /\ u.at \in Levels /\ u.at <= v + 1
        BY <2>1, <4>1, Settles DEF kNewtonSegmentEstimate
      <4> HIDE DEF u
      <4>5. z \in Stretches /\ z.at \in Levels /\ z.at <= Two(u.at, u.at) + 2 * (n - 1)
        BY <2>1, <4>1, <4>4, IterationRises DEF newton_refine
      <4> HIDE DEF z
      <4>6. inverse.at = z.at + 1
        <5>1. z.at + 1 \in Levels
          BY <4>5 DEF Levels, Fresh
        <5>2. QED BY <2>1, <4>2, <4>5, <5>1, ProductSound
      <4>7. z.at <= u.at + 2 * (n - 1)
        BY <4>4, <4>5 DEF Two
      <4>8. e = 1
        BY <3>3 DEF e, GuessExtra, If
      <4>9. QED BY <1>2, <2>2, <2>3, <2>4, <2>7, <4>1, <4>3, <4>4, <4>5, <4>6, <4>7, <4>8 DEF Levels
    <3>4. QED BY <2>1, <2>8, <3>2, <3>3 DEF Shape
  <2> HIDE DEF inverse
  <2>9. ct'.hidden = Fresh /\ ct'.y = y.at /\ ct'.inverse = inverse.at
    BY <1>1, <1>2, <2>2 DEF Cyphers
  <2>10. first' = first /\ config' = config /\ token' = token
    BY <1>1, <1>2 DEF first
  <2>11. QED BY <1>2, <2>6, <2>8, <2>9, <2>10 DEF FirstLayer, Branches, Y, e
<1>4. Updated(1)' = Updated(1)
  BY <1>1, <1>2 DEF Updated
<1>5. QED BY <1>1, <1>2, <1>3, <1>4, ForecastOnward

(* The first layer's output: the forecast, one product on.                 *)
LEMMA OutProjForecast ==
  ASSUME TypeInv, Foresight, Forecast, OutProj
  PROVE  Forecast' /\ LedgerCovers'
<1> DEFINE r == IF config.replicated_out THEN 2 ELSE 1
           out == Times(DroppedTo(ct.y, ct.inverse, r) + r, ct.inverse)
           last == layer = Len(plans)
           h == Two(out, ct.hidden)
<1>1. /\ Segment("out_proj", IF last THEN "output" ELSE "block_norm", {Through(out)})
      /\ ct' = [Blank EXCEPT !.hidden = h]
      /\ layer' = IF last THEN layer ELSE layer + 1
      /\ UNCHANGED <<token, state, fifo>>
  BY DEF OutProj
<1>2. /\ segment = "out_proj" /\ segment' = (IF last THEN "output" ELSE "block_norm")
      /\ config' = config /\ plans' = plans
      /\ ct \in Cyphers /\ ct.hidden \in Levels /\ ct.y \in Levels /\ ct.inverse \in Levels
  BY <1>1 DEF Segment, TypeInv, Cyphers
<1>3. /\ Known /\ Shape(first) /\ LedgerSizes(config, first) /\ 1 \in Layers
      /\ layer \in Layers /\ Layers = 1 .. Len(plans) /\ Len(plans) \in Nat
  BY FirstKnown DEF Known, Layers
<1>4. Updated(1)' = token /\ Updated(1) = token
  BY <1>1, <1>2, <1>3 DEF Updated
<1>5. Forecast'
  <2>1. InputsForeseen(fifo[1])'
    BY <1>1, <1>2 DEF Forecast, InputsForeseen, first
  <2>2. StateForeseen(state[1], Updated(1))'
    BY <1>1, <1>2, <1>4 DEF Forecast, StateForeseen, Covered, first
  <2>3. (layer = 1 => FirstLayer)'
    <3>1. CASE last
      BY <1>2, <3>1 DEF FirstLayer, Branches
    <3>2. CASE ~last
      <4>1. layer' # 1
        BY <1>1, <1>3, <3>2
      <4>2. QED BY <4>1
    <3>3. QED BY <3>1, <3>2
  <2>4. QED BY <2>1, <2>2, <2>3 DEF Forecast
<1>6. ASSUME layer = 1, first.gated.kind # "polynomial"
      PROVE  GetLevel(h) <= token_output_levels(config, first)[token]
  <2> DEFINE Y == y_level(config, first, token)
             e == GuessExtra(first)
             i == inv2(config, first, Y)
             f == state_levels(config, first)[token]
  <2>1. ct.hidden = Fresh /\ ct.y + e <= Y /\ ct.inverse <= i
    BY <1>2, <1>6 DEF Forecast, FirstLayer
  <2>2. token \in 0 .. config.tokens - 1
    <3>1. token \in Nat /\ token < config.tokens
      BY <1>2 DEF TypeInv
    <3>2. QED BY <1>3, <3>1 DEF Known, Sizes
  <2>3. NormExtra(config) \in {0, 1} /\ e \in {0, 1}
    BY <1>3 DEF LedgerSizes
  <2>4. Y \in Nat
    <3>1. f \in Nat
      BY <1>3, <2>2, StateLevels
    <3>2. bc_exp(config, first) \in Nat /\ proj_level(config, first) \in Nat
      BY <1>3 DEF LedgerSizes
    <3>3. first.gate \in Nat
      BY <1>3 DEF Shape
    <3> HIDE DEF f
    <3>4. Y = Times(Two(f, bc_exp(config, first)) + 2, proj_level(config, first) + 1 + first.gate)
      BY DEF y_level, f
    <3>5. QED BY <3>1, <3>2, <3>3, <3>4 DEF Times, Two
  <2> HIDE DEF Y, e
  <2>5. i \in Nat /\ i >= Y + 2
    <3>1. first.gated.iterations \in Nat \ {0}
      BY <1>3, <1>6 DEF Shape, Counts
    <3>2. i = Y + 1 + NormExtra(config) + IF first.gated.kind = "schedule"
                                          THEN 5 + 2 * first.gated.iterations
                                          ELSE 1 + 2 * (first.gated.iterations - 1)
      BY DEF inv2
    <3> HIDE DEF i
    <3>3. QED BY <2>3, <2>4, <3>1, <3>2
  <2> HIDE DEF i
  <2>6. token_output_levels(config, first)[token] = Two(Y + 1, i) + 1
    BY <2>2 DEF token_output_levels, Times, Y, i
  <2>7. r \in {1, 2} /\ out = Two(ct.y + r, ct.inverse) + 1
    BY <1>2 DEF DroppedTo, Times, Two, Levels
  <2> HIDE DEF r, out
  <2>8. out <= i + 1 /\ out \in Int
    <3>1. ct.y \in Int /\ ct.inverse \in Int
      BY <1>2 DEF Levels
    <3>2. ct.y + r <= i
      BY <2>1, <2>3, <2>4, <2>5, <2>7, <3>1
    <3>3. QED BY <2>1, <2>5, <2>7, <3>1, <3>2 DEF Two
  <2>9. h <= i + 1 /\ h \in Int
    BY <2>1, <2>5, <2>8 DEF Two, Fresh
  <2>10. token_output_levels(config, first)[token] >= i + 1
         /\ token_output_levels(config, first)[token] \in Int
    BY <2>4, <2>5, <2>6 DEF Two
  <2> HIDE DEF h
  <2>11. QED BY <2>5, <2>9, <2>10 DEF GetLevel, Two
<1>7. LedgerCovers'
  <2>1. ct'.hidden = h
    BY <1>1 DEF Blank
  <2>2. AfterFirstLayer' => layer = 1
    <3>1. CASE last
      BY <1>1, <1>2, <1>3, <3>1 DEF AfterFirstLayer
    <3>2. CASE ~last
      <4>1. segment' = "block_norm" /\ layer' = layer + 1 /\ layer \in Int
        BY <1>1, <1>2, <1>3, <3>2
      <4>2. QED BY <4>1 DEF AfterFirstLayer
    <3>3. QED BY <3>1, <3>2
  <2> HIDE DEF h
  <2>3. QED BY <1>1, <1>2, <1>6, <2>1, <2>2 DEF LedgerCovers, first
<1>8. QED BY <1>5, <1>7

(* Nothing carried changes between tokens.                                 *)
LEMMA OutputForecast ==
  ASSUME TypeInv, Foresight, Forecast, Output
  PROVE  Forecast'
<1>1. /\ segment = "output" /\ segment' \in {"token", "done"}
      /\ config' = config /\ plans' = plans
      /\ token' = token + 1 /\ layer' = 1 /\ UNCHANGED <<state, fifo>>
  BY DEF Output, Segment
<1>2. token \in Nat
  BY DEF TypeInv
<1>3. Updated(1)' = Updated(1)
  BY <1>1, <1>2 DEF Updated
<1>4. InputsForeseen(fifo[1])'
  BY <1>1 DEF Forecast, InputsForeseen, first
<1>5. StateForeseen(state[1], Updated(1))'
  BY <1>1, <1>3 DEF Forecast, StateForeseen, Covered, first
<1>6. FirstLayer'
  BY <1>1 DEF FirstLayer, Branches
<1>7. QED BY <1>4, <1>5, <1>6 DEF Forecast

(* Before a token, what is carried only rises, and what is encrypted or    *)
(* bootstrapped anew is at most a bootstrap's level.                       *)
LEMMA ReloadSettles ==
  ASSUME Known, NEW l \in Levels, NEW what
  PROVE  LET s == Reloaded(l, what)
         IN  /\ s.at \in Levels /\ s.at <= l
             /\ token \in config.reencrypt_before \cup config.bootstrap_before => s.at <= 25
<1> DEFINE from == IF token \in config.reencrypt_before THEN Fresh ELSE l
           s == Reloaded(l, what)
           k == maybe_bootstrap(from, config.depth, what)
<1>1. /\ from \in Levels /\ from <= l
      /\ token \in config.reencrypt_before => from = Fresh
  BY DEF Levels, Fresh
<1>2. config.depth \in Int /\ headroom(what) \in Nat /\ If(should_use_meta_bts(what)) \in Nat
  BY DEF Known, Sizes, headroom, If
<1>3. s = IF token \in config.bootstrap_before THEN k ELSE Through(from)
  BY DEF Reloaded
<1> HIDE DEF from, s
<1>4. CASE token \in config.bootstrap_before
  <2>1. k \in Stretches /\ Checked(k, from, config.depth, what)
    BY <1>1, <1>2, Checkpoint
  <2> HIDE DEF k
  <2>2. k.at \in Levels /\ k.at <= from /\ k.at <= 25
    BY <1>1, <1>2, <2>1 DEF Stretches, Checked, Levels
  <2>3. k.at <= l
    BY <1>1, <2>2 DEF Levels
  <2>4. QED BY <1>3, <1>4, <2>2, <2>3 DEF s
<1>5. CASE token \notin config.bootstrap_before
  <2>1. s.at = from
    BY <1>1, <1>3, <1>5, ThroughSound
  <2>2. token \in config.reencrypt_before => s.at <= 25
    BY <1>1, <2>1 DEF Fresh
  <2>3. QED BY <1>1, <1>5, <2>1, <2>2 DEF s
<1>6. QED BY <1>4, <1>5

(* What is carried into a token is no deeper than it was.                  *)
LEMMA StartTokenForecast ==
  ASSUME TypeInv, Carries, Foresight, Forecast, StartToken
  PROVE  Forecast'
<1> DEFINE s == Reloaded(state[1], "state")
           f(k) == Reloaded(fifo[1][k], "fifo")
<1>1. /\ segment = "token" /\ segment' = "block_norm" /\ config' = config /\ plans' = plans
      /\ ct' = Blank /\ UNCHANGED <<token, layer>>
  BY DEF StartToken, Segment
<1>2. /\ Known /\ Shape(first) /\ 1 \in Layers /\ layer = 1 /\ LedgerSizes(config, first)
      /\ state[1] \in Levels \cup {NoState} /\ fifo[1] \in Seq(Levels)
      /\ token \in Nat /\ token < config.tokens
  BY <1>1, FirstKnown DEF TypeInv
<1>3. state'[1] = IF state[1] # NoState THEN s.at ELSE NoState
  BY <1>2 DEF StartToken, Reloaded
<1>4. fifo'[1] = [k \in DOMAIN fifo[1] |-> f(k).at]
  BY <1>2 DEF StartToken, Reloaded
<1>5. Updated(1)' = Updated(1)
  BY <1>1 DEF Updated
<1>6. state[1] # NoState => /\ s.at \in Levels /\ s.at <= state[1]
                            /\ token \in config.reencrypt_before \cup config.bootstrap_before
                                 => s.at <= 25
  BY <1>2, ReloadSettles
<1>7. \A k \in DOMAIN fifo[1] : f(k).at < proj_level(config, first)
  <2> TAKE k \in DOMAIN fifo[1]
  <2>1. fifo[1][k] \in Levels /\ fifo[1][k] < proj_level(config, first)
    BY <1>2 DEF Forecast, InputsForeseen
  <2>2. f(k).at \in Levels /\ f(k).at <= fifo[1][k]
    BY <1>2, <2>1, ReloadSettles
  <2>3. proj_level(config, first) \in Nat
    BY <1>2 DEF LedgerSizes
  <2> HIDE DEF f
  <2>4. QED BY <2>1, <2>2, <2>3 DEF Levels
<1> HIDE DEF s, f
<1>8. InputsForeseen(fifo[1])'
  <2>1. InputsForeseen(fifo'[1])
    BY <1>4, <1>7 DEF InputsForeseen
  <2>2. QED BY <1>1, <2>1 DEF InputsForeseen, first
<1>9. StateForeseen(state[1], Updated(1))'
  <2>1. StateForeseen(state'[1], Updated(1))
    <3>1. CASE state[1] = NoState
      BY <1>3, <3>1 DEF StateForeseen
    <3>2. CASE state[1] # NoState
      <4> DEFINE t == Updated(1)
                 l == state_levels(config, first)[t]
      <4>1. /\ Covered(state[1], t)
            /\ NoRequest(config) => update_level(config, first) <= l
        BY <3>2 DEF Forecast, StateForeseen
      <4>2. GuessExtra(first) \in Int /\ state[1] \in Int /\ s.at \in Int /\ s.at <= state[1]
        BY <1>2, <1>6, <3>2, SMTT(30) DEF LedgerSizes, Levels
      <4>3. l \in Int
        <5>1. t = token - 1 /\ t \in Nat
          BY <1>1, <1>2, <3>2 DEF Updated, Carries
        <5>2. t \in 0 .. config.tokens - 1
          BY <1>2, <5>1 DEF Known, Sizes
        <5>3. QED BY <1>2, <5>2, StateLevels
      <4>4. QED BY <1>3, <3>2, <4>1, <4>2, <4>3 DEF StateForeseen, Covered
    <3>3. QED BY <3>1, <3>2
  <2>2. QED BY <1>1, <1>5, <2>1 DEF StateForeseen, Covered, first
<1>10. FirstLayer'
  <2>1. Reloads(state[1])'
    BY <1>1, <1>3, <1>6 DEF Reloads
  <2>2. ct'.hidden = Fresh
    BY <1>1 DEF Blank
  <2>3. QED BY <1>1, <2>1, <2>2 DEF FirstLayer
<1>11. QED BY <1>8, <1>9, <1>10 DEF Forecast

(* Every step keeps the forecast.                                          *)
LEMMA ForecastStep ==
  ASSUME IInv, Foresight, Forecast, LedgerCovers, [Next]_vars
  PROVE  Forecast' /\ LedgerCovers'
<1>1. TypeInv /\ Carries
  BY DEF IInv
<1>2. CASE UNCHANGED vars
  BY <1>2 DEF vars, Forecast, FirstLayer, InputsForeseen, StateForeseen, Covered, Reloads, first,
              Updated, LedgerCovers, AfterFirstLayer
<1>3. CASE Finish
  BY <1>2, <1>3 DEF Finish
<1>4. CASE OutProj
  BY <1>1, <1>4, OutProjForecast
<1>5. ASSUME StartToken \/ BlockNorm \/ InProj \/ Conv \/ Gates \/ StateUpdate \/ GatedNorm \/ Output
      PROVE  LedgerCovers'
  <2>1. ~AfterFirstLayer'
    <3>1. CASE StartToken
      BY <1>1, <3>1 DEF StartToken, Segment, AfterFirstLayer, TypeInv
    <3>2. CASE BlockNorm \/ InProj \/ Conv \/ Gates
      BY <3>2, Zenon DEF BlockNorm, InProj, Conv, Gates, Segment, AfterFirstLayer
    <3>3. CASE StateUpdate \/ GatedNorm \/ Output
      BY <3>3, Zenon DEF StateUpdate, GatedNorm, Output, Segment, AfterFirstLayer
    <3>4. QED BY <1>5, <3>1, <3>2, <3>3
  <2>2. QED BY <2>1 DEF LedgerCovers
<1>6. CASE StartToken
  BY <1>1, <1>5, <1>6, StartTokenForecast
<1>7. CASE BlockNorm
  BY <1>1, <1>5, <1>7, BlockNormForecast
<1>8. CASE InProj
  BY <1>1, <1>5, <1>8, InProjForecast
<1>9. CASE Conv
  BY <1>1, <1>5, <1>9, ConvForecast
<1>10. CASE Gates
  BY <1>1, <1>5, <1>10, GatesForecast
<1>11. CASE StateUpdate
  BY <1>1, <1>5, <1>11, StateForecast
<1>12. CASE GatedNorm
  BY <1>1, <1>5, <1>12, GatedNormForecast
<1>13. CASE Output
  BY <1>1, <1>5, <1>13, OutputForecast
<1>14. QED BY <1>2, <1>3, <1>4, <1>6, <1>7, <1>8, <1>9, <1>10, <1>11, <1>12, <1>13 DEF Next

(* Of every case within reach whose first layer is foreseen, the ledger    *)
(* covers that layer's output at every token, wherever it is refreshed.    *)
THEOREM Ledger ==
  ASSUME Reach, Foresight
  PROVE  Spec => []LedgerCovers
<1>1. Init => IInv /\ LineageKept
  BY StartOfRun
<1>2. Init => Forecast /\ LedgerCovers
  <2> HAVE Init
  <2>1. 1 \in Layers
    BY <1>1 DEF IInv, TypeInv, Init
  <2>2. fifo[1] = <<>> /\ state[1] = NoState /\ segment = "token"
    BY <2>1 DEF Init
  <2>3. QED BY <2>2 DEF Forecast, FirstLayer, Branches, InputsForeseen, StateForeseen,
                       LedgerCovers, AfterFirstLayer
<1>3. (IInv /\ LineageKept) /\ [Next]_vars => (IInv /\ LineageKept)'
  BY Step
<1>4. IInv /\ (Forecast /\ LedgerCovers) /\ [Next]_vars => (Forecast /\ LedgerCovers)'
  BY ForecastStep
<1>5. QED BY <1>1, <1>2, <1>3, <1>4, PTL DEF Spec
=============================================================================
