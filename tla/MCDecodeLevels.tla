--------------------------- MODULE MCDecodeLevels ---------------------------
(* Payloads: the layers fitted to the measured 24-layer runs (scheduled    *)
(* norms with joint gates; polynomial norms with a separate decay), and    *)
(* smaller ones with a constant guess.                                     *)
EXTENDS DecodeLevels

Schedule(n) == [kind |-> "schedule", iterations |-> n]
Newton(depth, n) == [kind |-> "newton", depth |-> depth, iterations |-> n]
Polynomial(depth, n) == [kind |-> "polynomial", depth |-> depth, iterations |-> n]
Guess(n) == [kind |-> "guess", iterations |-> n]

JointLayer(rms, dt, gated) ==
  [rms |-> Schedule(rms), conv |-> 10, gate |-> 9, joint |-> TRUE, dt |-> dt,
   roots |-> dt - 1, exp |-> 0, squarings |-> 0, gated |-> Schedule(gated)]
PolyLayer(squarings, gated) ==
  [rms |-> Newton(6, 4), conv |-> 7, gate |-> 7, joint |-> FALSE, dt |-> 7,
   roots |-> 0, exp |-> 4, squarings |-> squarings, gated |-> gated]

JointLayers == {JointLayer(10, 10, 12), JointLayer(12, 11, 15),
                JointLayer(12, 12, 13), JointLayer(13, 11, 13)}
PolyLayers == {PolyLayer(n, Polynomial(6, 4)) : n \in {4, 8, 12, 16}}
MixedLayers == {PolyLayer(4, Guess(6)), PolyLayer(8, Schedule(12)),
                [JointLayer(12, 11, 13) EXCEPT !.rms = Newton(6, 4), !.gated = Guess(6)],
                [JointLayer(12, 9, 13) EXCEPT !.conv = 11, !.gate = 7]}
AnyLayers == JointLayers \cup PolyLayers \cup MixedLayers

Chains(layers) == {<<p>> : p \in layers} \cup {<<p, q>> : p, q \in layers}
With(configs, chains) == {[config |-> c, plans |-> ps] : c \in configs, ps \in chains}

(* The command line of the measured generation runs: scheduled norms,      *)
(* normalised state refreshed after every token.                           *)
Measured ==
  [tokens |-> 3, depth |-> 44, auto_headroom |-> 12, residual_headroom |-> 0,
   carried_headroom |-> 0, meta |-> TRUE, meta_residual_layers |-> {},
   normalized |-> TRUE, normalized_meta |-> FALSE, interval |-> 1, post |-> FALSE,
   reencrypt_before |-> {}, bootstrap_before |-> {}, streams |-> 1,
   replicated |-> TRUE, replicated_out |-> TRUE, shared |-> FALSE, late |-> TRUE,
   final |-> Schedule(9)]
LegacyFinal == Newton(6, 4)
Truncated == [kind |-> "none"]

(* Joint gates at the small headroom of the campaigns and at the default.  *)
(* Several streams are decoded through one layer only.                     *)
JointOptions(streams) ==
  {[Measured EXCEPT !.auto_headroom = h, !.shared = s, !.normalized_meta = n, !.streams = streams] :
     h \in {4, 12}, s \in BOOLEAN, n \in BOOLEAN}
JointCases ==
  With(JointOptions(1), Chains(JointLayers)) \cup With(JointOptions(2), {<<p>> : p \in JointLayers})

(* Polynomial norms: the state is refreshed by Meta-BTS whenever its level *)
(* asks for it, over many tokens.                                          *)
PolyCases ==
  With({[Measured EXCEPT !.tokens = 16, !.auto_headroom = h, !.normalized = FALSE,
                         !.interval = i, !.late = l, !.final = LegacyFinal] :
          h \in {4, 12}, i \in {0, 4}, l \in BOOLEAN},
       Chains(PolyLayers))

(* Refreshes and client round trips before a token, never both before the  *)
(* same one; truncated chains.                                             *)
CarriedCases ==
  With({[Measured EXCEPT !.tokens = 6, !.interval = i, !.reencrypt_before = r,
                         !.bootstrap_before = b, !.meta_residual_layers = {2},
                         !.final = Truncated, !.post = o] :
          i \in {0, 4}, r \in {{}, {5}}, b \in {{2, 4}, {3}}, o \in BOOLEAN},
       Chains(JointLayers))

(* Any payload at the default headroom.                                    *)
AnyCases ==
  With({[Measured EXCEPT !.shared = s, !.final = f, !.interval = i] :
          s \in BOOLEAN, f \in {Schedule(9), LegacyFinal, Truncated}, i \in {1, 2}},
       Chains(AnyLayers))

(* A context deep enough for a circuit without bootstraps, of which the    *)
(* ledger speaks.                                                          *)
LedgerCases ==
  With({[Measured EXCEPT !.tokens = 4, !.depth = 200, !.interval = i, !.shared = s,
                         !.streams = t, !.replicated = r, !.late = l,
                         !.reencrypt_before = b, !.final = Truncated] :
          i \in {0, 2}, s \in BOOLEAN, t \in {1, 2}, r \in BOOLEAN, l \in BOOLEAN, b \in {{}, {2}}},
       {<<p>> : p \in AnyLayers})

MCCases == UNION {JointCases, PolyCases, CarriedCases, AnyCases, LedgerCases}

(* The instance lies within the hypotheses of the theorems Lineage and     *)
(* Ledger (DecodeLevelsProofs), so the run and the proofs speak of it.     *)
ASSUME CasesForeseen ==
  \A c \in MCCases :
     WithinReach(c.config, c.plans) /\ Foreseen(c.config, c.plans[1])

(* The defaults of the command line (Config): nothing asks for a refresh   *)
(* of the state, its level alone decides.                                  *)
Default ==
  [Measured EXCEPT !.meta = FALSE, !.normalized = FALSE, !.interval = 0,
                   !.replicated = FALSE, !.replicated_out = FALSE, !.late = FALSE]
MCLevelDriven == With({[Default EXCEPT !.tokens = 20]}, {<<p>> : p \in JointLayers})
=============================================================================
