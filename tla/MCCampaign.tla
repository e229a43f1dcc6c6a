----------------------------- MODULE MCCampaign ----------------------------
(* Manifests shaped like those of experiments/manifests.                   *)
EXTENDS Campaign

Gate(e, passed, accurate, decrypts) ==
  [source |-> e, passed |-> passed, accurate |-> accurate, decrypts |-> decrypts]
Experiment(gate, lenient, paths) == [gate |-> gate, lenient |-> lenient, paths |-> paths]

\* dgx_spark_stabilized_smoke.json
Single == << Experiment(NoGate, FALSE, <<"a">>) >>

\* several experiments, each but the first behind a gate
Chain ==
  << Experiment(NoGate, FALSE, <<"a">>),
     Experiment(Gate(1, TRUE, TRUE, TRUE), TRUE, <<"b">>),
     Experiment(Gate(2, FALSE, FALSE, TRUE), FALSE, <<"c">>) >>

\* two layers of the ladder script, and a gated experiment
Ladder ==
  << Experiment(NoGate, FALSE, <<"a5", "a8">>),
     Experiment(Gate(1, TRUE, FALSE, TRUE), FALSE, <<"b">>) >>

Environment(version, binary, payload, settings) ==
  [version |-> version, binary |-> binary, payload |-> payload, settings |-> settings]
\* Two settings of one build, without and with a hash of the inputs.
LadderSettings == {Environment(1, 1, NoPayload, s) : s \in 1 .. 2}
SparkSettings == {Environment(1, 1, 1, s) : s \in 1 .. 2}
\* Two inputs of one build, one of them under two settings.
Inputs == {Environment(1, 1, p, 1) : p \in 1 .. 2}
Variants == Inputs \cup SparkSettings
\* A build with two inputs, and another one of another version.
Builds == Inputs \cup {Environment(2, 2, 1, 1)}
=============================================================================
