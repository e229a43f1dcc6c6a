---------------------------- MODULE CampaignProofs ----------------------------
(* For every manifest, every set of environments and any number of         *)
(* invocations: what the report of a campaign promises.                    *)
EXTENDS Campaign, TLAPS

Payloads == {e.payload : e \in Environments} \cup {NoPayload}
Artifacts == [whole : BOOLEAN, env : Environments, payload : Payloads, result : Results]
ArtifactMaps == UNION {[P -> Artifacts] : P \in SUBSET Paths}
RecordSpace ==
  [experiment : 1 .. Count, state : {"skipped", "resumed", "preflight-failed", "executed"},
   env : SUBSET Environments, infrastructure_ok : BOOLEAN, artifacts : ArtifactMaps]
Reports == [complete : BOOLEAN, passed : BOOLEAN, records : Seq(RecordSpace)]
Points == {"down", "next", "launched", "waiting", "terminating", "aborting", "collect", "failing"}
Phases == {"setup", "clear", "measure", "attach"}
LiveRunners == [phase : Phases, env : Environments, todo : Seq(Paths) \ {<<>>}]
LiveBackends == [env : Environments, path : Paths]

TypeInv ==
  /\ disk \in [Paths -> Artifacts \cup {None}]
  /\ report \in Reports
  /\ invocation \in 0 .. MaxInvocations
  /\ pc \in Points
  /\ pc # "down" => invocation # 0
  /\ env \in Environments
  /\ resume \in BOOLEAN
  /\ previous \in Reports
  /\ records \in Seq(RecordSpace)
  /\ timed_out \in BOOLEAN
  /\ runners \in [1 .. MaxInvocations -> LiveRunners \cup {NoRunner}]
  /\ backends \in SUBSET LiveBackends

-----------------------------------------------------------------------------

(* What a record without infrastructure failure says of its artifacts, and *)
(* that one in which nothing ran has none.                                 *)
Claims(a, e) ==
  /\ a.env.version = e.version /\ a.env.binary = e.binary
  /\ e.payload \in {NoPayload, a.payload}
Labelled(r) ==
  /\ Measured(r) =>
       /\ DOMAIN r.artifacts = ToSet(Experiments[r.experiment].paths)
       /\ \A p \in DOMAIN r.artifacts :
            /\ r.artifacts[p].whole
            /\ \A e \in r.env : Claims(r.artifacts[p], e)
  /\ r.state \in {"skipped", "preflight-failed"} => DOMAIN r.artifacts = {}

(* What the gate of an experiment that was not skipped demands of the      *)
(* records before it.                                                      *)
Evident(r, recs) ==
  LET gate == Experiments[r.experiment].gate
  IN  gate # NoGate /\ r.state # "skipped" =>
        (gate.decrypts =>
           LET source == recs[gate.source]
           IN  Measured(source) /\ AllDecrypt(source.artifacts))

SoundRecords(recs) ==
  /\ Len(recs) <= Count
  /\ \A k \in 1 .. Len(recs) :
       recs[k].experiment = k /\ Labelled(recs[k]) /\ Evident(recs[k], recs)

SoundVerdict(rep) ==
  rep.passed =>
    /\ Len(rep.records) = Count
    /\ \A k \in 1 .. Len(rep.records) : rep.records[k].infrastructure_ok
    /\ Acceptance =>
         /\ \E k \in 1 .. Len(rep.records) : DOMAIN rep.records[k].artifacts # {}
         /\ \A k \in 1 .. Len(rep.records) : AllPass(rep.records[k].artifacts)

SoundReport(rep) == SoundRecords(rep.records) /\ SoundVerdict(rep)

Failed(k) == ~records[k].infrastructure_ok
Fatal(k) == Failed(k) /\ ~Experiments[records[k].experiment].lenient

CampaignInv ==
  /\ TypeInv
  /\ SoundReport(report)
  /\ SoundReport(previous)
  /\ SoundRecords(records)
  /\ pc = "failing" => \E k \in 1 .. Len(records) : Failed(k)
  /\ (\E k \in 1 .. Len(records) : Fatal(k)) => pc \in {"failing", "down"}
  /\ pc \notin {"down", "next", "failing"} => Current <= Count /\ Promoted(Current)

(* Without signals a runner only lives while its campaign waits for it. *)
RunnerInv ==
  \A i \in 1 .. MaxInvocations :
     runners[i].phase # "exited" =>
       i = invocation /\ pc \in {"launched", "waiting", "terminating"}

(* Its backend then goes with it, if it ends on SIGTERM. *)
BackendInv == backends = {} \/ Lingering

(* What the own runner still has to do, and what it has done.  An artifact *)
(* that it is done with is absent or its own.                              *)
Untouched(p) ==
  /\ Own.phase # "exited"
  /\ p \in ToSet(Own.todo)
  /\ Own.phase \in {"setup", "clear"} \/ p # Head(Own.todo)
Fresh(p) == disk[p] = None \/ disk[p].env = env

OwnRecords(recs) ==
  \A k \in 1 .. Len(recs) :
     Measured(recs[k]) /\ recs[k].state = "executed" =>
       \A p \in DOMAIN recs[k].artifacts : recs[k].env = {recs[k].artifacts[p].env}

OwnPayloads(recs) ==
  \A k \in 1 .. Len(recs) :
     Measured(recs[k]) =>
       \A p \in DOMAIN recs[k].artifacts, e \in recs[k].env :
          e.payload \in {NoPayload, recs[k].artifacts[p].env.payload}

(* No artifact carries the hash of a payload it was not measured with: a   *)
(* runner that is about to attach finds nothing or its own artifact.       *)
StampInv ==
  /\ \A p \in Paths :
       disk[p].whole => disk[p].payload \in {NoPayload, disk[p].env.payload}
  /\ \A i \in 1 .. MaxInvocations :
       /\ runners[i].phase = "measure" => disk[Target(i)] = None
       /\ runners[i].phase = "attach" =>
            disk[Target(i)] = None \/ disk[Target(i)].env = runners[i].env
  /\ OwnPayloads(records)
  /\ OwnPayloads(report.records)

FreshInv ==
  /\ pc \in {"terminating", "collect"} => timed_out
  /\ pc \in {"launched", "waiting", "terminating"} =>
       /\ Own.phase # "exited" => Own.env = env
       /\ \A p \in ToSet(Experiments[Current].paths) : Untouched(p) \/ Fresh(p)
  /\ OwnRecords(records)
  /\ OwnRecords(report.records)

-----------------------------------------------------------------------------

LEMMA GateBefore ==
  ASSUME NEW e \in 1 .. Count, Experiments[e].gate # NoGate
  PROVE  Experiments[e].gate.source \in 1 .. e - 1
  BY CampaignAssumption

(* A gate looks back, so a record more does not change what it demands. *)
LEMMA EvidentLater ==
  ASSUME NEW recs \in Seq(RecordSpace), NEW r \in RecordSpace, NEW q \in RecordSpace,
         q.experiment <= Len(recs) + 1, Evident(q, recs)
  PROVE  Evident(q, Append(recs, r))
<1>1. q.experiment \in 1 .. Count
  BY DEF RecordSpace
<1>2. CASE Experiments[q.experiment].gate = NoGate
  BY <1>2 DEF Evident
<1>3. CASE Experiments[q.experiment].gate # NoGate
  <2> DEFINE s == Experiments[q.experiment].gate.source
  <2>1. s \in 1 .. Len(recs)
    BY <1>1, <1>3, GateBefore, CampaignAssumption
  <2>2. Append(recs, r)[s] = recs[s]
    BY <2>1
  <2>3. QED BY <2>2 DEF Evident
<1>4. QED BY <1>2, <1>3

LEMMA AppendSound ==
  ASSUME NEW recs \in Seq(RecordSpace), NEW r \in RecordSpace, SoundRecords(recs),
         Len(recs) + 1 <= Count, r.experiment = Len(recs) + 1,
         Labelled(r), Evident(r, recs)
  PROVE  SoundRecords(Append(recs, r))
<1> DEFINE more == Append(recs, r)
<1>1. Len(more) = Len(recs) + 1 /\ Len(more) <= Count
  OBVIOUS
<1>2. ASSUME NEW k \in 1 .. Len(more)
      PROVE  more[k].experiment = k /\ Labelled(more[k]) /\ Evident(more[k], more)
  <2>1. CASE k = Len(recs) + 1
    <3>1. more[k] = r
      BY <2>1
    <3>2. Evident(r, more)
      BY EvidentLater
    <3>3. QED BY <2>1, <3>1, <3>2
  <2>2. CASE k # Len(recs) + 1
    <3>1. k \in 1 .. Len(recs) /\ more[k] = recs[k] /\ recs[k] \in RecordSpace
      BY <1>1, <2>2
    <3>2. recs[k].experiment = k /\ Labelled(recs[k]) /\ Evident(recs[k], recs)
      BY <3>1 DEF SoundRecords
    <3>3. Evident(recs[k], more)
      BY <3>1, <3>2, EvidentLater
    <3>4. QED BY <3>1, <3>2, <3>3
  <2>3. QED BY <2>1, <2>2
<1>3. QED BY <1>1, <1>2 DEF SoundRecords

LEMMA PayloadTyped ==
  ASSUME NEW recs \in Seq(RecordSpace), NEW complete \in BOOLEAN
  PROVE  Payload(recs, complete) \in Reports
  BY DEF Payload, Reports

(* A report says passed only over all records, and only if it is complete. *)
LEMMA PayloadSound ==
  ASSUME NEW recs \in Seq(RecordSpace), SoundRecords(recs), NEW complete \in BOOLEAN,
         complete => Len(recs) = Count \/ \E k \in 1 .. Len(recs) : ~recs[k].infrastructure_ok
  PROVE  SoundReport(Payload(recs, complete))
<1> DEFINE rep == Payload(recs, complete)
<1>1. rep.records = recs /\
      (rep.passed <=> complete /\ InfrastructureOk(recs) /\ (Acceptance => Accepts(recs)))
  BY DEF Payload
<1>2. ASSUME rep.passed
      PROVE  /\ Len(recs) = Count
             /\ \A k \in 1 .. Len(recs) : recs[k].infrastructure_ok
             /\ Acceptance =>
                  /\ \E k \in 1 .. Len(recs) : DOMAIN recs[k].artifacts # {}
                  /\ \A k \in 1 .. Len(recs) : AllPass(recs[k].artifacts)
  <2>1. \A k \in 1 .. Len(recs) : recs[k].infrastructure_ok
    BY <1>1, <1>2 DEF InfrastructureOk, ToSet
  <2>2. Len(recs) = Count
    BY <1>1, <1>2, <2>1
  <2>3. ASSUME Acceptance
        PROVE  /\ \E k \in 1 .. Len(recs) : DOMAIN recs[k].artifacts # {}
               /\ \A k \in 1 .. Len(recs) : AllPass(recs[k].artifacts)
    <3> DEFINE found ==
          UNION {{r.artifacts[p] : p \in DOMAIN r.artifacts} : r \in ToSet(recs)}
    <3>1. found # {} /\ \A a \in found : a.result = "passed"
      BY <1>1, <1>2, <2>3 DEF Accepts
    <3>2. \E r \in ToSet(recs) : DOMAIN r.artifacts # {}
      BY <3>1
    <3>3. ASSUME NEW k \in 1 .. Len(recs), NEW p \in DOMAIN recs[k].artifacts
          PROVE  recs[k].artifacts[p] \in found
      BY DEF ToSet
    <3>4. \A k \in 1 .. Len(recs) : AllPass(recs[k].artifacts)
      BY <3>1, <3>3 DEF AllPass, Ok
    <3>5. QED BY <3>2, <3>4 DEF ToSet
  <2>4. QED BY <2>1, <2>2, <2>3
<1>3. QED BY <1>1, <1>2 DEF SoundReport, SoundVerdict

(* A satisfied gate rests on a measured source: a skipped record and one   *)
(* of a failed preflight have no artifacts to decrypt.                     *)
LEMMA PromotedEvident ==
  ASSUME TypeInv, SoundRecords(records), Current <= Count, Promoted(Current),
         NEW r \in RecordSpace, r.experiment = Current
  PROVE  Evident(r, records)
<1>1. Current \in 1 .. Count /\ Len(records) \in Nat
  BY CampaignAssumption DEF TypeInv, Current
<1>2. CASE Experiments[Current].gate = NoGate
  BY <1>2 DEF Evident
<1>3. CASE Experiments[Current].gate # NoGate
  <2> DEFINE source == records[Experiments[Current].gate.source]
  <2>1. Experiments[Current].gate.source \in 1 .. Len(records)
    BY <1>1, <1>3, GateBefore DEF Current
  <2>2. source \in RecordSpace /\ Labelled(source)
    BY <2>1 DEF SoundRecords, TypeInv
  <2>3. ASSUME Experiments[Current].gate.decrypts
        PROVE  Measured(source) /\ AllDecrypt(source.artifacts)
    <3>1. source.infrastructure_ok /\ AllDecrypt(source.artifacts)
      BY <1>3, <2>3 DEF Promoted
    <3>2. DOMAIN source.artifacts # {}
      BY <3>1 DEF AllDecrypt
    <3>3. source.state \in {"executed", "resumed"}
      BY <2>2, <3>2 DEF Labelled, RecordSpace
    <3>4. QED BY <3>1, <3>3 DEF Measured
  <2>4. QED BY <2>3 DEF Evident
<1>4. QED BY <1>2, <1>3

-----------------------------------------------------------------------------

LEMMA PathsOf ==
  ASSUME NEW e \in 1 .. Count
  PROVE  ToSet(Experiments[e].paths) \subseteq Paths
  BY DEF Paths

LEMMA LoadedTyped ==
  ASSUME TypeInv, NEW e \in 1 .. Count
  PROVE  Loaded(e) \in ArtifactMaps
<1> DEFINE P == {q \in ToSet(Experiments[e].paths) : disk[q].whole}
<1>1. P \in SUBSET Paths
  BY PathsOf
<1>2. \A p \in P : disk[p] \in Artifacts
  BY <1>1 DEF TypeInv, None
<1>3. Loaded(e) \in [P -> Artifacts]
  BY <1>2 DEF Loaded
<1>4. QED BY <1>1, <1>3 DEF ArtifactMaps

(* What was read is labelled right when its identity was compared. *)
LEMMA LoadedLabelled ==
  ASSUME NEW e, Identified(e), NEW r, r.experiment = e, r.env = {env},
         r.artifacts = Loaded(e), r.state \in {"resumed", "executed"}
  PROVE  Labelled(r)
<1>1. DOMAIN Loaded(e) = ToSet(Experiments[e].paths)
  BY DEF Loaded, Identified
<1>2. ASSUME NEW p \in ToSet(Experiments[e].paths)
      PROVE  Loaded(e)[p] = disk[p] /\ disk[p].whole /\ Claims(disk[p], env)
  BY DEF Loaded, Identified, Claims
<1>3. QED BY <1>1, <1>2 DEF Labelled

LEMMA NoArtifactsTyped == NoArtifacts \in ArtifactMaps /\ DOMAIN NoArtifacts = {}
<1>1. NoArtifacts \in [{} -> Artifacts] /\ {} \in SUBSET Paths
  BY DEF NoArtifacts
<1>2. QED BY <1>1 DEF ArtifactMaps, NoArtifacts

LEMMA InitInv == Init => CampaignInv
<1> SUFFICES ASSUME Init PROVE CampaignInv
  OBVIOUS
<1>1. NoReport \in Reports /\ SoundReport(NoReport)
  BY CampaignAssumption DEF NoReport, Reports, SoundReport, SoundRecords, SoundVerdict
<1>2. TypeInv
  <2>1. env \in Environments
    <3>1. \E e \in Environments : TRUE
      BY CampaignAssumption
    <3>2. QED BY <3>1 DEF Init
  <2>2. records \in Seq(RecordSpace)
    BY DEF Init
  <2>3. disk \in [Paths -> Artifacts \cup {None}]
    BY DEF Init
  <2>4. runners \in [1 .. MaxInvocations -> LiveRunners \cup {NoRunner}]
    BY DEF Init
  <2>5. invocation \in 0 .. MaxInvocations
    BY CampaignAssumption DEF Init
  <2>6. backends \in SUBSET LiveBackends
    BY DEF Init
  <2>7. QED BY <1>1, <2>1, <2>2, <2>3, <2>4, <2>5, <2>6 DEF Init, TypeInv, Points
<1>3. SoundRecords(records)
  BY CampaignAssumption DEF Init, SoundRecords
<1>4. QED BY <1>1, <1>2, <1>3 DEF Init, CampaignInv

(* Steps that leave the records and the report alone. *)
LEMMA QuietKeeps ==
  ASSUME CampaignInv, TypeInv', UNCHANGED <<report, records, previous>>,
         pc' = "failing" => pc = "failing",
         (\E k \in 1 .. Len(records) : Fatal(k)) => pc' \in {"failing", "down"},
         pc' \notin {"down", "next", "failing"} => Current <= Count /\ Promoted(Current)
  PROVE  CampaignInv'
  BY DEF CampaignInv, Current, Failed, Fatal, Promoted

(* Steps that append a record and replace the report. *)
LEMMA AppendKeeps ==
  ASSUME CampaignInv, NEW r \in RecordSpace, r.experiment = Current, Current <= Count,
         Labelled(r), Evident(r, records),
         records' = Append(records, r), report' = Payload(records', Len(records') = Count),
         TypeInv', UNCHANGED previous,
         \A k \in 1 .. Len(records) : ~Fatal(k),
         pc' = IF r.infrastructure_ok \/ Experiments[Current].lenient THEN "next" ELSE "failing"
  PROVE  CampaignInv'
<1>1. records \in Seq(RecordSpace) /\ SoundRecords(records)
  BY DEF CampaignInv, TypeInv
<1>2. SoundRecords(records')
  BY <1>1, AppendSound DEF Current
<1>3. SoundReport(report')
  BY <1>2, PayloadSound DEF TypeInv
<1>4. /\ Len(records') = Current
      /\ records'[Current] = r
      /\ \A k \in 1 .. Len(records) : records'[k] = records[k]
      /\ Len(records) \in Nat
  BY <1>1 DEF Current
<1>5. pc' = "failing" => \E k \in 1 .. Len(records') : Failed(k)'
  BY <1>4 DEF Failed, Current
<1>6. (\E k \in 1 .. Len(records') : Fatal(k)') => pc' = "failing"
  BY <1>4 DEF Fatal, Failed, Current
<1>7. QED BY <1>2, <1>3, <1>5, <1>6 DEF CampaignInv

LEMMA RecordKeeps ==
  ASSUME CampaignInv, NEW r \in RecordSpace, r.experiment = Current, Current <= Count,
         Labelled(r), Evident(r, records), Record(r), pc \notin {"down", "failing"},
         UNCHANGED <<disk, invocation, env, resume, previous, timed_out, processes>>
  PROVE  CampaignInv'
<1>1. records' \in Seq(RecordSpace)
  BY DEF Record, CampaignInv, TypeInv
<1>2. report' \in Reports
  BY <1>1, PayloadTyped DEF Record
<1>3. pc' = IF r.infrastructure_ok \/ Experiments[Current].lenient THEN "next" ELSE "failing"
  BY DEF Record, AfterRecord
<1>4. TypeInv'
  BY <1>1, <1>2, <1>3 DEF CampaignInv, TypeInv, Points, processes
<1>5. \A k \in 1 .. Len(records) : ~Fatal(k)
  BY DEF CampaignInv
<1>6. QED BY <1>3, <1>4, <1>5, AppendKeeps DEF Record

-----------------------------------------------------------------------------

LEMMA SkipKeeps == CampaignInv /\ Skip => CampaignInv'
<1> SUFFICES ASSUME CampaignInv, Skip PROVE CampaignInv'
  OBVIOUS
<1> DEFINE r == SkippedRecord
<1>1. Current \in 1 .. Count
  BY CampaignAssumption DEF CampaignInv, TypeInv, Skip, Current
<1>2. r \in RecordSpace /\ r.experiment = Current /\ r.infrastructure_ok
  BY <1>1, NoArtifactsTyped DEF SkippedRecord, RecordSpace
<1>3. Labelled(r) /\ Evident(r, records)
  BY NoArtifactsTyped DEF SkippedRecord, Labelled, Evident, Measured
<1>4. records' = Append(records, r) /\ report' = Payload(records', Len(records') = Count)
  BY DEF Skip
<1>5. records' \in Seq(RecordSpace)
  BY <1>2, <1>4 DEF CampaignInv, TypeInv
<1>5a. report' \in Reports
  BY <1>4, <1>5, PayloadTyped
<1>6. TypeInv'
  BY <1>5, <1>5a DEF CampaignInv, TypeInv, Skip, processes
<1>7. \A k \in 1 .. Len(records) : ~Fatal(k)
  BY DEF CampaignInv, Skip
<1>8. QED BY <1>1, <1>2, <1>3, <1>4, <1>6, <1>7, AppendKeeps DEF Skip

LEMMA ReuseKeeps == CampaignInv /\ Reuse => CampaignInv'
<1> SUFFICES ASSUME CampaignInv, Reuse PROVE CampaignInv'
  OBVIOUS
<1> DEFINE r == [experiment |-> Current, state |-> "resumed", env |-> {env},
                 infrastructure_ok |-> TRUE, artifacts |-> Loaded(Current)]
<1>1. Current \in 1 .. Count
  BY CampaignAssumption DEF CampaignInv, TypeInv, Reuse, Current
<1>2. r \in RecordSpace
  BY <1>1, LoadedTyped DEF CampaignInv, TypeInv, RecordSpace
<1>3. Labelled(r)
  BY LoadedLabelled DEF Reuse, Reusable
<1>4. Evident(r, records)
  BY <1>1, <1>2, PromotedEvident DEF CampaignInv, Reuse
<1>5. Record(r) /\ pc \notin {"down", "failing"}
  BY DEF Reuse
<1>6. QED BY <1>1, <1>2, <1>3, <1>4, <1>5, RecordKeeps DEF Reuse

LEMMA PreflightKeeps == CampaignInv /\ PreflightFails => CampaignInv'
<1> SUFFICES ASSUME CampaignInv, PreflightFails PROVE CampaignInv'
  OBVIOUS
<1> DEFINE r == [experiment |-> Current, state |-> "preflight-failed", env |-> {env},
                 infrastructure_ok |-> FALSE, artifacts |-> NoArtifacts]
<1>1. Current \in 1 .. Count
  BY CampaignAssumption DEF CampaignInv, TypeInv, PreflightFails, Current
<1>2. r \in RecordSpace
  BY <1>1, NoArtifactsTyped DEF CampaignInv, TypeInv, RecordSpace
<1>3. Labelled(r)
  BY NoArtifactsTyped DEF Labelled, Measured
<1>4. Evident(r, records)
  BY <1>1, <1>2, PromotedEvident DEF CampaignInv, PreflightFails
<1>5. Record(r) /\ pc \notin {"down", "failing"}
  BY DEF PreflightFails
<1>6. QED BY <1>1, <1>2, <1>3, <1>4, <1>5, RecordKeeps DEF PreflightFails

LEMMA LaunchKeeps == CampaignInv /\ Launch => CampaignInv'
<1> SUFFICES ASSUME CampaignInv, Launch PROVE CampaignInv'
  OBVIOUS
<1>1. Current \in 1 .. Count /\ Experiments[Current].paths \in Seq(Paths) \ {<<>>}
  BY CampaignAssumption DEF CampaignInv, TypeInv, Launch, Current
<1>2. TypeInv'
  BY <1>1 DEF CampaignInv, TypeInv, Launch, LiveRunners, Phases, Points
<1>3. \A k \in 1 .. Len(records) : ~Fatal(k)
  BY DEF CampaignInv, Launch
<1>4. QED BY <1>1, <1>2, <1>3, QuietKeeps DEF Launch

LEMMA CollectKeeps == CampaignInv /\ Collect => CampaignInv'
<1> SUFFICES ASSUME CampaignInv, Collect PROVE CampaignInv'
  OBVIOUS
<1> DEFINE r == [experiment |-> Current, state |-> "executed", env |-> {env},
                 infrastructure_ok |-> Identified(Current) /\ ~timed_out,
                 artifacts |-> Loaded(Current)]
<1>1. Current \in 1 .. Count
  BY CampaignAssumption DEF CampaignInv, TypeInv, Collect, Current
<1>2. r \in RecordSpace
  <2>1. Loaded(Current) \in ArtifactMaps
    BY <1>1, LoadedTyped DEF CampaignInv
  <2>2. QED BY <1>1, <2>1 DEF CampaignInv, TypeInv, RecordSpace
<1>3. Labelled(r)
  <2>1. CASE Identified(Current)
    BY <2>1, LoadedLabelled
  <2>2. CASE ~Identified(Current)
    BY <2>2 DEF Labelled, Measured
  <2>3. QED BY <2>1, <2>2
<1>4. Evident(r, records)
  BY <1>1, <1>2, PromotedEvident DEF CampaignInv, Collect
<1>5. Record(r) /\ pc \notin {"down", "failing"}
  BY DEF Collect
<1>6. QED BY <1>1, <1>2, <1>3, <1>4, <1>5, RecordKeeps DEF Collect

LEMMA FinishKeeps == CampaignInv /\ Finish => CampaignInv'
<1> SUFFICES ASSUME CampaignInv, Finish PROVE CampaignInv'
  OBVIOUS
<1>1. records \in Seq(RecordSpace) /\ SoundRecords(records)
  BY DEF CampaignInv, TypeInv
<1>2. Len(records) = Count \/ \E k \in 1 .. Len(records) : ~records[k].infrastructure_ok
  BY <1>1, CampaignAssumption DEF CampaignInv, Finish, Current, SoundRecords, Failed
<1>3. SoundReport(report') /\ report' \in Reports
  BY <1>1, <1>2, PayloadSound, PayloadTyped DEF Finish
<1>4. TypeInv'
  BY <1>3 DEF CampaignInv, TypeInv, Finish, Points, processes
<1>5. QED BY <1>3, <1>4 DEF CampaignInv, Finish, Failed, Fatal

LEMMA StartKeeps == CampaignInv /\ Start => CampaignInv'
<1> SUFFICES ASSUME CampaignInv, Start PROVE CampaignInv'
  OBVIOUS
<1>1. NoReport \in Reports /\ SoundReport(NoReport)
  BY CampaignAssumption DEF NoReport, Reports, SoundReport, SoundRecords, SoundVerdict
<1>2. previous' \in Reports /\ SoundReport(previous')
  BY <1>1 DEF CampaignInv, TypeInv, Start
<1>3. records' = <<>> /\ records' \in Seq(RecordSpace) /\ Len(records') = 0
  BY DEF Start
<1>4. TypeInv'
  BY <1>2, <1>3, CampaignAssumption DEF CampaignInv, TypeInv, Start, Points, processes
<1>5. SoundRecords(records')
  BY <1>3, CampaignAssumption DEF SoundRecords
<1>6. QED BY <1>2, <1>3, <1>4, <1>5 DEF CampaignInv, Start

(* The steps that only move main() on. *)
LEMMA MoveKeeps ==
  ASSUME CampaignInv, Wait \/ Timeout \/ Terminated \/ Signal
  PROVE  CampaignInv'
<1>1. TypeInv'
  <2>1. CASE Wait \/ Timeout \/ Signal
    BY <2>1 DEF CampaignInv, TypeInv, Wait, Timeout, Signal, Points, processes
  <2>2. CASE Terminated
    <3>1. TypeInv /\ invocation \in 1 .. MaxInvocations
      BY <2>2 DEF CampaignInv, TypeInv, Terminated
    <3>2. runners' \in [1 .. MaxInvocations -> LiveRunners \cup {NoRunner}]
      BY <2>2, <3>1 DEF TypeInv, Terminated
    <3>3. ASSUME Own.phase = "measure"
          PROVE  [env |-> Own.env, path |-> Head(Own.todo)] \in LiveBackends
      <4>1. Own \in LiveRunners
        BY <3>1, <3>3 DEF TypeInv, Own, NoRunner
      <4>2. Head(Own.todo) \in Paths
        BY <4>1 DEF LiveRunners
      <4>3. QED BY <4>1, <4>2 DEF LiveRunners, LiveBackends
    <3>4. backends' \in SUBSET LiveBackends
      BY <2>2, <3>1, <3>3 DEF TypeInv, Terminated
    <3>5. QED BY <2>2, <3>1, <3>2, <3>4 DEF TypeInv, Terminated, Points
  <2>3. QED BY <2>1, <2>2
<1>2. UNCHANGED <<report, records, previous>>
  BY DEF Wait, Timeout, Terminated, Signal
<1>3. pc' # "failing" /\ (pc' \notin {"down", "next", "failing"} => pc \notin {"down", "next", "failing"})
  BY DEF Wait, Timeout, Terminated, Signal
<1>4. (\E k \in 1 .. Len(records) : Fatal(k)) => pc' \in {"failing", "down"}
  BY DEF CampaignInv, Wait, Timeout, Terminated, Signal
<1>5. QED BY <1>1, <1>2, <1>3, <1>4, QuietKeeps DEF CampaignInv

LEMMA WrittenTyped ==
  ASSUME TypeInv, NEW e \in Environments, NEW p \in Paths, Writes(e, p)
  PROVE  disk' \in [Paths -> Artifacts \cup {None}]
<1>1. PICK whole \in BOOLEAN, result \in Results :
        disk' = [disk EXCEPT ![p] =
                   [whole |-> whole, env |-> e, payload |-> NoPayload, result |-> result]]
  BY DEF Writes
<1>2. [whole |-> whole, env |-> e, payload |-> NoPayload, result |-> result] \in Artifacts
  BY DEF Artifacts, Payloads
<1>3. QED BY <1>1, <1>2 DEF TypeInv

LEMMA RunnerTyped ==
  ASSUME TypeInv, NEW i \in 1 .. MaxInvocations, RunnerStep(i)
  PROVE  TypeInv'
<1>1. ASSUME runners[i].phase # "exited"
      PROVE  /\ runners[i] \in LiveRunners
             /\ Target(i) \in Paths
             /\ NextTarget(runners[i]) \in LiveRunners \cup {NoRunner}
             /\ AfterBackend(runners[i]) \in LiveRunners \cup {NoRunner}
  <2>1. runners[i] \in LiveRunners
    BY <1>1 DEF TypeInv, NoRunner
  <2>2. Target(i) \in Paths
    BY <2>1 DEF LiveRunners, Target
  <2>3. NextTarget(runners[i]) \in LiveRunners \cup {NoRunner}
    <3>1. CASE Len(runners[i].todo) = 1
      BY <3>1 DEF NextTarget
    <3>2. CASE Len(runners[i].todo) # 1
      <4>1. Tail(runners[i].todo) \in Seq(Paths) \ {<<>>}
        <5> DEFINE todo == runners[i].todo
        <5>1. todo \in Seq(Paths) /\ todo # <<>>
          BY <2>1 DEF LiveRunners
        <5>2. Len(todo) \in Nat /\ Len(todo) # 0
          BY <5>1
        <5>3. Tail(todo) \in Seq(Paths) /\ Len(Tail(todo)) = Len(todo) - 1
          BY <5>1, <5>2
        <5>4. Len(Tail(todo)) # 0
          BY <3>2, <5>2, <5>3
        <5>5. ASSUME Tail(todo) = <<>> PROVE FALSE
          <6>1. Len(Tail(todo)) = Len(<<>>)
            BY <5>5
          <6>2. QED BY <5>4, <6>1
        <5>6. QED BY <5>3, <5>5
      <4>2. NextTarget(runners[i]) =
              [phase |-> "clear", env |-> runners[i].env, todo |-> Tail(runners[i].todo)]
        BY <2>1, <3>2 DEF NextTarget, LiveRunners
      <4>3. QED BY <2>1, <4>1, <4>2 DEF LiveRunners, Phases
    <3>3. QED BY <3>1, <3>2
  <2>4. [runners[i] EXCEPT !.phase = "attach"] \in LiveRunners
    BY <2>1 DEF LiveRunners, Phases
  <2>5. QED BY <2>1, <2>2, <2>3, <2>4 DEF AfterBackend
<1>2. disk' \in [Paths -> Artifacts \cup {None}]
  <2>1. CASE RunnerClears(i)
    BY <2>1 DEF TypeInv, RunnerClears
  <2>2. CASE runners[i].phase = "measure" /\ Writes(runners[i].env, Target(i))
    <3>1. Target(i) \in Paths /\ runners[i].env \in Environments
      BY <1>1, <2>2 DEF LiveRunners
    <3>2. QED BY <2>2, <3>1, WrittenTyped
  <2>3. CASE RunnerAttaches(i)
    <3>1. disk[Target(i)] \in Artifacts /\ runners[i].env \in Environments
      BY <1>1, <2>3 DEF TypeInv, RunnerAttaches, None, LiveRunners
    <3>2. [disk[Target(i)] EXCEPT !.payload = runners[i].env.payload] \in Artifacts
      BY <3>1 DEF Artifacts, Payloads
    <3>3. QED BY <2>3, <3>2 DEF TypeInv, RunnerAttaches
  <2>4. CASE UNCHANGED disk
    BY <2>4 DEF TypeInv
  <2>5. QED BY <2>1, <2>2, <2>3, <2>4 DEF RunnerStep, RunnerGivesUp, RunnerMeasures, AttachFails
<1>3. runners' \in [1 .. MaxInvocations -> LiveRunners \cup {NoRunner}]
  <2>1. CASE RunnerGivesUp(i)
    BY <2>1 DEF TypeInv, RunnerGivesUp
  <2>2. ASSUME NEW phase \in Phases, runners' = [runners EXCEPT ![i].phase = phase],
               runners[i].phase # "exited"
        PROVE  runners' \in [1 .. MaxInvocations -> LiveRunners \cup {NoRunner}]
    <3>1. [runners[i] EXCEPT !.phase = phase] \in LiveRunners
      BY <1>1, <2>2 DEF LiveRunners
    <3>2. QED BY <2>2, <3>1 DEF TypeInv
  <2>3. CASE RunnerClears(i)
    BY <2>2, <2>3 DEF RunnerClears, Phases
  <2>4. CASE RunnerMeasures(i)
    <3>1. runners[i].phase # "exited" /\ runners' = [runners EXCEPT ![i] = AfterBackend(@)]
      BY <2>4 DEF RunnerMeasures
    <3>2. QED BY <1>1, <3>1 DEF TypeInv
  <2>5. CASE RunnerAttaches(i) \/ AttachFails(i)
    <3>1. runners[i].phase # "exited" /\ runners' = [runners EXCEPT ![i] = NextTarget(@)]
      BY <2>5 DEF RunnerAttaches, AttachFails
    <3>2. QED BY <1>1, <3>1 DEF TypeInv
  <2>6. QED BY <2>1, <2>3, <2>4, <2>5 DEF RunnerStep
<1>4. QED BY <1>2, <1>3 DEF RunnerStep, campaign, TypeInv

LEMMA BackendTyped ==
  ASSUME TypeInv, NEW b \in backends, BackendStep(b)
  PROVE  TypeInv'
<1>1. b.env \in Environments /\ b.path \in Paths
  BY DEF TypeInv, LiveBackends
<1>2. disk' \in [Paths -> Artifacts \cup {None}]
  BY <1>1, WrittenTyped DEF BackendStep, TypeInv
<1>3. backends' \in SUBSET LiveBackends
  BY DEF TypeInv, BackendStep
<1>4. QED BY <1>2, <1>3 DEF BackendStep, campaign, TypeInv

LEMMA RunnerKeeps ==
  ASSUME CampaignInv,
         \/ \E i \in 1 .. MaxInvocations : RunnerStep(i)
         \/ \E b \in backends : BackendStep(b)
  PROVE  CampaignInv'
<1>1. TypeInv'
  BY RunnerTyped, BackendTyped DEF CampaignInv
<1>2. UNCHANGED <<report, campaign>>
  BY DEF RunnerStep, BackendStep
<1>3. QED BY <1>1, <1>2, QuietKeeps DEF CampaignInv, campaign

LEMMA StepInv == CampaignInv /\ [Next]_vars => CampaignInv'
<1> SUFFICES ASSUME CampaignInv, [Next]_vars PROVE CampaignInv'
  OBVIOUS
<1>1. CASE Progress
  BY <1>1, SkipKeeps, ReuseKeeps, PreflightKeeps, LaunchKeeps, CollectKeeps, FinishKeeps,
     MoveKeeps DEF Progress
<1>2. CASE UNCHANGED vars
  <2>1. TypeInv'
    BY <1>2 DEF CampaignInv, TypeInv, vars, campaign, processes
  <2>2. QED BY <1>2, <2>1, QuietKeeps DEF CampaignInv, vars, campaign
<1>3. QED BY <1>1, <1>2, StartKeeps, MoveKeeps, RunnerKeeps DEF Next

THEOREM CampaignInvariant == Spec => []CampaignInv
  BY InitInv, StepInv, PTL DEF Spec


-----------------------------------------------------------------------------

LEMMA SoundReportHolds ==
  ASSUME TypeInv, SoundReport(report)
  PROVE  PassedReportSound /\ GateEvidence /\ IdentityHolds
<1> DEFINE recs == report.records
<1>1. recs \in Seq(RecordSpace) /\ DOMAIN recs = 1 .. Len(recs) /\ Len(recs) \in Nat
  BY DEF TypeInv, Reports
<1>2. ASSUME NEW r \in Reported
      PROVE  \E k \in 1 .. Len(recs) : r = recs[k] /\ recs[k] \in RecordSpace
  BY <1>1 DEF Reported, ToSet
<1>3. \A k \in 1 .. Len(recs) :
        recs[k].experiment = k /\ Labelled(recs[k]) /\ Evident(recs[k], recs)
  BY DEF SoundReport, SoundRecords
<1>4. IdentityHolds
  <2>1. ASSUME NEW r \in Reported, Measured(r)
        PROVE  /\ DOMAIN r.artifacts = ToSet(Experiments[r.experiment].paths)
               /\ \A p \in DOMAIN r.artifacts :
                    \A e \in r.env : Claims(r.artifacts[p], e)
    <3>1. Labelled(r)
      BY <1>2, <1>3
    <3>2. QED BY <2>1, <3>1 DEF Labelled
  <2>2. QED BY <2>1 DEF IdentityHolds, Claims
<1>5. GateEvidence
  <2>1. ASSUME NEW r \in Reported PROVE Evident(r, recs)
    BY <1>2, <1>3
  <2>2. QED BY <2>1 DEF GateEvidence, Evident
<1>6. PassedReportSound
  <2> SUFFICES ASSUME report.passed
               PROVE  /\ [k \in DOMAIN recs |-> recs[k].experiment] = [k \in 1 .. Count |-> k]
                      /\ \A r \in Reported : r.infrastructure_ok
                      /\ Acceptance =>
                           /\ \E r \in Reported : Measured(r)
                           /\ \A r \in Reported : AllPass(r.artifacts)
    BY DEF PassedReportSound
  <2>1. /\ Len(recs) = Count
        /\ \A k \in 1 .. Len(recs) : recs[k].infrastructure_ok
        /\ Acceptance =>
             /\ \E k \in 1 .. Len(recs) : DOMAIN recs[k].artifacts # {}
             /\ \A k \in 1 .. Len(recs) : AllPass(recs[k].artifacts)
    BY DEF SoundReport, SoundVerdict
  <2>2. [k \in DOMAIN recs |-> recs[k].experiment] = [k \in 1 .. Count |-> k]
    BY <1>1, <1>3, <2>1
  <2>3. \A r \in Reported : r.infrastructure_ok
    BY <1>2, <2>1
  <2>4. ASSUME NEW k \in 1 .. Len(recs), DOMAIN recs[k].artifacts # {}
        PROVE  recs[k] \in Reported /\ Measured(recs[k])
    <3>1. recs[k] \in RecordSpace /\ recs[k] \in Reported
      BY <1>1 DEF Reported, ToSet
    <3>2. recs[k].state \in {"executed", "resumed"}
      BY <1>3, <2>4, <3>1 DEF Labelled, RecordSpace
    <3>3. QED BY <2>1, <3>1, <3>2 DEF Measured
  <2>5. Acceptance => \E r \in Reported : Measured(r)
    BY <2>1, <2>4
  <2>6. Acceptance => \A r \in Reported : AllPass(r.artifacts)
    BY <1>2, <2>1
  <2>7. QED BY <2>2, <2>3, <2>5, <2>6
<1>7. QED BY <1>4, <1>5, <1>6

(* A report that says "passed" covers the whole manifest, hides no failure *)
(* and, under an acceptance contract, rests on measured artifacts none of  *)
(* which missed.                                                           *)
THEOREM PassedIsSound == Spec => []PassedReportSound
<1>1. CampaignInv => PassedReportSound
  BY SoundReportHolds DEF CampaignInv
<1>2. QED BY <1>1, CampaignInvariant, PTL

(* An experiment behind a decryption gate rests on a source measured in    *)
(* the same campaign that decrypted every token.                           *)
THEOREM GatesRestOnEvidence == Spec => []GateEvidence
<1>1. CampaignInv => GateEvidence
  BY SoundReportHolds DEF CampaignInv
<1>2. QED BY <1>1, CampaignInvariant, PTL

(* A measured record has a whole artifact at every path, measured with its *)
(* version and binary and stamped with its payload, whatever left-over     *)
(* runners and backends write in the meantime.                             *)
THEOREM IdentitiesHold == Spec => []IdentityHolds
<1>1. CampaignInv => IdentityHolds
  BY SoundReportHolds DEF CampaignInv
<1>2. QED BY <1>1, CampaignInvariant, PTL

(* After a failure that may not be ignored nothing more is measured.       *)
THEOREM StopsAtFailure == Spec => FailsFast
<1> DEFINE Fast ==
      \A r \in ToSet(records) :
        ~r.infrastructure_ok /\ ~Experiments[r.experiment].lenient =>
          records' \in {records, <<>>} /\ pc' # "launched"
<1>1. ASSUME CampaignInv, [Next]_vars PROVE [Fast]_vars
  <2> SUFFICES ASSUME NEW r \in ToSet(records), ~r.infrastructure_ok,
                      ~Experiments[r.experiment].lenient
               PROVE  records' \in {records, <<>>} /\ pc' # "launched"
    OBVIOUS
  <2>1. \E k \in 1 .. Len(records) : Fatal(k)
    BY <1>1 DEF CampaignInv, TypeInv, ToSet, Fatal, Failed
  <2>2. pc \in {"failing", "down"}
    BY <1>1, <2>1 DEF CampaignInv
  <2>3. CASE Start
    BY <2>3 DEF Start
  <2>4. CASE Progress
    BY <2>2, <2>4 DEF Progress, Skip, Reuse, PreflightFails, Launch, Wait, Timeout,
       Terminated, Collect, Finish
  <2>5. CASE Signal
    BY <2>5 DEF Signal
  <2>6. CASE \/ \E i \in 1 .. MaxInvocations : RunnerStep(i)
             \/ \E b \in backends : BackendStep(b)
    BY <2>2, <2>6 DEF RunnerStep, BackendStep, campaign
  <2>7. CASE UNCHANGED vars
    BY <2>2, <2>7 DEF vars, campaign
  <2>8. QED BY <1>1, <2>3, <2>4, <2>5, <2>6, <2>7 DEF Next
<1>2. QED BY <1>1, CampaignInvariant, PTL DEF Spec, FailsFast

(* --resume does not repeat what its prior report measured under the same  *)
(* environment and what lies untouched on disk.                            *)
THEOREM ResumesWhatItCan == Spec => ResumeReuses
<1> DEFINE Repeated ==
      \E r \in ToSet(previous.records) :
         /\ r.experiment = Current /\ Measured(r) /\ r.env = {env}
         /\ \A p \in DOMAIN r.artifacts : disk[p] = r.artifacts[p]
<1>1. ASSUME CampaignInv, [Next]_vars, pc = "next", pc' = "launched", resume, Repeated
      PROVE  FALSE
  <2>1. Launch
    BY <1>1 DEF Next, Progress, Start, Skip, Reuse, PreflightFails, Record, AfterRecord, Wait,
       Timeout, Terminated, Collect, Finish, Signal, RunnerStep, BackendStep, vars, campaign
  <2>2. PICK k \in 1 .. Len(previous.records) :
          LET r == previous.records[k]
          IN  /\ r.experiment = Current /\ Measured(r) /\ r.env = {env}
              /\ \A p \in DOMAIN r.artifacts : disk[p] = r.artifacts[p]
    BY <1>1 DEF CampaignInv, TypeInv, Reports, ToSet
  <2> DEFINE r == previous.records[k]
  <2>3. r.experiment = Current /\ Measured(r) /\ r.env = {env}
        /\ \A p \in DOMAIN r.artifacts : disk[p] = r.artifacts[p]
    BY <2>2
  <2>4. Labelled(r)
    BY <1>1 DEF CampaignInv, SoundReport, SoundRecords
  <2>5. r \in ToSet(previous.records)
    BY <1>1 DEF CampaignInv, TypeInv, Reports, ToSet
  <2>6. Known(Current)
    BY <2>3, <2>5 DEF Known
  <2>7. DOMAIN r.artifacts = ToSet(Experiments[Current].paths)
        /\ \A p \in DOMAIN r.artifacts : r.artifacts[p].whole /\ Claims(r.artifacts[p], env)
    BY <2>3, <2>4 DEF Labelled
  <2>8. Identified(Current)
    BY <2>3, <2>7 DEF Identified, Claims
  <2>9. QED BY <1>1, <2>1, <2>6, <2>8 DEF Launch, Reusable
<1>2. CampaignInv /\ [Next]_vars => [pc = "next" /\ pc' = "launched" /\ resume => ~Repeated]_vars
  BY <1>1
<1>3. QED BY <1>2, CampaignInvariant, PTL DEF Spec, ResumeReuses

-----------------------------------------------------------------------------

LEMMA RunnerInvInit == Init => RunnerInv
  BY DEF Init, RunnerInv, NoRunner

LEMMA RunnerMoves ==
  ASSUME TypeInv, NEW i \in 1 .. MaxInvocations, RunnerStep(i)
  PROVE  /\ runners[i].phase # "exited" /\ UNCHANGED <<report, campaign, backends>>
         /\ \A j \in 1 .. MaxInvocations : j # i => runners'[j] = runners[j]
  BY DEF RunnerStep, RunnerGivesUp, RunnerClears, RunnerMeasures, RunnerAttaches, AttachFails,
     TypeInv

LEMMA RunnerInvStep ==
  ASSUME ~Interrupts, CampaignInv, RunnerInv, [Next]_vars
  PROVE  RunnerInv'
<1>1. TypeInv
  BY DEF CampaignInv
<1>2. CASE Start
  BY <1>1, <1>2 DEF Start, RunnerInv, processes
<1>3. CASE Skip \/ Reuse \/ PreflightFails \/ Finish
  BY <1>3 DEF Skip, Reuse, PreflightFails, Finish, Record, RunnerInv, processes
<1>4. CASE Launch
  BY <1>1, <1>4 DEF Launch, RunnerInv, TypeInv
<1>5. CASE Wait \/ Timeout
  BY <1>5 DEF Wait, Timeout, RunnerInv, processes
<1>6. CASE Terminated
  BY <1>1, <1>6 DEF Terminated, RunnerInv, TypeInv, NoRunner
<1>7. CASE Collect
  BY <1>7 DEF Collect, RunnerInv, Own, processes
<1>8. CASE Signal
  BY <1>8 DEF Signal
<1>9. ASSUME NEW i \in 1 .. MaxInvocations, RunnerStep(i) PROVE RunnerInv'
  BY <1>1, <1>9, RunnerMoves DEF RunnerInv, campaign
<1>10. CASE \E b \in backends : BackendStep(b)
  BY <1>10 DEF BackendStep, campaign, RunnerInv
<1>11. CASE UNCHANGED vars
  BY <1>11 DEF vars, campaign, processes, RunnerInv
<1>12. QED
  BY <1>2, <1>3, <1>4, <1>5, <1>6, <1>7, <1>8, <1>9, <1>10, <1>11 DEF Next, Progress

LEMMA BackendInvStep == BackendInv /\ [Next]_vars => BackendInv'
  BY DEF BackendInv, Next, Progress, Start, Skip, Reuse, PreflightFails, Launch, Wait, Timeout,
     Terminated, Collect, Finish, Signal, RunnerStep, BackendStep, vars, processes

LEMMA BackendInvariant == Spec => []BackendInv
<1>1. Init => BackendInv
  BY DEF Init, BackendInv
<1>2. QED BY <1>1, BackendInvStep, PTL DEF Spec

(* Unless signals interrupt it, a campaign that has ended has left no      *)
(* runner's script behind, however its runners hang, and no backend that   *)
(* ends on SIGTERM.                                                        *)
THEOREM NoRunnerIsLeft ==
  ASSUME ~Interrupts
  PROVE  Spec => []RunnerEndsWithCampaign
<1>1. CampaignInv /\ RunnerInv /\ [Next]_vars => RunnerInv'
  BY RunnerInvStep
<1>2. RunnerInv /\ BackendInv => RunnerEndsWithCampaign
  BY DEF RunnerInv, BackendInv, RunnerEndsWithCampaign
<1>3. QED BY <1>1, <1>2, RunnerInvInit, CampaignInvariant, BackendInvariant, PTL DEF Spec

-----------------------------------------------------------------------------

LEMMA OwnAppended ==
  ASSUME NEW recs \in Seq(RecordSpace), OwnRecords(recs), NEW r \in RecordSpace,
         Measured(r) /\ r.state = "executed" =>
           \A p \in DOMAIN r.artifacts : r.env = {r.artifacts[p].env}
  PROVE  OwnRecords(Append(recs, r))
<1>1. ASSUME NEW k \in 1 .. Len(Append(recs, r))
      PROVE  Append(recs, r)[k] = r \/ (k \in 1 .. Len(recs) /\ Append(recs, r)[k] = recs[k])
  OBVIOUS
<1>2. QED BY <1>1 DEF OwnRecords

LEMMA HeadOrTail ==
  ASSUME NEW S, NEW s \in Seq(S), s # <<>>
  PROVE  /\ Head(s) \in ToSet(s)
         /\ \A x \in ToSet(s) : x # Head(s) => x \in ToSet(Tail(s))
         /\ Len(s) = 1 => ToSet(s) = {Head(s)}
<1>1. Len(s) \in Nat \ {0} /\ DOMAIN s = 1 .. Len(s) /\ Head(s) = s[1]
  OBVIOUS
<1>2. Tail(s) \in Seq(S) /\ Len(Tail(s)) = Len(s) - 1
  BY <1>1
<1>3. \A k \in 2 .. Len(s) : Tail(s)[k - 1] = s[k] /\ k - 1 \in DOMAIN Tail(s)
  BY <1>1, <1>2
<1>4. ASSUME NEW x \in ToSet(s), x # Head(s) PROVE x \in ToSet(Tail(s))
  <2>1. PICK k \in 1 .. Len(s) : x = s[k]
    BY <1>1 DEF ToSet
  <2>2. k \in 2 .. Len(s)
    BY <1>1, <1>4, <2>1
  <2>3. QED BY <1>3, <2>1, <2>2 DEF ToSet
<1>5. QED BY <1>1, <1>4 DEF ToSet

LEMMA FreshInit == Init => FreshInv
  BY DEF Init, FreshInv, OwnRecords, NoReport

(* A step of the runner: of what it was to do, the head of its list is     *)
(* done or absent when it goes on to the next.                             *)
LEMMA OwnRunnerFresh ==
  ASSUME ~EarlyExits, CampaignInv, RunnerInv, FreshInv,
         NEW i \in 1 .. MaxInvocations, RunnerStep(i)
  PROVE  FreshInv'
<1>1. runners[i].phase # "exited" /\ UNCHANGED <<report, campaign>>
  BY RunnerMoves DEF CampaignInv
<1>2. i = invocation /\ pc \in {"launched", "waiting", "terminating"}
  BY <1>1 DEF RunnerInv
<1>3. /\ runners[i] = Own /\ Own \in LiveRunners /\ Own.env = env
      /\ \A p \in ToSet(Experiments[Current].paths) : Untouched(p) \/ Fresh(p)
  BY <1>1, <1>2 DEF FreshInv, Own, CampaignInv, TypeInv, NoRunner
<1> DEFINE todo == Own.todo
<1>4. todo \in Seq(Paths) /\ todo # <<>> /\ Head(todo) \in Paths /\ Target(i) = Head(todo)
  BY <1>3 DEF LiveRunners, Target
<1>5. Own' = runners'[i] /\ env' = env /\ Current' = Current
  BY <1>1, <1>2 DEF Own, campaign, Current
<1>6. disk \in [Paths -> Artifacts \cup {None}] /\ runners \in [1 .. MaxInvocations -> LiveRunners \cup {NoRunner}]
  BY DEF CampaignInv, TypeInv
<1>7. Current \in 1 .. Count
  BY <1>2, CampaignAssumption DEF CampaignInv, TypeInv, Current
<1>8. ToSet(Experiments[Current].paths) \subseteq Paths
  BY <1>7, PathsOf
<1>9. ASSUME NEW p \in ToSet(Experiments[Current].paths)
      PROVE  (Own'.phase # "exited" => Own'.env = env) /\ (Untouched(p)' \/ Fresh(p)')
  <2>1. p \in Paths
    BY <1>8
  <2>2. CASE RunnerClears(i)
    <3>1. Own' = [Own EXCEPT !.phase = "measure"]
      BY <1>3, <1>5, <1>6, <2>2 DEF RunnerClears
    <3>2. Own'.todo = todo /\ Own'.env = env /\ Own'.phase = "measure"
      BY <1>3, <3>1 DEF LiveRunners
    <3>3. CASE p = Head(todo)
      <4>1. disk'[p] = None
        BY <1>4, <1>6, <2>1, <2>2, <3>3 DEF RunnerClears
      <4>2. QED BY <3>2, <4>1 DEF Fresh
    <3>4. CASE p # Head(todo)
      <4>1. disk'[p] = disk[p]
        BY <1>4, <1>6, <2>1, <2>2, <3>4 DEF RunnerClears
      <4>2. Untouched(p) => Untouched(p)'
        BY <3>2, <3>4 DEF Untouched
      <4>3. QED BY <1>3, <1>5, <3>2, <4>1, <4>2 DEF Fresh
    <3>5. QED BY <3>3, <3>4
  <2>3. CASE RunnerMeasures(i) \/ RunnerAttaches(i) \/ AttachFails(i)
    <3>1. Own.phase \in {"measure", "attach"}
          /\ Own' \in {NextTarget(Own), [Own EXCEPT !.phase = "attach"]}
      BY <1>3, <1>5, <1>6, <2>3 DEF RunnerMeasures, RunnerAttaches, AttachFails, AfterBackend
    <3>2. ASSUME Fresh(p) PROVE Fresh(p)'
      <4>1. CASE UNCHANGED disk
        BY <1>5, <3>2, <4>1 DEF Fresh
      <4>2. CASE Writes(runners[i].env, Target(i))
        <5>1. PICK whole \in BOOLEAN, result \in Results :
                disk' = [disk EXCEPT ![Target(i)] =
                           [whole |-> whole, env |-> Own.env, payload |-> NoPayload,
                            result |-> result]]
          BY <1>3, <4>2 DEF Writes
        <5>2. disk'[p] = disk[p] \/ disk'[p].env = env
          BY <1>3, <1>4, <1>6, <2>1, <5>1
        <5>3. QED BY <1>5, <3>2, <5>2 DEF Fresh
      <4>3. CASE RunnerAttaches(i)
        <5>1. disk[Target(i)] \in Artifacts
          BY <1>4, <1>6, <4>3 DEF RunnerAttaches, None
        <5>2. \/ disk'[p] = disk[p]
              \/ p = Target(i) /\ disk'[p] = [disk[p] EXCEPT !.payload = Own.env.payload]
          BY <1>3, <1>4, <1>6, <2>1, <4>3 DEF RunnerAttaches
        <5>3. CASE p = Target(i) /\ disk'[p] = [disk[p] EXCEPT !.payload = Own.env.payload]
          <6>1. disk[p] # None /\ disk[p].env = env
            BY <3>2, <4>3, <5>1, <5>3 DEF RunnerAttaches, Fresh, None
          <6>2. disk'[p].env = disk[p].env
            BY <5>1, <5>3 DEF Artifacts
          <6>3. QED BY <1>5, <6>1, <6>2 DEF Fresh
        <5>4. CASE disk'[p] = disk[p]
          BY <1>5, <3>2, <5>4 DEF Fresh
        <5>5. QED BY <5>2, <5>3, <5>4
      <4>4. QED BY <1>3, <2>3, <4>1, <4>2, <4>3 DEF RunnerMeasures, AttachFails
    <3>3. ASSUME p = Head(todo) PROVE Fresh(p)
      BY <1>3, <3>1, <3>3 DEF Untouched
    <3>4. CASE Own' = [Own EXCEPT !.phase = "attach"]
      <4>1. Own'.phase = "attach" /\ Own'.env = env /\ Own'.todo = todo
        BY <1>3, <3>4 DEF LiveRunners
      <4>2. Untouched(p) => Untouched(p)'
        BY <3>1, <4>1 DEF Untouched
      <4>3. QED BY <1>3, <1>5, <3>2, <4>1, <4>2
    <3>5. CASE Own' = NextTarget(Own) /\ Len(todo) = 1
      <4>1. Own' = NoRunner
        BY <3>5 DEF NextTarget
      <4>2. ToSet(todo) = {Head(todo)}
        BY <1>4, <3>5, HeadOrTail
      <4>3. Fresh(p)
        BY <1>3, <3>3, <4>2 DEF Untouched
      <4>4. QED BY <3>2, <4>1, <4>3 DEF NoRunner
    <3>6. CASE Own' = NextTarget(Own) /\ Len(todo) # 1
      <4>1. Own' = [Own EXCEPT !.phase = "clear", !.todo = Tail(@)]
        BY <3>6 DEF NextTarget
      <4>2. Own'.phase = "clear" /\ Own'.env = env /\ Own'.todo = Tail(todo)
        BY <1>3, <4>1 DEF LiveRunners
      <4>3. ASSUME p \in ToSet(todo), p # Head(todo) PROVE p \in ToSet(Tail(todo))
        BY <1>4, <4>3, HeadOrTail
      <4>4. Untouched(p) => Untouched(p)'
        BY <3>1, <4>2, <4>3 DEF Untouched
      <4>5. QED BY <1>3, <3>2, <4>2, <4>4
    <3>7. QED BY <3>1, <3>4, <3>5, <3>6
  <2>4. QED BY <2>2, <2>3 DEF RunnerStep, RunnerGivesUp
<1>10. \E p \in ToSet(Experiments[Current].paths) : TRUE
  BY <1>7, CampaignAssumption, HeadOrTail
<1>11. (Own'.phase # "exited" => Own'.env = env')
       /\ \A p \in ToSet(Experiments[Current].paths) : Untouched(p)' \/ Fresh(p)'
  BY <1>5, <1>9, <1>10
<1>12. QED BY <1>1, <1>2, <1>5, <1>11 DEF FreshInv, campaign, OwnRecords, Measured

(* Main's steps.  Collect reads what the runner has left when it has ended *)
(* by itself, which by then is absent or its own.                          *)
LEMMA FreshStep ==
  ASSUME ~EarlyExits, ~Interrupts, ~Lingering, CampaignInv, CampaignInv', RunnerInv, BackendInv,
         FreshInv, [Next]_vars
  PROVE  FreshInv'
<1>1. TypeInv /\ records \in Seq(RecordSpace)
  BY DEF CampaignInv, TypeInv
<1>2. CASE Start
  BY <1>2 DEF Start, FreshInv, OwnRecords
<1>3. ASSUME NEW r \in RecordSpace, records' = Append(records, r), report'.records = records',
             pc' \in {"next", "failing"},
             Measured(r) /\ r.state = "executed" =>
               \A p \in DOMAIN r.artifacts : r.env = {r.artifacts[p].env}
      PROVE  FreshInv'
  <2>1. OwnRecords(records')
    BY <1>1, <1>3, OwnAppended DEF FreshInv
  <2>2. QED BY <1>3, <2>1 DEF FreshInv
<1>4. Current \in Nat /\ (Current <= Count => Current \in 1 .. Count)
  BY <1>1, CampaignAssumption DEF Current
<1>5. CASE Skip
  <2>1. SkippedRecord \in RecordSpace
    BY <1>4, <1>5, NoArtifactsTyped DEF Skip, SkippedRecord, RecordSpace
  <2>2. records' = Append(records, SkippedRecord) /\ report'.records = records' /\ pc' = "next"
    BY <1>5 DEF Skip, Payload
  <2>3. ~Measured(SkippedRecord)
    BY DEF Measured, SkippedRecord
  <2>4. QED BY <1>3, <2>1, <2>2, <2>3
<1>6. CASE Reuse
  <2> DEFINE r == [experiment |-> Current, state |-> "resumed", env |-> {env},
                   infrastructure_ok |-> TRUE, artifacts |-> Loaded(Current)]
  <2>1. Current \in 1 .. Count
    BY <1>4, <1>6 DEF Reuse
  <2>2. r \in RecordSpace
    BY <1>1, <2>1, LoadedTyped DEF RecordSpace, TypeInv
  <2>3. records' = Append(records, r) /\ report'.records = records' /\ pc' \in {"next", "failing"}
    BY <1>6 DEF Reuse, Record, AfterRecord, Payload
  <2>4. r.state # "executed"
    OBVIOUS
  <2>5. QED BY <1>3, <2>2, <2>3, <2>4
<1>7. CASE PreflightFails
  <2> DEFINE r == [experiment |-> Current, state |-> "preflight-failed", env |-> {env},
                   infrastructure_ok |-> FALSE, artifacts |-> NoArtifacts]
  <2>1. Current \in 1 .. Count
    BY <1>4, <1>7 DEF PreflightFails
  <2>2. r \in RecordSpace
    BY <1>1, <2>1, NoArtifactsTyped DEF RecordSpace, TypeInv
  <2>3. records' = Append(records, r) /\ report'.records = records' /\ pc' \in {"next", "failing"}
    BY <1>7 DEF PreflightFails, Record, AfterRecord, Payload
  <2>4. r.state # "executed"
    OBVIOUS
  <2>5. QED BY <1>3, <2>2, <2>3, <2>4
<1>8. CASE Launch
  <2>1. Own' = [phase |-> "setup", env |-> env, todo |-> Experiments[Current].paths]
    BY <1>1, <1>8 DEF Launch, Own, TypeInv
  <2>2. \A p \in ToSet(Experiments[Current].paths) : Untouched(p)'
    BY <2>1 DEF Untouched
  <2>3. pc' = "launched" /\ UNCHANGED <<env, records, report>> /\ Current' = Current
    BY <1>8 DEF Launch, Current
  <2>4. QED BY <2>1, <2>2, <2>3 DEF FreshInv, OwnRecords, Measured
<1>9. CASE Wait \/ Timeout
  <2>1. pc \in {"launched", "waiting"} /\ pc' \in {"waiting", "terminating"}
        /\ (pc' = "terminating" => timed_out')
        /\ UNCHANGED <<disk, env, records, report, runners, invocation>>
    BY <1>9 DEF Wait, Timeout, processes
  <2>2. Own' = Own /\ Current' = Current
    BY <2>1 DEF Own, Current
  <2>3. QED BY <2>1, <2>2 DEF FreshInv, OwnRecords, Measured, Untouched, Fresh
<1>10. CASE Terminated
  BY <1>10 DEF Terminated, FreshInv, OwnRecords, Measured
<1>11. CASE Collect
  <2> DEFINE r == [experiment |-> Current, state |-> "executed", env |-> {env},
                   infrastructure_ok |-> Identified(Current) /\ ~timed_out,
                   artifacts |-> Loaded(Current)]
  <2>1. Current \in 1 .. Count
    BY <1>4, <1>11 DEF Collect, CampaignInv
  <2>2. Loaded(Current) \in ArtifactMaps
    BY <1>1, <2>1, LoadedTyped
  <2>3. r \in RecordSpace
    BY <1>1, <2>1, <2>2 DEF RecordSpace, TypeInv
  <2>4. records' = Append(records, r) /\ report'.records = records' /\ pc' \in {"next", "failing"}
    BY <1>11 DEF Collect, Record, AfterRecord, Payload
  <2>5. ASSUME Measured(r), NEW p \in DOMAIN r.artifacts PROVE r.env = {r.artifacts[p].env}
    <3>1. pc = "waiting" /\ Own.phase = "exited"
      BY <1>11, <2>5 DEF Collect, Measured, FreshInv
    <3>2. p \in ToSet(Experiments[Current].paths) /\ disk[p].whole /\ r.artifacts[p] = disk[p]
      BY DEF Loaded
    <3>3. Fresh(p)
      BY <3>1, <3>2 DEF FreshInv, Untouched
    <3>4. disk[p].env = env
      BY <3>2, <3>3 DEF Fresh, None
    <3>5. QED BY <3>2, <3>4
  <2>6. QED BY <1>3, <2>3, <2>4, <2>5
<1>12. CASE Finish
  BY <1>12 DEF Finish, FreshInv, OwnRecords, Measured, Payload
<1>13. ASSUME NEW i \in 1 .. MaxInvocations, RunnerStep(i) PROVE FreshInv'
  BY <1>13, OwnRunnerFresh
<1>14. CASE UNCHANGED vars
  BY <1>14 DEF vars, campaign, processes, FreshInv, OwnRecords, Measured, Untouched, Fresh, Own, Current
<1>15. QED
  BY <1>2, <1>5, <1>6, <1>7, <1>8, <1>9, <1>10, <1>11, <1>12, <1>13, <1>14
  DEF Next, Progress, Signal, BackendInv

(* What is reported as executed was measured in the environment its record *)
(* names, provided the runner clears old artifacts before it can fail, no  *)
(* signal interrupts the campaign and backends end on SIGTERM: a left-over *)
(* process and an early exit are the only ways to other evidence.          *)
THEOREM ExecutedIsOwn ==
  ASSUME ~EarlyExits, ~Interrupts, ~Lingering
  PROVE  Spec => []ExecutedEvidence
<1>1. CampaignInv /\ CampaignInv' /\ RunnerInv /\ BackendInv /\ FreshInv /\ [Next]_vars
        => FreshInv'
  BY FreshStep
<1>2. CampaignInv /\ RunnerInv /\ [Next]_vars => RunnerInv'
  BY RunnerInvStep
<1>3. CampaignInv /\ FreshInv => ExecutedEvidence
  <2> SUFFICES ASSUME CampaignInv, FreshInv, NEW q \in Reported, Measured(q),
                      q.state = "executed", NEW p \in DOMAIN q.artifacts
               PROVE  q.env = {q.artifacts[p].env}
    BY DEF ExecutedEvidence
  <2>1. report.records \in Seq(RecordSpace)
    BY DEF CampaignInv, TypeInv, Reports
  <2>2. PICK k \in 1 .. Len(report.records) : q = report.records[k]
    BY <2>1 DEF Reported, ToSet
  <2>3. OwnRecords(report.records)
    BY DEF FreshInv
  <2>4. QED BY <2>2, <2>3 DEF OwnRecords
<1>4. QED
  BY <1>1, <1>2, <1>3, RunnerInvInit, FreshInit, CampaignInvariant, BackendInvariant, PTL DEF Spec

-----------------------------------------------------------------------------

LEMMA StampInit == Init => StampInv
  BY DEF Init, StampInv, OwnPayloads, NoReport, NoRunner, None

LEMMA PayloadAppended ==
  ASSUME NEW recs \in Seq(RecordSpace), OwnPayloads(recs), NEW r \in RecordSpace,
         Measured(r) => \A p \in DOMAIN r.artifacts, e \in r.env :
                          e.payload \in {NoPayload, r.artifacts[p].env.payload}
  PROVE  OwnPayloads(Append(recs, r))
<1>1. ASSUME NEW k \in 1 .. Len(Append(recs, r))
      PROVE  Append(recs, r)[k] = r \/ (k \in 1 .. Len(recs) /\ Append(recs, r)[k] = recs[k])
  OBVIOUS
<1>2. QED BY <1>1 DEF OwnPayloads

(* What is read with the expected hash was measured with that payload. *)
LEMMA ReadWithPayload ==
  ASSUME TypeInv, StampInv, NEW e \in 1 .. Count, Identified(e), NEW p \in DOMAIN Loaded(e)
  PROVE  env.payload \in {NoPayload, Loaded(e)[p].env.payload}
<1>1. p \in Paths /\ Loaded(e)[p] = disk[p] /\ disk[p].whole
      /\ env.payload \in {NoPayload, disk[p].payload}
  BY PathsOf DEF Loaded, Identified
<1>2. disk[p].payload \in {NoPayload, disk[p].env.payload}
  BY <1>1 DEF StampInv
<1>3. QED BY <1>1, <1>2

(* A step of the only runner.  It clears before it measures, and what it   *)
(* finds when it attaches is its own. *)
LEMMA RunnerStamps ==
  ASSUME TypeInv, RunnerInv, StampInv, NEW i \in 1 .. MaxInvocations, RunnerStep(i)
  PROVE  StampInv'
<1>1. /\ runners[i].phase # "exited" /\ UNCHANGED <<report, campaign>>
      /\ \A j \in 1 .. MaxInvocations : j # i => runners'[j] = runners[j]
  BY RunnerMoves
<1>2. \A j \in 1 .. MaxInvocations : j # i => runners'[j].phase = "exited"
  BY <1>1 DEF RunnerInv
<1>3. runners[i] \in LiveRunners /\ runners[i].env \in Environments
      /\ Target(i) = Head(runners[i].todo) /\ Target(i) \in Paths
  BY <1>1 DEF TypeInv, NoRunner, LiveRunners, Target
<1>4. disk \in [Paths -> Artifacts \cup {None}]
      /\ runners \in [1 .. MaxInvocations -> LiveRunners \cup {NoRunner}]
  BY DEF TypeInv
<1>5. OwnPayloads(records') /\ OwnPayloads(report'.records)
  BY <1>1 DEF StampInv, campaign
<1> DEFINE Stamped(p) == disk[p].whole => disk[p].payload \in {NoPayload, disk[p].env.payload}
<1>6. \A p \in Paths : Stamped(p)
  BY DEF StampInv
<1>7. NextTarget(runners[i]).phase \in {"exited", "clear"}
  BY <1>3 DEF NextTarget, NoRunner, LiveRunners
<1>8. CASE RunnerGivesUp(i) \/ AttachFails(i)
  <2>1. UNCHANGED disk /\ runners'[i].phase \in {"exited", "clear"}
    <3>1. CASE RunnerGivesUp(i)
      <4>1. UNCHANGED disk /\ runners'[i] = NoRunner
        BY <1>4, <3>1 DEF RunnerGivesUp
      <4>2. QED BY <4>1 DEF NoRunner
    <3>2. CASE AttachFails(i)
      <4>1. UNCHANGED disk /\ runners'[i] = NextTarget(runners[i])
        BY <1>4, <3>2 DEF AttachFails
      <4>2. QED BY <1>7, <4>1
    <3>3. QED BY <1>8, <3>1, <3>2
  <2>2. \A p \in Paths : Stamped(p)'
    BY <1>6, <2>1
  <2>3. QED BY <1>2, <1>5, <2>1, <2>2 DEF StampInv
<1>9. CASE RunnerClears(i)
  <2>1. runners'[i] = [runners[i] EXCEPT !.phase = "measure"]
    BY <1>4, <1>9 DEF RunnerClears
  <2>2. runners'[i].phase = "measure" /\ runners'[i].todo = runners[i].todo
    BY <1>3, <2>1 DEF LiveRunners
  <2>3. Target(i)' = Target(i)
    BY <2>2 DEF Target
  <2>4. disk'[Target(i)] = None /\ \A p \in Paths : p # Target(i) => disk'[p] = disk[p]
    BY <1>3, <1>4, <1>9 DEF RunnerClears
  <2>5. \A p \in Paths : Stamped(p)'
    BY <1>6, <2>4 DEF None
  <2>6. QED BY <1>2, <1>5, <2>2, <2>3, <2>4, <2>5 DEF StampInv
<1>10. CASE RunnerMeasures(i)
  <2>1. disk[Target(i)] = None
    BY <1>10 DEF RunnerMeasures, StampInv
  <2>2. /\ \A p \in Paths : p # Target(i) => disk'[p] = disk[p]
        /\ \/ disk'[Target(i)] = None
           \/ disk'[Target(i)].env = runners[i].env /\ disk'[Target(i)].payload = NoPayload
    <3>1. CASE UNCHANGED disk
      BY <2>1, <3>1
    <3>2. CASE Writes(runners[i].env, Target(i))
      <4>1. PICK whole \in BOOLEAN, result \in Results :
              disk' = [disk EXCEPT ![Target(i)] =
                         [whole |-> whole, env |-> runners[i].env, payload |-> NoPayload,
                          result |-> result]]
        BY <3>2 DEF Writes
      <4>2. QED BY <1>3, <1>4, <4>1
    <3>3. QED BY <1>10, <3>1, <3>2 DEF RunnerMeasures
  <2>3. \A p \in Paths : Stamped(p)'
    BY <1>6, <2>2 DEF None
  <2>4. CASE runners'[i] = [runners[i] EXCEPT !.phase = "attach"]
    <3>1. runners'[i].phase = "attach" /\ runners'[i].todo = runners[i].todo
          /\ runners'[i].env = runners[i].env
      BY <1>3, <2>4 DEF LiveRunners
    <3>2. Target(i)' = Target(i)
      BY <3>1 DEF Target
    <3>3. QED BY <1>2, <1>5, <2>2, <2>3, <3>1, <3>2 DEF StampInv
  <2>5. CASE runners'[i] = NextTarget(runners[i])
    BY <1>2, <1>5, <1>7, <2>3, <2>5 DEF StampInv
  <2>6. QED BY <1>4, <1>10, <2>4, <2>5 DEF RunnerMeasures, AfterBackend
<1>11. CASE RunnerAttaches(i)
  <2>1. runners'[i].phase \in {"exited", "clear"}
    BY <1>4, <1>7, <1>11 DEF RunnerAttaches
  <2>2. disk[Target(i)] \in Artifacts /\ disk[Target(i)].env = runners[i].env
    BY <1>3, <1>4, <1>11 DEF RunnerAttaches, StampInv, None
  <2>3. /\ \A p \in Paths : p # Target(i) => disk'[p] = disk[p]
        /\ disk'[Target(i)] = [disk[Target(i)] EXCEPT !.payload = runners[i].env.payload]
    BY <1>3, <1>4, <1>11 DEF RunnerAttaches
  <2>4. disk'[Target(i)].payload = runners[i].env.payload
        /\ disk'[Target(i)].env = runners[i].env
    BY <2>2, <2>3 DEF Artifacts
  <2>5. \A p \in Paths : Stamped(p)'
    BY <1>6, <2>3, <2>4
  <2>6. QED BY <1>2, <1>5, <2>1, <2>5 DEF StampInv
<1>12. QED BY <1>8, <1>9, <1>10, <1>11 DEF RunnerStep

LEMMA StampStep ==
  ASSUME ~Interrupts, ~Lingering, CampaignInv, RunnerInv, BackendInv, StampInv, [Next]_vars
  PROVE  StampInv'
<1>1. TypeInv /\ records \in Seq(RecordSpace)
  BY DEF CampaignInv, TypeInv
<1> DEFINE Stamped(p) == disk[p].whole => disk[p].payload \in {NoPayload, disk[p].env.payload}
           Honest(i) ==
             /\ runners[i].phase = "measure" => disk[Target(i)] = None
             /\ runners[i].phase = "attach" =>
                  disk[Target(i)] = None \/ disk[Target(i)].env = runners[i].env
<1>2. /\ \A p \in Paths : Stamped(p)
      /\ \A i \in 1 .. MaxInvocations : Honest(i)
      /\ OwnPayloads(records) /\ OwnPayloads(report.records)
  BY DEF StampInv
<1>3. ASSUME UNCHANGED disk,
             \A i \in 1 .. MaxInvocations :
               runners'[i] = runners[i] \/ runners'[i].phase \in {"setup", "exited"},
             OwnPayloads(records'), OwnPayloads(report'.records)
      PROVE  StampInv'
  <2>1. \A p \in Paths : Stamped(p)'
    BY <1>2, <1>3
  <2>2. ASSUME NEW i \in 1 .. MaxInvocations PROVE Honest(i)'
    <3>1. CASE runners'[i] = runners[i]
      BY <1>2, <1>3, <3>1 DEF Target
    <3>2. CASE runners'[i].phase \in {"setup", "exited"}
      BY <3>2
    <3>3. QED BY <1>3, <3>1, <3>2
  <2>3. QED BY <1>3, <2>1, <2>2 DEF StampInv
<1>4. ASSUME NEW r \in RecordSpace, records' = Append(records, r), report'.records = records',
             UNCHANGED <<disk, runners>>,
             Measured(r) => \A p \in DOMAIN r.artifacts, e \in r.env :
                              e.payload \in {NoPayload, r.artifacts[p].env.payload}
      PROVE  StampInv'
  <2>1. OwnPayloads(records')
    BY <1>1, <1>2, <1>4, PayloadAppended
  <2>2. QED BY <1>3, <1>4, <2>1
<1>5. Current \in Nat /\ (Current <= Count => Current \in 1 .. Count)
  BY <1>1, CampaignAssumption DEF Current
<1>6. CASE Start
  <2>1. records' = <<>> /\ UNCHANGED <<disk, report, runners>>
    BY <1>6 DEF Start, processes
  <2>2. OwnPayloads(records')
    BY <2>1 DEF OwnPayloads
  <2>3. QED BY <1>2, <1>3, <2>1, <2>2
<1>7. CASE Skip
  <2>1. SkippedRecord \in RecordSpace
    BY <1>5, <1>7, NoArtifactsTyped DEF Skip, SkippedRecord, RecordSpace
  <2>2. records' = Append(records, SkippedRecord) /\ report'.records = records'
        /\ UNCHANGED <<disk, runners>>
    BY <1>7 DEF Skip, Payload, processes
  <2>3. ~Measured(SkippedRecord)
    BY DEF Measured, SkippedRecord
  <2>4. QED BY <1>4, <2>1, <2>2, <2>3
<1>8. ASSUME NEW r, Record(r), r.experiment = Current, Current <= Count, r.env = {env},
             r.infrastructure_ok \in BOOLEAN, UNCHANGED <<disk, processes>>,
             \/ r = [experiment |-> Current, state |-> "preflight-failed", env |-> {env},
                     infrastructure_ok |-> FALSE, artifacts |-> NoArtifacts]
             \/ \E state \in {"resumed", "executed"}, ok \in BOOLEAN :
                  /\ r = [experiment |-> Current, state |-> state, env |-> {env},
                          infrastructure_ok |-> ok, artifacts |-> Loaded(Current)]
                  /\ ok => Identified(Current)
      PROVE  StampInv'
  <2>1. Current \in 1 .. Count
    BY <1>5, <1>8
  <2>2. r \in RecordSpace
    BY <1>1, <1>8, <2>1, LoadedTyped, NoArtifactsTyped DEF RecordSpace, TypeInv
  <2>3. records' = Append(records, r) /\ report'.records = records' /\ UNCHANGED <<disk, runners>>
    BY <1>8 DEF Record, Payload, processes
  <2>4. ASSUME Measured(r), NEW p \in DOMAIN r.artifacts, NEW e \in r.env
        PROVE  e.payload \in {NoPayload, r.artifacts[p].env.payload}
    <3>1. Identified(Current) /\ r.artifacts = Loaded(Current) /\ e = env
      BY <1>8, <2>4 DEF Measured
    <3>2. QED BY <1>1, <2>1, <2>4, <3>1, ReadWithPayload
  <2>5. QED BY <1>4, <2>2, <2>3, <2>4
<1>9. CASE Reuse
  <2> DEFINE r == [experiment |-> Current, state |-> "resumed", env |-> {env},
                   infrastructure_ok |-> TRUE, artifacts |-> Loaded(Current)]
  <2>1. Record(r) /\ Current <= Count /\ UNCHANGED <<disk, processes>> /\ Identified(Current)
    BY <1>9 DEF Reuse, Reusable
  <2>2. QED BY <1>8, <2>1
<1>10. CASE PreflightFails
  <2> DEFINE r == [experiment |-> Current, state |-> "preflight-failed", env |-> {env},
                   infrastructure_ok |-> FALSE, artifacts |-> NoArtifacts]
  <2>1. Record(r) /\ Current <= Count /\ UNCHANGED <<disk, processes>>
    BY <1>10 DEF PreflightFails
  <2>2. QED BY <1>8, <2>1
<1>11. CASE Collect
  <2> DEFINE ok == Identified(Current) /\ ~timed_out
             r == [experiment |-> Current, state |-> "executed", env |-> {env},
                   infrastructure_ok |-> ok, artifacts |-> Loaded(Current)]
  <2>1. Record(r) /\ Current <= Count /\ UNCHANGED <<disk, processes>>
    BY <1>11 DEF Collect, CampaignInv
  <2>2. ok \in BOOLEAN /\ (ok => Identified(Current))
    OBVIOUS
  <2>3. QED BY <1>8, <2>1, <2>2
<1>12. CASE Launch
  <2>1. \A i \in 1 .. MaxInvocations :
          runners'[i] = runners[i] \/ runners'[i].phase = "setup"
    BY <1>1, <1>12 DEF Launch, TypeInv
  <2>2. UNCHANGED <<disk, records, report>>
    BY <1>12 DEF Launch
  <2>3. QED BY <1>2, <1>3, <2>1, <2>2
<1>13. CASE Terminated
  <2>1. \A i \in 1 .. MaxInvocations :
          runners'[i] = runners[i] \/ runners'[i].phase = "exited"
    BY <1>1, <1>13 DEF Terminated, TypeInv, NoRunner
  <2>2. UNCHANGED <<disk, records, report>>
    BY <1>13 DEF Terminated
  <2>3. QED BY <1>2, <1>3, <2>1, <2>2
<1>14. CASE Wait \/ Timeout
  <2>1. UNCHANGED <<disk, records, report, runners>>
    BY <1>14 DEF Wait, Timeout, processes
  <2>2. QED BY <1>2, <1>3, <2>1
<1>15. CASE Finish
  <2>1. UNCHANGED <<disk, records, runners>> /\ report'.records = records
    BY <1>15 DEF Finish, processes, Payload
  <2>2. QED BY <1>2, <1>3, <2>1
<1>16. CASE UNCHANGED vars
  <2>1. UNCHANGED <<disk, records, report, runners>>
    BY <1>16 DEF vars, campaign, processes
  <2>2. QED BY <1>2, <1>3, <2>1
<1>17. ASSUME NEW i \in 1 .. MaxInvocations, RunnerStep(i) PROVE StampInv'
  BY <1>1, <1>17, RunnerStamps
<1>18. QED
  BY <1>6, <1>7, <1>9, <1>10, <1>11, <1>12, <1>13, <1>14, <1>15, <1>16, <1>17
  DEF Next, Progress, Signal, BackendInv

(* No record rests on an artifact measured with another payload than the   *)
(* one it names, provided no signal interrupts the campaign and backends   *)
(* end on SIGTERM; early exits do no harm, since the script attaches only  *)
(* after it has cleared.                                                   *)
THEOREM PayloadsHold ==
  ASSUME ~Interrupts, ~Lingering
  PROVE  Spec => []PayloadHolds
<1>1. CampaignInv /\ RunnerInv /\ BackendInv /\ StampInv /\ [Next]_vars => StampInv'
  BY StampStep
<1>2. CampaignInv /\ RunnerInv /\ [Next]_vars => RunnerInv'
  BY RunnerInvStep
<1>3. CampaignInv /\ StampInv => PayloadHolds
  <2> SUFFICES ASSUME CampaignInv, StampInv, NEW q \in Reported, Measured(q),
                      NEW p \in DOMAIN q.artifacts, NEW e \in q.env
               PROVE  e.payload \in {NoPayload, q.artifacts[p].env.payload}
    BY DEF PayloadHolds
  <2>1. report.records \in Seq(RecordSpace)
    BY DEF CampaignInv, TypeInv, Reports
  <2>2. PICK k \in 1 .. Len(report.records) : q = report.records[k]
    BY <2>1 DEF Reported, ToSet
  <2>3. OwnPayloads(report.records)
    BY DEF StampInv
  <2>4. QED BY <2>2, <2>3 DEF OwnPayloads
<1>4. QED
  BY <1>1, <1>2, <1>3, RunnerInvInit, StampInit, CampaignInvariant, BackendInvariant, PTL DEF Spec
=============================================================================
