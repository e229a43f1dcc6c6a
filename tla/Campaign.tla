------------------------------ MODULE Campaign -----------------------------
(***************************************************************************)
(* run_dgx_campaign.py: one invocation after the other runs the            *)
(* experiments of a manifest on a GPU host, gates later experiments on     *)
(* earlier ones, writes a report after each, and with --resume reuses      *)
(* artifacts that an earlier invocation measured.  The report and the      *)
(* artifacts survive an invocation; its records do not.  The runner is a   *)
(* script (run_dgx_layer_ladder.sh or run_dgx_spark.sh) in a session of    *)
(* its own, which starts a backend.  It may outlive a campaign that is     *)
(* signalled, and its backend may outlive the script.                      *)
(*                                                                         *)
(* An effective environment is a record [version, binary, payload,         *)
(* settings].  A backend writes version (with commit, layers, tokens, sync *)
(* profile, platform) and binary into its artifact; payload, the hash of   *)
(* its inputs, is written by the Spark script; settings is what only a     *)
(* report records.  An artifact's env is the one it was measured in.       *)
(***************************************************************************)
EXTENDS Naturals, Sequences, FiniteSets, SequencesExt

CONSTANTS
  Experiments,     \* the manifest: a sequence of [gate, lenient, paths]
  Environments,    \* effective environments invocations may run under
  Acceptance,      \* the manifest has an acceptance contract
  Stamps,          \* the runner is the Spark script, which attaches provenance
  EarlyExits,      \* it may fail before it clears old artifacts
  Interrupts,      \* SIGHUP and SIGTERM to the campaign arrive
  Lingering,       \* a backend may go on after the SIGTERM that ends its script
  MaxInvocations   \* bound: invocations

Count == Len(Experiments)
Paths == UNION {ToSet(Experiments[e].paths) : e \in 1 .. Count}
Results == {"passed", "inaccurate", "undecryptable"}
NoGate == [source |-> 0]
NoPayload == 0     \* no hash is expected, or none attached

ASSUME CampaignAssumption ==
  /\ Environments # {} /\ MaxInvocations \in Nat /\ Count \in Nat
  /\ {Acceptance, Stamps, EarlyExits, Interrupts, Lingering} \subseteq BOOLEAN
  /\ Stamps => \A e \in Environments : e.payload # NoPayload
  /\ \A e \in 1 .. Count :
       /\ Experiments[e].lenient \in BOOLEAN
       /\ Experiments[e].paths \in Seq(Paths) \ {<<>>} /\ IsInjective(Experiments[e].paths)
       /\ Experiments[e].gate = NoGate \/ Experiments[e].gate.source \in 1 .. e - 1
  /\ \A d, e \in 1 .. Count :
       d # e => ToSet(Experiments[d].paths) \cap ToSet(Experiments[e].paths) = {}

VARIABLES
  disk,         \* the artifact at each path, or None
  report,       \* the campaign report, or NoReport
  invocation,   \* number of the invocation
  pc,           \* where main() is, or "down"
  env,          \* its effective environment
  resume,       \* --resume
  previous,     \* the report it read
  records,      \* its records
  timed_out,
  runners,      \* the runner each invocation last started
  backends      \* backends whose script has been terminated

campaign == <<invocation, pc, env, resume, previous, records, timed_out>>
processes == <<runners, backends>>
vars == <<disk, report, campaign, processes>>

None == [whole |-> FALSE]
NoReport == [complete |-> FALSE, passed |-> FALSE, records |-> <<>>]
NoRunner == [phase |-> "exited"]

-----------------------------------------------------------------------------

(* _load_artifacts: what can be read, and whether every path holds an      *)
(* artifact of the expected identity.                                      *)
Loaded(e) ==
  [p \in {q \in ToSet(Experiments[e].paths) : disk[q].whole} |-> disk[p]]
IdentifiedWhenRead(e) ==   \* mutant: an artifact's identity is not compared
  \A p \in ToSet(Experiments[e].paths) : disk[p].whole
Identified(e) ==
  \A p \in ToSet(Experiments[e].paths) :
     /\ disk[p].whole
     /\ disk[p].env.version = env.version /\ disk[p].env.binary = env.binary
     /\ env.payload \in {NoPayload, disk[p].payload}

Ok(artifacts, results) == \A p \in DOMAIN artifacts : artifacts[p].result \in results
AllPass(artifacts) == Ok(artifacts, {"passed"})
AllDecryptOrEmpty(artifacts) == Ok(artifacts, {"passed", "inaccurate"})   \* mutant
AllDecrypt(artifacts) ==
  DOMAIN artifacts # {} /\ Ok(artifacts, {"passed", "inaccurate"})
Accurate(artifacts) == DOMAIN artifacts # {} /\ Ok(artifacts, {"passed"})

(* _promotion_satisfied, against the records of this invocation.           *)
Promoted(e) ==
  LET gate   == Experiments[e].gate
      source == records[gate.source]
  IN  gate # NoGate =>
        /\ source.infrastructure_ok
        /\ gate.accurate => Accurate(source.artifacts)
        /\ gate.decrypts => AllDecrypt(source.artifacts)
        /\ gate.passed => AllPass(source.artifacts)

(* _resume_context_issues is empty: the prior report has a record of this  *)
(* experiment with this environment.  A skipped record has none.           *)
KnownIfExecuted(e) ==   \* mutant: a resumed record cannot be resumed again
  \E r \in ToSet(previous.records) :
     r.experiment = e /\ r.state = "executed" /\ r.env = {env}
Known(e) ==
  \E r \in ToSet(previous.records) : r.experiment = e /\ r.env = {env}

(* _campaign_payload. *)
Accepts(recs) ==
  LET artifacts == UNION {{r.artifacts[p] : p \in DOMAIN r.artifacts} : r \in ToSet(recs)}
  IN  artifacts # {} /\ \A a \in artifacts : a.result = "passed"
InfrastructureOkIfAny(recs) == \E r \in ToSet(recs) : r.infrastructure_ok   \* mutant
InfrastructureOk(recs) == \A r \in ToSet(recs) : r.infrastructure_ok
Payload(recs, complete) ==
  [complete |-> complete, records |-> recs,
   passed |-> complete /\ InfrastructureOk(recs) /\ (Acceptance => Accepts(recs))]

-----------------------------------------------------------------------------

Init ==
  /\ disk = [p \in Paths |-> None]
  /\ report = NoReport
  /\ invocation = 0
  /\ pc = "down"
  /\ env = CHOOSE e \in Environments : TRUE
  /\ resume = FALSE
  /\ previous = NoReport
  /\ records = <<>>
  /\ timed_out = FALSE
  /\ runners = [i \in 1 .. MaxInvocations |-> NoRunner]
  /\ backends = {}

Current == Len(records) + 1
Own == runners[invocation]

(* main() up to the loop. *)
Start ==
  /\ pc = "down" /\ invocation < MaxInvocations
  /\ invocation' = invocation + 1
  /\ env' \in Environments
  /\ resume' \in BOOLEAN
  /\ previous' = IF resume' THEN report ELSE NoReport
  /\ records' = <<>>
  /\ pc' = "next"
  /\ UNCHANGED <<disk, report, timed_out, processes>>

(* A record is appended and the report replaced in one rename.  An         *)
(* infrastructure failure ends the invocation unless it may continue.      *)
AlwaysNext(record) == "next"   \* mutant: an infrastructure failure does not stop it
AfterRecord(record) ==
  IF record.infrastructure_ok \/ Experiments[Current].lenient THEN "next" ELSE "failing"
Record(record) ==
  /\ records' = Append(records, record)
  /\ report' = Payload(records', Len(records') = Count)
  /\ pc' = AfterRecord(record)

NoArtifacts == [p \in {} |-> None]

SkippedRecord ==
  [experiment |-> Current, state |-> "skipped", env |-> {},
   infrastructure_ok |-> TRUE, artifacts |-> NoArtifacts]

Skip ==
  /\ pc = "next" /\ Current <= Count
  /\ ~Promoted(Current)
  /\ records' = Append(records, SkippedRecord)
  /\ report' = Payload(records', Len(records') = Count)
  /\ UNCHANGED <<disk, invocation, pc, env, resume, previous, timed_out, processes>>

Reusable(e) == resume /\ Known(e) /\ Identified(e)

Reuse ==
  /\ pc = "next" /\ Current <= Count
  /\ Promoted(Current)
  /\ Reusable(Current)
  /\ Record([experiment |-> Current, state |-> "resumed", env |-> {env},
             infrastructure_ok |-> TRUE, artifacts |-> Loaded(Current)])
  /\ UNCHANGED <<disk, invocation, env, resume, previous, timed_out, processes>>

(* _wait_for_idle_gpu gives up, or the GPU is idle and Popen starts the    *)
(* runner in a session of its own.                                         *)
PreflightFails ==
  /\ pc = "next" /\ Current <= Count
  /\ Promoted(Current)
  /\ ~Reusable(Current)
  /\ Record([experiment |-> Current, state |-> "preflight-failed", env |-> {env},
             infrastructure_ok |-> FALSE, artifacts |-> NoArtifacts])
  /\ UNCHANGED <<disk, invocation, env, resume, previous, timed_out, processes>>

Launch ==
  /\ pc = "next" /\ Current <= Count
  /\ Promoted(Current)
  /\ ~Reusable(Current)
  /\ runners' = [runners EXCEPT ![invocation] =
                   [phase |-> "setup", env |-> env, todo |-> Experiments[Current].paths]]
  /\ timed_out' = FALSE
  /\ pc' = "launched"
  /\ UNCHANGED <<disk, report, invocation, env, resume, previous, records, backends>>

(* _run_runner enters its try block, and later the timeout expires.        *)
Wait ==
  /\ pc = "launched"
  /\ pc' = "waiting"
  /\ UNCHANGED <<disk, report, invocation, env, resume, previous, records, timed_out, processes>>

NoTimeout == FALSE /\ UNCHANGED vars   \* mutant: timeout_seconds is 0
Timeout ==
  /\ pc = "waiting" /\ Own.phase # "exited"
  /\ timed_out' = TRUE
  /\ pc' = "terminating"
  /\ UNCHANGED <<disk, report, invocation, env, resume, previous, records, processes>>

(* _terminate_process_group returns.  SIGTERM goes to the whole group, but *)
(* only the script is waited for, and SIGKILL follows only if it survives  *)
(* five seconds: a backend that goes on after SIGTERM is on its own.       *)
TerminatedBySigterm ==   \* mutant: a runner that ignores SIGTERM is left alone
  /\ pc \in {"terminating", "aborting"}
  /\ pc' = IF pc = "terminating" THEN "collect" ELSE "down"
  /\ UNCHANGED <<disk, report, invocation, env, resume, previous, records, timed_out, processes>>
Terminated ==
  /\ pc \in {"terminating", "aborting"}
  /\ runners' = [runners EXCEPT ![invocation] = NoRunner]
  /\ \/ UNCHANGED backends
     \/ /\ Lingering /\ Own.phase = "measure"
        /\ backends' = backends \cup {[env |-> Own.env, path |-> Head(Own.todo)]}
  /\ pc' = IF pc = "terminating" THEN "collect" ELSE "down"
  /\ UNCHANGED <<disk, report, invocation, env, resume, previous, records, timed_out>>

(* The artifacts decide; the runner's return code is only recorded.        *)
CollectWhateverIsThere ==   \* mutant: the timeout is not an infrastructure issue
  /\ pc = "collect" \/ (pc = "waiting" /\ Own.phase = "exited")
  /\ Record([experiment |-> Current, state |-> "executed", env |-> {env},
             infrastructure_ok |-> Identified(Current), artifacts |-> Loaded(Current)])
  /\ UNCHANGED <<disk, invocation, env, resume, previous, timed_out, processes>>
Collect ==
  /\ pc = "collect" \/ (pc = "waiting" /\ Own.phase = "exited")
  /\ Record([experiment |-> Current, state |-> "executed", env |-> {env},
             infrastructure_ok |-> Identified(Current) /\ ~timed_out,
             artifacts |-> Loaded(Current)])
  /\ UNCHANGED <<disk, invocation, env, resume, previous, timed_out, processes>>

(* The final report, after the last record or after a failure.             *)
Finish ==
  /\ pc = "failing" \/ (pc = "next" /\ Current > Count)
  /\ report' = Payload(records, TRUE)
  /\ pc' = "down"
  /\ UNCHANGED <<disk, invocation, env, resume, previous, records, timed_out, processes>>

(* SIGHUP or SIGTERM raises CampaignInterruptedError wherever main() is.   *)
(* Only the try block of _run_runner terminates the runner.                *)
Signal ==
  /\ Interrupts
  /\ pc # "down"
  /\ pc' = IF pc = "waiting" /\ Own.phase # "exited" THEN "aborting" ELSE "down"
  /\ UNCHANGED <<disk, report, invocation, env, resume, previous, records, timed_out, processes>>

-----------------------------------------------------------------------------

(* The runner of invocation i.  For each path it removes or archives the   *)
(* old artifact and runs the backend, which may fail or be cut off while   *)
(* it writes.  The ladder goes on to the next path; the Spark script       *)
(* attaches its provenance to what lies there, whoever has measured it.    *)
Target(i) == Head(runners[i].todo)
NextTarget(r) ==
  IF Len(r.todo) = 1 THEN NoRunner ELSE [r EXCEPT !.phase = "clear", !.todo = Tail(@)]
AfterBackend(r) == IF Stamps THEN [r EXCEPT !.phase = "attach"] ELSE NextTarget(r)
Writes(e, p) ==
  \E whole \in BOOLEAN, result \in Results :
     disk' = [disk EXCEPT ![p] =
                [whole |-> whole, env |-> e, payload |-> NoPayload, result |-> result]]

RunnerGivesUp(i) ==
  /\ EarlyExits
  /\ runners[i].phase = "setup"
  /\ runners' = [runners EXCEPT ![i] = NoRunner]
  /\ UNCHANGED disk
OldArtifactKept(i) ==   \* mutant: the old artifact stays where it is
  /\ runners[i].phase \in {"setup", "clear"}
  /\ runners' = [runners EXCEPT ![i].phase = "measure"]
  /\ UNCHANGED disk
RunnerClears(i) ==
  /\ runners[i].phase \in {"setup", "clear"}
  /\ disk' = [disk EXCEPT ![Target(i)] = None]
  /\ runners' = [runners EXCEPT ![i].phase = "measure"]
RunnerMeasures(i) ==
  /\ runners[i].phase = "measure"
  /\ Writes(runners[i].env, Target(i)) \/ UNCHANGED disk
  /\ runners' = [runners EXCEPT ![i] = AfterBackend(@)]

(* attach compares the artifact's binary with the build that is installed, *)
(* which the latest invocation has validated, and replaces its payload.    *)
RunnerAttaches(i) ==
  /\ runners[i].phase = "attach"
  /\ disk[Target(i)].whole /\ disk[Target(i)].env.binary = env.binary
  /\ disk' = [disk EXCEPT ![Target(i)].payload = runners[i].env.payload]
  /\ runners' = [runners EXCEPT ![i] = NextTarget(@)]
(* There is no artifact, or attach raises: also when the build changed.    *)
AttachFails(i) ==
  /\ runners[i].phase = "attach"
  /\ runners' = [runners EXCEPT ![i] = NextTarget(@)]
  /\ UNCHANGED disk

RunnerStep(i) ==
  /\ \/ RunnerGivesUp(i)
     \/ RunnerClears(i)
     \/ RunnerMeasures(i)
     \/ RunnerAttaches(i)
     \/ AttachFails(i)
  /\ UNCHANGED <<report, campaign, backends>>

(* A backend without its script. *)
BackendStep(b) ==
  /\ Writes(b.env, b.path) \/ UNCHANGED disk
  /\ backends' = backends \ {b}
  /\ UNCHANGED <<report, campaign, runners>>

Progress ==
  \/ Skip \/ Reuse \/ PreflightFails \/ Launch \/ Wait \/ Timeout \/ Terminated
  \/ Collect \/ Finish

Next ==
  \/ Start
  \/ Progress
  \/ Signal
  \/ \E i \in 1 .. MaxInvocations : RunnerStep(i)
  \/ \E b \in backends : BackendStep(b)

(* The interpreter makes progress: waits have timeouts.                    *)
Spec == Init /\ [][Next]_vars /\ WF_vars(Progress)

-----------------------------------------------------------------------------

Measured(r) == r.state \in {"executed", "resumed"} /\ r.infrastructure_ok
Reported == ToSet(report.records)

(* "verifies artifact schema and provenance before reuse": a record without *)
(* infrastructure failure has a complete artifact at every path, which was *)
(* measured with the record's version and binary and names its payload,    *)
(* however runners, restarts and left-over processes interleave.           *)
IdentityHolds ==
  \A r \in {q \in Reported : Measured(q)} :
     /\ DOMAIN r.artifacts = ToSet(Experiments[r.experiment].paths)
     /\ \A p \in DOMAIN r.artifacts, e \in r.env :
          LET a == r.artifacts[p]
          IN  /\ a.env.version = e.version /\ a.env.binary = e.binary
              /\ e.payload \in {NoPayload, a.payload}

(* "a rebuilt shared library or changed payload must not be mistaken for   *)
(* the already-measured experiment": what a record reports was measured    *)
(* with the payload it names, however often it was resumed.                *)
PayloadHolds ==
  \A r \in {q \in Reported : Measured(q)} :
     \A p \in DOMAIN r.artifacts, e \in r.env :
        e.payload \in {NoPayload, r.artifacts[p].env.payload}

(* A report that says "passed" covers the whole manifest, hides no         *)
(* infrastructure failure and, under an acceptance contract, rests on at   *)
(* least one measured artifact and on none that missed: no early exit, no  *)
(* chain of skips and no interrupted invocation ever looks like success.   *)
PassedReportSound ==
  report.passed =>
    /\ [k \in DOMAIN report.records |-> report.records[k].experiment] = [k \in 1 .. Count |-> k]
    /\ \A r \in Reported : r.infrastructure_ok
    /\ Acceptance =>
         /\ \E r \in Reported : Measured(r)
         /\ \A r \in Reported : AllPass(r.artifacts)

(* An experiment behind a decryption gate only runs on evidence: its       *)
(* source was measured in this very campaign and decrypted every token;    *)
(* a skipped source promotes nothing.                                      *)
GateEvidence ==
  \A r \in Reported :
     LET gate == Experiments[r.experiment].gate
     IN  gate # NoGate /\ r.state # "skipped" =>
           (gate.decrypts =>
              LET source == report.records[gate.source]
              IN  Measured(source) /\ AllDecrypt(source.artifacts))

(* After an infrastructure failure that may not be ignored the invocation  *)
(* measures nothing more.                                                  *)
FailsFast ==
  [][\A r \in ToSet(records) :
        ~r.infrastructure_ok /\ ~Experiments[r.experiment].lenient =>
          records' \in {records, <<>>} /\ pc' # "launched"]_vars

(* --resume does not measure again what the prior report has measured      *)
(* under the same environment and what still lies untouched on disk, also  *)
(* after several resumes.                                                  *)
ResumeReuses ==
  [][pc = "next" /\ pc' = "launched" /\ resume =>
       ~ \E r \in ToSet(previous.records) :
            /\ r.experiment = Current /\ Measured(r) /\ r.env = {env}
            /\ \A p \in DOMAIN r.artifacts : disk[p] = r.artifacts[p]]_vars

(* "any mismatch causes the stale artifact to be rerun": what a resumed    *)
(* record reports was measured under the environment it names.             *)
ResumedEvidence ==
  \A r \in {q \in Reported : Measured(q) /\ q.state = "resumed"} :
     \A p \in DOMAIN r.artifacts : r.env = {r.artifacts[p].env}

(* "must not be mistaken for the already-measured experiment": the same    *)
(* for what an executed record reports.                                    *)
ExecutedEvidence ==
  \A r \in {q \in Reported : Measured(q) /\ q.state = "executed"} :
     \A p \in DOMAIN r.artifacts : r.env = {r.artifacts[p].env}

(* However its runners hang, a campaign that no signal interrupts leaves   *)
(* no runner script behind.  A backend may stay, since only the script is  *)
(* waited for, but none does if backends end on SIGTERM.                   *)
RunnerEndsWithCampaign ==
  pc = "down" =>
    /\ \A i \in 1 .. MaxInvocations : runners[i].phase = "exited"
    /\ backends = {} \/ Lingering

(* Every invocation ends, whatever the runner does. *)
Ends == pc # "down" ~> pc = "down"
=============================================================================
