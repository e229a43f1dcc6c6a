------------------------------ MODULE GpuBudget ------------------------------
(* run_packed_probe.py: several runner processes that share one campaign's *)
(* budget of GPU seconds through a locked ledger file.  A runner holds the *)
(* lock while it reads the ledger, runs the native probe under a hard      *)
(* timeout, and charges what that took, whatever came of it.  A native     *)
(* probe has a session of its own and outlives a runner that is killed.    *)
EXTENDS Integers, FiniteSets, Functions

CONSTANTS
  Runners,    \* runner processes, one command line each
  Campaigns,  \* command lines of the runners: [file, limit, timeout, output, options, intact]
  Reserve,    \* seconds kept back for the termination of the probe (15)
  Grace,      \* seconds between SIGTERM and SIGKILL (10)
  Overhead,   \* seconds a runner may take outside the two waits
  MaxFaults,  \* interrupted and killed runners of one behaviour
  None

ASSUME BudgetAssumption ==
  /\ Reserve \in Nat /\ Grace \in Nat /\ Overhead \in Nat
  /\ Overhead + Grace <= Reserve
  /\ \A c \in Campaigns : \A r \in Runners : c[r].limit \in Nat /\ c[r].timeout \in Nat
  /\ IsFiniteSet(Runners)
  /\ None \notin Runners

VARIABLES
  request,   \* request[r]: the command line of r
  pc,        \* pc[r]: where r is in run() and _run()
  lock,      \* the runner that holds the flock on the ledger
  ledger,    \* the ledger file: [kind, limit, used]
  budget,    \* budget[r]: what r read of it
  deadline,  \* deadline[r]: the timeout r passes to process.wait
  timer,     \* timer[r]: seconds r has been in its current wait
  slack,     \* slack[r]: seconds r spent outside its waits
  clock,     \* clock[r]: seconds since r took its start time
  native,    \* native[r]: the probe r started: [state, code]
  expired,   \* expired[r]: record["timed_out"]
  raised,    \* raised[r]: _run left with an exception
  outputs,   \* outputs[d]: a run's directory: [owner, result, record]
  spent,     \* spent[r]: GPU seconds of a budgeted r's probe while r waited for it
  faults     \* interrupts and kills so far

vars == <<request, pc, lock, ledger, budget, deadline, timer, slack, clock,
          native, expired, raised, outputs, spent, faults>>

Budget(limit, used) == [kind |-> "budget", limit |-> limit, used |-> used]
Empty == [kind |-> "empty", limit |-> 0, used |-> 0]
Torn == [kind |-> "torn", limit |-> 0, used |-> 0]

NoFile == [by |-> None, verdict |-> "none"]
NoRun == [owner |-> None, result |-> NoFile, record |-> NoFile]
Directories == {c[r].output : c \in Campaigns, r \in Runners}

Ended == {"done", "failed", "dead"}
Waits == {"running", "terminating"}          \* in process.wait
Works == {"preparing", "launching", "recording"}
Output(r) == outputs[request[r].output]
Smaller(a, b) == IF a <= b THEN a ELSE b

(* _run refuses combinations of refresh options the probe cannot honour. *)
OptionsRefused(o) ==
  \/ o.passes \notin {1, 2}
  \/ o.planned /\ o.legacy
  \/ o.batch /\ (~o.planned \/ o.passes # 2)
  \/ o.s2c /\ ~o.batch
  \/ o.dual /\ ~o.s2c
  \/ o.frontier /\ ~o.batch

-----------------------------------------------------------------------------

Init ==
  /\ request \in Campaigns
  /\ pc = [r \in Runners |-> "start"]
  /\ lock = None
  /\ ledger = Empty                            \* "a+" creates the file
  /\ budget = [r \in Runners |-> Empty]
  /\ deadline = [r \in Runners |-> 0]
  /\ timer = [r \in Runners |-> 0]
  /\ slack = [r \in Runners |-> 0]
  /\ clock = [r \in Runners |-> 0]
  /\ native = [r \in Runners |-> [state |-> "none", code |-> 0]]
  /\ expired = [r \in Runners |-> FALSE]
  /\ raised = [r \in Runners |-> FALSE]
  /\ outputs = [d \in Directories |-> NoRun]
  /\ spent = [r \in Runners |-> 0]
  /\ faults = 0

At(r, here) == pc[r] = here
locals == <<budget, deadline, timer, slack, clock>>
Stay(r, there) == pc' = [pc EXCEPT ![r] = there] /\ UNCHANGED lock

(* The end of a runner: its lock is free, its variables are gone. *)
Leave(r, how) ==
  /\ pc' = [pc EXCEPT ![r] = how]
  /\ lock' = IF lock = r THEN None ELSE lock
  /\ budget' = [budget EXCEPT ![r] = Empty]
  /\ deadline' = [deadline EXCEPT ![r] = 0]
  /\ timer' = [timer EXCEPT ![r] = 0]
  /\ slack' = [slack EXCEPT ![r] = 0]
  /\ clock' = [clock EXCEPT ![r] = 0]

(* run(): a budget needs its file and a positive limit; without either the *)
(* probe runs unaccounted, and without the lock.                           *)
Start(r) ==
  /\ At(r, "start")
  /\ pc' = [pc EXCEPT ![r] =
       CASE request[r].file /\ request[r].limit > 0 -> "waiting"
         [] ~request[r].file /\ request[r].limit = 0 -> "preparing"
         [] OTHER -> "failed"]
  /\ deadline' = [deadline EXCEPT ![r] = request[r].timeout]
  /\ UNCHANGED <<request, lock, ledger, budget, timer, slack, clock, native,
                 expired, raised, outputs, spent, faults>>

Acquire(r) ==
  /\ At(r, "waiting")
  /\ lock = None
  /\ lock' = r
  /\ pc' = [pc EXCEPT ![r] = "reading"]
  /\ UNCHANGED <<request, ledger, locals, native, expired, raised, outputs, spent, faults>>

(* The timeout of the probe leaves room for its termination. *)
AllowedWhole(r, remaining) == Smaller(request[r].timeout, remaining)   \* mutant: no room
Allowed(r, remaining) == Smaller(request[r].timeout, remaining - Reserve)

Read(r) == IF ledger.kind = "empty" THEN Budget(request[r].limit, 0) ELSE ledger
Admissible(r) ==
  /\ ledger.kind # "torn"
  /\ Read(r).limit = request[r].limit
  /\ request[r].limit - Read(r).used > Reserve

ReadLedger(r) ==
  /\ At(r, "reading")
  /\ \/ /\ Admissible(r)
        /\ budget' = [budget EXCEPT ![r] = Read(r)]
        /\ deadline' = [deadline EXCEPT ![r] = Allowed(r, request[r].limit - Read(r).used)]
        /\ Stay(r, "preparing")
        /\ UNCHANGED <<timer, slack, clock>>
     \/ ~Admissible(r) /\ Leave(r, "failed")
  /\ UNCHANGED <<request, ledger, native, expired, raised, outputs, spent, faults>>

(* An exception leaves _run: a budgeted runner still charges the run. *)
Raise(r) ==
  /\ raised' = [raised EXCEPT ![r] = TRUE]
  /\ IF request[r].file THEN Stay(r, "charging") /\ UNCHANGED locals ELSE Leave(r, "failed")

(* The checks of _run before it creates the directory of the run. *)
AcceptedAnyDirectory(r) == ~OptionsRefused(request[r].options) /\ request[r].intact   \* mutant: exist_ok
Accepted(r) ==
  /\ ~OptionsRefused(request[r].options)
  /\ request[r].intact
  /\ Output(r).owner = None

MakeOutput(r) ==
  /\ At(r, "preparing")
  /\ \/ ~Accepted(r) /\ Raise(r) /\ UNCHANGED outputs
     \/ /\ Accepted(r)
        /\ outputs' = [outputs EXCEPT ![request[r].output].owner = r]
        /\ Stay(r, "launching")
        /\ UNCHANGED <<locals, raised>>
  /\ UNCHANGED <<request, ledger, native, expired, spent, faults>>

Launch(r) ==
  /\ At(r, "launching")
  /\ \/ /\ native' = [native EXCEPT ![r].state = "running"]
        /\ Stay(r, "running")
        /\ UNCHANGED <<locals, raised>>
     \/ Raise(r) /\ UNCHANGED native           \* the binary cannot be executed
  /\ UNCHANGED <<request, ledger, expired, outputs, spent, faults>>

-----------------------------------------------------------------------------

Running(r) == native[r].state = "running"

WaitReturns(r) ==
  /\ pc[r] \in Waits
  /\ ~Running(r)
  /\ expired' = [expired EXCEPT ![r] = At(r, "terminating")]
  /\ Stay(r, "recording")
  /\ UNCHANGED <<request, ledger, locals, native, raised, outputs, spent, faults>>

(* The hard timeout: SIGTERM to the process group, and a grace period. *)
WaitExpires(r) ==
  /\ At(r, "running")
  /\ Running(r)
  /\ timer[r] = deadline[r]
  /\ timer' = [timer EXCEPT ![r] = 0]
  /\ Stay(r, "terminating")
  /\ UNCHANGED <<request, ledger, budget, deadline, slack, clock, native,
                 expired, raised, outputs, spent, faults>>

KillNever(r) == FALSE /\ UNCHANGED vars   \* mutant: waits until SIGTERM works
Kill(r) ==
  /\ At(r, "terminating")
  /\ Running(r)
  /\ timer[r] = Grace
  /\ native' = [native EXCEPT ![r] = [state |-> "exited", code |-> 1]]
  /\ expired' = [expired EXCEPT ![r] = TRUE]
  /\ Stay(r, "recording")
  /\ UNCHANGED <<request, ledger, locals, raised, outputs, spent, faults>>

(* What native.json says counts only together with the end of the process. *)
Passed(r) ==
  /\ Output(r).result.verdict = "good"
  /\ native[r].code = 0
  /\ ~expired[r]

Record(r) ==
  /\ At(r, "recording")
  /\ \/ /\ Output(r).result.verdict = "broken"          \* no JSON, or keys missing
        /\ Raise(r)
        /\ UNCHANGED outputs
     \/ /\ Output(r).result.verdict # "broken"
        /\ outputs' = [outputs EXCEPT ![request[r].output].record =
                         [by |-> r, verdict |-> IF Passed(r) THEN "passed" ELSE "failed"]]
        /\ IF request[r].file THEN Stay(r, "charging") /\ UNCHANGED locals ELSE Leave(r, "done")
        /\ UNCHANGED raised
  /\ UNCHANGED <<request, ledger, native, expired, spent, faults>>

(* The finally block: charge, then rewrite the ledger in place. *)
ChargedIfRecorded(r) ==   \* mutant: an exception is not charged
  Budget(budget[r].limit, budget[r].used + IF raised[r] THEN 0 ELSE clock[r])
Charged(r) == Budget(budget[r].limit, budget[r].used + clock[r])

Charge(r) ==
  /\ At(r, "charging")
  /\ budget' = [budget EXCEPT ![r] = Charged(r)]
  /\ ledger' = Empty                                    \* truncate
  /\ Stay(r, "writing")
  /\ UNCHANGED <<request, deadline, timer, slack, clock, native, expired,
                 raised, outputs, spent, faults>>

(* A ledger longer than the file's buffer reaches the disk in parts. *)
WritePart(r) ==
  /\ At(r, "writing")
  /\ ledger = Empty
  /\ ledger' = Torn
  /\ UNCHANGED <<request, pc, lock, locals, native, expired, raised, outputs, spent, faults>>

WriteLedger(r) ==
  /\ At(r, "writing")
  /\ ledger' = budget[r]
  /\ IF raised[r] THEN Leave(r, "failed") ELSE Stay(r, "reporting") /\ UNCHANGED locals
  /\ UNCHANGED <<request, native, expired, raised, outputs, spent, faults>>

(* run.json is written again, with the campaign's total. *)
Report(r) ==
  /\ At(r, "reporting")
  /\ outputs' = [outputs EXCEPT ![request[r].output].record.by = r]
  /\ Leave(r, "done")
  /\ UNCHANGED <<request, ledger, native, expired, raised, spent, faults>>

-----------------------------------------------------------------------------

(* The probe, with or without a runner that waits for it. *)
NativeReports(r, verdict) ==
  /\ Running(r)
  /\ Output(r).result.by # r
  /\ outputs' = [outputs EXCEPT ![request[r].output].result = [by |-> r, verdict |-> verdict]]
  /\ UNCHANGED <<request, pc, lock, ledger, budget, deadline, timer, slack, clock,
                 native, expired, raised, spent, faults>>

NativeExits(r, code) ==
  /\ Running(r)
  /\ native' = [native EXCEPT ![r] = [state |-> "exited", code |-> code]]
  /\ UNCHANGED <<request, pc, lock, ledger, budget, deadline, timer, slack, clock,
                 expired, raised, outputs, spent, faults>>

(* One second.  A wait ends when it is due, and what a runner does between *)
(* its waits takes at most Overhead seconds.                               *)
Due(r) ==
  \/ At(r, "running") /\ timer[r] = deadline[r]
  \/ At(r, "terminating") /\ timer[r] = Grace
  \/ pc[r] \in Works /\ slack[r] = Overhead
Tick ==
  /\ \E r \in Runners : pc[r] \in Waits \cup Works
  /\ \A r \in Runners : ~Due(r)
  /\ timer' = [r \in Runners |-> IF pc[r] \in Waits THEN timer[r] + 1 ELSE timer[r]]
  /\ slack' = [r \in Runners |-> IF pc[r] \in Works THEN slack[r] + 1 ELSE slack[r]]
  /\ clock' = [r \in Runners |-> IF pc[r] \in Waits \cup Works THEN clock[r] + 1 ELSE clock[r]]
  /\ spent' = [r \in Runners |->
                 IF pc[r] \in Waits /\ Running(r) /\ request[r].file THEN spent[r] + 1 ELSE spent[r]]
  /\ UNCHANGED <<request, pc, lock, ledger, budget, deadline, native, expired,
                 raised, outputs, faults>>

(* Ctrl-C: the finally block runs, nobody ends the probe.  In the finally  *)
(* block itself the exception closes the file as it is.                    *)
Interrupt(r) ==
  /\ pc[r] \notin Ended \cup {"start"}
  /\ faults < MaxFaults
  /\ faults' = faults + 1
  /\ IF pc[r] \in Waits \cup Works THEN Raise(r) ELSE Leave(r, "failed") /\ UNCHANGED raised
  /\ UNCHANGED <<request, ledger, native, expired, outputs, spent>>

(* The runner is killed: the kernel drops its lock, nothing is charged. *)
Die(r) ==
  /\ pc[r] \notin Ended
  /\ faults < MaxFaults
  /\ faults' = faults + 1
  /\ Leave(r, "dead")
  /\ UNCHANGED <<request, ledger, native, expired, raised, outputs, spent>>

-----------------------------------------------------------------------------

Step(r) ==
  \/ Start(r) \/ Acquire(r) \/ ReadLedger(r) \/ MakeOutput(r) \/ Launch(r)
  \/ WaitReturns(r) \/ WaitExpires(r) \/ Kill(r) \/ Record(r)
  \/ Charge(r) \/ WriteLedger(r) \/ Report(r)

Probe(r) ==
  \/ \E v \in {"good", "broken"} : NativeReports(r, v)
  \/ \E c \in {0, 1} : NativeExits(r, c)

Next ==
  \/ \E r \in Runners : Step(r) \/ WritePart(r) \/ Probe(r) \/ Interrupt(r) \/ Die(r)
  \/ Tick

(* The operating system runs every process and grants the lock; a probe    *)
(* need not do anything, ever.                                             *)
Fairness == WF_vars(Tick) /\ \A r \in Runners : WF_vars(Step(r))

Spec == Init /\ [][Next]_vars
FairSpec == Spec /\ Fairness

-----------------------------------------------------------------------------

(* A ledger never says that a campaign used more than its limit, although  *)
(* the last probe may ignore its timeout and SIGTERM and any runner may be *)
(* interrupted or killed: the reserve covers what follows the timeout.     *)
BudgetKept == ledger.kind = "budget" => ledger.used <= ledger.limit

(* While no runner is interrupted or killed, the GPU seconds of all probes *)
(* of a campaign stay within the limit of its ledger: failed, refused and  *)
(* timed out runs are charged, and no charge of another runner is lost.    *)
GpuSecondsWithinLimit ==
  faults = 0 /\ ledger.kind = "budget" =>
    FoldFunction(+, 0, spent) <= ledger.limit

(* A record that says "passed" speaks of a probe its own runner started,   *)
(* which ended by itself with code 0 and wrote the result that was read:   *)
(* never of a result another run, or a probe left behind, put there.       *)
PassedIsOwn ==
  \A d \in Directories :
    LET run == outputs[d]
    IN  run.record.verdict = "passed" =>
          /\ run.record.by = run.owner
          /\ run.result = [by |-> run.owner, verdict |-> "good"]
          /\ native[run.owner] = [state |-> "exited", code |-> 0]
          /\ ~expired[run.owner]

(* A runner ends, whatever its probe does: the queue for the lock moves on *)
(* behind a probe that hangs and ignores SIGTERM.                          *)
EveryRunnerEnds == \A r \in Runners : <>(pc[r] \in Ended)
=============================================================================
