--------------------------- MODULE GpuBudgetProofs ---------------------------
(* For every number of runners, every command line, reserve and number of  *)
(* faults: the ledger never exceeds the limit of its campaign, nor do the  *)
(* seconds really used while nobody is interrupted, and a run that is      *)
(* recorded as passed is the run of its own probe.                         *)
EXTENDS GpuBudget, CommonLemmas, TLAPS

Ledgers == [kind : {"budget", "empty", "torn"}, limit : Nat, used : Int]
Files == [by : Runners \cup {None}, verdict : {"none", "good", "broken", "passed", "failed"}]
Places == Ended \cup Waits \cup Works \cup
          {"start", "waiting", "reading", "charging", "writing", "reporting"}

TypeInv ==
  /\ request \in Campaigns
  /\ pc \in [Runners -> Places]
  /\ ledger \in Ledgers
  /\ budget \in [Runners -> Ledgers]
  /\ deadline \in [Runners -> Int]
  /\ timer \in [Runners -> Nat]
  /\ slack \in [Runners -> Nat]
  /\ clock \in [Runners -> Nat]

(* Where the seconds of a budgeted run went, phase by phase. *)
Accounted(r) ==
  /\ pc[r] \in {"start", "waiting", "reading"} =>
       timer[r] = 0 /\ slack[r] = 0 /\ clock[r] = 0
  /\ pc[r] \in {"preparing", "launching"} =>
       timer[r] = 0 /\ slack[r] <= Overhead /\ clock[r] = slack[r] /\ 0 <= deadline[r]
  /\ pc[r] = "running" =>
       timer[r] <= deadline[r] /\ slack[r] <= Overhead /\ clock[r] = slack[r] + timer[r]
  /\ pc[r] = "terminating" =>
       /\ timer[r] <= Grace /\ slack[r] <= Overhead /\ 0 <= deadline[r]
       /\ clock[r] <= slack[r] + deadline[r] + timer[r]
  /\ pc[r] \in {"recording", "charging"} =>
       /\ slack[r] <= Overhead /\ 0 <= deadline[r]
       /\ clock[r] <= slack[r] + deadline[r] + Grace

(* A budgeted run that took its timeout left the reserve of the budget. *)
Provided(r) ==
  /\ pc[r] \in Waits \cup Works \cup {"charging"} /\ request[r].file =>
       /\ budget[r].kind = "budget"
       /\ budget[r].used + deadline[r] + Reserve <= budget[r].limit
  /\ pc[r] = "charging" => request[r].file
  /\ pc[r] = "writing" => budget[r].used <= budget[r].limit

BudgetInv ==
  /\ TypeInv
  /\ \A r \in Runners : Accounted(r) /\ Provided(r)
  /\ BudgetKept

-----------------------------------------------------------------------------

LEMMA BudgetInit == Init => BudgetInv
  BY BudgetAssumption
  DEF Init, BudgetInv, TypeInv, Accounted, Provided, BudgetKept, Ledgers, Places,
      Ended, Waits, Works, Empty

(* The local invariants of a runner whose variables a step leaves alone. *)
LEMMA OtherRunner ==
  ASSUME NEW r \in Runners, Accounted(r), Provided(r), request' = request,
         pc'[r] = pc[r], budget'[r] = budget[r], deadline'[r] = deadline[r],
         timer'[r] = timer[r], slack'[r] = slack[r], clock'[r] = clock[r]
  PROVE  Accounted(r)' /\ Provided(r)'
  BY DEF Accounted, Provided

LEMMA LeaveKeeps ==
  ASSUME BudgetInv, NEW r \in Runners, NEW how \in Ended, Leave(r, how),
         request' = request, ledger' \in Ledgers, BudgetKept'
  PROVE  BudgetInv'
<1>1. TypeInv'
  BY DEF BudgetInv, TypeInv, Leave, Places, Empty, Ledgers
<1>2. ASSUME NEW q \in Runners PROVE Accounted(q)' /\ Provided(q)'
  <2>1. CASE q = r
    BY <2>1 DEF BudgetInv, TypeInv, Leave, Accounted, Provided, Ended, Waits, Works
  <2>2. CASE q # r
    BY <2>2, OtherRunner DEF BudgetInv, TypeInv, Leave
  <2>3. QED BY <2>1, <2>2
<1>3. QED BY <1>1, <1>2 DEF BudgetInv

LEMMA RaiseKeeps ==
  ASSUME BudgetInv, NEW r \in Runners, Raise(r), pc[r] \in Waits \cup Works,
         request' = request, ledger' = ledger
  PROVE  BudgetInv'
<1>1. CASE request[r].file
  <2>1. TypeInv'
    BY <1>1 DEF BudgetInv, TypeInv, Raise, Stay, locals, Places
  <2>2. ASSUME NEW q \in Runners PROVE Accounted(q)' /\ Provided(q)'
    <3>1. CASE q = r
      <4>1. pc'[q] = "charging" /\ UNCHANGED locals
        BY <1>1, <3>1 DEF Raise, Stay, BudgetInv, TypeInv
      <4>2. Provided(q)'
        BY <1>1, <3>1, <4>1 DEF BudgetInv, Provided, locals
      <4>3. slack[q] <= Overhead /\ 0 <= deadline[q] /\ clock[q] <= slack[q] + deadline[q] + Grace
        BY <3>1, BudgetAssumption DEF BudgetInv, TypeInv, Accounted, Waits, Works
      <4>4. Accounted(q)'
        BY <4>1, <4>3 DEF Accounted, locals
      <4>5. QED BY <4>2, <4>4
    <3>2. CASE q # r
      BY <1>1, <3>2, OtherRunner DEF BudgetInv, TypeInv, Raise, Stay, locals
    <3>3. QED BY <3>1, <3>2
  <2>3. BudgetKept'
    BY DEF BudgetInv, BudgetKept
  <2>4. QED BY <2>1, <2>2, <2>3 DEF BudgetInv
<1>2. CASE ~request[r].file
  <2>1. Leave(r, "failed") /\ "failed" \in Ended
    BY <1>2 DEF Raise, Ended
  <2>2. ledger' \in Ledgers /\ BudgetKept'
    BY DEF BudgetInv, TypeInv, BudgetKept
  <2>3. QED BY <2>1, <2>2, LeaveKeeps
<1>3. QED BY <1>1, <1>2

-----------------------------------------------------------------------------

(* A step of one runner that keeps its locals but for those named here. *)
LEMMA StepOf ==
  ASSUME BudgetInv, NEW r \in Runners, request' = request, TypeInv', BudgetKept',
         \A q \in Runners \ {r} :
            /\ pc'[q] = pc[q] /\ budget'[q] = budget[q] /\ deadline'[q] = deadline[q]
            /\ timer'[q] = timer[q] /\ slack'[q] = slack[q] /\ clock'[q] = clock[q],
         Accounted(r)', Provided(r)'
  PROVE  BudgetInv'
<1>1. ASSUME NEW q \in Runners \ {r} PROVE Accounted(q)' /\ Provided(q)'
  BY OtherRunner DEF BudgetInv
<1>2. QED BY <1>1 DEF BudgetInv

LEMMA StartKeeps ==
  ASSUME BudgetInv, NEW r \in Runners, Start(r)
  PROVE  BudgetInv'
<1>1. request[r].timeout \in Nat /\ request[r].limit \in Nat
  BY BudgetAssumption DEF BudgetInv, TypeInv
<1>2. TypeInv'
  BY <1>1 DEF BudgetInv, TypeInv, Start, Places, Ended, Works
<1>3. Accounted(r)'
  BY <1>1, BudgetAssumption DEF BudgetInv, TypeInv, Start, Accounted, At
<1>4. Provided(r)'
  BY <1>1 DEF BudgetInv, TypeInv, Start, Provided, At, Waits, Works
<1>5. QED BY <1>2, <1>3, <1>4, StepOf DEF Start, BudgetInv, BudgetKept, TypeInv

LEMMA ReadKeeps ==
  ASSUME BudgetInv, NEW r \in Runners, ReadLedger(r)
  PROVE  BudgetInv'
<1> USE DEF ReadLedger
<1>1. CASE Admissible(r) /\ pc' = [pc EXCEPT ![r] = "preparing"]
           /\ budget' = [budget EXCEPT ![r] = Read(r)]
           /\ deadline' = [deadline EXCEPT ![r] = Allowed(r, request[r].limit - Read(r).used)]
           /\ UNCHANGED <<timer, slack, clock>>
  <2>1. request[r].timeout \in Nat /\ request[r].limit \in Nat
    BY BudgetAssumption DEF BudgetInv, TypeInv
  <2>2. Read(r) \in Ledgers /\ Read(r).kind = "budget"
    BY <1>1, <2>1 DEF BudgetInv, TypeInv, Read, Budget, Ledgers, Admissible, Empty
  <2>3. /\ Read(r).limit = request[r].limit /\ Read(r).limit - Read(r).used > Reserve
        /\ Read(r).used \in Int /\ Read(r).limit \in Nat
    BY <1>1, <2>1, <2>2 DEF Admissible, Ledgers
  <2>4. /\ Allowed(r, request[r].limit - Read(r).used) \in Nat
        /\ Read(r).used + Allowed(r, request[r].limit - Read(r).used) + Reserve <= Read(r).limit
    BY <2>1, <2>3, BudgetAssumption DEF Allowed, Smaller
  <2>5. TypeInv'
    BY <1>1, <2>2, <2>4 DEF BudgetInv, TypeInv, Places, Works
  <2>6. /\ pc'[r] = "preparing" /\ budget'[r] = Read(r)
        /\ deadline'[r] = Allowed(r, request[r].limit - Read(r).used)
    BY <1>1 DEF BudgetInv, TypeInv
  <2>7. Accounted(r)'
    BY <1>1, <2>4, <2>6, BudgetAssumption DEF BudgetInv, TypeInv, Accounted, At
  <2>8. Provided(r)'
    BY <2>2, <2>4, <2>6 DEF Provided
  <2>9. QED BY <1>1, <2>5, <2>7, <2>8, StepOf DEF BudgetInv, BudgetKept, TypeInv
<1>2. CASE Leave(r, "failed")
  BY <1>2, LeaveKeeps DEF BudgetInv, BudgetKept, TypeInv, Ended
<1>3. QED BY <1>1, <1>2 DEF Stay

(* Steps that move r on without touching its variables but pc and timer. *)
LEMMA MoveKeeps ==
  ASSUME BudgetInv, NEW r \in Runners, NEW there \in Places,
         pc' = [pc EXCEPT ![r] = there],
         UNCHANGED <<request, ledger, budget, deadline, slack, clock>>,
         timer' \in [Runners -> Nat], \A q \in Runners \ {r} : timer'[q] = timer[q],
         \/ pc[r] = "waiting" /\ there = "reading" /\ timer'[r] = timer[r]
         \/ pc[r] = "preparing" /\ there = "launching" /\ timer'[r] = timer[r]
         \/ pc[r] = "launching" /\ there = "running" /\ timer'[r] = timer[r]
         \/ pc[r] \in Waits /\ there = "recording" /\ timer'[r] = timer[r]
         \/ pc[r] = "running" /\ timer[r] = deadline[r] /\ there = "terminating" /\ timer'[r] = 0
         \/ pc[r] = "recording" /\ there = "charging" /\ request[r].file
  PROVE  BudgetInv'
<1>1. TypeInv' /\ BudgetKept' /\ pc'[r] = there
  BY DEF BudgetInv, TypeInv, BudgetKept
<1>2. Accounted(r)'
  BY <1>1, BudgetAssumption DEF BudgetInv, TypeInv, Accounted, Waits
<1>3. Provided(r)'
  BY <1>1 DEF BudgetInv, Provided, Waits, Works
<1>4. QED BY <1>1, <1>2, <1>3, StepOf DEF BudgetInv, TypeInv

LEMMA RecordKeeps ==
  ASSUME BudgetInv, NEW r \in Runners, Record(r)
  PROVE  BudgetInv'
<1>1. pc[r] = "recording" /\ "recording" \in Works
  BY DEF Record, At, Works
<1>2. CASE Raise(r)
  BY <1>1, <1>2, RaiseKeeps DEF Record
<1>3. CASE request[r].file /\ pc' = [pc EXCEPT ![r] = "charging"] /\ UNCHANGED locals
  BY <1>1, <1>3, MoveKeeps DEF Record, locals, BudgetInv, TypeInv, Places
<1>4. CASE Leave(r, "done")
  BY <1>4, LeaveKeeps DEF Record, BudgetInv, BudgetKept, TypeInv, Ended
<1>5. QED BY <1>2, <1>3, <1>4 DEF Record, Stay

LEMMA ChargeKeeps ==
  ASSUME BudgetInv, NEW r \in Runners, Charge(r)
  PROVE  BudgetInv'
<1>1. /\ pc' = [pc EXCEPT ![r] = "writing"] /\ ledger' = Empty
      /\ budget' = [budget EXCEPT ![r] = Charged(r)]
      /\ UNCHANGED <<request, deadline, timer, slack, clock>> /\ pc[r] = "charging"
  BY DEF Charge, Stay, At
<1>2. budget[r] \in Ledgers /\ clock[r] \in Nat /\ deadline[r] \in Int /\ slack[r] \in Nat
  BY DEF BudgetInv, TypeInv
<1>3. /\ clock[r] <= slack[r] + deadline[r] + Grace /\ slack[r] <= Overhead
      /\ budget[r].used + deadline[r] + Reserve <= budget[r].limit
  BY <1>1 DEF BudgetInv, Accounted, Provided
<1>4. budget[r].used \in Int /\ budget[r].limit \in Nat
  BY <1>2 DEF Ledgers
<1>5. budget[r].used + clock[r] <= budget[r].limit
  BY <1>2, <1>3, <1>4, BudgetAssumption
<1>6. /\ Charged(r) \in Ledgers /\ Charged(r).used = budget[r].used + clock[r]
      /\ Charged(r).limit = budget[r].limit
  BY <1>2, <1>4 DEF Charged, Budget, Ledgers
<1>7. TypeInv'
  BY <1>1, <1>6 DEF BudgetInv, TypeInv, Places, Empty, Ledgers
<1>8. pc'[r] = "writing" /\ budget'[r] = Charged(r)
  BY <1>1 DEF BudgetInv, TypeInv
<1>9. Accounted(r)' /\ Provided(r)'
  BY <1>5, <1>6, <1>8 DEF Accounted, Provided, Waits, Works
<1>10. BudgetKept'
  BY <1>1 DEF BudgetKept, Empty
<1>11. QED BY <1>1, <1>7, <1>9, <1>10, StepOf DEF BudgetInv, TypeInv

LEMMA WriteKeeps ==
  ASSUME BudgetInv, NEW r \in Runners, WriteLedger(r)
  PROVE  BudgetInv'
<1>1. /\ pc[r] = "writing" /\ ledger' = budget[r] /\ request' = request
  BY DEF WriteLedger, At
<1>2. ledger' \in Ledgers /\ BudgetKept'
  BY <1>1 DEF BudgetInv, TypeInv, Provided, BudgetKept
<1>3. CASE Leave(r, "failed")
  BY <1>1, <1>2, <1>3, LeaveKeeps DEF Ended
<1>4. CASE pc' = [pc EXCEPT ![r] = "reporting"] /\ UNCHANGED locals
  <2>1. TypeInv' /\ pc'[r] = "reporting"
    BY <1>1, <1>2, <1>4 DEF BudgetInv, TypeInv, locals, Places
  <2>2. Accounted(r)' /\ Provided(r)'
    BY <2>1 DEF Accounted, Provided, Waits, Works
  <2>3. QED BY <1>1, <1>2, <1>4, <2>1, <2>2, StepOf DEF locals, BudgetInv, TypeInv
<1>5. QED BY <1>3, <1>4 DEF WriteLedger, Stay

LEMMA TickKeeps ==
  ASSUME BudgetInv, Tick
  PROVE  BudgetInv'
<1>1. TypeInv' /\ BudgetKept'
  BY DEF BudgetInv, TypeInv, Tick, BudgetKept
<1>2. ASSUME NEW r \in Runners PROVE Accounted(r)' /\ Provided(r)'
  <2>1. /\ timer[r] \in Nat /\ slack[r] \in Nat /\ clock[r] \in Nat /\ deadline[r] \in Int
        /\ pc' = pc /\ deadline' = deadline /\ budget' = budget /\ request' = request
        /\ timer'[r] = IF pc[r] \in Waits THEN timer[r] + 1 ELSE timer[r]
        /\ slack'[r] = IF pc[r] \in Works THEN slack[r] + 1 ELSE slack[r]
        /\ clock'[r] = IF pc[r] \in Waits \cup Works THEN clock[r] + 1 ELSE clock[r]
        /\ ~Due(r)
    BY DEF BudgetInv, TypeInv, Tick
  <2>2. Provided(r)'
    BY <2>1 DEF BudgetInv, Provided
  <2>3. Accounted(r)
    BY DEF BudgetInv
  <2>4. Accounted(r)'
    <3>1. CASE pc[r] \in Works
      BY <2>1, <2>3, <3>1, BudgetAssumption DEF Accounted, Due, Waits, Works
    <3>2. CASE pc[r] = "running"
      BY <2>1, <2>3, <3>2, BudgetAssumption DEF Accounted, Due, Waits, Works, At
    <3>3. CASE pc[r] = "terminating"
      <4>1. /\ timer'[r] = timer[r] + 1 /\ slack'[r] = slack[r] /\ clock'[r] = clock[r] + 1
            /\ timer[r] # Grace /\ pc'[r] = "terminating" /\ deadline'[r] = deadline[r]
        BY <2>1, <3>3 DEF Due, Waits, Works, At
      <4>2. /\ timer[r] <= Grace /\ slack[r] <= Overhead /\ 0 <= deadline[r]
            /\ clock[r] <= slack[r] + deadline[r] + timer[r]
        BY <2>3, <3>3 DEF Accounted
      <4>3. Grace \in Nat
        BY BudgetAssumption
      <4>4. /\ timer[r] + 1 <= Grace
            /\ clock[r] + 1 <= slack[r] + deadline[r] + (timer[r] + 1)
        BY <2>1, <4>1, <4>2, <4>3
      <4>5. QED BY <4>1, <4>2, <4>4 DEF Accounted
    <3>4. CASE pc[r] \notin Waits \cup Works
      BY <2>1, <2>3, <3>4 DEF Accounted, Waits, Works
    <3>5. QED BY <3>1, <3>2, <3>3, <3>4 DEF Waits
  <2>5. QED BY <2>2, <2>4
<1>3. QED BY <1>1, <1>2 DEF BudgetInv

LEMMA BudgetStep ==
  ASSUME BudgetInv, [Next]_vars
  PROVE  BudgetInv'
<1>1. CASE UNCHANGED vars
  BY <1>1 DEF vars, BudgetInv, TypeInv, Accounted, Provided, BudgetKept
<1>2. CASE Tick
  BY <1>2, TickKeeps
<1>3. ASSUME NEW r \in Runners, Step(r) \/ WritePart(r) \/ Probe(r) \/ Interrupt(r) \/ Die(r)
      PROVE  BudgetInv'
  <2>1. CASE Start(r) \/ ReadLedger(r) \/ Record(r) \/ Charge(r) \/ WriteLedger(r)
    BY <2>1, StartKeeps, ReadKeeps, RecordKeeps, ChargeKeeps, WriteKeeps
  <2>2. CASE Acquire(r)
    BY <2>2, MoveKeeps DEF Acquire, At, locals, BudgetInv, TypeInv, Places
  <2>3. CASE MakeOutput(r)
    <3>1. CASE Raise(r)
      BY <2>3, <3>1, RaiseKeeps DEF MakeOutput, At, Works
    <3>2. CASE Stay(r, "launching") /\ UNCHANGED locals
      BY <2>3, <3>2, MoveKeeps DEF MakeOutput, Stay, At, locals, BudgetInv, TypeInv, Places, Works
    <3>3. QED BY <2>3, <3>1, <3>2 DEF MakeOutput
  <2>4. CASE Launch(r)
    <3>1. CASE Raise(r)
      BY <2>4, <3>1, RaiseKeeps DEF Launch, At, Works
    <3>2. CASE Stay(r, "running") /\ UNCHANGED locals
      BY <2>4, <3>2, MoveKeeps DEF Launch, Stay, At, locals, BudgetInv, TypeInv, Places, Waits
    <3>3. QED BY <2>4, <3>1, <3>2 DEF Launch
  <2>5. CASE WaitReturns(r)
    BY <2>5, MoveKeeps DEF WaitReturns, Stay, locals, BudgetInv, TypeInv, Places, Works
  <2>6. CASE WaitExpires(r)
    BY <2>6, MoveKeeps DEF WaitExpires, Stay, At, BudgetInv, TypeInv, Places, Waits
  <2>7. CASE Kill(r)
    BY <2>7, MoveKeeps DEF Kill, Stay, At, locals, BudgetInv, TypeInv, Places, Waits, Works
  <2>8. CASE Report(r)
    BY <2>8, LeaveKeeps DEF Report, BudgetInv, TypeInv, BudgetKept, Ended
  <2>9. CASE WritePart(r)
    <3>1. TypeInv' /\ BudgetKept'
      BY <2>9 DEF WritePart, locals, BudgetInv, TypeInv, BudgetKept, Torn, Ledgers
    <3>2. QED BY <2>9, <3>1, OtherRunner DEF WritePart, locals, BudgetInv
  <2>10. CASE Probe(r)
    BY <2>10 DEF Probe, NativeReports, NativeExits, locals, BudgetInv, TypeInv, Accounted,
                 Provided, BudgetKept
  <2>11. CASE Interrupt(r)
    BY <2>11, RaiseKeeps, LeaveKeeps DEF Interrupt, BudgetInv, TypeInv, BudgetKept, Ended
  <2>12. CASE Die(r)
    BY <2>12, LeaveKeeps DEF Die, BudgetInv, TypeInv, BudgetKept, Ended
  <2>13. QED BY <1>3, <2>1, <2>2, <2>3, <2>4, <2>5, <2>6, <2>7, <2>8, <2>9, <2>10, <2>11,
                <2>12 DEF Step
<1>4. QED BY <1>1, <1>2, <1>3 DEF Next

(* A ledger never says more than the limit, for any number of runners,     *)
(* interrupts and kills, if the reserve covers what may follow a timeout.  *)
THEOREM LedgerWithinLimit == Spec => []BudgetKept
<1>1. BudgetInv => BudgetKept
  BY DEF BudgetInv
<1>2. QED BY <1>1, BudgetInit, BudgetStep, PTL DEF Spec

-----------------------------------------------------------------------------

Natives == [state : {"none", "running", "exited"}, code : Int]
Runs == [owner : Runners \cup {None}, result : Files, record : Files]

RunTypes ==
  /\ request \in Campaigns
  /\ pc \in [Runners -> Places]
  /\ native \in [Runners -> Natives]
  /\ expired \in [Runners -> BOOLEAN]
  /\ raised \in [Runners -> BOOLEAN]
  /\ outputs \in [Directories -> Runs]

(* A runner that launched its probe, or is to record one, owns its         *)
(* directory; so does a probe, whatever became of its runner.              *)
Owns(r) ==
  /\ \/ pc[r] \in {"launching", "running", "terminating", "recording", "reporting"}
     \/ pc[r] \in {"charging", "writing"} /\ ~raised[r]
     \/ native[r].state # "none"
     => Output(r).owner = r

Phase(r) ==
  /\ pc[r] \in {"start", "waiting", "reading", "preparing", "launching"} => native[r].state = "none"
  /\ pc[r] \in {"running", "terminating"} => native[r].state # "none"
  /\ pc[r] = "recording" => native[r].state = "exited"

(* What a directory has comes from its owner, and "passed" is final. *)
Kept(d) ==
  /\ outputs[d].owner = None => outputs[d] = NoRun
  /\ outputs[d].owner # None => request[outputs[d].owner].output = d
  /\ outputs[d].result # NoFile => outputs[d].result.by = outputs[d].owner
  /\ outputs[d].record.verdict = "passed" =>
       /\ outputs[d].record.by = outputs[d].owner
       /\ outputs[d].result = [by |-> outputs[d].owner, verdict |-> "good"]
       /\ outputs[d].owner \in Runners
       /\ pc[outputs[d].owner] \in Ended \cup {"charging", "writing", "reporting"}
       /\ native[outputs[d].owner] = [state |-> "exited", code |-> 0]
       /\ ~expired[outputs[d].owner]

RunInv ==
  /\ RunTypes
  /\ \A r \in Runners : Owns(r) /\ Phase(r)
  /\ \A d \in Directories : Kept(d)

LEMMA OutputTyped ==
  ASSUME RunTypes, NEW r \in Runners
  PROVE  request[r].output \in Directories
  BY DEF RunTypes, Directories

LEMMA RunInit == Init => RunInv
  BY BudgetAssumption
  DEF Init, RunInv, RunTypes, Owns, Phase, Kept, NoRun, NoFile, Natives, Runs, Files, Places, Output

Early == {"start", "waiting", "reading", "preparing"}
Final == Ended \cup {"charging", "writing", "reporting"}

(* A step of r that leaves the files and the probes alone. *)
LEMMA QuietStep ==
  ASSUME RunInv, NEW r \in Runners,
         NEW there \in Final \cup Early \cup {"terminating", "recording"},
         pc' = [pc EXCEPT ![r] = there],
         UNCHANGED <<request, native, outputs>>,
         expired' \in [Runners -> BOOLEAN], raised' \in [Runners -> BOOLEAN],
         \A q \in Runners \ {r} : expired'[q] = expired[q] /\ raised'[q] = raised[q],
         there \in Early => pc[r] \in Early,
         pc[r] \in Final => there \in Final /\ expired'[r] = expired[r],
         there \in {"terminating", "recording", "reporting"} => Output(r).owner = r,
         there \in {"charging", "writing"} /\ ~raised'[r] => Output(r).owner = r,
         there = "terminating" => native[r].state # "none",
         there = "recording" => native[r].state = "exited"
  PROVE  RunInv'
<1>1. RunTypes' /\ pc'[r] = there
  BY DEF RunInv, RunTypes, Places, Final, Early, Ended, Waits, Works
<1>2. Owns(r)'
  BY <1>1 DEF RunInv, Owns, Output, Ended, Final, Early
<1>3. Phase(r)'
  <2>1. pc[r] \in Early => native[r].state = "none"
    BY DEF RunInv, Phase, Early
  <2>2. QED BY <1>1, <2>1 DEF Phase, Ended, Final, Early
<1>4. ASSUME NEW q \in Runners \ {r} PROVE Owns(q)' /\ Phase(q)'
  <2>1. pc'[q] = pc[q] /\ raised'[q] = raised[q]
    BY DEF RunInv, RunTypes
  <2>2. QED BY <2>1 DEF RunInv, Owns, Phase, Output
<1>5. ASSUME NEW d \in Directories PROVE Kept(d)'
  <2>1. Kept(d)
    BY DEF RunInv
  <2>2. CASE outputs[d].record.verdict = "passed" /\ outputs[d].owner = r
    <3>1. pc[r] \in Final /\ pc'[r] \in Final /\ expired'[r] = expired[r]
      BY <1>1, <2>1, <2>2 DEF Kept, Final
    <3>2. QED BY <2>1, <2>2, <3>1 DEF Kept, Final
  <2>3. CASE outputs[d].record.verdict = "passed" /\ outputs[d].owner # r
    BY <1>1, <2>1, <2>3 DEF Kept, RunInv, RunTypes
  <2>4. CASE outputs[d].record.verdict # "passed"
    BY <2>1, <2>4 DEF Kept
  <2>5. QED BY <2>2, <2>3, <2>4
<1>6. QED BY <1>1, <1>2, <1>3, <1>4, <1>5 DEF RunInv

LEMMA RaiseQuiet ==
  ASSUME RunInv, NEW r \in Runners, Raise(r), pc[r] \in Waits \cup Works,
         UNCHANGED <<request, native, outputs, expired>>
  PROVE  RunInv'
<1>1. PICK there \in {"charging", "failed"} : pc' = [pc EXCEPT ![r] = there]
  BY DEF Raise, Stay, Leave
<1>2. raised' = [raised EXCEPT ![r] = TRUE] /\ raised'[r]
  BY DEF Raise, RunInv, RunTypes
<1>3. QED BY <1>1, <1>2, QuietStep DEF RunInv, RunTypes, Final, Early, Ended, Waits, Works

(* A step that writes into the directory of r, or changes r's probe. *)
LEMMA OwnerStep ==
  ASSUME RunInv, NEW r \in Runners, RunTypes', request' = request,
         \A q \in Runners \ {r} : /\ pc'[q] = pc[q] /\ native'[q] = native[q]
                                  /\ expired'[q] = expired[q] /\ raised'[q] = raised[q],
         \A d \in Directories \ {request[r].output} : outputs'[d] = outputs[d],
         Output(r).owner \in {None, r}, outputs'[request[r].output].owner = r,
         Owns(r)', Phase(r)', Kept(request[r].output)'
  PROVE  RunInv'
<1>1. ASSUME NEW q \in Runners \ {r} PROVE Owns(q)' /\ Phase(q)'
  <2>1. Owns(q) /\ Phase(q) /\ request[q].output \in Directories
    BY OutputTyped DEF RunInv
  <2>2. CASE request[q].output = request[r].output
    BY <2>1, <2>2, BudgetAssumption DEF Owns, Phase, Output
  <2>3. CASE request[q].output # request[r].output
    BY <2>1, <2>3 DEF Owns, Phase, Output
  <2>4. QED BY <2>2, <2>3
<1>2. ASSUME NEW d \in Directories \ {request[r].output} PROVE Kept(d)'
  <2>1. Kept(d) /\ outputs'[d] = outputs[d]
    BY DEF RunInv
  <2>2. CASE outputs[d].record.verdict = "passed"
    <3>1. outputs[d].owner \in Runners /\ outputs[d].owner # r
      BY <2>1, <2>2, BudgetAssumption DEF Kept
    <3>2. QED BY <2>1, <2>2, <3>1 DEF Kept
  <2>3. CASE outputs[d].record.verdict # "passed"
    BY <2>1, <2>3 DEF Kept
  <2>4. QED BY <2>2, <2>3
<1>3. QED BY <1>1, <1>2 DEF RunInv

-----------------------------------------------------------------------------

LEMMA MakeOutputRuns ==
  ASSUME RunInv, NEW r \in Runners, MakeOutput(r)
  PROVE  RunInv'
<1> DEFINE d == request[r].output
<1>1. d \in Directories /\ pc[r] = "preparing"
  BY OutputTyped DEF RunInv, MakeOutput, At
<1>2. CASE Raise(r) /\ UNCHANGED outputs
  BY <1>1, <1>2, RaiseQuiet DEF MakeOutput, Works
<1>3. CASE /\ Accepted(r) /\ outputs' = [outputs EXCEPT ![d].owner = r]
           /\ pc' = [pc EXCEPT ![r] = "launching"] /\ UNCHANGED raised
  <2>1. outputs[d] = NoRun
    BY <1>1, <1>3 DEF RunInv, Kept, Accepted, Output
  <2>2. outputs'[d] = [owner |-> r, result |-> NoFile, record |-> NoFile]
    BY <1>1, <1>3, <2>1 DEF RunInv, RunTypes, Runs, NoRun
  <2>3. NoFile \in Files
    BY DEF NoFile, Files
  <2>4. UNCHANGED <<request, native, expired, raised>> /\ pc'[r] = "launching"
    BY <1>3 DEF MakeOutput, RunInv, RunTypes
  <2>5. RunTypes'
    <3>1. outputs' \in [Directories -> Runs]
      <4>1. ASSUME NEW e \in Directories PROVE outputs'[e] \in Runs
        BY <1>1, <1>3, <2>2, <2>3 DEF RunInv, RunTypes, Runs
      <4>2. outputs' = [e \in Directories |-> outputs'[e]]
        BY <1>3 DEF RunInv, RunTypes
      <4>3. QED BY <4>1, <4>2
    <3>2. QED BY <1>3, <2>4, <3>1 DEF RunInv, RunTypes, Places, Works
  <2>6. Owns(r)' /\ Phase(r)'
    BY <1>1, <2>2, <2>4 DEF RunInv, Owns, Phase, Output
  <2>7. Kept(d)'
    BY <2>2, <2>4, BudgetAssumption DEF Kept, NoFile
  <2>8. /\ Output(r).owner = None
        /\ \A e \in Directories \ {d} : outputs'[e] = outputs[e]
        /\ outputs'[d].owner = r
        /\ \A q \in Runners \ {r} : pc'[q] = pc[q]
    BY <1>1, <1>3, <2>1, <2>2 DEF RunInv, RunTypes, Output, NoRun
  <2>9. QED BY <2>4, <2>5, <2>6, <2>7, <2>8, OwnerStep
<1>4. QED BY <1>2, <1>3 DEF MakeOutput, Stay

LEMMA LaunchRuns ==
  ASSUME RunInv, NEW r \in Runners, Launch(r)
  PROVE  RunInv'
<1>1. pc[r] = "launching" /\ Output(r).owner = r /\ request[r].output \in Directories
  BY OutputTyped DEF RunInv, Launch, At, Owns
<1>2. CASE Raise(r) /\ UNCHANGED native
  BY <1>1, <1>2, RaiseQuiet DEF Launch, Works
<1>3. CASE /\ native' = [native EXCEPT ![r].state = "running"]
           /\ pc' = [pc EXCEPT ![r] = "running"] /\ UNCHANGED raised
  <2>1. /\ UNCHANGED <<request, expired, raised, outputs>> /\ pc'[r] = "running"
        /\ native'[r].state = "running"
    BY <1>3 DEF Launch, RunInv, RunTypes, Natives
  <2>2. RunTypes'
    BY <1>3, <2>1 DEF RunInv, RunTypes, Natives, Places, Waits
  <2>3. Owns(r)' /\ Phase(r)'
    BY <1>1, <2>1 DEF Owns, Phase, Output
  <2>4. Kept(request[r].output)'
    <3>1. Kept(request[r].output)
      BY <1>1 DEF RunInv
    <3>2. outputs[request[r].output].record.verdict # "passed"
      BY <1>1, <3>1 DEF Kept, Output, Ended
    <3>3. QED BY <2>1, <3>1, <3>2 DEF Kept
  <2>5. QED BY <1>1, <1>3, <2>1, <2>2, <2>3, <2>4, OwnerStep DEF RunInv, RunTypes, Output
<1>4. QED BY <1>2, <1>3 DEF Launch, Stay

LEMMA RecordRuns ==
  ASSUME RunInv, NEW r \in Runners, Record(r)
  PROVE  RunInv'
<1> DEFINE d == request[r].output
<1>1. /\ pc[r] = "recording" /\ Output(r).owner = r /\ d \in Directories
      /\ native[r].state = "exited" /\ outputs[d].owner = r
  BY OutputTyped DEF RunInv, Record, At, Owns, Phase, Output
<1>2. CASE Raise(r) /\ UNCHANGED outputs
  BY <1>1, <1>2, RaiseQuiet DEF Record, Works
<1>3. CASE /\ outputs' = [outputs EXCEPT ![d].record =
                             [by |-> r, verdict |-> IF Passed(r) THEN "passed" ELSE "failed"]]
           /\ \E there \in {"charging", "done"} : pc' = [pc EXCEPT ![r] = there]
           /\ UNCHANGED raised
  <2>1. PICK there \in {"charging", "done"} : pc' = [pc EXCEPT ![r] = there]
    BY <1>3
  <2>2. UNCHANGED <<request, expired, raised, native>> /\ pc'[r] = there
    BY <1>3, <2>1 DEF Record, RunInv, RunTypes
  <2>3. /\ outputs'[d].owner = r /\ outputs'[d].result = outputs[d].result
        /\ outputs'[d].record = [by |-> r, verdict |-> IF Passed(r) THEN "passed" ELSE "failed"]
        /\ \A e \in Directories \ {d} : outputs'[e] = outputs[e]
        /\ outputs'[d] \in Runs
    BY <1>1, <1>3 DEF RunInv, RunTypes, Runs, Files
  <2>4. RunTypes'
    <3>1. outputs' \in [Directories -> Runs]
      BY <1>1, <1>3, <2>3 DEF RunInv, RunTypes
    <3>2. QED BY <2>1, <2>2, <3>1 DEF RunInv, RunTypes, Places, Ended
  <2>5. Owns(r)' /\ Phase(r)'
    BY <2>2, <2>3 DEF Owns, Phase, Output
  <2>6. Kept(d)'
    <3>1. Kept(d) /\ native[r] \in Natives
      BY <1>1 DEF RunInv, RunTypes
    <3>2. CASE Passed(r)
      <4>1. /\ outputs[d].result = [by |-> r, verdict |-> "good"]
            /\ native[r] = [state |-> "exited", code |-> 0] /\ ~expired[r]
        <5>1. outputs[d].result \in Files /\ outputs[d].result.verdict = "good"
          BY <1>1, <3>2 DEF RunInv, RunTypes, Runs, Passed, Output
        <5>2. outputs[d].result.by = r
          BY <1>1, <3>1, <5>1 DEF Kept, NoFile
        <5>3. QED BY <1>1, <3>1, <3>2, <5>1, <5>2 DEF Files, Natives, Passed
      <4>2. QED BY <1>1, <2>2, <2>3, <3>1, <4>1, BudgetAssumption DEF Kept, Ended
    <3>3. CASE ~Passed(r)
      BY <1>1, <2>2, <2>3, <3>1, <3>3, BudgetAssumption DEF Kept
    <3>4. QED BY <3>2, <3>3
  <2>7. \A q \in Runners \ {r} : pc'[q] = pc[q]
    BY <2>1 DEF RunInv, RunTypes
  <2>8. QED BY <1>1, <2>2, <2>3, <2>4, <2>5, <2>6, <2>7, OwnerStep
<1>4. QED BY <1>2, <1>3 DEF Record, Stay, Leave

LEMMA ReportRuns ==
  ASSUME RunInv, NEW r \in Runners, Report(r)
  PROVE  RunInv'
<1> DEFINE d == request[r].output
<1>1. pc[r] = "reporting" /\ outputs[d].owner = r /\ d \in Directories
  BY OutputTyped DEF RunInv, Report, At, Owns, Output
<1>2. /\ pc' = [pc EXCEPT ![r] = "done"] /\ outputs' = [outputs EXCEPT ![d].record.by = r]
      /\ UNCHANGED <<request, native, expired, raised>> /\ pc'[r] = "done"
  BY DEF Report, Leave, RunInv, RunTypes
<1>3. /\ outputs'[d].owner = r /\ outputs'[d].result = outputs[d].result
      /\ outputs'[d].record.verdict = outputs[d].record.verdict /\ outputs'[d].record.by = r
      /\ outputs'[d] \in Runs
      /\ \A e \in Directories \ {d} : outputs'[e] = outputs[e]
  <2> DEFINE run == outputs[d]
  <2>1. outputs \in [Directories -> Runs]
    BY DEF RunInv, RunTypes
  <2>2. run \in Runs /\ run.record \in Files
    BY <1>1, <2>1 DEF Runs
  <2>3. /\ outputs'[d] = [run EXCEPT !.record.by = r]
        /\ \A e \in Directories \ {d} : outputs'[e] = outputs[e]
    BY <1>1, <1>2, <2>1
  <2> HIDE DEF run
  <2>4. /\ [run EXCEPT !.record.by = r].owner = run.owner
        /\ [run EXCEPT !.record.by = r].result = run.result
        /\ [run EXCEPT !.record.by = r].record.verdict = run.record.verdict
        /\ [run EXCEPT !.record.by = r].record.by = r
        /\ [run EXCEPT !.record.by = r] \in Runs
    BY <2>2 DEF Runs, Files
  <2>5. QED BY <1>1, <2>3, <2>4 DEF run
<1>4. RunTypes'
  <2>1. outputs' \in [Directories -> Runs]
    BY <1>1, <1>2, <1>3 DEF RunInv, RunTypes
  <2>2. pc' \in [Runners -> Places]
    BY <1>2 DEF RunInv, RunTypes, Places, Ended
  <2>3. QED BY <1>2, <2>1, <2>2 DEF RunInv, RunTypes
<1>5. Owns(r)' /\ Phase(r)'
  BY <1>2, <1>3 DEF Owns, Phase, Output
<1>6. Kept(d)'
  <2>1. Kept(d)
    BY <1>1 DEF RunInv
  <2>2. QED BY <1>1, <1>2, <1>3, <2>1, BudgetAssumption DEF Kept, Ended
<1>7. QED BY <1>1, <1>2, <1>3, <1>4, <1>5, <1>6, OwnerStep DEF RunInv, RunTypes, Output

LEMMA ProbeRuns ==
  ASSUME RunInv, NEW r \in Runners, Probe(r)
  PROVE  RunInv'
<1> DEFINE d == request[r].output
<1>1. /\ Running(r) /\ UNCHANGED <<request, pc, expired, raised>>
      /\ outputs[d].owner = r /\ d \in Directories /\ Kept(d) /\ Owns(r) /\ Phase(r)
  BY OutputTyped DEF Probe, NativeReports, NativeExits, Running, RunInv, Owns, Output
<1>2. outputs[d].record.verdict # "passed"
  BY <1>1 DEF Kept, Running
<1>3. ASSUME NEW v \in {"good", "broken"}, NativeReports(r, v)
      PROVE  RunInv'
  <2>1. /\ outputs'[d].owner = r /\ outputs'[d].result = [by |-> r, verdict |-> v]
        /\ outputs'[d].record = outputs[d].record
        /\ \A e \in Directories \ {d} : outputs'[e] = outputs[e]
        /\ outputs' \in [Directories -> Runs] /\ native' = native
    BY <1>1, <1>3 DEF NativeReports, RunInv, RunTypes, Runs, Files
  <2>2. RunTypes'
    BY <1>1, <2>1 DEF RunInv, RunTypes
  <2>3. Owns(r)' /\ Phase(r)' /\ Kept(d)'
    BY <1>1, <1>2, <2>1, BudgetAssumption DEF Owns, Phase, Kept, Output
  <2>4. QED BY <1>1, <2>1, <2>2, <2>3, OwnerStep DEF Output
<1>4. ASSUME NEW c \in {0, 1}, NativeExits(r, c)
      PROVE  RunInv'
  <2>1. /\ outputs' = outputs /\ native' = [native EXCEPT ![r] = [state |-> "exited", code |-> c]]
        /\ native'[r].state = "exited"
    BY <1>4 DEF NativeExits, RunInv, RunTypes
  <2>2. RunTypes'
    BY <1>1, <2>1 DEF RunInv, RunTypes, Natives
  <2>3. Owns(r)' /\ Phase(r)' /\ Kept(d)'
    BY <1>1, <1>2, <2>1, BudgetAssumption DEF Owns, Phase, Kept, Output, Running
  <2>4. QED BY <1>1, <2>1, <2>2, <2>3, OwnerStep DEF Output, RunInv, RunTypes
<1>5. QED BY <1>3, <1>4 DEF Probe

LEMMA KillRuns ==
  ASSUME RunInv, NEW r \in Runners, Kill(r)
  PROVE  RunInv'
<1> DEFINE d == request[r].output
<1>1. /\ pc[r] = "terminating" /\ outputs[d].owner = r /\ d \in Directories /\ Kept(d)
      /\ UNCHANGED <<request, outputs, raised>>
  BY OutputTyped DEF Kill, At, RunInv, Owns, Output
<1>2. /\ native' = [native EXCEPT ![r] = [state |-> "exited", code |-> 1]]
      /\ expired' = [expired EXCEPT ![r] = TRUE] /\ pc' = [pc EXCEPT ![r] = "recording"]
      /\ pc'[r] = "recording" /\ native'[r].state = "exited"
  BY DEF Kill, Stay, RunInv, RunTypes
<1>3. RunTypes'
  BY <1>1, <1>2 DEF RunInv, RunTypes, Natives, Places, Works
<1>4. outputs[d].record.verdict # "passed"
  BY <1>1 DEF Kept, Ended
<1>5. Owns(r)' /\ Phase(r)' /\ Kept(d)'
  BY <1>1, <1>2, <1>4 DEF Owns, Phase, Kept, Output
<1>6. QED BY <1>1, <1>2, <1>3, <1>5, OwnerStep DEF Output, RunInv, RunTypes

LEMMA QuietActions ==
  ASSUME RunInv, NEW r \in Runners,
         \/ Start(r) \/ Acquire(r) \/ ReadLedger(r) \/ WaitReturns(r) \/ WaitExpires(r)
         \/ Charge(r) \/ WriteLedger(r) \/ Die(r) \/ Interrupt(r),
         Interrupt(r) => pc[r] \notin Waits \cup Works
  PROVE  RunInv'
<1>1. /\ UNCHANGED <<request, native, outputs, raised>> /\ Owns(r) /\ Phase(r)
      /\ \/ expired' = expired
         \/ WaitReturns(r) /\ expired' = [expired EXCEPT ![r] = At(r, "terminating")]
  BY DEF RunInv, Start, Acquire, ReadLedger, WaitReturns, WaitExpires, Charge, WriteLedger,
         Die, Interrupt
<1>2. /\ expired' \in [Runners -> BOOLEAN] /\ raised' \in [Runners -> BOOLEAN]
      /\ \A q \in Runners \ {r} : expired'[q] = expired[q] /\ raised'[q] = raised[q]
      /\ pc[r] \in Final => expired'[r] = expired[r]
  BY <1>1 DEF RunInv, RunTypes, WaitReturns, At, Final, Ended, Waits
<1>3. CASE Start(r)
  <2>1. PICK there \in {"waiting", "preparing", "failed"} : pc' = [pc EXCEPT ![r] = there]
    BY <1>3 DEF Start
  <2>2. pc[r] = "start"
    BY <1>3 DEF Start, At
  <2>3. QED BY <1>1, <1>2, <2>1, <2>2, QuietStep DEF Final, Early, Ended
<1>4. CASE Acquire(r)
  <2>1. pc[r] = "waiting" /\ pc' = [pc EXCEPT ![r] = "reading"]
    BY <1>4 DEF Acquire, At
  <2>2. QED BY <1>1, <1>2, <2>1, QuietStep DEF Final, Early, Ended
<1>5. CASE ReadLedger(r)
  <2>1. PICK there \in {"preparing", "failed"} : pc' = [pc EXCEPT ![r] = there]
    BY <1>5 DEF ReadLedger, Stay, Leave
  <2>2. pc[r] = "reading"
    BY <1>5 DEF ReadLedger, At
  <2>3. QED BY <1>1, <1>2, <2>1, <2>2, QuietStep DEF Final, Early, Ended
<1>6. CASE WaitReturns(r)
  <2>1. pc[r] \in {"running", "terminating"} /\ pc' = [pc EXCEPT ![r] = "recording"] /\ ~Running(r)
    BY <1>6 DEF WaitReturns, Stay, Waits
  <2>2. Output(r).owner = r /\ native[r].state \in {"none", "exited"}
    BY <1>1, <2>1 DEF Owns, Waits, Running, RunInv, RunTypes, Natives
  <2>3. native[r].state = "exited"
    BY <1>1, <2>1, <2>2 DEF Phase, Waits
  <2>4. QED BY <1>1, <1>2, <2>1, <2>2, <2>3, QuietStep DEF Final, Early, Ended
<1>7. CASE WaitExpires(r)
  <2>1. pc[r] = "running" /\ pc' = [pc EXCEPT ![r] = "terminating"]
    BY <1>7 DEF WaitExpires, Stay, At
  <2>2. Output(r).owner = r /\ native[r].state # "none"
    BY <1>1, <2>1 DEF Owns, Phase
  <2>3. QED BY <1>1, <1>2, <2>1, <2>2, QuietStep DEF Final, Early, Ended
<1>8. CASE Charge(r)
  <2>1. pc[r] = "charging" /\ pc' = [pc EXCEPT ![r] = "writing"]
    BY <1>8 DEF Charge, Stay, At
  <2>2. Output(r).owner = r \/ raised'[r]
    BY <1>1, <2>1 DEF Owns
  <2>3. QED BY <1>1, <1>2, <2>1, <2>2, QuietStep DEF Final, Early, Ended
<1>9. CASE WriteLedger(r)
  <2>1. PICK there \in {"failed", "reporting"} :
          pc' = [pc EXCEPT ![r] = there] /\ (there = "reporting" => ~raised[r])
    BY <1>9 DEF WriteLedger, Stay, Leave
  <2>2. pc[r] = "writing"
    BY <1>9 DEF WriteLedger, At
  <2>3. there = "reporting" => Output(r).owner = r
    BY <1>1, <2>1, <2>2 DEF Owns
  <2>4. QED BY <1>1, <1>2, <2>1, <2>2, <2>3, QuietStep DEF Final, Early, Ended
<1>10. CASE Die(r) \/ Interrupt(r)
  <2>1. PICK there \in {"failed", "dead"} : pc' = [pc EXCEPT ![r] = there]
    BY <1>10 DEF Die, Interrupt, Leave
  <2>2. QED BY <1>1, <1>2, <2>1, QuietStep DEF Final, Early, Ended
<1>11. QED BY <1>3, <1>4, <1>5, <1>6, <1>7, <1>8, <1>9, <1>10

LEMMA RunStep ==
  ASSUME RunInv, [Next]_vars
  PROVE  RunInv'
<1>1. CASE UNCHANGED vars
  BY <1>1 DEF vars, RunInv, RunTypes, Owns, Phase, Kept, Output
<1>2. CASE Tick
  BY <1>2 DEF Tick, RunInv, RunTypes, Owns, Phase, Kept, Output
<1>3. ASSUME NEW r \in Runners, Step(r) \/ WritePart(r) \/ Probe(r) \/ Interrupt(r) \/ Die(r)
      PROVE  RunInv'
  <2>1. CASE WritePart(r)
    BY <2>1 DEF WritePart, RunInv, RunTypes, Owns, Phase, Kept, Output
  <2>2. CASE Interrupt(r) /\ pc[r] \in Waits \cup Works
    BY <2>2, RaiseQuiet DEF Interrupt
  <2>3. QED BY <1>3, <2>1, <2>2, QuietActions, MakeOutputRuns, LaunchRuns, KillRuns, RecordRuns,
               ReportRuns, ProbeRuns DEF Step
<1>4. QED BY <1>1, <1>2, <1>3 DEF Next

(* Whatever runners share a directory, and whatever probes are left behind *)
(* by interrupted runners: a passed record is of the owner's own probe.    *)
THEOREM PassedRunsAreOwn == Spec => []PassedIsOwn
<1>1. RunInv => PassedIsOwn
  BY DEF RunInv, Kept, PassedIsOwn
<1>2. QED BY <1>1, RunInit, RunStep, PTL DEF Spec

-----------------------------------------------------------------------------
(* Sums over finite sets.                                                  *)
Sum(f) == FoldFunction(+, 0, f)

(* The sums of f over all subsets of R, taking elements out one by one. *)
Sums(R, f, g) ==
  /\ g \in [SUBSET R -> Nat]
  /\ \A s \in SUBSET R : g[s] = IF s = {} THEN 0 ELSE f[OneOf(s)] + g[s \ {OneOf(s)}]

(* The sums exist, since an element leaves a smaller set. *)
LEMMA SumsExist ==
  ASSUME NEW R, IsFiniteSet(R), NEW f \in [R -> Nat]
  PROVE  \E g : Sums(R, f, g)
<1> DEFINE Upto(n, g) ==
      /\ g \in [SUBSET R -> Nat]
      /\ \A s \in SUBSET R : Cardinality(s) <= n =>
           g[s] = IF s = {} THEN 0 ELSE f[OneOf(s)] + g[s \ {OneOf(s)}]
      Good(n) == \E g : Upto(n, g)
      Bad == {n \in Nat : ~Good(n)}
<1>1. \A s \in SUBSET R : s # {} => s \ {OneOf(s)} \in SUBSET R /\ f[OneOf(s)] \in Nat
  BY AnyLeaves
<1>2. Good(0)
  <2>1. ASSUME NEW s \in SUBSET R, Cardinality(s) <= 0
        PROVE  s = {}
    <3>1. Cardinality(s) \in Nat /\ (Cardinality(s) = 0 <=> s = {})
      BY AnyLeaves
    <3>2. QED BY <2>1, <3>1
  <2>2. Upto(0, [s \in SUBSET R |-> 0])
    BY <2>1
  <2>3. QED BY <2>2
<1>3. ASSUME NEW n \in Nat, Good(n)
      PROVE  Good(n + 1)
  <2>0. PICK g : Upto(n, g)
    BY <1>3
  <2> DEFINE h == [s \in SUBSET R |->
                     IF s = {} THEN 0 ELSE f[OneOf(s)] + g[s \ {OneOf(s)}]]
  <2>1. \A s \in SUBSET R : s # {} => f[OneOf(s)] + g[s \ {OneOf(s)}] \in Nat
    BY <1>1, <2>0
  <2>2. h \in [SUBSET R -> Nat]
    BY <2>1
  <2>3. ASSUME NEW s \in SUBSET R, Cardinality(s) <= n
        PROVE  h[s] = g[s]
    BY <2>0, <2>3
  <2>4. ASSUME NEW s \in SUBSET R, Cardinality(s) <= n + 1, s # {}
        PROVE  h[s] = f[OneOf(s)] + h[s \ {OneOf(s)}]
    <3>1. s \ {OneOf(s)} \in SUBSET R /\ Cardinality(s \ {OneOf(s)}) <= n
      BY <2>4, AnyLeaves
    <3>2. QED BY <2>3, <2>4, <3>1
  <2>5. h[{}] = 0
    OBVIOUS
  <2> HIDE DEF h
  <2>6. Upto(n + 1, h)
    BY <2>2, <2>4, <2>5
  <2>7. QED BY <2>6
<1> HIDE DEF Upto, Good
<1>4. Bad = {}
  <2>1. SUFFICES ASSUME Bad # {} PROVE FALSE
    OBVIOUS
  <2>2. Bad \subseteq Nat
    OBVIOUS
  <2>3. PICK n \in Bad : \A m \in Bad : n <= m
    BY <2>1, <2>2, LeastNat
  <2>4. n # 0
    BY <1>2, <2>3
  <2>5. n - 1 \in Nat /\ n \in Nat /\ n - 1 \notin Bad
    BY <2>2, <2>3, <2>4
  <2>6. Good((n - 1) + 1)
    BY <1>3, <2>5
  <2>7. QED BY <2>3, <2>5, <2>6
<1>5. Cardinality(R) \in Nat
  BY FS_CardinalityType
<1>6. PICK g : Upto(Cardinality(R), g)
  BY <1>4, <1>5 DEF Good
<1>7. \A s \in SUBSET R : Cardinality(s) <= Cardinality(R)
  BY FS_Subset
<1>8. QED BY <1>6, <1>7 DEF Sums, Upto

(* The fold of the community modules is the last of them. *)
LEMMA SumMeaning ==
  ASSUME NEW R, IsFiniteSet(R), NEW f \in [R -> Nat]
  PROVE  \E g : Sums(R, f, g) /\ Sum(f) = g[R]
<1> DEFINE F(g) == [s \in SUBSET R |-> IF s = {} THEN 0 ELSE f[OneOf(s)] + g[s \ {OneOf(s)}]]
           run == CHOOSE g : g = F(g)
<1>1. PICK g : Sums(R, f, g)
  BY SumsExist
<1>2. g = F(g)
  BY <1>1 DEF Sums
<1>3. run = F(run)
  BY <1>2
<1>4. Sum(f) = run[R]
  BY DEF Sum, FoldFunction, FoldFunctionOnSet, MapThenFoldSet, OneOf
<1> HIDE DEF run
<1>5. \A s \in SUBSET R : run[s] = IF s = {} THEN 0 ELSE f[OneOf(s)] + run[s \ {OneOf(s)}]
  BY <1>3
<1>6. SUBSET R = DOMAIN run
  BY <1>3
<1>7. {s \in SUBSET R : run[s] \in Nat} = SUBSET R
  <2> DEFINE P == {s \in SUBSET R : run[s] \in Nat}
  <2>1. {} \in P
    <3>1. {} \in SUBSET R
      OBVIOUS
    <3>2. run[{}] = 0
      BY <1>5, <3>1
    <3>3. QED BY <3>1, <3>2
  <2>2. ASSUME NEW s \in SUBSET R, s # {}, s \ {OneOf(s)} \in P
        PROVE  s \in P
    <3>1. f[OneOf(s)] \in Nat
      BY <2>2, AnyLeaves
    <3>2. run[s] = f[OneOf(s)] + run[s \ {OneOf(s)}]
      BY <1>5, <2>2
    <3>3. run[s \ {OneOf(s)}] \in Nat
      BY <2>2
    <3>4. QED BY <3>1, <3>2, <3>3
  <2>3. P \subseteq SUBSET R
    OBVIOUS
  <2> HIDE DEF P
  <2>4. P = SUBSET R
    BY <2>1, <2>2, <2>3, SubsetInduction
  <2>5. QED BY <2>4 DEF P
<1>8. run \in [SUBSET R -> Nat]
  <2>1. run = [s \in SUBSET R |-> run[s]]
    BY <1>3
  <2>2. QED BY <1>7, <2>1
<1>9. QED BY <1>4, <1>5, <1>8 DEF Sums

(* A sum is a natural number, and zero if nothing was spent. *)
LEMMA SumType ==
  ASSUME NEW R, IsFiniteSet(R), NEW f \in [R -> Nat]
  PROVE  /\ Sum(f) \in Nat
         /\ (\A r \in R : f[r] = 0) => Sum(f) = 0
<1>1. PICK g : Sums(R, f, g) /\ Sum(f) = g[R]
  BY SumMeaning
<1>2. ASSUME \A r \in R : f[r] = 0
      PROVE  g[R] = 0
  <2> DEFINE P == {s \in SUBSET R : g[s] = 0}
  <2>1. {} \in P
    BY <1>1 DEF Sums
  <2>2. ASSUME NEW s \in SUBSET R, s # {}, s \ {OneOf(s)} \in P
        PROVE  s \in P
    <3>1. f[OneOf(s)] = 0
      BY <1>2, <2>2, AnyLeaves
    <3>2. g[s] = f[OneOf(s)] + g[s \ {OneOf(s)}] /\ g[s \ {OneOf(s)}] = 0
      BY <1>1, <2>2 DEF Sums
    <3>3. QED BY <3>1, <3>2
  <2>3. P \subseteq SUBSET R
    OBVIOUS
  <2> HIDE DEF P
  <2>4. P = SUBSET R
    BY <2>1, <2>2, <2>3, SubsetInduction
  <2>5. QED BY <2>4 DEF P
<1>3. QED BY <1>1, <1>2 DEF Sums

(* Changing one summand changes the sum by as much. *)
LEMMA SumChange ==
  ASSUME NEW R, IsFiniteSet(R), NEW f \in [R -> Nat], NEW h \in [R -> Nat], NEW r \in R,
         \A q \in R \ {r} : h[q] = f[q]
  PROVE  Sum(h) = Sum(f) + h[r] - f[r]
<1>1. PICK g : Sums(R, f, g) /\ Sum(f) = g[R]
  BY SumMeaning
<1>2. PICK k : Sums(R, h, k) /\ Sum(h) = k[R]
  BY SumMeaning
<1> DEFINE P == {s \in SUBSET R : k[s] = g[s] + IF r \in s THEN h[r] - f[r] ELSE 0}
<1>3. {} \in P
  <2>1. g[{}] = 0 /\ k[{}] = 0
    BY <1>1, <1>2 DEF Sums
  <2>2. QED BY <2>1
<1>4. ASSUME NEW s \in SUBSET R, s # {}, s \ {OneOf(s)} \in P
      PROVE  s \in P
  <2>1. /\ OneOf(s) \in s /\ OneOf(s) \in R /\ s \ {OneOf(s)} \in SUBSET R
    BY <1>4, AnyLeaves
  <2>2. /\ g[s] = f[OneOf(s)] + g[s \ {OneOf(s)}] /\ k[s] = h[OneOf(s)] + k[s \ {OneOf(s)}]
        /\ g[s \ {OneOf(s)}] \in Nat /\ k[s \ {OneOf(s)}] \in Nat
    BY <1>1, <1>2, <1>4, <2>1 DEF Sums
  <2>3. CASE OneOf(s) = r
    BY <1>4, <2>1, <2>2, <2>3
  <2>4. CASE OneOf(s) # r
    BY <1>4, <2>1, <2>2, <2>4
  <2>5. QED BY <2>3, <2>4
<1>5. P \subseteq SUBSET R
  OBVIOUS
<1>6. P = SUBSET R
  <2> HIDE DEF P
  <2>1. QED BY <1>3, <1>4, <1>5, SubsetInduction
<1>7. R \in P
  BY <1>6
<1>8. QED BY <1>1, <1>2, <1>7 DEF Sums

-----------------------------------------------------------------------------
(* The seconds of all probes, while no runner is interrupted or killed: a  *)
(* budgeted run has the lock, and what it read of the ledger covers all    *)
(* seconds but its own.                                                    *)
Locked == {"reading", "charging", "writing", "reporting"} \cup Works \cup Waits
Budgeted(r) == request[r].file /\ pc[r] \in {"charging", "writing"} \cup Works \cup Waits

LockInv ==
  \A r \in Runners :
    /\ pc[r] \in {"waiting", "reading", "charging", "writing", "reporting"} => request[r].file
    /\ request[r].file /\ pc[r] \in Locked => lock = r

SpentBy(r, total) ==
  /\ spent[r] # 0 =>
       request[r].file /\ pc[r] \notin {"start", "waiting", "reading", "preparing", "launching"}
  /\ Budgeted(r) /\ pc[r] # "writing" =>
       /\ spent[r] <= clock[r]
       /\ total <= budget[r].used + spent[r]
       /\ ledger.kind = "budget" => ledger = budget[r]
  /\ pc[r] = "writing" =>
       total <= budget[r].used /\ budget[r].kind = "budget" /\ ledger.kind # "budget"

LedgerTotal(total) ==
  (\A r \in Runners : ~Budgeted(r)) =>
     \/ ledger.kind = "empty" /\ total = 0
     \/ ledger.kind = "budget" /\ total <= ledger.used

QuietInv ==
  faults = 0 => /\ LockInv
                /\ \A r \in Runners : SpentBy(r, Sum(spent))
                /\ LedgerTotal(Sum(spent))

SecondsInv == spent \in [Runners -> Nat] /\ faults \in Nat /\ QuietInv

-----------------------------------------------------------------------------

(* Nothing is spent at first.                                              *)
LEMMA SecondsInit == Init => SecondsInv
<1> SUFFICES ASSUME Init PROVE SecondsInv
  OBVIOUS
<1>1. spent \in [Runners -> Nat] /\ \A r \in Runners : spent[r] = 0
  BY DEF Init
<1>2. Sum(spent) = 0
  BY <1>1, SumType, BudgetAssumption
<1>3. LockInv /\ \A r \in Runners : SpentBy(r, 0)
  BY DEF Init, LockInv, SpentBy, Locked, Budgeted, Works, Waits
<1>4. LedgerTotal(0)
  BY DEF Init, LedgerTotal, Empty
<1>5. QED BY <1>1, <1>2, <1>3, <1>4 DEF SecondsInv, QuietInv, Init

(* Two budgeted runs never overlap. *)
LEMMA OneHolder ==
  ASSUME LockInv, NEW r \in Runners, NEW q \in Runners,
         request[r].file, pc[r] \in Locked, request[q].file, pc[q] \in Locked
  PROVE  q = r
  BY DEF LockInv

(* A runner whose variables a step leaves alone. *)
LEMMA OtherSpent ==
  ASSUME NEW q \in Runners, NEW total, SpentBy(q, total), request' = request, spent' = spent,
         pc'[q] = pc[q], budget'[q] = budget[q], clock'[q] = clock[q],
         ledger' = ledger \/ (~Budgeted(q) /\ pc[q] # "writing")
  PROVE  SpentBy(q, total)'
  BY DEF SpentBy, Budgeted

(* A step of r that spends nothing and leaves the ledger alone. *)
LEMMA LedgerStays ==
  ASSUME BudgetInv, SecondsInv, faults = 0, NEW r \in Runners,
         request' = request, spent' = spent, faults' = faults, ledger' = ledger, 
         \A q \in Runners \ {r} :
            pc'[q] = pc[q] /\ budget'[q] = budget[q] /\ clock'[q] = clock[q],
         \/ lock' = lock
         \/ lock = r /\ lock' = None
         \/ lock = None /\ lock' = r,
         request[r].file /\ pc'[r] \in Locked => lock' = r,
         pc'[r] \in {"waiting", "reading", "charging", "writing", "reporting"} => request[r].file,
         SpentBy(r, Sum(spent))',
         Budgeted(r) => Budgeted(r)'
  PROVE  SecondsInv'
<1>0. /\ LockInv /\ \A q \in Runners : SpentBy(q, Sum(spent))
      /\ LedgerTotal(Sum(spent))
  BY DEF SecondsInv, QuietInv
<1>1. LockInv'
  <2>1. ASSUME NEW q \in Runners, q # r
        PROVE  /\ pc'[q] \in {"waiting", "reading", "charging", "writing", "reporting"} => request'[q].file
               /\ request'[q].file /\ pc'[q] \in Locked => lock' = q
    BY <1>0, <2>1, BudgetAssumption DEF LockInv
  <2>2. QED BY <2>1 DEF LockInv
<1>2. \A q \in Runners : SpentBy(q, Sum(spent))'
  BY <1>0, OtherSpent
<1>3. LedgerTotal(Sum(spent))'
  <2>1. ASSUME NEW q \in Runners, ~Budgeted(q)'
        PROVE  ~Budgeted(q)
    BY <2>1 DEF Budgeted
  <2>2. QED BY <1>0, <2>1 DEF LedgerTotal
<1>4. QED BY <1>1, <1>2, <1>3 DEF SecondsInv, QuietInv

(* A runner that leaves without a budgeted run. *)
LEMMA LeavesUnbudgeted ==
  ASSUME BudgetInv, SecondsInv, faults = 0, NEW r \in Runners, NEW how \in Ended, Leave(r, how),
         request' = request, spent' = spent, faults' = faults, ledger' = ledger, ~Budgeted(r)
  PROVE  SecondsInv'
<1>1. /\ pc' = [pc EXCEPT ![r] = how] /\ budget' = [budget EXCEPT ![r] = Empty]
      /\ clock' = [clock EXCEPT ![r] = 0] /\ lock' = IF lock = r THEN None ELSE lock
  BY DEF Leave
<1>2. /\ pc'[r] = how
      /\ \A q \in Runners \ {r} : pc'[q] = pc[q] /\ budget'[q] = budget[q] /\ clock'[q] = clock[q]
  BY <1>1 DEF BudgetInv, TypeInv
<1>3. SpentBy(r, Sum(spent))'
  <2>1. spent[r] # 0 => request[r].file
    BY DEF SecondsInv, QuietInv, SpentBy
  <2>2. QED BY <1>2, <2>1 DEF SpentBy, Budgeted, Ended, Works, Waits
<1>4. pc'[r] \notin Locked /\ pc'[r] # "waiting"
  BY <1>2 DEF Ended, Locked, Works, Waits
<1>5. QED BY <1>1, <1>2, <1>3, <1>4, LedgerStays DEF Locked

(* A runner that moves on with its budget. *)
LEMMA MovesBudgeted ==
  ASSUME BudgetInv, SecondsInv, faults = 0, NEW r \in Runners, NEW there \in Places,
         pc' = [pc EXCEPT ![r] = there],
         UNCHANGED <<request, lock, ledger, budget, clock, spent, faults>>,
         \/ pc[r] = "preparing" /\ there \in {"launching"} \cup Waits \cup {"recording"}
         \/ pc[r] = "launching" /\ there \in Waits \cup {"recording"}
         \/ pc[r] \in Waits /\ there \in Waits \cup {"recording"}
         \/ pc[r] \in Works \cup Waits /\ there = "charging" /\ request[r].file
  PROVE  SecondsInv'
<1>1. pc'[r] = there /\ \A q \in Runners \ {r} : pc'[q] = pc[q]
  BY DEF BudgetInv, TypeInv
<1>2. /\ pc[r] \in Works \cup Waits /\ there \in Works \cup Waits \cup {"charging"}
      /\ there = "charging" => request[r].file
      /\ there = "launching" => pc[r] = "preparing"
  BY DEF Works, Waits
<1>3. SpentBy(r, Sum(spent))
  BY DEF SecondsInv, QuietInv
<1>4. SpentBy(r, Sum(spent))'
  BY <1>1, <1>2, <1>3 DEF SpentBy, Budgeted, Works, Waits
<1>5. request[r].file => lock = r
  BY <1>2 DEF SecondsInv, QuietInv, LockInv, Locked
<1>6. Budgeted(r) => Budgeted(r)'
  BY <1>1, <1>2 DEF Budgeted
<1>7. there \notin {"waiting", "reading", "writing", "reporting"}
  BY <1>2 DEF Works, Waits
<1>8. QED BY <1>1, <1>2, <1>4, <1>5, <1>6, <1>7, LedgerStays

(* An exception in _run leads to the charge, or out of an unbudgeted run.  *)
LEMMA RaiseSeconds ==
  ASSUME BudgetInv, SecondsInv, faults = 0, NEW r \in Runners, Raise(r), pc[r] \in Works \cup Waits,
         request' = request, spent' = spent, faults' = faults, ledger' = ledger
  PROVE  SecondsInv'
<1>1. CASE request[r].file
  BY <1>1, MovesBudgeted DEF Raise, Stay, locals, Places
<1>2. CASE ~request[r].file
  BY <1>2, LeavesUnbudgeted DEF Raise, Budgeted, Ended
<1>3. QED BY <1>1, <1>2

(* The budget read covers all seconds, since no other run has one.         *)
LEMMA ReadSeconds ==
  ASSUME BudgetInv, SecondsInv, faults = 0, NEW r \in Runners, ReadLedger(r)
  PROVE  SecondsInv'
<1>0. /\ pc[r] = "reading" /\ UNCHANGED <<request, ledger, spent, faults>>
      /\ LockInv /\ SpentBy(r, Sum(spent)) /\ LedgerTotal(Sum(spent))
  BY DEF ReadLedger, At, SecondsInv, QuietInv
<1>1. request[r].file /\ lock = r
  BY <1>0 DEF LockInv, Locked
<1>2. CASE Leave(r, "failed")
  BY <1>0, <1>2, LeavesUnbudgeted DEF ReadLedger, Budgeted, Ended, Works, Waits
<1>3. CASE /\ Admissible(r) /\ budget' = [budget EXCEPT ![r] = Read(r)]
           /\ pc' = [pc EXCEPT ![r] = "preparing"] /\ UNCHANGED <<lock, clock>>
  <2>1. /\ pc'[r] = "preparing" /\ budget'[r] = Read(r)
        /\ \A q \in Runners \ {r} : pc'[q] = pc[q] /\ budget'[q] = budget[q] /\ clock'[q] = clock[q]
    BY <1>3 DEF BudgetInv, TypeInv
  <2>2. \A q \in Runners : ~Budgeted(q)
    <3>1. ASSUME NEW q \in Runners, Budgeted(q)
          PROVE  FALSE
      <4>1. q = r
        BY <1>0, <1>1, <3>1, OneHolder DEF Budgeted, Locked
      <4>2. QED BY <1>0, <3>1, <4>1 DEF Budgeted, Works, Waits
    <3>2. QED BY <3>1
  <2>3. spent[r] = 0 /\ clock[r] \in Nat
    BY <1>0 DEF SpentBy, BudgetInv, TypeInv
  <2>4. Sum(spent) <= Read(r).used /\ (ledger.kind = "budget" => ledger = Read(r))
    BY <1>0, <2>2 DEF LedgerTotal, Read, Budget
  <2>5. Sum(spent) \in Nat
    BY SumType, BudgetAssumption DEF SecondsInv
  <2>6. Read(r).used \in Int
    <3>1. request[r].limit \in Nat
      BY BudgetAssumption DEF BudgetInv, TypeInv
    <3>2. QED BY <3>1 DEF BudgetInv, TypeInv, Ledgers, Read, Budget
  <2>7. SpentBy(r, Sum(spent))'
    BY <1>0, <1>1, <1>3, <2>1, <2>3, <2>4, <2>5, <2>6 DEF SpentBy, Budgeted
  <2>8. QED BY <1>0, <1>1, <1>3, <2>1, <2>2, <2>7, LedgerStays
<1>4. QED BY <1>2, <1>3 DEF ReadLedger, Stay

(* The ledger is rewritten by the runner that charges: no other holds a    *)
(* budget then.                                                            *)
LEMMA LedgerRewritten ==
  ASSUME BudgetInv, SecondsInv, faults = 0, NEW r \in Runners, pc[r] \in {"charging", "writing"},
         request' = request, spent' = spent, faults' = faults,
         \A q \in Runners \ {r} :
            pc'[q] = pc[q] /\ budget'[q] = budget[q] /\ clock'[q] = clock[q],
         lock' = lock \/ (lock = r /\ lock' = None),
         \/ pc'[r] \in {"writing", "reporting"} /\ lock' = lock
         \/ pc'[r] \in Ended,
         pc'[r] = "writing" =>
           /\ ledger'.kind # "budget" /\ budget'[r].kind = "budget"
           /\ Sum(spent) <= budget'[r].used,
         pc'[r] # "writing" => ledger'.kind = "budget" /\ Sum(spent) <= ledger'.used
  PROVE  SecondsInv'
<1>0. /\ LockInv /\ (\A q \in Runners : SpentBy(q, Sum(spent)))
      /\ request[r].file /\ lock = r
  BY DEF SecondsInv, QuietInv, LockInv, Locked
<1>1. LockInv'
  <2>1. ASSUME NEW q \in Runners
        PROVE  /\ pc'[q] \in {"waiting", "reading", "charging", "writing", "reporting"} => request'[q].file
               /\ request'[q].file /\ pc'[q] \in Locked => lock' = q
    <3>1. CASE q = r
      BY <1>0, <3>1 DEF LockInv, Ended, Locked, Works, Waits
    <3>2. CASE q # r
      <4>1. ~(request[q].file /\ pc[q] \in Locked)
        BY <1>0, <3>2 DEF LockInv
      <4>2. QED BY <1>0, <3>2, <4>1 DEF LockInv
    <3>3. QED BY <3>1, <3>2
  <2>2. QED BY <2>1 DEF LockInv
<1>2. ASSUME NEW q \in Runners \ {r}
      PROVE  SpentBy(q, Sum(spent))'
  <2>1. ~Budgeted(q) /\ pc[q] # "writing"
    BY <1>0 DEF LockInv, Budgeted, Locked
  <2>2. QED BY <1>0, <2>1, OtherSpent
<1>3. SpentBy(r, Sum(spent))'
  BY <1>0 DEF SpentBy, Budgeted, Ended, Works, Waits
<1>4. LedgerTotal(Sum(spent))'
  <2>1. pc'[r] = "writing" => Budgeted(r)'
    BY <1>0 DEF Budgeted
  <2>2. QED BY <2>1 DEF LedgerTotal
<1>5. QED BY <1>1, <1>2, <1>3, <1>4 DEF SecondsInv, QuietInv

(* Charging covers what the run spent, and the ledger gets it in the end.  *)
LEMMA ChargeSeconds ==
  ASSUME BudgetInv, SecondsInv, faults = 0, NEW r \in Runners, Charge(r) \/ WritePart(r) \/ WriteLedger(r)
  PROVE  SecondsInv'
<1>1. UNCHANGED <<request, spent, faults>> /\ SpentBy(r, Sum(spent)) /\ LockInv
  BY DEF Charge, WritePart, WriteLedger, SecondsInv, QuietInv
<1>2. Sum(spent) \in Nat /\ spent[r] \in Nat
  BY SumType, BudgetAssumption DEF SecondsInv
<1>3. budget[r].used \in Int /\ clock[r] \in Nat
  BY DEF BudgetInv, TypeInv, Ledgers
<1>4. CASE Charge(r)
  <2>1. /\ pc[r] = "charging" /\ pc' = [pc EXCEPT ![r] = "writing"] /\ ledger' = Empty
        /\ budget' = [budget EXCEPT ![r] = Charged(r)] /\ UNCHANGED <<lock, clock>>
    BY <1>4 DEF Charge, Stay, At
  <2>2. /\ pc'[r] = "writing" /\ budget'[r] = Charged(r)
        /\ \A q \in Runners \ {r} : pc'[q] = pc[q] /\ budget'[q] = budget[q] /\ clock'[q] = clock[q]
    BY <2>1 DEF BudgetInv, TypeInv
  <2>3. Budgeted(r)
    BY <1>1, <2>1 DEF LockInv, Budgeted
  <2>4. Sum(spent) <= budget[r].used + clock[r]
    BY <1>1, <1>2, <1>3, <2>1, <2>3 DEF SpentBy
  <2>5. Charged(r).kind = "budget" /\ Sum(spent) <= Charged(r).used /\ Empty.kind # "budget"
    BY <2>4 DEF Charged, Budget, Empty
  <2>6. QED BY <1>1, <2>1, <2>2, <2>5, LedgerRewritten
<1>5. CASE WritePart(r)
  BY <1>1, <1>5, LedgerRewritten DEF WritePart, At, locals, SpentBy, Torn
<1>6. CASE WriteLedger(r)
  <2>1. pc[r] = "writing" /\ ledger' = budget[r]
    BY <1>6 DEF WriteLedger, At
  <2>2. budget[r].kind = "budget" /\ Sum(spent) <= budget[r].used
    BY <1>1, <2>1 DEF SpentBy
  <2>3. CASE Leave(r, "failed")
    <3>1. /\ pc'[r] = "failed" /\ "failed" \in Ended
          /\ \A q \in Runners \ {r} : pc'[q] = pc[q] /\ budget'[q] = budget[q] /\ clock'[q] = clock[q]
          /\ lock' = lock \/ (lock = r /\ lock' = None)
      BY <2>3 DEF Leave, BudgetInv, TypeInv, Ended
    <3>2. QED BY <1>1, <2>1, <2>2, <3>1, LedgerRewritten
  <2>4. CASE pc' = [pc EXCEPT ![r] = "reporting"] /\ UNCHANGED <<lock, budget, clock>>
    <3>1. pc'[r] = "reporting" /\ \A q \in Runners \ {r} : pc'[q] = pc[q]
      BY <2>4 DEF BudgetInv, TypeInv
    <3>2. QED BY <1>1, <2>1, <2>2, <2>4, <3>1, LedgerRewritten
  <2>5. QED BY <1>6, <2>3, <2>4 DEF WriteLedger, Stay, locals
<1>7. QED BY <1>4, <1>5, <1>6

(* Only the run that has the budget spends.                                *)
LEMMA TickSeconds ==
  ASSUME BudgetInv, SecondsInv, Tick
  PROVE  SecondsInv'
<1> DEFINE Spends(r) == pc[r] \in Waits /\ Running(r) /\ request[r].file
<1>1. /\ spent \in [Runners -> Nat] /\ clock \in [Runners -> Nat] /\ faults \in Nat
      /\ UNCHANGED <<request, pc, lock, ledger, budget, faults>>
      /\ spent' = [r \in Runners |-> IF Spends(r) THEN spent[r] + 1 ELSE spent[r]]
      /\ clock' = [r \in Runners |-> IF pc[r] \in Waits \cup Works THEN clock[r] + 1 ELSE clock[r]]
  BY DEF Tick, SecondsInv, BudgetInv, TypeInv
<1>2. spent' \in [Runners -> Nat] /\ clock' \in [Runners -> Nat]
      /\ \A r \in Runners : clock[r] <= clock'[r]
  BY <1>1
<1>3. ASSUME faults = 0
      PROVE  LockInv' /\ (\A q \in Runners : SpentBy(q, Sum(spent))') /\ LedgerTotal(Sum(spent))'
  <2>0. LockInv /\ (\A q \in Runners : SpentBy(q, Sum(spent))) /\ LedgerTotal(Sum(spent))
    BY <1>3 DEF SecondsInv, QuietInv
  <2>1. LockInv'
    BY <1>1, <2>0 DEF LockInv
  <2>2. CASE \A r \in Runners : ~Spends(r)
    <3>1. spent' = spent
      BY <1>1, <2>2
    <3>2. ASSUME NEW q \in Runners
          PROVE  SpentBy(q, Sum(spent))'
      <4>1. spent[q] \in Nat /\ clock[q] \in Nat /\ clock'[q] \in Nat /\ clock[q] <= clock'[q]
        BY <1>1, <1>2
      <4>2. QED BY <1>1, <2>0, <3>1, <4>1 DEF SpentBy, Budgeted
    <3>3. LedgerTotal(Sum(spent))'
      BY <1>1, <2>0, <3>1 DEF LedgerTotal, Budgeted
    <3>4. QED BY <2>1, <3>2, <3>3
  <2>3. ASSUME NEW r \in Runners, Spends(r)
        PROVE  (\A q \in Runners : SpentBy(q, Sum(spent))') /\ LedgerTotal(Sum(spent))'
    <3>1. ASSUME NEW q \in Runners \ {r}
          PROVE  ~(request[q].file /\ pc[q] \in Locked)
      BY <2>0, <2>3, OneHolder DEF Locked
    <3>2. ASSUME NEW q \in Runners \ {r}
          PROVE  ~Budgeted(q) /\ pc[q] # "writing" /\ spent'[q] = spent[q]
      <4>1. pc[q] # "writing"
        BY <2>0, <3>1 DEF LockInv, Locked
      <4>2. QED BY <1>1, <3>1, <4>1 DEF Budgeted, Locked
    <3>3. Sum(spent') = Sum(spent) + 1
      <4>1. spent'[r] = spent[r] + 1 /\ spent[r] \in Nat
        BY <1>1, <2>3
      <4>2. Sum(spent) \in Nat
        BY <1>1, SumType, BudgetAssumption
      <4>3. Sum(spent') = Sum(spent) + spent'[r] - spent[r]
        <5>1. /\ IsFiniteSet(Runners) /\ spent \in [Runners -> Nat] /\ spent' \in [Runners -> Nat]
              /\ \A q \in Runners \ {r} : spent'[q] = spent[q]
          BY <1>1, <1>2, <3>2, BudgetAssumption
        <5>2. QED BY <5>1, SumChange
      <4>4. QED BY <4>1, <4>2, <4>3
    <3>4. ASSUME NEW q \in Runners \ {r}
          PROVE  SpentBy(q, Sum(spent))'
      BY <1>1, <2>0, <3>2 DEF SpentBy, Budgeted
    <3>5. SpentBy(r, Sum(spent))'
      <4>1. Budgeted(r) /\ pc[r] # "writing" /\ pc[r] \in Waits
        BY <2>3 DEF Budgeted, Waits
      <4>2. /\ spent[r] <= clock[r] /\ Sum(spent) <= budget[r].used + spent[r]
            /\ ledger.kind = "budget" => ledger = budget[r]
        BY <2>0, <4>1 DEF SpentBy
      <4>3. spent'[r] = spent[r] + 1 /\ clock'[r] = clock[r] + 1 /\ spent[r] \in Nat /\ clock[r] \in Nat
        BY <1>1, <2>3
      <4>4. Sum(spent) \in Nat /\ budget[r].used \in Int
        BY <1>1, SumType, BudgetAssumption DEF BudgetInv, TypeInv, Ledgers
      <4>5. spent'[r] <= clock'[r] /\ Sum(spent') <= budget[r].used + spent'[r]
        BY <3>3, <4>2, <4>3, <4>4
      <4>6. request[r].file /\ pc[r] \notin {"start", "waiting", "reading", "preparing", "launching", "writing"}
        BY <2>3 DEF Waits
      <4>7. QED BY <1>1, <4>2, <4>5, <4>6 DEF SpentBy
    <3>6. LedgerTotal(Sum(spent))'
      BY <1>1, <2>3 DEF LedgerTotal, Budgeted
    <3>7. QED BY <3>4, <3>5, <3>6
  <2>4. QED BY <2>1, <2>2, <2>3
<1>4. QED BY <1>1, <1>2, <1>3 DEF SecondsInv, QuietInv

(* Every step keeps the seconds accounted for.                             *)
LEMMA SecondsStep ==
  ASSUME BudgetInv, SecondsInv, [Next]_vars
  PROVE  SecondsInv'
<1>1. CASE UNCHANGED vars
  BY <1>1 DEF vars, SecondsInv, QuietInv, LockInv, SpentBy, LedgerTotal, Budgeted
<1>2. CASE Tick
  BY <1>2, TickSeconds
<1>3. ASSUME NEW r \in Runners, Interrupt(r) \/ Die(r)
      PROVE  SecondsInv'
  <2>1. spent' = spent /\ faults' = faults + 1
    BY <1>3 DEF Interrupt, Die
  <2>2. QED BY <2>1 DEF SecondsInv, QuietInv
<1>4. ASSUME NEW r \in Runners, Step(r) \/ WritePart(r) \/ Probe(r)
      PROVE  SecondsInv'
  <2>0. UNCHANGED <<request, spent, faults>>
    BY <1>4 DEF Step, Start, Acquire, ReadLedger, MakeOutput, Launch, WaitReturns, WaitExpires, Kill,
                Record, Charge, WriteLedger, Report, WritePart, Probe, NativeReports, NativeExits
  <2>1. SUFFICES ASSUME faults = 0 PROVE SecondsInv'
    BY <2>0 DEF SecondsInv, QuietInv
  <2>2. /\ LockInv /\ SpentBy(r, Sum(spent)) /\ pc \in [Runners -> Places]
    BY <2>1 DEF SecondsInv, QuietInv, BudgetInv, TypeInv
  <2>3. CASE Start(r)
    <3>1. /\ pc[r] = "start" /\ pc'[r] \in {"waiting", "preparing", "failed"}
          /\ pc'[r] = "waiting" => request[r].file
          /\ pc'[r] = "preparing" => ~request[r].file
          /\ \A q \in Runners \ {r} : pc'[q] = pc[q]
          /\ UNCHANGED <<lock, ledger, budget, clock>>
      BY <2>2, <2>3 DEF Start, At
    <3>2. SpentBy(r, Sum(spent))' /\ ~Budgeted(r)
      BY <2>0, <2>2, <3>1 DEF SpentBy, Budgeted, Works, Waits
    <3>3. QED BY <2>0, <2>1, <3>1, <3>2, LedgerStays DEF Locked, Works, Waits
  <2>4. CASE Acquire(r)
    <3>1. /\ pc[r] = "waiting" /\ pc'[r] = "reading" /\ lock = None /\ lock' = r
          /\ \A q \in Runners \ {r} : pc'[q] = pc[q]
          /\ UNCHANGED <<ledger, budget, clock>> /\ request[r].file
      BY <2>2, <2>4 DEF Acquire, At, locals, LockInv
    <3>2. SpentBy(r, Sum(spent))' /\ ~Budgeted(r)
      BY <2>0, <2>2, <3>1 DEF SpentBy, Budgeted, Works, Waits
    <3>3. QED BY <2>0, <2>1, <3>1, <3>2, LedgerStays
  <2>5. CASE ReadLedger(r) \/ Charge(r) \/ WritePart(r) \/ WriteLedger(r)
    BY <2>1, <2>5, ReadSeconds, ChargeSeconds
  <2>6. CASE MakeOutput(r) \/ Launch(r) \/ Record(r)
    <3>1. pc[r] \in Works /\ ledger' = ledger
      BY <2>6 DEF MakeOutput, Launch, Record, At, Works
    <3>2. CASE Raise(r)
      BY <2>0, <2>1, <3>1, <3>2, RaiseSeconds
    <3>3. CASE Leave(r, "done") /\ ~request[r].file
      BY <2>0, <2>1, <3>1, <3>3, LeavesUnbudgeted DEF Budgeted, Ended
    <3>4. CASE ~Raise(r) /\ ~(Leave(r, "done") /\ ~request[r].file)
      BY <2>0, <2>1, <2>6, <3>1, <3>4, MovesBudgeted
      DEF MakeOutput, Launch, Record, Stay, At, locals, Places, Works, Waits
    <3>5. QED BY <3>2, <3>3, <3>4
  <2>7. CASE WaitReturns(r) \/ WaitExpires(r) \/ Kill(r)
    BY <2>0, <2>1, <2>7, MovesBudgeted
    DEF WaitReturns, WaitExpires, Kill, Stay, At, locals, Places, Works, Waits
  <2>8. CASE Report(r)
    BY <2>0, <2>1, <2>8, LeavesUnbudgeted DEF Report, At, Budgeted, Works, Waits, Ended
  <2>9. CASE Probe(r)
    BY <2>0, <2>9 DEF Probe, NativeReports, NativeExits, SecondsInv, QuietInv, LockInv, SpentBy,
                      LedgerTotal, Budgeted
  <2>10. QED BY <1>4, <2>3, <2>4, <2>5, <2>6, <2>7, <2>8, <2>9 DEF Step
<1>5. QED BY <1>1, <1>2, <1>3, <1>4 DEF Next

(* While no runner is interrupted or killed, the seconds the probes really *)
(* used, failed and timed out ones included, stay within the limit.        *)
THEOREM SecondsWithinLimit == Spec => []GpuSecondsWithinLimit
<1>1. BudgetInv /\ SecondsInv => GpuSecondsWithinLimit
  <2>1. SUFFICES ASSUME BudgetInv, SecondsInv, faults = 0, ledger.kind = "budget"
                 PROVE  Sum(spent) <= ledger.limit
    BY DEF GpuSecondsWithinLimit, Sum
  <2>2. /\ \A r \in Runners : SpentBy(r, Sum(spent))
        /\ LedgerTotal(Sum(spent)) /\ BudgetKept /\ ledger \in Ledgers /\ Sum(spent) \in Nat
    BY <2>1, SumType, BudgetAssumption DEF SecondsInv, QuietInv, BudgetInv, TypeInv
  <2>3. CASE \A r \in Runners : ~Budgeted(r)
    BY <2>1, <2>2, <2>3 DEF LedgerTotal, BudgetKept, Ledgers
  <2>4. ASSUME NEW r \in Runners, Budgeted(r)
        PROVE  Sum(spent) <= ledger.limit
    <3>1. pc[r] # "writing"
      BY <2>1, <2>2, <2>4 DEF SpentBy
    <3>2. ledger = budget[r] /\ spent[r] <= clock[r] /\ Sum(spent) <= budget[r].used + spent[r]
      BY <2>1, <2>2, <2>4, <3>1 DEF SpentBy
    <3>3. /\ spent[r] \in Nat /\ clock[r] \in Nat /\ timer[r] \in Nat /\ slack[r] \in Nat
          /\ deadline[r] \in Int /\ ledger.used \in Int /\ ledger.limit \in Nat
          /\ Sum(spent) \in Nat
      BY <2>1, <2>2 DEF SecondsInv, BudgetInv, TypeInv, Ledgers
    <3>4. /\ budget[r].used + deadline[r] + Reserve <= budget[r].limit
          /\ clock[r] <= Overhead + deadline[r] + Grace
      BY <2>1, <2>4, <3>1, <3>3, BudgetAssumption
      DEF BudgetInv, Accounted, Provided, Budgeted, Works, Waits
    <3>5. /\ Sum(spent) <= ledger.used + clock[r]
          /\ ledger.used + deadline[r] + Reserve <= ledger.limit
      BY <3>2, <3>3, <3>4
    <3>6. QED BY <3>3, <3>4, <3>5, BudgetAssumption
  <2>5. QED BY <2>3, <2>4
<1>2. QED BY <1>1, BudgetInit, BudgetStep, SecondsInit, SecondsStep, PTL DEF Spec
=============================================================================
