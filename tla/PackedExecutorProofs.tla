------------------------ MODULE PackedExecutorProofs ------------------------
(***************************************************************************)
(* The executor keeps its inductive invariant for every program the reader *)
(* accepts, every option and every level a bootstrap returns: no handle is *)
(* overwritten while it is named, values are held exactly as long as they  *)
(* are needed, no level runs out, and the order is legal.                  *)
(***************************************************************************)
EXTENDS PackedExecutor, CommonLemmas

SP == INSTANCE PackedScheduleProofs

-----------------------------------------------------------------------------
(* The executor's schedule is the one PackedScheduleProofs is about.       *)

(* Both read a program as the executor does. *)
LEMMA SameProgram ==
  ASSUME NEW p
  PROVE  /\ SP!Nodes(p) = Nodes(p)
         /\ SP!WellFormed(p) <=> WellFormed(p)
         /\ \A n : SP!ParentsOf(p, n) = ParentsOf(p, n)
         /\ \A n : SP!Epoch(p, n) = Epoch(p, n)
         /\ SP!Live(p) = Live(p)
<1>1. SP!Nodes(p) = Nodes(p)
  BY DEF SP!Nodes, Nodes
<1>2. \A op : SP!Arity(op) = Arity(op)
  BY DEF SP!Arity, Arity, SP!Sources, Sources, SP!Binaries, Binaries
<1>3. SP!Ops = Ops
  BY DEF SP!Ops, Ops, SP!Sources, Sources, SP!Binaries, Binaries, SP!Unaries, Unaries
<1>4. SP!WellFormed(p) <=> WellFormed(p)
  BY <1>1, <1>2, <1>3 DEF SP!WellFormed, WellFormed
<1>5. \A n : SP!ParentsOf(p, n) = ParentsOf(p, n)
  BY DEF SP!ParentsOf, ParentsOf
<1>6. \A n : SP!Epoch(p, n) = Epoch(p, n)
  BY DEF SP!Epoch, Epoch, SP!Cardinality, Cardinality
<1>7. SP!Live(p) = Live(p)
  BY <1>1, <1>5 DEF SP!Live, Live, SP!ParentClosed, ParentClosed
<1>8. QED BY <1>1, <1>4, <1>5, <1>6, <1>7

(* The programs satisfy what the schedule's proofs assume. *)
LEMMA SameAssumption == SP!ProgramsAssumption
  BY ExecutorAssumption, SameProgram DEF SP!ProgramsAssumption

(* Its operations and queries. *)
LEMMA SameEdges ==
  ASSUME NEW p
  PROVE  /\ Schedule!Nodes(p) = SP!Nodes(p)
         /\ \A n, c : Schedule!EdgesBetween(p, n, c) = SP!EdgesBetween(p, n, c)
         /\ \A L, n : Schedule!LiveUses(p, L, n) = SP!LiveUses(p, L, n)
         /\ \A S : Schedule!Cardinality(S) = SP!Cardinality(S)
         /\ \A n : Schedule!Epoch(p, n) = SP!Epoch(p, n)
         /\ Schedule!Epochs(p) = SP!Epochs(p)
         /\ \A S : Schedule!Min(S) = SP!Min(S)
         /\ \A n : Schedule!ParentsOf(p, n) = SP!ParentsOf(p, n)
         /\ Schedule!Live(p) = SP!Live(p)
<1>1. Schedule!Nodes(p) = SP!Nodes(p)
  BY DEF Schedule!Nodes, SP!Nodes
<1>2. Schedule!Edges(p) = SP!Edges(p) /\ \A e : Schedule!Operand(p, e) = SP!Operand(p, e)
  BY <1>1 DEF Schedule!Edges, SP!Edges, Schedule!Operand, SP!Operand
<1>3. /\ \A n : Schedule!EdgesFrom(p, n) = SP!EdgesFrom(p, n)
      /\ \A n : Schedule!EdgesInto(p, n) = SP!EdgesInto(p, n)
  BY <1>2 DEF Schedule!EdgesFrom, SP!EdgesFrom, Schedule!EdgesInto, SP!EdgesInto
<1>4. \A n, c : Schedule!EdgesBetween(p, n, c) = SP!EdgesBetween(p, n, c)
  BY <1>3 DEF Schedule!EdgesBetween, SP!EdgesBetween
<1>5. \A L, n : Schedule!LiveUses(p, L, n) = SP!LiveUses(p, L, n)
  BY <1>3 DEF Schedule!LiveUses, SP!LiveUses
<1>6. \A S : Schedule!Cardinality(S) = SP!Cardinality(S)
  BY DEF Schedule!Cardinality, SP!Cardinality
<1>7. \A n : Schedule!Epoch(p, n) = SP!Epoch(p, n)
  BY DEF Schedule!Epoch, SP!Epoch, Schedule!Cardinality, SP!Cardinality
<1>8. Schedule!Epochs(p) = SP!Epochs(p)
  BY <1>7 DEF Schedule!Epochs, SP!Epochs
<1>9. \A S : Schedule!Min(S) = SP!Min(S)
  BY DEF Schedule!Min, SP!Min
<1>10. \A n : Schedule!ParentsOf(p, n) = SP!ParentsOf(p, n)
  BY DEF Schedule!ParentsOf, SP!ParentsOf
<1>11. Schedule!Live(p) = SP!Live(p)
  BY <1>1, <1>10 DEF Schedule!Live, SP!Live, Schedule!ParentClosed, SP!ParentClosed
<1>12. QED BY <1>1, <1>4, <1>5, <1>6, <1>7, <1>8, <1>9, <1>10, <1>11

(* The executor's schedule, its queries and its step are the schedule's    *)
(* own.                                                                    *)
LEMMA SameSchedule ==
  /\ Schedule!Init <=> SP!Init
  /\ \A i : Schedule!Complete(i) <=> SP!Complete(i)
  /\ \A m, n : Schedule!final_use(m, n) <=> SP!final_use(m, n)
  /\ \A m : Schedule!releasable(m)' <=> SP!releasable(m)'
  /\ Schedule!IInv <=> SP!IInv
<1>1. \A p, f, l : Schedule!NextEpoch(p, f, l) = SP!NextEpoch(p, f, l)
  BY SameEdges DEF Schedule!NextEpoch, SP!NextEpoch
<1>2. \A p, u, o, e : Schedule!Activated(p, u, o, e) = SP!Activated(p, u, o, e)
  BY SameEdges DEF Schedule!Activated, SP!Activated
<1>3. \A i : Schedule!SpendUses(i) = SP!SpendUses(i)
  BY SameEdges DEF Schedule!SpendUses, SP!SpendUses
<1>4. \A i : Schedule!Deliver(i) = SP!Deliver(i)
  BY SameEdges DEF Schedule!Deliver, SP!Deliver
<1>5. \A i, o : Schedule!Woken(i, o) = SP!Woken(i, o)
  BY SameEdges DEF Schedule!Woken, SP!Woken
<1>6. \A i : Schedule!Complete(i) <=> SP!Complete(i)
  BY <1>1, <1>2, <1>3, <1>4, <1>5 DEF Schedule!Complete, SP!Complete
<1>7. \A p, L : Schedule!InitialPending(p, L) = SP!InitialPending(p, L)
  BY SameEdges DEF Schedule!InitialPending, SP!InitialPending
<1>8. \A p, L : Schedule!EpochWork(p, L) = SP!EpochWork(p, L)
  <2> TAKE p, L
  <2>1. ASSUME NEW e
        PROVE  Schedule!Cardinality({n \in L : Schedule!Epoch(p, n) = e})
               = SP!Cardinality({n \in L : SP!Epoch(p, n) = e})
    <3>1. {n \in L : Schedule!Epoch(p, n) = e} = {n \in L : SP!Epoch(p, n) = e}
      BY SameEdges
    <3>2. QED BY <3>1, SameEdges
  <2>2. Schedule!Epochs(p) = SP!Epochs(p)
    BY SameEdges
  <2>3. QED BY <2>1, <2>2 DEF Schedule!EpochWork, SP!EpochWork
<1>9. Schedule!Init <=> SP!Init
  <2>1. [n \in Schedule!Nodes(program) |->
           Schedule!Cardinality(Schedule!LiveUses(program, live, n))]
        = [n \in SP!Nodes(program) |-> SP!Cardinality(SP!LiveUses(program, live, n))]
    BY SameEdges
  <2>2. /\ Schedule!Live(program) = SP!Live(program)
        /\ Schedule!Nodes(program) = SP!Nodes(program)
        /\ Schedule!Cardinality(live) = SP!Cardinality(live)
    BY SameEdges
  <2>3. QED BY <1>1, <1>2, <1>7, <1>8, <2>1, <2>2 DEF Schedule!Init, SP!Init
<1>10. Schedule!Unfinished = SP!Unfinished
  BY DEF Schedule!Unfinished, SP!Unfinished
<1>11. Schedule!TypeOK <=> SP!TypeOK
  <2>1. Schedule!WellFormed(program) <=> SP!WellFormed(program)
    <3>1. \A op : Schedule!Arity(op) = SP!Arity(op)
      BY DEF Schedule!Arity, SP!Arity, Schedule!Sources, SP!Sources,
             Schedule!Binaries, SP!Binaries
    <3>2. Schedule!Ops = SP!Ops
      BY DEF Schedule!Ops, SP!Ops, Schedule!Sources, SP!Sources, Schedule!Binaries,
             SP!Binaries, Schedule!Unaries, SP!Unaries
    <3>3. QED BY <3>1, <3>2, SameEdges DEF Schedule!WellFormed, SP!WellFormed
  <2>2. QED BY <2>1, SameEdges DEF Schedule!TypeOK, SP!TypeOK
<1>12. Schedule!CountersExact <=> SP!CountersExact
  <2>1. \A c : Schedule!EdgesInto(program, c) = SP!EdgesInto(program, c)
    BY SameEdges DEF Schedule!EdgesInto, SP!EdgesInto, Schedule!Edges, SP!Edges
  <2>2. \A e : Schedule!Operand(program, e) = SP!Operand(program, e)
    BY DEF Schedule!Operand, SP!Operand
  <2>3. \A c : Schedule!Cardinality({e \in Schedule!EdgesInto(program, c) :
                                     Schedule!Operand(program, e) \notin done})
               = SP!Cardinality({e \in SP!EdgesInto(program, c) :
                                   SP!Operand(program, e) \notin done})
    <3>1. \A c : {e \in Schedule!EdgesInto(program, c) : Schedule!Operand(program, e) \notin done}
                 = {e \in SP!EdgesInto(program, c) : SP!Operand(program, e) \notin done}
      BY <2>1, <2>2
    <3>2. QED BY <3>1, SameEdges
  <2>4. \A n : Schedule!Cardinality({e \in Schedule!LiveUses(program, live, n) : e[1] \notin done})
               = SP!Cardinality({e \in SP!LiveUses(program, live, n) : e[1] \notin done})
    BY SameEdges
  <2>5. \A k : Schedule!Cardinality({n \in Schedule!Unfinished : Schedule!Epoch(program, n) = k})
               = SP!Cardinality({n \in SP!Unfinished : SP!Epoch(program, n) = k})
    <3>1. \A k : {n \in Schedule!Unfinished : Schedule!Epoch(program, n) = k}
                 = {n \in SP!Unfinished : SP!Epoch(program, n) = k}
      BY <1>10, SameEdges
    <3>2. QED BY <3>1, SameEdges
  <2>6. Schedule!Cardinality(Schedule!Unfinished) = SP!Cardinality(SP!Unfinished)
    BY <1>10, SameEdges
  <2>7. Schedule!Nodes(program) = SP!Nodes(program) /\ Schedule!Epochs(program) = SP!Epochs(program)
    BY SameEdges
  <2>8. (\A c \in live :
           pending[c] = Schedule!Cardinality({e \in Schedule!EdgesInto(program, c) :
                                                Schedule!Operand(program, e) \notin done}))
        <=> (\A c \in live :
               pending[c] = SP!Cardinality({e \in SP!EdgesInto(program, c) :
                                              SP!Operand(program, e) \notin done}))
    BY <2>3
  <2>9. (\A n \in Schedule!Nodes(program) :
           remaining_uses[n]
             = Schedule!Cardinality({e \in Schedule!LiveUses(program, live, n) :
                                       e[1] \notin done}))
        <=> (\A n \in SP!Nodes(program) :
               remaining_uses[n]
                 = SP!Cardinality({e \in SP!LiveUses(program, live, n) : e[1] \notin done}))
    BY <2>4, <2>7
  <2>10. (\A k \in 0 .. Schedule!Epochs(program) - 1 :
            epoch_remaining[k]
              = Schedule!Cardinality({n \in Schedule!Unfinished :
                                        Schedule!Epoch(program, n) = k}))
         <=> (\A k \in 0 .. SP!Epochs(program) - 1 :
                epoch_remaining[k]
                  = SP!Cardinality({n \in SP!Unfinished : SP!Epoch(program, n) = k}))
    BY <2>5, <2>7
  <2>11. QED
    BY <2>6, <2>8, <2>9, <2>10 DEF Schedule!CountersExact, SP!CountersExact
<1>13. Schedule!EpochOpen <=> SP!EpochOpen
  BY <1>10, SameEdges DEF Schedule!EpochOpen, SP!EpochOpen
<1>14. Schedule!DoneClosed <=> SP!DoneClosed
  BY SameEdges DEF Schedule!DoneClosed, SP!DoneClosed
<1>15. Schedule!FrontierExact <=> SP!FrontierExact
  BY <1>10, SameEdges DEF Schedule!FrontierExact, SP!FrontierExact
<1>16. Schedule!IInv <=> SP!IInv
  BY <1>11, <1>12, <1>13, <1>14, <1>15, SameEdges
  DEF Schedule!IInv, SP!IInv, Schedule!NeverStalls, SP!NeverStalls
<1>17. /\ \A m, n : Schedule!final_use(m, n) <=> SP!final_use(m, n)
       /\ \A m : Schedule!releasable(m)' <=> SP!releasable(m)'
  BY SameEdges DEF Schedule!final_use, SP!final_use, Schedule!releasable, SP!releasable,
                   Schedule!Pinned, SP!Pinned
<1>18. QED BY <1>6, <1>9, <1>16, <1>17

-----------------------------------------------------------------------------
(* Least and greatest elements.                                            *)

(* The least element of a nonempty set of naturals.                        *)
LEMMA MinFact ==
  ASSUME NEW S, S \subseteq Nat, S # {}
  PROVE  Min(S) \in S /\ \A x \in S : Min(S) <= x
<1>1. \E n \in S : \A m \in S : n <= m
  BY LeastNat
<1>2. QED BY <1>1 DEF Min

(* The greatest element of a nonempty set of naturals up to a bound.       *)
LEMMA MaxFact ==
  ASSUME NEW b \in Nat, NEW S, S \subseteq 0 .. b, S # {}
  PROVE  Max(S) \in S /\ \A x \in S : x <= Max(S)
<1>1. \E n \in S : \A m \in S : m <= n
  BY GreatestNat
<1>2. QED BY <1>1 DEF Max

(* The greater of two integers.                                            *)
LEMMA MaxOfTwo ==
  ASSUME NEW a \in Int, NEW b \in Int
  PROVE  Max({a, b}) = IF a <= b THEN b ELSE a
  BY DEF Max

-----------------------------------------------------------------------------
(* Programs.                                                               *)

(* The consumers of a value are the nodes it is an operand of. *)
LEMMA ConsumersMeaning ==
  ASSUME NEW p, WellFormed(p), NEW L, L \subseteq Nodes(p), NEW m \in Nodes(p)
  PROVE  Consumers(p, L, m) = {c \in L : m \in ParentsOf(p, c)}
<1>1. ASSUME NEW c \in L
      PROVE  m \in ParentsOf(p, c) <=> \E e \in LiveUses(p, L, m) : e[1] = c
  <2>1. EdgesBetween(p, m, c) # {} <=> m \in ParentsOf(p, c)
    BY EdgeMeaning
  <2>2. EdgesBetween(p, m, c) = {e \in LiveUses(p, L, m) : e[1] = c}
    BY DEF EdgesBetween, EdgesInto, EdgesFrom, LiveUses
  <2>3. QED BY <2>1, <2>2
<1>2. \A e \in LiveUses(p, L, m) : e[1] \in L
  BY DEF LiveUses
<1>3. QED BY <1>1, <1>2 DEF Consumers

(* A live node is an output or an operand of a live node. *)
LEMMA LiveNeeded ==
  ASSUME NEW p, WellFormed(p), NEW n \in Live(p), n \notin p.outputs
  PROVE  \E c \in Live(p) : n \in ParentsOf(p, c)
<1> SUFFICES ASSUME \A c \in Live(p) : n \notin ParentsOf(p, c) PROVE FALSE
  OBVIOUS
<1> DEFINE L == Live(p) \ {n}
<1>1. /\ Live(p) \subseteq Nodes(p) /\ p.outputs \subseteq Live(p)
      /\ ParentClosed(p, Live(p))
  BY LiveClosed
<1>2. L \in SUBSET Nodes(p) /\ p.outputs \subseteq L
  BY <1>1
<1>3. ParentClosed(p, L)
  BY <1>1 DEF ParentClosed
<1>4. n \in L
  BY <1>2, <1>3 DEF Live
<1>5. QED BY <1>4

(* The root of a chain of aliases, from the recursion that defines it. *)
LEMMA RootStep ==
  ASSUME NEW p, WellFormed(p), NEW n \in Nodes(p)
  PROVE  /\ Root(p, n) \in Nodes(p)
         /\ Root(p, n) = IF p.op[n] = "alias" THEN Root(p, p.parents[n][1]) ELSE n
<1> DEFINE F(h, S) == [m \in S |-> IF p.op[m] = "alias"
                                   THEN h[p.parents[m][1]] ELSE m]
           Upto(k) == {m \in Nodes(p) : m < k}
           Solved(k) == \E f : f = F(f, Upto(k)) /\ f \in [Upto(k) -> Nodes(p)]
<1>1. p.count \in Nat /\ Nodes(p) = 0 .. p.count - 1
  BY DEF WellFormed, Nodes
<1>2. \A m \in Nodes(p) : p.op[m] = "alias" =>
        p.parents[m][1] \in Nodes(p) /\ p.parents[m][1] < m
  <2> SUFFICES ASSUME NEW m \in Nodes(p), p.op[m] = "alias"
               PROVE  p.parents[m][1] \in ParentsOf(p, m)
    BY ParentsEarlier
  <2>1. p.parents[m] \in Seq(Nodes(p)) /\ Len(p.parents[m]) = 1
    BY DEF WellFormed, Arity, Sources, Binaries
  <2>2. 1 \in DOMAIN p.parents[m]
    BY <2>1
  <2>3. QED BY <2>2 DEF ParentsOf
<1>3. Solved(0)
  <2> DEFINE f == [m \in Upto(0) |-> m]
  <2>1. Upto(0) = {}
    BY <1>1
  <2>2. f = F(f, Upto(0)) /\ f \in [Upto(0) -> Nodes(p)]
    BY <2>1
  <2>3. QED BY <2>2
<1>4. ASSUME NEW k \in Nat, Solved(k)
      PROVE  Solved(k + 1)
  <2>1. PICK f : f = F(f, Upto(k)) /\ f \in [Upto(k) -> Nodes(p)]
    BY <1>4
  <2> DEFINE g == F(f, Upto(k + 1))
  <2>2. \A m \in Upto(k + 1) : p.op[m] = "alias" => p.parents[m][1] \in Upto(k)
    BY <1>1, <1>2
  <2>3. \A m \in Upto(k) : m \in Upto(k + 1) /\ g[m] = f[m]
    <3> TAKE m \in Upto(k)
    <3>1. f[m] = IF p.op[m] = "alias" THEN f[p.parents[m][1]] ELSE m
      BY <2>1
    <3>2. m \in Upto(k + 1)
      BY <1>1
    <3>3. QED BY <3>1, <3>2
  <2>4. g = F(g, Upto(k + 1))
    <3>1. \A m \in Upto(k + 1) :
            (IF p.op[m] = "alias" THEN f[p.parents[m][1]] ELSE m)
            = (IF p.op[m] = "alias" THEN g[p.parents[m][1]] ELSE m)
      <4> HIDE DEF g
      <4>1. QED BY <2>2, <2>3
    <3>2. F(f, Upto(k + 1)) = F(g, Upto(k + 1))
      <4> HIDE DEF g
      <4>1. QED BY <3>1, Zenon
    <3>3. QED BY <3>2
  <2>5. g \in [Upto(k + 1) -> Nodes(p)]
    BY <2>1, <2>2
  <2>6. QED BY <2>4, <2>5
<1>5. Solved(p.count)
  <2> DEFINE B == {k \in 0 .. p.count : ~ Solved(k)}
  <2> HIDE DEF Solved
  <2>1. SUFFICES ASSUME B # {} PROVE FALSE
    BY <1>1
  <2>2. PICK k \in B : \A j \in B : k <= j
    BY <1>1, <2>1, B \subseteq Nat, LeastNat
  <2>3. k # 0 /\ k - 1 \in 0 .. p.count /\ k - 1 \in Nat
    BY <1>1, <1>3, <2>2
  <2>4. Solved(k - 1)
    BY <2>2, <2>3
  <2>5. Solved((k - 1) + 1)
    BY <1>4, <2>3, <2>4
  <2>6. QED BY <1>1, <2>2, <2>5
<1>6. Upto(p.count) = Nodes(p)
  BY <1>1
<1> DEFINE root == CHOOSE f : f = F(f, Nodes(p))
<1>7. PICK f : f = F(f, Nodes(p)) /\ f \in [Nodes(p) -> Nodes(p)]
  BY <1>5, <1>6
<1>8. root = F(root, Nodes(p))
  BY <1>7
<1>9. \A m : Root(p, m) = root[m]
  BY DEF Root
<1> HIDE DEF root
<1>10. \A m \in Nodes(p) :
         root[m] = IF p.op[m] = "alias" THEN root[p.parents[m][1]] ELSE m
  BY <1>8
<1>11. \A m \in Nodes(p) : root[m] \in Nodes(p)
  <2> DEFINE B == {m \in Nodes(p) : root[m] \notin Nodes(p)}
  <2>1. SUFFICES ASSUME B # {} PROVE FALSE
    OBVIOUS
  <2>2. PICK m \in B : \A j \in B : m <= j
    BY <1>1, <2>1, B \subseteq Nat, LeastNat
  <2>3. p.op[m] = "alias"
    BY <1>10, <2>2
  <2>4. p.parents[m][1] \in B
    BY <1>2, <1>10, <2>2, <2>3
  <2>5. QED BY <1>1, <1>2, <2>2, <2>3, <2>4
<1>12. QED BY <1>9, <1>10, <1>11
-----------------------------------------------------------------------------
(* The depth plan.                                                         *)

(* The backward sweep of plan_packed_depth marks exactly the live nodes.   *)
LEMMA LiveSweepIsLive ==
  ASSUME NEW p, WellFormed(p)
  PROVE  LiveSweep(p) = Live(p)
<1> DEFINE Add(k, S) == S \cup (IF p.count - k \in S THEN ParentsOf(p, p.count - k) ELSE {})
           V == SUBSET Nodes(p)
           step == [t \in (1 .. p.count) \X V |-> Add(t[1], t[2])]
           F(f) == [k \in 0 .. p.count |->
                      IF k = 0 THEN p.outputs
                      ELSE f[k - 1] \cup (IF p.count - k \in f[k - 1]
                                          THEN ParentsOf(p, p.count - k) ELSE {})]
           sweep == CHOOSE f : f = F(f)
<1>1. /\ p.count \in Nat \ {0} /\ Nodes(p) = 0 .. p.count - 1
      /\ p.outputs \in SUBSET Nodes(p)
  BY DEF WellFormed, Nodes
<1>2. \A n \in Nodes(p) : \A m \in ParentsOf(p, n) : m \in Nodes(p) /\ m < n
  BY ParentsEarlier
<1>3. \A k \in 1 .. p.count, S \in V : Add(k, S) \in V
  BY <1>1, <1>2
<1>4. step \in [(1 .. p.count) \X V -> V]
  BY <1>3
<1>5. PICK f \in [0 .. p.count -> V] : Follows(f, p.count, p.outputs, step)
  <2>1. p.outputs \in V /\ p.count \in Nat
    BY <1>1
  <2> HIDE DEF V, step
  <2>2. QED BY <1>4, <2>1, Chain
<1>6. f = F(f)
  <2>1. f[0] = p.outputs /\ \A k \in 1 .. p.count : f[k] = Add(k, f[k - 1])
    <3>1. \A k \in 1 .. p.count : f[k] = step[<<k, f[k - 1]>>]
      <4> HIDE DEF step, V
      <4>1. QED BY <1>5 DEF Follows
    <3>2. \A k \in 1 .. p.count : f[k - 1] \in V
      <4> HIDE DEF V
      <4>1. \A k \in 1 .. p.count : k - 1 \in 0 .. p.count
        BY <1>1
      <4>2. QED BY <1>5, <4>1
    <3>3. QED BY <1>5, <3>1, <3>2 DEF Follows
  <2>2. QED BY <1>1, <1>5, <2>1
<1>7. sweep = F(sweep)
  BY <1>6
<1>8. LiveSweep(p) = sweep[p.count]
  BY DEF LiveSweep
<1> HIDE DEF sweep
<1>9. sweep[0] = p.outputs /\ \A k \in 1 .. p.count : sweep[k] = Add(k, sweep[k - 1])
  BY <1>1, <1>7
<1> DEFINE Good(k) == /\ sweep[k] \subseteq Live(p)
                      /\ p.outputs \subseteq sweep[k]
                      /\ \A n \in sweep[k] : n >= p.count - k => ParentsOf(p, n) \subseteq sweep[k]
           B == {k \in 0 .. p.count : ~ Good(k)}
<1>10. /\ Live(p) \subseteq Nodes(p) /\ p.outputs \subseteq Live(p)
       /\ \A n \in Live(p) : ParentsOf(p, n) \subseteq Live(p)
  BY LiveClosed DEF ParentClosed
<1>11. B = {}
  <2> SUFFICES ASSUME B # {} PROVE FALSE
    OBVIOUS
  <2>1. PICK k \in B : \A j \in B : k <= j
    BY B \subseteq Nat, LeastNat
  <2>2. k # 0
    <3>1. \A n \in sweep[0] : ~ (n >= p.count - 0)
      BY <1>1, <1>9
    <3>2. Good(0)
      BY <1>9, <1>10, <3>1
    <3>3. QED BY <3>2, <2>1
  <2>3. k \in 1 .. p.count /\ k - 1 \in 0 .. p.count /\ k - 1 < k
    BY <1>1, <2>1, <2>2
  <2>4. Good(k - 1)
    BY <2>1, <2>3
  <2>5. sweep[k] = Add(k, sweep[k - 1])
    BY <1>9, <2>3
  <2>6. sweep[k] \subseteq Live(p) /\ p.outputs \subseteq sweep[k]
    BY <1>10, <2>4, <2>5
  <2>7. ASSUME NEW n \in sweep[k], n >= p.count - k
        PROVE  ParentsOf(p, n) \subseteq sweep[k]
    <3>1. n \in sweep[k - 1]
      BY <1>1, <1>2, <2>3, <2>5, <2>7
    <3>2. CASE n = p.count - k
      BY <2>5, <3>1, <3>2
    <3>3. CASE n # p.count - k
      <4>1. n \in Nodes(p)
        BY <1>10, <2>6
      <4>2. n >= p.count - (k - 1)
        BY <1>1, <2>3, <2>7, <3>3, <4>1
      <4>3. QED BY <2>4, <2>5, <3>1, <4>2
    <3>4. QED BY <3>2, <3>3
  <2>8. Good(k)
    BY <2>6, <2>7
  <2>9. QED BY <2>1, <2>8
<1>12. Good(p.count)
  BY <1>1, <1>11
<1>13. ParentClosed(p, sweep[p.count])
  <2>1. \A n \in sweep[p.count] : n >= p.count - p.count
    BY <1>1, <1>10, <1>12
  <2>2. QED BY <1>12, <2>1 DEF ParentClosed
<1>14. Live(p) \subseteq sweep[p.count]
  BY <1>10, <1>12, <1>13 DEF Live
<1>15. QED BY <1>8, <1>12, <1>14

(* The states the simulation of a plan goes through. *)
States(p) == [current : [Nodes(p) -> Int], produced : [Nodes(p) -> Int],
              refreshes : Nat, level : Int]

(* Reading an operand stays within them and leaves what was produced. *)
LEMMA ReadType ==
  ASSUME NEW p, NEW cost \in Int, NEW s \in States(p), NEW m \in Nodes(p)
  PROVE  LET t == ReadOperand(cost, s, m)
         IN  t \in States(p) /\ t.produced = s.produced
<1>1. Refreshed \in Int
  BY PolicyAssumption
<1>2. /\ s.current \in [Nodes(p) -> Int] /\ s.produced \in [Nodes(p) -> Int]
      /\ s.refreshes \in Nat /\ s.level \in Int /\ s.current[m] \in Int
  BY DEF States
<1>3. Max({s.level, Refreshed}) \in Int /\ Max({s.level, s.current[m]}) \in Int
  BY <1>1, <1>2, MaxOfTwo
<1>4. [s.current EXCEPT ![m] = Refreshed] \in [Nodes(p) -> Int]
  BY <1>1, <1>2
<1> DEFINE a == [s EXCEPT !.current[m] = Refreshed, !.refreshes = @ + 1,
                          !.level = Max({@, Refreshed})]
           b == [s EXCEPT !.level = Max({@, s.current[m]})]
<1>5. a \in States(p) /\ a.produced = s.produced
  <2> DEFINE x == Max({s.level, Refreshed})
             c == [s.current EXCEPT ![m] = Refreshed]
  <2>1. x \in Int /\ c \in [Nodes(p) -> Int]
    BY <1>3, <1>4
  <2>2. a = [s EXCEPT !.current = c, !.refreshes = @ + 1, !.level = x]
    OBVIOUS
  <2> HIDE DEF x, c, a
  <2>3. a = [current |-> c, produced |-> s.produced, refreshes |-> s.refreshes + 1,
             level |-> x]
    BY <2>2 DEF States
  <2>4. QED BY <1>2, <2>1, <2>3 DEF States
<1>6. b \in States(p) /\ b.produced = s.produced
  BY <1>2, <1>3 DEF States
<1>7. QED BY <1>5, <1>6 DEF ReadOperand

(* The operands of a node are read one after the other. *)
Reading(p, cost, s, n, read) ==
  /\ read \in [0 .. Len(p.parents[n]) -> States(p)]
  /\ read[0] = [s EXCEPT !.level = Fresh]
  /\ \A k \in 1 .. Len(p.parents[n]) :
       /\ p.parents[n][k] \in Nodes(p)
       /\ read[k] = ReadOperand(cost, read[k - 1], p.parents[n][k])
  /\ ReadOperands(p, cost, s, n) = read[Len(p.parents[n])]

(* The operands read so far are a function of their number.                *)
LEMMA ReadingExists ==
  ASSUME NEW p, WellFormed(p), NEW cost \in Int, NEW s \in States(p), NEW n \in Nodes(p)
  PROVE  Len(p.parents[n]) \in Nat /\ \E read : Reading(p, cost, s, n, read)
<1> DEFINE N == Len(p.parents[n])
           V == States(p)
           a == [s EXCEPT !.level = Fresh]
           step == [t \in (1 .. N) \X V |-> ReadOperand(cost, t[2], p.parents[n][t[1]])]
           F(f) == [k \in 0 .. N |-> IF k = 0 THEN [s EXCEPT !.level = Fresh]
                                     ELSE ReadOperand(cost, f[k - 1], p.parents[n][k])]
           read == CHOOSE f : f = F(f)
<1>1. N \in Nat /\ \A k \in 1 .. N : p.parents[n][k] \in Nodes(p)
  BY DEF WellFormed
<1>2. a \in V
  BY DEF States, Fresh
<1>3. step \in [(1 .. N) \X V -> V]
  <2> SUFFICES ASSUME NEW k \in 1 .. N, NEW t \in V
               PROVE  ReadOperand(cost, t, p.parents[n][k]) \in V
    OBVIOUS
  <2>1. QED BY <1>1, ReadType
<1>4. PICK f \in [0 .. N -> V] : Follows(f, N, a, step)
  <2> HIDE DEF N, V, a, step
  <2>1. QED BY <1>1, <1>2, <1>3, Chain
<1>5. f = F(f)
  <2>1. \A k \in 1 .. N : f[k - 1] \in V
    <3> HIDE DEF V
    <3>1. \A k \in 1 .. N : k - 1 \in 0 .. N
      BY <1>1
    <3>2. QED BY <1>4, <3>1
  <2>2. f[0] = a /\ \A k \in 1 .. N : f[k] = step[<<k, f[k - 1]>>]
    <3> HIDE DEF V, a, step
    <3>1. QED BY <1>4 DEF Follows
  <2>3. \A k \in 1 .. N : f[k] = ReadOperand(cost, f[k - 1], p.parents[n][k])
    <3> HIDE DEF V
    <3>1. QED BY <2>1, <2>2
  <2> HIDE DEF N, V
  <2>4. QED BY <1>1, <1>4, <2>2, <2>3
<1>6. read = F(read)
  BY <1>5
<1>7. ReadOperands(p, cost, s, n) = read[N]
  BY DEF ReadOperands
<1> HIDE DEF read
<1>8. read[0] = a /\ \A k \in 1 .. N : read[k] = ReadOperand(cost, read[k - 1], p.parents[n][k])
  <2> HIDE DEF N
  <2>1. 0 \in 0 .. N /\ \A k \in 1 .. N : k \in 0 .. N /\ k # 0
    BY <1>1
  <2>2. QED BY <1>6, <2>1
<1>9. \A k \in 0 .. N : read[k] \in V
  <2> DEFINE B == {k \in 0 .. N : read[k] \notin V}
  <2> HIDE DEF V
  <2> SUFFICES ASSUME B # {} PROVE FALSE
    OBVIOUS
  <2>1. PICK k \in B : \A j \in B : k <= j
    BY B \subseteq Nat, LeastNat
  <2>2. k \in 1 .. N
    BY <1>2, <1>8, <2>1
  <2>3. read[k - 1] \in V
    BY <1>1, <2>1, <2>2
  <2>4. read[k] \in V
    <3>1. p.parents[n][k] \in Nodes(p)
      BY <1>1, <2>2
    <3>2. ReadOperand(cost, read[k - 1], p.parents[n][k]) \in V
      BY <2>3, <3>1, ReadType DEF V
    <3>3. QED BY <1>8, <2>2, <3>2
  <2>5. QED BY <2>1, <2>4
<1>10. read \in [0 .. N -> V]
  BY <1>6, <1>9
<1>11. QED BY <1>1, <1>7, <1>8, <1>10 DEF Reading

(* What reading one operand makes of the levels.                           *)
LEMMA ReadFields ==
  ASSUME NEW p, NEW cost \in Int, NEW s \in States(p), NEW m \in Nodes(p)
  PROVE  LET t == ReadOperand(cost, s, m)
             late == s.current[m] + cost > Ceiling
         IN  /\ t.current = IF late THEN [s.current EXCEPT ![m] = Refreshed] ELSE s.current
             /\ t.level = Max({s.level, IF late THEN Refreshed ELSE s.current[m]})
<1> DEFINE x == Max({s.level, Refreshed})
           y == Max({s.level, s.current[m]})
           c == [s.current EXCEPT ![m] = Refreshed]
<1>1. ReadOperand(cost, s, m) =
        IF s.current[m] + cost > Ceiling
        THEN [s EXCEPT !.current = c, !.refreshes = @ + 1, !.level = x]
        ELSE [s EXCEPT !.level = y]
  BY DEF ReadOperand
<1> HIDE DEF x, y, c
<1>2. s = [current |-> s.current, produced |-> s.produced, refreshes |-> s.refreshes,
           level |-> s.level]
  BY DEF States
<1>3. CASE s.current[m] + cost > Ceiling
  <2>1. /\ ReadOperand(cost, s, m).current = c
        /\ ReadOperand(cost, s, m).level = x
    BY <1>1, <1>2, <1>3
  <2>2. QED BY <1>3, <2>1 DEF x, c
<1>4. CASE ~ (s.current[m] + cost > Ceiling)
  <2>1. /\ ReadOperand(cost, s, m).current = s.current
        /\ ReadOperand(cost, s, m).level = y
    BY <1>1, <1>2, <1>4
  <2>2. QED BY <1>4, <2>1 DEF y
<1>5. QED BY <1>3, <1>4

(* What it makes of the count.                                             *)
LEMMA ReadCounts ==
  ASSUME NEW p, NEW cost \in Int, NEW s \in States(p), NEW m \in Nodes(p)
  PROVE  /\ s.current[m] + cost > Ceiling =>
              ReadOperand(cost, s, m).refreshes = s.refreshes + 1
         /\ ~ (s.current[m] + cost > Ceiling) =>
              ReadOperand(cost, s, m).refreshes = s.refreshes
<1> DEFINE x == Max({s.level, Refreshed})
           y == Max({s.level, s.current[m]})
           c == [s.current EXCEPT ![m] = Refreshed]
<1>1. ReadOperand(cost, s, m) =
        IF s.current[m] + cost > Ceiling
        THEN [s EXCEPT !.current = c, !.refreshes = @ + 1, !.level = x]
        ELSE [s EXCEPT !.level = y]
  BY DEF ReadOperand
<1> HIDE DEF x, y, c
<1>2. s = [current |-> s.current, produced |-> s.produced, refreshes |-> s.refreshes,
           level |-> s.level]
  BY DEF States
<1>3. QED BY <1>1, <1>2

(* Reading leaves a level or refreshes it.                                 *)
LEMMA ReadLeaves ==
  ASSUME NEW p, NEW cost \in Int, NEW s \in States(p), NEW m \in Nodes(p),
         NEW n \in Nodes(p)
  PROVE  ReadOperand(cost, s, m).current[n] \in {s.current[n], Refreshed}
<1> DEFINE t == ReadOperand(cost, s, m)
           late == s.current[m] + cost > Ceiling
<1>1. /\ t.current = IF late THEN [s.current EXCEPT ![m] = Refreshed] ELSE s.current
      /\ t.level = Max({s.level, IF late THEN Refreshed ELSE s.current[m]})
  BY ReadFields
<1>2. s.current \in [Nodes(p) -> Int]
  BY DEF States
<1> HIDE DEF t, late
<1>3. QED BY <1>1, <1>2 DEF t

(* Reading an operand that leaves room changes neither levels nor count.   *)
LEMMA ReadPasses ==
  ASSUME NEW p, NEW cost \in Int, NEW s \in States(p), NEW m \in Nodes(p),
         ~ (s.current[m] + cost > Ceiling)
  PROVE  /\ ReadOperand(cost, s, m).current = s.current
         /\ ReadOperand(cost, s, m).refreshes = s.refreshes
<1> DEFINE y == Max({s.level, s.current[m]})
<1>1. ReadOperand(cost, s, m) = [s EXCEPT !.level = y]
  BY DEF ReadOperand
<1> HIDE DEF y
<1>2. s = [current |-> s.current, produced |-> s.produced, refreshes |-> s.refreshes,
           level |-> s.level]
  BY DEF States
<1>3. QED BY <1>1, <1>2

(* Reading one that does not refreshes it.                                 *)
LEMMA ReadRefreshes ==
  ASSUME NEW p, NEW cost \in Int, NEW s \in States(p), NEW m \in Nodes(p),
         s.current[m] + cost > Ceiling
  PROVE  /\ \A n \in Nodes(p) : ReadOperand(cost, s, m).current[n]
                                 = IF n = m THEN Refreshed ELSE s.current[n]
         /\ ReadOperand(cost, s, m).refreshes = s.refreshes + 1
<1> DEFINE t == ReadOperand(cost, s, m)
           late == s.current[m] + cost > Ceiling
<1>1. /\ t.current = IF late THEN [s.current EXCEPT ![m] = Refreshed] ELSE s.current
      /\ t.level = Max({s.level, IF late THEN Refreshed ELSE s.current[m]})
  BY ReadFields
<1>2. t.refreshes = s.refreshes + 1
  BY ReadCounts
<1>3. late /\ s.current \in [Nodes(p) -> Int]
  BY DEF States
<1> HIDE DEF t, late
<1>4. \A n \in Nodes(p) : t.current[n] = IF n = m THEN Refreshed ELSE s.current[n]
  BY <1>1, <1>3
<1>5. QED BY <1>2, <1>4 DEF t

(* What an operand leaves behind keeps to the ceiling, if the operation    *)
(* fits above a refreshed operand: with its own cost, too.                 *)
LEMMA ReadBounded ==
  ASSUME NEW p, NEW cost \in Int, cost + Refreshed <= Ceiling,
         NEW s \in States(p), NEW m \in Nodes(p),
         \A n \in Nodes(p) : s.current[n] <= Ceiling, s.level + cost <= Ceiling
  PROVE  LET t == ReadOperand(cost, s, m)
         IN  /\ \A n \in Nodes(p) : t.current[n] <= Ceiling
             /\ t.level + cost <= Ceiling
<1> DEFINE t == ReadOperand(cost, s, m)
           late == s.current[m] + cost > Ceiling
<1>1. Refreshed \in Nat /\ Ceiling \in Nat /\ Refreshed <= Ceiling
  BY PolicyAssumption
<1>2. s.current \in [Nodes(p) -> Int] /\ s.level \in Int
  BY DEF States
<1>3. /\ t.current = IF late THEN [s.current EXCEPT ![m] = Refreshed] ELSE s.current
      /\ t.level = Max({s.level, IF late THEN Refreshed ELSE s.current[m]})
  BY ReadFields
<1> HIDE DEF t
<1>4. \A n \in Nodes(p) : t.current[n] <= Ceiling
  BY <1>1, <1>2, <1>3
<1>5. t.level \in {s.level, IF late THEN Refreshed ELSE s.current[m]}
  BY <1>1, <1>2, <1>3, MaxOfTwo
<1>6. t.level + cost <= Ceiling
  BY <1>1, <1>2, <1>5
<1>7. QED BY <1>4, <1>6 DEF t

(* Reading all operands keeps the types and what was produced, leaves a    *)
(* level or refreshes it, and keeps to the ceiling if the operation fits   *)
(* above a refreshed operand.                                              *)
LEMMA ReadsType ==
  ASSUME NEW p, WellFormed(p), NEW cost \in Int, NEW s \in States(p), NEW n \in Nodes(p)
  PROVE  LET t == ReadOperands(p, cost, s, n)
         IN  /\ t \in States(p) /\ t.produced = s.produced
             /\ \A m \in Nodes(p) : t.current[m] \in {s.current[m], Refreshed}
             /\ cost + Refreshed <= Ceiling /\ (\A m \in Nodes(p) : s.current[m] <= Ceiling) =>
                  /\ \A m \in Nodes(p) : t.current[m] <= Ceiling
                  /\ t.level + cost <= Ceiling
<1> DEFINE N == Len(p.parents[n])
           Room == cost + Refreshed <= Ceiling /\ \A m \in Nodes(p) : s.current[m] <= Ceiling
<1>1. N \in Nat
  BY ReadingExists
<1>2. PICK read : Reading(p, cost, s, n, read)
  BY ReadingExists
<1> DEFINE Good(k) ==
             /\ read[k].produced = s.produced
             /\ \A m \in Nodes(p) : read[k].current[m] \in {s.current[m], Refreshed}
             /\ Room => /\ \A m \in Nodes(p) : read[k].current[m] <= Ceiling
                        /\ read[k].level + cost <= Ceiling
           B == {k \in 0 .. N : ~ Good(k)}
<1>3. Good(0)
  <2>1. /\ read[0].produced = s.produced /\ read[0].current = s.current
        /\ read[0].level = Fresh
    BY <1>2 DEF Reading, States
  <2>2. cost + Refreshed <= Ceiling => Fresh + cost <= Ceiling
    BY PolicyAssumption DEF Fresh
  <2>3. QED BY <2>1, <2>2
<1>4. B = {}
  <2> HIDE DEF N
  <2> SUFFICES ASSUME B # {} PROVE FALSE
    OBVIOUS
  <2>1. PICK k \in B : \A j \in B : k <= j
    BY B \subseteq Nat, LeastNat
  <2>2. k # 0
    BY <1>3, <2>1
  <2>3. k \in 1 .. N /\ k - 1 \in 0 .. N /\ k - 1 < k
    BY <1>1, <2>2
  <2>4. Good(k - 1)
    BY <2>1, <2>3
  <2>5. /\ read[k - 1] \in States(p) /\ p.parents[n][k] \in Nodes(p)
        /\ read[k] = ReadOperand(cost, read[k - 1], p.parents[n][k])
    BY <1>2, <2>3 DEF Reading, N
  <2> HIDE DEF B
  <2>6. read[k].produced = s.produced
    <3>1. ReadOperand(cost, read[k - 1], p.parents[n][k]).produced = read[k - 1].produced
      BY <2>5, ReadType
    <3>2. read[k - 1].produced = s.produced
      BY <2>4
    <3>3. QED BY <2>5, <3>1, <3>2
  <2>7. Room => /\ \A m \in Nodes(p) : read[k].current[m] <= Ceiling
                /\ read[k].level + cost <= Ceiling
    BY <2>4, <2>5, ReadBounded
  <2>8. \A m \in Nodes(p) : read[k].current[m] \in {s.current[m], Refreshed}
    <3>1. \A m \in Nodes(p) : read[k - 1].current[m] \in {s.current[m], Refreshed}
      BY <2>4
    <3>2. \A m \in Nodes(p) : read[k].current[m] \in {read[k - 1].current[m], Refreshed}
      BY <2>5, ReadLeaves
    <3>3. QED BY <3>1, <3>2
  <2>9. QED BY <2>1, <2>6, <2>7, <2>8 DEF B
<1>5. Good(N)
  <2> HIDE DEF Good, N
  <2>1. QED BY <1>1, <1>4
<1>6. ReadOperands(p, cost, s, n) = read[N] /\ read[N] \in States(p)
  BY <1>1, <1>2 DEF Reading
<1>7. QED BY <1>5, <1>6

(* A simulated node: what is left after it has read its operands, the      *)
(* level it is made at, and the level it keeps.                            *)
AfterReads(p, trial, s, n) ==
  IF p.op[n] = "feedback" THEN s ELSE ReadOperands(p, trial.cost[n], s, n)
MadeAt(p, trial, s, n) ==
  IF p.op[n] = "feedback" THEN Fresh ELSE AfterReads(p, trial, s, n).level + trial.cost[n]
KeptAt(p, trial, s, n) ==
  IF n \in trial.hoists /\ MadeAt(p, trial, s, n) > Refreshed
  THEN Refreshed ELSE MadeAt(p, trial, s, n)

(* Simulating a node keeps the types and makes that node only.             *)
LEMMA NodeType ==
  ASSUME NEW p, WellFormed(p), NEW trial \in Plans(p), NEW s \in States(p), NEW n \in Nodes(p)
  PROVE  LET t == SimulateNode(p, trial, s, n)
             kept == KeptAt(p, trial, s, n)
         IN  /\ t \in States(p) /\ kept \in Int
             /\ \A m \in Nodes(p) :
                  /\ t.produced[m] = IF m = n THEN kept ELSE s.produced[m]
                  /\ t.current[m] = IF m = n THEN kept ELSE AfterReads(p, trial, s, n).current[m]
             /\ n \in trial.hoists /\ MadeAt(p, trial, s, n) > Refreshed =>
                  t.refreshes = AfterReads(p, trial, s, n).refreshes + 1
             /\ ~ (n \in trial.hoists /\ MadeAt(p, trial, s, n) > Refreshed) =>
                  t.refreshes = AfterReads(p, trial, s, n).refreshes
<1> DEFINE r == AfterReads(p, trial, s, n)
           kept == KeptAt(p, trial, s, n)
           cut == n \in trial.hoists /\ MadeAt(p, trial, s, n) > Refreshed
           one == IF cut THEN 1 ELSE 0
           cur == [r.current EXCEPT ![n] = kept]
           pro == [r.produced EXCEPT ![n] = kept]
<1>1. trial.cost[n] \in Int
  BY DEF Plans
<1>2. r \in States(p) /\ r.produced = s.produced
  BY <1>1, ReadsType DEF AfterReads
<1>3. kept \in Int
  <2>1. MadeAt(p, trial, s, n) \in Int
    BY <1>1, <1>2 DEF MadeAt, States, Fresh
  <2>2. QED BY <2>1, PolicyAssumption DEF KeptAt
<1>4. SimulateNode(p, trial, s, n)
        = [r EXCEPT !.current = cur, !.produced = pro, !.refreshes = @ + one]
  BY DEF SimulateNode, AfterReads, MadeAt, KeptAt
<1>5. /\ r = [current |-> r.current, produced |-> r.produced, refreshes |-> r.refreshes,
              level |-> r.level]
      /\ r.current \in [Nodes(p) -> Int] /\ r.produced \in [Nodes(p) -> Int]
      /\ r.refreshes \in Nat /\ r.level \in Int
  <2> HIDE DEF r
  <2>1. QED BY <1>2 DEF States
<1>6. cur \in [Nodes(p) -> Int] /\ pro \in [Nodes(p) -> Int] /\ r.refreshes + one \in Nat
  <2> HIDE DEF r, kept
  <2>1. QED BY <1>3, <1>5
<1>7. SimulateNode(p, trial, s, n)
        = [current |-> cur, produced |-> pro, refreshes |-> r.refreshes + one, level |-> r.level]
  <2> HIDE DEF r, cur, pro, one
  <2>1. QED BY <1>4, <1>5
<1>8. SimulateNode(p, trial, s, n) \in States(p)
  <2> HIDE DEF r, cur, pro, one
  <2>1. QED BY <1>5, <1>6, <1>7 DEF States
<1>9. \A m \in Nodes(p) :
        /\ pro[m] = IF m = n THEN kept ELSE s.produced[m]
        /\ cur[m] = IF m = n THEN kept ELSE r.current[m]
  <2> HIDE DEF r, kept
  <2>1. QED BY <1>2, <1>5
<1>10. QED
  <2> HIDE DEF r, kept, pro, cur
  <2>1. /\ SimulateNode(p, trial, s, n).produced = pro
        /\ SimulateNode(p, trial, s, n).current = cur
        /\ SimulateNode(p, trial, s, n).refreshes = r.refreshes + one
    BY <1>7
  <2>2. /\ cut => SimulateNode(p, trial, s, n).refreshes = r.refreshes + 1
        /\ ~ cut => SimulateNode(p, trial, s, n).refreshes = r.refreshes
    <3> HIDE DEF cut
    <3>1. QED BY <1>5, <2>1
  <2>3. QED BY <1>3, <1>8, <1>9, <2>1, <2>2 DEF r, kept

(* The simulation of a plan, node by node. *)
Running(p, trial, run) ==
  /\ run \in [0 .. p.count -> States(p)]
  /\ run[0].current = [n \in Nodes(p) |-> Fresh] /\ run[0].produced = [n \in Nodes(p) |-> 0]
  /\ run[0].refreshes = 0 /\ run[0].level = Fresh
  /\ \A k \in 1 .. p.count :
       run[k] = IF k - 1 \in trial.live THEN SimulateNode(p, trial, run[k - 1], k - 1)
                ELSE run[k - 1]
  /\ Simulate(p, trial) = run[p.count]

(* The simulation is a function of the nodes simulated.                    *)
LEMMA RunningExists ==
  ASSUME NEW p, WellFormed(p), NEW trial \in Plans(p)
  PROVE  \E run : Running(p, trial, run)
<1> DEFINE N == p.count
           V == States(p)
           a == [current |-> [n \in Nodes(p) |-> Fresh], produced |-> [n \in Nodes(p) |-> 0],
                 refreshes |-> 0, level |-> Fresh]
           Next1(k, s) == IF k - 1 \in trial.live THEN SimulateNode(p, trial, s, k - 1) ELSE s
           step == [t \in (1 .. N) \X V |-> Next1(t[1], t[2])]
           F(f) == [k \in 0 .. N |->
                      IF k = 0
                      THEN [current |-> [n \in Nodes(p) |-> Fresh],
                            produced |-> [n \in Nodes(p) |-> 0],
                            refreshes |-> 0, level |-> Fresh]
                      ELSE IF k - 1 \in trial.live
                           THEN SimulateNode(p, trial, f[k - 1], k - 1) ELSE f[k - 1]]
           run == CHOOSE f : f = F(f)
<1>1. N \in Nat /\ \A k \in 1 .. N : k - 1 \in Nodes(p)
  BY DEF WellFormed, Nodes
<1>2. a \in V
  BY DEF States, Fresh
<1>3. \A k \in 1 .. N, s \in V : Next1(k, s) \in V
  BY <1>1, NodeType
<1>4. step \in [(1 .. N) \X V -> V]
  <2> HIDE DEF N, V, Next1
  <2>1. QED BY <1>3
<1>5. PICK f \in [0 .. N -> V] : Follows(f, N, a, step)
  <2> HIDE DEF N, V, a, step
  <2>1. QED BY <1>1, <1>2, <1>4, Chain
<1>6. f = F(f)
  <2>1. \A k \in 1 .. N : f[k - 1] \in V
    <3> HIDE DEF N, V
    <3>1. \A k \in 1 .. N : k - 1 \in 0 .. N
      BY <1>1
    <3>2. QED BY <1>5, <3>1
  <2>2. f[0] = a /\ \A k \in 1 .. N : f[k] = step[<<k, f[k - 1]>>]
    <3> HIDE DEF N, V, a, step
    <3>1. QED BY <1>5 DEF Follows
  <2>3. \A k \in 1 .. N : f[k] = Next1(k, f[k - 1])
    <3> HIDE DEF N, V, Next1
    <3>1. QED BY <2>1, <2>2
  <2> HIDE DEF N, V
  <2>4. QED BY <1>1, <1>5, <2>2, <2>3
<1>7. run = F(run)
  BY <1>6
<1>8. Simulate(p, trial) = run[N]
  BY DEF Simulate
<1> HIDE DEF run
<1>9. run[0] = a /\ \A k \in 1 .. N : run[k] = Next1(k, run[k - 1])
  <2> HIDE DEF N
  <2>1. 0 \in 0 .. N /\ \A k \in 1 .. N : k \in 0 .. N /\ k # 0
    BY <1>1
  <2>2. QED BY <1>7, <2>1
<1>10. \A k \in 0 .. N : run[k] \in V
  <2> DEFINE B == {k \in 0 .. N : run[k] \notin V}
  <2> HIDE DEF V, N, Next1
  <2> SUFFICES ASSUME B # {} PROVE FALSE
    OBVIOUS
  <2>1. PICK k \in B : \A j \in B : k <= j
    BY B \subseteq Nat, LeastNat
  <2>2. k \in 1 .. N
    BY <1>2, <1>9, <2>1
  <2>3. run[k - 1] \in V
    BY <1>1, <2>1, <2>2
  <2>4. QED BY <1>3, <1>9, <2>1, <2>2, <2>3
<1>11. run \in [0 .. N -> V]
  BY <1>7, <1>10
<1>12. Running(p, trial, run)
  BY <1>8, <1>9, <1>11 DEF Running
<1>13. QED BY <1>12

(* The simulation ends in a state of its type, and below the ceiling where *)
(* every operation fits above a refreshed operand.                         *)
LEMMA SimulateType ==
  ASSUME NEW p, WellFormed(p), NEW trial \in Plans(p)
  PROVE  /\ Simulate(p, trial) \in States(p)
         /\ (\A n \in Nodes(p) : trial.cost[n] + Refreshed <= Ceiling) =>
              \A n \in Nodes(p) : Simulate(p, trial).produced[n] <= Ceiling
<1> DEFINE N == p.count
<1>1. N \in Nat /\ \A k \in 1 .. N : k - 1 \in Nodes(p)
  BY DEF WellFormed, Nodes
<1>2. PICK run : Running(p, trial, run)
  BY RunningExists
<1>3. Simulate(p, trial) = run[N] /\ \A k \in 0 .. N : run[k] \in States(p)
  BY <1>1, <1>2 DEF Running
<1>4. ASSUME \A n \in Nodes(p) : trial.cost[n] + Refreshed <= Ceiling
      PROVE  \A n \in Nodes(p) : run[N].produced[n] <= Ceiling
  <2> DEFINE Good(s) == \A n \in Nodes(p) : s.current[n] <= Ceiling /\ s.produced[n] <= Ceiling
             B == {k \in 0 .. N : ~ Good(run[k])}
  <2>1. Good(run[0])
    BY <1>2, PolicyAssumption DEF Running, Fresh
  <2>2. ASSUME NEW s \in States(p), NEW n \in Nodes(p), Good(s)
        PROVE  Good(SimulateNode(p, trial, s, n))
    <3> DEFINE r == AfterReads(p, trial, s, n)
               kept == KeptAt(p, trial, s, n)
               t == SimulateNode(p, trial, s, n)
    <3>1. trial.cost[n] \in Int /\ trial.cost[n] + Refreshed <= Ceiling
      BY <1>4 DEF Plans
    <3>2. /\ \A m \in Nodes(p) : r.current[m] <= Ceiling
          /\ p.op[n] # "feedback" => r.level + trial.cost[n] <= Ceiling
      BY <2>2, <3>1, ReadsType DEF AfterReads
    <3>3. MadeAt(p, trial, s, n) <= Ceiling
      BY <3>2, PolicyAssumption DEF MadeAt, Fresh
    <3>4. kept <= Ceiling /\ kept \in Int
      <4>1. kept \in Int
        BY NodeType, Zenon
      <4>2. QED BY <3>3, <4>1, PolicyAssumption DEF KeptAt
    <3>5. \A m \in Nodes(p) :
            /\ t.produced[m] = IF m = n THEN kept ELSE s.produced[m]
            /\ t.current[m] = IF m = n THEN kept ELSE r.current[m]
      BY NodeType
    <3>6. s.produced \in [Nodes(p) -> Int] /\ r.current \in [Nodes(p) -> Int]
      <4>1. r \in States(p)
        BY <3>1, ReadsType DEF AfterReads
      <4> HIDE DEF r
      <4>2. QED BY <4>1 DEF States
    <3> HIDE DEF r, kept, t
    <3>7. \A m \in Nodes(p) : t.current[m] <= Ceiling /\ t.produced[m] <= Ceiling
      BY <2>2, <3>2, <3>4, <3>5, <3>6
    <3>8. QED BY <3>7 DEF t
  <2>3. B = {}
    <3> HIDE DEF Good, N
    <3> SUFFICES ASSUME B # {} PROVE FALSE
      OBVIOUS
    <3>1. PICK k \in B : \A j \in B : k <= j
      BY B \subseteq Nat, LeastNat
    <3>2. k \in 1 .. N /\ k - 1 \in 0 .. N /\ k - 1 < k
      BY <1>1, <2>1, <3>1
    <3>3. Good(run[k - 1]) /\ run[k - 1] \in States(p) /\ k - 1 \in Nodes(p)
      BY <1>1, <1>3, <3>1, <3>2
    <3>4. run[k] = IF k - 1 \in trial.live THEN SimulateNode(p, trial, run[k - 1], k - 1)
                   ELSE run[k - 1]
      BY <1>2, <3>2 DEF Running, N
    <3>5. Good(run[k])
      BY <2>2, <3>3, <3>4
    <3>6. QED BY <3>1, <3>5
  <2>4. N \in 0 .. N
    BY <1>1
  <2>5. QED BY <2>3, <2>4
<1>5. QED BY <1>1, <1>3, <1>4

(* What a node was made at is simulated once. *)
LEMMA ProducedOnce ==
  ASSUME NEW p, WellFormed(p), NEW trial \in Plans(p), NEW run, Running(p, trial, run),
         NEW n \in Nodes(p)
  PROVE  \A k \in n + 1 .. p.count : run[k].produced[n] = run[n + 1].produced[n]
<1> DEFINE N == p.count
           B == {k \in n + 1 .. N : run[k].produced[n] # run[n + 1].produced[n]}
<1>1. N \in Nat /\ n \in Nat /\ n + 1 <= N
  BY DEF WellFormed, Nodes
<1> HIDE DEF N
<1>2. B = {}
  <2> SUFFICES ASSUME B # {} PROVE FALSE
    OBVIOUS
  <2>1. B \subseteq Nat
    BY <1>1
  <2>2. PICK k \in B : \A j \in B : k <= j
    BY <2>1, LeastNat
  <2>3. k \in n + 1 .. N /\ k # n + 1
    BY <2>2
  <2>4. k - 1 \in n + 1 .. N /\ k - 1 < k /\ k - 1 # n /\ k \in 1 .. N /\ k - 1 \in 0 .. N
    BY <1>1, <2>3
  <2>5. run[k - 1].produced[n] = run[n + 1].produced[n]
    BY <2>2, <2>4
  <2> DEFINE s == run[k - 1]
             m == k - 1
  <2>6. m \in Nodes(p)
    BY <1>1, <2>4 DEF N, Nodes
  <2>7. s \in States(p)
    BY <2>4 DEF Running, N
  <2>8. run[k] = IF m \in trial.live THEN SimulateNode(p, trial, s, m) ELSE s
    BY <2>4 DEF Running, N
  <2>9. m # n
    BY <2>4
  <2> HIDE DEF s, m
  <2>10. SimulateNode(p, trial, s, m).produced[n] = s.produced[n]
    BY <2>6, <2>7, <2>9, NodeType
  <2>11. run[k].produced[n] = s.produced[n]
    BY <2>8, <2>10
  <2>12. QED BY <2>2, <2>5, <2>11 DEF s
<1>3. QED BY <1>2 DEF N

(* The simulation depends on the hoists alone, and a hoist above a node    *)
(* that is made no deeper than a refreshed one changes nothing.            *)
LEMMA SimulateSame ==
  ASSUME NEW p, WellFormed(p), NEW a \in Plans(p), NEW b \in Plans(p),
         a.live = b.live, a.cost = b.cost,
         \A n \in a.live : \/ n \in a.hoists <=> n \in b.hoists
                           \/ /\ n \notin a.hoists
                              /\ Simulate(p, a).produced[n] <= Refreshed
  PROVE  Simulate(p, a) = Simulate(p, b)
<1> DEFINE N == p.count
<1>1. N \in Nat /\ \A k \in 1 .. N : k - 1 \in Nodes(p)
  BY DEF WellFormed, Nodes
<1>2. PICK ra : Running(p, a, ra)
  BY RunningExists
<1>3. PICK rb : Running(p, b, rb)
  BY RunningExists
<1> DEFINE B == {k \in 0 .. N : ra[k] # rb[k]}
<1>4. ra[0] = rb[0]
  <2>1. ra[0] \in States(p) /\ rb[0] \in States(p)
    <3>1. ra \in [0 .. N -> States(p)] /\ rb \in [0 .. N -> States(p)]
      BY <1>2, <1>3 DEF Running
    <3>2. 0 \in 0 .. N
      BY <1>1
    <3>3. QED BY <3>1, <3>2
  <2>2. \A x \in States(p), y \in States(p) :
          /\ x.current = y.current /\ x.produced = y.produced
          /\ x.refreshes = y.refreshes /\ x.level = y.level
          => x = y
    BY DEF States
  <2>3. /\ ra[0].current = rb[0].current /\ ra[0].produced = rb[0].produced
        /\ ra[0].refreshes = rb[0].refreshes /\ ra[0].level = rb[0].level
    BY <1>2, <1>3 DEF Running
  <2>4. QED BY <2>1, <2>2, <2>3
<1>5. B = {}
  <2> SUFFICES ASSUME B # {} PROVE FALSE
    OBVIOUS
  <2>1. PICK k \in B : \A j \in B : k <= j
    BY B \subseteq Nat, LeastNat
  <2> HIDE DEF N
  <2>2. k \in 1 .. N /\ k - 1 \in 0 .. N /\ k - 1 < k
    BY <1>1, <1>4, <2>1
  <2> DEFINE s == ra[k - 1]
             n == k - 1
  <2>3. s = rb[k - 1] /\ n \in Nodes(p)
    BY <1>1, <2>1, <2>2
  <2>4. s \in States(p)
    BY <1>2, <2>2 DEF Running, N
  <2>5. /\ ra[k] = IF n \in a.live THEN SimulateNode(p, a, s, n) ELSE s
        /\ rb[k] = IF n \in b.live THEN SimulateNode(p, b, s, n) ELSE s
    BY <1>2, <1>3, <2>2, <2>3 DEF Running, N
  <2>6. n \in a.live /\ SimulateNode(p, a, s, n) # SimulateNode(p, b, s, n)
    BY <2>1, <2>5
  <2>7. ASSUME (n \in a.hoists /\ MadeAt(p, a, s, n) > Refreshed)
                 <=> (n \in b.hoists /\ MadeAt(p, b, s, n) > Refreshed)
        PROVE  FALSE
    <3>1. SimulateNode(p, a, s, n) = SimulateNode(p, b, s, n)
      BY <2>7 DEF SimulateNode, MadeAt, AfterReads
    <3>2. QED BY <2>6, <3>1
  <2>8. MadeAt(p, a, s, n) = MadeAt(p, b, s, n)
    BY DEF MadeAt, AfterReads
  <2>9. n \notin a.hoists /\ Simulate(p, a).produced[n] <= Refreshed /\ n \in b.hoists
    BY <2>6, <2>7, <2>8
  <2>10. Simulate(p, a).produced[n] = ra[k].produced[n]
    <3>1. n + 1 = k
      BY <1>1, <2>2
    <3>2. Simulate(p, a) = ra[N]
      BY <1>2 DEF Running, N
    <3> HIDE DEF n, s
    <3>3. ra[N].produced[n] = ra[n + 1].produced[n]
      <4>1. p.count \in n + 1 .. p.count
        BY <1>1, <2>3 DEF Nodes, N
      <4>2. QED BY <1>2, <2>3, <4>1, ProducedOnce DEF N
    <3>4. QED BY <3>1, <3>2, <3>3
  <2>11. ra[k].produced[n] = MadeAt(p, a, s, n)
    <3> HIDE DEF n, s
    <3>1. SimulateNode(p, a, s, n).produced[n] = KeptAt(p, a, s, n)
      BY <2>3, <2>4, NodeType
    <3>2. KeptAt(p, a, s, n) = MadeAt(p, a, s, n)
      BY <2>9 DEF KeptAt
    <3>3. QED BY <2>5, <2>6, <3>1, <3>2
  <2>12. MadeAt(p, a, s, n) \in Int
    <3>1. a.cost[n] \in Int
      BY <2>3 DEF Plans
    <3>2. AfterReads(p, a, s, n) \in States(p)
      BY <2>3, <2>4, <3>1, ReadsType DEF AfterReads
    <3>3. QED BY <3>1, <3>2 DEF MadeAt, States, Fresh
  <2>13. QED BY <2>7, <2>8, <2>9, <2>10, <2>11, <2>12, PolicyAssumption
<1>6. N \in 0 .. N
  BY <1>1
<1>7. QED BY <1>2, <1>3, <1>5, <1>6 DEF Running

(* A plan of the search: what it was told is the program, what it predicts *)
(* is the simulation of its hoists.                                        *)
Current(p, q) ==
  /\ q \in Plans(p)
  /\ q.live = Live(p) /\ q.cost = Cost(p)
  /\ q.refreshes = Simulate(p, q).refreshes /\ q.levels = Simulate(p, q).produced

(* Predicting makes the prediction of a plan current and keeps its hoists. *)
LEMMA PredictedIsCurrent ==
  ASSUME NEW p, WellFormed(p), NEW q \in Plans(p), q.live = Live(p), q.cost = Cost(p)
  PROVE  Current(p, Predicted(p, q)) /\ Predicted(p, q).hoists = q.hoists
<1> DEFINE sim == Simulate(p, q)
           r == Predicted(p, q)
<1>1. sim.refreshes \in Nat /\ sim.produced \in [Nodes(p) -> Int]
  <2>1. sim \in States(p)
    BY SimulateType
  <2> HIDE DEF sim
  <2>2. QED BY <2>1 DEF States
<1>2. r = [q EXCEPT !.refreshes = sim.refreshes, !.levels = sim.produced]
  BY DEF Predicted
<1> HIDE DEF sim, r
<1>3. r = [live |-> q.live, cost |-> q.cost, hoists |-> q.hoists,
           refreshes |-> sim.refreshes, levels |-> sim.produced]
  BY <1>2 DEF Plans
<1>4. r \in Plans(p)
  BY <1>1, <1>3 DEF Plans
<1>5. Simulate(p, q) = Simulate(p, r)
  <2>1. q.live = r.live /\ q.cost = r.cost /\ q.hoists = r.hoists
    BY <1>3
  <2>2. QED BY <1>4, <2>1, SimulateSame
<1>6. QED BY <1>3, <1>4, <1>5 DEF Current, sim, r

(* The plan the search starts from is current.                             *)
LEMMA UnhoistedIsCurrent ==
  ASSUME NEW p, WellFormed(p), Cost(p) \in [Nodes(p) -> Int]
  PROVE  Current(p, Unhoisted(p))
<1> DEFINE q == [live |-> LiveSweep(p), cost |-> Cost(p), hoists |-> {},
                 refreshes |-> 0, levels |-> [n \in Nodes(p) |-> 0]]
<1>1. LiveSweep(p) = Live(p) /\ Live(p) \subseteq Nodes(p)
  BY LiveSweepIsLive, LiveClosed
<1>2. q \in Plans(p) /\ q.live = Live(p) /\ q.cost = Cost(p)
  BY <1>1 DEF Plans
<1> HIDE DEF q
<1>3. Current(p, Predicted(p, q))
  BY <1>2, PredictedIsCurrent
<1>4. QED BY <1>3 DEF Unhoisted, q

(* What a hoist changes of a plan.                                         *)
LEMMA HoistedType ==
  ASSUME NEW p, NEW q \in Plans(p), NEW n \in Nodes(p)
  PROVE  /\ Hoisted(q, n) \in Plans(p)
         /\ Hoisted(q, n).live = q.live /\ Hoisted(q, n).cost = q.cost
         /\ Hoisted(q, n).hoists = q.hoists \cup {n}
<1>1. Hoisted(q, n) = [live |-> q.live, cost |-> q.cost, hoists |-> q.hoists \cup {n},
                       refreshes |-> q.refreshes, levels |-> q.levels]
  BY DEF Hoisted, Plans
<1>2. QED BY <1>1 DEF Plans

(* A trial keeps the prediction current, and either rejects its hoist or   *)
(* keeps it for good.                                                      *)
Pays(p, q, n) == Branches(p, q, n) /\ Simulate(p, Hoisted(q, n)).refreshes < q.refreshes
LEMMA TrialIsCurrent ==
  ASSUME NEW p, WellFormed(p), NEW q, Current(p, q), NEW n \in Nodes(p)
  PROVE  /\ Current(p, Trial(p, q, n))
         /\ q.hoists \subseteq Trial(p, q, n).hoists
         /\ Trial(p, q, n).hoists = q.hoists => Trial(p, q, n) = q /\ ~ Pays(p, q, n)
<1> DEFINE h == Hoisted(q, n)
<1>1. /\ h \in Plans(p) /\ h.live = Live(p) /\ h.cost = Cost(p)
      /\ h.hoists = q.hoists \cup {n}
  BY HoistedType DEF Current
<1> HIDE DEF h
<1>2. Current(p, Predicted(p, h)) /\ Predicted(p, h).hoists = h.hoists
  BY <1>1, PredictedIsCurrent
<1>3. Trial(p, q, n) = IF Pays(p, q, n) THEN Predicted(p, h) ELSE q
  BY DEF Trial, Pays, h
<1>4. Pays(p, q, n) => n \notin q.hoists
  BY DEF Pays, Branches
<1>5. QED BY <1>1, <1>2, <1>3, <1>4

(* One sweep: if it accepted nothing, no trial would have paid. *)
LEMMA SearchPassIsCurrent ==
  ASSUME NEW p, WellFormed(p), NEW q, Current(p, q)
  PROVE  /\ Current(p, SearchPass(p, q))
         /\ SearchPass(p, q).hoists = q.hoists =>
              SearchPass(p, q) = q /\ \A n \in Nodes(p) : ~ Pays(p, q, n)
<1> DEFINE N == p.count
           V == {x \in Plans(p) : Current(p, x)}
           step == [t \in (1 .. N) \X V |-> Trial(p, t[2], t[1] - 1)]
           F(f) == [k \in 0 .. N |-> IF k = 0 THEN q ELSE Trial(p, f[k - 1], k - 1)]
           run == CHOOSE f : f = F(f)
<1>1. N \in Nat /\ \A k \in 1 .. N : k - 1 \in Nodes(p)
  BY DEF WellFormed, Nodes
<1>2. q \in V
  BY DEF Current
<1>3. \A k \in 1 .. N, x \in V : Trial(p, x, k - 1) \in V
  <2> TAKE k \in 1 .. N, x \in V
  <2>1. Current(p, Trial(p, x, k - 1))
    BY <1>1, TrialIsCurrent
  <2>2. QED BY <2>1 DEF Current
<1>4. step \in [(1 .. N) \X V -> V]
  <2> HIDE DEF N, V
  <2>1. QED BY <1>3
<1>5. PICK f \in [0 .. N -> V] : Follows(f, N, q, step)
  <2> HIDE DEF N, V, step
  <2>1. QED BY <1>1, <1>2, <1>4, Chain
<1>6. f = F(f)
  <2>1. \A k \in 1 .. N : f[k - 1] \in V
    <3> HIDE DEF N, V
    <3>1. \A k \in 1 .. N : k - 1 \in 0 .. N
      BY <1>1
    <3>2. QED BY <1>5, <3>1
  <2>2. f[0] = q /\ \A k \in 1 .. N : f[k] = step[<<k, f[k - 1]>>]
    <3> HIDE DEF N, V, step
    <3>1. QED BY <1>5 DEF Follows
  <2>3. \A k \in 1 .. N : f[k] = Trial(p, f[k - 1], k - 1)
    <3> HIDE DEF N, V
    <3>1. QED BY <2>1, <2>2
  <2> HIDE DEF N, V
  <2>4. QED BY <1>1, <1>5, <2>2, <2>3
<1>7. run = F(run)
  BY <1>6
<1>8. SearchPass(p, q) = run[N]
  BY DEF SearchPass
<1> HIDE DEF run
<1>9. run[0] = q /\ \A k \in 1 .. N : run[k] = Trial(p, run[k - 1], k - 1)
  <2> HIDE DEF N
  <2>1. 0 \in 0 .. N /\ \A k \in 1 .. N : k \in 0 .. N /\ k # 0
    BY <1>1
  <2>2. QED BY <1>7, <2>1
<1> DEFINE Good(k) == Current(p, run[k]) /\ \A j \in 0 .. k : run[j].hoists \subseteq run[k].hoists
           B == {k \in 0 .. N : ~ Good(k)}
<1>10. B = {}
  <2> HIDE DEF N
  <2> SUFFICES ASSUME B # {} PROVE FALSE
    OBVIOUS
  <2>1. PICK k \in B : \A j \in B : k <= j
    BY B \subseteq Nat, LeastNat
  <2>2. k # 0
    <3>1. Good(0)
      BY <1>9
    <3>2. QED BY <2>1, <3>1
  <2>3. k \in 1 .. N /\ k - 1 \in 0 .. N /\ k - 1 < k
    BY <1>1, <2>1, <2>2
  <2>4. Good(k - 1)
    BY <2>1, <2>3
  <2>5. Current(p, run[k]) /\ run[k - 1].hoists \subseteq run[k].hoists
    <3>1. k - 1 \in Nodes(p) /\ Current(p, run[k - 1])
      BY <1>1, <2>3, <2>4
    <3>2. run[k] = Trial(p, run[k - 1], k - 1)
      BY <1>9, <2>3
    <3>3. QED BY <3>1, <3>2, TrialIsCurrent
  <2>6. \A j \in 0 .. k : j = k \/ j \in 0 .. k - 1
    BY <2>3
  <2>7. Good(k)
    BY <2>4, <2>5, <2>6
  <2>8. QED BY <2>1, <2>7
<1>11. \A k \in 0 .. N : Current(p, run[k]) /\ q.hoists \subseteq run[k].hoists
                         /\ run[k].hoists \subseteq run[N].hoists
  BY <1>1, <1>9, <1>10
<1>12. ASSUME run[N].hoists = q.hoists
       PROVE  run[N] = q /\ \A n \in Nodes(p) : ~ Pays(p, q, n)
  <2>1. \A k \in 0 .. N : run[k].hoists = q.hoists
    BY <1>11, <1>12
  <2>2. ASSUME NEW k \in 1 .. N
        PROVE  run[k] = run[k - 1] /\ ~ Pays(p, run[k - 1], k - 1)
    <3> HIDE DEF N
    <3>1. k \in 0 .. N /\ k - 1 \in 0 .. N /\ k - 1 \in Nodes(p)
      BY <1>1
    <3>2. Current(p, run[k - 1]) /\ run[k].hoists = run[k - 1].hoists
      BY <1>11, <2>1, <3>1
    <3>3. run[k] = Trial(p, run[k - 1], k - 1)
      BY <1>9
    <3>4. QED BY <3>1, <3>2, <3>3, TrialIsCurrent
  <2> DEFINE C == {k \in 0 .. N : run[k] # q}
  <2>3. C = {}
    <3> HIDE DEF N
    <3> SUFFICES ASSUME C # {} PROVE FALSE
      OBVIOUS
    <3>1. PICK k \in C : \A j \in C : k <= j
      BY C \subseteq Nat, LeastNat
    <3>2. k \in 1 .. N /\ k - 1 \in 0 .. N /\ k - 1 < k
      BY <1>1, <1>9, <3>1
    <3>3. QED BY <2>2, <3>1, <3>2
  <2>4. \A n \in Nodes(p) : n + 1 \in 1 .. N /\ n \in 0 .. N /\ (n + 1) - 1 = n
    BY <1>1 DEF Nodes
  <2>5. \A n \in Nodes(p) : ~ Pays(p, q, n)
    <3> TAKE n \in Nodes(p)
    <3>1. ~ Pays(p, run[(n + 1) - 1], (n + 1) - 1)
      <4> HIDE DEF N
      <4>1. QED BY <2>2, <2>4
    <3>2. run[n] = q
      BY <2>3, <2>4
    <3>3. QED BY <2>4, <3>1, <3>2
  <2>6. QED BY <1>1, <2>3, <2>5
<1>13. QED BY <1>1, <1>8, <1>11, <1>12

(* Where no trial pays, no hoist above a branch saves a refresh. *)
LEMMA NoGainLeft ==
  ASSUME NEW p, WellFormed(p), NEW q, Current(p, q), \A n \in Nodes(p) : ~ Pays(p, q, n),
         NEW n \in q.live \ q.hoists, Cardinality(LiveUses(p, q.live, n)) > 1
  PROVE  Simulate(p, Hoisted(q, n)).refreshes >= q.refreshes
<1> DEFINE h == Hoisted(q, n)
<1>1. q \in Plans(p) /\ n \in Nodes(p) /\ q.levels = Simulate(p, q).produced
  BY LiveClosed DEF Current
<1>2. /\ h \in Plans(p) /\ h.live = q.live /\ h.cost = q.cost
      /\ h.hoists = q.hoists \cup {n}
  BY <1>1, HoistedType
<1>3. Simulate(p, h) \in States(p) /\ Simulate(p, q) \in States(p)
  BY <1>1, <1>2, SimulateType
<1>4. Simulate(p, h).refreshes \in Nat /\ q.refreshes \in Nat /\ q.levels[n] \in Int
  BY <1>1, <1>3 DEF Current, States
<1>5. Cardinality(LiveUses(p, q.live, n)) \in Nat
  <2>1. LiveUses(p, q.live, n) \subseteq Edges(p)
    BY DEF LiveUses, EdgesFrom
  <2>2. QED BY <2>1, EdgesFinite, FS_Subset, FS_CardinalityType
<1>6. CASE q.levels[n] > Refreshed
  <2>1. Branches(p, q, n)
    BY <1>5, <1>6 DEF Branches
  <2>2. ~ (Simulate(p, h).refreshes < q.refreshes)
    BY <1>1, <2>1 DEF Pays
  <2>3. QED BY <1>4, <2>2
<1>7. CASE q.levels[n] <= Refreshed
  <2> HIDE DEF h
  <2>1. Simulate(p, q) = Simulate(p, h)
    BY <1>1, <1>2, <1>7, SimulateSame
  <2>2. QED BY <1>4, <2>1 DEF Current, h
<1>8. QED BY <1>4, <1>6, <1>7, PolicyAssumption

-----------------------------------------------------------------------------
(* Levels, batches and refreshes of the executor.                          *)

(* Every operation fits above a bootstrapped operand. *)
LEMMA BootFits ==
  /\ \A level \in BootLevels : level \in 0 .. Ceiling
  /\ \A p \in Programs :
       /\ WellFormed(p) /\ Annotated(p)
       /\ Cost(p) \in [Nodes(p) -> 0 .. Ceiling]
       /\ \A n \in Nodes(p), level \in BootLevels : level + Cost(p)[n] <= Ceiling
<1>1. Ceiling \in Nat /\ BootLevels \subseteq 0 .. Ceiling /\ BootLevels # {}
  BY PolicyAssumption, ExecutorAssumption
<1>2. Max(BootLevels) \in 0 .. Ceiling /\ \A level \in BootLevels : level <= Max(BootLevels)
  BY <1>1, MaxFact
<1> DEFINE top == Max(BootLevels)
<1> HIDE DEF top
<1>3. ASSUME NEW p \in Programs, NEW n \in Nodes(p)
      PROVE  Cost(p)[n] \in 0 .. Ceiling - top
  BY ExecutorAssumption DEF top
<1>4. \A p \in Programs : Cost(p) \in [Nodes(p) -> 0 .. Ceiling]
  <2> TAKE p \in Programs
  <2>1. \A n \in Nodes(p) : Cost(p)[n] \in 0 .. Ceiling
    BY <1>1, <1>2, <1>3 DEF top
  <2>2. Cost(p) = [n \in Nodes(p) |-> Cost(p)[n]]
    BY DEF Cost
  <2> HIDE DEF Cost
  <2>3. QED BY <2>1, <2>2
<1>5. \A p \in Programs : \A n \in Nodes(p), level \in BootLevels : level + Cost(p)[n] <= Ceiling
  BY <1>1, <1>2, <1>3 DEF top
<1>6. QED BY <1>1, <1>4, <1>5, ExecutorAssumption

(* An element of a sequence. *)
LEMMA SeqElement ==
  ASSUME NEW T, NEW s \in Seq(T), NEW i \in 1 .. Len(s)
  PROVE  s[i] \in T
  OBVIOUS

Heaps == Seq([root : Nodes(program), level : -1 .. Ceiling])

(* The level of a held value. *)
LEMMA LevelMeaning ==
  ASSUME heap \in Heaps, NEW m, values[m] \in 1 .. Len(heap)
  PROVE  /\ heap[values[m]].level \in -1 .. Ceiling
         /\ heap[values[m]].root \in Nodes(program)
         /\ Level(m) \in 0 .. Ceiling
         /\ Level(m) = IF heap[values[m]].level = -1 THEN 0 ELSE heap[values[m]].level
<1>1. Ceiling \in Nat
  BY PolicyAssumption
<1>2. heap[values[m]] \in [root : Nodes(program), level : -1 .. Ceiling]
  BY SeqElement DEF Heaps
<1> DEFINE l == heap[values[m]].level
<1>3. l \in -1 .. Ceiling
  BY <1>2
<1> HIDE DEF l
<1>4. Max({0, l}) = IF 0 <= l THEN l ELSE 0
  BY <1>1, <1>3, MaxOfTwo
<1>5. QED BY <1>1, <1>2, <1>3, <1>4 DEF Level, l

(* A batch holds the requested value and others that are held. *)
LEMMA GroupMeaning ==
  ASSUME WellFormed(program), Annotated(program), NEW requested \in Nodes(program), NEW from
  PROVE  /\ requested \in Group(requested, from)
         /\ Group(requested, from) \subseteq Nodes(program)
         /\ \A m \in Group(requested, from) : m # requested => values[m] # Null
<1> DEFINE N == program.count
           Member(G) == requested \in G /\ \A m \in G : m # requested => values[m] # Null
           Members == {G \in SUBSET Nodes(program) : Member(G)}
           V == [members : Members, occupied : Int]
           a == [members |-> {requested}, occupied |-> program.size[requested]]
           step == [t \in (1 .. N) \X V |-> Admit(t[2], t[1] - 1, requested, from)]
           F(f) == [k \in 0 .. N |->
                      IF k = 0
                      THEN [members |-> {requested}, occupied |-> program.size[requested]]
                      ELSE Admit(f[k - 1], k - 1, requested, from)]
           upto == CHOOSE f : f = F(f)
<1>1. N \in Nat /\ \A k \in 1 .. N : k - 1 \in Nodes(program)
  BY DEF WellFormed, Nodes
<1>2. \A m \in Nodes(program) : program.size[m] \in Int
  BY DEF Annotated
<1>3. a \in V
  BY <1>2
<1>4. ASSUME NEW g \in V, NEW m \in Nodes(program)
      PROVE  Admit(g, m, requested, from) \in V
  <2>1. g.members \in Members /\ g.occupied + program.size[m] \in Int
    BY <1>2, <1>4
  <2>2. Joins(g, m, requested, from) => g.members \cup {m} \in Members
    BY <2>1 DEF Joins
  <2> HIDE DEF Members
  <2>3. QED BY <2>1, <2>2 DEF Admit
<1>5. step \in [(1 .. N) \X V -> V]
  <2> HIDE DEF N, V
  <2>1. QED BY <1>1, <1>4
<1>6. PICK f \in [0 .. N -> V] : Follows(f, N, a, step)
  <2> HIDE DEF N, V, a, step
  <2>1. QED BY <1>1, <1>3, <1>5, Chain
<1>7. f = F(f)
  <2>1. \A k \in 1 .. N : f[k - 1] \in V
    <3> HIDE DEF N, V
    <3>1. \A k \in 1 .. N : k - 1 \in 0 .. N
      BY <1>1
    <3>2. QED BY <1>6, <3>1
  <2>2. f[0] = a /\ \A k \in 1 .. N : f[k] = step[<<k, f[k - 1]>>]
    <3> HIDE DEF N, V, a, step
    <3>1. QED BY <1>6 DEF Follows
  <2>3. \A k \in 1 .. N : f[k] = Admit(f[k - 1], k - 1, requested, from)
    <3> HIDE DEF N, V
    <3>1. QED BY <2>1, <2>2
  <2> HIDE DEF V
  <2>4. QED BY <1>1, <1>6, <2>2, <2>3
<1>8. upto = F(upto)
  BY <1>7
<1>9. Group(requested, from) = IF options.batch THEN upto[N].members ELSE {requested}
  BY DEF Group
<1> HIDE DEF upto
<1>10. upto[0] = a /\ \A k \in 1 .. N : upto[k] = Admit(upto[k - 1], k - 1, requested, from)
  <2> HIDE DEF N
  <2>1. 0 \in 0 .. N /\ \A k \in 1 .. N : k \in 0 .. N /\ k # 0
    BY <1>1
  <2>2. QED BY <1>8, <2>1
<1>11. \A k \in 0 .. N : upto[k] \in V
  <2> DEFINE B == {k \in 0 .. N : upto[k] \notin V}
  <2> HIDE DEF V, N
  <2> SUFFICES ASSUME B # {} PROVE FALSE
    OBVIOUS
  <2>1. PICK k \in B : \A j \in B : k <= j
    BY B \subseteq Nat, LeastNat
  <2>2. k \in 1 .. N
    BY <1>3, <1>10, <2>1
  <2>3. upto[k - 1] \in V
    BY <1>1, <2>1, <2>2
  <2>4. QED BY <1>1, <1>4, <1>10, <2>1, <2>2, <2>3
<1>12. upto[N].members \in Members
  BY <1>1, <1>11
<1>13. {requested} \in Members
  OBVIOUS
<1>14. Group(requested, from) \in Members
  <2> HIDE DEF Members
  <2>1. QED BY <1>9, <1>12, <1>13
<1>15. QED BY <1>14

(* What a refresh leaves: the same values under the same nodes, at their   *)
(* levels or at the bootstrap's, and no unmasked coordinate bootstrapped.  *)
LEMMA RefreshKeeps ==
  ASSUME TypeOK, NEW requested \in Nodes(program), values[requested] # Null, NEW from,
         NEW level \in BootLevels, RefreshValue(requested, from, level)
  PROVE  /\ heap' \in Heaps
         /\ values' \in [Nodes(program) -> 0 .. Len(heap')]
         /\ \A m \in Nodes(program) : values'[m] = Null <=> values[m] = Null
         /\ \A m \in Nodes(program) : values[m] # Null =>
              /\ heap'[values'[m]].root = heap[values[m]].root
              /\ heap'[values'[m]].level \in {heap[values[m]].level, level}
              /\ m \notin Group(requested, from) => heap'[values'[m]] = heap[values[m]]
         /\ heap'[values'[requested]].level = level
         /\ dirty' \subseteq dirty
         /\ ~ unmasked => ~ unmasked'
         /\ deepest' \in 0 .. Depth
<1> DEFINE G == Group(requested, from)
           C == Cardinality(G)
           rank(m) == Cardinality(UpTo(G, m))
           member(k) == CHOOSE m \in G : rank(m) = k
           T == [root : Nodes(program), level : -1 .. Ceiling]
           new == [k \in 1 .. C |-> [root |-> heap[values[member(k)]].root, level |-> level]]
           L == Len(heap)
           b == program.count
<1>1. /\ program \in Programs /\ WellFormed(program) /\ Annotated(program)
      /\ b \in Nat /\ Nodes(program) = 0 .. b - 1 /\ Ceiling \in Nat
      /\ heap \in Seq(T) /\ L \in Nat /\ values \in [Nodes(program) -> 0 .. L]
      /\ deepest \in 0 .. Depth /\ level \in 0 .. Ceiling
      /\ Depth \in Int /\ Ceiling + 4 <= Depth
  <2>1. program \in Programs /\ heap \in Seq(T) /\ values \in [Nodes(program) -> 0 .. L]
        /\ deepest \in 0 .. Depth
    BY DEF TypeOK
  <2>2. WellFormed(program) /\ Annotated(program) /\ level \in 0 .. Ceiling
    BY <2>1, BootFits
  <2>3. b \in Nat /\ Nodes(program) = 0 .. b - 1
    BY <2>2 DEF WellFormed, Nodes
  <2>4. L \in Nat
    BY <2>1
  <2>5. Ceiling \in Nat /\ Ceiling + 4 <= Depth /\ Depth \in Int
    BY PolicyAssumption, ExecutorAssumption
  <2> HIDE DEF T, L, b
  <2>6. QED BY <2>1, <2>2, <2>3, <2>4, <2>5
<1>2. /\ requested \in G /\ G \subseteq Nodes(program)
      /\ \A m \in G : values[m] \in 1 .. L
  <2>1. /\ requested \in G /\ G \subseteq Nodes(program)
        /\ \A m \in G : m # requested => values[m] # Null
    BY <1>1, GroupMeaning
  <2>2. QED BY <1>1, <2>1 DEF Null
<1>3. /\ heap' = heap \o new
      /\ \A m \in Nodes(program) : values'[m] = IF m \in G THEN L + rank(m) ELSE values[m]
      /\ values' = [m \in Nodes(program) |-> values'[m]]
      /\ dirty' = dirty \ G
      /\ unmasked' = (unmasked \/ G \cap (dirty \ G) # {})
      /\ deepest' = Max({deepest} \cup {SpentByRefresh(G, m) : m \in G})
  BY DEF RefreshValue, StillDirty, UpTo
<1> HIDE DEF G
<1>4. /\ C \in Nat
      /\ \A m \in G : rank(m) \in 1 .. C
      /\ \A m, n \in G : rank(m) = rank(n) => m = n
      /\ \A k \in 1 .. C : \E m \in G : rank(m) = k
  <2>1. G \subseteq Nodes(program) /\ Nodes(program) = 0 .. b - 1 /\ b \in Nat
    BY <1>1, <1>2
  <2> HIDE DEF b
  <2>2. G \subseteq 0 .. b /\ b \in Nat
    BY <2>1
  <2>3. C \in Nat /\ \A m \in G : rank(m) \in 1 .. C
    BY <2>2, Ranks
  <2>4. \A m, n \in G : rank(m) = rank(n) => m = n
    BY <2>2, Ranks
  <2>5. \A k \in 1 .. C : \E m \in G : rank(m) = k
    BY <2>2, Ranks
  <2>6. QED BY <2>3, <2>4, <2>5
<1> HIDE DEF C, rank
<1>5. /\ \A k \in 1 .. C : member(k) \in G
      /\ \A m \in G : member(rank(m)) = m
  <2>1. \A k \in 1 .. C : member(k) \in G /\ rank(member(k)) = k
    BY <1>4
  <2> HIDE DEF member
  <2>2. QED BY <1>4, <2>1
<1> HIDE DEF member
<1>6. \A i \in 1 .. L : heap[i] \in T
  BY <1>1, SeqElement
<1>7. new \in Seq(T) /\ Len(new) = C
  <2>1. ASSUME NEW k \in 1 .. C
        PROVE  [root |-> heap[values[member(k)]].root, level |-> level] \in T
    <3>1. heap[values[member(k)]] \in T
      BY <1>2, <1>5, <1>6
    <3> DEFINE h == heap[values[member(k)]]
    <3> HIDE DEF h
    <3>2. h.root \in Nodes(program)
      BY <3>1 DEF h
    <3>3. level \in -1 .. Ceiling
      BY <1>1
    <3>4. QED BY <3>2, <3>3 DEF h
  <2> HIDE DEF T
  <2>2. QED BY <1>4, <2>1
<1>8. \A k \in 1 .. C : new[k].level = level /\ new[k].root = heap[values[member(k)]].root
  OBVIOUS
<1>9. /\ heap' \in Seq(T) /\ Len(heap') = L + C
      /\ \A i \in 1 .. L : heap'[i] = heap[i]
      /\ \A k \in 1 .. C : heap'[L + k] = new[k]
  <2> HIDE DEF T, new
  <2>0. heap \in Seq(T) /\ new \in Seq(T)
    BY <1>1, <1>7
  <2>1. /\ heap \o new \in Seq(T) /\ Len(heap \o new) = Len(heap) + Len(new)
        /\ \A i \in 1 .. Len(heap) : (heap \o new)[i] = heap[i]
        /\ \A k \in 1 .. Len(new) : (heap \o new)[Len(heap) + k] = new[k]
    BY <2>0
  <2>2. QED BY <1>3, <1>7, <2>1, Zenon
<1> HIDE DEF new
<1>10. values' \in [Nodes(program) -> 0 .. Len(heap')]
  <2>1. \A m \in Nodes(program) : values'[m] \in 0 .. Len(heap')
    <3> TAKE m \in Nodes(program)
    <3> HIDE DEF L
    <3>1. CASE m \in G
      <4>1. values'[m] = L + rank(m) /\ rank(m) \in 1 .. C
        BY <1>3, <1>4, <3>1
      <4>2. L + rank(m) \in 0 .. L + C
        BY <1>1, <1>4, <4>1
      <4>3. QED BY <1>9, <4>1, <4>2
    <3>2. CASE m \notin G
      <4>1. values'[m] = values[m] /\ values[m] \in 0 .. L
        BY <1>1, <1>3, <3>2
      <4>2. QED BY <1>1, <1>4, <1>9, <4>1
    <3>3. QED BY <3>1, <3>2
  <2>2. QED BY <1>3, <2>1
<1>11. ASSUME NEW m \in G
       PROVE  /\ values'[m] # Null /\ values[m] # Null
              /\ heap'[values'[m]].level = level
              /\ heap'[values'[m]].root = heap[values[m]].root
  <2>1. values'[m] = L + rank(m) /\ rank(m) \in 1 .. C /\ member(rank(m)) = m
    BY <1>2, <1>3, <1>4, <1>5
  <2>2. heap'[values'[m]] = new[rank(m)]
    BY <1>9, <2>1
  <2>3. values'[m] # Null /\ values[m] # Null
    <3> HIDE DEF L
    <3>1. values[m] \in 1 .. L
      BY <1>2
    <3>2. QED BY <1>1, <2>1, <3>1 DEF Null
  <2>4. heap'[values'[m]].level = level /\ heap'[values'[m]].root = heap[values[m]].root
    <3> HIDE DEF L
    <3>1. QED BY <1>8, <2>1, <2>2
  <2>5. QED BY <2>3, <2>4
<1>12. ASSUME NEW m \in Nodes(program), m \notin G
       PROVE  /\ values'[m] = values[m]
              /\ values[m] # Null => heap'[values'[m]] = heap[values[m]]
  <2> HIDE DEF L
  <2>1. values'[m] = values[m] /\ values[m] \in 0 .. L
    BY <1>1, <1>3, <1>12
  <2>2. values[m] # Null => values[m] \in 1 .. L
    BY <1>1, <2>1 DEF Null
  <2>3. QED BY <1>9, <2>1, <2>2
<1>13. deepest' \in 0 .. Depth
  <2>1. \A m \in G : SpentByRefresh(G, m) \in 0 .. Depth
    <3> TAKE m \in G
    <3>1. heap[values[m]].level \in -1 .. Ceiling
      BY <1>2, <1>6
    <3> DEFINE l == heap[values[m]].level
    <3> HIDE DEF l
    <3> DEFINE one == IF Cardinality(G) = 1 /\ m \in dirty THEN 1 ELSE 0
    <3>2. one \in 0 .. 1 /\ l \in -1 .. Ceiling
      BY <3>1 DEF l
    <3>3. SpentByRefresh(G, m) = l + 3 + one
      BY DEF SpentByRefresh, l
    <3> HIDE DEF one
    <3>4. QED BY <1>1, <3>2, <3>3
  <2> DEFINE S == {deepest} \cup {SpentByRefresh(G, m) : m \in G}
  <2>2. S \subseteq 0 .. Depth /\ S # {} /\ Depth \in Nat
    BY <1>1, <2>1
  <2> HIDE DEF S
  <2>3. Max(S) \in S
    BY <2>2, MaxFact
  <2>4. QED BY <1>3, <2>2, <2>3 DEF S
<1>14. G \cap (dirty \ G) = {}
  OBVIOUS
<1>15. QED
  <2>1. \A m \in Nodes(program) : values'[m] = Null <=> values[m] = Null
    BY <1>11, <1>12
  <2>2. \A m \in Nodes(program) : values[m] # Null =>
              /\ heap'[values'[m]].root = heap[values[m]].root
              /\ heap'[values'[m]].level \in {heap[values[m]].level, level}
              /\ m \notin Group(requested, from) => heap'[values'[m]] = heap[values[m]]
    BY <1>11, <1>12 DEF G
  <2>3. heap'[values'[requested]].level = level
    BY <1>2, <1>11
  <2>4. ~ unmasked => ~ unmasked'
    BY <1>3, <1>14
  <2>5. QED BY <1>3, <1>9, <1>10, <1>13, <2>1, <2>2, <2>3, <2>4 DEF Heaps
-----------------------------------------------------------------------------
(* The order, and which values are still awaited.                          *)

(* The schedule's invariant depends on the schedule alone. *)
LEMMA ScheduleKept ==
  ASSUME Schedule!IInv, UNCHANGED <<program, schedule>>
  PROVE  Schedule!IInv'
<1>1. /\ program' = program /\ live' = live /\ pending' = pending
      /\ remaining_uses' = remaining_uses /\ epoch_remaining' = epoch_remaining
      /\ remaining' = remaining /\ done' = done /\ active_epoch' = active_epoch
      /\ ready' = ready /\ stalled' = stalled
  BY DEF schedule
<1>2. Schedule!TypeOK'
  BY <1>1 DEF Schedule!IInv, Schedule!TypeOK
<1>3. Schedule!CountersExact'
  <2>1. \A c : {e \in Schedule!EdgesInto(program', c) : Schedule!Operand(program', e) \notin done'}
               = {e \in Schedule!EdgesInto(program, c) : Schedule!Operand(program, e) \notin done}
    BY <1>1
  <2>2. \A n : {e \in Schedule!LiveUses(program', live', n) : e[1] \notin done'}
               = {e \in Schedule!LiveUses(program, live, n) : e[1] \notin done}
    BY <1>1
  <2>3. Schedule!Unfinished' = Schedule!Unfinished
    BY <1>1 DEF Schedule!Unfinished
  <2>4. \A k : {n \in Schedule!Unfinished' : Schedule!Epoch(program', n) = k}
               = {n \in Schedule!Unfinished : Schedule!Epoch(program, n) = k}
    BY <1>1, <2>3
  <2>5. Schedule!CountersExact
    BY DEF Schedule!IInv
  <2>6. QED BY <1>1, <2>1, <2>2, <2>3, <2>4, <2>5 DEF Schedule!CountersExact
<1>4. Schedule!EpochOpen'
  BY <1>1 DEF Schedule!IInv, Schedule!EpochOpen, Schedule!Unfinished
<1>5. Schedule!DoneClosed'
  BY <1>1 DEF Schedule!IInv, Schedule!DoneClosed
<1>6. Schedule!FrontierExact'
  BY <1>1 DEF Schedule!IInv, Schedule!FrontierExact, Schedule!Unfinished
<1>7. Schedule!NeverStalls'
  BY <1>1 DEF Schedule!IInv, Schedule!NeverStalls
<1>8. live' = Schedule!Live(program')
  BY <1>1 DEF Schedule!IInv
<1>9. QED BY <1>2, <1>3, <1>4, <1>5, <1>6, <1>7, <1>8 DEF Schedule!IInv

(* A step that evaluates nothing leaves the order. *)
LEMMA OrderStays ==
  ASSUME OrderKept, UNCHANGED <<program, schedule, options>>,
         Working' => Working /\ current' = current
  PROVE  OrderKept'
<1>1. options.frontier => Schedule!IInv'
  BY ScheduleKept DEF OrderKept
<1>2. /\ live' = live /\ done' = done /\ stalled' = stalled /\ ready' = ready
      /\ program' = program /\ options' = options
  BY DEF schedule
<1>3. QED BY <1>1, <1>2 DEF OrderKept

(* What the order says of the program. *)
LEMMA OrderFacts ==
  ASSUME TypeOK, OrderKept
  PROVE  /\ program \in Programs /\ WellFormed(program) /\ Annotated(program)
         /\ Nodes(program) \subseteq Nat
         /\ program.count \in Nat /\ Nodes(program) = 0 .. program.count - 1
         /\ live = Live(program) /\ live \subseteq Nodes(program)
         /\ program.outputs \subseteq live
         /\ \A n \in live : \A m \in ParentsOf(program, n) : m \in live /\ m < n
         /\ done \subseteq Nodes(program)
         /\ Nodes(program) \ live \subseteq done
<1>1. program \in Programs /\ WellFormed(program) /\ Annotated(program)
  BY BootFits DEF TypeOK
<1>2. /\ live = Live(program) /\ live \subseteq Nodes(program)
      /\ program.outputs \subseteq live
      /\ \A n \in live : ParentsOf(program, n) \subseteq live
  BY <1>1, LiveClosed DEF OrderKept, ParentClosed
<1>3. \A n \in live : \A m \in ParentsOf(program, n) : m < n
  BY <1>1, <1>2, ParentsEarlier
<1>4. program.count \in Nat /\ Nodes(program) = 0 .. program.count - 1
  BY <1>1 DEF WellFormed, Nodes
<1>5. QED BY <1>1, <1>2, <1>3, <1>4 DEF OrderKept

(* The operands of the current node exist and are needed. *)
LEMMA OperandsNeeded ==
  ASSUME TypeOK, OrderKept, Working
  PROVE  /\ current \in live \ done /\ current \in Nodes(program)
         /\ \A m \in ParentsOf(program, current) :
              m \in live \cap done /\ m # current /\ m \in Needed /\ Awaits(current, m)
<1>1. /\ live \subseteq Nodes(program) /\ Nodes(program) \subseteq Nat
      /\ \A n \in live : \A m \in ParentsOf(program, n) : m \in live /\ m < n
  BY OrderFacts
<1>2. current \in live \ done
  BY DEF OrderKept
<1>3. ASSUME NEW m \in ParentsOf(program, current)
      PROVE  m \in done
  <2>1. CASE options.frontier
    <3>1. current \in ready /\ SP!IInv
      BY <2>1, SameSchedule DEF OrderKept
    <3>2. SP!ParentsOf(program, current) \subseteq done
      BY <3>1 DEF SP!IInv, SP!FrontierExact
    <3>3. QED BY <3>2, SameProgram
  <2>2. CASE ~ options.frontier
    <3>1. \A n \in live \ done : current <= n
      BY <2>2 DEF OrderKept
    <3>2. QED BY <1>1, <1>2, <3>1
  <2>3. QED BY <2>1, <2>2
<1>4. QED BY <1>1, <1>2, <1>3 DEF Needed, Awaits

(* final_use and last_use: a value whose final use is the current node is  *)
(* no output and nothing else waits for it.                                *)
LEMMA FinalUseIsLastAwaited ==
  ASSUME TypeOK, OrderKept, Working, NEW m \in ParentsOf(program, current),
         FinalUse(m, current)
  PROVE  LastAwaited(m)
<1>1. /\ live \subseteq Nodes(program) /\ program.count \in Nat
      /\ Nodes(program) = 0 .. program.count - 1 /\ WellFormed(program)
  BY OrderFacts
<1>2. current \in live \ done /\ m \in Nodes(program)
  BY <1>1, OperandsNeeded
<1>3. CASE options.frontier
  <2>1. current \in ready /\ SP!IInv /\ SP!final_use(m, current)
    BY <1>3, SameSchedule DEF OrderKept, FinalUse
  <2>2. m \in SP!ParentsOf(program, current)
    BY SameProgram
  <2>3. m \notin program.outputs /\ SP!Waiting(m) = {current}
    BY <2>1, <2>2, SP!FinalUseMeaning, SameAssumption
  <2>4. \A c \in live : Awaits(c, m) => c \in SP!Waiting(m)
    BY SameProgram DEF SP!Waiting, SP!Unfinished, Awaits
  <2>5. QED BY <2>3, <2>4 DEF LastAwaited
<1>4. CASE ~ options.frontier
  <2>1. LastUse(m) = current /\ \A n \in live \ done : current <= n
    BY <1>4 DEF OrderKept, FinalUse
  <2>2. m \notin program.outputs
    BY <1>1, <1>2, <2>1 DEF LastUse
  <2> DEFINE S == Consumers(program, live, m) \cup {0}
  <2>3. Max(S) = current
    BY <2>1, <2>2 DEF LastUse
  <2>4. Consumers(program, live, m) = {c \in live : m \in ParentsOf(program, c)}
    BY <1>1, <1>2, ConsumersMeaning
  <2>5. S \subseteq 0 .. program.count /\ S # {}
    BY <1>1, <2>4
  <2> HIDE DEF S
  <2>6. \A c \in S : c <= current
    BY <1>1, <2>3, <2>5, MaxFact
  <2>7. \A c \in live : Awaits(c, m) => c = current
    BY <1>1, <1>2, <2>1, <2>4, <2>6 DEF Awaits, S
  <2>8. QED BY <2>2, <2>7 DEF LastAwaited
<1>5. QED BY <1>3, <1>4

-----------------------------------------------------------------------------
(* Initially, and before an operation.                                     *)

(* A current plan is a plan whose prediction is current. *)
LEMMA CurrentIsKept ==
  Current(program, plan) <=>
    plan \in Plans(program) /\ plan.cost = Cost(program) /\ PredictionCurrent
  BY DEF Current, PredictionCurrent

(* Before the first step nothing is held and nothing is needed. *)
LEMMA InitIInv == Init => IInv
<1> SUFFICES ASSUME Init PROVE IInv
  OBVIOUS
<1>1. Schedule!Init
  BY DEF Init
<1>2. SP!IInv
  BY <1>1, SameSchedule, SameAssumption, SP!InitIInv
<1>3. program \in Programs /\ live = Live(program) /\ done = Nodes(program) \ live /\ stalled = FALSE
  <2>1. Schedule!Nodes(program) = Nodes(program) /\ Schedule!Live(program) = Live(program)
    BY SameEdges, SameProgram
  <2>2. QED BY <1>1, <2>1 DEF Schedule!Init
<1>4. WellFormed(program) /\ Cost(program) \in [Nodes(program) -> Int]
  BY <1>3, BootFits, PolicyAssumption
<1>5. Current(program, plan)
  BY <1>4, UnhoistedIsCurrent DEF Init, PlannerInit
<1>6. PlanKept
  BY <1>5, CurrentIsKept DEF PlanKept, LocallyOptimal, Init, PlannerInit
<1>7. live \subseteq Nodes(program)
  BY <1>3, <1>4, LiveClosed
<1>8. TypeOK
  <2>1. deepest \in 0 .. Depth
    BY ExecutorAssumption DEF Init
  <2>2. heap \in Seq([root : Nodes(program), level : -1 .. Ceiling]) /\ Len(heap) = 0
    BY DEF Init
  <2>3. values \in [Nodes(program) -> 0 .. Len(heap)]
    BY <2>2 DEF Init, Null
  <2>4. QED BY <1>3, <1>5, <2>1, <2>2, <2>3, CurrentIsKept DEF TypeOK, Init
<1>9. OrderKept
  BY <1>2, <1>3, <1>7, SameSchedule DEF OrderKept, Init, Working
<1>10. Held = {} /\ Needed = {}
  BY <1>3 DEF Held, Needed, Init
<1>11. HeldAsNeeded /\ HandleIntegrity /\ OperandsFit /\ NeverBootsUnmasked
  BY <1>10 DEF HeldAsNeeded, HandleIntegrity, OperandsFit, NeverBootsUnmasked, Made, Init
<1>12. BasesKept
  BY DEF BasesKept, Init
<1>13. QED BY <1>6, <1>8, <1>9, <1>11, <1>12 DEF IInv

(* A step that evaluates nothing, holds the same nodes and leaves the      *)
(* bases keeps what the invariant says of both.                            *)
LEMMA ViewStays ==
  ASSUME HeldAsNeeded, BasesKept, UNCHANGED <<program, schedule, options, bases>>,
         Held' = Held, Made' <=> Made, Made => current' = current
  PROVE  HeldAsNeeded' /\ BasesKept'
<1>1. /\ program' = program /\ live' = live /\ done' = done /\ options' = options
      /\ bases' = bases
  BY DEF schedule
<1>2. /\ Needed' = Needed
      /\ Made => \A m : LastAwaited(m)' <=> LastAwaited(m)
  BY <1>1 DEF Needed, Awaits, LastAwaited
<1>3. HeldAsNeeded'
  <2>1. CASE Made
    BY <1>1, <1>2, <2>1, Zenon DEF HeldAsNeeded
  <2>2. CASE ~ Made
    BY <1>2, <2>2, Zenon DEF HeldAsNeeded
  <2>3. QED BY <2>1, <2>2
<1>4. \A k : SharingGroup(k)' = SharingGroup(k)
  BY <1>1 DEF SharingGroup
<1>5. BasesKept'
  BY <1>1, <1>4, Zenon DEF BasesKept
<1>6. QED BY <1>3, <1>5

(* So does a step that leaves the values as well.                          *)
LEMMA StoreStays ==
  ASSUME HeldAsNeeded, HandleIntegrity, BasesKept, NeverBootsUnmasked,
         UNCHANGED <<program, schedule, options, store, bases, unmasked>>,
         ~ Made, ~ Made'
  PROVE  HeldAsNeeded' /\ HandleIntegrity' /\ BasesKept' /\ NeverBootsUnmasked'
<1>1. program' = program /\ values' = values /\ heap' = heap /\ unmasked' = unmasked
  BY DEF store
<1>2. Held' = Held
  BY <1>1 DEF Held
<1>3. QED
  BY <1>1, <1>2, ViewStays DEF HandleIntegrity, NeverBootsUnmasked

(* The search keeps the prediction current, and where it stops no hoist    *)
(* above a branch pays; dropping the hoists predicts again.                *)
LEMMA PlanStep ==
  ASSUME IInv, Plan
  PROVE  IInv'
<1>1. /\ TypeOK /\ PlanKept /\ OrderKept /\ HeldAsNeeded /\ HandleIntegrity
      /\ OperandsFit /\ BasesKept /\ NeverBootsUnmasked
  BY DEF IInv
<1>2. /\ phase = "planning" /\ phase' \in {"planning", "idle"}
      /\ UNCHANGED <<program, schedule, options, current, operand, store, bases,
                     refreshes, unmasked, deepest>>
  BY DEF Plan
<1>3. WellFormed(program) /\ Cost(program) \in [Nodes(program) -> Int]
  BY <1>1, BootFits, PolicyAssumption DEF TypeOK
<1>4. Current(program, plan) /\ LocallyOptimal /\ (options.frontier => ~ stopped)
  BY <1>1, CurrentIsKept DEF TypeOK, PlanKept
<1>5. Current(program, plan') /\ (LocallyOptimal /\ (options.frontier => ~ stopped))'
  <2>1. CASE options.frontier
    <3>1. plan' = Unhoisted(program) /\ stopped' = stopped
      BY <2>1 DEF Plan
    <3>2. QED BY <1>2, <1>3, <1>4, <2>1, <3>1, UnhoistedIsCurrent DEF LocallyOptimal
  <2>2. CASE ~ options.frontier /\ (stopped \/ pass = Passes)
    <3>1. plan' = plan /\ stopped' = stopped
      BY <2>2 DEF Plan
    <3>2. QED BY <1>2, <1>4, <2>2, <3>1 DEF LocallyOptimal
  <2>3. CASE ~ options.frontier /\ ~ (stopped \/ pass = Passes)
    <3>1. Sweep
      BY <2>3 DEF Plan
    <3>2. /\ plan' = SearchPass(program, plan)
          /\ stopped' = (plan'.hoists = plan.hoists)
      BY <3>1 DEF Sweep
    <3>3. /\ Current(program, plan')
          /\ plan'.hoists = plan.hoists =>
               plan' = plan /\ \A n \in Nodes(program) : ~ Pays(program, plan, n)
      BY <1>3, <1>4, <3>2, SearchPassIsCurrent
    <3>4. ASSUME stopped', NEW n \in plan'.live \ plan'.hoists,
                 Cardinality(LiveUses(program', plan'.live, n)) > 1
          PROVE  Simulate(program', Hoisted(plan', n)).refreshes >= plan'.refreshes
      <4>1. plan' = plan /\ \A k \in Nodes(program) : ~ Pays(program, plan, k)
        BY <3>2, <3>3, <3>4
      <4>2. Simulate(program, Hoisted(plan, n)).refreshes >= plan.refreshes
        BY <1>2, <1>3, <1>4, <3>4, <4>1, NoGainLeft
      <4>3. QED BY <1>2, <4>1, <4>2
    <3>5. LocallyOptimal'
      BY <3>4 DEF LocallyOptimal
    <3>6. QED BY <1>2, <2>3, <3>3, <3>5
  <2>4. QED BY <2>1, <2>2, <2>3
<1>6. (plan \in Plans(program) /\ plan.cost = Cost(program) /\ PredictionCurrent)'
  BY <1>2, <1>5 DEF Current, PredictionCurrent
<1>7. TypeOK'
  BY <1>1, <1>2, <1>6 DEF TypeOK, store
<1>8. PlanKept'
  BY <1>5, <1>6 DEF PlanKept
<1>9. OrderKept'
  BY <1>1, <1>2, OrderStays DEF Working
<1>10. HeldAsNeeded' /\ HandleIntegrity' /\ BasesKept' /\ NeverBootsUnmasked'
  BY <1>1, <1>2, StoreStays DEF Made
<1>11. OperandsFit'
  BY <1>2 DEF OperandsFit
<1>12. QED BY <1>7, <1>8, <1>9, <1>10, <1>11 DEF IInv

(* The node picked is unevaluated, and ready or the first in file order.   *)
LEMMA BeginStep ==
  ASSUME IInv, Begin
  PROVE  IInv'
<1>1. /\ TypeOK /\ PlanKept /\ OrderKept /\ HeldAsNeeded /\ HandleIntegrity
      /\ OperandsFit /\ BasesKept /\ NeverBootsUnmasked
  BY DEF IInv
<1>2. /\ phase = "idle" /\ phase' = "operands" /\ live \ done # {}
      /\ current' = Pick /\ operand' = 1
      /\ UNCHANGED <<program, schedule, options, planning, store, bases, refreshes,
                     unmasked, deepest>>
  BY DEF Begin
<1>3. /\ live \subseteq Nodes(program) /\ Nodes(program) \subseteq Nat
      /\ WellFormed(program)
  BY <1>1, OrderFacts
<1>4. /\ current' \in live \ done
      /\ IF options.frontier THEN current' \in ready ELSE \A n \in live \ done : current' <= n
  <2>1. CASE options.frontier
    <3>1. SP!IInv
      BY <1>1, <2>1, SameSchedule DEF OrderKept
    <3>2. ready # {}
      BY <1>2, <3>1, SameAssumption, SP!ReadyExists DEF SP!Unfinished
    <3>3. ready \subseteq live \ done
      BY <3>1 DEF SP!IInv, SP!FrontierExact, SP!Unfinished
    <3> DEFINE S == IF {n \in ready : Fits(n)} # {} THEN {n \in ready : Fits(n)} ELSE ready
    <3>4. current' = Min(S)
      BY <1>2, <2>1 DEF Pick
    <3>5. S \subseteq Nat /\ S # {} /\ S \subseteq ready
      BY <1>3, <3>2, <3>3
    <3> HIDE DEF S
    <3>6. QED BY <2>1, <3>3, <3>4, <3>5, MinFact
  <2>2. CASE ~ options.frontier
    <3>1. current' = Min(live \ done)
      BY <1>2, <2>2 DEF Pick
    <3>2. live \ done \subseteq Nat
      BY <1>3
    <3>3. QED BY <1>2, <2>2, <3>1, <3>2, MinFact
  <2>3. QED BY <2>1, <2>2
<1>5. TypeOK'
  BY <1>1, <1>2 DEF TypeOK, store, planning
<1>6. PlanKept'
  BY <1>1, <1>2 DEF PlanKept, PredictionCurrent, LocallyOptimal, planning
<1>7. OrderKept'
  <2>1. options.frontier => Schedule!IInv'
    BY <1>1, <1>2, ScheduleKept DEF OrderKept
  <2>2. /\ live' = live /\ done' = done /\ stalled' = stalled /\ ready' = ready
        /\ program' = program /\ options' = options
    BY <1>2 DEF schedule
  <2>3. QED BY <1>1, <1>4, <2>1, <2>2 DEF OrderKept
<1>8. HeldAsNeeded' /\ HandleIntegrity' /\ BasesKept' /\ NeverBootsUnmasked'
  BY <1>1, <1>2, StoreStays DEF Made
<1>9. OperandsFit'
  <2>1. \A k \in DOMAIN program.parents[current'] : ~ (k < 1)
    BY <1>3, <1>4 DEF WellFormed
  <2>2. QED BY <1>2, <2>1 DEF OperandsFit
<1>10. QED BY <1>5, <1>6, <1>7, <1>8, <1>9 DEF IInv

-----------------------------------------------------------------------------
(* Refreshes of an operand and of a new value.                             *)

(* A refresh of a held value keeps types, values and masks, and leaves     *)
(* every level as it was or at the bootstrap's.                            *)
LEMMA RefreshInvariant ==
  ASSUME TypeOK, HandleIntegrity, NeverBootsUnmasked,
         NEW requested \in Held, NEW from, NEW level \in BootLevels,
         RefreshValue(requested, from, level),
         UNCHANGED <<program, options, planning, bases>>,
         phase' \in {"operands", "hoisted"}, operand' \in Nat \ {0}
  PROVE  /\ TypeOK' /\ HandleIntegrity' /\ NeverBootsUnmasked' /\ Held' = Held
         /\ \A m \in Held : Level(m)' \in {Level(m), level}
         /\ Level(requested)' = level
<1>1. /\ program' = program /\ options' = options /\ plan' = plan /\ bases' = bases
      /\ requested \in Nodes(program) /\ values[requested] # Null
  BY DEF planning, Held
<1>2. /\ heap' \in Heaps
      /\ values' \in [Nodes(program) -> 0 .. Len(heap')]
      /\ \A m \in Nodes(program) : values'[m] = Null <=> values[m] = Null
      /\ \A m \in Nodes(program) : values[m] # Null =>
           /\ heap'[values'[m]].root = heap[values[m]].root
           /\ heap'[values'[m]].level \in {heap[values[m]].level, level}
      /\ heap'[values'[requested]].level = level
      /\ dirty' \subseteq dirty
      /\ ~ unmasked => ~ unmasked'
      /\ deepest' \in 0 .. Depth
  BY <1>1, RefreshKeeps
<1>3. Held' = Held
  BY <1>1, <1>2 DEF Held
<1>4. TypeOK'
  BY <1>1, <1>2 DEF TypeOK, Heaps
<1>5. HandleIntegrity'
  BY <1>1, <1>2, <1>3 DEF HandleIntegrity, Held
<1>6. Max({0, level}) = level
  <2>1. level \in 0 .. Ceiling /\ Ceiling \in Nat
    BY BootFits, PolicyAssumption
  <2>2. QED BY <2>1, MaxOfTwo
<1>7. \A m \in Held : Level(m)' \in {Level(m), level}
  BY <1>2, <1>6 DEF Held, Level
<1>8. Level(requested)' = level
  BY <1>2, <1>6 DEF Level
<1>9. QED BY <1>2, <1>3, <1>4, <1>5, <1>7, <1>8 DEF NeverBootsUnmasked

(* Refreshing the first late operand: it and every operand before it fit.  *)
LEMMA RefreshOperandStep ==
  ASSUME IInv, NEW level \in BootLevels, RefreshOperand(level)
  PROVE  IInv'
<1>1. /\ TypeOK /\ PlanKept /\ OrderKept /\ HeldAsNeeded /\ HandleIntegrity
      /\ OperandsFit /\ BasesKept /\ NeverBootsUnmasked
  BY DEF IInv
<1>0. PICK k, m, ops, cost : /\ k = Min(LateOperands) /\ m = ops[k]
                             /\ ops = program.parents[current]
                             /\ cost = plan.cost[current]
  OBVIOUS
<1>2. /\ phase = "operands" /\ LateOperands # {}
      /\ RefreshValue(m, current, level) /\ operand' = k + 1
      /\ UNCHANGED <<program, schedule, options, planning, phase, current, bases>>
  BY <1>0 DEF RefreshOperand
<1>3. /\ WellFormed(program) /\ program \in Programs /\ plan.cost = Cost(program)
      /\ operand \in Nat \ {0} /\ values \in [Nodes(program) -> 0 .. Len(heap)]
      /\ heap \in Heaps
  BY <1>1, OrderFacts DEF TypeOK, Heaps
<1>4. /\ current \in Nodes(program)
      /\ \A n \in ParentsOf(program, current) : n \in Held
  <2>1. Working /\ ~ Made
    BY <1>2 DEF Working, Made
  <2>2. QED BY <1>1, <2>1, OperandsNeeded DEF HeldAsNeeded
<1>5. /\ LateOperands \subseteq Nat /\ LateOperands \subseteq DOMAIN ops
      /\ DOMAIN ops \subseteq Nat
      /\ \A j \in DOMAIN ops : ops[j] \in ParentsOf(program, current)
      /\ \A j \in DOMAIN ops :
           j >= operand /\ j \notin LateOperands /\ program.op[current] # "feedback"
             => ~ (Level(ops[j]) + cost > Ceiling)
  <2>1. ops \in Seq(Nodes(program))
    BY <1>0, <1>3, <1>4 DEF WellFormed
  <2>2. DOMAIN ops = 1 .. Len(ops)
    BY <2>1
  <2>3. Len(ops) \in Nat
    BY <2>1
  <2> DEFINE N == Len(ops)
  <2> HIDE DEF N
  <2>4. LateOperands \subseteq operand .. N
    BY <1>0 DEF LateOperands, N
  <2>5. operand .. N \subseteq Nat /\ operand .. N \subseteq 1 .. N
    BY <1>3, <2>3 DEF N
  <2>6. \A j \in 1 .. N : j >= operand => j \in operand .. N
    BY <1>3, <2>3 DEF N
  <2>7. \A j \in DOMAIN ops : ops[j] \in ParentsOf(program, current)
    BY <1>0 DEF ParentsOf
  <2>8. QED BY <1>0, <2>2, <2>4, <2>5, <2>6, <2>7 DEF LateOperands, N
<1>6. k \in LateOperands /\ \A j \in LateOperands : k <= j
  BY <1>0, <1>2, <1>5, MinFact
<1>7. k \in Nat /\ k \in DOMAIN ops
  BY <1>5, <1>6
<1>8. m \in Held
  BY <1>0, <1>4, <1>5, <1>7
<1>9. operand' \in Nat \ {0}
  BY <1>2, <1>7
<1>10. /\ TypeOK' /\ HandleIntegrity' /\ NeverBootsUnmasked' /\ Held' = Held
       /\ \A n \in Held : Level(n)' \in {Level(n), level}
       /\ Level(m)' = level
  <2>1. UNCHANGED <<program, options, planning, bases>> /\ phase' = "operands"
    BY <1>2
  <2>2. QED BY <1>1, <1>2, <1>8, <1>9, <2>1, RefreshInvariant
<1>11. level + cost <= Ceiling /\ level \in Int /\ cost \in Int /\ Ceiling \in Int
  <2>1. Cost(program)[current] \in 0 .. Ceiling
    BY <1>3, <1>4, BootFits
  <2>2. QED BY <1>0, <1>3, <1>4, <2>1, BootFits, PolicyAssumption
<1>12. PlanKept'
  BY <1>1, <1>2 DEF PlanKept, PredictionCurrent, LocallyOptimal, planning
<1>13. OrderKept'
  BY <1>1, <1>2, OrderStays DEF Working
<1>14. HeldAsNeeded' /\ BasesKept'
  BY <1>1, <1>2, <1>10, ViewStays DEF Made
<1>15. ASSUME program.op[current] # "feedback",
              NEW j \in DOMAIN ops, j < k + 1
       PROVE  Level(ops[j])' + cost <= Ceiling
  <2>1. ops[j] \in Held
    BY <1>4, <1>5
  <2>2. Level(ops[j])' \in {Level(ops[j]), level}
    BY <1>10, <2>1
  <2>3. CASE Level(ops[j])' = level
    BY <1>11, <2>3
  <2>4. CASE Level(ops[j])' # level
    <3>1. j \in Nat /\ j # k
      BY <1>0, <1>5, <1>10, <2>4
    <3>2. j < k /\ j \notin LateOperands
      BY <1>5, <1>6, <1>7, <1>15, <3>1
    <3>3. Level(ops[j]) + cost <= Ceiling
      <4>1. CASE j < operand
        BY <1>0, <1>1, <1>2, <1>15, <4>1 DEF OperandsFit
      <4>2. CASE ~ (j < operand)
        <5>1. ~ (Level(ops[j]) + cost > Ceiling)
          BY <1>3, <1>5, <1>15, <3>1, <3>2, <4>2
        <5>2. Level(ops[j]) \in Int
          <6>1. values[ops[j]] \in 1 .. Len(heap)
            BY <1>3, <2>1 DEF Held, Null, Heaps
          <6>2. Level(ops[j]) \in 0 .. Ceiling
            BY <1>3, <6>1, LevelMeaning
          <6>3. QED BY <6>2
        <5>3. QED BY <1>11, <5>1, <5>2
      <4>3. QED BY <4>1, <4>2
    <3>4. QED BY <2>2, <2>4, <3>3
  <2>5. QED BY <2>3, <2>4
<1>16. OperandsFit'
  <2>1. current' = current /\ program' = program /\ plan' = plan /\ operand' = k + 1
    BY <1>2 DEF planning
  <2>2. \A j \in DOMAIN ops :
          j < k + 1 /\ program.op[current] # "feedback" => Level(ops[j])' + cost <= Ceiling
    BY <1>15
  <2>3. ops = program'.parents[current'] /\ cost = plan'.cost[current']
    BY <1>0, <2>1
  <2>4. QED BY <2>1, <2>2, <2>3 DEF OperandsFit
<1>17. QED BY <1>10, <1>12, <1>13, <1>14, <1>16 DEF IInv

(* A hoisted refresh of the node just made.                                *)
LEMMA HoistRefreshStep ==
  ASSUME IInv, NEW level \in BootLevels, HoistRefresh(level)
  PROVE  IInv'
<1>1. /\ TypeOK /\ PlanKept /\ OrderKept /\ HeldAsNeeded /\ HandleIntegrity
      /\ OperandsFit /\ BasesKept /\ NeverBootsUnmasked
  BY DEF IInv
<1>2. PICK c : c = current
  OBVIOUS
<1>3. /\ phase = "produced" /\ phase' = "hoisted" /\ RefreshValue(c, c + 1, level)
      /\ UNCHANGED <<program, schedule, options, planning, current, operand, bases>>
  BY <1>2 DEF HoistRefresh
<1>4. c \in Held /\ operand \in Nat \ {0}
  BY <1>1, <1>2, <1>3 DEF HeldAsNeeded, Made, TypeOK
<1>5. TypeOK' /\ HandleIntegrity' /\ NeverBootsUnmasked' /\ Held' = Held
  <2>1. UNCHANGED <<program, options, planning, bases>> /\ operand' \in Nat \ {0}
    BY <1>3, <1>4
  <2>2. QED BY <1>1, <1>3, <1>4, <2>1, RefreshInvariant
<1>6. PlanKept'
  BY <1>1, <1>3 DEF PlanKept, PredictionCurrent, LocallyOptimal, planning
<1>7. OrderKept'
  BY <1>1, <1>3, OrderStays DEF Working
<1>8. HeldAsNeeded' /\ BasesKept'
  BY <1>1, <1>3, <1>5, ViewStays DEF Made
<1>9. OperandsFit'
  BY <1>3 DEF OperandsFit
<1>10. QED BY <1>5, <1>6, <1>7, <1>8, <1>9 DEF IInv

-----------------------------------------------------------------------------
(* The operation itself.                                                   *)

(* An operation spends at most what the plan counts for it.                *)
LEMMA SpentMeaning ==
  ASSUME TypeOK, OrderKept, NEW n \in Nodes(program)
  PROVE  Spent(n) \in 0 .. plan.cost[n]
<1> DEFINE s == program.spent[n]
           c == plan.cost[n]
<1>1. s \in Nat
  <2>1. Annotated(program)
    BY OrderFacts
  <2>2. QED BY <2>1 DEF Annotated
<1>2. c \in Nat
  <2>1. program \in Programs /\ plan.cost = Cost(program)
    BY OrderFacts DEF TypeOK
  <2>2. Cost(program) \in [Nodes(program) -> 0 .. Ceiling]
    BY <2>1, BootFits
  <2>3. Cost(program)[n] \in 0 .. Ceiling
    BY <2>2
  <2>4. QED BY <2>1, <2>3, PolicyAssumption
<1>3. Spent(n) = IF s < c THEN s ELSE c
  BY DEF Spent
<1> HIDE DEF s, c
<1>4. QED BY <1>1, <1>2, <1>3 DEF c

(* Once no operand is late, every operand is held and leaves room.         *)
LEMMA OperandsReady ==
  ASSUME IInv, phase = "operands", LateOperands = {}
  PROVE  /\ current \in live \ done /\ current \in Nodes(program)
         /\ plan.cost[current] \in 0 .. Ceiling
         /\ \A m \in ParentsOf(program, current) :
              /\ m \in Nodes(program) /\ m \in Needed /\ m # current
              /\ values[m] \in 1 .. Len(heap)
              /\ heap[values[m]].root = Root(program, m)
              /\ heap[values[m]].level \in -1 .. Ceiling
              /\ program.op[current] # "feedback" =>
                   /\ Level(m) + plan.cost[current] <= Ceiling
                   /\ heap[values[m]].level + plan.cost[current] \in -1 .. Ceiling
                   /\ heap[values[m]].level + Spent(current) \in -1 .. Ceiling
<1>1. /\ TypeOK /\ OrderKept /\ HeldAsNeeded /\ HandleIntegrity /\ OperandsFit
      /\ WellFormed(program) /\ program \in Programs /\ plan.cost = Cost(program)
      /\ operand \in Nat \ {0} /\ values \in [Nodes(program) -> 0 .. Len(heap)]
      /\ heap \in Heaps /\ live \subseteq Nodes(program)
  BY OrderFacts DEF IInv, TypeOK, Heaps
<1>2. /\ current \in live \ done /\ current \in Nodes(program)
      /\ \A m \in ParentsOf(program, current) :
           m \in live \cap done /\ m # current /\ m \in Needed
      /\ Held = Needed
  <2>1. Working /\ ~ Made
    BY DEF Working, Made
  <2>2. QED BY <1>1, <2>1, OperandsNeeded DEF HeldAsNeeded
<1>3. plan.cost[current] \in 0 .. Ceiling /\ Ceiling \in Nat
  BY <1>1, <1>2, BootFits, PolicyAssumption
<1>4. ASSUME NEW m \in ParentsOf(program, current)
      PROVE  /\ values[m] \in 1 .. Len(heap)
             /\ heap[values[m]].root = Root(program, m)
             /\ heap[values[m]].level \in -1 .. Ceiling
             /\ Level(m) \in 0 .. Ceiling
             /\ Level(m) = IF heap[values[m]].level = -1 THEN 0 ELSE heap[values[m]].level
  <2>1. m \in Held /\ m \in Nodes(program)
    BY <1>1, <1>2
  <2>2. values[m] \in 1 .. Len(heap)
    BY <1>1, <2>1 DEF Held, Null, Heaps
  <2>3. QED BY <1>1, <2>1, <2>2, LevelMeaning DEF HandleIntegrity
<1>5. ASSUME NEW m \in ParentsOf(program, current), program.op[current] # "feedback"
      PROVE  Level(m) + plan.cost[current] <= Ceiling
  <2>1. PICK k \in DOMAIN program.parents[current] : m = program.parents[current][k]
    BY DEF ParentsOf
  <2>2. program.parents[current] \in Seq(Nodes(program))
    BY <1>1, <1>2 DEF WellFormed
  <2>3. k \in 1 .. Len(program.parents[current])
    BY <2>1, <2>2
  <2>4. CASE k < operand
    BY <1>1, <1>5, <2>1, <2>4 DEF OperandsFit
  <2>5. CASE ~ (k < operand)
    <3>1. k \in operand .. Len(program.parents[current])
      BY <1>1, <2>2, <2>3, <2>5
    <3>2. ~ (Level(m) + plan.cost[current] > Ceiling)
      BY <1>5, <2>1, <3>1 DEF LateOperands
    <3> DEFINE l == Level(m)
    <3>3. l \in Int
      BY <1>4
    <3> HIDE DEF l
    <3>4. QED BY <1>3, <3>2, <3>3 DEF l
  <2>6. QED BY <2>4, <2>5
<1>6. ASSUME NEW m \in ParentsOf(program, current), program.op[current] # "feedback"
      PROVE  /\ heap[values[m]].level + plan.cost[current] \in -1 .. Ceiling
             /\ heap[values[m]].level + Spent(current) \in -1 .. Ceiling
  <2> DEFINE l == heap[values[m]].level
             v == Level(m)
             c == plan.cost[current]
             s == Spent(current)
  <2>1. l \in -1 .. Ceiling /\ v = (IF l = -1 THEN 0 ELSE l) /\ v + c <= Ceiling
        /\ c \in 0 .. Ceiling
    BY <1>3, <1>4, <1>5, <1>6
  <2>2. s \in 0 .. c
    BY <1>1, <1>2, SpentMeaning
  <2> HIDE DEF l, v, c, s
  <2>3. l + c \in -1 .. Ceiling /\ l + s \in -1 .. Ceiling
    BY <1>3, <2>1, <2>2
  <2>4. QED BY <2>3 DEF l, c, s
<1>7. QED BY <1>1, <1>2, <1>3, <1>4, <1>5, <1>6

(* What an operation does to the store: the result holds the value of the  *)
(* current node, and only operands nobody else awaits are given up.        *)
Places(vals) ==
  /\ heap' \in Heaps
  /\ values' \in [Nodes(program) -> 0 .. Len(heap')]
  /\ values'[current] # Null
  /\ heap'[values'[current]].root = Root(program, current)
  /\ \A n \in Nodes(program) \ {current} :
       /\ values'[n] = Null <=> vals[n] = Null
       /\ vals[n] # Null => values[n] # Null /\ heap'[values'[n]] = heap[values[n]]
       /\ vals[n] = Null /\ values[n] # Null =>
            n \in ParentsOf(program, current) /\ LastAwaited(n)

(* No other value is lost sight of: what stays held stays as it was.       *)
LeavesOthers ==
  \A n \in Nodes(program) \ {current} :
    values'[n] # Null => values[n] # Null /\ heap'[values'[n]] = heap[values[n]]

(* Such an operation keeps the handles and what is held.                   *)
LEMMA PlacesKeeps ==
  ASSUME TypeOK, OrderKept, HeldAsNeeded, HandleIntegrity, phase = "operands",
         phase' = "produced", UNCHANGED <<program, schedule, options, current>>,
         NEW vals, Places(vals)
  PROVE  HeldAsNeeded' /\ HandleIntegrity'
<1>1. /\ current \in live \ done /\ current \in Nodes(program) /\ Held = Needed
  <2>1. Working /\ ~ Made
    BY DEF Working, Made
  <2>2. QED BY <2>1, OperandsNeeded DEF HeldAsNeeded
<1>2. /\ program' = program /\ live' = live /\ done' = done /\ current' = current
  BY DEF schedule
<1>3. Needed' = Needed /\ \A m : LastAwaited(m)' <=> LastAwaited(m)
  BY <1>2 DEF Needed, Awaits, LastAwaited
<1>4. current \in Held' /\ Held' \ {current} \subseteq Held
  BY <1>1, <1>2 DEF Held, Places
<1>5. \A m \in Held \ Held' : m \in ParentsOf(program, current) /\ LastAwaited(m)
  BY <1>1, <1>2 DEF Held, Places
<1>6. HeldAsNeeded'
  <2>1. Made'
    BY DEF Made
  <2>2. (/\ current \in Held /\ Held \ {current} \subseteq Needed
         /\ \A m \in Needed \ Held : m \in ParentsOf(program, current) /\ LastAwaited(m))'
    BY <1>1, <1>2, <1>3, <1>4, <1>5, Zenon
  <2>3. QED BY <2>1, <2>2 DEF HeldAsNeeded
<1>7. HandleIntegrity'
  <2>1. \A n \in Held' : heap'[values'[n]].root = Root(program, n)
    <3> TAKE n \in Held'
    <3>1. CASE n = current
      BY <3>1 DEF Places
    <3>2. CASE n # current
      <4>1. n \in Nodes(program) \ {current} /\ n \in Held /\ values'[n] # Null
        BY <1>2, <1>4, <3>2 DEF Held
      <4>2. heap'[values'[n]] = heap[values[n]]
        BY <4>1 DEF Places
      <4>3. QED BY <4>1, <4>2 DEF HandleIntegrity
    <3>3. QED BY <3>1, <3>2
  <2>2. QED BY <1>2, <2>1 DEF HandleIntegrity
<1>8. QED BY <1>6, <1>7

(* The values after operands were given up: only operands that nobody else *)
(* awaits.                                                                 *)
GivesUp(vals) ==
  /\ vals \in [Nodes(program) -> 0 .. Len(heap)]
  /\ \A n \in Nodes(program) \ {current} :
       \/ vals[n] = values[n]
       \/ vals[n] = Null /\ n \in ParentsOf(program, current) /\ LastAwaited(n)

(* A result in a new ciphertext, or in one that no node holds any more.    *)
LEMMA StoredPlaces ==
  ASSUME heap \in Heaps, current \in Nodes(program), Root(program, current) = current,
         NEW vals, GivesUp(vals), NEW level \in -1 .. Ceiling,
         \/ Stored(vals, level)
         \/ \E handle \in 1 .. Len(heap) :
              StoredIn(vals, handle, level) /\ \A n \in Nodes(program) : vals[n] # handle
  PROVE  Places(vals) /\ heap'[values'[current]].level = level
<1> DEFINE T == [root : Nodes(program), level : -1 .. Ceiling]
           r == [root |-> current, level |-> level]
           L == Len(heap)
<1>1. /\ heap \in Seq(T) /\ r \in T /\ L \in Nat
      /\ vals \in [Nodes(program) -> 0 .. L] /\ r.root = Root(program, current)
      /\ r.level = level
  BY DEF Heaps, GivesUp
<1> HIDE DEF T, r
<1>2. CASE Stored(vals, level)
  <2>1. heap' = Append(heap, r) /\ values' = [vals EXCEPT ![current] = L + 1]
    BY <1>2 DEF Stored, r
  <2>2. /\ heap' \in Seq(T) /\ Len(heap') = L + 1
        /\ heap'[L + 1] = r /\ \A i \in 1 .. L : heap'[i] = heap[i]
    BY <1>1, <2>1
  <2> HIDE DEF L
  <2>3. /\ values'[current] = L + 1
        /\ \A n \in Nodes(program) \ {current} : values'[n] = vals[n]
        /\ values' \in [Nodes(program) -> 0 .. L + 1]
    <3>1. L + 1 \in 0 .. L + 1 /\ 0 .. L \subseteq 0 .. L + 1
      BY <1>1
    <3>2. QED BY <1>1, <2>1, <3>1
  <2>4. L + 1 # Null
    BY <1>1 DEF Null
  <2>5. \A n \in Nodes(program) : vals[n] # Null => vals[n] \in 1 .. L
    BY <1>1 DEF Null
  <2>6. \A n \in Nodes(program) \ {current} : vals[n] # Null =>
          values[n] = vals[n] /\ heap'[values'[n]] = heap[values[n]]
    BY <2>2, <2>3, <2>5 DEF GivesUp
  <2>7. QED BY <1>1, <2>2, <2>3, <2>4, <2>6 DEF Places, Heaps, T, GivesUp
<1>3. CASE \E handle \in 1 .. L :
             StoredIn(vals, handle, level) /\ \A n \in Nodes(program) : vals[n] # handle
  <2>0. PICK h \in 1 .. L : StoredIn(vals, h, level) /\ \A n \in Nodes(program) : vals[n] # h
    BY <1>3
  <2>1. heap' = [heap EXCEPT ![h] = r] /\ values' = [vals EXCEPT ![current] = h]
    BY <2>0 DEF StoredIn, r
  <2>2. /\ heap' \in Seq(T) /\ Len(heap') = L
        /\ heap'[h] = r /\ \A i \in 1 .. L : i # h => heap'[i] = heap[i]
    BY <1>1, <2>0, <2>1
  <2> HIDE DEF L
  <2>3. /\ values'[current] = h
        /\ \A n \in Nodes(program) \ {current} : values'[n] = vals[n]
        /\ values' \in [Nodes(program) -> 0 .. L]
    <3>1. h \in 0 .. L
      BY <1>1, <2>0
    <3>2. QED BY <1>1, <2>1, <3>1
  <2>4. h # Null
    BY <1>1, <2>0 DEF Null
  <2>5. \A n \in Nodes(program) : vals[n] # Null => vals[n] \in 1 .. L /\ vals[n] # h
    BY <1>1, <2>0 DEF Null
  <2>6. \A n \in Nodes(program) \ {current} : vals[n] # Null =>
          values[n] = vals[n] /\ heap'[values'[n]] = heap[values[n]]
    BY <2>2, <2>3, <2>5 DEF GivesUp
  <2>7. QED BY <1>1, <2>2, <2>3, <2>4, <2>6 DEF Places, Heaps, T, GivesUp
<1>4. QED BY <1>2, <1>3

(* A handle with a use count of one has one holder.                        *)
LEMMA SoleHolder ==
  ASSUME WellFormed(program), NEW vals, NEW m \in Nodes(program), UseCount(vals, vals[m]) = 1
  PROVE  \A n \in Nodes(program) : n # m => vals[n] # vals[m]
<1> DEFINE S == {n \in Nodes(program) : vals[n] = vals[m]}
<1>1. IsFiniteSet(S)
  BY EdgesFinite, FS_Subset
<1>2. Cardinality(S) = 1
  BY DEF UseCount
<1>3. PICK x : S = {x}
  <2> HIDE DEF S
  <2>1. QED BY <1>1, <1>2, FS_Singleton
<1>4. m \in S
  OBVIOUS
<1>5. QED BY <1>3, <1>4

(* Operations other than a Chebyshev node leave every basis its member.    *)
LEMMA BasesUntouched ==
  ASSUME BasesKept, UNCHANGED <<program, schedule, options, current, bases>>,
         ~ Made, \A k \in live : program.op[k] = "cheb" /\ bases[k] # NoBasis =>
                   current \notin SharingGroup(k)
  PROVE  BasesKept'
<1>1. /\ program' = program /\ live' = live /\ done' = done /\ options' = options
      /\ bases' = bases /\ current' = current
  BY DEF schedule
<1>2. \A k : SharingGroup(k)' = SharingGroup(k)
  BY <1>1 DEF SharingGroup
<1>3. ASSUME NEW k \in Nodes(program), bases[k] # NoBasis
      PROVE  \E m \in SharingGroup(k) : m \notin done /\ m # current
  BY <1>3 DEF BasesKept
<1>4. QED BY <1>1, <1>2, <1>3, Zenon DEF BasesKept

(* An operation that places its result, masks what it must and keeps the   *)
(* bases keeps the invariant.                                              *)
LEMMA ApplyKeeps ==
  ASSUME IInv, Apply, NEW vals, Places(vals),
         dirty' \subseteq DeferredMask(program), ~ unmasked',
         DOMAIN bases' = Nodes(program), BasesKept'
  PROVE  IInv' /\ LeavesOthers
<1>1. /\ TypeOK /\ PlanKept /\ OrderKept /\ HeldAsNeeded /\ HandleIntegrity
      /\ OperandsFit /\ BasesKept /\ NeverBootsUnmasked
  BY DEF IInv
<1>2. /\ phase = "operands" /\ phase' = "produced"
      /\ deepest' = Max({deepest, heap'[values'[current]].level})
      /\ UNCHANGED <<program, schedule, options, planning, current, operand>>
  BY DEF Apply
<1>3. current \in Nodes(program)
  BY <1>1, <1>2, OperandsNeeded DEF Working
<1>4. deepest' \in 0 .. Depth
  <2>1. values'[current] \in 1 .. Len(heap') /\ heap' \in Heaps
    BY <1>3 DEF Places, Null, Heaps
  <2>2. heap'[values'[current]] \in [root : Nodes(program), level : -1 .. Ceiling]
    BY <2>1, SeqElement DEF Heaps
  <2> DEFINE l == heap'[values'[current]].level
  <2>3. l \in -1 .. Ceiling /\ deepest \in 0 .. Depth /\ Ceiling \in Nat /\ Depth \in Nat
        /\ Ceiling + 4 <= Depth
    BY <1>1, <2>2, PolicyAssumption, ExecutorAssumption DEF TypeOK
  <2>4. deepest' = Max({deepest, l})
    BY <1>2
  <2> HIDE DEF l
  <2>5. deepest' = IF deepest <= l THEN l ELSE deepest
    BY <2>3, <2>4, MaxOfTwo
  <2>6. QED BY <2>3, <2>5
<1>5. TypeOK'
  BY <1>1, <1>2, <1>4 DEF TypeOK, planning, Places, Heaps
<1>6. PlanKept'
  BY <1>1, <1>2 DEF PlanKept, PredictionCurrent, LocallyOptimal, planning
<1>7. OrderKept'
  BY <1>1, <1>2, OrderStays DEF Working
<1>8. HeldAsNeeded' /\ HandleIntegrity'
  BY <1>1, <1>2, PlacesKeeps
<1>9. OperandsFit'
  BY <1>2 DEF OperandsFit
<1>10. LeavesOthers
  BY DEF LeavesOthers, Places
<1>11. QED BY <1>5, <1>6, <1>7, <1>8, <1>9, <1>10 DEF IInv, NeverBootsUnmasked

(* Before an operation: its operands, and the root of its result.          *)
LEMMA BeforeApply ==
  ASSUME IInv, Apply
  PROVE  /\ phase = "operands" /\ LateOperands = {} /\ ~ Made /\ ~ unmasked
         /\ UNCHANGED <<program, schedule, options, planning, current, operand>>
         /\ WellFormed(program) /\ heap \in Heaps /\ BasesKept
         /\ values \in [Nodes(program) -> 0 .. Len(heap)] /\ GivesUp(values)
         /\ dirty \subseteq DeferredMask(program) /\ DOMAIN bases = Nodes(program)
         /\ current \in Nodes(program) /\ Ceiling \in Nat
         /\ \A k \in 1 .. Arity(program.op[current]) :
              program.parents[current][k] \in ParentsOf(program, current)
         /\ program.op[current] # "alias" => Root(program, current) = current
         /\ program.op[current] = "alias" =>
              Root(program, current) = Root(program, program.parents[current][1])
<1>1. /\ phase = "operands" /\ LateOperands = {}
      /\ UNCHANGED <<program, schedule, options, planning, current, operand>>
  BY DEF Apply
<1>2. /\ TypeOK /\ OrderKept /\ BasesKept /\ ~ unmasked /\ WellFormed(program)
  BY OrderFacts DEF IInv, NeverBootsUnmasked
<1>3. /\ heap \in Heaps /\ values \in [Nodes(program) -> 0 .. Len(heap)]
      /\ dirty \subseteq DeferredMask(program) /\ DOMAIN bases = Nodes(program)
  BY <1>2 DEF TypeOK, Heaps
<1>4. current \in Nodes(program)
  BY <1>1, OperandsReady
<1>5. \A k \in 1 .. Arity(program.op[current]) :
        program.parents[current][k] \in ParentsOf(program, current)
  <2>1. program.parents[current] \in Seq(Nodes(program))
        /\ Len(program.parents[current]) = Arity(program.op[current])
    BY <1>2, <1>4 DEF WellFormed
  <2>2. DOMAIN program.parents[current] = 1 .. Arity(program.op[current])
    BY <2>1
  <2>3. QED BY <2>2 DEF ParentsOf
<1>6. Root(program, current) = IF program.op[current] = "alias"
                               THEN Root(program, program.parents[current][1]) ELSE current
  BY <1>2, <1>4, RootStep
<1>7. QED BY <1>1, <1>2, <1>3, <1>4, <1>5, <1>6, PolicyAssumption DEF Made, GivesUp

(* An operation that is no Chebyshev node and leaves the bases.            *)
LEMMA OtherBases ==
  ASSUME IInv, Apply, program.op[current] # "cheb", bases' = bases
  PROVE  BasesKept' /\ DOMAIN bases' = Nodes(program)
<1>1. current \notin {m \in live : program.op[m] = "cheb"}
  OBVIOUS
<1>2. \A k : current \notin SharingGroup(k)
  BY DEF SharingGroup
<1>3. QED BY <1>2, BeforeApply, BasesUntouched

(* A source, a constant or a value the client sends back is fresh.         *)
LEMMA SourceStep ==
  ASSUME IInv, Apply, Source, UNCHANGED unmasked
  PROVE  /\ IInv' /\ LeavesOthers
         /\ heap'[values'[current]].level = Fresh
<1>1. /\ program.op[current] \in {"input", "public", "feedback"}
      /\ Stored(values, Fresh) /\ dirty' = dirty /\ bases' = bases
  BY DEF Source, Sources
<1>2. Fresh \in -1 .. Ceiling
  BY PolicyAssumption DEF Fresh
<1>3. Places(values) /\ heap'[values'[current]].level = Fresh
  BY <1>1, <1>2, BeforeApply, StoredPlaces
<1>4. QED BY <1>1, <1>3, BeforeApply, OtherBases, ApplyKeeps

(* A sum or product may overwrite an operand that dies and that no other   *)
(* node names; the other operand may be given up as well.                  *)
LEMMA BinaryStep ==
  ASSUME IInv, Apply, Binary, UNCHANGED unmasked
  PROVE  /\ IInv' /\ LeavesOthers
         /\ heap'[values'[current]].level =
              Max({heap[values[program.parents[current][1]]].level,
                   heap[values[program.parents[current][2]]].level}) + plan.cost[current]
<1>1. PICK left, right : /\ left = program.parents[current][1]
                         /\ right = program.parents[current][2]
  OBVIOUS
<1> DEFINE level == Max({heap[values[left]].level, heap[values[right]].level})
                      + plan.cost[current]
           gone == right # left /\ Consumes(values, right)
           taken == IF gone THEN [values EXCEPT ![right] = Null] ELSE values
           rest == [taken EXCEPT ![left] = Null]
<1>2. /\ program.op[current] \in Binaries
      /\ IF Consumes(taken, left) THEN StoredIn(rest, values[left], level)
         ELSE Stored(taken, level)
      /\ dirty' = dirty /\ bases' = bases
  BY <1>1 DEF Binary
<1>3. /\ program.op[current] # "cheb" /\ program.op[current] # "alias"
      /\ program.op[current] # "feedback" /\ Arity(program.op[current]) = 2
  BY <1>2 DEF Binaries, Arity, Sources
<1>4. left \in ParentsOf(program, current) /\ right \in ParentsOf(program, current)
  BY <1>1, <1>3, BeforeApply
<1>5. /\ phase = "operands" /\ LateOperands = {}
      /\ WellFormed(program) /\ heap \in Heaps
      /\ values \in [Nodes(program) -> 0 .. Len(heap)]
      /\ current \in Nodes(program) /\ Ceiling \in Nat /\ Root(program, current) = current
  BY <1>3, BeforeApply
<1>6. /\ left \in Nodes(program) /\ right \in Nodes(program)
      /\ left # current /\ right # current
      /\ values[left] \in 1 .. Len(heap) /\ values[right] \in 1 .. Len(heap)
  BY <1>4, <1>5, OperandsReady
<1>7. level \in -1 .. Ceiling
  <2> DEFINE a == heap[values[left]].level
             b == heap[values[right]].level
             c == plan.cost[current]
  <2>1. /\ a \in -1 .. Ceiling /\ b \in -1 .. Ceiling /\ c \in 0 .. Ceiling
        /\ a + c \in -1 .. Ceiling /\ b + c \in -1 .. Ceiling
    BY <1>3, <1>4, <1>5, OperandsReady
  <2>2. level = Max({a, b}) + c
    OBVIOUS
  <2> HIDE DEF a, b, c, level
  <2>3. Max({a, b}) = IF a <= b THEN b ELSE a
    BY <2>1, MaxOfTwo
  <2>4. QED BY <2>1, <2>2, <2>3
<1>8. ASSUME NEW m \in ParentsOf(program, current), NEW vals, Consumes(vals, m)
      PROVE  LastAwaited(m) /\ UseCount(vals, vals[m]) = 1
  <2>1. TypeOK /\ OrderKept /\ Working
    BY <1>5 DEF IInv, Working
  <2>2. QED BY <1>8, <2>1, FinalUseIsLastAwaited DEF Consumes
<1>9. /\ GivesUp(taken)
      /\ taken[left] = values[left] /\ taken \in [Nodes(program) -> 0 .. Len(heap)]
  <2>1. CASE gone
    <3>1. taken = [values EXCEPT ![right] = Null] /\ right # left
      BY <2>1
    <3>2. LastAwaited(right)
      BY <1>4, <1>8, <2>1
    <3>3. /\ taken \in [Nodes(program) -> 0 .. Len(heap)] /\ taken[left] = values[left]
          /\ taken[right] = Null
          /\ \A n \in Nodes(program) : n # right => taken[n] = values[n]
      <4>1. Null \in 0 .. Len(heap)
        BY <1>5 DEF Null, Heaps
      <4> HIDE DEF taken
      <4>2. QED BY <1>5, <1>6, <3>1, <4>1
    <3> HIDE DEF taken
    <3>4. QED BY <1>4, <3>2, <3>3 DEF GivesUp
  <2>2. CASE ~ gone
    <3>1. taken = values
      BY <2>2
    <3>2. QED BY <1>5, <3>1 DEF GivesUp
  <2>3. QED BY <2>1, <2>2
<1> HIDE DEF taken, level
<1>10. (Places(taken) \/ Places(rest)) /\ heap'[values'[current]].level = level
  <2>1. CASE Consumes(taken, left)
    <3>1. LastAwaited(left) /\ UseCount(taken, taken[left]) = 1
      BY <1>4, <1>8, <2>1
    <3>2. \A n \in Nodes(program) : n # left => taken[n] # values[left]
      BY <1>5, <1>6, <1>9, <3>1, SoleHolder
    <3>3. /\ rest \in [Nodes(program) -> 0 .. Len(heap)]
          /\ rest[left] = Null
          /\ \A n \in Nodes(program) : n # left => rest[n] = taken[n]
      <4>1. Null \in 0 .. Len(heap)
        BY <1>5 DEF Null, Heaps
      <4>2. QED BY <1>6, <1>9, <4>1
    <3> HIDE DEF rest
    <3>4. GivesUp(rest)
      BY <1>4, <1>9, <3>1, <3>3 DEF GivesUp
    <3>5. \A n \in Nodes(program) : rest[n] # values[left]
      BY <1>6, <3>2, <3>3 DEF Null
    <3>6. StoredIn(rest, values[left], level)
      BY <1>2, <2>1
    <3>7. QED BY <1>5, <1>6, <1>7, <3>4, <3>5, <3>6, StoredPlaces
  <2>2. CASE ~ Consumes(taken, left)
    <3>1. Stored(taken, level)
      BY <1>2, <2>2
    <3>2. QED BY <1>5, <1>7, <1>9, <3>1, StoredPlaces
  <2>3. QED BY <2>1, <2>2
<1> HIDE DEF rest
<1>11. IInv' /\ LeavesOthers
  BY <1>2, <1>3, <1>10, BeforeApply, OtherBases, ApplyKeeps
<1>12. QED BY <1>1, <1>10, <1>11 DEF level

(* An alias takes the handle of its operand.                               *)
LEMMA AliasStep ==
  ASSUME IInv, Apply, Alias, UNCHANGED unmasked
  PROVE  /\ IInv' /\ LeavesOthers
         /\ heap'[values'[current]].level = heap[values[program.parents[current][1]]].level
<1>1. PICK m : m = program.parents[current][1]
  OBVIOUS
<1>2. /\ program.op[current] = "alias" /\ values' = [values EXCEPT ![current] = values[m]]
      /\ heap' = heap /\ dirty' = dirty /\ bases' = bases
  BY <1>1 DEF Alias
<1>3. Arity(program.op[current]) = 1
  BY <1>2 DEF Arity, Sources, Binaries
<1>4. /\ m \in ParentsOf(program, current) /\ heap \in Heaps
      /\ values \in [Nodes(program) -> 0 .. Len(heap)]
      /\ current \in Nodes(program) /\ Root(program, current) = Root(program, m)
      /\ phase = "operands" /\ LateOperands = {}
  BY <1>1, <1>2, <1>3, BeforeApply
<1>5. values[m] \in 1 .. Len(heap) /\ heap[values[m]].root = Root(program, m)
  BY <1>4, OperandsReady
<1>6. /\ values' \in [Nodes(program) -> 0 .. Len(heap)] /\ values'[current] = values[m]
      /\ \A n \in Nodes(program) \ {current} : values'[n] = values[n]
  <2>1. values[m] \in 0 .. Len(heap)
    BY <1>4, <1>5
  <2>2. QED BY <1>2, <1>4, <2>1
<1>7. values[m] # Null
  BY <1>4, <1>5 DEF Null, Heaps
<1>8. Places(values)
  BY <1>2, <1>4, <1>5, <1>6, <1>7 DEF Places
<1>9. IInv' /\ LeavesOthers
  BY <1>2, <1>8, BeforeApply, OtherBases, ApplyKeeps
<1>10. QED BY <1>1, <1>2, <1>6, <1>9

(* A unary operation; a projection may leave its mask to its gathers.      *)
LEMMA UnaryStep ==
  ASSUME IInv, Apply, Unary, UNCHANGED unmasked
  PROVE  /\ IInv' /\ LeavesOthers
         /\ heap'[values'[current]].level =
              heap[values[program.parents[current][1]]].level + Spent(current)
<1>1. PICK m : m = program.parents[current][1]
  OBVIOUS
<1>2. /\ program.op[current] \in {"unary", "linear"}
      /\ Stored(values, heap[values[m]].level + Spent(current))
      /\ dirty' = IF current \in DeferredMask(program) THEN dirty \cup {current} ELSE dirty
      /\ bases' = bases
  BY <1>1 DEF Unary
<1>3. Arity(program.op[current]) = 1
  BY <1>2 DEF Arity, Sources, Binaries
<1>4. /\ m \in ParentsOf(program, current) /\ phase = "operands" /\ LateOperands = {}
      /\ heap \in Heaps /\ current \in Nodes(program)
      /\ Root(program, current) = current /\ GivesUp(values)
      /\ dirty \subseteq DeferredMask(program)
  BY <1>1, <1>2, <1>3, BeforeApply
<1>5. heap[values[m]].level + Spent(current) \in -1 .. Ceiling
  BY <1>2, <1>4, OperandsReady
<1>6. /\ Places(values)
      /\ heap'[values'[current]].level = heap[values[m]].level + Spent(current)
  BY <1>2, <1>4, <1>5, StoredPlaces
<1>7. dirty' \subseteq DeferredMask(program) /\ program.op[current] # "cheb"
  BY <1>2, <1>4
<1>8. IInv' /\ LeavesOthers
  BY <1>2, <1>6, <1>7, BeforeApply, OtherBases, ApplyKeeps
<1>9. QED BY <1>1, <1>6, <1>8

(* A gather fits below the ceiling, so it needs no bootstrap in between.   *)
LEMMA GatherStep ==
  ASSUME IInv, Apply, Gather
  PROVE  /\ IInv' /\ LeavesOthers /\ refreshes' = refreshes + 0
         /\ heap'[values'[current]].level =
              heap[values[program.parents[current][1]]].level + plan.cost[current]
<1>1. PICK m, stages, room : /\ m = program.parents[current][1]
                             /\ stages = plan.cost[current]
                             /\ room = Ceiling - heap[values[m]].level
  OBVIOUS
<1>2. /\ program.op[current] = "gather"
      /\ Stored(values, IF stages <= room THEN heap[values[m]].level + stages
                        ELSE Refreshed + stages - room)
      /\ unmasked' = (unmasked \/ (room = 0 /\ m \in dirty))
      /\ refreshes' = refreshes + IF stages <= room THEN 0 ELSE 1
      /\ dirty' = dirty /\ bases' = bases
  BY <1>1 DEF Gather
<1>3. Arity(program.op[current]) = 1
  BY <1>2 DEF Arity, Sources, Binaries
<1>4. /\ m \in ParentsOf(program, current) /\ phase = "operands" /\ LateOperands = {}
      /\ heap \in Heaps /\ current \in Nodes(program) /\ Ceiling \in Nat
      /\ Root(program, current) = current /\ GivesUp(values) /\ ~ unmasked
  <2>1. m \in ParentsOf(program, current)
    BY <1>1, <1>3, BeforeApply
  <2>2. Root(program, current) = current
    BY <1>2, BeforeApply
  <2>3. QED BY <2>1, <2>2, BeforeApply, Zenon
<1> DEFINE l == heap[values[m]].level
<1>5. /\ l \in -1 .. Ceiling /\ stages \in 0 .. Ceiling
      /\ l + stages \in -1 .. Ceiling
  BY <1>1, <1>2, <1>4, OperandsReady
<1>6. stages >= 1
  <2>1. program \in Programs /\ plan.cost = Cost(program) /\ Annotated(program)
    BY OrderFacts DEF IInv, TypeOK
  <2>2. current \notin DeferredMask(program)
    BY <1>2 DEF DeferredMask
  <2>3. NodeDepth(program, current) = program.data[current]
    BY <1>2, Zenon DEF NodeDepth, Sources
  <2>4. program.data[current] >= 1 /\ program.data[current] \in Nat
    BY <1>2, <1>4, <2>1 DEF Annotated
  <2>5. stages = NodeDepth(program, current) - 0
    BY <1>1, <1>4, <2>1, <2>2 DEF Cost
  <2>6. QED BY <2>3, <2>4, <2>5
<1>7. stages <= room /\ room # 0
  <2>1. room = Ceiling - l
    BY <1>1
  <2> HIDE DEF l
  <2>2. QED BY <1>4, <1>5, <1>6, <2>1
<1>8. Places(values) /\ heap'[values'[current]].level = l + stages
  BY <1>2, <1>4, <1>5, <1>7, StoredPlaces
<1>9. IInv' /\ LeavesOthers
  BY <1>2, <1>4, <1>7, <1>8, BeforeApply, OtherBases, ApplyKeeps
<1>10. QED BY <1>1, <1>2, <1>7, <1>8, <1>9

(* A Chebyshev node makes, uses or drops the basis of its group.           *)
LEMMA ChebyshevBases ==
  ASSUME IInv, Apply, Chebyshev
  PROVE  BasesKept' /\ DOMAIN bases' = Nodes(program)
<1>1. PICK c, m, G, key : /\ c = current /\ m = program.parents[c][1]
                          /\ G = SharingGroup(c) /\ key = Min(G)
  OBVIOUS
<1> DEFINE solo == ~ options.share \/ Cardinality(G) = 1
           last == G \ (live \cap done) = {c}
           hit == bases[key].source = values[m] /\ bases[key].level = heap[values[m]].level
<1>2. /\ program.op[c] = "cheb"
      /\ bases' = IF solo THEN bases
                  ELSE IF last THEN [bases EXCEPT ![key] = NoBasis]
                  ELSE IF hit THEN bases
                  ELSE [bases EXCEPT ![key] = BasisOf(m)]
  BY <1>1 DEF Chebyshev
<1>3. /\ program' = program /\ live' = live /\ done' = done /\ options' = options
      /\ current' = c /\ BasesKept /\ ~ Made /\ DOMAIN bases = Nodes(program)
  BY <1>1, BeforeApply DEF schedule
<1>4. /\ c \in live /\ c \notin done /\ live \subseteq Nodes(program)
      /\ Nodes(program) \subseteq Nat
  BY <1>1, BeforeApply, OperandsReady, OrderFacts DEF IInv
<1>5. /\ c \in G /\ G \subseteq live /\ \A k \in G : program.op[k] = "cheb"
      /\ \A k \in G : /\ SharingGroup(k) = G
                      /\ program.parents[k] = program.parents[c]
                      /\ program.interval[k] = program.interval[c]
      /\ \A k \in live : program.op[k] = "cheb" =>
           k \in SharingGroup(k) /\ (c \in SharingGroup(k) => SharingGroup(k) = G)
  BY <1>1, <1>2, <1>4 DEF SharingGroup
<1>6. key \in G /\ \A k \in G : key <= k
  <2>1. G \subseteq Nat /\ G # {}
    BY <1>4, <1>5
  <2>2. QED BY <1>1, <2>1, MinFact
<1>7. DOMAIN bases' = Nodes(program)
  BY <1>2, <1>3
<1>8. ~ last => \E j \in G : j \notin done /\ j # c
  BY <1>4, <1>5
<1> DEFINE Sound(k, basis) ==
      /\ k \in live /\ program.op[k] = "cheb"
      /\ options.share /\ Cardinality(SharingGroup(k)) # 1
      /\ \A j \in SharingGroup(k) : k <= j
      /\ basis.content = <<Root(program, program.parents[k][1]), program.interval[k]>>
      /\ \E j \in SharingGroup(k) : j \notin done /\ j # c
<1>9. ASSUME NEW k \in Nodes(program), bases'[k] # NoBasis
      PROVE  Sound(k, bases'[k])
  <2>1. CASE k = key /\ bases' = [bases EXCEPT ![key] = BasisOf(m)] /\ ~ solo /\ ~ last
    <3>1. bases'[k] = BasisOf(m)
      BY <1>3, <2>1
    <3>2. BasisOf(m).content = <<Root(program, program.parents[k][1]), program.interval[k]>>
      BY <1>1, <1>5, <1>6, <2>1 DEF BasisOf
    <3>3. k \in live /\ program.op[k] = "cheb" /\ SharingGroup(k) = G
      BY <1>5, <1>6, <2>1
    <3>4. options.share /\ Cardinality(SharingGroup(k)) # 1
      BY <2>1, <3>3
    <3>5. QED BY <1>6, <1>8, <2>1, <3>1, <3>2, <3>3, <3>4
  <2>2. CASE ~ (k = key /\ bases' = [bases EXCEPT ![key] = BasisOf(m)] /\ ~ solo /\ ~ last)
    <3> HIDE DEF hit
    <3>1. bases'[k] = bases[k] /\ (k = key => solo \/ ~ last)
      BY <1>2, <1>3, <1>9, <2>2
    <3>2. /\ k \in live /\ program.op[k] = "cheb"
          /\ options.share /\ Cardinality(SharingGroup(k)) # 1
          /\ \A j \in SharingGroup(k) : k <= j
          /\ bases[k].content = <<Root(program, program.parents[k][1]), program.interval[k]>>
          /\ \E j \in SharingGroup(k) : j \notin done
      BY <1>3, <1>9, <3>1 DEF BasesKept
    <3>3. \E j \in SharingGroup(k) : j \notin done /\ j # c
      <4>1. CASE c \notin SharingGroup(k)
        BY <3>2, <4>1
      <4>2. CASE c \in SharingGroup(k)
        <5>1. SharingGroup(k) = G /\ k \in G
          BY <1>5, <3>2, <4>2
        <5>2. k = key
          BY <1>4, <1>5, <1>6, <3>2, <5>1
        <5>3. ~ solo
          BY <3>2, <5>1
        <5>4. QED BY <1>8, <3>1, <5>1, <5>2, <5>3
      <4>3. QED BY <4>1, <4>2
    <3>4. QED BY <3>1, <3>2, <3>3
  <2>3. QED BY <2>1, <2>2
<1>10. \A k : SharingGroup(k)' = SharingGroup(k)
  BY <1>3 DEF SharingGroup
<1>11. BasesKept'
  <2> HIDE DEF solo, last, hit
  <2>1. QED BY <1>3, <1>9, <1>10, Zenon DEF BasesKept
<1>12. QED BY <1>7, <1>11

(* A Chebyshev node keeps the invariant, its basis shared or not.          *)
LEMMA ChebyshevStep ==
  ASSUME IInv, Apply, Chebyshev, UNCHANGED unmasked
  PROVE  /\ IInv' /\ LeavesOthers
         /\ heap'[values'[current]].level =
              heap[values[program.parents[current][1]]].level + Spent(current)
<1>1. PICK m : m = program.parents[current][1]
  OBVIOUS
<1>2. /\ program.op[current] = "cheb" /\ dirty' = dirty
      /\ Stored(values, heap[values[m]].level + Spent(current))
  BY <1>1 DEF Chebyshev
<1>3. Arity(program.op[current]) = 1
  BY <1>2 DEF Arity, Sources, Binaries
<1>4. /\ m \in ParentsOf(program, current) /\ phase = "operands" /\ LateOperands = {}
      /\ heap \in Heaps /\ current \in Nodes(program)
      /\ Root(program, current) = current /\ GivesUp(values)
  BY <1>1, <1>2, <1>3, BeforeApply
<1>5. heap[values[m]].level + Spent(current) \in -1 .. Ceiling
  BY <1>2, <1>4, OperandsReady
<1>6. /\ Places(values)
      /\ heap'[values'[current]].level = heap[values[m]].level + Spent(current)
  BY <1>2, <1>4, <1>5, StoredPlaces
<1>7. IInv' /\ LeavesOthers
  BY <1>2, <1>6, BeforeApply, ChebyshevBases, ApplyKeeps
<1>8. QED BY <1>1, <1>6, <1>7

(* So does every operation.                                                *)
LEMMA ApplyStep ==
  ASSUME IInv, Apply
  PROVE  IInv'
<1>1. CASE Gather
  BY <1>1, GatherStep
<1>2. CASE (Source \/ Binary \/ Alias \/ Unary \/ Chebyshev) /\ UNCHANGED <<refreshes, unmasked>>
  BY <1>2, SourceStep, BinaryStep, AliasStep, UnaryStep, ChebyshevStep
<1>3. QED BY <1>1, <1>2 DEF Apply

-----------------------------------------------------------------------------
(* Retiring a node.                                                        *)

(* Every live node of an earlier epoch was evaluated before the current.   *)
LEMMA EarlierEpochsDone ==
  ASSUME TypeOK, OrderKept, Working
  PROVE  \A m \in live : Epoch(program, m) < Epoch(program, current) => m \in done
<1>1. /\ WellFormed(program) /\ live \subseteq Nodes(program)
      /\ current \in live \ done /\ current \in Nodes(program)
  BY OrderFacts, OperandsNeeded
<1>2. \A m \in Nodes(program) : Epoch(program, m) \in Int
  BY <1>1, EpochMonotone
<1>3. CASE options.frontier
  <2>1. SP!IInv /\ current \in ready
    BY <1>3, SameSchedule DEF OrderKept
  <2>2. SP!Epoch(program, current) = active_epoch
    BY <2>1 DEF SP!IInv, SP!FrontierExact
  <2>3. \A m \in live \ done : SP!Epoch(program, m) >= active_epoch
    BY <2>1 DEF SP!IInv, SP!EpochOpen, SP!Unfinished
  <2>4. QED BY <1>1, <1>2, <2>2, <2>3, SameProgram
<1>4. CASE ~ options.frontier
  <2>1. \A m \in live \ done : current <= m
    BY <1>4 DEF OrderKept
  <2>2. \A m \in live \ done : Epoch(program, current) <= Epoch(program, m)
    BY <1>1, <2>1, EpochMonotone
  <2>3. QED BY <1>1, <1>2, <2>2
<1>5. QED BY <1>3, <1>4

(* releasable() of the live nodes, as a formula of the state.              *)
LEMMA ReleaseOfLive ==
  SP!IInv => \A n \in live : SP!releasable(n) <=>
               n \notin program.outputs /\ SP!Waiting(n) = {}
  BY SP!ReleaseMeaning, SameAssumption

(* What retiring does to the order: one more node is done, and an operand  *)
(* is given up exactly when it is no output and nothing awaits it.         *)
LEMMA RetireOrder ==
  ASSUME IInv, Retire
  PROVE  /\ Working /\ Made /\ phase' = "idle"
         /\ done' = done \cup {current}
         /\ UNCHANGED <<program, live, options, planning, heap, dirty, bases, deepest,
                        unmasked>>
         /\ ~ stalled' /\ (options.frontier => Schedule!IInv')
         /\ \A m \in Nodes(program) : values'[m] =
              IF m \in ParentsOf(program, current) /\ m \notin program.outputs
                   /\ (\A c \in live \ done' : m \notin ParentsOf(program, c))
              THEN Null ELSE values[m]
         /\ values' = [m \in Nodes(program) |-> values'[m]]
<1>1. /\ Working /\ Made /\ phase' = "idle"
      /\ UNCHANGED <<options, planning, heap, dirty, bases, deepest, unmasked>>
  BY DEF Retire, Working, Made
<1>2. /\ TypeOK /\ OrderKept /\ WellFormed(program) /\ live \subseteq Nodes(program)
      /\ program.count \in Nat /\ Nodes(program) = 0 .. program.count - 1
      /\ program.outputs \subseteq live /\ ~ stalled
      /\ \A n \in live : \A m \in ParentsOf(program, n) : m \in live /\ m < n
  BY OrderFacts DEF IInv, OrderKept
<1>3. /\ current \in live \ done /\ current \in Nodes(program)
      /\ \A m \in ParentsOf(program, current) : m \in live /\ m \in Nodes(program)
  BY <1>1, <1>2, OperandsNeeded
<1> DEFINE dead(m) == IF options.frontier THEN Schedule!releasable(m)'
                      ELSE LastUse(m) = current
<1>4. values' = [m \in Nodes(program) |->
                   IF m \in ParentsOf(program, current) /\ dead(m) THEN Null ELSE values[m]]
  BY DEF Retire
<1>5. CASE options.frontier
  <2>1. SP!IInv /\ SP!Complete(current) /\ current \in SP!Nodes(program)
    BY <1>2, <1>3, <1>5, SameSchedule, SameProgram DEF Retire, OrderKept
  <2>2. /\ SP!IInv' /\ program' = program /\ live' = live /\ done' = done \cup {current}
    BY <2>1, SameAssumption, SP!StepIInv, SP!UnfinishedStep
  <2>3. (\A n \in live : SP!releasable(n) <=>
            n \notin program.outputs /\ SP!Waiting(n) = {})'
    <3>1. (SP!IInv => \A n \in live : SP!releasable(n) <=>
             n \notin program.outputs /\ SP!Waiting(n) = {})'
      BY ReleaseOfLive, PTL
    <3>2. QED BY <2>2, <3>1
  <2>4. \A m \in live : dead(m) <=>
          m \notin program.outputs /\ \A c \in live \ done' : m \notin ParentsOf(program, c)
    <3>1. \A m \in live : Schedule!releasable(m)' <=>
            m \notin program.outputs /\ SP!Waiting(m)' = {}
      BY <2>2, <2>3, SameSchedule
    <3>2. \A m : SP!Waiting(m)' = {c \in live \ done' : m \in ParentsOf(program, c)}
      BY <2>2, SameProgram DEF SP!Waiting, SP!Unfinished
    <3>3. QED BY <1>5, <3>1, <3>2
  <2>5. ~ stalled' /\ Schedule!IInv'
    <3>1. ~ stalled'
      BY <2>2 DEF SP!IInv, SP!NeverStalls
    <3>2. (Schedule!IInv <=> SP!IInv)'
      BY SameSchedule, PTL
    <3>3. QED BY <2>2, <3>1, <3>2
  <2> HIDE DEF dead
  <2>6. QED BY <1>1, <1>3, <1>4, <2>2, <2>4, <2>5
<1>6. CASE ~ options.frontier
  <2>1. /\ program' = program /\ live' = live /\ done' = done \cup {current}
        /\ stalled' = stalled
    BY <1>6 DEF Retire
  <2>2. /\ \A n \in live \ done : current <= n
        /\ \A m \in live \cap done, n \in live \ done : m < n
    BY <1>1, <1>2, <1>6 DEF OrderKept
  <2>3. ASSUME NEW m \in ParentsOf(program, current)
        PROVE  dead(m) <=> /\ m \notin program.outputs
                           /\ \A c \in live \ done' : m \notin ParentsOf(program, c)
    <3> DEFINE U == {c \in live : m \in ParentsOf(program, c)}
               S == U \cup {0}
    <3>1. dead(m) <=> LastUse(m) = current
      BY <1>6
    <3>2. CASE m \in program.outputs
      BY <1>2, <1>3, <3>1, <3>2 DEF LastUse
    <3>3. CASE m \notin program.outputs
      <4>1. Consumers(program, live, m) = U
        BY <1>2, <1>3, ConsumersMeaning
      <4>2. LastUse(m) = Max(S)
        BY <3>3, <4>1 DEF LastUse
      <4>3. S \subseteq 0 .. program.count /\ S # {}
        BY <1>2
      <4> HIDE DEF S
      <4>4. Max(S) \in S /\ \A x \in S : x <= Max(S)
        BY <1>2, <4>3, MaxFact
      <4>5. ASSUME Max(S) = current, NEW c \in live \ done', c \in U
            PROVE  FALSE
        <5>1. c <= current /\ c # current /\ current <= c
          BY <2>1, <2>2, <4>4, <4>5 DEF S
        <5>2. QED BY <1>2, <1>3, <5>1
      <4>6. ASSUME \A c \in live \ done' : c \notin U
            PROVE  Max(S) = current
        <5>1. current \in S /\ current <= Max(S)
          BY <1>3, <4>4 DEF S
        <5>2. \A c \in U : c <= current
          BY <1>2, <1>3, <2>1, <2>2, <4>6
        <5>3. Max(S) <= current
          BY <1>2, <1>3, <4>4, <5>2 DEF S
        <5>4. Max(S) \in Nat /\ current \in Nat
          <6>1. S \subseteq Nat
            BY <4>3
          <6>2. current \in Nat
            BY <1>2, <1>3
          <6>3. QED BY <4>4, <6>1, <6>2
        <5>5. QED BY <5>1, <5>3, <5>4
      <4>7. QED BY <3>1, <3>3, <4>2, <4>5, <4>6
    <3>4. QED BY <3>2, <3>3
  <2> HIDE DEF dead
  <2>4. QED BY <1>1, <1>2, <1>4, <1>6, <2>1, <2>3
<1>7. QED BY <1>5, <1>6

(* Retiring keeps the invariant: the values held are again exactly those   *)
(* an output or an unevaluated node needs.                                 *)
LEMMA RetireStep ==
  ASSUME IInv, Retire
  PROVE  IInv'
<1>1. /\ TypeOK /\ PlanKept /\ OrderKept /\ HeldAsNeeded /\ HandleIntegrity
      /\ OperandsFit /\ BasesKept /\ NeverBootsUnmasked
  BY DEF IInv
<1>2. PICK c : c = current
  OBVIOUS
<1> DEFINE Free(m) == /\ m \in ParentsOf(program, c) /\ m \notin program.outputs
                      /\ \A k \in live \ done' : m \notin ParentsOf(program, k)
<1>3. /\ Working /\ Made /\ phase' = "idle" /\ done' = done \cup {c}
      /\ UNCHANGED <<program, live, options, planning, heap, dirty, bases, deepest, unmasked>>
      /\ ~ stalled' /\ (options.frontier => Schedule!IInv')
      /\ \A m \in Nodes(program) : values'[m] = IF Free(m) THEN Null ELSE values[m]
      /\ values' = [m \in Nodes(program) |-> values'[m]]
  BY <1>2, RetireOrder
<1>4. /\ WellFormed(program) /\ Nodes(program) \subseteq Nat
      /\ live = Live(program) /\ live \subseteq Nodes(program)
      /\ program.outputs \subseteq live /\ done \subseteq Nodes(program)
      /\ Nodes(program) \ live \subseteq done
      /\ \A n \in live : \A m \in ParentsOf(program, n) : m \in live /\ m < n
  BY <1>1, OrderFacts
<1>5. /\ c \in live /\ c \notin done /\ c \in Nodes(program)
      /\ \A m \in ParentsOf(program, c) : m \in done
      /\ c \notin ParentsOf(program, c)
  BY <1>1, <1>2, <1>3, <1>4, OperandsNeeded
<1>6. /\ c \in Held /\ Held \ {c} \subseteq Needed
      /\ \A m \in Needed \ Held : m \in ParentsOf(program, c) /\ LastAwaited(m)
  BY <1>1, <1>2, <1>3 DEF HeldAsNeeded
<1>7. Held' = {m \in Held : ~ Free(m)}
  <2> HIDE DEF Free
  <2>1. QED BY <1>3, <1>4 DEF Held
<1>8. /\ Needed' = {n \in live \cap done' : \/ n \in program.outputs
                                            \/ \E k \in live \ done' : n \in ParentsOf(program, k)}
      /\ Needed = {n \in live \cap done : \/ n \in program.outputs
                                          \/ \E k \in live \ done : n \in ParentsOf(program, k)}
      /\ \A m : LastAwaited(m) <=> /\ m \notin program.outputs
                                   /\ \A k \in live \ done : m \in ParentsOf(program, k) => k = c
  BY <1>2, <1>3 DEF Needed, Awaits, LastAwaited
<1>9. c \notin program.outputs => \E k \in live \ done' : c \in ParentsOf(program, k)
  <2> SUFFICES ASSUME c \notin program.outputs
               PROVE  \E k \in live \ done' : c \in ParentsOf(program, k)
    OBVIOUS
  <2>1. PICK k \in live : c \in ParentsOf(program, k)
    BY <1>4, <1>5, LiveNeeded
  <2>2. k # c /\ k \in Nat /\ c \in Nat /\ c < k
    BY <1>4, <1>5, <2>1
  <2>3. k \notin done
    <3>1. CASE options.frontier
      <4>1. \A n \in live \cap done : SP!ParentsOf(program, n) \subseteq done
        BY <1>1, <3>1, SameSchedule DEF OrderKept, SP!IInv, SP!DoneClosed
      <4>2. QED BY <1>5, <2>1, <4>1, SameProgram
    <3>2. CASE ~ options.frontier
      <4>1. k \in done => k < c
        BY <1>1, <1>5, <3>2 DEF OrderKept
      <4>2. QED BY <2>2, <4>1
    <3>3. QED BY <3>1, <3>2
  <2>4. QED BY <1>3, <2>1, <2>2, <2>3
<1>10. Held' = Needed'
  <2>1. ASSUME NEW n \in Held'
        PROVE  n \in Needed'
    <3>1. n \in Held /\ ~ Free(n)
      BY <1>7
    <3>2. CASE n = c
      BY <1>3, <1>5, <1>8, <1>9, <3>2
    <3>3. CASE n # c
      <4>1. n \in Needed
        BY <1>6, <3>1, <3>3
      <4>2. CASE n \in program.outputs
        BY <1>3, <1>8, <4>1, <4>2
      <4>3. CASE n \notin program.outputs
        <5>1. PICK k \in live \ done : n \in ParentsOf(program, k)
          BY <1>8, <4>1, <4>3
        <5>2. \E j \in live \ done' : n \in ParentsOf(program, j)
          BY <1>3, <3>1, <4>3, <5>1
        <5>3. QED BY <1>3, <1>8, <4>1, <5>2
      <4>4. QED BY <4>2, <4>3
    <3>4. QED BY <3>2, <3>3
  <2>2. ASSUME NEW n \in Needed'
        PROVE  n \in Held'
    <3>1. n \in live /\ n \in done' /\ ~ Free(n)
      BY <1>8
    <3>2. n \in Held
      <4>1. CASE n = c
        BY <1>6, <4>1
      <4>2. CASE n # c
        <5>1. n \in Needed
          BY <1>3, <1>8, <4>2
        <5>2. ~ LastAwaited(n)
          BY <1>3, <1>8
        <5>3. QED BY <1>6, <5>1, <5>2
      <4>3. QED BY <4>1, <4>2
    <3>3. QED BY <1>7, <3>1, <3>2
  <2>3. QED BY <2>1, <2>2
<1>11. HeldAsNeeded'
  BY <1>3, <1>10 DEF HeldAsNeeded, Made
<1>12. TypeOK'
  <2>1. values' \in [Nodes(program) -> 0 .. Len(heap)]
    <3>1. values \in [Nodes(program) -> 0 .. Len(heap)] /\ Null \in 0 .. Len(heap)
      BY <1>1 DEF TypeOK, Null
    <3>2. \A m \in Nodes(program) : values'[m] \in 0 .. Len(heap)
      BY <1>3, <3>1
    <3>3. QED BY <1>3, <3>2
  <2>2. operand' = 1
    BY DEF Retire
  <2>3. QED BY <1>1, <1>3, <2>1, <2>2 DEF TypeOK, planning
<1>13. PlanKept'
  BY <1>1, <1>3 DEF PlanKept, PredictionCurrent, LocallyOptimal, planning
<1>14. OrderKept'
  <2>1. ASSUME ~ options.frontier, NEW m \in live \cap done', NEW n \in live \ done'
        PROVE  m < n
    <3>1. \A k \in live \ done : c <= k
      BY <1>1, <1>2, <1>3, <2>1 DEF OrderKept
    <3>2. \A j \in live \cap done, k \in live \ done : j < k
      BY <1>1, <2>1 DEF OrderKept
    <3>3. QED BY <1>3, <1>4, <1>5, <2>1, <3>1, <3>2
  <2>2. ~ Working'
    BY <1>3 DEF Working
  <2>3. done' \subseteq Nodes(program) /\ Nodes(program) \ live \subseteq done'
    BY <1>3, <1>4, <1>5
  <2>4. QED BY <1>3, <1>4, <2>1, <2>2, <2>3 DEF OrderKept
<1>15. HandleIntegrity'
  <2>1. \A n \in Held' : n \in Held /\ values'[n] = values[n]
    BY <1>3, <1>7 DEF Held
  <2>2. QED BY <1>1, <1>3, <2>1 DEF HandleIntegrity
<1>16. OperandsFit' /\ NeverBootsUnmasked'
  BY <1>1, <1>3 DEF OperandsFit, NeverBootsUnmasked
<1>17. BasesKept'
  <2>1. \A k : SharingGroup(k)' = SharingGroup(k)
    BY <1>3 DEF SharingGroup
  <2>2. ASSUME NEW k \in Nodes(program), bases[k] # NoBasis
        PROVE  \E m \in SharingGroup(k) : m \notin done'
    BY <1>1, <1>2, <1>3, <2>2 DEF BasesKept
  <2>3. ~ Made'
    BY <1>3 DEF Made
  <2>4. QED BY <1>1, <1>3, <2>1, <2>2, <2>3, Zenon DEF BasesKept
<1>18. QED BY <1>11, <1>12, <1>13, <1>14, <1>15, <1>16, <1>17 DEF IInv

-----------------------------------------------------------------------------
(* Theorems.                                                               *)

(* Whatever program, options and bootstrap levels: the executor's handles, *)
(* levels, order and plan agree at every step of evaluate().               *)
THEOREM Invariant == Spec => []IInv
<1>1. IInv /\ [Next]_vars => IInv'
  <2> SUFFICES ASSUME IInv, [Next]_vars PROVE IInv'
    OBVIOUS
  <2>1. CASE UNCHANGED vars
    <3>1. /\ TypeOK /\ PlanKept /\ OrderKept /\ HeldAsNeeded /\ HandleIntegrity
          /\ OperandsFit /\ BasesKept /\ NeverBootsUnmasked
      BY DEF IInv
    <3>2. UNCHANGED <<program, schedule, options, planning, phase, current, operand, values,
                      heap, dirty, bases, refreshes, unmasked, deepest>>
      BY <2>1 DEF vars, loop, store
    <3>3. Held' = Held
      BY <3>2 DEF Held
    <3>4. HeldAsNeeded' /\ BasesKept'
      BY <3>1, <3>2, <3>3, ViewStays DEF Made
    <3>5. OrderKept'
      BY <3>1, <3>2, OrderStays DEF Working
    <3>6. PlanKept'
      BY <3>1, <3>2 DEF PlanKept, PredictionCurrent, LocallyOptimal, planning
    <3>7. TypeOK'
      BY <3>1, <3>2 DEF TypeOK, planning
    <3>8. HandleIntegrity' /\ NeverBootsUnmasked'
      BY <3>1, <3>2, <3>3 DEF HandleIntegrity, NeverBootsUnmasked
    <3>9. OperandsFit'
      <4>1. \A m : Level(m)' = Level(m)
        BY <3>2 DEF Level
      <4>2. QED BY <3>1, <3>2, <4>1 DEF OperandsFit, planning
    <3>10. QED BY <3>4, <3>5, <3>6, <3>7, <3>8, <3>9 DEF IInv
  <2>2. CASE Next /\ ~ UNCHANGED vars
    BY <2>2, PlanStep, BeginStep, RefreshOperandStep, HoistRefreshStep, ApplyStep, RetireStep
    DEF Next, Finish
  <2>3. QED BY <2>1, <2>2
<1>2. QED BY InitIInv, <1>1, PTL DEF Spec

(* Every handle is a ciphertext of the heap below the ceiling, the masks   *)
(* deferred are deferred projections, the plan is a plan of the program.   *)
THEOREM TypeCorrect == Spec => []TypeOK
<1>1. IInv => TypeOK
  BY DEF IInv
<1>2. QED BY Invariant, <1>1, PTL

(* Destroying dying operands in place never overwrites a value an alias,   *)
(* an output or a later consumer still names.                              *)
THEOREM Handles == Spec => []HandleIntegrity
<1>1. IInv => HandleIntegrity
  BY DEF IInv
<1>2. QED BY Invariant, <1>1, PTL

(* Between operations a value is held exactly as long as it is needed.     *)
THEOREM Retained == Spec => []RetainedExactly
<1>1. IInv => RetainedExactly
  BY DEF IInv, HeldAsNeeded, Made, RetainedExactly, Needed, Awaits
<1>2. QED BY Invariant, <1>1, PTL

(* Unmasked coordinates of a deferred projection are read by gathers only, *)
(* and no output has any.                                                  *)
THEOREM Dirty == Spec => []DirtyOnlyGathered
<1>1. IInv => DirtyOnlyGathered
  <2> SUFFICES ASSUME IInv PROVE DirtyOnlyGathered
    OBVIOUS
  <2>1. TypeOK /\ OrderKept /\ WellFormed(program) /\ dirty \subseteq DeferredMask(program)
    BY OrderFacts DEF IInv, TypeOK
  <2>2. ASSUME phase = "operands", NEW m \in ParentsOf(program, current), m \in dirty
        PROVE  program.op[current] = "gather"
    <3>1. current \in Nodes(program) /\ m \in Nodes(program)
      BY <2>1, <2>2, OperandsNeeded, OrderFacts DEF Working
    <3>2. EdgesBetween(program, m, current) # {}
      BY <2>1, <2>2, <3>1, EdgeMeaning
    <3>3. PICK e \in EdgesFrom(program, m) : e[1] = current
      BY <3>2 DEF EdgesBetween, EdgesInto
    <3>4. QED BY <2>1, <2>2, <3>3 DEF DeferredMask
  <2>3. dirty \cap program.outputs = {}
    BY <2>1 DEF DeferredMask
  <2>4. QED BY <2>2, <2>3 DEF DirtyOnlyGathered
<1>2. QED BY Invariant, <1>1, PTL

(* No bootstrap runs on unmasked replica or guard coordinates.             *)
THEOREM Masked == Spec => []NeverBootsUnmasked
<1>1. IInv => NeverBootsUnmasked
  BY DEF IInv
<1>2. QED BY Invariant, <1>1, PTL

(* No ciphertext needs more levels than the context has, the scratch       *)
(* values of a two-pass refresh included, and no held value lies beyond    *)
(* the ceiling.                                                            *)
THEOREM Depths == Spec => []DepthBudget
<1>1. IInv => DepthBudget
  <2> SUFFICES ASSUME IInv PROVE DepthBudget
    OBVIOUS
  <2>1. deepest \in 0 .. Depth /\ heap \in Heaps /\ values \in [Nodes(program) -> 0 .. Len(heap)]
    BY DEF IInv, TypeOK, Heaps
  <2>2. ASSUME NEW n \in Held
        PROVE  Level(n) <= Ceiling
    <3>1. values[n] \in 1 .. Len(heap)
      BY <2>1 DEF Held, Null, Heaps
    <3>2. Level(n) \in 0 .. Ceiling
      BY <2>1, <3>1, LevelMeaning
    <3>3. QED BY <3>2
  <2>3. QED BY <2>1, <2>2 DEF DepthBudget
<1>2. QED BY Invariant, <1>1, PTL

(* A shared Chebyshev basis that would be taken was made from that         *)
(* operand's value on that node's interval.                                *)
THEOREM Bases == Spec => []BasisSound
<1>1. IInv => BasisSound
  <2> SUFFICES ASSUME IInv PROVE BasisSound
    OBVIOUS
  <2>1. BasesKept /\ live \subseteq Nodes(program) /\ Nodes(program) \subseteq Nat
    BY OrderFacts DEF IInv
  <2>2. ASSUME NEW n \in live \ done, program.op[n] = "cheb",
               bases[Min(SharingGroup(n))] # NoBasis
        PROVE  bases[Min(SharingGroup(n))].content
                 = <<Root(program, program.parents[n][1]), program.interval[n]>>
    <3>1. n \in SharingGroup(n) /\ SharingGroup(n) \subseteq live
      BY <2>2 DEF SharingGroup
    <3> DEFINE k == Min(SharingGroup(n))
    <3>2. k \in SharingGroup(n)
      <4>1. SharingGroup(n) \subseteq Nat /\ SharingGroup(n) # {}
        BY <2>1, <3>1
      <4>2. QED BY <4>1, MinFact
    <3> HIDE DEF k
    <3>3. /\ k \in Nodes(program) /\ program.parents[k] = program.parents[n]
          /\ program.interval[k] = program.interval[n]
      BY <2>1, <3>1, <3>2 DEF SharingGroup
    <3>4. bases[k].content = <<Root(program, program.parents[k][1]), program.interval[k]>>
      BY <2>1, <2>2, <3>3 DEF BasesKept, k
    <3>5. QED BY <3>3, <3>4 DEF k
  <2>3. QED BY <2>2 DEF BasisSound
<1>2. QED BY Invariant, <1>1, PTL

(* No shared basis outlives its group.                                     *)
THEOREM Dropped == Spec => []BasesDropped
<1>1. IInv => BasesDropped
  <2> SUFFICES ASSUME IInv, Finished, NEW n \in Nodes(program), bases[n] # NoBasis
               PROVE  FALSE
    BY DEF BasesDropped
  <2>1. PICK m \in SharingGroup(n) : m \notin done
    BY DEF IInv, BasesKept
  <2>2. m \in live
    BY DEF SharingGroup
  <2>3. QED BY <2>1, <2>2 DEF Finished
<1>2. QED BY Invariant, <1>1, PTL

(* No level of the plan lies beyond the ceiling, whatever was hoisted.     *)
THEOREM PlanCeiling == Spec => []PlanCeilingKept
<1>1. IInv => PlanCeilingKept
  <2> SUFFICES ASSUME IInv, Feasible(program), NEW n \in plan.live
               PROVE  plan.levels[n] <= Ceiling
    BY DEF PlanCeilingKept, CeilingKept
  <2>1. /\ plan \in Plans(program) /\ plan.cost = Cost(program) /\ WellFormed(program)
        /\ program \in Programs /\ plan.levels = Simulate(program, plan).produced
    BY OrderFacts DEF IInv, TypeOK, PlanKept, PredictionCurrent
  <2>2. \A k \in Nodes(program) : plan.cost[k] + Refreshed <= Ceiling
    <3>1. \A k \in Nodes(program) : plan.cost[k] \in 0 .. Ceiling
      BY <2>1, BootFits
    <3>2. \A k \in Nodes(program) : plan.cost[k] <= Ceiling - Refreshed
      BY <2>1 DEF Feasible
    <3>3. QED BY <3>1, <3>2, PolicyAssumption
  <2>3. n \in Nodes(program)
    BY <2>1 DEF Plans
  <2>4. QED BY <2>1, <2>2, <2>3, SimulateType
<1>2. QED BY Invariant, <1>1, PTL

(* The prediction carried along the search is the simulation of the hoists *)
(* accepted so far: rejected trials leave no trace.                        *)
THEOREM PlanPrediction == Spec => []PlanPredictionCurrent
<1>1. IInv => PlanPredictionCurrent
  BY DEF IInv, PlanKept, PlanPredictionCurrent
<1>2. QED BY Invariant, <1>1, PTL

(* Where the search stops by itself, no hoist above a branch would save a  *)
(* refresh.                                                                *)
THEOREM PlanOptimal == Spec => []PlanLocallyOptimal
<1>1. IInv => PlanLocallyOptimal
  BY DEF IInv, PlanKept, PlanLocallyOptimal
<1>2. QED BY Invariant, <1>1, PTL

-----------------------------------------------------------------------------
(* The simulation where nothing happens.                                   *)

(* Between two points of the file without live nodes the simulation rests. *)
LEMMA RunRests ==
  ASSUME NEW p, WellFormed(p), NEW trial \in Plans(p), NEW run, Running(p, trial, run),
         NEW a \in 0 .. p.count, NEW b \in a .. p.count,
         \A n \in trial.live : ~ (a <= n /\ n < b)
  PROVE  run[b] = run[a]
<1> DEFINE N == p.count
           B == {k \in a .. b : run[k] # run[a]}
<1>1. N \in Nat /\ a \in Nat /\ b \in Nat /\ a <= b /\ b <= N
  BY DEF WellFormed
<1> HIDE DEF N
<1>2. B = {}
  <2> SUFFICES ASSUME B # {} PROVE FALSE
    OBVIOUS
  <2>1. B \subseteq Nat
    BY <1>1
  <2>2. PICK k \in B : \A j \in B : k <= j
    BY <2>1, LeastNat
  <2>3. k \in a + 1 .. b /\ k - 1 \in a .. b /\ k - 1 < k /\ k \in 1 .. N
    BY <1>1, <2>2
  <2>4. run[k - 1] = run[a]
    BY <2>2, <2>3
  <2>5. k - 1 \notin trial.live
    BY <1>1, <2>3
  <2>6. run[k] = run[k - 1]
    BY <2>3, <2>5 DEF Running, N
  <2>7. QED BY <2>2, <2>4, <2>6
<1>3. b \in a .. b
  BY <1>1
<1>4. QED BY <1>2, <1>3

(* Of the operands of n after the first a, up to b, each leaves room in s. *)
NoneLate(p, cost, n, s, a, b) ==
  /\ a \in 0 .. Len(p.parents[n]) /\ b \in a .. Len(p.parents[n])
  /\ \A k \in a + 1 .. b : ~ (s.current[p.parents[n][k]] + cost > Ceiling)
Unmoved(s, t) == t.current = s.current /\ t.refreshes = s.refreshes

(* Operands that leave room change neither levels nor the count.           *)
LEMMA ReadRests ==
  ASSUME NEW p, WellFormed(p), NEW cost \in Int, NEW s \in States(p), NEW n \in Nodes(p),
         NEW read, Reading(p, cost, s, n, read),
         NEW a, NEW b, NoneLate(p, cost, n, read[a], a, b)
  PROVE  Unmoved(read[a], read[b])
<1> DEFINE N == Len(p.parents[n])
           Same(k) == read[k].current = read[a].current /\ read[k].refreshes = read[a].refreshes
           B == {k \in a .. b : ~ Same(k)}
<1>1. N \in Nat
  BY ReadingExists
<1>2. a \in Nat /\ b \in Nat /\ a <= b /\ b <= N
  BY <1>1 DEF NoneLate
<1>3. B = {}
  <2> HIDE DEF N
  <2> SUFFICES ASSUME B # {} PROVE FALSE
    OBVIOUS
  <2>1. B \subseteq Nat
    BY <1>2
  <2>2. PICK k \in B : \A j \in B : k <= j
    BY <2>1, LeastNat
  <2>3. k \in a + 1 .. b /\ k - 1 \in a .. b /\ k - 1 < k /\ k \in 1 .. N /\ k - 1 \in 0 .. N
    BY <1>1, <1>2, <2>2
  <2> DEFINE t == read[k - 1]
             m == p.parents[n][k]
  <2>4. Same(k - 1)
    BY <2>2, <2>3
  <2>5. t \in States(p) /\ m \in Nodes(p) /\ read[k] = ReadOperand(cost, t, m)
    BY <2>3 DEF Reading, N
  <2>6. ~ (t.current[m] + cost > Ceiling)
    BY <2>3, <2>4 DEF NoneLate
  <2> HIDE DEF t, m
  <2>7. /\ ReadOperand(cost, t, m).current = t.current
        /\ ReadOperand(cost, t, m).refreshes = t.refreshes
    BY <2>5, <2>6, ReadPasses
  <2>8. Same(k)
    BY <2>4, <2>5, <2>7 DEF t
  <2>9. QED BY <2>2, <2>8
<1>4. b \in a .. b
  BY <1>2
<1>5. QED BY <1>3, <1>4 DEF Unmoved

(* Of the operands of n after the first a, the k-th is the first that      *)
(* leaves no room in state s; and what its refresh makes of s.             *)
FirstLate(p, cost, n, s, a, k) ==
  /\ a \in 0 .. Len(p.parents[n]) /\ k \in 1 .. Len(p.parents[n]) /\ a < k
  /\ \A j \in 1 .. Len(p.parents[n]) :
       a < j /\ j < k => ~ (s.current[p.parents[n][j]] + cost > Ceiling)
  /\ s.current[p.parents[n][k]] + cost > Ceiling
OneRefreshed(p, s, m, t) ==
  /\ \A j \in Nodes(p) : t.current[j] = IF j = m THEN Refreshed ELSE s.current[j]
  /\ t.refreshes = s.refreshes + 1

(* The first operand that leaves no room is refreshed, and only that one.  *)
LEMMA ReadNext ==
  ASSUME NEW p, WellFormed(p), NEW cost \in Int, NEW s \in States(p), NEW n \in Nodes(p),
         NEW read, Reading(p, cost, s, n, read),
         NEW a, NEW k, FirstLate(p, cost, n, read[a], a, k)
  PROVE  OneRefreshed(p, read[a], p.parents[n][k], read[k])
<1> DEFINE N == Len(p.parents[n])
           m == p.parents[n][k]
           b == k - 1
<1>1. N \in Nat
  BY ReadingExists
<1>2. /\ a \in 0 .. N /\ k \in 1 .. N /\ a < k
      /\ \A j \in 1 .. N :
           a < j /\ j < k => ~ (read[a].current[p.parents[n][j]] + cost > Ceiling)
      /\ read[a].current[m] + cost > Ceiling
  BY DEF FirstLate
<1> HIDE DEF N
<1>3. k \in 1 .. N /\ b \in 0 .. N /\ b \in a .. N
  BY <1>1, <1>2
<1>4. read[b].current = read[a].current /\ read[b].refreshes = read[a].refreshes
  <2> HIDE DEF b
  <2>1. \A j \in a + 1 .. b : ~ (read[a].current[p.parents[n][j]] + cost > Ceiling)
    <3>1. \A j \in a + 1 .. b : j \in 1 .. N /\ a < j /\ j < k
      BY <1>1, <1>2 DEF b
    <3>2. QED BY <1>2, <3>1
  <2>2. NoneLate(p, cost, n, read[a], a, b)
    BY <1>2, <1>3, <2>1 DEF N, NoneLate
  <2>3. QED BY <2>2, ReadRests DEF Unmoved
<1>5. m \in Nodes(p) /\ read[k] = ReadOperand(cost, read[b], m) /\ read[b] \in States(p)
  BY <1>3 DEF Reading, N
<1> HIDE DEF b, m
<1>6. read[b].current[m] + cost > Ceiling
  BY <1>2, <1>4
<1>7. /\ \A j \in Nodes(p) : read[k].current[j] = IF j = m THEN Refreshed ELSE read[b].current[j]
      /\ read[k].refreshes = read[b].refreshes + 1
  <2> DEFINE t == read[b]
  <2>1. t \in States(p) /\ t.current[m] + cost > Ceiling
    BY <1>5, <1>6
  <2> HIDE DEF t
  <2>2. /\ \A j \in Nodes(p) : ReadOperand(cost, t, m).current[j]
                               = IF j = m THEN Refreshed ELSE t.current[j]
        /\ ReadOperand(cost, t, m).refreshes = t.refreshes + 1
    BY <1>5, <2>1, ReadRefreshes
  <2>3. QED BY <1>5, <2>2 DEF t
<1>8. QED BY <1>4, <1>7 DEF m, OneRefreshed

(* The level of an operand joins the level of the operation as it is left. *)
LEMMA ReadJoins ==
  ASSUME NEW p, NEW cost \in Int, NEW s \in States(p), NEW m \in Nodes(p)
  PROVE  LET t == ReadOperand(cost, s, m)
         IN  t.level = Max({s.level, t.current[m]})
<1> DEFINE t == ReadOperand(cost, s, m)
           late == s.current[m] + cost > Ceiling
           x == IF late THEN Refreshed ELSE s.current[m]
<1>1. /\ t.current = IF late THEN [s.current EXCEPT ![m] = Refreshed] ELSE s.current
      /\ t.level = Max({s.level, x})
  BY ReadFields
<1>2. s.current \in [Nodes(p) -> Int]
  BY DEF States
<1> HIDE DEF t, late
<1>3. t.current[m] = x
  BY <1>1, <1>2
<1>4. QED BY <1>1, <1>3 DEF t

(* An operand that was read is not refreshed again for the same operation. *)
LEMMA ReadOnce ==
  ASSUME NEW p, NEW cost \in Int, cost + Refreshed <= Ceiling, NEW s \in States(p),
         NEW m \in Nodes(p), NEW n \in Nodes(p)
  PROVE  LET t == ReadOperand(cost, s, m)
         IN  ReadOperand(cost, t, n).current[m] = t.current[m]
<1> DEFINE t == ReadOperand(cost, s, m)
           late == s.current[m] + cost > Ceiling
           again == t.current[n] + cost > Ceiling
<1>1. t \in States(p)
  BY ReadType
<1>2. ~ (t.current[m] + cost > Ceiling)
  <2>1. CASE late
    <3>1. t.current[m] = Refreshed
      BY <2>1, ReadRefreshes
    <3>2. Refreshed \in Int /\ Ceiling \in Int
      BY PolicyAssumption
    <3> HIDE DEF t
    <3>3. QED BY <3>1, <3>2
  <2>2. CASE ~ late
    <3>1. t.current = s.current
      BY <2>2, ReadPasses
    <3>2. QED BY <2>2, <3>1
  <2>3. QED BY <2>1, <2>2
<1> HIDE DEF t
<1>3. CASE again
  <2>1. ReadOperand(cost, t, n).current[m] = IF m = n THEN Refreshed ELSE t.current[m]
    BY <1>1, <1>3, ReadRefreshes
  <2>2. m # n
    BY <1>2, <1>3
  <2>3. QED BY <2>1, <2>2 DEF t
<1>4. CASE ~ again
  <2>1. ReadOperand(cost, t, n).current = t.current
    BY <1>1, <1>4, ReadPasses
  <2>2. QED BY <2>1 DEF t
<1>5. QED BY <1>3, <1>4

(* The level an operation is made above: the deepest operand as it is left *)
(* after all were read.                                                    *)
Joined(ops, t) ==
  /\ Len(ops) = 0 => t.level = Fresh
  /\ Len(ops) = 1 => t.level = Max({Fresh, t.current[ops[1]]})
  /\ Len(ops) = 2 => t.level = Max({Max({Fresh, t.current[ops[1]]}), t.current[ops[2]]})

(* Reading all operands leaves that level.                                 *)
LEMMA ReadsLevel ==
  ASSUME NEW p, WellFormed(p), NEW cost \in Int, cost + Refreshed <= Ceiling,
         NEW s \in States(p), NEW n \in Nodes(p)
  PROVE  Joined(p.parents[n], ReadOperands(p, cost, s, n))
<1> DEFINE ops == p.parents[n]
           N == Len(ops)
           t == ReadOperands(p, cost, s, n)
<1> SUFFICES Joined(ops, t)
  OBVIOUS
<1>1. PICK read : Reading(p, cost, s, n, read)
  BY ReadingExists
<1>2. /\ read \in [0 .. N -> States(p)] /\ read[0] = [s EXCEPT !.level = Fresh]
      /\ \A k \in 1 .. N : ops[k] \in Nodes(p) /\ read[k] = ReadOperand(cost, read[k - 1], ops[k])
      /\ t = read[N]
  BY <1>1 DEF Reading
<1> HIDE DEF Joined, N
<1>3. read[0].level = Fresh
  BY <1>2 DEF States
<1>4. ASSUME NEW k \in 1 .. 2, N \in 1 .. 2, k <= N
      PROVE  /\ ops[k] \in Nodes(p) /\ read[k - 1] \in States(p)
             /\ read[k] = ReadOperand(cost, read[k - 1], ops[k])
             /\ read[k].level = Max({read[k - 1].level, read[k].current[ops[k]]})
  <2>1. k \in 1 .. N /\ k - 1 \in 0 .. N
    BY <1>4
  <2>2. /\ ops[k] \in Nodes(p) /\ read[k - 1] \in States(p)
        /\ read[k] = ReadOperand(cost, read[k - 1], ops[k])
    BY <1>2, <2>1
  <2>3. QED BY <2>2, ReadJoins
<1>5. CASE N = 0
  <2>1. t.level = Fresh
    BY <1>2, <1>3, <1>5
  <2>2. N # 1 /\ N # 2
    BY <1>5
  <2>3. QED BY <2>1, <2>2 DEF Joined, N
<1>6. CASE N = 1
  <2>1. read[1].level = Max({read[0].level, read[1].current[ops[1]]})
    <3>1. 1 \in 1 .. 2 /\ N \in 1 .. 2 /\ 1 <= N /\ 1 - 1 = 0
      BY <1>6
    <3>2. read[1].level = Max({read[1 - 1].level, read[1].current[ops[1]]})
      BY <1>4, <3>1
    <3>3. QED BY <3>1, <3>2
  <2>2. QED BY <1>2, <1>3, <1>6, <2>1 DEF Joined, N
<1>7. CASE N = 2
  <2>0. 1 \in 1 .. 2 /\ 2 \in 1 .. 2 /\ N \in 1 .. 2 /\ 1 <= N /\ 2 <= N /\ 1 - 1 = 0 /\ 2 - 1 = 1
    BY <1>7
  <2>1. /\ ops[1] \in Nodes(p) /\ read[0] \in States(p)
        /\ read[1] = ReadOperand(cost, read[0], ops[1])
        /\ read[1].level = Max({read[0].level, read[1].current[ops[1]]})
    <3>1. /\ ops[1] \in Nodes(p) /\ read[1 - 1] \in States(p)
          /\ read[1] = ReadOperand(cost, read[1 - 1], ops[1])
          /\ read[1].level = Max({read[1 - 1].level, read[1].current[ops[1]]})
      BY <1>4, <2>0
    <3>2. QED BY <2>0, <3>1
  <2>2. /\ ops[2] \in Nodes(p)
        /\ read[2] = ReadOperand(cost, read[1], ops[2])
        /\ read[2].level = Max({read[1].level, read[2].current[ops[2]]})
    <3>1. /\ ops[2] \in Nodes(p)
          /\ read[2] = ReadOperand(cost, read[2 - 1], ops[2])
          /\ read[2].level = Max({read[2 - 1].level, read[2].current[ops[2]]})
      BY <1>4, <2>0
    <3>2. QED BY <2>0, <3>1
  <2>3. read[2].current[ops[1]] = read[1].current[ops[1]]
    <3>1. read[0] \in States(p) /\ ops[1] \in Nodes(p) /\ ops[2] \in Nodes(p)
      BY <2>1, <2>2
    <3>2. ReadOperand(cost, ReadOperand(cost, read[0], ops[1]), ops[2]).current[ops[1]]
            = ReadOperand(cost, read[0], ops[1]).current[ops[1]]
      BY <3>1, ReadOnce
    <3>3. QED BY <2>1, <2>2, <3>2
  <2>4. t = read[2]
    BY <1>2, <1>7
  <2>5. QED BY <1>3, <1>7, <2>1, <2>2, <2>3, <2>4 DEF Joined, N
<1>8. (N = 0 \/ N = 1 \/ N = 2) \/ (N # 0 /\ N # 1 /\ N # 2)
  OBVIOUS
<1>9. QED BY <1>5, <1>6, <1>7, <1>8 DEF Joined, N

(* A node keeps the level it was made at until it is refreshed.            *)
LEMMA KeptLevel ==
  ASSUME NEW p, WellFormed(p), NEW trial \in Plans(p), NEW run, Running(p, trial, run),
         NEW n \in trial.live
  PROVE  \A k \in n + 1 .. p.count :
           run[k].current[n] \in {run[p.count].produced[n], Refreshed}
<1> DEFINE N == p.count
           P == run[n + 1].produced[n]
           B == {k \in n + 1 .. N : run[k].current[n] \notin {P, Refreshed}}
<1>1. n \in Nodes(p) /\ trial.live \subseteq Nodes(p)
  BY DEF Plans
<1>2. N \in Nat /\ n \in Nat /\ n + 1 <= N
  BY <1>1 DEF WellFormed, Nodes
<1>3. P = run[N].produced[n]
  <2>1. N \in n + 1 .. N
    BY <1>2
  <2>2. QED BY <1>1, <2>1, ProducedOnce
<1> HIDE DEF N
<1>4. run[n + 1].current[n] = P
  <2>1. n + 1 \in 1 .. N /\ (n + 1) - 1 = n /\ n \in 0 .. N
    BY <1>2
  <2>2. run[n + 1] = SimulateNode(p, trial, run[n], n) /\ run[n] \in States(p)
    BY <2>1 DEF Running, N
  <2>3. /\ SimulateNode(p, trial, run[n], n).current[n] = KeptAt(p, trial, run[n], n)
        /\ SimulateNode(p, trial, run[n], n).produced[n] = KeptAt(p, trial, run[n], n)
    BY <1>1, <2>2, NodeType
  <2>4. QED BY <2>2, <2>3
<1> HIDE DEF P
<1>5. B = {}
  <2> SUFFICES ASSUME B # {} PROVE FALSE
    OBVIOUS
  <2>1. B \subseteq Nat
    BY <1>2
  <2>2. PICK k \in B : \A j \in B : k <= j
    BY <2>1, LeastNat
  <2>3. k \in n + 1 .. N /\ k # n + 1
    BY <1>4, <2>2
  <2>4. k - 1 \in n + 1 .. N /\ k - 1 < k /\ k - 1 # n /\ k \in 1 .. N /\ k - 1 \in 0 .. N
    BY <1>2, <2>3
  <2> DEFINE s == run[k - 1]
             m == k - 1
             r == AfterReads(p, trial, s, m)
  <2>5. s.current[n] \in {P, Refreshed}
    BY <2>2, <2>4
  <2>6. m \in Nodes(p)
    BY <1>2, <2>4 DEF N, Nodes
  <2>7. s \in States(p)
    BY <2>4 DEF Running, N
  <2>8. run[k] = IF m \in trial.live THEN SimulateNode(p, trial, s, m) ELSE s
    BY <2>4 DEF Running, N
  <2>9. m # n
    BY <2>4
  <2> HIDE DEF s, m
  <2>10. r.current[n] \in {s.current[n], Refreshed}
    <3>1. trial.cost[m] \in Int
      BY <2>6 DEF Plans
    <3>2. ReadOperands(p, trial.cost[m], s, m).current[n] \in {s.current[n], Refreshed}
      BY <1>1, <2>6, <2>7, <3>1, ReadsType
    <3>3. QED BY <3>2 DEF AfterReads
  <2> HIDE DEF r
  <2>11. SimulateNode(p, trial, s, m).current[n] = r.current[n]
    BY <1>1, <2>6, <2>7, <2>9, NodeType DEF r
  <2>12. run[k].current[n] \in {P, Refreshed}
    BY <2>5, <2>8, <2>10, <2>11
  <2>13. QED BY <2>2, <2>12
<1>6. QED BY <1>3, <1>5 DEF N

(* Two points of the file with the same live nodes before them.            *)
LEMMA SamePoint ==
  ASSUME NEW p, WellFormed(p), NEW trial \in Plans(p), NEW run, Running(p, trial, run),
         NEW a \in 0 .. p.count, NEW b \in 0 .. p.count,
         \A n \in trial.live : n < a <=> n < b
  PROVE  run[a] = run[b]
<1>1. p.count \in Nat /\ trial.live \subseteq Nat
  BY DEF WellFormed, Plans, Nodes
<1>2. CASE a <= b
  <2>1. b \in a .. p.count /\ \A n \in trial.live : ~ (a <= n /\ n < b)
    BY <1>1, <1>2
  <2>2. QED BY <2>1, RunRests
<1>3. CASE b <= a
  <2>1. a \in b .. p.count /\ \A n \in trial.live : ~ (b <= n /\ n < a)
    BY <1>1, <1>3
  <2>2. QED BY <2>1, RunRests
<1>4. QED BY <1>1, <1>2, <1>3

-----------------------------------------------------------------------------
(* The execution follows the plan: in file order without batches, where    *)
(* every bootstrap returns the level the plan counts with.                 *)

(* The simulation has the levels of the values held, and the count.        *)
Matches(s, M) ==
  /\ \A n \in M : heap[values[n]].level = s.current[n]
  /\ refreshes = s.refreshes

(* Where the loop is, the simulation has been.                             *)
RunFollowed(run) ==
  /\ phase = "idle" =>
       \E k \in 0 .. program.count : /\ \A n \in live : n \in done <=> n < k
                                     /\ Matches(run[k], Held)
  /\ phase = "operands" =>
       /\ operand \in 1 .. Len(program.parents[current]) + 1
       /\ program.op[current] = "feedback" => Matches(run[current], Held)
       /\ program.op[current] # "feedback" =>
            \A read : Reading(program, plan.cost[current], run[current], current, read) =>
                        Matches(read[operand - 1], Held)
  /\ phase = "produced" =>
       /\ Matches(AfterReads(program, plan, run[current], current), Held \ {current})
       /\ heap[values[current]].level = MadeAt(program, plan, run[current], current)
  /\ phase = "hoisted" => Matches(run[current + 1], Held)

(* As long as what was made has spent the levels it was counted with.      *)
MetSoFar ==
  \A n \in live : n \in done \/ (Made /\ n = current) => Spent(n) = plan.cost[n]
PlanFollowed ==
  ~ options.batch =>
    /\ phase = "planning" => refreshes = 0 /\ live \cap done = {}
    /\ phase # "planning" /\ MetSoFar =>
         \A run : Running(program, plan, run) => RunFollowed(run)

(* What holds of a run without batches.                                    *)
LEMMA FollowFacts ==
  ASSUME BootLevels = {Refreshed}, IInv, ~ options.batch
  PROVE  /\ ~ options.frontier
         /\ WellFormed(program) /\ program.count \in Nat /\ Nodes(program) = 0 .. program.count - 1
         /\ plan \in Plans(program) /\ plan.live = live /\ live \subseteq Nodes(program)
         /\ plan.cost = Cost(program)
         /\ \A n \in Nodes(program) : /\ plan.cost[n] \in 0 .. Ceiling
                                      /\ plan.cost[n] + Refreshed <= Ceiling
         /\ heap \in Heaps /\ values \in [Nodes(program) -> 0 .. Len(heap)]
         /\ Ceiling \in Nat /\ Refreshed \in Nat
<1>1. TypeOK /\ OrderKept /\ PredictionCurrent
  BY DEF IInv, PlanKept
<1>2. ~ options.frontier
  BY <1>1, ExecutorAssumption DEF TypeOK
<1>3. /\ WellFormed(program) /\ program.count \in Nat
      /\ Nodes(program) = 0 .. program.count - 1
      /\ live = Live(program) /\ live \subseteq Nodes(program) /\ program \in Programs
  BY <1>1, OrderFacts
<1>4. /\ plan \in Plans(program) /\ plan.cost = Cost(program) /\ plan.live = live
      /\ heap \in Heaps /\ values \in [Nodes(program) -> 0 .. Len(heap)]
  BY <1>1, <1>3 DEF TypeOK, PredictionCurrent, Heaps
<1>5. Ceiling \in Nat /\ Refreshed \in Nat
  BY PolicyAssumption
<1>6. ASSUME NEW n \in Nodes(program)
      PROVE  plan.cost[n] \in 0 .. Ceiling /\ plan.cost[n] + Refreshed <= Ceiling
  <2>1. Cost(program)[n] \in 0 .. Ceiling /\ Refreshed + Cost(program)[n] <= Ceiling
    BY <1>3, BootFits
  <2> DEFINE c == Cost(program)[n]
  <2> HIDE DEF c
  <2>2. c + Refreshed <= Ceiling
    BY <1>5, <2>1 DEF c
  <2>3. QED BY <1>4, <2>1, <2>2 DEF c
<1>7. QED BY <1>2, <1>3, <1>4, <1>5, <1>6

(* The executor, which counts a fresh value as level 0, finds an operand   *)
(* late exactly where the simulation does.                                 *)
LEMMA LateMeaning ==
  ASSUME heap \in Heaps, values \in [Nodes(program) -> 0 .. Len(heap)], NEW m \in Held
  PROVE  /\ heap[values[m]].level \in -1 .. Ceiling
         /\ \A cost \in 0 .. Ceiling :
              Level(m) + cost > Ceiling <=> heap[values[m]].level + cost > Ceiling
         /\ Level(m) > Refreshed <=> heap[values[m]].level > Refreshed
<1>1. Ceiling \in Nat /\ Refreshed \in Nat
  BY PolicyAssumption
<1>2. Len(heap) \in Nat
  BY DEF Heaps
<1>3. values[m] \in 1 .. Len(heap)
  BY <1>2 DEF Held, Null
<1> DEFINE l == heap[values[m]].level
           v == Level(m)
<1>4. l \in -1 .. Ceiling /\ v \in 0 .. Ceiling /\ v = IF l = -1 THEN 0 ELSE l
  BY <1>3, LevelMeaning
<1> HIDE DEF l, v
<1>5. /\ \A cost \in 0 .. Ceiling : v + cost > Ceiling <=> l + cost > Ceiling
      /\ v > Refreshed <=> l > Refreshed
  BY <1>1, <1>4
<1>6. QED BY <1>4, <1>5 DEF l, v

(* Without batches one value is refreshed.                                 *)
LEMMA RefreshAlone ==
  ASSUME BootLevels = {Refreshed}, TypeOK, ~ options.batch,
         NEW requested \in Held, NEW from, NEW level \in BootLevels,
         RefreshValue(requested, from, level), program' = program
  PROVE  /\ Held' = Held /\ refreshes' = refreshes + 1
         /\ \A m \in Held : heap'[values'[m]].level
                              = IF m = requested THEN Refreshed ELSE heap[values[m]].level
<1>1. requested \in Nodes(program) /\ values[requested] # Null
  BY DEF Held
<1>2. Group(requested, from) = {requested}
  BY DEF Group
<1>3. /\ \A m \in Nodes(program) : values'[m] = Null <=> values[m] = Null
      /\ \A m \in Nodes(program) : values[m] # Null =>
           (m \notin Group(requested, from) => heap'[values'[m]] = heap[values[m]])
      /\ heap'[values'[requested]].level = level
  BY <1>1, RefreshKeeps
<1>4. refreshes' = refreshes + Cardinality(Group(requested, from))
  BY DEF RefreshValue
<1>5. Cardinality({requested}) = 1
  BY FS_Singleton
<1>6. level = Refreshed
  OBVIOUS
<1>7. QED BY <1>2, <1>3, <1>4, <1>5, <1>6 DEF Held

(* Before the search nothing was refreshed and nothing evaluated.          *)
LEMMA InitFollows == Init => PlanFollowed
<1> SUFFICES ASSUME Init PROVE PlanFollowed
  OBVIOUS
<1>1. live = Live(program) /\ done = Nodes(program) \ live
  <2>1. Schedule!Nodes(program) = Nodes(program) /\ Schedule!Live(program) = Live(program)
    BY SameEdges, SameProgram
  <2>2. QED BY <2>1 DEF Init, Schedule!Init
<1>2. phase = "planning" /\ refreshes = 0
  BY DEF Init
<1>3. QED BY <1>1, <1>2 DEF PlanFollowed

(* The search evaluates nothing: the loop starts where the simulation does. *)
LEMMA PlanFollows ==
  ASSUME BootLevels = {Refreshed}, IInv, PlanFollowed, Plan
  PROVE  PlanFollowed'
<1>1. /\ phase = "planning" /\ phase' \in {"planning", "idle"}
      /\ UNCHANGED <<program, schedule, options, current, operand, store, bases,
                     refreshes, unmasked, deepest>>
  BY DEF Plan
<1>2. /\ live' = live /\ done' = done /\ options' = options /\ refreshes' = refreshes
      /\ program' = program /\ Held' = Held
  BY <1>1 DEF schedule, store, Held
<1> SUFFICES ASSUME ~ options.batch
             PROVE  /\ phase' = "planning" => refreshes' = 0 /\ live' \cap done' = {}
                    /\ phase' # "planning" =>
                         \A run : Running(program', plan', run) => RunFollowed(run)'
  BY <1>2 DEF PlanFollowed
<1>3. refreshes = 0 /\ live \cap done = {}
  BY <1>1 DEF PlanFollowed
<1>4. Held = {}
  BY <1>1, <1>3 DEF IInv, HeldAsNeeded, Made, Needed
<1>5. program.count \in Nat /\ live \subseteq Nodes(program) /\ Nodes(program) = 0 .. program.count - 1
  BY FollowFacts
<1>6. ASSUME phase' # "planning", NEW run, Running(program', plan', run)
      PROVE  RunFollowed(run)'
  <2>1. phase' = "idle"
    BY <1>1, <1>6
  <2>2. run[0].refreshes = 0
    BY <1>6 DEF Running
  <2>3. Matches(run[0], Held)'
    BY <1>2, <1>3, <1>4, <2>2 DEF Matches
  <2>4. 0 \in 0 .. program'.count /\ \A n \in live' : n \in done' <=> n < 0
    BY <1>2, <1>3, <1>5
  <2>5. QED BY <2>1, <2>3, <2>4 DEF RunFollowed
<1>7. QED BY <1>2, <1>3, <1>6

(* The node picked is where the simulation has rested since.               *)
LEMMA BeginFollows ==
  ASSUME BootLevels = {Refreshed}, IInv, PlanFollowed, Begin
  PROVE  PlanFollowed'
<1>1. PICK c : c = current'
  OBVIOUS
<1>2. /\ phase = "idle" /\ phase' = "operands" /\ operand' = 1
      /\ UNCHANGED <<program, schedule, options, planning, store, bases, refreshes,
                     unmasked, deepest>>
  BY DEF Begin
<1>3. /\ live' = live /\ done' = done /\ options' = options /\ refreshes' = refreshes
      /\ program' = program /\ plan' = plan /\ values' = values /\ heap' = heap
  BY <1>2 DEF schedule, store, planning
<1>4. Held' = Held /\ \A s, M : Matches(s, M)' <=> Matches(s, M)
  BY <1>3 DEF Held, Matches
<1>met. MetSoFar' => MetSoFar
  BY <1>2, <1>3 DEF MetSoFar, Made, Spent
<1> SUFFICES ASSUME ~ options.batch, MetSoFar, NEW run, Running(program, plan, run)
             PROVE  RunFollowed(run)'
  BY <1>2, <1>3, <1>met DEF PlanFollowed
<1>5. /\ ~ options.frontier /\ WellFormed(program) /\ program.count \in Nat
      /\ Nodes(program) = 0 .. program.count - 1
      /\ plan \in Plans(program) /\ plan.live = live /\ live \subseteq Nodes(program)
      /\ plan.cost[c] \in Nat \/ c \notin Nodes(program)
  BY FollowFacts
<1>6. c \in live \ done /\ \A n \in live \ done : c <= n
  BY <1>1, <1>2, <1>3, <1>5, BeginStep DEF IInv, OrderKept, Working
<1>7. \A m \in live \cap done : m < c
  BY <1>5, <1>6 DEF IInv, OrderKept
<1>8. PICK k \in 0 .. program.count : /\ \A n \in live : n \in done <=> n < k
                                      /\ Matches(run[k], Held)
  BY <1>2 DEF PlanFollowed, RunFollowed
<1>9. c \in 0 .. program.count /\ c \in Nodes(program)
  BY <1>5, <1>6
<1>10. \A n \in live : n < k <=> n < c
  BY <1>5, <1>6, <1>7, <1>8
<1>11. run[k] = run[c]
  BY <1>5, <1>8, <1>9, <1>10, SamePoint
<1>12. Matches(run[c], Held)
  BY <1>8, <1>11
<1>13. run[c] \in States(program)
  BY <1>9 DEF Running
<1>14. 1 \in 1 .. Len(program.parents[c]) + 1
  <2>1. Len(program.parents[c]) \in Nat
    BY <1>5, <1>9 DEF WellFormed
  <2>2. QED BY <2>1
<1>15. ASSUME NEW read, Reading(program, plan.cost[c], run[c], c, read)
       PROVE  Matches(read[0], Held)
  <2>1. read[0].current = run[c].current /\ read[0].refreshes = run[c].refreshes
    BY <1>13, <1>15 DEF Reading, States
  <2>2. QED BY <1>12, <2>1 DEF Matches
<1>16. /\ (operand \in 1 .. Len(program.parents[current]) + 1)'
       /\ (program.op[current] = "feedback" => Matches(run[current], Held))'
       /\ (program.op[current] # "feedback" =>
             \A read : Reading(program, plan.cost[current], run[current], current, read) =>
                         Matches(read[operand - 1], Held))'
  <2>1. Matches(run[c], Held)'
    BY <1>4, <1>12
  <2>2. \A read : Reading(program, plan.cost[c], run[c], c, read) => Matches(read[0], Held)'
    BY <1>4, <1>15
  <2>3. operand' - 1 = 0
    BY <1>2
  <2>4. QED BY <1>1, <1>2, <1>3, <1>14, <2>1, <2>2, <2>3 DEF Matches
<1>17. QED BY <1>2, <1>16 DEF RunFollowed

(* The first late operand is the one the simulation refreshes next.        *)
LEMMA RefreshOperandFollows ==
  ASSUME BootLevels = {Refreshed}, IInv, PlanFollowed,
         NEW level \in BootLevels, RefreshOperand(level)
  PROVE  PlanFollowed'
<1>1. PICK c, k, m, ops, cost, a : /\ c = current /\ k = Min(LateOperands) /\ m = ops[k]
                                   /\ ops = program.parents[current]
                                   /\ cost = plan.cost[current] /\ a = operand - 1
  OBVIOUS
<1>2. /\ phase = "operands" /\ phase' = "operands" /\ LateOperands # {}
      /\ RefreshValue(m, current, level) /\ operand' = k + 1
      /\ UNCHANGED <<program, schedule, options, planning, phase, current, bases>>
  BY <1>1 DEF RefreshOperand
<1>3. /\ options' = options /\ program' = program /\ plan' = plan /\ current' = current
      /\ live' = live /\ done' = done
  BY <1>2 DEF planning, schedule
<1>met. MetSoFar' => MetSoFar
  BY <1>2, <1>3 DEF MetSoFar, Made, Spent
<1> SUFFICES ASSUME ~ options.batch, MetSoFar, NEW run, Running(program, plan, run)
             PROVE  RunFollowed(run)'
  BY <1>2, <1>3, <1>met DEF PlanFollowed
<1>4. /\ WellFormed(program) /\ plan \in Plans(program) /\ Ceiling \in Nat
      /\ heap \in Heaps /\ values \in [Nodes(program) -> 0 .. Len(heap)]
      /\ Nodes(program) = 0 .. program.count - 1 /\ program.count \in Nat
  BY FollowFacts
<1>5. /\ c \in Nodes(program) /\ \A n \in ParentsOf(program, c) : n \in Held
  <2>1. Working /\ ~ Made /\ TypeOK /\ OrderKept /\ HeldAsNeeded
    BY <1>2 DEF Working, Made, IInv
  <2>2. QED BY <1>1, <2>1, OperandsNeeded DEF HeldAsNeeded
<1>6. cost \in 0 .. Ceiling /\ cost \in Int
  BY <1>1, <1>4, <1>5, FollowFacts
<1>7. /\ Len(ops) \in Nat /\ DOMAIN ops = 1 .. Len(ops)
      /\ \A j \in DOMAIN ops : ops[j] \in ParentsOf(program, c)
  <2>1. ops \in Seq(Nodes(program))
    BY <1>1, <1>4, <1>5 DEF WellFormed
  <2>2. \A j \in DOMAIN ops : ops[j] \in ParentsOf(program, c)
    BY <1>1 DEF ParentsOf
  <2>3. QED BY <2>1, <2>2
<1>8. operand \in 1 .. Len(ops) + 1 /\ program.op[current] # "feedback"
  <2>1. RunFollowed(run)
    BY <1>2 DEF PlanFollowed
  <2>2. operand \in 1 .. Len(ops) + 1
    BY <1>1, <1>2, <2>1 DEF RunFollowed
  <2>3. QED BY <1>2, <2>2 DEF LateOperands
<1> DEFINE N == Len(ops)
<1> HIDE DEF N
<1>9. LateOperands = {j \in a + 1 .. N : Level(ops[j]) + cost > Ceiling}
  <2>1. a + 1 = operand
    BY <1>1, <1>7, <1>8 DEF N
  <2>2. QED BY <1>1, <1>8, <2>1 DEF LateOperands, N
<1>10. N \in Nat /\ a \in 0 .. N
  BY <1>1, <1>7, <1>8 DEF N
<1>11. k \in LateOperands /\ \A j \in LateOperands : k <= j
  <2>1. LateOperands \subseteq Nat
    BY <1>9, <1>10
  <2>2. QED BY <1>1, <1>2, <2>1, MinFact
<1>12. /\ k \in 1 .. N /\ a < k /\ Level(ops[k]) + cost > Ceiling
       /\ \A j \in 1 .. N : a < j /\ j < k => ~ (Level(ops[j]) + cost > Ceiling)
  BY <1>9, <1>10, <1>11
<1>13. \A j \in 1 .. N :
         /\ ops[j] \in Held
         /\ Level(ops[j]) + cost > Ceiling <=> heap[values[ops[j]]].level + cost > Ceiling
  BY <1>4, <1>5, <1>6, <1>7, LateMeaning DEF N
<1>14. ASSUME NEW read, Reading(program, cost, run[c], c, read)
       PROVE  Matches(read[k], Held)'
  <2>1. Matches(read[a], Held)
    <3>1. RunFollowed(run)
      BY <1>2 DEF PlanFollowed
    <3>2. QED BY <1>1, <1>2, <1>8, <1>14, <3>1 DEF RunFollowed
  <2>2. /\ \A j \in 1 .. N : a < j /\ j < k => ~ (read[a].current[ops[j]] + cost > Ceiling)
        /\ read[a].current[ops[k]] + cost > Ceiling
    BY <1>12, <1>13, <2>1 DEF Matches
  <2>3. run[c] \in States(program)
    <3>1. c \in 0 .. program.count
      BY <1>4, <1>5
    <3>2. QED BY <3>1 DEF Running
  <2>4. OneRefreshed(program, read[a], m, read[k])
    <3>1. ops = program.parents[c] /\ m = program.parents[c][k]
      BY <1>1
    <3>2. FirstLate(program, cost, c, read[a], a, k)
      BY <1>10, <1>12, <2>2, <3>1 DEF FirstLate, N
    <3>3. QED BY <1>4, <1>5, <1>6, <1>14, <2>3, <3>1, <3>2, ReadNext
  <2>5. /\ Held' = Held /\ refreshes' = refreshes + 1
        /\ \A j \in Held : heap'[values'[j]].level
                             = IF j = m THEN Refreshed ELSE heap[values[j]].level
    <3>1. m \in Held /\ TypeOK
      BY <1>1, <1>12, <1>13 DEF IInv
    <3>2. QED BY <1>2, <1>3, <3>1, RefreshAlone
  <2>6. Held \subseteq Nodes(program)
    BY DEF Held
  <2>7. QED BY <2>1, <2>4, <2>5, <2>6 DEF Matches, OneRefreshed
<1>15. /\ (operand \in 1 .. Len(program.parents[current]) + 1)'
       /\ (program.op[current] = "feedback" => Matches(run[current], Held))'
       /\ (program.op[current] # "feedback" =>
             \A read : Reading(program, plan.cost[current], run[current], current, read) =>
                         Matches(read[operand - 1], Held))'
  <2>1. k + 1 \in 1 .. Len(ops) + 1 /\ operand' - 1 = k
    BY <1>2, <1>10, <1>12 DEF N
  <2>2. QED BY <1>1, <1>2, <1>3, <1>8, <1>14, <2>1 DEF Matches
<1>16. QED BY <1>2, <1>15 DEF RunFollowed

(* A node just made, and refreshed where the plan hoists one, is where the *)
(* simulation is after it.                                                 *)
LEMMA NodeFollowed ==
  ASSUME BootLevels = {Refreshed}, IInv, PlanFollowed, ~ options.batch, MetSoFar,
         phase = "produced", NEW run, Running(program, plan, run)
  PROVE  /\ current \in Nodes(program) /\ current + 1 \in 0 .. program.count
         /\ \A m \in Held \ {current} : run[current + 1].current[m] = heap[values[m]].level
         /\ run[current + 1].current[current]
              = IF HoistDue THEN Refreshed ELSE heap[values[current]].level
         /\ HoistDue => run[current + 1].refreshes = refreshes + 1
         /\ ~ HoistDue => run[current + 1].refreshes = refreshes
<1>1. PICK c, k, s, r : /\ c = current /\ k = c + 1 /\ s = run[c]
                        /\ r = AfterReads(program, plan, s, c)
  OBVIOUS
<1>2. /\ WellFormed(program) /\ plan \in Plans(program) /\ plan.live = live
      /\ Nodes(program) = 0 .. program.count - 1 /\ program.count \in Nat
      /\ live \subseteq Nodes(program)
      /\ heap \in Heaps /\ values \in [Nodes(program) -> 0 .. Len(heap)]
  BY FollowFacts
<1>3. c \in live /\ c \in Held /\ c \in Nodes(program)
  BY <1>1, <1>2 DEF IInv, OrderKept, Working, HeldAsNeeded, Made
<1>4. k \in 1 .. program.count /\ k - 1 = c /\ c \in 0 .. program.count
  BY <1>1, <1>2, <1>3
<1>5. s \in States(program) /\ run[k] = SimulateNode(program, plan, s, c)
  BY <1>1, <1>2, <1>3, <1>4 DEF Running
<1>6. RunFollowed(run)
  BY DEF PlanFollowed
<1>7. /\ \A m \in Held \ {c} : heap[values[m]].level = r.current[m]
      /\ refreshes = r.refreshes
      /\ heap[values[c]].level = MadeAt(program, plan, s, c)
  BY <1>1, <1>6 DEF RunFollowed, Matches
<1> DEFINE made == MadeAt(program, plan, s, c)
           cut == c \in plan.hoists /\ made > Refreshed
           kept == KeptAt(program, plan, s, c)
<1>8. HoistDue <=> cut
  BY <1>1, <1>2, <1>3, <1>7, LateMeaning DEF HoistDue
<1>9. /\ \A m \in Nodes(program) : run[k].current[m] = IF m = c THEN kept ELSE r.current[m]
      /\ cut => run[k].refreshes = r.refreshes + 1
      /\ ~ cut => run[k].refreshes = r.refreshes
  <2> DEFINE t == SimulateNode(program, plan, s, c)
             u == AfterReads(program, plan, s, c)
  <2>1. WellFormed(program) /\ plan \in Plans(program) /\ s \in States(program)
    BY <1>2, <1>5
  <2>2. /\ \A m \in Nodes(program) :
             /\ t.produced[m] = IF m = c THEN kept ELSE s.produced[m]
             /\ t.current[m] = IF m = c THEN kept ELSE u.current[m]
        /\ cut => t.refreshes = u.refreshes + 1
        /\ ~ cut => t.refreshes = u.refreshes
    BY <1>3, <2>1, NodeType
  <2> HIDE DEF t, u
  <2>3. run[k] = t /\ r = u
    BY <1>1, <1>5 DEF t, u
  <2>4. QED BY <2>2, <2>3
<1>10. kept = IF cut THEN Refreshed ELSE made
  BY DEF KeptAt
<1>11. r.refreshes \in Nat
  <2>1. plan.cost[c] \in Int
    BY <1>2, <1>3 DEF Plans
  <2>2. r \in States(program)
    BY <1>1, <1>2, <1>3, <1>5, <2>1, ReadsType DEF AfterReads
  <2>3. QED BY <2>2 DEF States
<1> HIDE DEF cut, made, kept
<1>12. (cut => run[k].refreshes = refreshes + 1) /\ (~ cut => run[k].refreshes = refreshes)
  BY <1>7, <1>9, <1>11
<1>13. Held \subseteq Nodes(program)
  BY DEF Held
<1>14. /\ \A m \in Held \ {c} : run[k].current[m] = heap[values[m]].level
       /\ run[k].current[c] = IF cut THEN Refreshed ELSE heap[values[c]].level
  BY <1>3, <1>7, <1>9, <1>10, <1>13 DEF made
<1>15. QED BY <1>1, <1>3, <1>4, <1>8, <1>12, <1>14

(* A hoisted refresh follows the plan.                                     *)
LEMMA HoistFollows ==
  ASSUME BootLevels = {Refreshed}, IInv, PlanFollowed,
         NEW level \in BootLevels, HoistRefresh(level)
  PROVE  PlanFollowed'
<1>1. PICK c, k : c = current /\ k = c + 1
  OBVIOUS
<1>2. /\ phase = "produced" /\ phase' = "hoisted" /\ RefreshValue(c, k, level) /\ HoistDue
      /\ UNCHANGED <<program, schedule, options, planning, current, operand, bases>>
  BY <1>1 DEF HoistRefresh
<1>3. /\ options' = options /\ program' = program /\ plan' = plan /\ current' = current
      /\ live' = live /\ done' = done
  BY <1>2 DEF planning, schedule
<1>met. MetSoFar' => MetSoFar
  BY <1>2, <1>3 DEF MetSoFar, Made, Spent
<1> SUFFICES ASSUME ~ options.batch, MetSoFar, NEW run, Running(program, plan, run)
             PROVE  RunFollowed(run)'
  BY <1>2, <1>3, <1>met DEF PlanFollowed
<1>4. TypeOK /\ c \in Held
  BY <1>1, <1>2 DEF IInv, HeldAsNeeded, Made
<1>5. /\ Held' = Held /\ refreshes' = refreshes + 1
      /\ \A m \in Held : heap'[values'[m]].level
                           = IF m = c THEN Refreshed ELSE heap[values[m]].level
  BY <1>2, <1>3, <1>4, RefreshAlone
<1>6. /\ \A m \in Held \ {c} : run[k].current[m] = heap[values[m]].level
      /\ run[k].current[c] = Refreshed
      /\ run[k].refreshes = refreshes + 1
  BY <1>1, <1>2, NodeFollowed
<1>7. Matches(run[k], Held)'
  BY <1>5, <1>6 DEF Matches
<1>8. Matches(run[current + 1], Held)'
  BY <1>1, <1>3, <1>7 DEF Matches
<1>9. QED BY <1>2, <1>8 DEF RunFollowed

(* Retiring a node releases values; the simulation is after that node.     *)
LEMMA RetireFollows ==
  ASSUME BootLevels = {Refreshed}, IInv, PlanFollowed, Retire
  PROVE  PlanFollowed'
<1>1. PICK c, k : c = current /\ k = c + 1
  OBVIOUS
<1>2. /\ phase = "hoisted" \/ (phase = "produced" /\ ~ HoistDue)
      /\ phase' = "idle"
      /\ UNCHANGED <<options, planning, heap, refreshes>>
      /\ Working
  BY DEF Retire, Working
<1> SUFFICES ASSUME ~ options.batch, MetSoFar', NEW run, Running(program', plan', run)
             PROVE  RunFollowed(run)'
  BY <1>2 DEF PlanFollowed
<1>3. /\ ~ options.frontier
      /\ Nodes(program) = 0 .. program.count - 1 /\ program.count \in Nat
      /\ live \subseteq Nodes(program)
  BY FollowFacts
<1>4. /\ done' = done \cup {c} /\ program' = program /\ live' = live
      /\ plan' = plan /\ heap' = heap /\ refreshes' = refreshes
      /\ \A m \in Nodes(program) : values'[m] \in {Null, values[m]}
  BY <1>1, <1>2, <1>3 DEF Retire, planning
<1>met. MetSoFar
  <2>1. \A n : Spent(n)' = Spent(n)
    BY <1>4 DEF Spent
  <2>2. QED BY <1>1, <1>2, <1>4, <2>1 DEF MetSoFar
<1>5. c \in live \ done /\ \A n \in live \ done : c <= n
  BY <1>1, <1>2, <1>3 DEF IInv, OrderKept
<1>6. \A m \in live \cap done : m < c
  BY <1>3, <1>5 DEF IInv, OrderKept
<1>7. k \in 0 .. program.count /\ \A n \in live : n \in done' <=> n < k
  BY <1>1, <1>3, <1>4, <1>5, <1>6
<1>8. Matches(run[k], Held)
  <2>1. CASE phase = "hoisted"
    <3>1. RunFollowed(run)
      BY <1>4, <1>met, <2>1 DEF PlanFollowed
    <3>2. QED BY <1>1, <2>1, <3>1 DEF RunFollowed
  <2>2. CASE phase = "produced" /\ ~ HoistDue
    <3>1. Running(program, plan, run)
      BY <1>4
    <3>2. /\ \A m \in Held \ {c} : run[k].current[m] = heap[values[m]].level
          /\ run[k].current[c] = heap[values[c]].level
          /\ run[k].refreshes = refreshes
      BY <1>1, <1>met, <2>2, <3>1, NodeFollowed
    <3>3. QED BY <3>2 DEF Matches
  <2>3. QED BY <1>2, <2>1, <2>2
<1>9. Matches(run[k], Held)'
  <2>1. \A m \in Held' : m \in Held /\ values'[m] = values[m]
    BY <1>4 DEF Held
  <2>2. QED BY <1>4, <1>8, <2>1 DEF Matches
<1>10. QED BY <1>2, <1>4, <1>7, <1>9 DEF RunFollowed

(* Sources and aliases spend no level.                                     *)
LEMMA FreeOperations ==
  ASSUME NEW p, NEW n \in Nodes(p), p.op[n] \in {"input", "public", "alias"}
  PROVE  Cost(p)[n] = 0
<1>1. NodeDepth(p, n) = 0
  BY DEF NodeDepth, Sources
<1>2. n \notin DeferredMask(p)
  BY DEF DeferredMask
<1> DEFINE d == NodeDepth(p, n)
<1> HIDE DEF d
<1>3. Cost(p)[n] = d - 0
  BY <1>2 DEF Cost, d
<1>4. QED BY <1>1, <1>3 DEF d

(* What an operation makes of the levels of its operands.                  *)
LEMMA ApplyMakes ==
  ASSUME IInv, Apply
  PROVE  LET ops   == program.parents[current]
             first == heap[values[ops[1]]].level
             made  == heap'[values'[current]].level
         IN  /\ LeavesOthers
             /\ refreshes' = refreshes \/ refreshes' = refreshes + 0
             /\ program.op[current] \in Sources \cup {"feedback"} => made = Fresh
             /\ program.op[current] \in Binaries =>
                  made = Max({first, heap[values[ops[2]]].level}) + plan.cost[current]
             /\ program.op[current] = "alias" => made = first
             /\ program.op[current] = "gather" => made = first + plan.cost[current]
             /\ program.op[current] \in {"unary", "linear", "cheb"} =>
                  made = first + Spent(current)
<1>1. CASE Gather
  <2>1. program.op[current] = "gather"
    BY <1>1 DEF Gather
  <2>2. QED BY <1>1, <2>1, GatherStep DEF Sources, Binaries
<1>2. CASE Source /\ UNCHANGED <<refreshes, unmasked>>
  <2>1. program.op[current] \in {"input", "public", "feedback"}
    BY <1>2 DEF Source, Sources
  <2>2. QED BY <1>2, <2>1, SourceStep DEF Sources, Binaries
<1>3. CASE Binary /\ UNCHANGED <<refreshes, unmasked>>
  <2>1. program.op[current] \in {"add", "mul"}
    BY <1>3 DEF Binary, Binaries
  <2>2. QED BY <1>3, <2>1, BinaryStep DEF Sources, Binaries
<1>4. CASE Alias /\ UNCHANGED <<refreshes, unmasked>>
  <2>1. program.op[current] = "alias"
    BY <1>4 DEF Alias
  <2>2. QED BY <1>4, <2>1, AliasStep DEF Sources, Binaries
<1>5. CASE Unary /\ UNCHANGED <<refreshes, unmasked>>
  <2>1. program.op[current] \in {"unary", "linear"}
    BY <1>5 DEF Unary
  <2>2. QED BY <1>5, <2>1, UnaryStep DEF Sources, Binaries
<1>6. CASE Chebyshev /\ UNCHANGED <<refreshes, unmasked>>
  <2>1. program.op[current] = "cheb"
    BY <1>6 DEF Chebyshev
  <2>2. QED BY <1>6, <2>1, ChebyshevStep DEF Sources, Binaries
<1>7. QED BY <1>1, <1>2, <1>3, <1>4, <1>5, <1>6 DEF Apply

(* The level an operation is made at is the simulation's, given that the   *)
(* simulation has the levels of its operands.                              *)
LEMMA SameLevel ==
  ASSUME BootLevels = {Refreshed}, IInv, ~ options.batch, Apply,
         program.op[current] # "feedback", Spent(current) = plan.cost[current],
         NEW s \in States(program),
         NEW t, t = ReadOperands(program, plan.cost[current], s, current),
         \A m \in ParentsOf(program, current) :
           t.current[m] = heap[values[m]].level /\ heap[values[m]].level \in -1 .. Ceiling
  PROVE  heap'[values'[current]].level = t.level + plan.cost[current]
<1>1. PICK c, ops, cost, made : /\ c = current /\ ops = program.parents[c]
                                /\ cost = plan.cost[c] /\ made = heap'[values'[current]].level
  OBVIOUS
<1>2. /\ WellFormed(program) /\ plan.cost = Cost(program) /\ live \subseteq Nodes(program)
      /\ Ceiling \in Nat /\ Refreshed \in Nat
  BY FollowFacts
<1>3. c \in Nodes(program)
  <2>1. OrderKept /\ Working
    BY DEF IInv, Apply, Working
  <2>2. QED BY <1>1, <1>2, <2>1 DEF OrderKept
<1>4. cost \in 0 .. Ceiling /\ cost \in Int /\ cost + Refreshed <= Ceiling
  BY <1>1, <1>3, FollowFacts
<1>5. /\ program.op[c] \in Ops /\ Len(ops) = Arity(program.op[c])
      /\ ops \in Seq(Nodes(program))
  BY <1>1, <1>2, <1>3 DEF WellFormed
<1>6. /\ Len(ops) = 0 => t.level = Fresh
      /\ Len(ops) = 1 => t.level = Max({Fresh, t.current[ops[1]]})
      /\ Len(ops) = 2 => t.level = Max({Max({Fresh, t.current[ops[1]]}), t.current[ops[2]]})
  <2> DEFINE u == ReadOperands(program, cost, s, c)
             o == program.parents[c]
  <2>1. WellFormed(program) /\ cost \in Int /\ cost + Refreshed <= Ceiling
    BY <1>2, <1>4
  <2>2. Joined(o, u)
    BY <1>3, <2>1, ReadsLevel
  <2>3. u = t /\ o = ops
    BY <1>1
  <2> HIDE DEF u, o
  <2>4. QED BY <2>2, <2>3 DEF Joined
<1> DEFINE first == heap[values[ops[1]]].level
           second == heap[values[ops[2]]].level
<1>7. /\ program.op[c] \in Sources \cup {"feedback"} => made = Fresh
      /\ program.op[c] \in Binaries => made = Max({first, second}) + cost
      /\ program.op[c] = "alias" => made = first
      /\ program.op[c] \in {"unary", "linear", "cheb", "gather"} => made = first + cost
  BY <1>1, ApplyMakes
<1>8. Len(ops) = 1 \/ Len(ops) = 2 => first \in -1 .. Ceiling /\ t.current[ops[1]] = first
  <2>1. Len(ops) = 1 \/ Len(ops) = 2 => ops[1] \in ParentsOf(program, c)
    BY <1>1, <1>5 DEF ParentsOf
  <2>2. QED BY <1>1, <2>1
<1>9. Len(ops) = 2 => second \in -1 .. Ceiling /\ t.current[ops[2]] = second
  <2>1. Len(ops) = 2 => ops[2] \in ParentsOf(program, c)
    BY <1>1, <1>5 DEF ParentsOf
  <2>2. QED BY <1>1, <2>1
<1> HIDE DEF first, second
<1>10. Fresh = -1 /\ Fresh \in Int
  BY DEF Fresh
<1>11. CASE program.op[c] \in {"input", "public"}
  <2>1. Len(ops) = 0 /\ program.op[c] \in Sources
    BY <1>5, <1>11 DEF Arity, Sources
  <2>2. cost = 0
    BY <1>1, <1>2, <1>3, <1>11, FreeOperations
  <2>3. made = Fresh /\ t.level = Fresh
    BY <1>6, <1>7, <2>1
  <2>4. QED BY <1>1, <1>10, <2>2, <2>3
<1>12. CASE program.op[c] \in {"add", "mul"}
  <2>1. Len(ops) = 2 /\ program.op[c] \in Binaries
    BY <1>5, <1>12 DEF Arity, Sources, Binaries
  <2>2. first \in -1 .. Ceiling /\ second \in -1 .. Ceiling
    BY <1>8, <1>9, <2>1
  <2>3. Max({Fresh, first}) = first
    BY <1>2, <1>10, <2>2, MaxOfTwo
  <2>4. t.level = Max({first, second})
    BY <1>6, <1>8, <1>9, <2>1, <2>3
  <2>5. QED BY <1>1, <1>7, <2>1, <2>4
<1>13. CASE program.op[c] \in {"unary", "linear", "cheb", "gather", "alias"}
  <2>1. Len(ops) = 1
    BY <1>5, <1>13 DEF Arity, Sources, Binaries
  <2>2. first \in -1 .. Ceiling
    BY <1>8, <2>1
  <2>3. Max({Fresh, first}) = first
    BY <1>2, <1>10, <2>2, MaxOfTwo
  <2>4. t.level = first
    BY <1>6, <1>8, <2>1, <2>3
  <2>5. program.op[c] = "alias" => cost = 0
    BY <1>1, <1>2, <1>3, FreeOperations
  <2>6. made = first + cost
    BY <1>2, <1>7, <1>13, <2>2, <2>5
  <2>7. QED BY <1>1, <2>4, <2>6
<1>14. program.op[c] # "feedback"
  BY <1>1
<1>15. QED BY <1>5, <1>11, <1>12, <1>13, <1>14 DEF Ops, Sources, Binaries, Unaries

(* The operation is applied where the simulation has read all operands.    *)
LEMMA AllRead ==
  ASSUME BootLevels = {Refreshed}, IInv, ~ options.batch,
         phase = "operands", LateOperands = {}, program.op[current] # "feedback",
         NEW run, Running(program, plan, run), RunFollowed(run)
  PROVE  Matches(AfterReads(program, plan, run[current], current), Held)
<1>1. PICK c, cost, a, s, ops : /\ c = current /\ cost = plan.cost[c] /\ a = operand - 1
                                /\ s = run[c] /\ ops = program.parents[c]
  OBVIOUS
<1>2. /\ WellFormed(program) /\ Ceiling \in Nat
      /\ heap \in Heaps /\ values \in [Nodes(program) -> 0 .. Len(heap)]
      /\ Nodes(program) = 0 .. program.count - 1 /\ program.count \in Nat
  BY FollowFacts
<1>3. /\ c \in Nodes(program)
      /\ \A n \in ParentsOf(program, c) : n \in Held
  <2>1. Working /\ ~ Made /\ TypeOK /\ OrderKept /\ HeldAsNeeded
    BY DEF Working, Made, IInv
  <2>2. QED BY <1>1, <2>1, OperandsNeeded DEF HeldAsNeeded
<1>4. cost \in 0 .. Ceiling /\ cost \in Int
  BY <1>1, <1>2, <1>3, FollowFacts
<1>5. s \in States(program)
  <2>1. c \in 0 .. program.count
    BY <1>2, <1>3
  <2>2. QED BY <1>1, <2>1 DEF Running
<1>6. Len(program.parents[c]) \in Nat
  BY <1>2, <1>3, <1>4, <1>5, ReadingExists
<1>7. PICK read : Reading(program, cost, s, c, read)
  BY <1>2, <1>3, <1>4, <1>5, ReadingExists
<1> DEFINE N == Len(program.parents[c])
<1>8. operand \in 1 .. N + 1 /\ Matches(read[a], Held)
  BY <1>1, <1>7 DEF RunFollowed
<1>9. /\ \A j \in 1 .. N : ops[j] \in ParentsOf(program, c)
  <2>1. ops \in Seq(Nodes(program))
    BY <1>1, <1>2, <1>3 DEF WellFormed
  <2>2. QED BY <1>1, <2>1 DEF ParentsOf
<1>10. \A j \in operand .. N : ~ (Level(ops[j]) + cost > Ceiling)
  BY <1>1 DEF LateOperands
<1> HIDE DEF N
<1>11. N \in Nat /\ a \in 0 .. N /\ N \in a .. N /\ operand = a + 1
  BY <1>1, <1>6, <1>8 DEF N
<1>12. ASSUME NEW j \in a + 1 .. N
       PROVE  ~ (read[a].current[ops[j]] + cost > Ceiling)
  <2>1. j \in 1 .. N /\ j \in operand .. N
    BY <1>11, <1>12
  <2>2. ops[j] \in Held
    BY <1>3, <1>9, <2>1
  <2>3. ~ (heap[values[ops[j]]].level + cost > Ceiling)
    BY <1>2, <1>4, <1>10, <2>1, <2>2, LateMeaning
  <2>4. QED BY <1>8, <2>2, <2>3 DEF Matches
<1>13. \A j \in a + 1 .. N : ~ (read[a].current[program.parents[c][j]] + cost > Ceiling)
  BY <1>1, <1>12
<1>14. read[N].current = read[a].current /\ read[N].refreshes = read[a].refreshes
  <2>1. PICK b : b = N
    OBVIOUS
  <2>2. a \in 0 .. Len(program.parents[c]) /\ b \in a .. Len(program.parents[c])
    BY <1>11, <2>1 DEF N
  <2>3. \A j \in a + 1 .. b : ~ (read[a].current[program.parents[c][j]] + cost > Ceiling)
    BY <1>13, <2>1
  <2>4. NoneLate(program, cost, c, read[a], a, b)
    BY <2>2, <2>3 DEF NoneLate
  <2>5. Unmoved(read[a], read[b])
    BY <1>2, <1>3, <1>4, <1>5, <1>7, <2>4, ReadRests
  <2>6. QED BY <2>1, <2>5 DEF Unmoved
<1>15. AfterReads(program, plan, s, c) = read[N]
  BY <1>1, <1>7 DEF AfterReads, Reading, N
<1>16. Matches(read[N], Held)
  BY <1>8, <1>14 DEF Matches
<1>17. QED BY <1>1, <1>15, <1>16

(* Applying it follows the plan.                                           *)
LEMMA ApplyFollows ==
  ASSUME BootLevels = {Refreshed}, IInv, PlanFollowed, Apply
  PROVE  PlanFollowed'
<1>1. PICK c, cost : c = current /\ cost = plan.cost[c]
  OBVIOUS
<1>2. /\ phase = "operands" /\ phase' = "produced" /\ LateOperands = {}
      /\ UNCHANGED <<program, schedule, options, planning, current, operand>>
  BY DEF Apply
<1>3. /\ options' = options /\ program' = program /\ plan' = plan /\ current' = current
      /\ live' = live /\ done' = done
  BY <1>2 DEF planning, schedule
<1>met. ASSUME MetSoFar'
      PROVE  MetSoFar /\ Spent(current) = plan.cost[current]
  <2>1. Made' /\ ~ Made /\ current \in live
    BY <1>2 DEF Made, Working, IInv, OrderKept
  <2>2. \A n : Spent(n)' = Spent(n)
    BY <1>3 DEF Spent
  <2>3. QED BY <1>3, <1>met, <2>1, <2>2 DEF MetSoFar
<1> SUFFICES ASSUME ~ options.batch, MetSoFar, Spent(current) = plan.cost[current],
                    NEW run, Running(program, plan, run)
             PROVE  RunFollowed(run)'
  BY <1>2, <1>3, <1>met DEF PlanFollowed
<1>4. /\ WellFormed(program) /\ plan \in Plans(program) /\ Ceiling \in Nat
      /\ heap \in Heaps /\ values \in [Nodes(program) -> 0 .. Len(heap)]
      /\ Nodes(program) = 0 .. program.count - 1 /\ program.count \in Nat
  BY FollowFacts
<1>5. /\ c \in Nodes(program)
      /\ \A n \in ParentsOf(program, c) : n \in Held
  <2>1. Working /\ ~ Made /\ TypeOK /\ OrderKept /\ HeldAsNeeded
    BY <1>2 DEF Working, Made, IInv
  <2>2. QED BY <1>1, <2>1, OperandsNeeded DEF HeldAsNeeded
<1>6. PICK s, r : s = run[c] /\ r = AfterReads(program, plan, s, c)
  OBVIOUS
<1>7. s \in States(program)
  <2>1. c \in 0 .. program.count
    BY <1>4, <1>5
  <2>2. QED BY <1>6, <2>1 DEF Running
<1>8. RunFollowed(run)
  BY <1>2 DEF PlanFollowed
<1>9. Matches(r, Held) /\ r.refreshes \in Nat
  <2>1. cost \in Int
    BY <1>1, <1>4, <1>5 DEF Plans
  <2>2. r \in States(program)
    BY <1>1, <1>4, <1>5, <1>6, <1>7, <2>1, ReadsType DEF AfterReads
  <2>3. Matches(r, Held)
    <3>1. CASE program.op[c] = "feedback"
      <4>1. r = s
        BY <1>6, <3>1 DEF AfterReads
      <4>2. Matches(s, Held)
        BY <1>1, <1>2, <1>6, <1>8, <3>1 DEF RunFollowed
      <4>3. QED BY <4>1, <4>2
    <3>2. CASE program.op[c] # "feedback"
      BY <1>1, <1>2, <1>6, <1>8, <3>2, AllRead
    <3>3. QED BY <3>1, <3>2
  <2>4. QED BY <2>2, <2>3 DEF States
<1>10. LeavesOthers /\ (refreshes' = refreshes \/ refreshes' = refreshes + 0)
  BY ApplyMakes
<1>11. refreshes' = r.refreshes
  BY <1>9, <1>10 DEF Matches
<1>12. \A n \in Held' \ {c} : heap'[values'[n]].level = r.current[n]
  BY <1>1, <1>3, <1>9, <1>10 DEF LeavesOthers, Held, Matches
<1>13. heap'[values'[c]].level = MadeAt(program, plan, s, c)
  <2>1. CASE program.op[c] = "feedback"
    <3>1. heap'[values'[current]].level = Fresh
      BY <1>1, <2>1, ApplyMakes
    <3>2. QED BY <1>1, <2>1, <3>1 DEF MadeAt
  <2>2. CASE program.op[c] # "feedback"
    <3>1. r = ReadOperands(program, plan.cost[current], s, current)
      BY <1>1, <1>6, <2>2 DEF AfterReads
    <3>2. \A m \in ParentsOf(program, current) :
            r.current[m] = heap[values[m]].level /\ heap[values[m]].level \in -1 .. Ceiling
      BY <1>1, <1>4, <1>5, <1>9, LateMeaning DEF Matches
    <3>3. heap'[values'[current]].level = r.level + plan.cost[current]
      BY <1>1, <1>7, <2>2, <3>1, <3>2, SameLevel
    <3>4. QED BY <1>1, <1>6, <2>2, <3>3 DEF MadeAt
  <2>3. QED BY <2>1, <2>2
<1>14. Matches(r, Held \ {c})'
  BY <1>11, <1>12 DEF Matches
<1>15. /\ Matches(AfterReads(program, plan, run[current], current), Held \ {current})'
       /\ (heap[values[current]].level = MadeAt(program, plan, run[current], current))'
  BY <1>1, <1>3, <1>6, <1>13, <1>14 DEF Matches
<1>16. QED BY <1>2, <1>15 DEF RunFollowed

(* Every step follows the plan.                                            *)
LEMMA NextFollows ==
  ASSUME BootLevels = {Refreshed}, IInv, PlanFollowed, [Next]_vars
  PROVE  PlanFollowed'
<1>1. CASE UNCHANGED vars
  <2>1. /\ program' = program /\ live' = live /\ done' = done /\ options' = options
        /\ plan' = plan /\ phase' = phase /\ current' = current /\ operand' = operand
        /\ values' = values /\ heap' = heap /\ refreshes' = refreshes
    BY <1>1 DEF vars, schedule, planning, loop, store
  <2>2. Held' = Held /\ \A s, M : Matches(s, M)' <=> Matches(s, M)
    BY <2>1 DEF Held, Matches
  <2>3. \A run : RunFollowed(run) => RunFollowed(run)'
    BY <2>1, <2>2 DEF RunFollowed, Matches
  <2>4. MetSoFar' <=> MetSoFar
    BY <2>1 DEF MetSoFar, Made, Spent
  <2>5. QED BY <2>1, <2>3, <2>4 DEF PlanFollowed
<1>2. CASE Next /\ ~ UNCHANGED vars
  BY <1>2, PlanFollows, BeginFollows, RefreshOperandFollows, HoistFollows, ApplyFollows,
     RetireFollows
  DEF Next, Finish
<1>3. QED BY <1>1, <1>2

(* In file order without batches, with bootstraps that return the level    *)
(* the planner counts with, and for as long as the operations done have    *)
(* spent the levels they were counted with, each value has the level       *)
(* predicted for it until it is refreshed; at the end the executor has     *)
(* refreshed exactly as often as the plan predicts.                        *)
THEOREM PlanExact ==
  ASSUME BootLevels = {Refreshed}
  PROVE  Spec => []PlanIsExact
<1>1. IInv /\ PlanFollowed => PlanIsExact
  <2> SUFFICES ASSUME IInv, PlanFollowed, ~ options.batch, phase = "idle", BoundsMet
               PROVE  /\ \A n \in Held : heap[values[n]].level \in {plan.levels[n], Refreshed}
                      /\ Finished => refreshes = plan.refreshes
    BY DEF PlanIsExact
  <2>1. /\ WellFormed(program) /\ plan \in Plans(program) /\ plan.live = live
        /\ live \subseteq Nodes(program)
        /\ Nodes(program) = 0 .. program.count - 1 /\ program.count \in Nat
    BY FollowFacts
  <2>2. PICK run : Running(program, plan, run)
    BY <2>1, RunningExists
  <2>3. RunFollowed(run)
    <3>1. MetSoFar
      BY DEF MetSoFar, BoundsMet, Made
    <3>2. QED BY <2>2, <3>1 DEF PlanFollowed
  <2>4. PICK k \in 0 .. program.count : /\ \A n \in live : n \in done <=> n < k
                                        /\ Matches(run[k], Held)
    BY <2>3 DEF RunFollowed
  <2>5. Simulate(program, plan) = run[program.count]
    BY <2>2 DEF Running
  <2>6. plan.refreshes = run[program.count].refreshes /\ plan.levels = run[program.count].produced
    BY <2>5 DEF IInv, PlanKept, PredictionCurrent
  <2>7. ASSUME NEW n \in Held
        PROVE  heap[values[n]].level \in {plan.levels[n], Refreshed}
    <3>1. n \in live \cap done
      BY DEF IInv, HeldAsNeeded, Made, Needed
    <3>2. k \in n + 1 .. program.count
      BY <2>1, <2>4, <3>1
    <3>3. run[k].current[n] \in {run[program.count].produced[n], Refreshed}
      BY <2>1, <2>2, <3>1, <3>2, KeptLevel
    <3>4. QED BY <2>4, <2>6, <3>3 DEF Matches
  <2>8. ASSUME Finished
        PROVE  refreshes = plan.refreshes
    <3>1. program.count \in 0 .. program.count
      BY <2>1
    <3>2. \A n \in live : n < k <=> n < program.count
      BY <2>1, <2>4, <2>8 DEF Finished
    <3>3. run[k] = run[program.count]
      BY <2>1, <2>2, <2>4, <3>1, <3>2, SamePoint
    <3>4. QED BY <2>4, <2>6, <3>3 DEF Matches
  <2>9. QED BY <2>7, <2>8
<1>2. IInv /\ PlanFollowed /\ [Next]_vars => PlanFollowed'
  BY NextFollows
<1>3. Init => PlanFollowed
  BY InitFollows
<1>4. QED BY Invariant, <1>1, <1>2, <1>3, PTL DEF Spec

(* DagEvaluation reads a program as the executor does.                     *)
LEMMA SameDag ==
  ASSUME NEW p
  PROVE  /\ Dag!Nodes(p) = Nodes(p)
         /\ Dag!WellFormed(p) <=> WellFormed(p)
         /\ \A n : Dag!ParentsOf(p, n) = ParentsOf(p, n)
         /\ \A n : Dag!Epoch(p, n) = Epoch(p, n)
         /\ Dag!Live(p) = Live(p)
<1>1. Dag!Nodes(p) = Nodes(p)
  BY DEF Dag!Nodes, Nodes
<1>2. \A op : Dag!Arity(op) = Arity(op)
  BY DEF Dag!Arity, Arity, Dag!Sources, Sources, Dag!Binaries, Binaries
<1>3. Dag!Ops = Ops
  BY DEF Dag!Ops, Ops, Dag!Sources, Sources, Dag!Binaries, Binaries, Dag!Unaries, Unaries
<1>4. Dag!WellFormed(p) <=> WellFormed(p)
  BY <1>1, <1>2, <1>3 DEF Dag!WellFormed, WellFormed
<1>5. \A n : Dag!ParentsOf(p, n) = ParentsOf(p, n)
  BY DEF Dag!ParentsOf, ParentsOf
<1>6. \A n : Dag!Epoch(p, n) = Epoch(p, n)
  BY DEF Dag!Epoch, Epoch, Dag!Cardinality, Cardinality
<1>7. Dag!Live(p) = Live(p)
  BY <1>1, <1>5 DEF Dag!Live, Live, Dag!ParentClosed, ParentClosed
<1>8. QED BY <1>1, <1>4, <1>5, <1>6, <1>7

(* The executor implements DagEvaluation with any options: a retired node  *)
(* is evaluated once, after its operands and every earlier epoch, and no   *)
(* other step evaluates anything.                                          *)
THEOREM Refinement == Spec => EvaluatesDag
<1>1. Init => Dag!Init
  <2> SUFFICES ASSUME Init PROVE Dag!Init
    OBVIOUS
  <2>1. program \in Programs /\ live = Live(program) /\ done = Nodes(program) \ live
    <3>1. Schedule!Nodes(program) = Nodes(program) /\ Schedule!Live(program) = Live(program)
      BY SameEdges, SameProgram
    <3>2. QED BY <3>1 DEF Init, Schedule!Init
  <2>2. QED BY <2>1, BootFits, SameDag DEF Dag!Init
<1>2. IInv /\ [Next]_vars => [Dag!Next]_(Dag!vars)
  <2> SUFFICES ASSUME IInv, [Next]_vars PROVE [Dag!Next]_(Dag!vars)
    OBVIOUS
  <2>1. CASE Retire
    <3>1. /\ Working /\ done' = done \cup {current} /\ UNCHANGED <<program, live>>
          /\ TypeOK /\ OrderKept
      BY <2>1, RetireOrder DEF IInv
    <3>2. /\ current \in live \ done /\ current \in Nodes(program)
          /\ ParentsOf(program, current) \subseteq done
      BY <3>1, OperandsNeeded
    <3>3. \A m \in live : Epoch(program, m) < Epoch(program, current) => m \in done
      BY <3>1, EarlierEpochsDone
    <3>4. Dag!Evaluate(current) /\ current \in Dag!Nodes(program)
      BY <3>1, <3>2, <3>3, SameDag DEF Dag!Evaluate
    <3>5. QED BY <3>4 DEF Dag!Next
  <2>2. CASE [Next]_vars /\ ~ Retire
    <3>1. UNCHANGED <<program, live, done>>
      BY <2>2 DEF Next, Plan, Begin, RefreshOperand, HoistRefresh, Apply, Finish, vars, schedule
    <3>2. QED BY <3>1 DEF Dag!vars
  <2>3. QED BY <2>1, <2>2
<1>3. QED BY Invariant, <1>1, <1>2, PTL DEF Spec, EvaluatesDag
=============================================================================
