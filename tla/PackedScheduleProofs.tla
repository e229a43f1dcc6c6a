------------------------ MODULE PackedScheduleProofs ------------------------
(* The ready schedule keeps its inductive invariant for every program the  *)
(* reader accepts, so it never stalls, never ends a use early and refines  *)
(* DagEvaluation.                                                          *)
EXTENDS PackedSchedule, CommonLemmas

(* The least epoch with work, found by activate_epoch's loop. *)
LEMMA NextEpochFacts ==
  ASSUME NEW p, WellFormed(p), NEW from \in 0 .. Epochs(p),
         NEW left \in [0 .. Epochs(p) - 1 -> Nat]
  PROVE  /\ NextEpoch(p, from, left) \in from .. Epochs(p)
         /\ NextEpoch(p, from, left) < Epochs(p) => left[NextEpoch(p, from, left)] # 0
         /\ \A k \in from .. Epochs(p) - 1 :
              left[k] # 0 => NextEpoch(p, from, left) <= k
<1> DEFINE S == {e \in from .. Epochs(p) : e < Epochs(p) => left[e] # 0}
<1>1. Epochs(p) \in Nat
  BY EpochMonotone
<1>2. S \subseteq Nat /\ Epochs(p) \in S
  BY <1>1
<1>3. \E n \in S : \A m \in S : n <= m
  BY <1>2, LeastNat
<1>4. NextEpoch(p, from, left) \in S /\ \A m \in S : NextEpoch(p, from, left) <= m
  BY <1>3 DEF NextEpoch, Min
<1>5. QED BY <1>1, <1>4

(* The invariant holds when the schedule is built. *)
LEMMA InitIInv == Init => IInv
<1> SUFFICES ASSUME Init PROVE IInv
  OBVIOUS
<1>1. WellFormed(program) /\ live = Live(program)
  BY ProgramsAssumption DEF Init
<1>2. live \subseteq Nodes(program) /\ ParentClosed(program, live)
  BY <1>1, LiveClosed
<1>3. IsFiniteSet(live) /\ IsFiniteSet(Edges(program))
  BY <1>1, <1>2, EdgesFinite, FS_Subset
<1>4. done = Nodes(program) \ live /\ Unfinished = live
  BY <1>2 DEF Init, Unfinished
<1>5. /\ \A n \in Nodes(program) : Len(program.parents[n]) \in Nat
      /\ \A c \in live :
           pending[c] = Cardinality({e \in EdgesInto(program, c) :
                                       Operand(program, e) \notin done})
  <2>1. \A n \in Nodes(program) : program.parents[n] \in Seq(Nodes(program))
    BY <1>1 DEF WellFormed
  <2>2. ASSUME NEW c \in live
        PROVE  {e \in EdgesInto(program, c) : Operand(program, e) \notin done}
                 = EdgesInto(program, c)
    <3>1. EdgesInto(program, c) = {c} \X DOMAIN program.parents[c]
      BY <1>1, <1>2, EdgesIntoCount
    <3>2. \A e \in EdgesInto(program, c) : Operand(program, e) \in live
      BY <1>2, <3>1 DEF Operand, ParentsOf, ParentClosed
    <3>3. QED BY <1>4, <3>2
  <2>3. \A c \in live : Cardinality(EdgesInto(program, c)) = Len(program.parents[c])
    BY <1>1, <1>2, EdgesIntoCount
  <2>4. \A n \in Nodes(program) : Len(program.parents[n]) \in Nat
    BY <2>1
  <2>5. \A c \in live : pending[c] = Len(program.parents[c])
    BY <1>2 DEF Init, InitialPending
  <2>6. \A c \in live :
          Cardinality({e \in EdgesInto(program, c) : Operand(program, e) \notin done})
            = pending[c]
    BY <2>2, <2>3, <2>5, Zenon
  <2>7. QED BY <2>4, <2>6, Zenon
<1>6. \A n \in Nodes(program) :
        /\ Cardinality(LiveUses(program, live, n)) \in Nat
        /\ remaining_uses[n] = Cardinality({e \in LiveUses(program, live, n) :
                                              e[1] \notin done})
  <2> TAKE n \in Nodes(program)
  <2>1. LiveUses(program, live, n) \subseteq Edges(program)
    BY DEF LiveUses, EdgesFrom
  <2>2. Cardinality(LiveUses(program, live, n)) \in Nat
    BY <1>3, <2>1, FS_Subset, FS_CardinalityType
  <2>3. {e \in LiveUses(program, live, n) : e[1] \notin done} = LiveUses(program, live, n)
    BY <1>4 DEF LiveUses
  <2>4. QED BY <2>2, <2>3 DEF Init
<1>7. \A k \in 0 .. Epochs(program) - 1 :
        Cardinality({n \in live : Epoch(program, n) = k}) \in Nat
  BY <1>3, FS_Subset, FS_CardinalityType
<1>8. epoch_remaining \in [0 .. Epochs(program) - 1 -> Nat]
  BY <1>7 DEF Init, EpochWork
<1>9. CountersExact
  BY <1>4, <1>5, <1>6 DEF CountersExact, Init, EpochWork
<1>10. Epochs(program) \in Nat /\ 0 \in 0 .. Epochs(program)
  BY <1>1, EpochMonotone
<1>11. /\ active_epoch \in 0 .. Epochs(program)
       /\ active_epoch < Epochs(program) => epoch_remaining[active_epoch] # 0
       /\ \A k \in 0 .. Epochs(program) - 1 :
            epoch_remaining[k] # 0 => active_epoch <= k
  BY <1>1, <1>8, <1>10, NextEpochFacts DEF Init
<1>12. EpochOpen
  <2>1. ASSUME NEW n \in live
        PROVE  Epoch(program, n) >= active_epoch
    <3>1. Epoch(program, n) \in 0 .. Epochs(program) - 1
      BY <1>1, <1>2, EpochMonotone
    <3>2. n \in {m \in live : Epoch(program, m) = Epoch(program, n)}
      OBVIOUS
    <3>3. Cardinality({m \in live : Epoch(program, m) = Epoch(program, n)}) # 0
      BY <1>3, <3>2, FS_Subset, FS_EmptySet
    <3>4. epoch_remaining[Epoch(program, n)] # 0
      BY <3>1, <3>3 DEF Init, EpochWork
    <3>5. QED BY <1>10, <1>11, <3>1, <3>4
  <2>2. QED BY <1>4, <1>11, <2>1 DEF EpochOpen
<1>13. DoneClosed
  BY <1>4 DEF DoneClosed
<1>14. FrontierExact
  <2>1. ASSUME NEW n \in live
        PROVE  pending[n] = 0 <=> ParentsOf(program, n) \subseteq done
    <3> DEFINE E == {e \in EdgesInto(program, n) : Operand(program, e) \notin done}
    <3>1. E \subseteq Edges(program)
      BY DEF EdgesInto
    <3>2. Cardinality(E) = 0 <=> E = {}
      BY <1>3, <3>1, FS_Subset, FS_EmptySet
    <3>3. QED BY <1>1, <1>2, <1>5, <3>2, EdgeMeaning
  <2>2. QED BY <1>4, <2>1 DEF FrontierExact, Init, Activated
<1>15. TypeOK
  <2>1. pending \in [Nodes(program) -> Nat]
    BY <1>5 DEF Init, InitialPending
  <2>2. remaining_uses \in [Nodes(program) -> Nat]
    BY <1>6 DEF Init
  <2>3. remaining \in Nat
    BY <1>3, FS_CardinalityType DEF Init
  <2>4. ready \subseteq Nodes(program)
    BY <1>2 DEF Init, Activated
  <2>5. QED BY <1>1, <1>2, <1>4, <1>8, <1>11, <2>1, <2>2, <2>3, <2>4 DEF TypeOK, Init
<1>16. QED BY <1>1, <1>9, <1>12, <1>13, <1>14, <1>15 DEF IInv, NeverStalls, Init

(* What completing a ready node leaves unevaluated. *)
LEMMA UnfinishedStep ==
  ASSUME IInv, NEW i \in Nodes(program), Complete(i)
  PROVE  /\ i \in Unfinished
         /\ i \in live
         /\ ParentsOf(program, i) \subseteq done
         /\ Epoch(program, i) = active_epoch
         /\ active_epoch \in 0 .. Epochs(program) - 1
         /\ Unfinished' = Unfinished \ {i}
         /\ done' = done \cup {i}
         /\ program' = program
         /\ live' = live
         /\ IsFiniteSet(Unfinished)
<1>1. WellFormed(program) /\ live \subseteq Nodes(program)
  BY DEF IInv, TypeOK
<1>2. i \in Unfinished /\ ParentsOf(program, i) \subseteq done /\ Epoch(program, i) = active_epoch
  BY DEF IInv, FrontierExact, Complete
<1>3. Epoch(program, i) \in 0 .. Epochs(program) - 1
  BY <1>1, EpochMonotone
<1>4. IsFiniteSet(Unfinished)
  BY <1>1, EdgesFinite, FS_Subset DEF Unfinished
<1>5. QED BY <1>2, <1>3, <1>4 DEF Complete, Unfinished

(* pending counts the operand edges still to come after the step too. *)
LEMMA PendingStep ==
  ASSUME IInv, NEW i \in Nodes(program), Complete(i)
  PROVE  /\ pending' \in [Nodes(program) -> Nat]
         /\ \A c \in live :
              pending'[c] = Cardinality({e \in EdgesInto(program, c) :
                                           Operand(program, e) \notin done'})
<1>1. WellFormed(program) /\ live \subseteq Nodes(program)
      /\ pending \in [Nodes(program) -> Nat]
  BY DEF IInv, TypeOK
<1>2. i \notin done /\ done' = done \cup {i}
  BY UnfinishedStep DEF Unfinished
<1>3. ASSUME NEW c \in live
      PROVE  /\ pending'[c] \in Nat
             /\ pending'[c] = Cardinality({e \in EdgesInto(program, c) :
                                             Operand(program, e) \notin done'})
  <2> DEFINE A == {e \in EdgesInto(program, c) : Operand(program, e) \notin done}
             B == EdgesBetween(program, i, c)
  <2>1. A \in SUBSET Edges(program)
    BY DEF EdgesInto
  <2>2. IsFiniteSet(A)
    BY <1>1, <2>1, EdgesFinite, FS_Subset
  <2>3. B \subseteq A
    BY <1>2 DEF EdgesBetween, EdgesFrom
  <2>4. A \ B = {e \in EdgesInto(program, c) : Operand(program, e) \notin done'}
    BY <1>2 DEF EdgesBetween, EdgesFrom, EdgesInto
  <2>5. /\ Cardinality(A) \in Nat
        /\ Cardinality(B) \in Nat
        /\ Cardinality(B) <= Cardinality(A)
        /\ Cardinality(A \ B) = Cardinality(A) - Cardinality(B)
    BY <2>2, <2>3, CountWithout
  <2>6. pending[c] = Cardinality(A)
    BY DEF IInv, CountersExact
  <2>7. pending'[c] = pending[c] - Cardinality(B)
    BY <1>1 DEF Complete, Deliver
  <2>8. pending'[c] = Cardinality(A \ B) /\ pending'[c] \in Nat
    <3> HIDE DEF A, B
    <3> QED BY <2>5, <2>6, <2>7
  <2>9. QED BY <2>4, <2>8
<1>4. pending' = [c \in Nodes(program) |->
                    IF c \in live
                    THEN pending[c] - Cardinality(EdgesBetween(program, i, c))
                    ELSE pending[c]]
  BY DEF Complete, Deliver
<1>5. \A c \in Nodes(program) : pending'[c] \in Nat
  <2>1. \A c \in Nodes(program) \ live : pending'[c] = pending[c]
    BY <1>4
  <2>2. QED BY <1>1, <1>3, <2>1
<1>6. QED BY <1>3, <1>4, <1>5

(* remaining_uses counts the consumer edges still to come. *)
LEMMA UsesStep ==
  ASSUME IInv, NEW i \in Nodes(program), Complete(i)
  PROVE  /\ remaining_uses' \in [Nodes(program) -> Nat]
         /\ \A n \in Nodes(program) :
              remaining_uses'[n] = Cardinality({e \in LiveUses(program, live, n) :
                                                  e[1] \notin done'})
<1>1. WellFormed(program) /\ live \subseteq Nodes(program)
  BY DEF IInv, TypeOK
<1>2. i \notin done /\ i \in live /\ done' = done \cup {i}
  BY UnfinishedStep DEF Unfinished
<1>3. ASSUME NEW n \in Nodes(program)
      PROVE  /\ remaining_uses'[n] \in Nat
             /\ remaining_uses'[n] = Cardinality({e \in LiveUses(program, live, n) :
                                                    e[1] \notin done'})
  <2> DEFINE A == {e \in LiveUses(program, live, n) : e[1] \notin done}
             B == EdgesBetween(program, n, i)
  <2>1. A \in SUBSET Edges(program)
    BY DEF LiveUses, EdgesFrom
  <2>2. IsFiniteSet(A)
    BY <1>1, <2>1, EdgesFinite, FS_Subset
  <2>3. B \subseteq A
    BY <1>2 DEF EdgesBetween, EdgesInto, LiveUses
  <2>4. A \ B = {e \in LiveUses(program, live, n) : e[1] \notin done'}
    BY <1>2 DEF EdgesBetween, EdgesFrom, EdgesInto, LiveUses
  <2>5. /\ Cardinality(A) \in Nat
        /\ Cardinality(B) \in Nat
        /\ Cardinality(B) <= Cardinality(A)
        /\ Cardinality(A \ B) = Cardinality(A) - Cardinality(B)
    BY <2>2, <2>3, CountWithout
  <2>6. remaining_uses[n] = Cardinality(A)
    BY DEF IInv, CountersExact
  <2>7. remaining_uses'[n] = remaining_uses[n] - Cardinality(B)
    BY DEF Complete, SpendUses
  <2>8. remaining_uses'[n] = Cardinality(A \ B) /\ remaining_uses'[n] \in Nat
    <3> HIDE DEF A, B
    <3> QED BY <2>5, <2>6, <2>7
  <2>9. QED BY <2>4, <2>8
<1>4. remaining_uses' = [n \in Nodes(program) |->
         remaining_uses[n] - Cardinality(EdgesBetween(program, n, i))]
  BY DEF Complete, SpendUses
<1>5. QED BY <1>3, <1>4

(* The work left per epoch and in all. *)
LEMMA WorkStep ==
  ASSUME IInv, NEW i \in Nodes(program), Complete(i)
  PROVE  /\ epoch_remaining' \in [0 .. Epochs(program) - 1 -> Nat]
         /\ \A k \in 0 .. Epochs(program) - 1 :
              epoch_remaining'[k]
                = Cardinality({n \in Unfinished' : Epoch(program, n) = k})
         /\ remaining' \in Nat
         /\ remaining' = Cardinality(Unfinished')
<1>1. /\ i \in Unfinished /\ Epoch(program, i) = active_epoch
      /\ active_epoch \in 0 .. Epochs(program) - 1
      /\ Unfinished' = Unfinished \ {i} /\ IsFiniteSet(Unfinished)
  BY UnfinishedStep
<1>2. /\ epoch_remaining \in [0 .. Epochs(program) - 1 -> Nat]
      /\ epoch_remaining' = [epoch_remaining EXCEPT ![active_epoch] = @ - 1]
      /\ remaining' = remaining - 1
  BY DEF IInv, TypeOK, Complete
<1>3. IsFiniteSet({i}) /\ Cardinality({i}) = 1
  BY FS_Singleton
<1>4. remaining' \in Nat /\ remaining' = Cardinality(Unfinished')
  <2>1. remaining = Cardinality(Unfinished)
    BY DEF IInv, CountersExact
  <2>2. {i} \subseteq Unfinished
    BY <1>1
  <2>3. QED BY <1>1, <1>2, <1>3, <2>1, <2>2, CountWithout
<1>5. ASSUME NEW k \in 0 .. Epochs(program) - 1
      PROVE  /\ epoch_remaining'[k] \in Nat
             /\ epoch_remaining'[k]
                  = Cardinality({n \in Unfinished' : Epoch(program, n) = k})
  <2> DEFINE A == {n \in Unfinished : Epoch(program, n) = k}
  <2>1. IsFiniteSet(A)
    BY <1>1, FS_Subset
  <2>2. epoch_remaining[k] = Cardinality(A)
    BY DEF IInv, CountersExact
  <2>3. CASE k = active_epoch
    <3>1. {i} \subseteq A /\ A \ {i} = {n \in Unfinished' : Epoch(program, n) = k}
      BY <1>1, <2>3
    <3>2. /\ Cardinality(A) \in Nat
          /\ 1 <= Cardinality(A)
          /\ Cardinality(A \ {i}) = Cardinality(A) - 1
      BY <1>3, <2>1, <3>1, CountWithout
    <3>3. epoch_remaining'[k] = epoch_remaining[k] - 1
      BY <1>2, <2>3
    <3>4. epoch_remaining'[k] \in Nat /\ epoch_remaining'[k] = Cardinality(A \ {i})
      <4> HIDE DEF A
      <4> QED BY <2>2, <3>2, <3>3
    <3>5. QED BY <3>1, <3>4
  <2>4. CASE k # active_epoch
    <3>1. A = {n \in Unfinished' : Epoch(program, n) = k}
      BY <1>1, <2>4
    <3>2. epoch_remaining'[k] = epoch_remaining[k]
      BY <1>2, <2>4
    <3>3. QED BY <1>2, <2>2, <3>1, <3>2
  <2>5. QED BY <2>3, <2>4
<1>6. epoch_remaining' \in [0 .. Epochs(program) - 1 -> Nat]
  BY <1>2, <1>5
<1>7. QED BY <1>4, <1>5, <1>6

(* A node's pending count reaches zero when its operands are evaluated. *)
LEMMA PendingZero ==
  ASSUME IInv, NEW i \in Nodes(program), Complete(i)
  PROVE  \A n \in live : pending'[n] = 0 <=> ParentsOf(program, n) \subseteq done'
<1>1. WellFormed(program) /\ live \subseteq Nodes(program) /\ IsFiniteSet(Edges(program))
  BY EdgesFinite DEF IInv, TypeOK
<1> TAKE n \in live
<1> DEFINE E == {e \in EdgesInto(program, n) : Operand(program, e) \notin done'}
<1>2. E \subseteq Edges(program)
  BY DEF EdgesInto
<1>3. Cardinality(E) = 0 <=> E = {}
  BY <1>1, <1>2, FS_Subset, FS_EmptySet
<1>4. pending'[n] = Cardinality(E)
  BY PendingStep
<1>5. E = {} <=> ParentsOf(program, n) \subseteq done'
  BY <1>1, EdgeMeaning
<1>6. QED BY <1>3, <1>4, <1>5

(* Within the open epoch, complete() adds exactly the nodes it woke. *)
LEMMA SameEpochFrontier ==
  ASSUME IInv, NEW i \in Nodes(program), Complete(i)
  PROVE  (ready \ {i}) \cup Woken(i, pending')
           = {n \in Unfinished' : /\ ParentsOf(program, n) \subseteq done'
                                  /\ Epoch(program, n) = active_epoch}
<1>1. WellFormed(program) /\ live \subseteq Nodes(program)
  BY DEF IInv, TypeOK
<1>2. /\ i \in live /\ i \notin done
      /\ done' = done \cup {i}
      /\ Unfinished' = Unfinished \ {i}
  BY UnfinishedStep DEF Unfinished
<1>3. \A n \in live : EdgesBetween(program, i, n) # {} <=> i \in ParentsOf(program, n)
  BY <1>1, EdgeMeaning
<1>4. Woken(i, pending') = {n \in live : /\ i \in ParentsOf(program, n)
                                         /\ ParentsOf(program, n) \subseteq done'
                                         /\ Epoch(program, n) = active_epoch}
  BY <1>3, PendingZero DEF Woken
<1>5. i \notin ParentsOf(program, i)
  <2>1. \A m \in ParentsOf(program, i) : m < i
    BY <1>1, ParentsEarlier
  <2>2. i \in Nat
    BY <1>1 DEF Nodes, WellFormed
  <2>3. QED BY <2>1, <2>2
<1>6. \A n \in live : i \in ParentsOf(program, n) => n \in Unfinished \ {i}
  BY <1>2, <1>5 DEF IInv, DoneClosed, Unfinished
<1>7. ready = {n \in Unfinished : /\ ParentsOf(program, n) \subseteq done
                                  /\ Epoch(program, n) = active_epoch}
  BY DEF IInv, FrontierExact
<1>8. Unfinished \subseteq live
  BY DEF Unfinished
<1>9. QED BY <1>2, <1>4, <1>6, <1>7, <1>8

(* The open epoch after the step is the first one with work. *)
LEMMA EpochStep ==
  ASSUME IInv, NEW i \in Nodes(program), Complete(i)
  PROVE  /\ active_epoch' \in 0 .. Epochs(program)
         /\ active_epoch' < Epochs(program) => epoch_remaining'[active_epoch'] # 0
         /\ \A n \in Unfinished' : Epoch(program, n) >= active_epoch'
<1>1. WellFormed(program) /\ live \subseteq Nodes(program) /\ Epochs(program) \in Nat
  BY EpochMonotone DEF IInv, TypeOK
<1>2. /\ Unfinished' = Unfinished \ {i} /\ IsFiniteSet(Unfinished)
      /\ active_epoch \in 0 .. Epochs(program) - 1
  BY UnfinishedStep
<1>3. epoch_remaining' \in [0 .. Epochs(program) - 1 -> Nat]
  BY WorkStep
<1>4. ASSUME NEW n \in Unfinished'
      PROVE  /\ Epoch(program, n) \in active_epoch .. Epochs(program) - 1
             /\ epoch_remaining'[Epoch(program, n)] # 0
  <2>1. n \in Unfinished /\ n \in Nodes(program)
    BY <1>1, <1>2 DEF Unfinished
  <2>2. Epoch(program, n) \in 0 .. Epochs(program) - 1 /\ Epoch(program, n) >= active_epoch
    BY <1>1, <2>1, EpochMonotone DEF IInv, EpochOpen
  <2> DEFINE A == {m \in Unfinished' : Epoch(program, m) = Epoch(program, n)}
  <2>3. IsFiniteSet(A) /\ A # {}
    BY <1>2, FS_Subset
  <2>4. Cardinality(A) # 0
    BY <2>3, FS_EmptySet
  <2>5. epoch_remaining'[Epoch(program, n)] = Cardinality(A)
    BY <2>2, WorkStep
  <2>6. QED BY <1>2, <2>2, <2>4, <2>5
<1>5. CASE epoch_remaining'[active_epoch] # 0
  <2>1. active_epoch' = active_epoch
    BY <1>5 DEF Complete
  <2>2. QED BY <1>1, <1>2, <1>4, <1>5, <2>1
<1>6. CASE epoch_remaining'[active_epoch] = 0
  <2>1. active_epoch' = NextEpoch(program, active_epoch, epoch_remaining')
    BY <1>6 DEF Complete
  <2>2. active_epoch \in 0 .. Epochs(program)
    BY <1>1, <1>2
  <2>3. /\ active_epoch' \in active_epoch .. Epochs(program)
        /\ active_epoch' < Epochs(program) => epoch_remaining'[active_epoch'] # 0
        /\ \A k \in active_epoch .. Epochs(program) - 1 :
             epoch_remaining'[k] # 0 => active_epoch' <= k
    BY <1>1, <1>3, <2>1, <2>2, NextEpochFacts
  <2>4. QED BY <1>1, <1>2, <1>4, <2>3
<1>7. QED BY <1>5, <1>6

(* The frontier is exact after the step. *)
LEMMA FrontierStep ==
  ASSUME IInv, NEW i \in Nodes(program), Complete(i)
  PROVE  ready' = {n \in Unfinished' : /\ ParentsOf(program, n) \subseteq done'
                                       /\ Epoch(program, n) = active_epoch'}
<1> DEFINE F == (ready \ {i}) \cup Woken(i, pending')
<1>1. F = {n \in Unfinished' : /\ ParentsOf(program, n) \subseteq done'
                               /\ Epoch(program, n) = active_epoch}
  BY SameEpochFrontier
<1>2. CASE epoch_remaining'[active_epoch] # 0
  <2>1. ready' = F /\ active_epoch' = active_epoch
    BY <1>2 DEF Complete
  <2>2. QED BY <1>1, <2>1
<1>3. CASE epoch_remaining'[active_epoch] = 0
  <2>1. ready' = F \cup Activated(program, live \ done', pending', active_epoch')
    BY <1>3 DEF Complete
  <2>2. live' = live /\ Unfinished' = live \ done' /\ IsFiniteSet(Unfinished')
    BY UnfinishedStep, FS_Subset DEF Unfinished
  <2>3. F = {}
    <3> DEFINE A == {n \in Unfinished' : Epoch(program, n) = active_epoch}
    <3>1. Cardinality(A) = 0
      BY <1>3, UnfinishedStep, WorkStep
    <3>2. IsFiniteSet(A)
      BY <2>2, FS_Subset
    <3>3. A = {}
      BY <3>1, <3>2, FS_EmptySet
    <3>4. QED BY <1>1, <3>3
  <2>4. Activated(program, live \ done', pending', active_epoch')
          = {n \in live \ done' : /\ ParentsOf(program, n) \subseteq done'
                                  /\ Epoch(program, n) = active_epoch'}
    BY PendingZero DEF Activated
  <2>5. QED BY <2>1, <2>2, <2>3, <2>4
<1>4. QED BY <1>2, <1>3

(* complete() keeps the invariant, and does not throw. *)
LEMMA StepIInv ==
  ASSUME IInv, NEW i \in Nodes(program), Complete(i)
  PROVE  IInv'
<1>1. WellFormed(program) /\ live \subseteq Nodes(program) /\ live = Live(program)
  BY DEF IInv, TypeOK
<1>2. /\ program' = program /\ live' = live
      /\ done' = done \cup {i} /\ i \in live
      /\ ParentsOf(program, i) \subseteq done
      /\ Unfinished' = Unfinished \ {i}
  BY UnfinishedStep
<1>3. Unfinished' \subseteq Nodes(program) /\ done \subseteq Nodes(program)
  BY <1>1, <1>2 DEF Unfinished, IInv, TypeOK
<1>4. ready' = {n \in Unfinished' : /\ ParentsOf(program, n) \subseteq done'
                                    /\ Epoch(program, n) = active_epoch'}
  BY FrontierStep
<1>5. /\ active_epoch' \in 0 .. Epochs(program)
      /\ active_epoch' < Epochs(program) => epoch_remaining'[active_epoch'] # 0
      /\ \A n \in Unfinished' : Epoch(program, n) >= active_epoch'
  BY EpochStep
<1>6. stalled' = FALSE
  <2>1. SUFFICES ASSUME remaining' # 0 PROVE ready' # {}
    BY DEF Complete
  <2>2. /\ remaining' = Cardinality(Unfinished')
        /\ epoch_remaining' \in [0 .. Epochs(program) - 1 -> Nat]
        /\ \A k \in 0 .. Epochs(program) - 1 :
             epoch_remaining'[k] = Cardinality({n \in Unfinished' : Epoch(program, n) = k})
    BY WorkStep
  <2>3. PICK u \in Unfinished' : TRUE
    BY <2>1, <2>2, FS_EmptySet
  <2>4. Epochs(program) \in Nat /\ Epoch(program, u) \in 0 .. Epochs(program) - 1
    BY <1>1, <1>3, EpochMonotone
  <2>5. active_epoch' \in 0 .. Epochs(program) - 1
    BY <1>5, <2>3, <2>4
  <2>6. Cardinality({n \in Unfinished' : Epoch(program, n) = active_epoch'}) # 0
    BY <1>5, <2>2, <2>4, <2>5
  <2>7. PICK w \in Unfinished' : Epoch(program, w) = active_epoch'
    BY <2>6, FS_EmptySet
  <2>8. Unfinished' = Live(program) \ done'
    BY <1>1, <1>2 DEF Unfinished
  <2>9. \E n \in Live(program) \ done' :
          ParentsOf(program, n) \subseteq done' /\ Epoch(program, n) = active_epoch'
    BY <1>1, <1>5, <2>5, <2>7, <2>8, FrontierAdvances
  <2>10. QED BY <1>4, <2>8, <2>9
<1>7. TypeOK'
  <2>1. pending' \in [Nodes(program) -> Nat]
    BY PendingStep
  <2>2. remaining_uses' \in [Nodes(program) -> Nat]
    BY UsesStep
  <2>3. epoch_remaining' \in [0 .. Epochs(program) - 1 -> Nat] /\ remaining' \in Nat
    BY WorkStep
  <2>4. ready' \subseteq Nodes(program)
    BY <1>3, <1>4
  <2>5. QED BY <1>1, <1>2, <1>3, <1>5, <1>6, <2>1, <2>2, <2>3, <2>4 DEF TypeOK
<1>8. CountersExact'
  <2>1. (\A c \in live :
           pending[c] = Cardinality({e \in EdgesInto(program, c) :
                                       Operand(program, e) \notin done}))'
    BY <1>2, PendingStep
  <2>2. (\A n \in Nodes(program) :
           remaining_uses[n] = Cardinality({e \in LiveUses(program, live, n) :
                                              e[1] \notin done}))'
    BY <1>2, UsesStep
  <2>3. (/\ \A k \in 0 .. Epochs(program) - 1 :
              epoch_remaining[k] = Cardinality({n \in Unfinished : Epoch(program, n) = k})
         /\ remaining = Cardinality(Unfinished))'
    BY <1>2, WorkStep
  <2>4. QED BY <2>1, <2>2, <2>3, Zenon DEF CountersExact
<1>9. EpochOpen'
  BY <1>2, <1>5 DEF EpochOpen
<1>10. DoneClosed'
  BY <1>2 DEF DoneClosed, IInv
<1>11. FrontierExact'
  BY <1>2, <1>4 DEF FrontierExact
<1>12. QED BY <1>1, <1>2, <1>6, <1>7, <1>8, <1>9, <1>10, <1>11 DEF IInv, NeverStalls

(* While a live node is unevaluated the frontier offers one: the caller of *)
(* PackedReadySchedule always finds a ready node.                          *)
LEMMA ReadyExists ==
  ASSUME IInv, Unfinished # {}
  PROVE  ready # {}
<1>1. /\ WellFormed(program) /\ live = Live(program) /\ live \subseteq Nodes(program)
      /\ active_epoch \in 0 .. Epochs(program)
  BY DEF IInv, TypeOK
<1>2. /\ \A n \in Unfinished : Epoch(program, n) >= active_epoch
      /\ active_epoch < Epochs(program) => epoch_remaining[active_epoch] # 0
      /\ \A k \in 0 .. Epochs(program) - 1 :
           epoch_remaining[k] = Cardinality({n \in Unfinished : Epoch(program, n) = k})
  BY DEF IInv, EpochOpen, CountersExact
<1>3. PICK u \in Unfinished : u \in Nodes(program)
  BY <1>1 DEF Unfinished
<1>4. Epochs(program) \in Nat /\ Epoch(program, u) \in 0 .. Epochs(program) - 1
  BY <1>1, <1>3, EpochMonotone
<1>5. active_epoch \in 0 .. Epochs(program) - 1
  BY <1>1, <1>2, <1>3, <1>4
<1>6. Cardinality({n \in Unfinished : Epoch(program, n) = active_epoch}) # 0
  BY <1>2, <1>4, <1>5
<1>7. PICK w \in Unfinished : Epoch(program, w) = active_epoch
  BY <1>6, FS_EmptySet
<1>8. Unfinished = Live(program) \ done
  BY <1>1 DEF Unfinished
<1>9. \E n \in Live(program) \ done :
        ParentsOf(program, n) \subseteq done /\ Epoch(program, n) = active_epoch
  BY <1>1, <1>2, <1>5, <1>7, <1>8, FrontierAdvances
<1>10. QED BY <1>8, <1>9 DEF IInv, FrontierExact

(* The invariant holds along every behaviour: the counters, the epoch, the *)
(* evaluated nodes and the frontier of PackedReadySchedule always agree.   *)
THEOREM Invariant == Spec => []IInv
<1>1. IInv /\ [Next]_vars => IInv'
  <2> SUFFICES ASSUME IInv, [Next]_vars PROVE IInv'
    OBVIOUS
  <2>1. CASE Next
    BY <2>1, StepIInv DEF Next
  <2>2. CASE UNCHANGED vars
    BY <2>2 DEF vars, IInv, TypeOK, CountersExact, EpochOpen, DoneClosed,
                FrontierExact, NeverStalls, Unfinished
  <2>3. QED BY <2>1, <2>2
<1>2. QED BY InitIInv, <1>1, PTL DEF Spec

(* The counters stay natural numbers and the frontier a set of nodes. *)
THEOREM TypeCorrect == Spec => []TypeOK
<1>1. IInv => TypeOK
  BY DEF IInv
<1>2. QED BY Invariant, <1>1, PTL

(* complete() never throws "packed frontier cannot advance". *)
THEOREM NoStall == Spec => []NeverStalls
<1>1. IInv => NeverStalls
  BY DEF IInv
<1>2. QED BY Invariant, <1>1, PTL

(* The frontier offers every node that can be evaluated and no other. *)
THEOREM FrontierIsExact == Spec => []FrontierExact
<1>1. IInv => FrontierExact
  BY DEF IInv
<1>2. QED BY Invariant, <1>1, PTL

(* Consumer edges still to come, and consumers still to come. *)
LEMMA UsesLeft ==
  ASSUME IInv, NEW p \in Nodes(program)
  PROVE  LET A == {e \in LiveUses(program, live, p) : e[1] \notin done}
         IN  /\ IsFiniteSet(A)
             /\ remaining_uses[p] = Cardinality(A)
             /\ Waiting(p) = {c \in Unfinished : EdgesBetween(program, p, c) # {}}
             /\ \A c \in Unfinished : EdgesBetween(program, p, c) \subseteq A
             /\ \A e \in A : e[1] \in Unfinished /\ e \in EdgesBetween(program, p, e[1])
<1> DEFINE A == {e \in LiveUses(program, live, p) : e[1] \notin done}
<1>1. WellFormed(program) /\ live \subseteq Nodes(program) /\ Unfinished \subseteq live
  BY DEF IInv, TypeOK, Unfinished
<1>2. A \in SUBSET Edges(program)
  BY DEF LiveUses, EdgesFrom
<1>3. IsFiniteSet(A)
  BY <1>1, <1>2, EdgesFinite, FS_Subset
<1>4. remaining_uses[p] = Cardinality(A)
  BY DEF IInv, CountersExact
<1>5. \A c \in Unfinished : EdgesBetween(program, p, c) # {} <=> p \in ParentsOf(program, c)
  BY <1>1, EdgeMeaning
<1>6. Waiting(p) = {c \in Unfinished : EdgesBetween(program, p, c) # {}}
  BY <1>5 DEF Waiting
<1>7. /\ \A c \in Unfinished : EdgesBetween(program, p, c) \subseteq A
      /\ \A e \in A : e[1] \in Unfinished /\ e \in EdgesBetween(program, p, e[1])
  BY DEF EdgesBetween, EdgesFrom, EdgesInto, LiveUses, Unfinished
<1>8. QED BY <1>3, <1>4, <1>6, <1>7

(* final_use() at a ready node, x*x included. *)
LEMMA FinalUseMeaning ==
  ASSUME IInv, NEW i \in ready, NEW p \in ParentsOf(program, i)
  PROVE  final_use(p, i) <=> p \notin program.outputs /\ Waiting(p) = {i}
<1> DEFINE A == {e \in LiveUses(program, live, p) : e[1] \notin done}
           B == EdgesBetween(program, p, i)
<1>1. WellFormed(program) /\ i \in Unfinished /\ i \in Nodes(program) /\ p \in Nodes(program)
  <2>1. WellFormed(program) /\ i \in Unfinished /\ i \in Nodes(program)
    BY DEF IInv, TypeOK, FrontierExact
  <2>2. QED BY <2>1, ParentsEarlier
<1>2. /\ IsFiniteSet(A) /\ remaining_uses[p] = Cardinality(A) /\ B \subseteq A
      /\ Waiting(p) = {c \in Unfinished : EdgesBetween(program, p, c) # {}}
      /\ \A c \in Unfinished : EdgesBetween(program, p, c) \subseteq A
      /\ \A e \in A : e[1] \in Unfinished /\ e \in EdgesBetween(program, p, e[1])
  BY <1>1, UsesLeft
<1>3. Cardinality(A) = Cardinality(B) <=> A \ B = {}
  <2>1. /\ IsFiniteSet(A \ B) /\ Cardinality(A) \in Nat /\ Cardinality(B) \in Nat
        /\ Cardinality(A \ B) = Cardinality(A) - Cardinality(B)
    BY <1>2, CountWithout
  <2>2. Cardinality(A \ B) = 0 <=> A \ B = {}
    BY <2>1, FS_EmptySet
  <2> HIDE DEF A, B
  <2>3. QED BY <2>1, <2>2
<1>4. i \in Waiting(p)
  BY <1>1 DEF Waiting
<1>5. \A e \in B : e[1] = i
  BY DEF EdgesBetween, EdgesInto
<1>6. A \ B = {} <=> Waiting(p) = {i}
  <2>1. ASSUME A \ B = {}, NEW c \in Waiting(p)
        PROVE  c = i
    <3>1. PICK e \in EdgesBetween(program, p, c) : e \in A
      BY <1>2
    <3>2. e[1] = c
      BY DEF EdgesBetween, EdgesInto
    <3>3. QED BY <1>5, <2>1, <3>1, <3>2
  <2>2. ASSUME Waiting(p) = {i}, NEW e \in A
        PROVE  e \in B
    BY <1>2, <2>2
  <2>3. QED BY <1>4, <2>1, <2>2
<1>7. QED BY <1>2, <1>3, <1>6 DEF final_use, Pinned

(* final_use() holds exactly at the last consumer of a value no output     *)
(* pins.                                                                   *)
THEOREM FinalUse == Spec => []FinalUseIsLast
<1>1. IInv => FinalUseIsLast
  BY FinalUseMeaning DEF FinalUseIsLast
<1>2. QED BY Invariant, <1>1, PTL

(* releasable() of a live node. *)
LEMMA ReleaseMeaning ==
  ASSUME IInv, NEW n \in live
  PROVE  releasable(n) <=> n \notin program.outputs /\ Waiting(n) = {}
<1> DEFINE A == {e \in LiveUses(program, live, n) : e[1] \notin done}
<1>1. n \in Nodes(program)
  BY DEF IInv, TypeOK
<1>2. /\ IsFiniteSet(A) /\ remaining_uses[n] = Cardinality(A)
      /\ Waiting(n) = {c \in Unfinished : EdgesBetween(program, n, c) # {}}
      /\ \A c \in Unfinished : EdgesBetween(program, n, c) \subseteq A
      /\ \A e \in A : e[1] \in Unfinished /\ e \in EdgesBetween(program, n, e[1])
  BY <1>1, UsesLeft
<1>3. Cardinality(A) = 0 <=> A = {}
  BY <1>2, FS_EmptySet
<1>4. A = {} <=> Waiting(n) = {}
  BY <1>2
<1>5. QED BY <1>2, <1>3, <1>4 DEF releasable, Pinned

(* A value is releasable exactly when no live consumer is left and it is   *)
(* no output.                                                              *)
THEOREM Release == Spec => []ReleaseExact
<1>1. IInv => ReleaseExact
  BY ReleaseMeaning DEF ReleaseExact
<1>2. QED BY Invariant, <1>1, PTL

(* DagEvaluation reads a program as the schedule does. *)
LEMMA SameProgram ==
  ASSUME NEW p
  PROVE  /\ Dag!Nodes(p) = Nodes(p)
         /\ Dag!WellFormed(p) <=> WellFormed(p)
         /\ \A n : Dag!ParentsOf(p, n) = ParentsOf(p, n)
         /\ \A n : Dag!Epoch(p, n) = Epoch(p, n)
         /\ Dag!Live(p) = Live(p)
<1>1. Dag!Nodes(p) = Nodes(p)
  BY DEF Dag!Nodes, Nodes
<1>2. \A op : Dag!Arity(op) = Arity(op)
  BY DEF Dag!Arity, Arity, Dag!Sources, Sources, Dag!Binaries, Binaries
<1>3. Dag!Ops = Ops
  BY DEF Dag!Ops, Ops, Dag!Sources, Sources, Dag!Binaries, Binaries, Dag!Unaries, Unaries
<1>4. Dag!WellFormed(p) <=> WellFormed(p)
  BY <1>1, <1>2, <1>3 DEF Dag!WellFormed, WellFormed
<1>5. \A n : Dag!ParentsOf(p, n) = ParentsOf(p, n)
  BY DEF Dag!ParentsOf, ParentsOf
<1>6. \A n : Dag!Epoch(p, n) = Epoch(p, n)
  BY DEF Dag!Epoch, Epoch, Dag!Cardinality, Cardinality
<1>7. Dag!Live(p) = Live(p)
  BY <1>1, <1>5 DEF Dag!Live, Live, Dag!ParentClosed, ParentClosed
<1>8. QED BY <1>1, <1>4, <1>5, <1>6, <1>7

(* A step evaluates one ready node after every earlier epoch. *)
LEMMA StepEvaluates ==
  ASSUME IInv, NEW i \in Nodes(program), Complete(i)
  PROVE  Dag!Evaluate(i)
<1>1. /\ i \in live \ done
      /\ ParentsOf(program, i) \subseteq done
      /\ Epoch(program, i) = active_epoch
      /\ done' = done \cup {i}
      /\ UNCHANGED <<program, live>>
  BY UnfinishedStep DEF Unfinished
<1>2. ASSUME NEW m \in live, Epoch(program, m) < Epoch(program, i)
      PROVE  m \in done
  <2>1. WellFormed(program) /\ m \in Nodes(program) /\ active_epoch \in Nat
    BY DEF IInv, TypeOK
  <2>2. Epoch(program, m) \in Nat /\ Epochs(program) \in Nat
    BY <2>1, EpochMonotone
  <2>3. \A n \in Unfinished : Epoch(program, n) >= active_epoch
    BY DEF IInv, EpochOpen
  <2>4. QED BY <1>1, <1>2, <2>1, <2>2, <2>3 DEF Unfinished
<1>3. QED BY <1>1, <1>2, SameProgram DEF Dag!Evaluate

(* A feedback epoch opens only when the work before its callback is done,  *)
(* in every order of completion.                                           *)
THEOREM Barrier == Spec => EpochBarrier
<1> DEFINE Late == \A n \in done' \ done : \A m \in live :
                     Epoch(program, m) < Epoch(program, n) => m \in done
<1>1. IInv /\ [Next]_vars => [Late]_vars
  <2> SUFFICES ASSUME IInv, Next PROVE Late
    OBVIOUS
  <2>1. PICK i \in Nodes(program) : Complete(i)
    BY DEF Next
  <2>2. Dag!Evaluate(i)
    BY <2>1, StepEvaluates
  <2>3. QED BY <2>2, SameProgram DEF Dag!Evaluate
<1>2. QED BY Invariant, <1>1, PTL DEF Spec, EpochBarrier

(* The frontier implements the evaluation order DagEvaluation allows:      *)
(* every step evaluates one node that DagEvaluation offers.                *)
THEOREM Refinement == Spec => DagSafety
<1>1. Init => Dag!Init
  BY ProgramsAssumption, SameProgram DEF Init, Dag!Init
<1>2. IInv /\ [Next]_vars => [Dag!Next]_(Dag!vars)
  <2> SUFFICES ASSUME IInv, [Next]_vars PROVE [Dag!Next]_(Dag!vars)
    OBVIOUS
  <2>1. CASE Next
    <3>1. PICK i \in Nodes(program) : Complete(i)
      BY <2>1 DEF Next
    <3>2. Dag!Evaluate(i)
      BY <3>1, StepEvaluates
    <3>3. i \in Dag!Nodes(program)
      BY SameProgram
    <3>4. QED BY <3>2, <3>3 DEF Dag!Next
  <2>2. CASE UNCHANGED vars
    BY <2>2 DEF vars, Dag!vars
  <2>3. QED BY <2>1, <2>2
<1>3. QED BY Invariant, <1>1, <1>2, PTL DEF Spec, DagSafety
=============================================================================
