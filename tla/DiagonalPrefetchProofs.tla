----------------------- MODULE DiagonalPrefetchProofs -----------------------
(* The look-ahead encoder makes the products of the serial path, for every *)
(* number of diagonals and threads and every order of the workers.         *)
EXTENDS DiagonalPrefetch, CommonLemmas

Encoded(p) == IF p \in work.zero THEN Null ELSE p
Available(p, ready) == p \in work.table \/ p \in ready

TypeInv ==
  /\ work \in Works
  /\ threads \in ThreadCounts
  /\ cursor \in 0 .. Positions
  /\ phase \in {"scan", "encode", "done", "failed"}
  /\ used \in Seq(0 .. Positions - 1)
  /\ misses \in Nat
  /\ threads = 1 => DOMAIN prefetched = {} /\ phase # "encode"

(* A set of positions from c on that need encoding, within the look-ahead, *)
(* and without a gap: what a batch is and what is left of it.              *)
Ahead(c, S) ==
  /\ S \subseteq c .. Positions - 1
  /\ S \cap work.table = {}
  /\ \A p \in S : \A q \in c .. p : Available(q, S)
  /\ Cardinality(S) <= threads * BatchPerThread

PrefetchedRight ==
  /\ Ahead(cursor, DOMAIN prefetched)
  /\ \A p \in DOMAIN prefetched :
       p \notin work.failing /\ prefetched[p] = Encoded(p)

(* During a batch nothing else is waiting, and what is not encoded yet is  *)
(* still some worker's.                                                    *)
BatchRight ==
  phase = "encode" =>
    /\ cursor \in DOMAIN results
    /\ DOMAIN prefetched = {}
    /\ Ahead(cursor, DOMAIN results)
    /\ \A w \in DOMAIN stripes : stripes[w] \subseteq DOMAIN results
    /\ \A p \in DOMAIN results :
         \/ \E w \in DOMAIN stripes : p \in stripes[w]
         \/ p \notin work.failing /\ results[p] = Encoded(p)
    /\ errors \subseteq DOMAIN stripes
    /\ errors # {} => \E p \in work.failing : p >= cursor

IInv == TypeInv /\ PrefetchedRight /\ BatchRight /\ NoSharedJob

-----------------------------------------------------------------------------

(* Types of the works. *)
LEMMA WorkType ==
  ASSUME work \in Works
  PROVE  /\ work.table \subseteq 0 .. Positions - 1
         /\ work.zero \subseteq 0 .. Positions - 1
         /\ work.failing \subseteq 0 .. Positions - 1
         /\ work.table \cap (work.zero \cup work.failing) = {}
  BY PrefetchAssumption

LEMMA AheadFinite ==
  ASSUME NEW c \in Nat, NEW S \in SUBSET (c .. Positions - 1)
  PROVE  IsFiniteSet(S) /\ Cardinality(S) \in Nat
<1>1. IsFiniteSet(c .. Positions - 1)
  BY PrefetchAssumption, FS_Interval
<1>2. QED BY <1>1, FS_Subset, FS_CardinalityType

(* Passing a position that has its plaintext leaves the rest without gap.  *)
LEMMA Advance ==
  ASSUME TypeInv, NEW S, Ahead(cursor, S), NEW T, T = S \ {cursor}
  PROVE  Ahead(cursor + 1, T)
<1>1. T \subseteq cursor + 1 .. Positions - 1
  BY DEF Ahead, TypeInv
<1>2. \A p \in T : \A q \in cursor + 1 .. p : Available(q, T)
  BY DEF Ahead, TypeInv, Available
<1>3. Cardinality(T) <= Cardinality(S) /\ Cardinality(T) \in Nat /\ Cardinality(S) \in Nat
  <2>1. IsFiniteSet(S) /\ Cardinality(S) \in Nat
    BY AheadFinite DEF Ahead, TypeInv
  <2>2. IsFiniteSet(T) /\ Cardinality(T) <= Cardinality(S)
    BY <2>1, FS_Subset
  <2>3. QED BY <2>1, <2>2, FS_CardinalityType
<1>4. threads * BatchPerThread \in Nat
  BY PrefetchAssumption DEF TypeInv
<1>5. \A x, y, z \in Nat : x <= y /\ y <= z => x <= z
  OBVIOUS
<1>6. Cardinality(T) <= threads * BatchPerThread
  BY <1>3, <1>4, <1>5 DEF Ahead
<1>7. T \cap work.table = {}
  BY DEF Ahead
<1>8. QED BY <1>1, <1>2, <1>6, <1>7 DEF Ahead

(* A batch starts at the cursor, has no gap and respects the look-ahead.   *)
LEMMA BatchAheadOfCursor ==
  ASSUME TypeInv, cursor < Positions, cursor \notin work.table, DOMAIN prefetched = {}
  PROVE  Ahead(cursor, Batch(cursor)) /\ cursor \in Batch(cursor)
<1> DEFINE U == Uncached(cursor)
           K == threads * BatchPerThread
           R(p) == {q \in U : q <= p}
<1>1. U \subseteq cursor .. Positions - 1 /\ U \subseteq 0 .. Positions /\ cursor \in U
  BY PrefetchAssumption DEF Uncached, TypeInv
<1>2. K \in Nat \ {0}
  BY PrefetchAssumption DEF TypeInv
<1>3. \A p : R(p) \in SUBSET (cursor .. Positions - 1)
  BY <1>1
<1>4. \A p : IsFiniteSet(R(p)) /\ Cardinality(R(p)) \in Nat
  BY <1>3, AheadFinite DEF TypeInv
<1>5. Cardinality(R(cursor)) <= K
  <2>1. R(cursor) = {cursor}
    BY <1>1 DEF TypeInv
  <2>2. Cardinality(R(cursor)) = 1
    BY <2>1, FS_Singleton
  <2>3. QED BY <1>2, <2>2
<1>6. \A p : Rank(U, p) = Cardinality(R(p))
  BY DEF Rank
<1>7. Batch(cursor) = {p \in U : Cardinality(R(p)) <= K}
  BY <1>6 DEF Batch
<1>8. cursor \in Batch(cursor)
  BY <1>1, <1>5, <1>7
<1>9. ASSUME NEW p \in Batch(cursor), NEW q \in cursor .. p, q \notin work.table
      PROVE  q \in Batch(cursor)
  <2>1. p \in U /\ Cardinality(R(p)) <= K
    BY <1>7
  <2>2. q \in U
    BY <1>1, <1>9, <2>1, PrefetchAssumption DEF Uncached, TypeInv
  <2>3. R(q) \subseteq R(p)
    BY <1>1, <2>1, <2>2
  <2>4. Cardinality(R(q)) <= Cardinality(R(p))
    BY <1>4, <2>3, FS_Subset
  <2>5. \A x, y, z \in Nat : x <= y /\ y <= z => x <= z
    OBVIOUS
  <2>6. Cardinality(R(q)) <= K
    BY <1>2, <1>4, <2>1, <2>4, <2>5
  <2>7. QED BY <1>7, <2>2, <2>6
<1>10. Cardinality(Batch(cursor)) <= K
  <2>1. Positions \in Nat /\ K \in Nat
    BY <1>2, PrefetchAssumption
  <2>2. QED BY <1>1, <1>7, <2>1, RankBound
<1>11. Batch(cursor) \subseteq cursor .. Positions - 1 /\ Batch(cursor) \cap work.table = {}
  BY <1>1, <1>7 DEF Uncached
<1>12. QED BY <1>8, <1>9, <1>10, <1>11 DEF Ahead, Available

(* The stripes divide the batch among the workers.                         *)
LEMMA StripesDivide ==
  ASSUME NEW c \in Nat, NEW B \in SUBSET (c .. Positions - 1), NEW n \in Nat \ {0}
  PROVE  /\ \A p \in B : \E w \in 0 .. n - 1 : p \in Stripe(B, n, w)
         /\ \A v, w : v # w => Stripe(B, n, v) \cap Stripe(B, n, w) = {}
         /\ \A w : Stripe(B, n, w) \subseteq B
<1>1. ASSUME NEW p \in B
      PROVE  Rank(B, p) - 1 \in Nat
  <2>1. {q \in B : q <= p} \in SUBSET (c .. Positions - 1)
    OBVIOUS
  <2>2. IsFiniteSet({q \in B : q <= p}) /\ Cardinality({q \in B : q <= p}) \in Nat
    BY <2>1, AheadFinite
  <2>3. Cardinality({q \in B : q <= p}) # 0
    <3>1. p <= p
      BY PrefetchAssumption
    <3>2. {q \in B : q <= p} # {}
      BY <3>1
    <3>3. QED BY <2>2, <3>2, FS_EmptySet
  <2>4. QED BY <2>2, <2>3 DEF Rank
<1>2. \A p \in B : (Rank(B, p) - 1) % n \in 0 .. n - 1
  BY <1>1, RemainderBelow
<1>3. QED BY <1>2 DEF Stripe

(* A running worker's job is one of its stripe.                            *)
LEMMA JobInStripe ==
  ASSUME IInv, NEW w, Running(w)
  PROVE  /\ w \in DOMAIN stripes
         /\ Job(w) \in stripes[w]
         /\ Job(w) \in DOMAIN results
<1>1. w \in DOMAIN stripes /\ stripes[w] # {} /\ stripes[w] \subseteq DOMAIN results
  BY DEF Running, IInv, BatchRight
<1>2. DOMAIN results \subseteq Nat
  BY DEF Running, IInv, BatchRight, Ahead, TypeInv
<1>3. \E x \in stripes[w] : \A y \in stripes[w] : x <= y
  BY <1>1, <1>2, LeastNat
<1>4. Job(w) \in stripes[w]
  BY <1>3 DEF Job, Min
<1>5. QED BY <1>1, <1>4

-----------------------------------------------------------------------------

LEMMA InitIInv == Init => IInv
<1> SUFFICES ASSUME Init PROVE IInv
  OBVIOUS
<1>1. DOMAIN prefetched = {} /\ DOMAIN stripes = {}
  BY DEF Init, Empty
<1>2. TypeInv
  BY <1>1, PrefetchAssumption DEF Init, TypeInv
<1>3. PrefetchedRight
  <2>1. Cardinality({}) = 0
    BY FS_EmptySet
  <2>2. threads * BatchPerThread \in Nat
    BY PrefetchAssumption DEF Init
  <2>3. Ahead(cursor, {})
    BY <2>1, <2>2 DEF Ahead
  <2>4. QED BY <1>1, <2>3 DEF PrefetchedRight
<1>4. BatchRight /\ NoSharedJob
  BY <1>1 DEF Init, BatchRight, NoSharedJob
<1>5. QED BY <1>2, <1>3, <1>4 DEF IInv

(* What the invariant and the step Next leave alone outside a batch.       *)
LEMMA ScanStep ==
  ASSUME IInv, Scanning, phase' # "encode", UNCHANGED <<work, threads, stripes>>,
         TypeInv', PrefetchedRight'
  PROVE  IInv'
<1>1. BatchRight'
  BY DEF BatchRight
<1>2. NoSharedJob'
  BY DEF IInv, NoSharedJob
<1>3. QED BY <1>1, <1>2 DEF IInv

LEMMA FromTableStep == IInv /\ FromTable => IInv' /\ Serial!Hit
<1> SUFFICES ASSUME IInv, FromTable PROVE IInv' /\ Serial!Hit
  OBVIOUS
<1> USE DEF FromTable, Scanning, Multiply, pool
<1>1. TypeInv'
  <2>1. cursor \in 0 .. Positions - 1 /\ cursor + 1 \in 0 .. Positions
    BY PrefetchAssumption DEF IInv, TypeInv
  <2>2. Append(used, cursor) \in Seq(0 .. Positions - 1)
    BY <2>1 DEF IInv, TypeInv
  <2>3. QED BY <2>1, <2>2 DEF IInv, TypeInv
<1>2. PrefetchedRight'
  <2>1. DOMAIN prefetched = DOMAIN prefetched \ {cursor}
    BY DEF IInv, PrefetchedRight, Ahead
  <2>2. Ahead(cursor + 1, DOMAIN prefetched)
    BY <2>1, Advance DEF IInv, PrefetchedRight
  <2>3. QED BY <2>2 DEF IInv, PrefetchedRight, Ahead, Available, Encoded
<1>3. IInv'
  BY <1>1, <1>2, ScanStep
<1>4. Serial!Hit
  BY DEF Serial!Hit, Serial!AtDiagonal
<1>5. QED BY <1>3, <1>4

LEMMA EncodeInlineStep ==
  IInv /\ EncodeInline => IInv' /\ (Serial!Fail \/ Serial!Skip \/ Serial!Miss)
<1> SUFFICES ASSUME IInv, EncodeInline
             PROVE  IInv' /\ (Serial!Fail \/ Serial!Skip \/ Serial!Miss)
  OBVIOUS
<1> USE DEF EncodeInline, Scanning, Multiply, PassOver, pool, evaluation
<1>1. TypeInv'
  <2>1. cursor \in 0 .. Positions - 1 /\ cursor + 1 \in 0 .. Positions
    BY PrefetchAssumption DEF IInv, TypeInv
  <2>2. Append(used, cursor) \in Seq(0 .. Positions - 1)
    BY <2>1 DEF IInv, TypeInv
  <2>3. used' = used \/ used' = Append(used, cursor)
    OBVIOUS
  <2>4. used' \in Seq(0 .. Positions - 1)
    BY <2>2, <2>3 DEF IInv, TypeInv
  <2>5. misses' \in Nat /\ cursor' \in 0 .. Positions
    BY <2>1 DEF IInv, TypeInv
  <2>6. QED BY <2>4, <2>5 DEF IInv, TypeInv
<1>2. PrefetchedRight'
  <2>1. DOMAIN prefetched = {}
    BY DEF IInv, TypeInv
  <2>2. Ahead(cursor', {})
    BY <2>1 DEF IInv, PrefetchedRight, Ahead
  <2>3. QED BY <2>1, <2>2 DEF PrefetchedRight, Ahead, Available
<1>3. IInv'
  BY <1>1, <1>2, ScanStep
<1>4. CASE cursor \in work.failing
  <2>1. cursor >= cursor
    BY DEF IInv, TypeInv
  <2>2. Serial!Fail
    BY <1>4, <2>1 DEF Serial!Fail, Serial!AtDiagonal
  <2>3. QED BY <1>3, <2>2
<1>5. CASE cursor \notin work.failing
  BY <1>3, <1>5 DEF Serial!Skip, Serial!Miss, Serial!AtDiagonal
<1>6. QED BY <1>4, <1>5

LEMMA FromPrefetchedStep ==
  IInv /\ FromPrefetched => IInv' /\ (Serial!Skip \/ Serial!Miss)
<1> SUFFICES ASSUME IInv, FromPrefetched PROVE IInv' /\ (Serial!Skip \/ Serial!Miss)
  OBVIOUS
<1> USE DEF FromPrefetched, Scanning, PassOver, pool
<1>1. /\ cursor \notin work.failing /\ cursor \notin work.table
      /\ prefetched[cursor] = Encoded(cursor)
  BY DEF IInv, PrefetchedRight
<1>2. cursor \in 0 .. Positions - 1
  BY PrefetchAssumption DEF IInv, TypeInv
<1>3. (prefetched[cursor] = Null) = (cursor \in work.zero)
  BY <1>1, <1>2 DEF Encoded, Null
<1>4. prefetched[cursor] # Null => prefetched[cursor] = cursor
  BY <1>1, <1>3 DEF Encoded
<1>5. cursor' = cursor + 1
  OBVIOUS
<1>6. TypeInv'
  <2>1. cursor + 1 \in 0 .. Positions
    BY <1>2, PrefetchAssumption
  <2>2. Append(used, cursor) \in Seq(0 .. Positions - 1)
    BY <1>2 DEF IInv, TypeInv
  <2>3. used' = used \/ used' = Append(used, cursor)
    BY <1>4
  <2>4. used' \in Seq(0 .. Positions - 1)
    BY <2>2, <2>3 DEF IInv, TypeInv
  <2>5. misses' \in Nat
    BY DEF IInv, TypeInv
  <2>6. QED BY <1>5, <2>1, <2>4, <2>5 DEF IInv, TypeInv
<1>7. PrefetchedRight'
  <2>1. DOMAIN prefetched' = DOMAIN prefetched \ {cursor}
    OBVIOUS
  <2>2. Ahead(cursor + 1, DOMAIN prefetched \ {cursor})
    BY Advance DEF IInv, PrefetchedRight
  <2>3. Ahead(cursor, DOMAIN prefetched)'
    BY <1>5, <2>1, <2>2 DEF Ahead, Available
  <2>4. \A p \in DOMAIN prefetched' :
          p \notin work.failing /\ prefetched'[p] = Encoded(p)
    BY <2>1 DEF IInv, PrefetchedRight
  <2>5. QED BY <2>3, <2>4 DEF PrefetchedRight, Encoded
<1>8. IInv'
  BY <1>6, <1>7, ScanStep
<1>9. CASE cursor \in work.zero
  BY <1>1, <1>3, <1>8, <1>9 DEF Serial!Skip, Serial!AtDiagonal
<1>10. CASE cursor \notin work.zero
  BY <1>1, <1>3, <1>4, <1>8, <1>10 DEF Serial!Miss, Serial!AtDiagonal
<1>11. QED BY <1>9, <1>10

(* A batch only starts when nothing is waiting: what waits has no gap.     *)
LEMMA StartBatchStep == IInv /\ StartBatch => IInv'
<1> SUFFICES ASSUME IInv, StartBatch PROVE IInv'
  OBVIOUS
<1> DEFINE B == Batch(cursor)
           n == IF threads <= Cardinality(B) THEN threads ELSE Cardinality(B)
<1>1. /\ Scanning /\ cursor \notin work.table \cup DOMAIN prefetched
      /\ threads > 1 /\ phase' = "encode" /\ errors' = {}
      /\ results' = [p \in B |-> Null]
      /\ stripes' = [w \in 0 .. n - 1 |-> Stripe(B, n, w)]
      /\ UNCHANGED <<work, cursor, used, misses, threads, prefetched>>
  BY DEF StartBatch, evaluation
<1>2. DOMAIN prefetched = {}
  <2>1. SUFFICES ASSUME NEW p \in DOMAIN prefetched PROVE FALSE
    OBVIOUS
  <2>2. cursor \in cursor .. p
    BY PrefetchAssumption DEF IInv, TypeInv, PrefetchedRight, Ahead
  <2>3. Available(cursor, DOMAIN prefetched)
    BY <2>2 DEF IInv, PrefetchedRight, Ahead
  <2>4. QED BY <1>1, <2>3 DEF Available
<1>3. Ahead(cursor, B) /\ cursor \in B
  BY <1>1, <1>2, BatchAheadOfCursor DEF IInv, Scanning
<1>4. B \in SUBSET (cursor .. Positions - 1) /\ cursor \in Nat
  BY <1>3 DEF Ahead, IInv, TypeInv
<1>5. n \in Nat \ {0}
  <2>1. IsFiniteSet(B) /\ Cardinality(B) \in Nat
    BY <1>4, AheadFinite
  <2>2. Cardinality(B) # 0
    BY <1>3, <2>1, FS_EmptySet
  <2>3. threads \in Nat \ {0}
    BY PrefetchAssumption DEF IInv, TypeInv
  <2>4. QED BY <2>1, <2>2, <2>3
<1> HIDE DEF B, n
<1>6. /\ \A p \in B : \E w \in 0 .. n - 1 : p \in Stripe(B, n, w)
      /\ \A v, w : v # w => Stripe(B, n, v) \cap Stripe(B, n, w) = {}
      /\ \A w : Stripe(B, n, w) \subseteq B
  BY <1>4, <1>5, StripesDivide
<1>7. TypeInv'
  BY <1>1, PrefetchAssumption DEF IInv, TypeInv
<1>8. PrefetchedRight'
  BY <1>1, <1>2, <1>3 DEF IInv, PrefetchedRight, Ahead, Available, Encoded
<1>9. BatchRight'
  <2>1. DOMAIN results' = B /\ DOMAIN stripes' = 0 .. n - 1
    BY <1>1
  <2>2. Ahead(cursor, DOMAIN results)'
    BY <1>1, <1>3, <2>1 DEF Ahead, Available
  <2>3. \A w \in DOMAIN stripes' : stripes'[w] = Stripe(B, n, w)
    BY <1>1
  <2>4. \A w \in DOMAIN stripes' : stripes'[w] \subseteq DOMAIN results'
    BY <1>6, <2>1, <2>3
  <2>5. \A p \in DOMAIN results' : \E w \in DOMAIN stripes' : p \in stripes'[w]
    BY <1>6, <2>1, <2>3
  <2>6. QED BY <1>1, <1>2, <1>3, <2>1, <2>2, <2>4, <2>5 DEF BatchRight
<1>10. NoSharedJob'
  <2>1. \A v, w \in DOMAIN stripes' : v # w => stripes'[v] \cap stripes'[w] = {}
    BY <1>1, <1>6
  <2>2. DOMAIN results' \cap (work'.table \cup DOMAIN prefetched') = {}
    BY <1>1, <1>2, <1>3 DEF Ahead
  <2>3. QED BY <2>1, <2>2 DEF NoSharedJob
<1>11. QED BY <1>7, <1>8, <1>9, <1>10 DEF IInv

LEMMA EncodeStep == \A w : IInv /\ Encode(w) => IInv'
<1> SUFFICES ASSUME NEW w, IInv, Encode(w) PROVE IInv'
  OBVIOUS
<1> DEFINE j == Job(w)
<1>1. /\ Running(w) /\ j \notin work.failing
      /\ results' = [results EXCEPT ![j] = IF j \in work.zero THEN Null ELSE j]
      /\ stripes' = [stripes EXCEPT ![w] = @ \ {j}]
      /\ UNCHANGED <<work, cursor, used, misses, threads, phase, prefetched, errors>>
  BY DEF Encode, evaluation
<1>2. phase = "encode" /\ w \in DOMAIN stripes /\ j \in stripes[w] /\ j \in DOMAIN results
  BY <1>1, JobInStripe DEF Running
<1> HIDE DEF j
<1>3. DOMAIN results' = DOMAIN results /\ DOMAIN stripes' = DOMAIN stripes
  BY <1>1
<1>4. \A v \in DOMAIN stripes : stripes'[v] \subseteq stripes[v]
  BY <1>1
<1>5. \A v \in DOMAIN stripes : \A p \in stripes[v] : p # j => p \in stripes'[v]
  BY <1>1
<1>6. /\ results'[j] = Encoded(j)
      /\ \A p \in DOMAIN results : p # j => results'[p] = results[p]
  BY <1>1, <1>2 DEF Encoded
<1>7. TypeInv' /\ PrefetchedRight'
  BY <1>1 DEF IInv, TypeInv, PrefetchedRight, Ahead, Available, Encoded
<1>8. NoSharedJob'
  BY <1>1, <1>3, <1>4 DEF IInv, NoSharedJob
<1>9. BatchRight'
  <2>1. /\ cursor \in DOMAIN results /\ DOMAIN prefetched = {}
        /\ Ahead(cursor, DOMAIN results)
        /\ errors \subseteq DOMAIN stripes
        /\ errors # {} => \E p \in work.failing : p >= cursor
        /\ \A v \in DOMAIN stripes : stripes[v] \subseteq DOMAIN results
    BY <1>2 DEF IInv, BatchRight
  <2>2. Ahead(cursor, DOMAIN results)'
    BY <1>1, <1>3, <2>1 DEF Ahead, Available
  <2>3. ASSUME NEW p \in DOMAIN results
        PROVE  \/ \E v \in DOMAIN stripes : p \in stripes'[v]
               \/ p \notin work.failing /\ results'[p] = Encoded(p)
    <3>1. CASE p = j
      BY <1>1, <1>6, <3>1
    <3>2. CASE p # j
      BY <1>2, <1>5, <1>6, <3>2 DEF IInv, BatchRight
    <3>3. QED BY <3>1, <3>2
  <2>4. \A p : Encoded(p)' = Encoded(p)
    BY <1>1 DEF Encoded
  <2>5. QED BY <1>1, <1>3, <1>4, <2>1, <2>2, <2>3, <2>4 DEF BatchRight, Encoded
<1>10. QED BY <1>7, <1>8, <1>9 DEF IInv

LEMMA CatchStep == \A w : IInv /\ Catch(w) => IInv'
<1> SUFFICES ASSUME NEW w, IInv, Catch(w) PROVE IInv'
  OBVIOUS
<1>1. /\ Running(w) /\ Job(w) \in work.failing
      /\ errors' = errors \cup {w}
      /\ UNCHANGED <<work, cursor, used, misses, threads, phase, prefetched, results, stripes>>
  BY DEF Catch, evaluation
<1>2. phase = "encode" /\ w \in DOMAIN stripes /\ Job(w) \in DOMAIN results
  BY <1>1, JobInStripe DEF Running
<1>3. Job(w) >= cursor
  BY <1>2 DEF IInv, BatchRight, Ahead, TypeInv
<1>4. TypeInv' /\ PrefetchedRight' /\ NoSharedJob'
  BY <1>1 DEF IInv, TypeInv, PrefetchedRight, NoSharedJob, Ahead, Available, Encoded
<1>5. BatchRight'
  BY <1>1, <1>2, <1>3 DEF IInv, BatchRight, Ahead, Available, Encoded
<1>6. QED BY <1>4, <1>5 DEF IInv

(* Joining without an exception, every worker has emptied its stripe.      *)
LEMMA JoinStep == IInv /\ Join => IInv' /\ (Serial!Fail \/ UNCHANGED Serial!vars)
<1> SUFFICES ASSUME IInv, Join
             PROVE  IInv' /\ (Serial!Fail \/ UNCHANGED Serial!vars)
  OBVIOUS
<1>1. /\ phase = "encode" /\ \A w \in DOMAIN stripes : ~ Running(w)
      /\ UNCHANGED <<work, cursor, used, misses, threads, results, stripes, errors>>
  BY DEF Join, evaluation, pool
<1>2. NoSharedJob' /\ BatchRight'
  BY <1>1 DEF Join, IInv, NoSharedJob, BatchRight
<1>3. CASE errors # {}
  <2>1. phase' = "failed" /\ UNCHANGED prefetched
    BY <1>3 DEF Join
  <2>2. TypeInv' /\ PrefetchedRight'
    BY <1>1, <2>1 DEF IInv, TypeInv, PrefetchedRight, Ahead, Available, Encoded
  <2>3. \E p \in work.failing : p >= cursor
    BY <1>1, <1>3 DEF IInv, BatchRight
  <2>4. cursor < Positions
    BY <1>1, PrefetchAssumption DEF IInv, BatchRight, Ahead, TypeInv
  <2>5. Serial!Fail
    BY <1>1, <2>1, <2>3, <2>4 DEF Serial!Fail, Serial!AtDiagonal
  <2>6. QED BY <1>2, <2>2, <2>5 DEF IInv
<1>4. CASE errors = {}
  <2>1. phase' = "scan" /\ prefetched' = Merged
    BY <1>4 DEF Join
  <2>2. \A w \in DOMAIN stripes : stripes[w] = {}
    BY <1>1, <1>4 DEF Running
  <2>3. /\ DOMAIN prefetched = {} /\ Ahead(cursor, DOMAIN results)
        /\ \A p \in DOMAIN results : p \notin work.failing /\ results[p] = Encoded(p)
    BY <1>1, <2>2 DEF IInv, BatchRight
  <2>4. prefetched' = [p \in DOMAIN results |-> results[p]]
    BY <2>1, <2>3 DEF Merged
  <2>5. PrefetchedRight'
    BY <1>1, <2>3, <2>4 DEF PrefetchedRight, Ahead, Available, Encoded
  <2>6. TypeInv'
    BY <1>1, <2>1 DEF IInv, TypeInv
  <2>7. UNCHANGED Serial!vars
    BY <1>1, <2>1 DEF Serial!vars
  <2>8. QED BY <1>2, <2>5, <2>6, <2>7 DEF IInv
<1>5. QED BY <1>3, <1>4

LEMMA ReturnStep == IInv /\ Return => IInv' /\ Serial!Return
<1> SUFFICES ASSUME IInv, Return PROVE IInv' /\ Serial!Return
  OBVIOUS
<1> USE DEF Return, evaluation, pool
<1>1. TypeInv' /\ PrefetchedRight' /\ BatchRight' /\ NoSharedJob'
  BY DEF IInv, TypeInv, PrefetchedRight, BatchRight, NoSharedJob, Ahead, Available, Encoded
<1>2. Serial!Return
  BY DEF Serial!Return
<1>3. QED BY <1>1, <1>2 DEF IInv

-----------------------------------------------------------------------------

(* Every step keeps the invariant. *)
LEMMA NextIInv == IInv /\ [Next]_vars => IInv'
<1> SUFFICES ASSUME IInv, [Next]_vars PROVE IInv'
  OBVIOUS
<1>1. CASE UNCHANGED vars
  BY <1>1 DEF vars, evaluation, pool, IInv, TypeInv, PrefetchedRight, BatchRight,
              NoSharedJob, Ahead, Available, Encoded
<1>2. CASE FromTable \/ EncodeInline \/ FromPrefetched
  BY <1>2, FromTableStep, EncodeInlineStep, FromPrefetchedStep
<1>3. CASE StartBatch \/ Join \/ Return
  BY <1>3, StartBatchStep, JoinStep, ReturnStep
<1>4. ASSUME NEW w, Encode(w) \/ Catch(w) PROVE IInv'
  BY <1>4, EncodeStep, CatchStep
<1>5. QED BY <1>1, <1>2, <1>3, <1>4 DEF Next

(* The invariant holds throughout a map. *)
THEOREM PrefetchInvariant == Spec => []IInv
BY InitIInv, NextIInv, PTL DEF Spec

(* However many threads, the plaintexts in flight stay within what the     *)
(* look-ahead allows them.                                                 *)
THEOREM InFlightBounded == Spec => []LookAheadBounded
<1>1. IInv => LookAheadBounded
  <2> SUFFICES ASSUME IInv PROVE LookAheadBounded
    OBVIOUS
  <2>1. CASE phase = "encode"
    <3>1. DOMAIN prefetched \cup DOMAIN results = DOMAIN results
      BY <2>1 DEF IInv, BatchRight
    <3>2. QED BY <2>1, <3>1 DEF IInv, BatchRight, Ahead, LookAheadBounded
  <2>2. CASE phase # "encode"
    <3>1. DOMAIN prefetched \cup {} = DOMAIN prefetched
      OBVIOUS
    <3>2. QED BY <2>2, <3>1 DEF IInv, PrefetchedRight, Ahead, LookAheadBounded
  <2>3. QED BY <2>1, <2>2
<1>2. QED BY <1>1, PrefetchInvariant, PTL

(* The workers of a batch never write the same entry. *)
THEOREM NoRace == Spec => []NoSharedJob
<1>1. IInv => NoSharedJob
  BY DEF IInv
<1>2. QED BY <1>1, PrefetchInvariant, PTL

(* Each step of the look-ahead encoder is one of the serial path, or none  *)
(* of it.                                                                  *)
LEMMA StepRefines == IInv /\ [Next]_vars => [Serial!Next]_(Serial!vars)
<1> SUFFICES ASSUME IInv, [Next]_vars PROVE Serial!Next \/ UNCHANGED Serial!vars
  OBVIOUS
<1>1. CASE UNCHANGED vars
  BY <1>1 DEF vars, evaluation, Serial!vars
<1>2. CASE FromTable \/ EncodeInline \/ FromPrefetched
  BY <1>2, FromTableStep, EncodeInlineStep, FromPrefetchedStep DEF Serial!Next
<1>3. CASE StartBatch
  BY <1>3 DEF StartBatch, Scanning, evaluation, Serial!vars
<1>4. CASE Join
  BY <1>4, JoinStep DEF Serial!Next
<1>5. CASE Return
  BY <1>5, ReturnStep DEF Serial!Next
<1>6. ASSUME NEW w, Encode(w) \/ Catch(w) PROVE UNCHANGED Serial!vars
  BY <1>6 DEF Encode, Catch, evaluation, Serial!vars
<1>7. QED BY <1>1, <1>2, <1>3, <1>4, <1>5, <1>6 DEF Next

(* "The math and counters are identical to the serial path", for every     *)
(* work, number of threads and order of their steps.                       *)
THEOREM PrefetchIsSerial == Spec => SerialSafety
<1>1. Init => Serial!Init
  BY DEF Init, Serial!Init
<1>2. QED BY <1>1, StepRefines, PrefetchInvariant, PTL DEF Spec, SerialSafety
=============================================================================
