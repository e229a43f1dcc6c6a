-------------------------- MODULE DiagonalPrefetch -------------------------
(***************************************************************************)
(* slot_bsgs_linear_block0_from_babies with --encode-threads: when the     *)
(* evaluation meets a diagonal without plaintext, worker threads encode    *)
(* the next batch of them in stripes, into one result vector; a result     *)
(* left null marks an all-zero mask.  With one thread it encodes on the    *)
(* spot.  Both implement SerialDiagonals.                                  *)
(***************************************************************************)
EXTENDS Naturals, Sequences, FiniteSets, FiniteSetsExt

CONSTANTS Positions, Works,
          ThreadCounts,    \* effective_encode_threads
          BatchPerThread   \* kEncodeBatchPerThread (8)

ASSUME PrefetchAssumption ==
  /\ Positions \in Nat
  /\ Works \subseteq [table : SUBSET (0 .. Positions - 1), zero : SUBSET (0 .. Positions - 1),
                     failing : SUBSET (0 .. Positions - 1)]
  /\ \A w \in Works : w.table \cap (w.zero \cup w.failing) = {}
  /\ ThreadCounts \subseteq Nat \ {0}
  /\ BatchPerThread \in Nat \ {0}

VARIABLES
  work, cursor, used, misses,
  threads,
  phase,        \* "scan", "encode", "done" or "failed"
  prefetched,   \* plaintext or Null per encoded position not yet reached
  results,      \* the result vector of the batch: plaintext or Null
  stripes,      \* what each worker has left to encode
  errors        \* workers that caught an exception

vars == <<work, cursor, used, misses, threads, phase, prefetched, results,
          stripes, errors>>
evaluation == <<cursor, used, misses>>
pool == <<results, stripes, errors>>

Null == Positions
Empty == [p \in {} |-> Null]

-----------------------------------------------------------------------------

Rank(batch, p) == Cardinality({q \in batch : q <= p})

(* The next diagonals without plaintext, as many as the look-ahead allows. *)
Uncached(from) == {p \in from .. Positions - 1 : p \notin work.table \cup DOMAIN prefetched}
BatchAhead(from) ==   \* mutant: positions, not pending encodings, are bounded
  {p \in Uncached(from) : p <= from + threads * BatchPerThread}
Batch(from) ==
  {p \in Uncached(from) : Rank(Uncached(from), p) <= threads * BatchPerThread}

(* Worker w takes every count-th job from its own index on.                *)
StripeFrom(batch, count, w) == {p \in batch : Rank(batch, p) > w}   \* mutant: stride 1
Stripe(batch, count, w) == {p \in batch : (Rank(batch, p) - 1) % count = w}

-----------------------------------------------------------------------------

Init ==
  /\ work \in Works
  /\ threads \in ThreadCounts
  /\ cursor = 0 /\ used = <<>> /\ misses = 0
  /\ phase = "scan"
  /\ prefetched = Empty
  /\ results = Empty
  /\ stripes = Empty
  /\ errors = {}

Scanning == phase = "scan" /\ cursor < Positions

(* The evaluation uses a plaintext, or passes over an all-zero mask.       *)
Multiply ==
  /\ used' = Append(used, cursor)
  /\ cursor' = cursor + 1
PassOver ==
  /\ cursor' = cursor + 1
  /\ UNCHANGED <<used, misses>>

FromTable ==
  /\ Scanning
  /\ cursor \in work.table
  /\ Multiply
  /\ UNCHANGED <<work, misses, threads, phase, prefetched, pool>>

EncodeInline ==
  /\ Scanning
  /\ cursor \notin work.table /\ threads = 1
  /\ IF cursor \in work.failing THEN phase' = "failed" /\ UNCHANGED evaluation
     ELSE /\ UNCHANGED phase
          /\ IF cursor \in work.zero THEN PassOver
             ELSE Multiply /\ misses' = misses + 1
  /\ UNCHANGED <<work, threads, prefetched, pool>>

FromPrefetched ==
  /\ Scanning
  /\ cursor \in DOMAIN prefetched \ work.table
  /\ prefetched' = [p \in DOMAIN prefetched \ {cursor} |-> prefetched[p]]
  /\ IF prefetched[cursor] = Null THEN PassOver
     ELSE /\ used' = Append(used, prefetched[cursor])
          /\ misses' = misses + 1
          /\ cursor' = cursor + 1
  /\ UNCHANGED <<work, threads, phase, pool>>

(* prefetch_from: the workers start. *)
StartBatch ==
  /\ Scanning
  /\ cursor \notin work.table \cup DOMAIN prefetched /\ threads > 1
  /\ LET batch == Batch(cursor)
         count == IF threads <= Cardinality(batch) THEN threads ELSE Cardinality(batch)
     IN  /\ results' = [p \in batch |-> Null]
         /\ stripes' = [w \in 0 .. count - 1 |-> Stripe(batch, count, w)]
  /\ errors' = {}
  /\ phase' = "encode"
  /\ UNCHANGED <<work, evaluation, threads, prefetched>>

Running(w) == phase = "encode" /\ w \in DOMAIN stripes \ errors /\ stripes[w] # {}
Job(w) == Min(stripes[w])

Encode(w) ==
  /\ Running(w)
  /\ Job(w) \notin work.failing
  /\ results' = [results EXCEPT ![Job(w)] = IF Job(w) \in work.zero THEN Null ELSE Job(w)]
  /\ stripes' = [stripes EXCEPT ![w] = @ \ {Job(w)}]
  /\ UNCHANGED <<work, evaluation, threads, phase, prefetched, errors>>

(* The worker keeps the exception and leaves the rest of its stripe.       *)
Catch(w) ==
  /\ Running(w)
  /\ Job(w) \in work.failing
  /\ errors' = errors \cup {w}
  /\ UNCHANGED <<work, evaluation, threads, phase, prefetched, results, stripes>>

(* All workers are joined, an exception is thrown again, else the results  *)
(* become available.                                                       *)
Merged == [p \in DOMAIN prefetched \cup DOMAIN results |->
             IF p \in DOMAIN results THEN results[p] ELSE prefetched[p]]
JoinNever ==   \* mutant: a worker's exception is not thrown again
  /\ phase = "encode" /\ \A w \in DOMAIN stripes : ~Running(w)
  /\ phase' = "scan"
  /\ prefetched' = Merged
  /\ UNCHANGED <<work, evaluation, threads, pool>>
Join ==
  /\ phase = "encode" /\ \A w \in DOMAIN stripes : ~Running(w)
  /\ IF errors # {} THEN phase' = "failed" /\ UNCHANGED prefetched
     ELSE /\ phase' = "scan"
          /\ prefetched' = Merged
  /\ UNCHANGED <<work, evaluation, threads, pool>>

Return ==
  /\ phase = "scan" /\ cursor = Positions
  /\ phase' = IF used = <<>> THEN "failed" ELSE "done"
  /\ UNCHANGED <<work, evaluation, threads, prefetched, pool>>

Next ==
  \/ FromTable \/ EncodeInline \/ FromPrefetched \/ StartBatch \/ Join \/ Return
  \/ \E w \in DOMAIN stripes : Encode(w) \/ Catch(w)

Spec == Init /\ [][Next]_vars /\ WF_vars(Next)

-----------------------------------------------------------------------------

(* "The math and counters are identical to the serial path": whatever the  *)
(* order of the workers, the products, their order, the miss counter and   *)
(* the end of the map are those of SerialDiagonals.                        *)
Serial == INSTANCE SerialDiagonals
            WITH outcome <- IF phase \in {"done", "failed"} THEN phase ELSE "running"
RefinesSerial == Serial!Spec

(* The safety part of it. *)
SerialSafety == Serial!Init /\ [][Serial!Next]_(Serial!vars)

(* The in-flight plaintexts are "bounded by encode_threads times           *)
(* kEncodeBatchPerThread", those of the batch and those waiting together.  *)
LookAheadBounded ==
  Cardinality(DOMAIN prefetched \cup
              IF phase = "encode" THEN DOMAIN results ELSE {}) <= threads * BatchPerThread

(* No two workers ever write the same entry of the result vector, and none *)
(* encodes what is already available.                                      *)
NoSharedJob ==
  /\ \A v, w \in DOMAIN stripes : v # w => stripes[v] \cap stripes[w] = {}
  /\ phase = "encode" => DOMAIN results \cap (work.table \cup DOMAIN prefetched) = {}
=============================================================================
