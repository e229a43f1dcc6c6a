-------------------------- MODULE SerialDiagonals --------------------------
(***************************************************************************)
(* The ciphertext-plaintext products of one slot-BSGS linear map as the    *)
(* serial path of slot_bsgs_linear_block0_from_babies makes them: position *)
(* by position over the diagonals, skipping those that are all zero, with  *)
(* plaintexts from the persistent table or encoded on the spot.            *)
(*                                                                         *)
(* The work of a map is a record: table, the positions whose plaintext is  *)
(* persistent; zero, those with an all-zero mask; failing, those whose     *)
(* encoding throws.  A plaintext is named by the position it encodes.      *)
(***************************************************************************)
EXTENDS Naturals, Sequences

CONSTANTS Positions,   \* giants times baby steps
          Works        \* works the decoder may be given

VARIABLES work,
          cursor,    \* the diagonal the evaluation is at
          used,      \* plaintexts multiplied so far
          misses,    \* the cache miss counter
          outcome    \* "running", "done" or "failed"

vars == <<work, cursor, used, misses, outcome>>

Init ==
  /\ work \in Works
  /\ cursor = 0
  /\ used = <<>>
  /\ misses = 0
  /\ outcome = "running"

AtDiagonal == outcome = "running" /\ cursor < Positions

Hit ==
  /\ AtDiagonal
  /\ cursor \in work.table
  /\ used' = Append(used, cursor)
  /\ cursor' = cursor + 1
  /\ UNCHANGED <<work, misses, outcome>>

Skip ==
  /\ AtDiagonal
  /\ cursor \in work.zero \ work.failing
  /\ cursor' = cursor + 1
  /\ UNCHANGED <<work, used, misses, outcome>>

Miss ==
  /\ AtDiagonal
  /\ cursor \notin work.table \cup work.zero \cup work.failing
  /\ used' = Append(used, cursor)
  /\ misses' = misses + 1
  /\ cursor' = cursor + 1
  /\ UNCHANGED <<work, outcome>>

(* A diagonal that cannot be encoded fails the map, when it is reached or  *)
(* as soon as it is known.                                                 *)
Fail ==
  /\ AtDiagonal
  /\ \E p \in work.failing : p >= cursor
  /\ outcome' = "failed"
  /\ UNCHANGED <<work, cursor, used, misses>>

(* "slot BSGS produced no terms" is a failure too.                         *)
Return ==
  /\ outcome = "running" /\ cursor = Positions
  /\ outcome' = IF used = <<>> THEN "failed" ELSE "done"
  /\ UNCHANGED <<work, cursor, used, misses>>

Next == Hit \/ Skip \/ Miss \/ Fail \/ Return

Spec == Init /\ [][Next]_vars /\ WF_vars(Next)
=============================================================================
