------------------------- MODULE MCDiagonalPrefetch ------------------------
(* Every division of a few diagonals into persistent, all-zero, failing    *)
(* and ordinary ones.                                                      *)
EXTENDS DiagonalPrefetch

MCWorks ==
  {w \in [table : SUBSET (0 .. Positions - 1), zero : SUBSET (0 .. Positions - 1),
          failing : SUBSET (0 .. Positions - 1)] :
     /\ w.table \cap (w.zero \cup w.failing) = {}
     /\ w.zero \cap w.failing = {} /\ Cardinality(w.failing) <= 2}
=============================================================================
