-------------------------- MODULE ReplicatedWindows ------------------------
(***************************************************************************)
(* The geometry of a replicated projection y = W x, W with m rows and n    *)
(* columns: the batch is cut into windows of a multiple of n slots, x is   *)
(* repeated through r of them (and through one guard window), and window j *)
(* serves the diagonals j, j + r, j + 2r, ...  bsgs_layout.py, and its     *)
(* native counterpart in stage1_mamba2_plan.cpp.                           *)
(***************************************************************************)
EXTENDS Integers

CeilDiv(a, b) == (a + b - 1) \div b

Smaller(a, b) == IF a <= b THEN a ELSE b

\* A shape.  replicas <= 1 is the native code's "does not fit, no benefit".
Shape(replicas, window, guard_windows) ==
  [replicas |-> replicas, window |-> window, guard_windows |-> guard_windows]

choose_window(m, n, batch) ==
  LET window == n * CeilDiv(m + n, n)
  IN  Shape(Smaller(n, batch \div window), window, 0)

\* The tightest window for r interleaved replicas.
InterleavedWindow(m, n, r) == n * CeilDiv(m + r - 1, n)

InterleavedFits(m, n, batch, r) ==
  /\ r \in 2 .. Smaller(n, batch \div n - 1)
  /\ (r + 1) * InterleavedWindow(m, n, r) <= batch

\* The most replicas that fit together with a guard window.
choose_interleaved_window(m, n, batch) ==
  IF \E r \in 2 .. n : InterleavedFits(m, n, batch, r)
  THEN LET r == CHOOSE r \in 2 .. n :
                  /\ InterleavedFits(m, n, batch, r)
                  /\ \A q \in 2 .. n : InterleavedFits(m, n, batch, q) => q <= r
       IN  Shape(r, InterleavedWindow(m, n, r), 1)
  ELSE choose_window(m, n, batch)

-----------------------------------------------------------------------------

\* What the planners promise of the shape they choose for an m x n matrix:
\* whole tiles, room for every part of an output, and room for what the
\* replicas read behind their windows.
Sound(shape, m, n, batch) ==
  /\ shape.replicas \in 1 .. n
  /\ shape.guard_windows \in {0, 1}
  /\ shape.window \in Nat
  /\ \E tiles \in 1 .. shape.window : shape.window = n * tiles
  /\ m + shape.replicas - 1 <= shape.window
  /\ shape.guard_windows = 0 => m + n <= shape.window
  /\ n <= shape.window
  /\ (shape.replicas + shape.guard_windows) * shape.window <= batch

-----------------------------------------------------------------------------

per_replica(n, r) == CeilDiv(n, r)

\* mutant: the last group takes a diagonal for every replica
Diagonals_all(n, r, k) == 0 .. r - 1

\* Diagonals of group k, one for each replica that still has one.
Diagonals(n, r, k) == {j \in 0 .. r - 1 : j + k * r < n}

\* Where output i of replica j collects its part, and what the slot holds
\* after the input is rotated by k * r.
MaskSlot(window, i, j) == j * window + i + j
InputRead(n, i, j, k, r) == (i + j + k * r) % n

\* The combined mask of group k: weight <<W, row, column>> at each slot.
CombinedMask(W, m, n, k, shape) ==
  {<<MaskSlot(shape.window, i, j), <<W, i, InputRead(n, i, j, k, shape.replicas)>> >> :
     i \in 0 .. m - 1, j \in Diagonals(n, shape.replicas, k)}
=============================================================================
