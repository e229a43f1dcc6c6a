----------------------------- MODULE MCGpuBudget -----------------------------
(* Three command lines of one campaign, over two output directories: with  *)
(* the budget, with another limit, without a ledger, with options the      *)
(* runner refuses, and with a payload whose digest differs.                *)
EXTENDS GpuBudget, TLC

Plain == [planned |-> FALSE, legacy |-> FALSE, batch |-> FALSE, passes |-> 2,
          s2c |-> FALSE, dual |-> FALSE, frontier |-> FALSE]
Invalid == [Plain EXCEPT !.frontier = TRUE]
Line(file, limit, timeout, output, options, intact) ==
  [file |-> file, limit |-> limit, timeout |-> timeout, output |-> output,
   options |-> options, intact |-> intact]

Whole == Line(TRUE, 5, 9, "a", Plain, TRUE)
Short == Line(TRUE, 5, 1, "b", Plain, TRUE)
Free == Line(FALSE, 0, 1, "a", Plain, TRUE)
Others ==
  {Short, Whole, Free,
   Line(TRUE, 6, 1, "b", Plain, TRUE),
   Line(TRUE, 5, 1, "b", Invalid, TRUE),
   Line(TRUE, 5, 1, "b", Plain, FALSE),
   Line(FALSE, 5, 1, "b", Plain, TRUE)}

CONSTANTS r1, r2
MCCampaigns ==
  {(r1 :> Whole) @@ (r2 :> q) : q \in Others}
=============================================================================
