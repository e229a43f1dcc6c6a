-------------------------- MODULE MCPackedSchedule --------------------------
(* Every program of Size nodes up to the operations' names: each node is a *)
(* source, a unary or a binary operation or a feedback of earlier nodes.   *)
EXTENDS PackedSchedule

CONSTANTS Size, MaxOutputs

Shapes(n) ==
  {<<"input", <<>>>>}
    \cup {<<o, <<a>>>> : o \in {"unary", "feedback"}, a \in 0 .. n - 1}
    \cup {<<"add", <<a, b>>>> : a \in 0 .. n - 1, b \in 0 .. n - 1}

Bodies == {f \in [0 .. Size - 1 -> UNION {Shapes(n) : n \in 0 .. Size - 1}] :
             \A n \in 0 .. Size - 1 : f[n] \in Shapes(n)}

MCPrograms ==
  {[count |-> Size,
    op |-> [n \in 0 .. Size - 1 |-> f[n][1]],
    parents |-> [n \in 0 .. Size - 1 |-> f[n][2]],
    outputs |-> outs] :
      f \in Bodies,
      outs \in {O \in SUBSET (0 .. Size - 1) : O # {} /\ Cardinality(O) <= MaxOutputs}}
=============================================================================
