--------------------------- MODULE PackedProgram ---------------------------
(***************************************************************************)
(* The packed program that packed_fideslib evaluates: a DAG of ciphertext  *)
(* operations in topological order, as read_packed_program accepts it, and *)
(* the facts every later pass derives from it (liveness, consumer edges,   *)
(* feedback epochs).  Numerical payloads are abstracted to what the passes *)
(* tell apart: the levels an operation consumes (cost), the slots it needs *)
(* (size) and, for a Chebyshev node, its normalisation interval.           *)
(***************************************************************************)
EXTENDS Naturals, FiniteSets, Sequences

(* Operations that the executor treats differently.  "unary" stands for    *)
(* addp, mulp, sum and the routings of scatter and repeat; "alias" for a   *)
(* scatter or a repeat of one with identity routing, which returns its     *)
(* operand's handle; linear_ref is "linear".                               *)
Sources  == {"input", "public"}
Binaries == {"add", "mul"}
Unaries  == {"unary", "alias", "linear", "gather", "cheb", "feedback"}
Ops      == Sources \cup Binaries \cup Unaries

Nodes(p) == 0 .. p.count - 1

Arity(op) == IF op \in Sources THEN 0 ELSE IF op \in Binaries THEN 2 ELSE 1

(* What the reader guarantees of a program: operand counts per operation,  *)
(* operands earlier in the file, at least one output.                      *)
WellFormed(p) ==
  /\ p.count \in Nat \ {0}
  /\ p.op \in [Nodes(p) -> Ops]
  /\ p.parents \in [Nodes(p) -> Seq(Nodes(p))]
  /\ \A n \in Nodes(p) :
       /\ Len(p.parents[n]) = Arity(p.op[n])
       /\ \A k \in DOMAIN p.parents[n] : p.parents[n][k] < n
  /\ p.outputs \in (SUBSET Nodes(p)) \ {{}}

ParentsOf(p, n) == {p.parents[n][k] : k \in DOMAIN p.parents[n]}

(* Consumer edges.  An edge is <<consumer, operand position>>, so that the *)
(* two operands of x*x are two edges.                                      *)
Edges(p) == {e \in Nodes(p) \X (1 .. 2) : e[2] \in DOMAIN p.parents[e[1]]}
Operand(p, e) == p.parents[e[1]][e[2]]
EdgesInto(p, n) == {e \in Edges(p) : e[1] = n}
EdgesFrom(p, n) == {e \in Edges(p) : Operand(p, e) = n}
EdgesBetween(p, n, c) == EdgesFrom(p, n) \cap EdgesInto(p, c)

(* plan_packed_uses: consumer edges of live nodes only. *)
AllUses(p, L, n) == EdgesFrom(p, n)   \* mutant: dead consumers count
LiveUses(p, L, n) == {e \in EdgesFrom(p, n) : e[1] \in L}
Consumers(p, L, n) == {e[1] : e \in LiveUses(p, L, n)}

(* The nodes an output needs: the least set that holds the outputs and,    *)
(* with a node, its operands.                                              *)
ParentClosed(p, L) == \A n \in L : ParentsOf(p, n) \subseteq L
Live(p) == {n \in Nodes(p) :
              \A L \in SUBSET Nodes(p) :
                 p.outputs \subseteq L /\ ParentClosed(p, L) => n \in L}

(* A feedback node opens a new epoch and belongs to it.                    *)
Epoch(p, n) == Cardinality({m \in 0 .. n : p.op[m] = "feedback"})
Epochs(p) == Epoch(p, p.count - 1) + 1
=============================================================================
