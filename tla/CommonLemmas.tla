----------------------------- MODULE CommonLemmas -----------------------------
(* Facts that several proofs use: finite sets and numbers, chains, packed   *)
(* programs.                                                               *)
EXTENDS PackedProgram, Integers, FiniteSets, FiniteSetTheorems, NaturalsInduction, TLAPS

(* A non-empty set of naturals has a least element. *)
LEMMA LeastNat ==
  ASSUME NEW T, T \subseteq Nat, T # {}
  PROVE  \E n \in T : \A m \in T : n <= m
<1>1. PICK n \in T : \A m \in T : ~ (<<m, n>> \in OpToRel(<, Nat))
  BY NatLessThanWellFounded, WFMin, Zenon
<1>2. OpToRel(<, Nat) = {s \in Nat \X Nat : s[1] < s[2]}
  BY DEF OpToRel
<1>3. ASSUME NEW m \in T
      PROVE  n <= m
  <2>1. ~ (<<m, n>> \in {s \in Nat \X Nat : s[1] < s[2]})
    BY <1>1, <1>2
  <2>2. QED BY <2>1
<1>4. QED BY <1>3

(* Taking B out of a finite A that holds it. *)
LEMMA CountWithout ==
  ASSUME NEW A, IsFiniteSet(A), NEW B, B \subseteq A
  PROVE  /\ IsFiniteSet(A \ B)
         /\ Cardinality(A) \in Nat
         /\ Cardinality(B) \in Nat
         /\ Cardinality(B) <= Cardinality(A)
         /\ Cardinality(A \ B) = Cardinality(A) - Cardinality(B)
<1>1. A \cap B = B
  OBVIOUS
<1>2. IsFiniteSet(B) /\ Cardinality(B) <= Cardinality(A)
  BY FS_Subset
<1>3. QED BY <1>1, <1>2, FS_Difference, FS_CardinalityType

(* A non-empty set of naturals up to b has a greatest element.             *)
LEMMA GreatestNat ==
  ASSUME NEW b \in Nat, NEW T, T \subseteq 0 .. b, T # {}
  PROVE  \E n \in T : \A m \in T : m <= n
<1> DEFINE U == {b - n : n \in T}
<1>1. U \subseteq Nat /\ U # {}
  <2>1. \A n \in T : b - n \in Nat
    OBVIOUS
  <2>2. QED BY <2>1
<1>2. PICK u \in U : \A v \in U : u <= v
  BY <1>1, LeastNat
<1>3. PICK n \in T : u = b - n
  OBVIOUS
<1>4. \A m \in T : m <= n
  BY <1>2, <1>3
<1>5. QED BY <1>4

(* At most k elements of a set of naturals have rank k or less.            *)
LEMMA RankBound ==
  ASSUME NEW b \in Nat, NEW S, S \subseteq 0 .. b, NEW k \in Nat
  PROVE  Cardinality({p \in S : Cardinality({q \in S : q <= p}) <= k}) <= k
<1> DEFINE T == {p \in S : Cardinality({q \in S : q <= p}) <= k}
<1>1. IsFiniteSet(S)
  <2>1. IsFiniteSet(0 .. b)
    BY FS_Interval
  <2>2. QED BY <2>1, FS_Subset
<1>2. CASE T = {}
  <2>1. Cardinality(T) = 0
    BY <1>2, FS_EmptySet
  <2>2. QED BY <2>1
<1>3. CASE T # {}
  <2>1. PICK m \in T : \A p \in T : p <= m
    BY <1>3, GreatestNat
  <2>2. T \subseteq {q \in S : q <= m}
    BY <2>1
  <2>3. IsFiniteSet({q \in S : q <= m}) /\ Cardinality({q \in S : q <= m}) \in Nat
    BY <1>1, FS_Subset, FS_CardinalityType
  <2>4. IsFiniteSet(T) /\ Cardinality(T) <= Cardinality({q \in S : q <= m})
    BY <2>2, <2>3, FS_Subset
  <2>5. Cardinality(T) \in Nat
    BY <2>4, FS_CardinalityType
  <2>6. Cardinality({q \in S : q <= m}) <= k
    BY <2>1
  <2>7. QED BY <2>3, <2>4, <2>5, <2>6
<1>4. QED BY <1>2, <1>3

(* A remainder is below its divisor. *)
LEMMA RemainderBelow ==
  ASSUME NEW a \in Nat, NEW n \in Nat \ {0}
  PROVE  a % n \in 0 .. n - 1
  OBVIOUS

(* A chain of N steps from a that stays in V: what a function defined by   *)
(* recursion on its argument needs.                                        *)
Follows(f, N, a, step) ==
  f[0] = a /\ \A k \in 1 .. N : f[k] = step[<<k, f[k - 1]>>]
LEMMA Chain ==
  ASSUME NEW N \in Nat, NEW V, NEW a \in V, NEW step \in [(1 .. N) \X V -> V]
  PROVE  \E f \in [0 .. N -> V] : Follows(f, N, a, step)
<1> DEFINE Good(f, n) == /\ f \in [0 .. n -> V]
                         /\ Follows(f, n, a, step)
           B == {n \in 0 .. N : ~ \E f : Good(f, n)}
<1>1. SUFFICES ASSUME B # {} PROVE FALSE
  <2>1. N \in 0 .. N
    OBVIOUS
  <2>2. B = {} => \E f : Good(f, N)
    BY <2>1
  <2>3. QED BY <2>2
<1>2. PICK n \in B : \A m \in B : n <= m
  BY <1>1, B \subseteq Nat, LeastNat
<1>3. n # 0
  <2>1. Good([i \in 0 .. 0 |-> a], 0)
    BY DEF Follows
  <2>2. QED BY <2>1, <1>2
<1>4. n \in 1 .. N /\ n - 1 \in 0 .. N /\ n - 1 < n
  BY <1>2, <1>3
<1>5. PICK f : Good(f, n - 1)
  <2>1. n - 1 \notin B
    BY <1>2, <1>4
  <2>2. QED BY <1>4, <2>1
<1> DEFINE y == step[<<n, f[n - 1]>>]
           g == [i \in 0 .. n |-> IF i = n THEN y ELSE f[i]]
<1>6. f[n - 1] \in V /\ y \in V
  BY <1>4, <1>5
<1>7. g \in [0 .. n -> V] /\ g[0] = a
  <2> HIDE DEF y
  <2>1. QED BY <1>4, <1>5, <1>6 DEF Follows
<1>8. \A k \in 1 .. n : g[k] = step[<<k, g[k - 1]>>]
  <2> TAKE k \in 1 .. n
  <2>1. k - 1 \in 0 .. n /\ k - 1 # n /\ k \in 0 .. n
    BY <1>4
  <2>2. g[k - 1] = f[k - 1]
    BY <2>1
  <2>3. CASE k = n
    BY <2>1, <2>2, <2>3 DEF Follows
  <2>4. CASE k # n
    BY <1>4, <1>5, <2>1, <2>2, <2>4 DEF Follows
  <2>5. QED BY <2>3, <2>4
<1>9. \E h : Good(h, n)
  <2> HIDE DEF g, y
  <2>1. Good(g, n)
    BY <1>7, <1>8 DEF Follows
  <2>2. QED BY <2>1
<1>10. QED BY <1>2, <1>9

(* A positive factor does not make a natural smaller.                      *)
LEMMA ProductGrows ==
  ASSUME NEW a \in Nat \ {0}, NEW b \in Nat
  PROVE  a * b >= b
<1>1. (a - 1) * b \in Nat
  OBVIOUS
<1>2. a * b = (a - 1) * b + b
  OBVIOUS
<1>3. QED BY <1>1, <1>2

(* The elements of a set up to one of them.                                *)
UpTo(S, m) == {j \in S : j <= m}

(* A set of naturals up to b has one element of each rank.                 *)
LEMMA Ranks ==
  ASSUME NEW b \in Nat, NEW S, S \subseteq 0 .. b
  PROVE  /\ IsFiniteSet(S) /\ Cardinality(S) \in Nat
         /\ \A m \in S : Cardinality(UpTo(S, m)) \in 1 .. Cardinality(S)
         /\ \A m, n \in S : Cardinality(UpTo(S, m)) = Cardinality(UpTo(S, n))
                            => m = n
         /\ \A k \in 1 .. Cardinality(S) :
              \E m \in S : Cardinality(UpTo(S, m)) = k
<1> DEFINE upto(m) == {j \in S : j <= m}
           rank == [m \in S |-> Cardinality(upto(m))]
<1>1. IsFiniteSet(S) /\ Cardinality(S) \in Nat
  <2>1. IsFiniteSet(0 .. b)
    BY FS_Interval
  <2>2. QED BY <2>1, FS_Subset, FS_CardinalityType
<1>2. \A m \in S : /\ upto(m) \subseteq S /\ m \in upto(m) /\ IsFiniteSet(upto(m))
                   /\ Cardinality(upto(m)) \in Nat
                   /\ Cardinality(upto(m)) <= Cardinality(S)
  <2> TAKE m \in S
  <2>1. upto(m) \subseteq S /\ m \in upto(m)
    OBVIOUS
  <2>2. QED BY <1>1, <2>1, FS_Subset, FS_CardinalityType
<1>3. \A m \in S : Cardinality(upto(m)) # 0
  <2> TAKE m \in S
  <2>1. upto(m) # {}
    OBVIOUS
  <2>2. QED BY <1>2, <2>1, FS_EmptySet
<1>4. rank \in [S -> 1 .. Cardinality(S)]
  BY <1>1, <1>2, <1>3
<1>5. ASSUME NEW m \in S, NEW n \in S, m < n
      PROVE  rank[m] < rank[n]
  <2>1. upto(m) \subseteq upto(n) /\ n \in upto(n) /\ n \notin upto(m)
    <3>1. m < n /\ \A j \in S : j \in Int
      BY <1>5
    <3>2. \A j \in S : j <= m => j <= n
      BY <3>1
    <3>3. n <= n /\ ~ (n <= m)
      BY <3>1
    <3>4. QED BY <3>2, <3>3, Zenon
  <2>2. /\ Cardinality(upto(m)) <= Cardinality(upto(n))
        /\ Cardinality(upto(n)) = Cardinality(upto(m)) => upto(n) = upto(m)
    BY <1>2, <2>1, FS_Subset
  <2>3. QED BY <1>2, <2>1, <2>2
<1>6. \A m, n \in S : rank[m] = rank[n] => m = n
  BY <1>4, <1>5
<1>7. rank \in Injection(S, 1 .. Cardinality(S))
  BY <1>4, <1>6 DEF Injection, IsInjective
<1>8. /\ IsFiniteSet(1 .. Cardinality(S))
      /\ Cardinality(1 .. Cardinality(S)) = Cardinality(S)
  BY <1>1, FS_Interval
<1>9. rank \in Surjection(S, 1 .. Cardinality(S))
  BY <1>7, <1>8, FS_Injection
<1>10. \A k \in 1 .. Cardinality(S) : \E m \in S : rank[m] = k
  BY <1>9 DEF Surjection
<1>11. QED BY <1>1, <1>4, <1>6, <1>10 DEF UpTo

-----------------------------------------------------------------------------
(* Operands are nodes of the program, and earlier ones. *)
LEMMA ParentsEarlier ==
  ASSUME NEW p, WellFormed(p), NEW n \in Nodes(p)
  PROVE  \A m \in ParentsOf(p, n) : m \in Nodes(p) /\ m < n
<1>1. p.parents[n] \in Seq(Nodes(p))
  BY DEF WellFormed
<1>2. QED BY <1>1 DEF WellFormed, ParentsOf

(* The live nodes hold the outputs and the operands of live nodes: the     *)
(* backward sweep of plan_packed_depth leaves no hole.                     *)
LEMMA LiveClosed ==
  ASSUME NEW p, WellFormed(p)
  PROVE  /\ Live(p) \subseteq Nodes(p)
         /\ p.outputs \subseteq Live(p)
         /\ ParentClosed(p, Live(p))
<1>1. p.outputs \subseteq Nodes(p)
  BY DEF WellFormed
<1>2. p.outputs \subseteq Live(p)
  BY <1>1 DEF Live
<1>3. ASSUME NEW n \in Live(p), NEW m \in ParentsOf(p, n)
      PROVE  m \in Live(p)
  <2>1. n \in Nodes(p)
    BY DEF Live
  <2>2. m \in Nodes(p)
    BY <2>1, ParentsEarlier
  <2>3. ASSUME NEW L \in SUBSET Nodes(p), p.outputs \subseteq L, ParentClosed(p, L)
        PROVE  m \in L
    BY <2>3 DEF Live, ParentClosed
  <2>4. QED BY <2>2, <2>3 DEF Live
<1>4. QED BY <1>2, <1>3 DEF Live, ParentClosed

(* A program has finitely many nodes and operand edges. *)
LEMMA EdgesFinite ==
  ASSUME NEW p, WellFormed(p)
  PROVE  /\ IsFiniteSet(Nodes(p))
         /\ IsFiniteSet(Edges(p))
<1>1. IsFiniteSet(Nodes(p))
  BY FS_Interval DEF WellFormed, Nodes
<1>2. IsFiniteSet(1 .. 2)
  BY 1 \in Int, 2 \in Int, FS_Interval, Zenon
<1>3. IsFiniteSet(Nodes(p) \X (1 .. 2))
  BY <1>1, <1>2, FS_Product
<1>4. Edges(p) \in SUBSET (Nodes(p) \X (1 .. 2))
  BY DEF Edges
<1>5. QED BY <1>1, <1>3, <1>4, FS_Subset

(* The interval 1..k has k elements. *)
LEMMA IntervalCount ==
  ASSUME NEW k \in 0 .. 2
  PROVE  IsFiniteSet(1 .. k) /\ Cardinality(1 .. k) = k
<1>1. k \in Int /\ 1 \in Int
  OBVIOUS
<1>2. /\ IsFiniteSet(1 .. k)
      /\ Cardinality(1 .. k) = IF 1 > k THEN 0 ELSE k - 1 + 1
  BY <1>1, FS_Interval, Zenon
<1>3. QED BY <1>2

(* A node has as many edges into it as operands. *)
LEMMA EdgesIntoCount ==
  ASSUME NEW p, WellFormed(p), NEW n \in Nodes(p)
  PROVE  /\ EdgesInto(p, n) = {n} \X DOMAIN p.parents[n]
         /\ Cardinality(EdgesInto(p, n)) = Len(p.parents[n])
<1>1. p.parents[n] \in Seq(Nodes(p)) /\ Len(p.parents[n]) \in 0 .. 2
  <2>1. p.parents[n] \in Seq(Nodes(p)) /\ Len(p.parents[n]) = Arity(p.op[n])
    BY DEF WellFormed
  <2>2. Arity(p.op[n]) \in 0 .. 2
    BY DEF Arity
  <2>3. QED BY <2>1, <2>2
<1>2. DOMAIN p.parents[n] = 1 .. Len(p.parents[n])
  BY <1>1
<1>3. EdgesInto(p, n) = {n} \X DOMAIN p.parents[n]
  BY <1>1, <1>2 DEF EdgesInto, Edges
<1>4. IsFiniteSet({n}) /\ Cardinality({n}) = 1
  BY FS_Singleton
<1>5. /\ IsFiniteSet(1 .. Len(p.parents[n]))
      /\ Cardinality(1 .. Len(p.parents[n])) = Len(p.parents[n])
  BY <1>1, IntervalCount, Zenon
<1>6. Cardinality({n} \X (1 .. Len(p.parents[n])))
        = Cardinality({n}) * Cardinality(1 .. Len(p.parents[n]))
  BY <1>4, <1>5, FS_Product, Zenon
<1>7. QED BY <1>1, <1>2, <1>3, <1>4, <1>5, <1>6

(* Epochs are numbered from 0 and never decrease along the file. *)
LEMMA EpochMonotone ==
  ASSUME NEW p, WellFormed(p)
  PROVE  /\ Epochs(p) \in Nat
         /\ \A n \in Nodes(p) : Epoch(p, n) \in 0 .. Epochs(p) - 1
         /\ \A n \in Nodes(p), m \in Nodes(p) : m <= n => Epoch(p, m) <= Epoch(p, n)
<1> DEFINE F(n) == {m \in 0 .. n : p.op[m] = "feedback"}
<1>1. ASSUME NEW n \in Nodes(p)
      PROVE  IsFiniteSet(F(n)) /\ Cardinality(F(n)) \in Nat
  <2>1. IsFiniteSet(0 .. n)
    BY FS_Interval DEF Nodes, WellFormed
  <2>2. F(n) \in SUBSET (0 .. n)
    OBVIOUS
  <2>3. QED BY <2>1, <2>2, FS_Subset, FS_CardinalityType
<1>2. ASSUME NEW n \in Nodes(p), NEW m \in Nodes(p), m <= n
      PROVE  Cardinality(F(m)) <= Cardinality(F(n))
  <2>1. F(m) \in SUBSET F(n)
    BY <1>2 DEF Nodes, WellFormed
  <2>2. QED BY <1>1, <2>1, FS_Subset
<1>3. p.count - 1 \in Nodes(p) /\ \A n \in Nodes(p) : n <= p.count - 1
  BY DEF Nodes, WellFormed
<1>4. QED BY <1>1, <1>2, <1>3 DEF Epoch, Epochs

(* Operand edges between two nodes, and operands still to come. *)
LEMMA EdgeMeaning ==
  ASSUME NEW p, WellFormed(p), NEW n \in Nodes(p)
  PROVE  /\ \A m \in Nodes(p) : EdgesBetween(p, m, n) # {} <=> m \in ParentsOf(p, n)
         /\ \A D : {e \in EdgesInto(p, n) : Operand(p, e) \notin D} = {}
                   <=> ParentsOf(p, n) \subseteq D
<1>1. EdgesInto(p, n) = {n} \X DOMAIN p.parents[n]
  BY EdgesIntoCount
<1>2. EdgesInto(p, n) \subseteq Edges(p)
  BY DEF EdgesInto
<1>3. \A e \in EdgesInto(p, n) : Operand(p, e) \in ParentsOf(p, n)
  BY <1>1 DEF Operand, ParentsOf
<1>4. \A m \in ParentsOf(p, n) : \E e \in EdgesInto(p, n) : Operand(p, e) = m
  <2> TAKE m \in ParentsOf(p, n)
  <2>1. PICK k \in DOMAIN p.parents[n] : p.parents[n][k] = m
    BY DEF ParentsOf
  <2>2. <<n, k>> \in EdgesInto(p, n) /\ Operand(p, <<n, k>>) = m
    BY <1>1, <2>1 DEF Operand
  <2>3. QED BY <2>2
<1>5. \A m : EdgesBetween(p, m, n) = {e \in EdgesInto(p, n) : Operand(p, e) = m}
  BY <1>2 DEF EdgesBetween, EdgesFrom
<1>6. QED BY <1>3, <1>4, <1>5

(* While the first open epoch has work, its first unevaluated node has     *)
(* every operand: an operand is earlier in the file, so neither of a later *)
(* epoch nor left over from an earlier one.                                *)
LEMMA FrontierAdvances ==
  ASSUME NEW p, WellFormed(p), NEW D, NEW a \in Nat,
         \A n \in Live(p) \ D : Epoch(p, n) >= a,
         NEW w \in Live(p) \ D, Epoch(p, w) = a
  PROVE  \E n \in Live(p) \ D : ParentsOf(p, n) \subseteq D /\ Epoch(p, n) = a
<1> DEFINE T == {n \in Live(p) \ D : Epoch(p, n) = a}
<1>1. T \subseteq Nat /\ T \subseteq Nodes(p) /\ T # {}
  BY LiveClosed DEF Nodes, WellFormed
<1>2. PICK n \in T : \A m \in T : n <= m
  BY <1>1, LeastNat
<1>3. ASSUME NEW m \in ParentsOf(p, n), m \notin D
      PROVE  FALSE
  <2>1. m \in Nodes(p) /\ m < n /\ n \in Nodes(p)
    BY <1>1, ParentsEarlier
  <2>2. m \in Live(p)
    BY LiveClosed DEF ParentClosed
  <2>3. Epoch(p, m) <= a /\ Epoch(p, m) \in Nat
    <3>1. m <= n
      BY <2>1 DEF Nodes, WellFormed
    <3>2. QED BY <2>1, <3>1, EpochMonotone
  <2>4. m \in T
    BY <1>3, <2>2, <2>3
  <2>5. QED BY <1>2, <2>1, <2>4 DEF Nodes, WellFormed
<1>4. QED BY <1>2, <1>3

-----------------------------------------------------------------------------
(* Division with remainder.                                                *)
LEMMA Division ==
  ASSUME NEW a \in Int, NEW b \in Nat \ {0}
  PROVE  /\ a \div b \in Int /\ a % b \in 0 .. b - 1
         /\ a = b * (a \div b) + (a % b)
  BY SMT

(* The quotient and the remainder are the only ones.                       *)
LEMMA Quotient ==
  ASSUME NEW b \in Nat \ {0}, NEW q \in Int, NEW p \in Int,
         NEW r \in 0 .. b - 1, NEW s \in 0 .. b - 1, b * q + r = b * p + s
  PROVE  q = p /\ r = s
<1>1. b * (q - p) = s - r
  BY SMT
<1>2. CASE q < p
  <2>1. q - p <= -1
    BY <1>2
  <2>2. b * (q - p) <= -b
    BY <2>1
  <2>3. QED BY <1>1, <2>2
<1>3. CASE q > p
  <2>1. q - p >= 1
    BY <1>3
  <2>2. b * (q - p) >= b
    BY <2>1
  <2>3. QED BY <1>1, <2>2
<1>4. CASE q = p
  BY <1>1, <1>4
<1>5. QED BY <1>2, <1>3, <1>4

(* Multiples of the divisor leave the remainder alone.                     *)
LEMMA Remainder ==
  ASSUME NEW a \in Int, NEW k \in Int, NEW b \in Nat \ {0}
  PROVE  (b * k + a) % b = a % b
<1> DEFINE c == b * k + a
<1>1. c \in Int
  OBVIOUS
<1>2. /\ c \div b \in Int /\ c % b \in 0 .. b - 1 /\ c = b * (c \div b) + (c % b)
      /\ a \div b \in Int /\ a % b \in 0 .. b - 1 /\ a = b * (a \div b) + (a % b)
  BY <1>1, Division
<1> HIDE DEF c
<1>3. b * (k + (a \div b)) = b * k + b * (a \div b)
  BY <1>2
<1>4. c = b * k + a
  BY DEF c
<1>5. b * (c \div b) + (c % b) = b * (k + (a \div b)) + (a % b)
  <2> DEFINE x == b * (c \div b)   y == b * (k + (a \div b))   z == b * (a \div b)   w == b * k
  <2>1. x \in Int /\ y \in Int /\ z \in Int /\ w \in Int
    BY <1>2
  <2>2. c = x + (c % b) /\ a = z + (a % b) /\ c = w + a /\ y = w + z
    BY <1>2, <1>3, <1>4
  <2> HIDE DEF x, y, z, w
  <2>3. x + (c % b) = y + (a % b)
    BY <1>2, <2>1, <2>2
  <2>4. QED BY <2>3 DEF x, y
<1>6. k + (a \div b) \in Int
  BY <1>2
<1>7. c % b = a % b
  <2> DEFINE q == c \div b   p == k + (a \div b)   r == c % b   t == a % b
  <2>1. q \in Int /\ p \in Int /\ r \in 0 .. b - 1 /\ t \in 0 .. b - 1 /\ b * q + r = b * p + t
    BY <1>2, <1>5, <1>6
  <2> HIDE DEF q, p, r, t
  <2>2. r = t
    BY <2>1, Quotient
  <2>3. QED BY <2>2 DEF r, t
<1>8. QED BY <1>7 DEF c

(* The remainder counts with the number until it starts over.              *)
LEMMA NextRemainder ==
  ASSUME NEW n \in Nat \ {0}, NEW t \in Nat \ {0}, t % n # 0
  PROVE  t % n = ((t - 1) % n) + 1
<1> DEFINE q == t \div n   r == t % n   p == (t - 1) \div n   s == (t - 1) % n
<1>1. q \in Int /\ r \in 0 .. n - 1 /\ t = n * q + r
  BY Division
<1>2. p \in Int /\ s \in 0 .. n - 1 /\ t - 1 = n * p + s
  BY t - 1 \in Int, Division
<1> HIDE DEF q, r, p, s
<1>3. r - 1 \in 0 .. n - 1
  BY <1>1 DEF r
<1>4. n * q + (r - 1) = n * p + s
  BY <1>1, <1>2
<1>5. r - 1 = s
  BY <1>1, <1>2, <1>3, <1>4, Quotient
<1>6. QED BY <1>1, <1>2, <1>5 DEF r, s

(* A remainder is at most the number.                                      *)
LEMMA RemainderAtMost ==
  ASSUME NEW n \in Nat \ {0}, NEW t \in Nat
  PROVE  t % n \in Nat /\ t % n <= n - 1 /\ t % n <= t
<1>1. t \div n \in Nat /\ t % n \in 0 .. n - 1 /\ t = n * (t \div n) + (t % n)
  BY SMT
<1>2. n * (t \div n) \in Nat
  BY <1>1
<1>3. QED BY <1>1, <1>2

(* The element a fold over a set takes next.                               *)
OneOf(s) == CHOOSE x \in s : TRUE

(* An element leaves a smaller set. *)
LEMMA AnyLeaves ==
  ASSUME NEW R, IsFiniteSet(R), NEW s \in SUBSET R
  PROVE  /\ Cardinality(s) \in Nat
         /\ Cardinality(s) = 0 <=> s = {}
         /\ s # {} => /\ OneOf(s) \in s
                      /\ s \ {OneOf(s)} \in SUBSET R
                      /\ Cardinality(s \ {OneOf(s)}) = Cardinality(s) - 1
<1>1. IsFiniteSet(s)
  BY FS_Subset
<1>2. s # {} => OneOf(s) \in s
  BY DEF OneOf
<1>3. QED BY <1>1, <1>2, FS_CardinalityType, FS_EmptySet, FS_RemoveElement

(* Induction over subsets: what holds of the empty set, and of a set       *)
(* whenever it holds without one of its elements.                          *)
LEMMA SubsetInduction ==
  ASSUME NEW R, IsFiniteSet(R), NEW P, P \subseteq SUBSET R, {} \in P,
         \A s \in SUBSET R : s # {} /\ s \ {OneOf(s)} \in P => s \in P
  PROVE  P = SUBSET R
<1> DEFINE Bad == {n \in Nat : \E s \in (SUBSET R) \ P : Cardinality(s) = n}
<1>1. Bad \subseteq Nat
  OBVIOUS
<1>2. ASSUME NEW s \in (SUBSET R) \ P
      PROVE  FALSE
  <2>1. Cardinality(s) \in Bad
    <3>1. Cardinality(s) \in Nat
      BY AnyLeaves
    <3>2. QED BY <3>1
  <2>2. PICK n \in Bad : \A m \in Bad : n <= m
    BY <1>1, <2>1, LeastNat
  <2>3. PICK t \in (SUBSET R) \ P : Cardinality(t) = n
    <3>1. n \in Bad
      BY <2>2
    <3>2. QED BY <3>1
  <2>4. t # {} /\ t \ {OneOf(t)} \in (SUBSET R) \ P
    BY <2>3
  <2>5. Cardinality(t \ {OneOf(t)}) = n - 1 /\ n - 1 \in Nat
    BY <2>3, <2>4, AnyLeaves
  <2>6. n - 1 \in Bad
    BY <2>4, <2>5
  <2>7. n <= n - 1 /\ n \in Nat
    BY <1>1, <2>2, <2>6
  <2>8. QED BY <2>7
<1>3. QED BY <1>2
=============================================================================
