------------------------- MODULE SlotMachineProofs --------------------------
(***************************************************************************)
(* Where the packed arithmetic puts its coordinates, for every size, and   *)
(* what a replicated projection computes, for every shape and schedule.    *)
(* Geometry: the slots of the masks do not collide, what is read there is  *)
(* filled, and over all groups every entry of the matrix is multiplied     *)
(* once, by the input it belongs to; no stage of a staged routing brings   *)
(* two coordinates of a strictly increasing map into one slot.             *)
(* Execution: SlotMachine runs a routine's program operation by operation. *)
(* Each routine of a projection gets a lemma that says what its registers  *)
(* hold, what it adds to the counters and by what it rotates, whatever was *)
(* executed before; in a row they give the three theorems at the end.      *)
(***************************************************************************)
EXTENDS SlotMachine, CommonLemmas, SequenceTheorems

-----------------------------------------------------------------------------
\* n * CeilDiv(a, n) is the first multiple of n from a on.
LEMMA CeilDivBounds ==
  ASSUME NEW a \in Nat, NEW n \in Nat \ {0}
  PROVE  CeilDiv(a, n) \in Nat /\ a <= n * CeilDiv(a, n)
<1>1. a + n - 1 \in Nat
  OBVIOUS
<1>2. (a + n - 1) \div n \in Nat
  BY <1>1, SMT
<1>3. a <= n * ((a + n - 1) \div n)
  BY SMT
<1>4. QED BY <1>2, <1>3 DEF CeilDiv

\* A window of at least one tile has no more tiles than slots.
LEMMA TilesFit ==
  ASSUME NEW n \in Nat \ {0}, NEW c \in Nat, n * c >= 1
  PROVE  n * c \in Nat /\ \E tiles \in 1 .. n * c : n * c = n * tiles
<1>1. c >= 1
  <2>1. CASE c = 0
    <3>1. n * c = 0
      BY <2>1
    <3>2. QED BY <3>1
  <2>2. QED BY <2>1
<1>2. c <= n * c /\ n * c \in Nat
  BY <1>1
<1>3. c \in 1 .. n * c
  BY <1>1, <1>2
<1>4. QED BY <1>2, <1>3

-----------------------------------------------------------------------------

\* choose_window's shape is sound.
LEMMA WindowSound ==
  ASSUME NEW m \in Nat \ {0}, NEW n \in Nat \ {0}, NEW batch \in Nat,
         choose_window(m, n, batch).replicas >= 1
  PROVE  Sound(choose_window(m, n, batch), m, n, batch)
<1> DEFINE c == CeilDiv(m + n, n)   w == n * c   r == Smaller(n, batch \div w)
<1>1. c \in Nat /\ m + n <= n * c
  BY CeilDivBounds
<1>2. choose_window(m, n, batch) = [replicas |-> r, window |-> w, guard_windows |-> 0]
  BY DEF choose_window, Shape
<1> HIDE DEF c
<1>3. w \in Nat /\ m + n <= w /\ \E tiles \in 1 .. w : w = n * tiles
  BY <1>1, TilesFit
<1> HIDE DEF w, r
<1>a. w \in Nat \ {0} /\ batch \in Int
  BY <1>3
<1>b. /\ batch \div w \in Int /\ batch % w \in 0 .. w - 1
      /\ batch = w * (batch \div w) + (batch % w)
  BY <1>a, Division
<1>4. r <= n /\ r <= batch \div w /\ r \in Int /\ 1 <= r
  BY <1>2, <1>b DEF Smaller, Shape, r
<1>5. w * r <= w * (batch \div w) /\ w * r = (r + 0) * w
  BY <1>a, <1>b, <1>4
<1>6. (r + 0) * w <= batch
  <2> DEFINE x == w * (batch \div w)   y == (r + 0) * w
  <2>1. x \in Int /\ y \in Int /\ y <= x /\ batch = x + (batch % w)
    BY <1>a, <1>b, <1>4, <1>5
  <2> HIDE DEF x, y
  <2>2. y <= batch
    BY <1>a, <1>b, <2>1
  <2>3. QED BY <2>2 DEF y
<1>7. m + r - 1 <= w /\ n <= w /\ r \in 1 .. n
  BY <1>3, <1>4
<1>8. QED
  BY <1>2, <1>3, <1>6, <1>7 DEF Sound

\* Every shape the planner of the packed executor uses is sound: with more
\* than one replica it has room for all windows and the guard window.
THEOREM ShapesAreSound ==
  ASSUME NEW m \in Nat \ {0}, NEW n \in Nat \ {0}, NEW batch \in Nat,
         choose_interleaved_window(m, n, batch).replicas >= 1
  PROVE  Sound(choose_interleaved_window(m, n, batch), m, n, batch)
<1>1. CASE ~ \E r \in 2 .. n : InterleavedFits(m, n, batch, r)
  <2>1. choose_interleaved_window(m, n, batch) = choose_window(m, n, batch)
    BY <1>1 DEF choose_interleaved_window
  <2>2. QED BY <2>1, WindowSound
<1>2. CASE \E r \in 2 .. n : InterleavedFits(m, n, batch, r)
  <2> DEFINE most(r) == /\ InterleavedFits(m, n, batch, r)
                        /\ \A q \in 2 .. n : InterleavedFits(m, n, batch, q) => q <= r
             shape == choose_interleaved_window(m, n, batch)
             chosen == CHOOSE r \in 2 .. n : most(r)
  <2>1. shape = Shape(chosen, InterleavedWindow(m, n, chosen), 1)
    BY <1>2 DEF choose_interleaved_window
  <2> HIDE DEF chosen
  <2>2. chosen = shape.replicas
    BY <2>1 DEF Shape
  <2>3. ASSUME NEW r \in 2 .. n, InterleavedFits(m, n, batch, r)
        PROVE  Sound(Shape(r, InterleavedWindow(m, n, r), 1), m, n, batch)
    <3> DEFINE w == InterleavedWindow(m, n, r)
    <3>1. /\ CeilDiv(m + r - 1, n) \in Nat /\ m + r - 1 <= n * CeilDiv(m + r - 1, n)
      BY CeilDivBounds
    <3>2. CeilDiv(m + r - 1, n) >= 1
      BY <3>1
    <3>3. n * CeilDiv(m + r - 1, n) >= n
      BY <3>1, <3>2
    <3>4. w \in Nat /\ m + r - 1 <= w /\ n <= w /\ \E tiles \in 1 .. w : w = n * tiles
      BY <3>1, <3>2, <3>3, TilesFit DEF InterleavedWindow
    <3>5. (r + 1) * w <= batch
      BY <2>3 DEF InterleavedFits
    <3>6. QED BY <3>4, <3>5 DEF Sound, Shape
  <2>4. \E r \in 2 .. n : most(r)
    <3> DEFINE F == {r \in 2 .. n : InterleavedFits(m, n, batch, r)}
               S == {n - r : r \in F}
    <3>1. S \subseteq Nat /\ S # {}
      BY <1>2
    <3>2. PICK s \in S : \A t \in S : s <= t
      BY <3>1, LeastNat
    <3>3. PICK r \in F : s = n - r
      BY <3>2
    <3>4. ASSUME NEW q \in F PROVE q <= r
      <4>1. n - q \in S /\ q \in Int /\ r \in Int
        OBVIOUS
      <4>2. s <= n - q
        BY <3>2, <4>1
      <4>3. QED BY <3>3, <4>1, <4>2
    <3>5. QED BY <3>3, <3>4
  <2>5. chosen \in 2 .. n /\ InterleavedFits(m, n, batch, chosen)
    BY <2>4 DEF chosen
  <2>6. QED BY <2>1, <2>3, <2>5
<1>3. QED BY <1>1, <1>2

-----------------------------------------------------------------------------

\* The types of a sound shape.
LEMMA SoundFacts ==
  ASSUME NEW m \in Nat \ {0}, NEW n \in Nat \ {0}, NEW batch \in Nat,
         NEW shape, Sound(shape, m, n, batch)
  PROVE  /\ shape.window \in Nat \ {0}
         /\ shape.replicas \in Nat \ {0}
         /\ shape.window \in Int /\ shape.replicas \in Int
         /\ shape.guard_windows \in {0, 1}
  BY DEF Sound

\* Window j starts at j * window and the part of output i lies inside it.
LEMMA InsideWindow ==
  ASSUME NEW m \in Nat \ {0}, NEW n \in Nat \ {0}, NEW batch \in Nat,
         NEW shape, Sound(shape, m, n, batch),
         NEW i \in 0 .. m - 1, NEW j \in 0 .. shape.replicas - 1
  PROVE  /\ MaskSlot(shape.window, i, j) = shape.window * j + (i + j)
         /\ i + j \in 0 .. shape.window - 1
<1> DEFINE w == shape.window   r == shape.replicas
<1>1. w \in Nat \ {0} /\ r \in Nat \ {0} /\ m + r - 1 <= w
  BY SoundFacts DEF Sound
<1> HIDE DEF w, r
<1>2. j \in 0 .. r - 1
  BY DEF r
<1>3. i + j \in 0 .. w - 1
  BY <1>1, <1>2
<1>4. j * w + i + j = w * j + (i + j)
  BY <1>1, <1>2
<1>5. QED BY <1>3, <1>4 DEF MaskSlot, w

\* The combined mask of a group is a function of the slot: two outputs, or
\* two replicas, never meet in one slot.
THEOREM SlotsDistinct ==
  ASSUME NEW m \in Nat \ {0}, NEW n \in Nat \ {0}, NEW batch \in Nat,
         NEW shape, Sound(shape, m, n, batch),
         NEW i \in 0 .. m - 1, NEW j \in 0 .. shape.replicas - 1,
         NEW p \in 0 .. m - 1, NEW q \in 0 .. shape.replicas - 1,
         MaskSlot(shape.window, i, j) = MaskSlot(shape.window, p, q)
  PROVE  i = p /\ j = q
<1> DEFINE w == shape.window
<1>1. w \in Nat \ {0} /\ shape.replicas \in Int
  BY SoundFacts
<1>2. /\ MaskSlot(w, i, j) = w * j + (i + j) /\ i + j \in 0 .. w - 1
      /\ MaskSlot(w, p, q) = w * q + (p + q) /\ p + q \in 0 .. w - 1
  BY InsideWindow
<1> HIDE DEF w
<1>3. w * j + (i + j) = w * q + (p + q)
  BY <1>2 DEF w
<1>4. j \in Int /\ q \in Int /\ i \in Int /\ p \in Int
  BY <1>1
<1>5. j = q /\ i + j = p + q
  <2> DEFINE s == i + j   t == p + q
  <2>1. s \in 0 .. w - 1 /\ t \in 0 .. w - 1 /\ w * j + s = w * q + t
    BY <1>2, <1>3
  <2> HIDE DEF s, t
  <2>2. j = q /\ s = t
    BY <1>1, <1>4, <2>1, Quotient
  <2>3. QED BY <2>2 DEF s, t
<1>6. QED BY <1>4, <1>5

\* Reading k * r slots further stays inside the windows the input was
\* repeated through, and finds there the coordinate the weight belongs to
\* (slot s of the repeated input holds coordinate s % n).
THEOREM ReadIsFilled ==
  ASSUME NEW m \in Nat \ {0}, NEW n \in Nat \ {0}, NEW batch \in Nat,
         NEW shape, Sound(shape, m, n, batch),
         NEW i \in 0 .. m - 1, NEW k \in Nat,
         NEW j \in Diagonals(n, shape.replicas, k)
  PROVE  LET slot == MaskSlot(shape.window, i, j) + k * shape.replicas
         IN  /\ slot \in 0 .. (shape.replicas + shape.guard_windows) * shape.window - 1
             /\ slot % n = InputRead(n, i, j, k, shape.replicas)
<1> DEFINE w == shape.window   r == shape.replicas   g == shape.guard_windows
           step == k * r       far == i + j + step
<1>1. /\ w \in Nat \ {0} /\ r \in Nat \ {0} /\ g \in {0, 1} /\ n <= w
      /\ m + r - 1 <= w /\ (g = 0 => m + n <= w)
  BY SoundFacts DEF Sound
<1>2. PICK tiles \in Nat : w = n * tiles
  BY DEF Sound
<1>3. j \in 0 .. r - 1 /\ j + step < n
  BY DEF Diagonals
<1>4. MaskSlot(w, i, j) = w * j + (i + j)
  BY <1>3, InsideWindow
<1>5. InputRead(n, i, j, k, r) = far % n
  BY DEF InputRead
<1>6. step \in Nat
  BY <1>1
<1> SUFFICES /\ MaskSlot(w, i, j) + step \in 0 .. (r + g) * w - 1
             /\ (MaskSlot(w, i, j) + step) % n = InputRead(n, i, j, k, r)
  OBVIOUS
<1> HIDE DEF w, r, g, step
<1>7. /\ j \in Nat /\ far \in 0 .. m + n - 2 /\ w * j \in Nat
      /\ MaskSlot(w, i, j) + step = w * j + far
  BY <1>1, <1>3, <1>4, <1>6
<1>8. w * j + far \in 0 .. (r + g) * w - 1
  <2>1. w * j <= w * (r - 1) /\ w * (r - 1) = (r + g) * w - w - g * w
    BY <1>1, <1>3
  <2>2. g * w = (IF g = 0 THEN 0 ELSE w)
    BY <1>1
  <2>3. far < w + g * w
    BY <1>1, <1>7, <2>2
  <2> DEFINE a == w * (r - 1)   b == (r + g) * w   c == g * w   d == w * j
  <2>4. a \in Int /\ b \in Int /\ c \in Int /\ d \in Nat /\ d <= a /\ a = b - w - c /\ far < w + c
    BY <1>1, <1>7, <2>1, <2>3
  <2> HIDE DEF a, b, c, d, far
  <2>5. far \in Nat
    BY <1>7
  <2>6. d + far \in 0 .. b - 1
    BY <1>1, <2>4, <2>5
  <2>7. QED BY <2>6 DEF b, d
<1>9. (w * j + far) % n = far % n
  <2>1. w * j = n * (tiles * j)
    BY <1>2, <1>7
  <2>2. tiles * j \in Int /\ far \in Int
    BY <1>7
  <2> HIDE DEF far
  <2>3. (n * (tiles * j) + far) % n = far % n
    BY <2>2, Remainder
  <2>4. QED BY <2>1, <2>3
<1>10. QED BY <1>5, <1>7, <1>8, <1>9

\* Over all groups each entry of the matrix is multiplied exactly once: for
\* every output and every input there is one group and one replica of it.
THEOREM EveryWeightOnce ==
  ASSUME NEW n \in Nat \ {0}, NEW r \in 1 .. n,
         NEW i \in Nat, NEW c \in 0 .. n - 1
  PROVE  /\ \E k \in 0 .. per_replica(n, r) - 1 : \E j \in Diagonals(n, r, k) :
              InputRead(n, i, j, k, r) = c
         /\ \A k, l \in Nat : \A j \in Diagonals(n, r, k), h \in Diagonals(n, r, l) :
              InputRead(n, i, j, k, r) = c /\ InputRead(n, i, h, l, r) = c
                => k = l /\ j = h
<1>0. r \in Nat \ {0} /\ r <= n
  OBVIOUS
<1>1. \E k \in 0 .. per_replica(n, r) - 1 : \E j \in Diagonals(n, r, k) :
        InputRead(n, i, j, k, r) = c
  <2> DEFINE d == (c - i) % n   k == d \div r   j == d % r   e == (c - i) \div n
  <2>0. c - i \in Int /\ c \in Int
    OBVIOUS
  <2>1. e \in Int /\ d \in 0 .. n - 1 /\ c - i = n * e + d
    BY <2>0, Division
  <2> HIDE DEF d, e
  <2>2. k \in Int /\ j \in 0 .. r - 1 /\ d = r * k + j
    BY <1>0, <2>1, Division
  <2> HIDE DEF k, j
  <2>3. k >= 0 /\ r * k = k * r /\ r * k \in Int
    <3>1. CASE k < 0
      <4>1. r * k <= -r
        BY <1>0, <2>2, <3>1
      <4>2. QED BY <1>0, <2>1, <2>2, <4>1
    <3>2. QED BY <1>0, <2>2, <3>1
  <2>4. k < per_replica(n, r)
    <3> DEFINE p == per_replica(n, r)
    <3>1. p \in Nat /\ n <= r * p
      BY <1>0, CeilDivBounds DEF per_replica
    <3> HIDE DEF p
    <3>2. CASE k >= p
      <4>1. r * k >= r * p
        BY <1>0, <2>2, <3>1, <3>2
      <4>2. QED BY <1>0, <2>1, <2>2, <2>3, <3>1, <4>1
    <3>3. QED BY <2>2, <3>1, <3>2 DEF p
  <2>5. j \in Diagonals(n, r, k)
    BY <1>0, <2>1, <2>2, <2>3 DEF Diagonals
  <2>6. InputRead(n, i, j, k, r) = c
    <3>1. i + j + k * r = n * (-e) + c
      BY <1>0, <2>1, <2>2, <2>3
    <3>2. (n * (-e) + c) % n = c % n
      <4>1. -e \in Int
        BY <2>1
      <4>2. QED BY <2>0, <4>1, Remainder
    <3>3. c % n = c
      BY SMT
    <3>4. QED BY <3>1, <3>2, <3>3 DEF InputRead
  <2>7. k \in 0 .. per_replica(n, r) - 1
    BY <1>0, <2>2, <2>3, <2>4, CeilDivBounds DEF per_replica
  <2>8. QED BY <2>5, <2>6, <2>7
<1>2. ASSUME NEW k \in Nat, NEW l \in Nat,
             NEW j \in Diagonals(n, r, k), NEW h \in Diagonals(n, r, l),
             InputRead(n, i, j, k, r) = c, InputRead(n, i, h, l, r) = c
      PROVE  k = l /\ j = h
  <2> DEFINE d == j + k * r   b == h + l * r
  <2>1. /\ j \in 0 .. r - 1 /\ h \in 0 .. r - 1
        /\ d \in 0 .. n - 1 /\ b \in 0 .. n - 1
        /\ d = r * k + j /\ b = r * l + h
    BY <1>0 DEF Diagonals
  <2>2. i + j + k * r = i + d /\ i + h + l * r = i + b
    BY <1>0, <2>1
  <2>3. (i + d) % n = c /\ (i + b) % n = c
    BY <1>2, <2>2 DEF InputRead
  <2> HIDE DEF d, b
  <2>4. d = b
    <3> DEFINE x == (i + d) \div n   y == (i + b) \div n
    <3>0. i + d \in Int /\ i + b \in Int
      BY <2>1
    <3>1. x \in Int /\ i + d = n * x + c /\ y \in Int /\ i + b = n * y + c
      BY <2>3, <3>0, Division
    <3> HIDE DEF x, y
    <3>2. n * (-x) + d = n * (-y) + b
      BY <2>1, <3>1
    <3>3. -x \in Int /\ -y \in Int
      BY <3>1
    <3> DEFINE u == -x   v == -y
    <3>4. u \in Int /\ v \in Int /\ n * u + d = n * v + b
      BY <3>2, <3>3
    <3> HIDE DEF u, v
    <3>5. d \in 0 .. n - 1 /\ b \in 0 .. n - 1
      BY <2>1
    <3>6. QED BY <3>4, <3>5, Quotient
  <2>5. r * k + j = r * l + h /\ k \in Int /\ l \in Int
    BY <2>1, <2>4
  <2>6. QED BY <1>0, <2>1, <2>5, Quotient
<1>3. QED BY <1>1, <1>2

-----------------------------------------------------------------------------
(* Staged routing.                                                         *)

\* What monotone_routing accepts: a strictly increasing sequence of slots.
Increasing(indices) == indices \in Seq(Nat) /\ Monotone(indices)

\* The types of a coordinate of a routing map.
LEMMA CoordinateTypes ==
  ASSUME NEW indices, Increasing(indices), NEW i \in Coordinates(indices)
  PROVE  /\ i \in Nat /\ Len(indices) \in Nat /\ i < Len(indices)
         /\ indices[i + 1] \in Nat
         /\ Distance(indices, i) = indices[i + 1] - i
<1>1. indices \in Seq(Nat) /\ Len(indices) \in Nat
  BY DEF Increasing
<1>2. i \in Nat /\ i < Len(indices) /\ i + 1 \in 1 .. Len(indices)
  BY <1>1 DEF Coordinates
<1>3. QED BY <1>1, <1>2 DEF Distance

\* A later coordinate is displaced at least as far, for there must be room
\* for the coordinates between.
LEMMA DisplacementsGrow ==
  ASSUME NEW indices, Increasing(indices),
         NEW i \in Coordinates(indices), NEW j \in Coordinates(indices), i <= j
  PROVE  Distance(indices, i) <= Distance(indices, j)
<1> DEFINE S == {c \in Coordinates(indices) :
                   i <= c /\ ~ (Distance(indices, i) <= Distance(indices, c))}
<1>1. SUFFICES ASSUME S # {} PROVE FALSE
  OBVIOUS
<1>2. S \subseteq Nat
  BY CoordinateTypes
<1>3. PICK c \in S : \A t \in S : c <= t
  BY <1>1, <1>2, LeastNat
<1>4. c \in Coordinates(indices) /\ i <= c /\ ~ (Distance(indices, i) <= Distance(indices, c))
  BY <1>3
<1>5. /\ i \in Nat /\ indices[i + 1] \in Nat /\ Distance(indices, i) = indices[i + 1] - i
      /\ c \in Nat /\ indices[c + 1] \in Nat /\ Distance(indices, c) = indices[c + 1] - c
      /\ Len(indices) \in Nat /\ c < Len(indices)
  BY <1>4, CoordinateTypes
<1>6. i # c
  BY <1>4, <1>5
<1>7. c - 1 \in Coordinates(indices) /\ i <= c - 1
  BY <1>4, <1>5, <1>6 DEF Coordinates
<1>8. c - 1 \notin S
  <2>1. ~ (c <= c - 1)
    BY <1>5
  <2>2. QED BY <1>3, <2>1
<1>9. Distance(indices, i) <= Distance(indices, c - 1)
  BY <1>7, <1>8
<1>10. /\ indices[(c - 1) + 1] \in Nat
       /\ Distance(indices, c - 1) = indices[(c - 1) + 1] - (c - 1)
  BY <1>7, CoordinateTypes
<1>11. indices[(c - 1) + 1] < indices[c + 1]
  <2>1. c - 1 < c
    BY <1>5
  <2>2. QED BY <1>4, <1>7, <2>1 DEF Increasing, Monotone
<1>12. Distance(indices, c - 1) <= Distance(indices, c)
  BY <1>5, <1>10, <1>11
<1>13. QED BY <1>4, <1>5, <1>9, <1>10, <1>12

\* No coordinate is displaced to the left.
LEMMA DisplacementsNatural ==
  ASSUME NEW indices, Increasing(indices), NEW i \in Coordinates(indices)
  PROVE  Distance(indices, i) \in Nat
<1>1. i \in Nat /\ indices[i + 1] \in Nat /\ Distance(indices, i) = indices[i + 1] - i /\ i < Len(indices)
      /\ Len(indices) \in Nat
  BY CoordinateTypes
<1>2. 0 \in Coordinates(indices) /\ 0 <= i
  BY <1>1 DEF Coordinates
<1>3. Distance(indices, 0) <= Distance(indices, i)
  BY <1>2, DisplacementsGrow
<1>4. indices[0 + 1] \in Nat /\ Distance(indices, 0) = indices[0 + 1] - 0
  BY <1>2, CoordinateTypes
<1>5. QED BY <1>1, <1>3, <1>4

\* What the digits from one unit on move grows with the displacement.
LEMMA MultiplesGrow ==
  ASSUME NEW a \in Nat, NEW b \in Nat, NEW n \in Nat \ {0}, a <= b
  PROVE  /\ a - (a % n) <= b - (b % n)
         /\ a % n \in 0 .. n - 1 /\ a % n <= a
         /\ b % n \in 0 .. n - 1 /\ b % n <= b
<1>1. /\ a \div n \in Nat /\ a % n \in 0 .. n - 1 /\ a = n * (a \div n) + (a % n)
      /\ b \div n \in Nat /\ b % n \in 0 .. n - 1 /\ b = n * (b \div n) + (b % n)
  BY SMT
<1>2. a % n <= a /\ b % n <= b
  BY <1>1
<1>3. a - (a % n) <= b - (b % n)
  BY SMT
<1>4. QED BY <1>1, <1>2, <1>3

\* The position before a stage, in both directions, from the slots already
\* moved and those still to move.
LEMMA PositionForm ==
  ASSUME NEW indices, Increasing(indices), NEW scatter \in BOOLEAN,
         NEW i \in Coordinates(indices), NEW unit \in Nat \ {0}
  PROVE  LET n == IF scatter THEN Radix * unit ELSE unit
         IN  /\ n \in Nat \ {0}
             /\ SourcePosition(indices, scatter, i, unit)
                  = i + (Distance(indices, i) - (Distance(indices, i) % n))
<1> DEFINE n == IF scatter THEN Radix * unit ELSE unit   d == Distance(indices, i)
<1>1. n \in Nat \ {0}
  <2>1. Radix \in Nat \ {0}
    BY RoutingAssumption
  <2>2. Radix * unit \in Nat \ {0}
    BY <2>1
  <2>3. QED BY <2>2
<1>2. SourcePosition(indices, scatter, i, unit) = indices[i + 1] - (d % n)
  BY DEF SourcePosition, Below
<1>3. i \in Nat /\ indices[i + 1] \in Nat /\ d = indices[i + 1] - i
  BY CoordinateTypes
<1>4. d \in Nat
  BY DisplacementsNatural
<1> HIDE DEF n, d
<1>5. d % n \in Int
  BY <1>1, <1>4, SMT
<1>6. indices[i + 1] - (d % n) = i + (d - (d % n))
  BY <1>3, <1>5
<1>7. QED BY <1>1, <1>2, <1>6 DEF n, d

\* Before every stage of a gather or a scatter, the coordinates still have
\* their order: no stage brings two of them into one slot, so that no mask
\* adds two coordinates up.
THEOREM CoordinatesNeverMeet ==
  ASSUME NEW indices, Increasing(indices), NEW scatter \in BOOLEAN,
         NEW unit \in Nat \ {0},
         NEW i \in Coordinates(indices), NEW j \in Coordinates(indices), i < j
  PROVE  SourcePosition(indices, scatter, i, unit)
           < SourcePosition(indices, scatter, j, unit)
<1> DEFINE n == IF scatter THEN Radix * unit ELSE unit
           a == Distance(indices, i)   b == Distance(indices, j)
<1>1. /\ n \in Nat \ {0}
      /\ SourcePosition(indices, scatter, i, unit) = i + (a - (a % n))
      /\ SourcePosition(indices, scatter, j, unit) = j + (b - (b % n))
  BY PositionForm
<1>2. i \in Nat /\ j \in Nat /\ i <= j
  BY CoordinateTypes
<1>3. a \in Nat /\ b \in Nat /\ a <= b
  BY <1>2, DisplacementsNatural, DisplacementsGrow
<1> HIDE DEF n, a, b
<1>4. a - (a % n) <= b - (b % n) /\ a % n \in 0 .. n - 1 /\ b % n \in 0 .. n - 1
  BY <1>1, <1>3, MultiplesGrow
<1>5. i + (a - (a % n)) < j + (b - (b % n))
  BY <1>1, <1>2, <1>3, <1>4
<1>6. QED BY <1>1, <1>5

\* Nor does a coordinate leave the slots between where it starts and where
\* it ends: a stage never rotates it around the end of the ciphertext.
THEOREM CoordinatesStayBetween ==
  ASSUME NEW indices, Increasing(indices), NEW scatter \in BOOLEAN,
         NEW unit \in Nat \ {0}, NEW i \in Coordinates(indices)
  PROVE  SourcePosition(indices, scatter, i, unit) \in i .. indices[i + 1]
<1> DEFINE n == IF scatter THEN Radix * unit ELSE unit   a == Distance(indices, i)
<1>1. n \in Nat \ {0} /\ SourcePosition(indices, scatter, i, unit) = i + (a - (a % n))
  BY PositionForm
<1>2. i \in Nat /\ indices[i + 1] \in Nat /\ a = indices[i + 1] - i
  BY CoordinateTypes
<1>3. a \in Nat
  BY DisplacementsNatural
<1> HIDE DEF n, a
<1>4. a % n \in 0 .. n - 1 /\ a % n <= a
  <2>1. a <= a
    BY <1>3
  <2>2. QED BY <1>1, <1>3, <2>1, MultiplesGrow
<1>5. i + (a - (a % n)) \in i .. indices[i + 1]
  BY <1>1, <1>2, <1>3, <1>4
<1>6. QED BY <1>1, <1>5

-----------------------------------------------------------------------------
(* A property of 0 that passes from k to k + 1 holds up to N.              *)
LEMMA Climb ==
  ASSUME NEW N \in Nat, NEW S, 0 \in S, \A k \in 0 .. N - 1 : k \in S => k + 1 \in S
  PROVE  \A k \in 0 .. N : k \in S
<1> DEFINE B == {k \in 0 .. N : k \notin S}
<1>1. SUFFICES ASSUME B # {} PROVE FALSE
  OBVIOUS
<1>2. PICK b \in B : \A k \in B : b <= k
  BY <1>1, B \subseteq Nat, LeastNat
<1>3. b # 0 /\ b \in 0 .. N
  BY <1>2
<1>4. b - 1 \in 0 .. N - 1 /\ b - 1 \notin B /\ b - 1 \in 0 .. N
  BY <1>2, <1>3
<1>5. b - 1 \in S
  BY <1>4
<1>6. (b - 1) + 1 \in S
  BY <1>4, <1>5
<1>7. b \in S
  BY <1>3, <1>6
<1>8. QED BY <1>2, <1>7

-----------------------------------------------------------------------------
(* Programs and their execution.                                           *)

Weights == Seq(Int)
Masks == SUBSET (Int \X Weights)
Instructions ==
  [op : {"encrypt"}, to : Nat, input : Nat, size : Nat]
  \cup [op : {"copy"}, to : Nat, from : Nat]
  \cup [op : {"roll"}, to : Nat, from : Nat, by : Int]
  \cup [op : {"add"}, to : Nat, from : Nat, other : Nat]
  \cup [op : {"mult"}, to : Nat, from : Nat, mask : Masks]

Put(held, to, value) ==
  [r \in DOMAIN held \cup {to} |-> IF r = to THEN value ELSE held[r]]
State(held, rolled, multiplied) == [regs |-> held, rolls |-> rolled, mults |-> multiplied]
Reg(v, l) == [slots |-> v, level |-> l]

(* The state after one operation.                                          *)
Executed(o, s, batch) ==
  LET from == s.regs[o.from]
      other == s.regs[o.other]
  IN  CASE o.op = "encrypt" ->
             State(Put(s.regs, o.to, Reg(Encrypted(o.input, o.size, batch), 0)), s.rolls, s.mults)
        [] o.op = "copy" -> State(Put(s.regs, o.to, from), s.rolls, s.mults)
        [] o.op = "roll" ->
             State(Put(s.regs, o.to, [from EXCEPT !.slots = Rotate(from.slots, o.by)]),
                   IF o.by = 0 THEN s.rolls ELSE Append(s.rolls, o.by), s.mults)
        [] o.op = "add" ->
             State(Put(s.regs, o.to, Reg(Plus(from.slots, other.slots), Max({from.level, other.level}))),
                   s.rolls, s.mults)
        [] OTHER ->
             State(Put(s.regs, o.to, Reg(Times(from.slots, o.mask), from.level + 1)),
                   s.rolls, s.mults + 1)

(* The program c takes s to t, through the states of a history.            *)
History(h, c, s, t, batch) ==
  /\ h[0] = s /\ h[Len(c)] = t
  /\ \A k \in 1 .. Len(c) : h[k] = Executed(c[k], h[k - 1], batch)
Runs(c, s, t, batch) == \E h : History(h, c, s, t, batch)

\* The empty program changes nothing.
LEMMA RunsNothing ==
  ASSUME NEW s, NEW t, NEW batch
  PROVE  Runs(<<>>, s, t, batch) <=> s = t
<1>1. s = t => History([k \in 0 .. 0 |-> s], <<>>, s, t, batch)
  BY DEF History
<1>2. QED BY <1>1 DEF Runs, History

\* A program of one operation executes that operation.
LEMMA RunsOne ==
  ASSUME NEW o, NEW s, NEW t, NEW batch, Runs(<<o>>, s, t, batch)
  PROVE  t = Executed(o, s, batch)
<1>1. PICK h : History(h, <<o>>, s, t, batch)
  BY DEF Runs
<1>2. Len(<<o>>) = 1 /\ <<o>>[1] = o /\ 1 \in 1 .. 1
  OBVIOUS
<1> HIDE DEF Executed
<1>3. h[1] = Executed(o, h[1 - 1], batch) /\ h[0] = s /\ h[1] = t
  BY <1>1, <1>2 DEF History
<1>4. h[1 - 1] = h[0]
  OBVIOUS
<1>5. QED BY <1>3, <1>4

(* A program after another.                                                *)
LEMMA RunsBoth ==
  ASSUME NEW S, NEW c \in Seq(S), NEW d \in Seq(S), NEW s, NEW t, NEW batch,
         Runs(c \o d, s, t, batch)
  PROVE  \E u : Runs(c, s, u, batch) /\ Runs(d, u, t, batch)
<1> DEFINE n == Len(c)   m == Len(d)   e == c \o d
<1>1. /\ n \in Nat /\ m \in Nat /\ Len(e) = n + m
      /\ \A k \in 1 .. n : e[k] = c[k]
      /\ \A k \in 1 .. m : e[n + k] = d[k]
  OBVIOUS
<1>2. PICK h : History(h, e, s, t, batch)
  BY DEF Runs
<1> HIDE DEF e
<1>3. h[0] = s /\ h[n + m] = t /\ \A k \in 1 .. n + m : h[k] = Executed(e[k], h[k - 1], batch)
  BY <1>1, <1>2 DEF History
<1>4. History(h, c, s, h[n], batch)
  <2>1. \A k \in 1 .. n : k \in 1 .. n + m
    BY <1>1
  <2>2. QED BY <1>1, <1>3, <2>1 DEF History
<1> DEFINE g == [k \in 0 .. m |-> h[n + k]]
<1>5. History(g, d, h[n], t, batch)
  <2>1. g[0] = h[n] /\ g[m] = t
    BY <1>1, <1>3
  <2>2. ASSUME NEW k \in 1 .. m
        PROVE  g[k] = Executed(d[k], g[k - 1], batch)
    <3>1. n + k \in 1 .. n + m /\ k \in 0 .. m /\ k - 1 \in 0 .. m /\ (n + k) - 1 = n + (k - 1)
      BY <1>1
    <3>2. h[n + k] = Executed(e[n + k], h[(n + k) - 1], batch) /\ e[n + k] = d[k]
      BY <1>1, <1>3, <3>1
    <3>3. g[k] = h[n + k] /\ g[k - 1] = h[n + (k - 1)]
      BY <3>1
    <3>4. QED BY <3>1, <3>2, <3>3
  <2> HIDE DEF g
  <2>3. QED BY <2>1, <2>2 DEF History
<1>6. QED BY <1>4, <1>5 DEF Runs

(* One more operation.                                                     *)
LEMMA RunsNext ==
  ASSUME NEW S, NEW c \in Seq(S), NEW o \in S, NEW s, NEW t, NEW batch,
         Runs(c, s, t, batch)
  PROVE  Runs(Append(c, o), s, Executed(o, t, batch), batch)
<1> DEFINE n == Len(c)   e == Append(c, o)   u == Executed(o, t, batch)
<1>1. n \in Nat /\ Len(e) = n + 1 /\ e[n + 1] = o /\ \A k \in 1 .. n : e[k] = c[k]
  OBVIOUS
<1>2. PICK h : History(h, c, s, t, batch)
  BY DEF Runs
<1> HIDE DEF e
<1> DEFINE g == [k \in 0 .. n + 1 |-> IF k = n + 1 THEN u ELSE h[k]]
<1> HIDE DEF u
<1>3. g[0] = s /\ g[n + 1] = u
  BY <1>1, <1>2 DEF History
<1>4. ASSUME NEW k \in 1 .. n + 1
      PROVE  g[k] = Executed(e[k], g[k - 1], batch)
  <2>1. k - 1 \in 0 .. n + 1 /\ k - 1 # n + 1 /\ k \in 0 .. n + 1
    BY <1>1
  <2>2. g[k - 1] = h[k - 1]
    BY <2>1
  <2>3. CASE k = n + 1
    <3>1. k - 1 = n /\ h[n] = t
      BY <1>1, <1>2, <2>3 DEF History
    <3>2. QED BY <1>1, <1>3, <2>2, <2>3, <3>1 DEF u
  <2>4. CASE k # n + 1
    <3>1. k \in 1 .. n /\ g[k] = h[k]
      BY <1>1, <2>1, <2>4
    <3>2. QED BY <1>1, <1>2, <2>2, <3>1 DEF History
  <2>5. QED BY <2>3, <2>4
<1> HIDE DEF g
<1>5. History(g, e, s, u, batch)
  BY <1>1, <1>3, <1>4 DEF History
<1>6. QED BY <1>5 DEF Runs, e, u

(* A program put together from parts, one after the other.                 *)
LEMMA Flattened ==
  ASSUME NEW S, NEW f \in Seq(Seq(S))
  PROVE  \E g \in [0 .. Len(f) -> Seq(S)] :
           /\ g[0] = <<>> /\ g[Len(f)] = FlattenSeq(f)
           /\ \A k \in 1 .. Len(f) : g[k] = g[k - 1] \o f[k]
<1> DEFINE N == Len(f)
           V == Seq(S)
           step == [x \in (1 .. N) \X V |-> x[2] \o f[x[1]]]
<1>1. N \in Nat /\ f \in [1 .. N -> V] /\ <<>> \in V
  OBVIOUS
<1>2. step \in [(1 .. N) \X V -> V]
  BY <1>1
<1> HIDE DEF V, N
<1>3. PICK g \in [0 .. N -> V] : Follows(g, N, <<>>, step)
  BY <1>1, <1>2, Chain
<1>4. g[0] = <<>> /\ \A k \in 1 .. N : g[k] = g[k - 1] \o f[k]
  <2>1. ASSUME NEW k \in 1 .. N
        PROVE  g[k] = g[k - 1] \o f[k]
    <3>1. k - 1 \in 0 .. N /\ g[k - 1] \in V
      BY <1>1, <1>3
    <3>2. <<k, g[k - 1]>> \in (1 .. N) \X V
      BY <3>1
    <3>3. g[k] = step[<<k, g[k - 1]>>]
      BY <1>3 DEF Follows
    <3>4. QED BY <3>2, <3>3
  <2>2. QED BY <1>3, <2>1 DEF Follows
<1>5. g[N] = FlattenSeq(f)
  <2>1. CASE N = 0
    <3>1. f = <<>>
      BY <2>1 DEF N
    <3>2. QED BY <1>4, <2>1, <3>1 DEF FlattenSeq, N
  <2>2. CASE N # 0
    <3> DEFINE F(h) == [i \in 1 .. N |-> IF i = 1 THEN f[i] ELSE h[i - 1] \o f[i]]
               flatten == CHOOSE h : h = F(h)
               h0 == [i \in 1 .. N |-> g[i]]
    <3>1. h0 = F(h0)
      <4>1. ASSUME NEW i \in 1 .. N
            PROVE  g[i] = IF i = 1 THEN f[i] ELSE h0[i - 1] \o f[i]
        <5>1. CASE i = 1
          <6>1. g[1] = g[1 - 1] \o f[1] /\ g[1 - 1] = <<>>
            BY <1>1, <1>4, <2>2
          <6>2. f[1] \in V
            BY <1>1, <2>2
          <6>3. QED BY <5>1, <6>1, <6>2 DEF V
        <5>2. CASE i # 1
          <6>1. i - 1 \in 1 .. N
            BY <1>1, <5>2
          <6>2. QED BY <1>4, <5>2, <6>1
        <5>3. QED BY <5>1, <5>2
      <4>2. QED BY <4>1
    <3>2. flatten = F(flatten)
      BY <3>1
    <3>3. FlattenSeq(f) = flatten[N]
      BY <2>2 DEF FlattenSeq, N
    <3> HIDE DEF flatten
    <3>4. \A i \in 1 .. N : flatten[i] = IF i = 1 THEN f[i] ELSE flatten[i - 1] \o f[i]
      BY <3>2
    <3> DEFINE Same == {k \in 0 .. N : k = 0 \/ flatten[k] = g[k]}
    <3>5. 0 \in Same
      BY <1>1
    <3>6. ASSUME NEW k \in 0 .. N - 1, k \in Same
          PROVE  k + 1 \in Same
      <4>1. k + 1 \in 1 .. N /\ (k + 1) - 1 = k
        BY <1>1
      <4>2. g[k + 1] = g[k] \o f[k + 1]
        BY <1>4, <4>1
      <4>3. CASE k = 0
        <5>1. f[1] \in V /\ g[0] = <<>>
          BY <1>1, <1>4, <2>2
        <5>2. g[1] = f[1]
          BY <4>2, <4>3, <5>1 DEF V
        <5>3. QED BY <3>4, <4>1, <4>3, <5>2
      <4>4. CASE k # 0
        <5>1. flatten[k + 1] = IF k + 1 = 1 THEN f[k + 1] ELSE flatten[(k + 1) - 1] \o f[k + 1]
          BY <3>4, <4>1
        <5>11. k + 1 # 1
          BY <1>1, <4>4
        <5>12. flatten[k + 1] = flatten[(k + 1) - 1] \o f[k + 1]
          BY <5>1, <5>11, Zenon
        <5>2. flatten[k + 1] = flatten[k] \o f[k + 1]
          BY <4>1, <5>12, Zenon
        <5>3. flatten[k] = g[k]
          BY <3>6, <4>4
        <5>4. flatten[k + 1] = g[k + 1]
          BY <4>2, <5>2, <5>3
        <5>5. k + 1 \in 0 .. N
          BY <1>1
        <5>6. QED BY <5>4, <5>5
      <4>5. QED BY <4>3, <4>4
    <3> HIDE DEF Same
    <3>7. \A k \in 0 .. N : k \in Same
      BY <1>1, <3>5, <3>6, Climb
    <3>8. flatten[N] = g[N]
      BY <1>1, <2>2, <3>7 DEF Same
    <3>9. QED BY <3>3, <3>8
  <2>3. QED BY <2>1, <2>2
<1>6. QED BY <1>3, <1>4, <1>5 DEF V, N

(* Such a program runs part by part.                                       *)
LEMMA RunsFlattened ==
  ASSUME NEW S, NEW f \in Seq(Seq(S)), NEW s, NEW t, NEW batch,
         Runs(FlattenSeq(f), s, t, batch)
  PROVE  \E u : /\ u[0] = s /\ u[Len(f)] = t
                /\ \A k \in 1 .. Len(f) : Runs(f[k], u[k - 1], u[k], batch)
<1> DEFINE N == Len(f)
           V == Seq(S)
<1>1. PICK g \in [0 .. N -> V] :
        /\ g[0] = <<>> /\ g[N] = FlattenSeq(f)
        /\ \A k \in 1 .. N : g[k] = g[k - 1] \o f[k]
  BY Flattened
<1>2. N \in Nat /\ f \in [1 .. N -> V]
  OBVIOUS
<1>3. PICK h : History(h, FlattenSeq(f), s, t, batch)
  BY DEF Runs
<1> HIDE DEF N
<1>4. \A k \in 0 .. N : Len(g[k]) \in Nat
  <2>1. \A k \in 0 .. N : g[k] \in Seq(S)
    BY <1>1
  <2>2. QED BY <2>1
<1>5. ASSUME NEW k \in 1 .. N
      PROVE  /\ k - 1 \in 0 .. N /\ g[k - 1] \in Seq(S) /\ f[k] \in Seq(S)
             /\ Len(g[k]) = Len(g[k - 1]) + Len(f[k])
             /\ \A i \in 1 .. Len(g[k - 1]) : g[k][i] = g[k - 1][i]
             /\ \A i \in 1 .. Len(f[k]) : g[k][Len(g[k - 1]) + i] = f[k][i]
  <2>0. k - 1 \in 0 .. N
    BY <1>2
  <2>1. k - 1 \in 0 .. N /\ g[k] = g[k - 1] \o f[k]
    BY <1>1, <2>0
  <2>2. g[k - 1] \in Seq(S) /\ f[k] \in Seq(S)
    BY <1>1, <1>2, <2>1
  <2> DEFINE a == g[k - 1]   b == f[k]
  <2> HIDE DEF a, b
  <2>3. a \in Seq(S) /\ b \in Seq(S) /\ g[k] = a \o b
    BY <2>1, <2>2 DEF a, b
  <2>4. /\ Len(g[k]) = Len(a) + Len(b)
        /\ \A i \in 1 .. Len(a) : g[k][i] = a[i]
        /\ \A i \in 1 .. Len(b) : g[k][Len(a) + i] = b[i]
    BY <2>3
  <2>5. QED BY <2>1, <2>2, <2>4 DEF a, b
(* Each beginning is one of the whole program.                             *)
<1> DEFINE Within(k) == /\ Len(g[N - k]) <= Len(g[N])
                        /\ \A i \in 1 .. Len(g[N - k]) : g[N][i] = g[N - k][i]
           B == {k \in 0 .. N : Within(k)}
<1>6. \A k \in 0 .. N : k \in B
  <2>1. 0 \in B
    <3>1. N - 0 = N /\ 0 \in 0 .. N /\ Len(g[N]) \in Nat
      BY <1>2, <1>4
    <3>2. Within(0)
      BY <3>1
    <3>3. QED BY <3>1, <3>2
  <2>2. ASSUME NEW k \in 0 .. N - 1, k \in B
        PROVE  k + 1 \in B
    <3> DEFINE m == N - k
    <3>1. m \in 1 .. N /\ m - 1 = N - (k + 1) /\ k + 1 \in 0 .. N /\ m - 1 \in 0 .. N /\ m \in 0 .. N
      BY <1>2
    <3>2. Len(g[m]) <= Len(g[N]) /\ \A i \in 1 .. Len(g[m]) : g[N][i] = g[m][i]
      BY <2>2
    <3> HIDE DEF m
    <3>3. /\ Len(g[m]) = Len(g[m - 1]) + Len(f[m]) /\ f[m] \in Seq(S)
          /\ \A i \in 1 .. Len(g[m - 1]) : g[m][i] = g[m - 1][i]
      BY <1>5, <3>1
    <3>4. Len(g[m]) \in Nat /\ Len(g[m - 1]) \in Nat /\ Len(g[N]) \in Nat /\ N \in 0 .. N /\ Len(f[m]) \in Nat
      BY <1>2, <1>4, <3>1, <3>3
    <3> DEFINE lm == Len(g[m])   lp == Len(g[m - 1])   ln == Len(g[N])   lf == Len(f[m])
    <3>41. /\ lm \in Nat /\ lp \in Nat /\ ln \in Nat /\ lf \in Nat /\ lm = lp + lf /\ lm <= ln
           /\ \A i \in 1 .. lm : g[N][i] = g[m][i]
           /\ \A i \in 1 .. lp : g[m][i] = g[m - 1][i]
      BY <3>2, <3>3, <3>4
    <3> HIDE DEF lm, lp, ln, lf
    <3>5. lp <= ln /\ \A i \in 1 .. lp : i \in 1 .. lm
      BY <3>41
    <3>51. \A i \in 1 .. lp : g[N][i] = g[m - 1][i]
      BY <3>41, <3>5
    <3>6. Len(g[m - 1]) <= Len(g[N]) /\ \A i \in 1 .. Len(g[m - 1]) : g[N][i] = g[m - 1][i]
      BY <3>5, <3>51 DEF lp, ln
    <3>7. QED BY <3>1, <3>6
  <2> HIDE DEF B
  <2>3. QED BY <1>2, <2>1, <2>2, Climb
<1>7. ASSUME NEW k \in 0 .. N
      PROVE  Len(g[k]) <= Len(g[N]) /\ \A i \in 1 .. Len(g[k]) : g[N][i] = g[k][i]
  <2>1. N - k \in 0 .. N /\ N - (N - k) = k
    BY <1>2
  <2>2. Within(N - k)
    BY <1>6, <2>1
  <2>3. QED BY <2>1, <2>2
<1> HIDE DEF Within, B
<1> DEFINE u == [k \in 0 .. N |-> h[Len(g[k])]]
<1>8. h[0] = s /\ h[Len(g[N])] = t
      /\ \A k \in 1 .. Len(g[N]) : h[k] = Executed(g[N][k], h[k - 1], batch)
  BY <1>1, <1>3 DEF History
<1>9. u[0] = s /\ u[N] = t
  <2>1. Len(g[0]) = 0 /\ 0 \in 0 .. N /\ N \in 0 .. N
    BY <1>1, <1>2
  <2>2. QED BY <1>8, <2>1
<1>10. ASSUME NEW k \in 1 .. N
       PROVE  Runs(f[k], u[k - 1], u[k], batch)
  <2> DEFINE n == Len(g[k - 1])   m == Len(f[k])
             e == [i \in 0 .. m |-> h[n + i]]
  <2>1. /\ k - 1 \in 0 .. N /\ k \in 0 .. N /\ n \in Nat /\ m \in Nat /\ Len(g[k]) = n + m
        /\ n + m <= Len(g[N]) /\ Len(g[N]) \in Nat
        /\ \A i \in 1 .. m : g[k][n + i] = f[k][i]
    <3>1. k \in 0 .. N /\ N \in 0 .. N
      BY <1>2
    <3>2. f[k] \in Seq(S) /\ k - 1 \in 0 .. N /\ Len(g[k]) = n + m
          /\ \A i \in 1 .. m : g[k][n + i] = f[k][i]
      BY <1>5
    <3>3. m \in Nat
      BY <3>2
    <3>4. QED BY <1>4, <1>7, <3>1, <3>2, <3>3
  <2> HIDE DEF n, m
  <2>2. e[0] = u[k - 1] /\ e[m] = u[k]
    <3>1. e[0] = h[n] /\ e[m] = h[n + m]
      BY <2>1
    <3>2. u[k - 1] = h[n] /\ u[k] = h[n + m]
      BY <2>1 DEF n
    <3>3. QED BY <3>1, <3>2
  <2>3. ASSUME NEW i \in 1 .. m
        PROVE  e[i] = Executed(f[k][i], e[i - 1], batch)
    <3>1. n + i \in 1 .. Len(g[N]) /\ n + i \in 1 .. Len(g[k]) /\ i \in 0 .. m /\ i - 1 \in 0 .. m
          /\ (n + i) - 1 = n + (i - 1)
      BY <2>1
    <3>2. h[n + i] = Executed(g[N][n + i], h[(n + i) - 1], batch)
      BY <1>8, <3>1
    <3>3. g[N][n + i] = f[k][i]
      BY <1>7, <2>1, <3>1
    <3>4. e[i] = h[n + i] /\ e[i - 1] = h[n + (i - 1)]
      BY <3>1
    <3>5. QED BY <3>1, <3>2, <3>3, <3>4
  <2> HIDE DEF e
  <2>4. History(e, f[k], u[k - 1], u[k], batch)
    BY <2>2, <2>3 DEF History, m
  <2>5. QED BY <2>4 DEF Runs
<1> HIDE DEF u
<1>11. QED BY <1>9, <1>10 DEF N

(* A loop of n rounds runs round by round.                                 *)
Rounds(u, f, n, s, t, batch) ==
  /\ u[0] = s /\ u[n] = t
  /\ \A k \in 1 .. n : Runs(f[k], u[k - 1], u[k], batch)

\* A program joined of n pieces passes through a state after each piece.
LEMMA RunsLoop ==
  ASSUME NEW n \in Nat, NEW f \in [1 .. n -> Seq(Instructions)], NEW s, NEW t, NEW batch,
         Runs(FlattenSeq(f), s, t, batch)
  PROVE  \E u : Rounds(u, f, n, s, t, batch)
<1> DEFINE V == Instructions   c == FlattenSeq(f)
<1>1. f \in Seq(Seq(V)) /\ Len(f) = n
  <2> DEFINE W == Seq(V)
  <2> HIDE DEF W
  <2>1. f \in [1 .. n -> W]
    BY DEF W
  <2>2. f \in Seq(W) /\ Len(f) = n
    BY <2>1
  <2>3. QED BY <2>2 DEF W
<1> HIDE DEF V
<1>2. \E u : /\ u[0] = s /\ u[Len(f)] = t
             /\ \A k \in 1 .. Len(f) : Runs(f[k], u[k - 1], u[k], batch)
  BY <1>1, RunsFlattened, SMT
<1>3. QED BY <1>1, <1>2 DEF Rounds

(* The parts of a loop.                                                    *)
LEMMA FlattenedType ==
  ASSUME NEW S, NEW f \in Seq(Seq(S))
  PROVE  FlattenSeq(f) \in Seq(S)
<1>1. PICK g \in [0 .. Len(f) -> Seq(S)] : g[Len(f)] = FlattenSeq(f)
  BY Flattened
<1>2. Len(f) \in 0 .. Len(f)
  OBVIOUS
<1>3. QED BY <1>1, <1>2

-----------------------------------------------------------------------------
(* The machine has executed a beginning of its program.                    *)
Machine == [regs |-> regs, rolls |-> rolls, mults |-> mults]
Start == [regs |-> <<>>, rolls |-> <<>>, mults |-> 0]

Traced ==
  Code(job) \in Seq(Instructions) =>
    /\ code \in Seq(Instructions)
    /\ \E done \in Seq(Instructions) :
         Code(job) = done \o code /\ Runs(done, Start, Machine, job.batch)

(* A step executes the next operation.                                     *)
LEMMA StepExecutes ==
  ASSUME Next
  PROVE  /\ code # <<>> /\ code' = Tail(code) /\ job' = job
         /\ Machine' = Executed(Head(code), Machine, job.batch)
<1> DEFINE o == Head(code)
<1>1. CASE EncryptInput
  <2>1. o.op = "encrypt" /\ code # <<>> /\ code' = Tail(code) /\ job' = job
    BY <1>1 DEF EncryptInput, Executes
  <2>2. /\ regs' = Put(regs, o.to, [slots |-> Encrypted(o.input, o.size, job.batch), level |-> 0])
        /\ rolls' = rolls /\ mults' = mults
    BY <1>1 DEF EncryptInput, Write, Put
  <2>3. QED BY <2>1, <2>2 DEF Machine, Executed, State, Reg
<1>2. CASE CopyRegister
  <2>1. o.op = "copy" /\ code # <<>> /\ code' = Tail(code) /\ job' = job
    BY <1>2 DEF CopyRegister, Executes
  <2>2. regs' = Put(regs, o.to, regs[o.from]) /\ rolls' = rolls /\ mults' = mults
    BY <1>2 DEF CopyRegister, Write, Put
  <2>3. QED BY <2>1, <2>2 DEF Machine, Executed, State, Reg
<1>3. CASE RollRegister
  <2>1. o.op = "roll" /\ code # <<>> /\ code' = Tail(code) /\ job' = job
    BY <1>3 DEF RollRegister, Executes
  <2>2. /\ regs' = Put(regs, o.to, [regs[o.from] EXCEPT !.slots = Rotate(regs[o.from].slots, o.by)])
        /\ rolls' = (IF o.by = 0 THEN rolls ELSE Append(rolls, o.by)) /\ mults' = mults
    BY <1>3 DEF RollRegister, Write, Put
  <2>3. QED BY <2>1, <2>2 DEF Machine, Executed, State, Reg
<1>4. CASE AddRegisters
  <2>1. o.op = "add" /\ code # <<>> /\ code' = Tail(code) /\ job' = job
    BY <1>4 DEF AddRegisters, Executes
  <2>2. /\ regs' = Put(regs, o.to,
                       [slots |-> Plus(regs[o.from].slots, regs[o.other].slots),
                        level |-> Max({regs[o.from].level, regs[o.other].level})])
        /\ rolls' = rolls /\ mults' = mults
    BY <1>4 DEF AddRegisters, Write, Put
  <2>3. QED BY <2>1, <2>2 DEF Machine, Executed, State, Reg
<1>5. CASE MultiplyMask
  <2>1. o.op = "mult" /\ code # <<>> /\ code' = Tail(code) /\ job' = job
    BY <1>5 DEF MultiplyMask, Executes
  <2>2. /\ regs' = Put(regs, o.to, [slots |-> Times(regs[o.from].slots, o.mask),
                                    level |-> regs[o.from].level + 1])
        /\ rolls' = rolls /\ mults' = mults + 1
    BY <1>5 DEF MultiplyMask, Write, Put
  <2>3. QED BY <2>1, <2>2 DEF Machine, Executed, State, Reg
<1>6. QED BY <1>1, <1>2, <1>3, <1>4, <1>5 DEF Next

\* What was executed so far brought the machine from its start to its state.
LEMMA Execution == Spec => []Traced
<1>1. Init => Traced
  <2> SUFFICES ASSUME Init, Code(job) \in Seq(Instructions)
               PROVE  /\ code \in Seq(Instructions)
                      /\ \E done \in Seq(Instructions) :
                           Code(job) = done \o code /\ Runs(done, Start, Machine, job.batch)
    BY DEF Traced
  <2>1. code = Code(job) /\ Machine = Start
    BY DEF Init, Machine, Start
  <2>2. <<>> \in Seq(Instructions) /\ Code(job) = <<>> \o code
    <3> DEFINE c == Code(job)
    <3>1. c \in Seq(Instructions) /\ code = c
      BY <2>1
    <3> HIDE DEF c
    <3>2. <<>> \o c = c
      BY <3>1
    <3>3. QED BY <3>1, <3>2 DEF c
  <2>3. Runs(<<>>, Start, Machine, job.batch)
    BY <2>1, RunsNothing
  <2>4. QED BY <2>1, <2>2, <2>3
<1>2. Traced /\ [Next]_vars => Traced'
  <2> SUFFICES ASSUME Traced, [Next]_vars
               PROVE  Traced'
    OBVIOUS
  <2>1. CASE UNCHANGED vars
    BY <2>1 DEF vars, Traced, Machine
  <2>2. CASE Next
    <3> DEFINE c == Code(job)   o == Head(code)
    <3> SUFFICES ASSUME c' \in Seq(Instructions)
                 PROVE  /\ code' \in Seq(Instructions)
                        /\ \E done \in Seq(Instructions) :
                             c' = done \o code' /\ Runs(done, Start, Machine', job'.batch)
      BY DEF Traced, Start, Runs, History, Executed, State, Reg, Put
    <3>1. /\ code # <<>> /\ code' = Tail(code) /\ job' = job
          /\ Machine' = Executed(o, Machine, job.batch)
      BY <2>2, StepExecutes
    <3>2. c' = c
      BY <3>1
    <3>3. c \in Seq(Instructions)
      BY <3>2
    <3>4. code \in Seq(Instructions)
      BY <3>3 DEF Traced
    <3>5. PICK done \in Seq(Instructions) :
            c = done \o code /\ Runs(done, Start, Machine, job.batch)
      BY <3>3 DEF Traced
    <3> HIDE DEF c
    <3>6. /\ o \in Instructions /\ Tail(code) \in Seq(Instructions)
          /\ done \o code = Append(done, o) \o Tail(code)
      BY <3>1, <3>4, <3>5
    <3>7. Runs(Append(done, o), Start, Executed(o, Machine, job.batch), job.batch)
      BY <3>5, <3>6, RunsNext
    <3>8. Append(done, o) \in Seq(Instructions)
      BY <3>5, <3>6
    <3>9. QED BY <3>1, <3>2, <3>5, <3>6, <3>7, <3>8
  <2>3. QED BY <2>1, <2>2
<1>3. QED BY <1>1, <1>2, PTL DEF Spec

(* When it is done it has executed all of it.                              *)
LEMMA DoneRan ==
  ASSUME Traced, Done, Code(job) \in Seq(Instructions)
  PROVE  Runs(Code(job), Start, Machine, job.batch)
<1> DEFINE c == Code(job)
<1>1. PICK done \in Seq(Instructions) :
        c = done \o code /\ Runs(done, Start, Machine, job.batch)
  BY DEF Traced
<1>2. code = <<>>
  BY DEF Done
<1> HIDE DEF c
<1>3. c = done
  BY <1>1, <1>2
<1>4. QED BY <1>1, <1>3 DEF c

-----------------------------------------------------------------------------
(* What an operation does to the registers and the counters.               *)
Stores(s, r, v, l) == r \in DOMAIN s.regs /\ s.regs[r] = Reg(v, l)
Keeps(s, t, changed) ==
  \A r \in DOMAIN s.regs : r \notin changed => r \in DOMAIN t.regs /\ t.regs[r] = s.regs[r]

(* From s to t: k rotations, by offsets of K.                              *)
Rolls(s, t, k, K) ==
  /\ s.rolls \in Seq(Int) /\ t.rolls \in Seq(Int)
  /\ Len(t.rolls) = Len(s.rolls) + k
  /\ ToSet(t.rolls) \subseteq ToSet(s.rolls) \cup K

\* The rotations of two programs in a row add up.
LEMMA RollsOn ==
  ASSUME NEW s, NEW t, NEW u, NEW k \in Int, NEW K, NEW l \in Int, NEW L,
         Rolls(s, t, k, K), Rolls(t, u, l, L)
  PROVE  Rolls(s, u, k + l, K \cup L)
<1>1. /\ s.rolls \in Seq(Int) /\ u.rolls \in Seq(Int)
      /\ Len(t.rolls) = Len(s.rolls) + k /\ Len(u.rolls) = Len(t.rolls) + l
      /\ ToSet(t.rolls) \subseteq ToSet(s.rolls) \cup K
      /\ ToSet(u.rolls) \subseteq ToSet(t.rolls) \cup L
  BY DEF Rolls
<1>2. Len(s.rolls) \in Nat
  BY <1>1
<1>3. Len(u.rolls) = Len(s.rolls) + (k + l)
  <2> DEFINE a == Len(s.rolls)   b == Len(t.rolls)   c == Len(u.rolls)
  <2>1. a \in Int /\ b = a + k /\ c = b + l
    BY <1>1, <1>2
  <2> HIDE DEF a, b, c
  <2>2. c = a + (k + l)
    BY <2>1
  <2>3. QED BY <2>2 DEF a, c
<1>4. ToSet(u.rolls) \subseteq ToSet(s.rolls) \cup (K \cup L)
  BY <1>1, Zenon
<1>5. QED BY <1>1, <1>3, <1>4, Zenon DEF Rolls

\* A program without rotations rotates by nothing.
LEMMA RollsStay ==
  ASSUME NEW s, NEW t, s.rolls \in Seq(Int), t.rolls = s.rolls, NEW K
  PROVE  Rolls(s, t, 0, K)
<1>1. Len(s.rolls) \in Nat
  OBVIOUS
<1>2. QED BY <1>1 DEF Rolls

\* Two programs in a row keep what both keep.
LEMMA KeepsOn ==
  ASSUME NEW s, NEW t, NEW u, NEW R, NEW Q, Keeps(s, t, R), Keeps(t, u, Q)
  PROVE  Keeps(s, u, R \cup Q)
  BY DEF Keeps

\* A program that changes few registers changes at most more.
LEMMA KeepsMore ==
  ASSUME NEW s, NEW t, NEW R, NEW Q, R \subseteq Q, Keeps(s, t, R)
  PROVE  Keeps(s, t, Q)
  BY DEF Keeps

\* The rotations may be counted among more offsets.
LEMMA RollsMore ==
  ASSUME NEW s, NEW t, NEW k, NEW K, NEW L, K \subseteq L, Rolls(s, t, k, K)
  PROVE  Rolls(s, t, k, L)
  BY DEF Rolls

\* A register that is kept holds what it held.
LEMMA KeepsStored ==
  ASSUME NEW s, NEW t, NEW R, Keeps(s, t, R), NEW r, r \notin R, NEW v, NEW l, Stores(s, r, v, l)
  PROVE  Stores(t, r, v, l)
  BY DEF Keeps, Stores

\* EncryptInput: a fresh input at level 0, nothing rotated or multiplied.
LEMMA RunEncrypt ==
  ASSUME NEW s, NEW t, NEW batch, NEW to, NEW k, NEW size,
         Runs(<<Encrypt(to, k, size)>>, s, t, batch)
  PROVE  /\ Stores(t, to, Encrypted(k, size, batch), 0) /\ Keeps(s, t, {to})
         /\ t.rolls = s.rolls /\ t.mults = s.mults
<1>1. t = Executed(Encrypt(to, k, size), s, batch)
  BY RunsOne
<1>2. t = State(Put(s.regs, to, Reg(Encrypted(k, size, batch), 0)), s.rolls, s.mults)
  BY <1>1 DEF Executed, Encrypt
<1>3. QED BY <1>2 DEF State, Put, Stores, Keeps

\* CopyRegister: the same slots at the same level.
LEMMA RunCopy ==
  ASSUME NEW s, NEW t, NEW batch, NEW to, NEW from, NEW v, NEW l, Stores(s, from, v, l),
         Runs(<<Copy(to, from)>>, s, t, batch)
  PROVE  /\ Stores(t, to, v, l) /\ Keeps(s, t, {to})
         /\ t.rolls = s.rolls /\ t.mults = s.mults
<1>1. t = Executed(Copy(to, from), s, batch)
  BY RunsOne
<1>2. t = State(Put(s.regs, to, Reg(v, l)), s.rolls, s.mults)
  BY <1>1 DEF Executed, Copy, Stores
<1>3. QED BY <1>2 DEF State, Put, Stores, Keeps

\* RollRegister: one rotation, of the same level, and none by nothing.
LEMMA RunRoll ==
  ASSUME NEW s, NEW t, NEW batch, NEW to, NEW from, NEW by \in Int, NEW v, NEW l,
         Stores(s, from, v, l), s.rolls \in Seq(Int),
         Runs(<<Roll(to, from, by)>>, s, t, batch)
  PROVE  /\ Stores(t, to, Rotate(v, by), l) /\ Keeps(s, t, {to})
         /\ Rolls(s, t, IF by = 0 THEN 0 ELSE 1, {by} \ {0}) /\ t.mults = s.mults
<1>1. t = Executed(Roll(to, from, by), s, batch)
  BY RunsOne
<1>2. t = State(Put(s.regs, to, Reg(Rotate(v, by), l)),
                IF by = 0 THEN s.rolls ELSE Append(s.rolls, by), s.mults)
  BY <1>1 DEF Executed, Roll, Stores, Reg
<1>3. /\ Stores(t, to, Rotate(v, by), l) /\ Keeps(s, t, {to}) /\ t.mults = s.mults
      /\ t.rolls = IF by = 0 THEN s.rolls ELSE Append(s.rolls, by)
  BY <1>2 DEF State, Put, Stores, Keeps
<1>4. Rolls(s, t, IF by = 0 THEN 0 ELSE 1, {by} \ {0})
  <2>1. CASE by = 0
    BY <1>3, <2>1, RollsStay
  <2>2. CASE by # 0
    <3> DEFINE r == s.rolls   q == t.rolls
    <3>1. q = Append(r, by) /\ r \in Seq(Int)
      BY <1>3, <2>2
    <3> HIDE DEF r, q
    <3>2. q \in Seq(Int) /\ Len(q) = Len(r) + 1 /\ Len(r) \in Nat
      BY <3>1
    <3>3. ToSet(q) \subseteq ToSet(r) \cup {by}
      <4>1. ASSUME NEW i \in 1 .. Len(r) + 1
            PROVE  q[i] \in ToSet(r) \cup {by}
        <5>1. CASE i = Len(r) + 1
          BY <3>1, <5>1
        <5>2. CASE i # Len(r) + 1
          <6>1. i \in 1 .. Len(r) /\ q[i] = r[i] /\ DOMAIN r = 1 .. Len(r)
            BY <3>1, <3>2, <5>2
          <6>2. QED BY <6>1 DEF ToSet
        <5>3. QED BY <5>1, <5>2
      <4>2. DOMAIN q = 1 .. Len(r) + 1
        BY <3>1, <3>2
      <4>3. QED BY <4>1, <4>2 DEF ToSet
    <3>4. QED BY <2>2, <3>1, <3>2, <3>3 DEF Rolls, r, q
  <2>3. QED BY <2>1, <2>2
<1>5. QED BY <1>3, <1>4

\* The maximum that AddRegisters takes of two equal levels.
LEMMA MaxSame ==
  ASSUME NEW l \in Nat
  PROVE  Max({l, l}) = l
<1> DEFINE S == {l, l}   x == CHOOSE i \in S : \A y \in S : i >= y
<1>1. l \in S /\ \A y \in S : l >= y
  OBVIOUS
<1>2. x \in S
  BY <1>1
<1>3. Max(S) = x
  BY DEF Max
<1>4. QED BY <1>2, <1>3

\* AddRegisters of two registers of one level.
LEMMA RunAdd ==
  ASSUME NEW s, NEW t, NEW batch, NEW to, NEW a, NEW b, NEW v, NEW w, NEW l \in Nat,
         Stores(s, a, v, l), Stores(s, b, w, l),
         Runs(<<Add(to, a, b)>>, s, t, batch)
  PROVE  /\ Stores(t, to, Plus(v, w), l) /\ Keeps(s, t, {to})
         /\ t.rolls = s.rolls /\ t.mults = s.mults
<1>1. t = Executed(Add(to, a, b), s, batch)
  BY RunsOne
<1>2. s.regs[a].slots = v /\ s.regs[b].slots = w /\ s.regs[a].level = l /\ s.regs[b].level = l
  BY DEF Stores, Reg
<1>3. t = State(Put(s.regs, to, Reg(Plus(v, w), Max({l, l}))), s.rolls, s.mults)
  BY <1>1, <1>2 DEF Executed, Add
<1>4. Max({l, l}) = l
  BY MaxSame
<1>5. QED BY <1>3, <1>4 DEF State, Put, Stores, Keeps

\* MultiplyMask: one level, one product.
LEMMA RunMult ==
  ASSUME NEW s, NEW t, NEW batch, NEW to, NEW from, NEW mask, NEW v, NEW l,
         Stores(s, from, v, l), Runs(<<Mult(to, from, mask)>>, s, t, batch)
  PROVE  /\ Stores(t, to, Times(v, mask), l + 1) /\ Keeps(s, t, {to})
         /\ t.rolls = s.rolls /\ t.mults = s.mults + 1
<1>1. t = Executed(Mult(to, from, mask), s, batch)
  BY RunsOne
<1>2. t = State(Put(s.regs, to, Reg(Times(v, mask), l + 1)), s.rolls, s.mults + 1)
  BY <1>1 DEF Executed, Mult, Stores, Reg
<1>3. QED BY <1>2 DEF State, Put, Stores, Keeps

-----------------------------------------------------------------------------
(* The doubling schedule.                                                  *)
Entries == [offset : Nat \ {0}, accumulated : BOOLEAN]

(* The schedule of c after that of its half.                               *)
Doubled(c, before) ==
  before
  \o <<[offset |-> c \div 2, accumulated |-> TRUE]>>
  \o (IF c % 2 = 1 THEN <<[offset |-> c - 1, accumulated |-> FALSE]>> ELSE <<>>)
Schedules(g, n) == \A c \in 1 .. n : g[c] = IF c = 1 THEN <<>> ELSE Doubled(c, g[c \div 2])

\* The number a logarithmic schedule halves.
LEMMA Half ==
  ASSUME NEW c \in Nat \ {0}, c # 1
  PROVE  /\ c \div 2 \in 1 .. c - 1 /\ c % 2 \in {0, 1}
         /\ c = (c \div 2) + (c \div 2) + (c % 2)
  OBVIOUS

(* There are schedules up to any number,                                   *)
LEMMA SchedulesExist ==
  ASSUME NEW N \in Nat
  PROVE  \E g : Schedules(g, N)
<1> DEFINE S == {n \in 0 .. N : \E g : Schedules(g, n)}
<1>1. 0 \in S
  <2>1. Schedules(<<>>, 0)
    BY DEF Schedules
  <2>2. QED BY <2>1
<1>2. ASSUME NEW n \in 0 .. N - 1, n \in S
      PROVE  n + 1 \in S
  <2>1. PICK g : Schedules(g, n)
    BY <1>2
  <2> DEFINE new == IF n + 1 = 1 THEN <<>> ELSE Doubled(n + 1, g[(n + 1) \div 2])
             h == [c \in 1 .. n + 1 |-> IF c = n + 1 THEN new ELSE g[c]]
  <2>2. ASSUME NEW c \in 1 .. n + 1
        PROVE  h[c] = IF c = 1 THEN <<>> ELSE Doubled(c, h[c \div 2])
    <3>1. CASE c = 1
      BY <2>1, <3>1 DEF Schedules
    <3>2. CASE c # 1
      <4>1. c \div 2 \in 1 .. c - 1
        BY <3>2, Half
      <4>2. h[c \div 2] = g[c \div 2]
        BY <4>1
      <4>3. c # n + 1 => g[c] = Doubled(c, g[c \div 2])
        BY <2>1, <3>2 DEF Schedules
      <4>4. h[c] = Doubled(c, g[c \div 2])
        BY <3>2, <4>3
      <4>5. QED BY <3>2, <4>2, <4>4
    <3>3. QED BY <3>1, <3>2
  <2> HIDE DEF h
  <2>3. Schedules(h, n + 1)
    BY <2>2 DEF Schedules
  <2>4. QED BY <2>3
<1> HIDE DEF S
<1>3. N \in S
  BY <1>1, <1>2, Climb
<1>4. QED BY <1>3 DEF S

(* and any two agree.                                                      *)
LEMMA SchedulesAgree ==
  ASSUME NEW n \in Nat, NEW g, Schedules(g, n), NEW k \in Nat, NEW h, Schedules(h, k),
         NEW c \in 1 .. n, c \in 1 .. k
  PROVE  g[c] = h[c]
<1> DEFINE B == {b \in 1 .. n : b \in 1 .. k /\ g[b] # h[b]}
<1>1. SUFFICES ASSUME B # {} PROVE FALSE
  OBVIOUS
<1>2. PICK b \in B : \A i \in B : b <= i
  BY <1>1, B \subseteq Nat, LeastNat
<1>3. b \in Nat \ {0} /\ b \in 1 .. n /\ b \in 1 .. k /\ g[b] # h[b]
  BY <1>2
<1>4. b # 1
  BY <1>3 DEF Schedules
<1>5. b \div 2 \in 1 .. b - 1
  BY <1>3, <1>4, Half
<1>6. b \div 2 \in 1 .. n /\ b \div 2 \in 1 .. k /\ b \div 2 \notin B
  BY <1>2, <1>3, <1>5
<1>7. g[b \div 2] = h[b \div 2]
  BY <1>6
<1>8. g[b] = Doubled(b, g[b \div 2]) /\ h[b] = Doubled(b, h[b \div 2])
  BY <1>3, <1>4 DEF Schedules
<1>9. QED BY <1>3, <1>7, <1>8

(* So that doubling is what its definition says.                           *)
LEMMA DoublingMeaning ==
  ASSUME NEW c \in Nat \ {0}
  PROVE  doubling[c] = IF c = 1 THEN <<>> ELSE Doubled(c, doubling[c \div 2])
<1> DEFINE P == Nat \ {0}
           F(g) == [b \in P |-> IF b = 1 THEN <<>> ELSE Doubled(b, g[b \div 2])]
           to(b) == CHOOSE g : Schedules(g, b)
           f == [b \in P |-> to(b)[b]]
<1>1. \A b \in P : Schedules(to(b), b)
  BY SchedulesExist
<1> HIDE DEF to
<1>2. ASSUME NEW b \in P
      PROVE  f[b] = IF b = 1 THEN <<>> ELSE Doubled(b, f[b \div 2])
  <2>1. to(b)[b] = IF b = 1 THEN <<>> ELSE Doubled(b, to(b)[b \div 2])
    BY <1>1 DEF Schedules
  <2>2. CASE b # 1
    <3> DEFINE a == b \div 2
    <3>1. a \in 1 .. b - 1 /\ a \in P /\ a \in 1 .. b /\ a \in 1 .. a
      BY <2>2, Half
    <3> HIDE DEF a
    <3>2. to(b)[a] = to(a)[a]
      BY <1>1, <3>1, SchedulesAgree
    <3>3. f[a] = to(b)[a]
      BY <3>1, <3>2
    <3>4. QED BY <2>1, <2>2, <3>3 DEF a
  <2>3. QED BY <2>1, <2>2
<1>3. f = F(f)
  BY <1>2
<1>4. doubling = CHOOSE g : g = F(g)
  BY DEF doubling, Doubled
<1>5. doubling = F(doubling)
  BY <1>3, <1>4
<1>6. QED BY <1>5

\* The schedule for c is the one for its half, a doubling and, if c is odd,
\* one more shift.
LEMMA DoubledFacts ==
  ASSUME NEW c \in Nat \ {0}, c # 1, NEW before \in Seq(Entries)
  PROVE  LET n == Len(before)
             d == Doubled(c, before)
         IN  /\ d \in Seq(Entries) /\ n \in Nat
             /\ Len(d) = n + 1 + (c % 2)
             /\ \A k \in 1 .. n : d[k] = before[k]
             /\ d[n + 1] = [offset |-> c \div 2, accumulated |-> TRUE]
             /\ c % 2 = 1 => d[n + 2] = [offset |-> c - 1, accumulated |-> FALSE]
<1> DEFINE n == Len(before)   d == Doubled(c, before)
           x == [offset |-> c \div 2, accumulated |-> TRUE]
           y == [offset |-> c - 1, accumulated |-> FALSE]
<1>1. /\ c \div 2 \in Nat \ {0} /\ c - 1 \in Nat \ {0} /\ c % 2 \in {0, 1}
  BY Half
<1>2. x \in Entries /\ y \in Entries
  BY <1>1 DEF Entries
<1> HIDE DEF x, y
<1>3. CASE c % 2 = 1
  <2>1. d = before \o <<x>> \o <<y>>
    BY <1>3 DEF Doubled, x, y
  <2> HIDE DEF d
  <2>2. /\ d \in Seq(Entries) /\ n \in Nat /\ Len(d) = n + 1 + 1
        /\ \A k \in 1 .. n : d[k] = before[k]
        /\ d[n + 1] = x /\ d[n + 2] = y
    BY <1>2, <2>1
  <2>3. QED BY <1>3, <2>2 DEF d, x, y
<1>4. CASE c % 2 # 1
  <2>0. c % 2 = 0
    BY <1>1, <1>4
  <2>1. d = before \o <<x>> \o <<>>
    BY <1>4 DEF Doubled, x
  <2> HIDE DEF d
  <2>2. /\ d \in Seq(Entries) /\ n \in Nat /\ Len(d) = n + 1 + 0
        /\ \A k \in 1 .. n : d[k] = before[k]
        /\ d[n + 1] = x
    BY <1>2, <2>1
  <2>3. QED BY <2>0, <2>2 DEF d, x
<1>5. QED BY <1>3, <1>4

\* The schedules are sequences of offsets.
LEMMA DoublingType ==
  ASSUME NEW c \in Nat \ {0}
  PROVE  doubling[c] \in Seq(Entries)
<1> DEFINE B == {b \in Nat \ {0} : doubling[b] \notin Seq(Entries)}
<1>1. SUFFICES ASSUME B # {} PROVE FALSE
  OBVIOUS
<1>2. PICK b \in B : \A i \in B : b <= i
  BY <1>1, B \subseteq Nat, LeastNat
<1>3. b \in Nat \ {0} /\ doubling[b] \notin Seq(Entries)
  BY <1>2
<1>4. b # 1
  <2>1. doubling[1] = <<>>
    BY DoublingMeaning
  <2>2. <<>> \in Seq(Entries)
    OBVIOUS
  <2>3. ASSUME b = 1 PROVE FALSE
    BY <1>3, <2>1, <2>2, <2>3
  <2>4. QED BY <2>3
<1>5. b \div 2 \in 1 .. b - 1 /\ b \div 2 \in Nat \ {0}
  BY <1>3, <1>4, Half
<1>6. doubling[b \div 2] \in Seq(Entries)
  BY <1>2, <1>3, <1>5
<1>7. doubling[b] = Doubled(b, doubling[b \div 2])
  BY <1>3, <1>4, DoublingMeaning
<1>8. QED BY <1>3, <1>4, <1>6, <1>7, DoubledFacts

-----------------------------------------------------------------------------
(* Formal sums of different terms.                                         *)
LEMMA SumsJoin ==
  ASSUME NEW A, NEW B, A \cap B = {}
  PROVE  SumOf(A) (+) SumOf(B) = SumOf(A \cup B)
<1>1. \A t \in A \cup B : (IF t \in A THEN 1 ELSE 0) + (IF t \in B THEN 1 ELSE 0) = 1
  OBVIOUS
<1>2. QED BY <1>1 DEF SumOf, SetToBag, \oplus

\* An empty sum is the zero of a slot.
LEMMA NothingSums == SumOf({}) = EmptyBag
  BY DEF SumOf, EmptyBag

(* Slots hold formal sums.                                                 *)
LEMMA SlotFacts ==
  ASSUME NEW batch \in Nat \ {0}
  PROVE  /\ Cardinality(Slots(batch)) = batch
         /\ \A p \in Int : p % batch \in Slots(batch)
         /\ \A p \in Slots(batch) : p % batch = p
  <1>1. Cardinality(0 .. batch - 1) = batch
    BY FS_Interval
  <1>2. QED BY <1>1 DEF Slots

\* A rotation by k reads k slots further, around the end of the batch.
LEMMA RotateAt ==
  ASSUME NEW batch \in Nat \ {0}, NEW v, DOMAIN v = Slots(batch), NEW k \in Int
  PROVE  /\ DOMAIN Rotate(v, k) = Slots(batch)
         /\ \A p \in Int : Rotate(v, k)[p % batch] = v[(p + k) % batch]
<1>1. DOMAIN Rotate(v, k) = Slots(batch)
  BY DEF Rotate
<1>2. ASSUME NEW p \in Int
      PROVE  Rotate(v, k)[p % batch] = v[(p + k) % batch]
  <2> DEFINE q == p \div batch   r == p % batch
  <2>1. q \in Int /\ r \in 0 .. batch - 1 /\ p = batch * q + r
    BY Division
  <2>2. Rotate(v, k)[r] = v[(r + k) % batch]
    BY <2>1, SlotFacts DEF Rotate, Slots
  <2> HIDE DEF q, r
  <2>3. p + k = batch * q + (r + k) /\ r + k \in Int
    BY <2>1
  <2>4. (batch * q + (r + k)) % batch = (r + k) % batch
    BY <2>1, <2>3, Remainder
  <2>5. QED BY <2>2, <2>3, <2>4 DEF r
<1>3. QED BY <1>1, <1>2

\* The sum of two slots without a common term has the terms of both.
LEMMA PlusAt ==
  ASSUME NEW S, NEW v, DOMAIN v = S, NEW w, NEW A, NEW B, A \cap B = {},
         NEW p \in S, v[p] = SumOf(A), w[p] = SumOf(B)
  PROVE  Plus(v, w)[p] = SumOf(A \cup B)
<1>1. Plus(v, w)[p] = v[p] (+) w[p]
  BY DEF Plus
<1>2. SumOf(A) (+) SumOf(B) = SumOf(A \cup B)
  BY SumsJoin
<1>3. QED BY <1>1, <1>2

-----------------------------------------------------------------------------
(* Sums of shifts.  The terms of count shifts, if no two have one in       *)
(* common, are those x has collected from v.                               *)
Disjoint(U, count) ==
  \A i, j \in 0 .. count - 1 : i # j => U[i] \cap U[j] = {}
Among(U, count) == UNION {U[j] : j \in 0 .. count - 1}
Collected(v, x, count, stride, batch) ==
  /\ DOMAIN x = Slots(batch)
  /\ \A p \in Int : \A U :
       /\ Disjoint(U, count)
       /\ \A j \in 0 .. count - 1 : v[(p + j * stride) % batch] = SumOf(U[j])
       => x[p % batch] = SumOf(Among(U, count))

\* A vector is the sum of its shift by nothing.
LEMMA OneShift ==
  ASSUME NEW batch \in Nat \ {0}, NEW v, DOMAIN v = Slots(batch), NEW stride \in Int
  PROVE  Collected(v, v, 1, stride, batch)
<1>1. 0 .. 1 - 1 = {0}
  OBVIOUS
<1>2. ASSUME NEW p \in Int, NEW U, v[(p + 0 * stride) % batch] = SumOf(U[0])
      PROVE  v[p % batch] = SumOf(Among(U, 1))
  <2>1. p + 0 * stride = p
    OBVIOUS
  <2>2. Among(U, 1) = U[0]
    BY <1>1 DEF Among
  <2>3. QED BY <1>2, <2>1, <2>2
<1>3. QED BY <1>1, <1>2 DEF Collected

\* Adding the sum of b shifts, shifted by a strides, to the sum of a shifts.
LEMMA MoreShifts ==
  ASSUME NEW batch \in Nat \ {0}, NEW v, NEW x, NEW y, NEW a \in Nat \ {0}, NEW b \in Nat \ {0},
         NEW stride \in Int, Collected(v, x, a, stride, batch), Collected(v, y, b, stride, batch)
  PROVE  Collected(v, Plus(x, Rotate(y, a * stride)), a + b, stride, batch)
<1> DEFINE z == Rotate(y, a * stride)
<1>0. a * stride \in Int /\ DOMAIN x = Slots(batch) /\ DOMAIN y = Slots(batch)
  BY DEF Collected
<1>1. DOMAIN Plus(x, z) = Slots(batch)
  BY <1>0 DEF Plus
<1>2. ASSUME NEW p \in Int, NEW U, Disjoint(U, a + b),
             \A j \in 0 .. (a + b) - 1 : v[(p + j * stride) % batch] = SumOf(U[j])
      PROVE  Plus(x, z)[p % batch] = SumOf(Among(U, a + b))
  <2> DEFINE W == [j \in 0 .. b - 1 |-> U[a + j]]
             A == Among(U, a)   B == Among(W, b)
             q == p + a * stride
  <2>1. \A j \in 0 .. a - 1 : j \in 0 .. (a + b) - 1
    OBVIOUS
  <2>2. \A j \in 0 .. b - 1 : a + j \in 0 .. (a + b) - 1
    OBVIOUS
  <2>3. x[p % batch] = SumOf(A)
    <3>1. Disjoint(U, a)
      BY <1>2, <2>1 DEF Disjoint
    <3>2. \A j \in 0 .. a - 1 : v[(p + j * stride) % batch] = SumOf(U[j])
      BY <1>2, <2>1
    <3>3. QED BY <3>1, <3>2 DEF Collected
  <2>4. z[p % batch] = SumOf(B)
    <3>1. Disjoint(W, b)
      <4>1. ASSUME NEW i \in 0 .. b - 1, NEW j \in 0 .. b - 1, i # j
            PROVE  W[i] \cap W[j] = {}
        <5>1. a + i # a + j
          BY <4>1
        <5>2. U[a + i] \cap U[a + j] = {}
          BY <1>2, <2>2, <5>1 DEF Disjoint
        <5>3. QED BY <5>2
      <4> HIDE DEF W
      <4>2. QED BY <4>1 DEF Disjoint
    <3>2. ASSUME NEW j \in 0 .. b - 1
          PROVE  v[(q + j * stride) % batch] = SumOf(W[j])
      <4>1. q + j * stride = p + (a + j) * stride
        OBVIOUS
      <4>2. v[(p + (a + j) * stride) % batch] = SumOf(U[a + j])
        BY <1>2, <2>2
      <4>3. QED BY <4>1, <4>2
    <3>3. q \in Int
      BY <1>0
    <3> HIDE DEF q, W
    <3>4. y[q % batch] = SumOf(B)
      BY <3>1, <3>2, <3>3 DEF Collected
    <3>5. z[p % batch] = y[(p + a * stride) % batch]
      BY <1>0, RotateAt
    <3>6. QED BY <3>4, <3>5 DEF q
  <2>5. A \cap B = {}
    <3>1. ASSUME NEW i \in 0 .. a - 1, NEW j \in 0 .. b - 1
          PROVE  U[i] \cap W[j] = {}
      <4>1. i # a + j
        OBVIOUS
      <4>2. QED BY <1>2, <2>1, <2>2, <4>1 DEF Disjoint
    <3> HIDE DEF W
    <3>2. ASSUME NEW e \in A, e \in B
          PROVE  FALSE
      <4>1. PICK i \in 0 .. a - 1 : e \in U[i]
        BY DEF Among
      <4>2. PICK j \in 0 .. b - 1 : e \in W[j]
        BY <3>2 DEF Among
      <4>3. QED BY <3>1, <4>1, <4>2
    <3>3. QED BY <3>2
  <2>6. Among(U, a + b) = A \cup B
    <3>1. ASSUME NEW j \in 0 .. (a + b) - 1
          PROVE  U[j] \subseteq A \cup B
      <4>1. CASE j < a
        BY <4>1 DEF Among
      <4>2. CASE ~ (j < a)
        <5>1. j - a \in 0 .. b - 1 /\ a + (j - a) = j
          BY <4>2
        <5>2. W[j - a] = U[j]
          BY <5>1
        <5> HIDE DEF W
        <5>3. QED BY <5>1, <5>2 DEF Among
      <4>3. QED BY <4>1, <4>2
    <3>2. A \subseteq Among(U, a + b)
      BY <2>1 DEF Among
    <3>3. B \subseteq Among(U, a + b)
      BY <2>2 DEF Among
    <3> HIDE DEF A, B
    <3>4. Among(U, a + b) \subseteq A \cup B
      BY <3>1 DEF Among
    <3>5. QED BY <3>2, <3>3, <3>4
  <2>7. p % batch \in Slots(batch)
    BY SlotFacts
  <2> HIDE DEF A, B, z
  <2>8. Plus(x, z)[p % batch] = SumOf(A \cup B)
    BY <1>0, <2>3, <2>4, <2>5, <2>7, PlusAt
  <2>9. QED BY <2>6, <2>8
<1> HIDE DEF z
<1>3. QED BY <1>1, <1>2 DEF Collected, z

\* Both schedules of rotation_sum are sequences of offsets.
LEMMA ScheduleType ==
  ASSUME NEW count \in Nat \ {0}, NEW logarithmic \in BOOLEAN
  PROVE  rotation_sum_schedule(count, logarithmic) \in Seq(Entries)
<1>1. CASE logarithmic
  BY <1>1, DoublingType DEF rotation_sum_schedule
<1>2. CASE ~ logarithmic
  <2> DEFINE n == count - 1   d == [k \in 1 .. n |-> [offset |-> k, accumulated |-> FALSE]]
  <2>1. n \in Nat
    OBVIOUS
  <2> HIDE DEF n
  <2>2. d \in [1 .. n -> Entries]
    BY <2>1 DEF Entries
  <2> HIDE DEF d
  <2>3. d \in Seq(Entries)
    BY <2>1, <2>2
  <2>4. QED BY <1>2, <2>3 DEF rotation_sum_schedule, d, n
<1>3. QED BY <1>1, <1>2

(* Both schedules collect every shift once.                                *)
LEMMA ScheduleCollects ==
  ASSUME NEW batch \in Nat \ {0}, NEW count \in Nat \ {0}, NEW logarithmic \in BOOLEAN,
         NEW stride \in Int, NEW v, DOMAIN v = Slots(batch), NEW X,
         X[0] = v,
         \A k \in 1 .. Len(rotation_sum_schedule(count, logarithmic)) :
           LET e == rotation_sum_schedule(count, logarithmic)[k]
           IN  X[k] = Plus(X[k - 1], Rotate(IF e.accumulated THEN X[k - 1] ELSE v, e.offset * stride))
  PROVE  Collected(v, X[Len(rotation_sum_schedule(count, logarithmic))], count, stride, batch)
<1> DEFINE D == rotation_sum_schedule(count, logarithmic)   N == Len(D)
<1>1. D \in Seq(Entries) /\ N \in Nat
  BY ScheduleType
<1>2. \A k \in 1 .. N :
        X[k] = Plus(X[k - 1], Rotate(IF D[k].accumulated THEN X[k - 1] ELSE v, D[k].offset * stride))
  OBVIOUS
<1>3. Collected(v, v, 1, stride, batch)
  BY OneShift
<1> HIDE DEF N
<1>4. CASE ~ logarithmic
  <2>1. N = count - 1 /\ \A k \in 1 .. N : D[k] = [offset |-> k, accumulated |-> FALSE]
    <3>1. D = [k \in 1 .. count - 1 |-> [offset |-> k, accumulated |-> FALSE]]
      BY <1>4 DEF rotation_sum_schedule
    <3> HIDE DEF D
    <3>2. QED BY <1>1, <3>1 DEF N
  <2> HIDE DEF D
  <2> DEFINE S == {k \in 0 .. N : Collected(v, X[k], k + 1, stride, batch)}
  <2>2. 0 \in S
    BY <1>1, <1>3
  <2>3. ASSUME NEW k \in 0 .. N - 1, k \in S
        PROVE  k + 1 \in S
    <3>1. k + 1 \in 1 .. N /\ (k + 1) - 1 = k /\ k + 1 \in Nat \ {0} /\ k + 1 \in 0 .. N
      BY <1>1
    <3>2. X[k + 1] = Plus(X[k], Rotate(v, (k + 1) * stride))
      <4> DEFINE e == D[k + 1]
      <4>1. e = [offset |-> k + 1, accumulated |-> FALSE]
        BY <2>1, <3>1
      <4>2. X[k + 1] = Plus(X[(k + 1) - 1],
                            Rotate(IF e.accumulated THEN X[(k + 1) - 1] ELSE v, e.offset * stride))
        BY <1>2, <3>1
      <4> HIDE DEF e
      <4>3. e.accumulated = FALSE /\ e.offset = k + 1
        BY <4>1
      <4>4. QED BY <3>1, <4>2, <4>3
    <3>3. Collected(v, X[k], k + 1, stride, batch)
      BY <2>3
    <3> HIDE DEF S
    <3>4. Collected(v, Plus(X[k], Rotate(v, (k + 1) * stride)), (k + 1) + 1, stride, batch)
      <4>1. 1 \in Nat \ {0} /\ k + 1 \in Nat \ {0}
        BY <3>1
      <4> DEFINE a == k + 1
      <4> HIDE DEF a
      <4>2. Collected(v, Plus(X[k], Rotate(v, a * stride)), a + 1, stride, batch)
        BY <1>3, <3>3, <4>1, MoreShifts DEF a
      <4>3. QED BY <4>2 DEF a
    <3>5. QED BY <3>1, <3>2, <3>4 DEF S
  <2> HIDE DEF S
  <2>4. N \in S
    <3>1. \A k \in 0 .. N : k \in S
      BY <1>1, <2>2, <2>3, Climb
    <3>2. N \in 0 .. N
      BY <1>1
    <3>3. QED BY <3>1, <3>2
  <2>5. N + 1 = count
    BY <2>1
  <2>6. Collected(v, X[N], N + 1, stride, batch)
    BY <2>4 DEF S
  <2>7. QED BY <2>5, <2>6 DEF N, D
<1>5. CASE logarithmic
  <2>1. D = doubling[count]
    BY <1>5 DEF rotation_sum_schedule
  <2> HIDE DEF D
  <2> DEFINE Starts(c) == /\ Len(doubling[c]) <= N
                          /\ \A k \in 1 .. Len(doubling[c]) : doubling[c][k] = D[k]
             B == {c \in Nat \ {0} : /\ Starts(c)
                                     /\ ~ Collected(v, X[Len(doubling[c])], c, stride, batch)}
  <2>2. ASSUME B # {} PROVE FALSE
    <3>1. PICK c \in B : \A i \in B : c <= i
      BY <2>2, B \subseteq Nat, LeastNat
    <3>2. /\ c \in Nat \ {0} /\ Starts(c)
          /\ ~ Collected(v, X[Len(doubling[c])], c, stride, batch)
      BY <3>1
    <3>3. c # 1
      <4>1. doubling[1] = <<>> /\ Len(<<>>) = 0
        BY DoublingMeaning
      <4>2. QED BY <1>3, <3>2, <4>1
    <3> DEFINE b == c \div 2   d == doubling[c]   h == doubling[b]   n == Len(h)
    <3>4. b \in 1 .. c - 1 /\ b \in Nat \ {0} /\ c % 2 \in {0, 1} /\ c = b + b + (c % 2)
      <4> HIDE DEF B, Starts
      <4>1. c \in Nat \ {0, 1}
        BY <3>2, <3>3
      <4>2. QED BY <4>1, Half
    <3>5. d = Doubled(c, h)
      BY <3>2, <3>3, DoublingMeaning
    <3>6. h \in Seq(Entries)
      BY <3>4, DoublingType
    <3>7. /\ n \in Nat /\ Len(d) = n + 1 + (c % 2)
          /\ \A k \in 1 .. n : d[k] = h[k]
          /\ d[n + 1] = [offset |-> b, accumulated |-> TRUE]
          /\ c % 2 = 1 => d[n + 2] = [offset |-> c - 1, accumulated |-> FALSE]
      <4> HIDE DEF d, h
      <4> DEFINE e == Doubled(c, h)
      <4>1. /\ Len(h) \in Nat /\ Len(e) = Len(h) + 1 + (c % 2)
            /\ \A k \in 1 .. Len(h) : e[k] = h[k]
            /\ e[Len(h) + 1] = [offset |-> c \div 2, accumulated |-> TRUE]
            /\ c % 2 = 1 => e[Len(h) + 2] = [offset |-> c - 1, accumulated |-> FALSE]
        BY <3>2, <3>3, <3>6, DoubledFacts
      <4> HIDE DEF e
      <4>2. d = e
        BY <3>5 DEF e
      <4>3. QED BY <4>1, <4>2
    <3>8. Len(d) <= N /\ \A k \in 1 .. Len(d) : d[k] = D[k]
      BY <3>2
    <3> HIDE DEF n, d
    <3>9. Starts(b)
      <4>1. n <= N /\ \A k \in 1 .. n : k \in 1 .. Len(d)
        BY <1>1, <3>4, <3>7, <3>8
      <4>2. \A k \in 1 .. n : h[k] = D[k]
        BY <3>7, <3>8, <4>1
      <4>3. QED BY <4>1, <4>2 DEF n
    <3>10. b \notin B
      <4> HIDE DEF B, Starts, b
      <4>1. SUFFICES ASSUME b \in B PROVE FALSE
        OBVIOUS
      <4>2. c <= b
        BY <3>1, <4>1
      <4>3. QED BY <3>2, <3>4, <4>2
    <3>11. Collected(v, X[n], b, stride, batch)
      BY <3>4, <3>9, <3>10 DEF n
    <3> HIDE DEF Starts, B, b, h
    <3>12. n + 1 \in 1 .. Len(d) /\ n + 1 \in 1 .. N /\ (n + 1) - 1 = n
      BY <1>1, <3>4, <3>7, <3>8
    <3>13. D[n + 1] = [offset |-> b, accumulated |-> TRUE]
      BY <3>7, <3>8, <3>12
    <3>14. X[n + 1] = Plus(X[n], Rotate(X[n], b * stride))
      <4> DEFINE e == D[n + 1]
      <4>1. X[n + 1] = Plus(X[(n + 1) - 1],
                            Rotate(IF e.accumulated THEN X[(n + 1) - 1] ELSE v, e.offset * stride))
        BY <1>2, <3>12
      <4>2. e.accumulated = TRUE /\ e.offset = b
        BY <3>13
      <4> HIDE DEF e
      <4>3. QED BY <3>12, <4>1, <4>2
    <3>15. Collected(v, X[n + 1], b + b, stride, batch)
      BY <3>4, <3>11, <3>14, MoreShifts
    <3>16. CASE c % 2 = 0
      <4>1. Len(d) = n + 1 /\ b + b = c
        BY <3>4, <3>7, <3>16
      <4>2. QED BY <3>2, <3>15, <4>1 DEF d
    <3>17. CASE c % 2 = 1
      <4>1. Len(d) = n + 2 /\ (b + b) + 1 = c /\ b + b = c - 1 /\ b + b \in Nat \ {0}
        <5>1. Len(d) = n + 2
          BY <3>7, <3>17
        <5>2. b \in Nat \ {0} /\ c = b + b + 1
          BY <3>4, <3>17
        <5>3. QED BY <5>1, <5>2
      <4>2. n + 2 \in 1 .. Len(d) /\ n + 2 \in 1 .. N /\ (n + 2) - 1 = n + 1
        BY <1>1, <3>7, <3>8, <4>1
      <4>3. D[n + 2] = [offset |-> b + b, accumulated |-> FALSE]
        BY <3>7, <3>8, <3>17, <4>1, <4>2
      <4>4. X[n + 2] = Plus(X[n + 1], Rotate(v, (b + b) * stride))
        <5> DEFINE e == D[n + 2]
        <5>1. X[n + 2] = Plus(X[(n + 2) - 1],
                              Rotate(IF e.accumulated THEN X[(n + 2) - 1] ELSE v, e.offset * stride))
          BY <1>2, <4>2
        <5>2. e.accumulated = FALSE /\ e.offset = b + b
          BY <4>3
        <5> HIDE DEF e
        <5>3. QED BY <4>2, <5>1, <5>2
      <4>5. Collected(v, X[n + 2], (b + b) + 1, stride, batch)
        <5> DEFINE a == b + b
        <5>1. a \in Nat \ {0} /\ 1 \in Nat \ {0}
          BY <4>1
        <5> HIDE DEF a
        <5>2. Collected(v, Plus(X[n + 1], Rotate(v, a * stride)), a + 1, stride, batch)
          BY <1>3, <3>15, <5>1, MoreShifts DEF a
        <5>3. QED BY <4>4, <5>2 DEF a
      <4>6. QED BY <3>2, <4>1, <4>5 DEF d
    <3>18. QED BY <3>4, <3>16, <3>17
  <2>3. Starts(count)
    BY <1>1, <2>1 DEF N
  <2>4. count \notin B
    BY <2>2
  <2>5. Collected(v, X[Len(doubling[count])], count, stride, batch)
    BY <2>3, <2>4
  <2>6. QED BY <2>1, <2>5 DEF D
<1>6. QED BY <1>4, <1>5

-----------------------------------------------------------------------------
(* The machine's part of a sum of shifts.                                  *)
LEMMA RunsTwo ==
  ASSUME NEW a, NEW b, NEW s, NEW t, NEW batch, Runs(<<a, b>>, s, t, batch)
  PROVE  \E u : Runs(<<a>>, s, u, batch) /\ Runs(<<b>>, u, t, batch)
<1> DEFINE S == {a, b}
<1>1. a \in S /\ b \in S
  OBVIOUS
<1> HIDE DEF S
<1>2. <<a>> \in Seq(S) /\ <<b>> \in Seq(S)
  BY <1>1
<1>3. <<a, b>> = <<a>> \o <<b>>
  <2> DEFINE c == <<a, b>>   d == <<a>> \o <<b>>
  <2>1. c \in Seq(S) /\ Len(c) = 2 /\ c[1] = a /\ c[2] = b
    BY <1>1
  <2>2. d \in Seq(S) /\ Len(d) = 2 /\ d[1] = a /\ d[2] = b
    BY <1>1, <1>2
  <2> HIDE DEF c, d
  <2>3. \A i \in 1 .. 2 : c[i] = d[i]
    BY <2>1, <2>2
  <2>4. c = d
    BY <2>1, <2>2, <2>3, SeqEqual
  <2>5. QED BY <2>4 DEF c, d
<1>4. Runs(<<a>> \o <<b>>, s, t, batch)
  BY <1>3
<1>5. QED BY <1>2, <1>4, RunsBoth

(* One shift.                                                              *)
Shift(from, by) == <<Roll(Term, from, by), Add(Work, Work, Term)>>

(* From s to t: y, rotated, was added to Work.                             *)
AddsRotation(s, t, x, y, by, l) ==
  /\ Stores(t, Work, Plus(x, Rotate(y, by)), l) /\ Keeps(s, t, {Work, Term})
  /\ Rolls(s, t, 1, {by}) /\ t.mults = s.mults

\* One step of rotation_sum: a rotation and an addition to Work.
LEMMA RunShift ==
  ASSUME NEW s, NEW t, NEW batch, NEW from \in {Work, Base}, NEW by \in Int \ {0},
         NEW x, NEW y, NEW l \in Nat, Stores(s, Work, x, l), Stores(s, from, y, l),
         s.rolls \in Seq(Int), Runs(Shift(from, by), s, t, batch)
  PROVE  AddsRotation(s, t, x, y, by, l)
<1>1. PICK u : /\ Runs(<<Roll(Term, from, by)>>, s, u, batch)
               /\ Runs(<<Add(Work, Work, Term)>>, u, t, batch)
  BY RunsTwo DEF Shift
<1>2. /\ Stores(u, Term, Rotate(y, by), l) /\ Keeps(s, u, {Term})
      /\ Rolls(s, u, IF by = 0 THEN 0 ELSE 1, {by} \ {0}) /\ u.mults = s.mults
  <2>1. by \in Int
    OBVIOUS
  <2>2. QED BY <1>1, <2>1, RunRoll
<1>3. Stores(u, Work, x, l)
  <2>1. Work \notin {Term}
    BY DEF Work, Term
  <2>2. QED BY <1>2, <2>1, KeepsStored
<1>4. /\ Stores(t, Work, Plus(x, Rotate(y, by)), l) /\ Keeps(u, t, {Work})
      /\ t.rolls = u.rolls /\ t.mults = u.mults
  BY <1>1, <1>2, <1>3, RunAdd
<1>5. Keeps(s, t, {Work, Term})
  BY <1>2, <1>4 DEF Keeps
<1>6. Rolls(s, t, 1, {by})
  <2>1. Rolls(s, u, 1, {by} \ {0}) /\ {by} \ {0} = {by}
    BY <1>2
  <2>2. Rolls(s, u, 1, {by})
    BY <2>1
  <2>3. QED BY <1>4, <2>2 DEF Rolls
<1>7. QED BY <1>2, <1>4, <1>5, <1>6 DEF AddsRotation

(* The operations of one step of a schedule.                               *)
ShiftOf(e, stride) == Shift(IF e.accumulated THEN Work ELSE Base, e.offset * stride)

\* The operations of the routines are instructions.
LEMMA InstructionTypes ==
  /\ \A to, k, size \in Nat : Encrypt(to, k, size) \in Instructions
  /\ \A to, from \in Nat : Copy(to, from) \in Instructions
  /\ \A to, from \in Nat : \A by \in Int : Roll(to, from, by) \in Instructions
  /\ \A to, a, b \in Nat : Add(to, a, b) \in Instructions
  /\ \A to, from \in Nat : \A mask \in Masks : Mult(to, from, mask) \in Instructions
  /\ Work \in Nat /\ Base \in Nat /\ Term \in Nat /\ Acc \in Nat /\ Inner \in Nat
<1>1. \A to, k, size \in Nat : Encrypt(to, k, size) \in Instructions
  BY DEF Instructions, Encrypt
<1>2. \A to, from \in Nat : Copy(to, from) \in Instructions
  BY DEF Instructions, Copy
<1>3. \A to, from \in Nat : \A by \in Int : Roll(to, from, by) \in Instructions
  BY DEF Instructions, Roll
<1>4. \A to, a, b \in Nat : Add(to, a, b) \in Instructions
  BY DEF Instructions, Add
<1>5. \A to, from \in Nat : \A mask \in Masks : Mult(to, from, mask) \in Instructions
  <2>1. \A to, from \in Nat : \A mask \in Masks :
          Mult(to, from, mask) \in [op : {"mult"}, to : Nat, from : Nat, mask : Masks]
    BY DEF Mult
  <2>2. QED BY <2>1 DEF Instructions
<1>6. QED BY <1>1, <1>2, <1>3, <1>4, <1>5 DEF Work, Base, Term, Acc, Inner

(* The program of a sum of shifts.                                         *)
LEMMA SumProgram ==
  ASSUME NEW count \in Nat \ {0}, NEW stride \in Int, NEW logarithmic \in BOOLEAN
  PROVE  LET D == rotation_sum_schedule(count, logarithmic)
             f == [k \in 1 .. Len(D) |-> ShiftOf(D[k], stride)]
         IN  /\ Len(D) \in Nat /\ f \in Seq(Seq(Instructions)) /\ Len(f) = Len(D)
             /\ \A k \in 1 .. Len(D) : D[k] \in Entries
             /\ rotation_sum(count, stride, logarithmic) = <<Copy(Base, Work)>> \o FlattenSeq(f)
<1> DEFINE D == rotation_sum_schedule(count, logarithmic)   N == Len(D)
           f == [k \in 1 .. N |-> ShiftOf(D[k], stride)]
           g == [k \in 1 .. N |-> ShiftOf(D[(k - 1) + 1], stride)]
<1>1. D \in Seq(Entries)
  BY ScheduleType
<1>2. rotation_sum(count, stride, logarithmic) = <<Copy(Base, Work)>> \o FlattenSeq(g)
  BY DEF rotation_sum, Each, ShiftOf, Shift
<1> HIDE DEF D
<1>3. N \in Nat /\ \A k \in 1 .. N : D[k] \in Entries
  BY <1>1
<1> HIDE DEF N
<1>4. f = g
  <2>1. \A k \in 1 .. N : (k - 1) + 1 = k
    BY <1>3
  <2>2. \A k \in 1 .. N : f[k] = g[k]
    BY <2>1
  <2>3. QED BY <2>2
<1>5. ASSUME NEW k \in 1 .. N
      PROVE  f[k] \in Seq(Instructions)
  <2>1. D[k].offset * stride \in Int /\ D[k].accumulated \in BOOLEAN
    BY <1>3 DEF Entries
  <2> DEFINE a == Roll(Term, IF D[k].accumulated THEN Work ELSE Base, D[k].offset * stride)
             b == Add(Work, Work, Term)
  <2>2. a \in Instructions /\ b \in Instructions
    BY <2>1, InstructionTypes
  <2> HIDE DEF a, b
  <2>3. <<a, b>> \in Seq(Instructions)
    BY <2>2
  <2>4. f[k] = <<a, b>>
    BY DEF ShiftOf, Shift, a, b
  <2>5. QED BY <2>3, <2>4
<1>6. f \in Seq(Seq(Instructions)) /\ Len(f) = N
  <2> DEFINE V == Seq(Instructions)
  <2>1. f \in [1 .. N -> V]
    BY <1>5
  <2> HIDE DEF V, f
  <2>2. f \in Seq(V) /\ Len(f) = N
    BY <1>3, <2>1
  <2>3. QED BY <2>2 DEF V
<1>7. QED BY <1>2, <1>3, <1>4, <1>6 DEF N, D

\* The number of rotations of a schedule is natural.
LEMMA ScheduleLengthType ==
  ASSUME NEW count \in Nat \ {0}, NEW logarithmic \in BOOLEAN
  PROVE  ScheduleLength(count, logarithmic) \in Nat
<1>1. rotation_sum_schedule(count, logarithmic) \in Seq(Entries)
  BY ScheduleType
<1>2. QED BY <1>1 DEF ScheduleLength

\* rotation_sum is a program.
LEMMA SumInstructions ==
  ASSUME NEW count \in Nat \ {0}, NEW stride \in Int, NEW logarithmic \in BOOLEAN
  PROVE  rotation_sum(count, stride, logarithmic) \in Seq(Instructions)
<1> DEFINE D == rotation_sum_schedule(count, logarithmic)
           f == [k \in 1 .. Len(D) |-> ShiftOf(D[k], stride)]
<1>1. /\ f \in Seq(Seq(Instructions))
      /\ rotation_sum(count, stride, logarithmic) = <<Copy(Base, Work)>> \o FlattenSeq(f)
  BY SumProgram
<1> HIDE DEF f
<1>2. FlattenSeq(f) \in Seq(Instructions)
  BY <1>1, FlattenedType
<1> DEFINE V == Instructions   a == Copy(Base, Work)   c == FlattenSeq(f)
<1>3. a \in V /\ c \in Seq(V)
  BY <1>2, InstructionTypes
<1> HIDE DEF V, a, c
<1>4. <<a>> \o c \in Seq(V)
  BY <1>3
<1>5. QED BY <1>1, <1>4 DEF V, a, c

(* The machine takes the rotations of the schedule, by its offsets, and    *)
(* collects the shifts.                                                    *)
Summing(s, t, v, l, count, stride, logarithmic, batch) ==
  /\ batch \in Nat \ {0} /\ count \in Nat \ {0} /\ stride \in Int \ {0}
  /\ logarithmic \in BOOLEAN /\ l \in Nat
  /\ DOMAIN v = Slots(batch) /\ Stores(s, Work, v, l) /\ s.rolls \in Seq(Int)
  /\ Runs(rotation_sum(count, stride, logarithmic), s, t, batch)
Summed(s, t, v, l, count, stride, logarithmic, batch) ==
  /\ \E x : Stores(t, Work, x, l) /\ Collected(v, x, count, stride, batch)
  /\ Keeps(s, t, {Work, Base, Term})
  /\ Rolls(s, t, ScheduleLength(count, logarithmic), OffsetsOf(count, stride, logarithmic))
  /\ t.mults = s.mults

\* rotation_sum leaves the sum of the shifts, by one rotation for each entry
\* of its schedule.
LEMMA RunSum ==
  ASSUME NEW s, NEW t, NEW v, NEW l, NEW count, NEW stride, NEW logarithmic, NEW batch,
         Summing(s, t, v, l, count, stride, logarithmic, batch)
  PROVE  Summed(s, t, v, l, count, stride, logarithmic, batch)
<1>0. /\ batch \in Nat \ {0} /\ count \in Nat \ {0} /\ stride \in Int \ {0}
      /\ logarithmic \in BOOLEAN /\ l \in Nat
      /\ DOMAIN v = Slots(batch) /\ Stores(s, Work, v, l) /\ s.rolls \in Seq(Int)
      /\ Runs(rotation_sum(count, stride, logarithmic), s, t, batch)
  BY DEF Summing
<1> USE <1>0
<1> DEFINE D == rotation_sum_schedule(count, logarithmic)   N == Len(D)
           f == [k \in 1 .. N |-> ShiftOf(D[k], stride)]
           K == OffsetsOf(count, stride, logarithmic)
<1>1. /\ N \in Nat /\ f \in Seq(Seq(Instructions)) /\ Len(f) = N
      /\ \A k \in 1 .. N : D[k] \in Entries
      /\ rotation_sum(count, stride, logarithmic) = <<Copy(Base, Work)>> \o FlattenSeq(f)
  <2>1. stride \in Int
    OBVIOUS
  <2>2. QED BY <2>1, SumProgram
<1>2. K = {D[k].offset * stride : k \in 1 .. N}
  <2>1. D \in Seq(Entries)
    BY ScheduleType
  <2> HIDE DEF D
  <2>2. ToSet(D) = {D[k] : k \in 1 .. N}
    BY <2>1 DEF ToSet
  <2>3. K = {step.offset * stride : step \in ToSet(D)}
    BY DEF OffsetsOf, D
  <2> HIDE DEF K
  <2>4. QED BY <2>2, <2>3
<1>3. \A k \in 1 .. N : f[k] = ShiftOf(D[k], stride)
  OBVIOUS
<1>4. D = rotation_sum_schedule(count, logarithmic)
  OBVIOUS
<1> HIDE DEF D, N, f, K
<1>5. PICK s0 : Runs(<<Copy(Base, Work)>>, s, s0, batch) /\ Runs(FlattenSeq(f), s0, t, batch)
  <2>1. <<Copy(Base, Work)>> \in Seq(Instructions)
    BY InstructionTypes
  <2>2. FlattenSeq(f) \in Seq(Instructions)
    BY <1>1, FlattenedType
  <2>3. Runs(<<Copy(Base, Work)>> \o FlattenSeq(f), s, t, batch)
    BY <1>1
  <2>4. QED BY <2>1, <2>2, <2>3, RunsBoth
<1>6. Stores(s0, Base, v, l) /\ Keeps(s, s0, {Base}) /\ s0.rolls = s.rolls /\ s0.mults = s.mults
  BY <1>5, RunCopy
<1>7. Stores(s0, Work, v, l)
  <2>1. Work \notin {Base}
    BY DEF Work, Base
  <2>2. QED BY <1>6, <2>1, KeepsStored
<1>8. PICK u : /\ u[0] = s0 /\ u[N] = t
               /\ \A k \in 1 .. N : Runs(f[k], u[k - 1], u[k], batch)
  <2>1. f \in [1 .. N -> Seq(Instructions)]
    <3> DEFINE V == Seq(Instructions)
    <3> HIDE DEF V
    <3>1. f \in Seq(V) /\ Len(f) = N
      BY <1>1 DEF V
    <3>2. QED BY <3>1 DEF V
  <2>2. \E u : Rounds(u, f, N, s0, t, batch)
    BY <1>1, <1>5, <2>1, RunsLoop
  <2>3. QED BY <2>2 DEF Rounds
<1> DEFINE X == [k \in 0 .. N |-> u[k].regs[Work].slots]
           next(k) == Plus(X[k - 1], Rotate(IF D[k].accumulated THEN X[k - 1] ELSE v,
                                            D[k].offset * stride))
           Going(k) == /\ Stores(u[k], Base, v, l) /\ Stores(u[k], Work, X[k], l)
                       /\ Keeps(s0, u[k], {Work, Term})
                       /\ Rolls(s0, u[k], k, K) /\ u[k].mults = s0.mults
                       /\ k # 0 => X[k] = next(k)
           S == {k \in 0 .. N : Going(k)}
<1>9. 0 \in S
  <2>1. 0 \in 0 .. N /\ u[0] = s0
    BY <1>1, <1>8
  <2>2. X[0] = v
    BY <1>7, <2>1 DEF Stores, Reg
  <2>3. Rolls(s0, s0, 0, K)
    BY <1>6, RollsStay
  <2>4. Keeps(s0, s0, {Work, Term})
    BY DEF Keeps
  <2>5. QED BY <1>6, <1>7, <2>1, <2>2, <2>3, <2>4
<1>10. ASSUME NEW k \in 0 .. N - 1, k \in S
       PROVE  k + 1 \in S
  <2> DEFINE e == D[k + 1]   by == e.offset * stride
             from == IF e.accumulated THEN Work ELSE Base
             y == IF e.accumulated THEN X[k] ELSE v
  <2>1. k + 1 \in 1 .. N /\ k + 1 \in 0 .. N /\ (k + 1) - 1 = k /\ k + 1 # 0 /\ k \in 0 .. N
    BY <1>1
  <2>2. Runs(Shift(from, by), u[k], u[k + 1], batch)
    <3>1. Runs(f[k + 1], u[(k + 1) - 1], u[k + 1], batch)
      BY <1>1, <1>8, <2>1
    <3>2. f[k + 1] = Shift(from, by)
      BY <1>3, <2>1 DEF ShiftOf
    <3>3. QED BY <2>1, <3>1, <3>2
  <2>3. e.offset \in Nat \ {0} /\ e.accumulated \in BOOLEAN
    BY <1>1, <2>1 DEF Entries
  <2> HIDE DEF X
  <2>4. /\ Stores(u[k], Base, v, l) /\ Stores(u[k], Work, X[k], l)
        /\ Keeps(s0, u[k], {Work, Term})
        /\ Rolls(s0, u[k], k, K) /\ u[k].mults = s0.mults
    BY <1>10
  <2>5. by \in Int \ {0} /\ by \in K
    <3>1. by \in K
      BY <1>2, <2>1
    <3>2. by \in Int
      BY <2>3
    <3>3. by # 0
      BY <2>3
    <3>4. QED BY <3>1, <3>2, <3>3
  <2>6. Stores(u[k], from, y, l) /\ from \in {Work, Base}
    BY <2>4
  <2>7. u[k].rolls \in Seq(Int)
    BY <2>4 DEF Rolls
  <2> HIDE DEF e, from, by, y
  <2>8. /\ Stores(u[k + 1], Work, Plus(X[k], Rotate(y, by)), l) /\ Keeps(u[k], u[k + 1], {Work, Term})
        /\ Rolls(u[k], u[k + 1], 1, {by}) /\ u[k + 1].mults = u[k].mults
    <3> DEFINE a == u[k]   b == u[k + 1]   x == X[k]
    <3>1. /\ Runs(Shift(from, by), a, b, batch) /\ Stores(a, Work, x, l)
          /\ Stores(a, from, y, l) /\ from \in {Work, Base} /\ by \in Int \ {0}
          /\ a.rolls \in Seq(Int)
      BY <2>2, <2>4, <2>5, <2>6, <2>7
    <3> HIDE DEF a, b, x
    <3>2. AddsRotation(a, b, x, y, by, l)
      BY <3>1, RunShift
    <3>3. QED BY <3>2 DEF AddsRotation, a, b, x
  <2>9. X[k + 1] = Plus(X[k], Rotate(y, by))
    <3>1. X[k + 1] = u[k + 1].regs[Work].slots
      BY <2>1 DEF X
    <3>2. QED BY <2>8, <3>1 DEF Stores, Reg
  <2>10. Stores(u[k + 1], Base, v, l)
    <3>1. Base \notin {Work, Term}
      BY DEF Base, Work, Term
    <3>2. QED BY <2>4, <2>8, <3>1, KeepsStored
  <2>11. Keeps(s0, u[k + 1], {Work, Term})
    BY <2>4, <2>8 DEF Keeps
  <2>12. Rolls(s0, u[k + 1], k + 1, K)
    <3>1. Rolls(s0, u[k + 1], k + 1, K \cup {by})
      <4>1. k \in Int /\ 1 \in Int
        OBVIOUS
      <4>2. QED BY <2>4, <2>8, <4>1, RollsOn
    <3>2. K \cup {by} = K
      BY <2>5
    <3>3. QED BY <3>1, <3>2
  <2>13. X[k + 1] = next(k + 1)
    BY <2>1, <2>9 DEF e, by, y
  <2> HIDE DEF next
  <2>14. Going(k + 1)
    BY <2>4, <2>8, <2>9, <2>10, <2>11, <2>12, <2>13
  <2>15. QED BY <2>1, <2>14
<1> HIDE DEF S
<1>11. \A k \in 0 .. N : k \in S
  BY <1>1, <1>9, <1>10, Climb
<1>12. \A k \in 0 .. N : Going(k)
  BY <1>11 DEF S
<1> HIDE DEF X
<1>13. N \in 0 .. N /\ u[N] = t
  BY <1>1, <1>8
<1>14. Collected(v, X[N], count, stride, batch)
  <2>1. X[0] = v
    <3>1. 0 \in 0 .. N
      BY <1>1
    <3>2. QED BY <1>7, <1>8, <3>1 DEF X, Stores, Reg
  <2>2. \A k \in 1 .. N :
          X[k] = Plus(X[k - 1], Rotate(IF D[k].accumulated THEN X[k - 1] ELSE v, D[k].offset * stride))
    <3>1. \A k \in 1 .. N : k \in 0 .. N /\ k # 0
      BY <1>1
    <3>2. QED BY <1>12, <3>1
  <2>3. stride \in Int
    OBVIOUS
  <2> HIDE DEF Going, next
  <2>4. QED BY <1>4, <2>1, <2>2, <2>3, ScheduleCollects DEF N
<1>15. Keeps(s, t, {Work, Base, Term})
  <2>1. Keeps(s0, t, {Work, Term})
    BY <1>12, <1>13
  <2>2. QED BY <1>6, <2>1 DEF Keeps
<1>16. Rolls(s, t, N, K)
  <2>1. Rolls(s0, t, N, K)
    BY <1>12, <1>13
  <2>2. QED BY <1>6, <2>1 DEF Rolls
<1>17. Stores(t, Work, X[N], l) /\ t.mults = s.mults
  BY <1>6, <1>12, <1>13
<1>18. N = ScheduleLength(count, logarithmic)
  BY DEF N, D, ScheduleLength
<1>19. QED BY <1>14, <1>15, <1>16, <1>17, <1>18 DEF K, Summed


-----------------------------------------------------------------------------
(* A block of w slots, all others empty, shifted to the right R times by   *)
(* its length: R copies one after the other, all others empty.             *)
Spreading(v, x, T, w, R, back, batch) ==
  /\ batch \in Nat \ {0} /\ w \in Nat \ {0} /\ R \in Nat \ {0} /\ R * w <= batch /\ back = -w
  /\ \A p \in 0 .. w - 1 : v[p] = SumOf(T[p])
  /\ \A p \in w .. batch - 1 : v[p] = EmptyBag
  /\ Collected(v, x, R, back, batch)

\* R shifts to the right by a window fill R windows with what one window
\* held.
LEMMA Spread ==
  ASSUME NEW v, NEW x, NEW T, NEW w, NEW R, NEW back, NEW batch,
         Spreading(v, x, T, w, R, back, batch), NEW p \in Slots(batch)
  PROVE  /\ p \in 0 .. R * w - 1 => x[p] = SumOf(T[p % w])
         /\ p \in R * w .. batch - 1 => x[p] = EmptyBag
<1>0. /\ batch \in Nat \ {0} /\ w \in Nat \ {0} /\ R \in Nat \ {0} /\ R * w <= batch /\ back = -w
      /\ \A i \in 0 .. w - 1 : v[i] = SumOf(T[i])
      /\ \A i \in w .. batch - 1 : v[i] = EmptyBag
      /\ Collected(v, x, R, back, batch)
  BY DEF Spreading
<1> USE <1>0
<1> DEFINE q == p \div w   r == p % w
           U == [j \in 0 .. R - 1 |-> IF j = q THEN T[r] ELSE {}]
<1>1. p \in Int /\ 0 <= p /\ p <= batch - 1
  BY DEF Slots
<1>2. q \in Int /\ r \in 0 .. w - 1 /\ p = w * q + r
  BY <1>1, Division
<1>3. p % batch = p
  BY SlotFacts
<1> HIDE DEF q, r
<1>4. q \in Nat
  <2>1. CASE q < 0
    <3>1. w * q <= -w
      BY <1>2, <2>1
    <3>2. QED BY <1>1, <1>2, <3>1
  <2>2. QED BY <1>2, <2>1
<1>5. ASSUME NEW j \in 0 .. R - 1
      PROVE  v[(p + j * back) % batch] = SumOf(U[j])
  <2> DEFINE a == w * q   b == w * j   c == R * w   at == p + j * back
  <2>1. a \in Int /\ b \in Int /\ c \in Int /\ at = p - b /\ b >= 0 /\ c <= batch /\ p = a + r
    BY <1>1, <1>2
  <2>2. CASE j = q
    <3>1. at = r
      BY <1>1, <1>2, <2>1, <2>2
    <3>2. w <= c
      BY <1>2
    <3> HIDE DEF a, b, c, at
    <3>3. r \in Slots(batch)
      BY <1>2, <2>1, <3>2 DEF Slots
    <3>4. at % batch = r
      BY <3>1, <3>3, SlotFacts
    <3>5. v[at % batch] = SumOf(T[r])
      BY <1>2, <3>4
    <3>6. QED BY <2>2, <3>5 DEF at
  <2>3. CASE j # q
    <3>1. at % batch \in w .. batch - 1
      <4>1. CASE j < q
        <5>1. a - b = w * (q - j)
          BY <1>2
        <5>2. w * (q - j) >= w
          BY <1>2, <4>1
        <5> HIDE DEF a, b, c, at
        <5>3. at \in w .. batch - 1
          BY <1>1, <1>2, <2>1, <5>1, <5>2
        <5>4. at \in Slots(batch)
          BY <5>3 DEF Slots
        <5>5. at % batch = at
          BY <5>4, SlotFacts
        <5>6. QED BY <5>3, <5>5
      <4>2. CASE j > q
        <5>1. b - a = w * (j - q) /\ c - b = w * (R - j)
          BY <1>2
        <5>2. w * (j - q) >= w /\ w * (R - j) >= w
          BY <1>2, <4>2
        <5> HIDE DEF a, b, c, at
        <5>3. batch + at \in w .. batch - 1 /\ at \in Int
          BY <1>1, <1>2, <2>1, <5>1, <5>2
        <5>4. batch + at \in Slots(batch)
          BY <5>3 DEF Slots
        <5>5. (batch + at) % batch = batch + at
          BY <5>4, SlotFacts
        <5>6. (batch * 1 + at) % batch = at % batch
          <6>1. 1 \in Int
            OBVIOUS
          <6>2. QED BY <5>3, <6>1, Remainder
        <5>7. batch * 1 = batch
          OBVIOUS
        <5>8. QED BY <5>3, <5>5, <5>6, <5>7
      <4>3. QED BY <1>2, <2>3, <4>1, <4>2
    <3> HIDE DEF at
    <3>2. v[at % batch] = SumOf({})
      BY <3>1, NothingSums
    <3>3. QED BY <2>3, <3>2 DEF at
  <2>4. QED BY <2>2, <2>3
<1>6. Disjoint(U, R)
  BY DEF Disjoint
<1>7. x[p % batch] = SumOf(Among(U, R))
  <2> HIDE DEF U
  <2>1. QED BY <1>1, <1>5, <1>6 DEF Collected
<1>8. CASE q \in 0 .. R - 1
  <2>1. Among(U, R) = T[r]
    BY <1>8 DEF Among
  <2>2. p < R * w
    <3>1. w * q <= w * (R - 1) /\ w * (R - 1) = R * w - w
      BY <1>2, <1>8
    <3>2. QED BY <1>1, <1>2, <3>1
  <2>3. QED BY <1>1, <1>3, <1>7, <2>1, <2>2 DEF r
<1>9. CASE q \notin 0 .. R - 1
  <2>1. Among(U, R) = {}
    BY <1>9 DEF Among
  <2>2. p >= R * w
    <3>1. q >= R
      BY <1>4, <1>9
    <3>2. w * q >= w * R /\ w * R = R * w
      BY <1>2, <3>1
    <3>3. QED BY <1>1, <1>2, <3>2
  <2>3. x[p] = EmptyBag
    BY <1>3, <1>7, <2>1, NothingSums
  <2>4. p \notin 0 .. R * w - 1
    BY <1>1, <2>2
  <2>5. QED BY <2>3, <2>4
<1>10. QED BY <1>8, <1>9

(* What the replication leaves in slot p.                                  *)
Read(n, p) == SumOf({<<0, p % n>>})

(* A multiple, divided.                                                    *)
LEMMA WholeQuotient ==
  ASSUME NEW n \in Nat \ {0}, NEW k \in Nat
  PROVE  (n * k) \div n = k
<1> DEFINE a == n * k   q == a \div n   r == a % n
<1>1. a \in Int
  OBVIOUS
<1>2. q \in Int /\ r \in 0 .. n - 1 /\ a = n * q + r
  BY <1>1, Division
<1> HIDE DEF q, r
<1>3. n * k + 0 = n * q + r /\ 0 \in 0 .. n - 1 /\ k \in Int
  BY <1>2
<1>4. QED BY <1>2, <1>3, Quotient DEF q

(* The input, through every window of a sound shape.                       *)
Replicated(s, t, n, shape, logarithmic, batch) ==
  LET R == shape.replicas + shape.guard_windows
  IN  /\ \E x : /\ Stores(t, Work, x, 0) /\ DOMAIN x = Slots(batch)
                /\ \A p \in 0 .. R * shape.window - 1 : x[p] = Read(n, p)
      /\ Keeps(s, t, {Work, Base, Term})
      /\ Rolls(s, t, ScheduleLength(shape.window \div n, logarithmic)
                     + ScheduleLength(R, logarithmic),
               OffsetsOf(shape.window \div n, -n, logarithmic)
               \cup OffsetsOf(R, -shape.window, logarithmic))
      /\ t.mults = s.mults

\* replicate_input fills every tile of every window with the input and leaves
\* zeros behind them.
LEMMA RunReplicate ==
  ASSUME NEW m \in Nat \ {0}, NEW n \in Nat \ {0}, NEW batch \in Nat \ {0},
         NEW shape, Sound(shape, m, n, batch), NEW logarithmic \in BOOLEAN,
         NEW s, NEW t, Stores(s, Work, Encrypted(0, n, batch), 0), s.rolls \in Seq(Int),
         Runs(replicate_input(n, shape, logarithmic), s, t, batch)
  PROVE  Replicated(s, t, n, shape, logarithmic, batch)
<1> DEFINE w == shape.window   R == shape.replicas + shape.guard_windows
           tiles == w \div n   v == Encrypted(0, n, batch)
           backn == -n   backw == -w
           first == rotation_sum(tiles, backn, logarithmic)
           second == rotation_sum(R, backw, logarithmic)
<1>1. w \in Nat \ {0} /\ R \in Nat \ {0} /\ R * w <= batch /\ n <= w
  <2>1. /\ shape.replicas \in 1 .. n /\ shape.guard_windows \in {0, 1} /\ w \in Nat /\ n <= w
        /\ (shape.replicas + shape.guard_windows) * w <= batch
    BY DEF Sound
  <2>2. QED BY <2>1
<1>2. tiles \in Nat \ {0} /\ w = n * tiles /\ tiles * n = w
  <2>0. w \in Nat /\ \E k \in 1 .. w : w = n * k
    BY DEF Sound
  <2>1. PICK k \in 1 .. w : w = n * k
    BY <2>0
  <2>5. k = tiles
    BY <2>1, WholeQuotient
  <2>6. tiles # 0
    BY <1>1, <2>1, <2>5
  <2>7. QED BY <2>1, <2>5, <2>6
<1>3. backn \in Int \ {0} /\ backw \in Int \ {0} /\ backn = -n /\ backw = -w /\ n <= batch
  <2>1. n \in Int \ {0} /\ -n \in Int \ {0} /\ -w \in Int \ {0}
    BY <1>1
  <2>2. R * w >= w
    BY <1>1, ProductGrows
  <2> DEFINE product == R * w
  <2> HIDE DEF product, w
  <2>3. product \in Nat /\ w <= product /\ product <= batch
    BY <1>1, <2>2 DEF product
  <2>4. n <= batch
    BY <1>1, <2>3
  <2>5. QED BY <2>1, <2>4
<1>4. replicate_input(n, shape, logarithmic) = first \o second
  BY DEF replicate_input
<1>5. DOMAIN v = Slots(batch) /\ \A p \in Slots(batch) : v[p] = IF p < n THEN SumOf({<<0, p>>}) ELSE EmptyBag
  BY DEF Encrypted
<1> HIDE DEF w, R, tiles, v, backn, backw
<1>6. PICK u : Runs(first, s, u, batch) /\ Runs(second, u, t, batch)
  <2>1. first \in Seq(Instructions) /\ second \in Seq(Instructions)
    BY <1>1, <1>2, <1>3, SumInstructions
  <2> HIDE DEF first, second
  <2>2. QED BY <1>4, <2>1, RunsBoth
<1>7. /\ \E x : Stores(u, Work, x, 0) /\ Collected(v, x, tiles, backn, batch)
      /\ Keeps(s, u, {Work, Base, Term})
      /\ Rolls(s, u, ScheduleLength(tiles, logarithmic), OffsetsOf(tiles, backn, logarithmic))
      /\ u.mults = s.mults
  <2>1. Stores(s, Work, v, 0) /\ 0 \in Nat
    BY DEF v
  <2>2. Summing(s, u, v, 0, tiles, backn, logarithmic, batch)
    BY <1>2, <1>3, <1>5, <1>6, <2>1 DEF Summing
  <2>3. QED BY <2>2, RunSum DEF Summed
<1>8. PICK x : Stores(u, Work, x, 0) /\ Collected(v, x, tiles, backn, batch)
  BY <1>7
<1>9. u.rolls \in Seq(Int) /\ DOMAIN x = Slots(batch)
  BY <1>7, <1>8 DEF Rolls, Collected
<1>10. /\ \E y : Stores(t, Work, y, 0) /\ Collected(x, y, R, backw, batch)
       /\ Keeps(u, t, {Work, Base, Term})
       /\ Rolls(u, t, ScheduleLength(R, logarithmic), OffsetsOf(R, backw, logarithmic))
       /\ t.mults = u.mults
  <2>1. 0 \in Nat
    OBVIOUS
  <2>2. Summing(u, t, x, 0, R, backw, logarithmic, batch)
    BY <1>1, <1>3, <1>6, <1>8, <1>9, <2>1 DEF Summing
  <2>3. QED BY <2>2, RunSum DEF Summed
<1>11. PICK y : Stores(t, Work, y, 0) /\ Collected(x, y, R, backw, batch)
  BY <1>10
<1> DEFINE T == [p \in 0 .. n - 1 |-> {<<0, p>>}]
           W == [p \in 0 .. w - 1 |-> {<<0, p % n>>}]
<1>12. ASSUME NEW p \in Slots(batch)
       PROVE  /\ p \in 0 .. w - 1 => x[p] = SumOf(W[p])
              /\ p \in w .. batch - 1 => x[p] = EmptyBag
  <2>1. \A i \in 0 .. n - 1 : v[i] = SumOf(T[i])
    <3>1. \A i \in 0 .. n - 1 : i \in Slots(batch) /\ i < n
      BY <1>3 DEF Slots
    <3>2. QED BY <1>5, <3>1
  <2>2. \A i \in n .. batch - 1 : v[i] = EmptyBag
    <3>1. \A i \in n .. batch - 1 : i \in Slots(batch) /\ ~ (i < n)
      BY <1>3 DEF Slots
    <3>2. QED BY <1>5, <3>1
  <2> HIDE DEF T, W
  <2>3. tiles * n <= batch
    <3>1. R * w >= w
      BY <1>1, ProductGrows
    <3> DEFINE product == R * w
    <3> HIDE DEF product
    <3>2. product \in Nat /\ w <= product /\ product <= batch
      BY <1>1, <3>1 DEF product
    <3>3. w <= batch
      BY <1>1, <3>2
    <3>4. QED BY <1>2, <3>3
  <2>4. /\ p \in 0 .. tiles * n - 1 => x[p] = SumOf(T[p % n])
        /\ p \in tiles * n .. batch - 1 => x[p] = EmptyBag
    <3>1. Spreading(v, x, T, n, tiles, backn, batch)
      BY <1>2, <1>3, <1>8, <2>1, <2>2, <2>3 DEF Spreading
    <3>2. QED BY <3>1, Spread
  <2>5. p \in 0 .. w - 1 => T[p % n] = W[p]
    <3>1. p \in Int
      BY DEF Slots
    <3>2. p % n \in 0 .. n - 1
      BY <3>1, Division
    <3>3. QED BY <3>2 DEF T, W
  <2>6. QED BY <1>2, <2>4, <2>5
<1>13. ASSUME NEW p \in 0 .. R * w - 1
       PROVE  y[p] = Read(n, p)
  <2>1. \A i \in 0 .. w - 1 : x[i] = SumOf(W[i])
    <3>1. \A i \in 0 .. w - 1 : i \in Slots(batch)
      <4>1. R * w >= w
        BY <1>1, ProductGrows
      <4>2. QED BY <1>1, <4>1 DEF Slots
    <3>2. QED BY <1>12, <3>1
  <2>2. \A i \in w .. batch - 1 : x[i] = EmptyBag
    <3>1. \A i \in w .. batch - 1 : i \in Slots(batch)
      BY <1>1 DEF Slots
    <3>2. QED BY <1>12, <3>1
  <2>3. p \in Slots(batch)
    BY <1>1 DEF Slots
  <2> HIDE DEF W
  <2>4. y[p] = SumOf(W[p % w])
    <3>1. Spreading(x, y, W, w, R, backw, batch)
      BY <1>1, <1>3, <1>11, <2>1, <2>2 DEF Spreading
    <3>2. y[p] = SumOf(W[p % w])
      BY <2>3, <3>1, Spread
    <3>3. QED BY <3>2
  <2>5. W[p % w] = {<<0, p % n>>}
    <3> DEFINE q == p \div w   r == p % w
    <3>1. p \in Int /\ q \in Int /\ r \in 0 .. w - 1 /\ p = w * q + r
      <4>1. p \in Int
        BY <2>3 DEF Slots
      <4>2. QED BY <1>1, <4>1, Division
    <3>2. W[r] = {<<0, r % n>>}
      BY <3>1 DEF W
    <3> HIDE DEF q, r
    <3>3. p = n * (tiles * q) + r /\ tiles * q \in Int /\ r \in Int
      <4>1. n * (tiles * q) = (n * tiles) * q
        BY <1>2, <3>1
      <4>2. QED BY <1>1, <1>2, <3>1, <4>1
    <3>4. (n * (tiles * q) + r) % n = r % n
      BY <3>3, Remainder
    <3>5. p % n = r % n
      BY <3>3, <3>4
    <3>6. QED BY <3>2, <3>5 DEF r
  <2>6. QED BY <2>4, <2>5 DEF Read
<1>14. Keeps(s, t, {Work, Base, Term})
  BY <1>7, <1>10 DEF Keeps
<1>15. Rolls(s, t, ScheduleLength(tiles, logarithmic) + ScheduleLength(R, logarithmic),
             OffsetsOf(tiles, backn, logarithmic) \cup OffsetsOf(R, backw, logarithmic))
  <2>1. ScheduleLength(tiles, logarithmic) \in Int /\ ScheduleLength(R, logarithmic) \in Int
    BY <1>1, <1>2, ScheduleLengthType
  <2>2. QED BY <1>7, <1>10, <2>1, RollsOn
<1>16. QED
  BY <1>7, <1>9, <1>10, <1>11, <1>13, <1>14, <1>15 DEF Replicated, w, R, tiles, backn, backw, Collected

-----------------------------------------------------------------------------
(* A fold that adds up the formal sums f of the elements of S, one after   *)
(* the other.                                                              *)
Folds(h, S, f) ==
  \A s \in SUBSET S : h[s] = IF s = {} THEN EmptyBag ELSE h[s \ {OneOf(s)}] (+) f[OneOf(s)]
Apart(S, T) == \A a, b \in S : a # b => T[a] \cap T[b] = {}
Whole(S, T) == [s \in SUBSET S |-> SumOf(UNION {T[e] : e \in s})]

\* The sums over the subsets of S satisfy the recursion of a fold.
LEMMA WholeFolds ==
  ASSUME NEW S, IsFiniteSet(S), NEW T, Apart(S, T), NEW f, \A e \in S : f[e] = SumOf(T[e])
  PROVE  Folds(Whole(S, T), S, f)
<1> DEFINE W == Whole(S, T)
<1>1. ASSUME NEW s \in SUBSET S
      PROVE  W[s] = IF s = {} THEN EmptyBag ELSE W[s \ {OneOf(s)}] (+) f[OneOf(s)]
  <2>1. CASE s = {}
    <3>1. UNION {T[e] : e \in s} = {}
      BY <2>1
    <3>2. QED BY <2>1, <3>1, NothingSums DEF Whole
  <2>2. CASE s # {}
    <3> DEFINE a == OneOf(s)   r == s \ {a}
               A == UNION {T[e] : e \in r}
    <3>1. a \in s /\ r \in SUBSET S
      BY <2>2, AnyLeaves
    <3> HIDE DEF a
    <3>2. A \cap T[a] = {}
      BY <3>1 DEF Apart
    <3>3. UNION {T[e] : e \in s} = A \cup T[a]
      BY <3>1
    <3>4. W[r] = SumOf(A) /\ W[s] = SumOf(UNION {T[e] : e \in s}) /\ f[a] = SumOf(T[a])
      BY <3>1 DEF Whole
    <3> HIDE DEF A, W, r
    <3>5. SumOf(A) (+) SumOf(T[a]) = SumOf(A \cup T[a])
      BY <3>2, SumsJoin
    <3>6. W[s] = W[r] (+) f[a]
      BY <3>3, <3>4, <3>5
    <3>7. QED BY <2>2, <3>6 DEF a, r
  <2>3. QED BY <2>1, <2>2
<1>2. QED BY <1>1 DEF Folds

\* What satisfies that recursion is the sum, as the recursion has one
\* solution.
LEMMA FoldsWhole ==
  ASSUME NEW S, IsFiniteSet(S), NEW T, Apart(S, T), NEW f, \A e \in S : f[e] = SumOf(T[e]),
         NEW h, Folds(h, S, f)
  PROVE  h[S] = SumOf(UNION {T[e] : e \in S})
<1> DEFINE W == Whole(S, T)   P == {s \in SUBSET S : h[s] = W[s]}
<1>1. Folds(W, S, f)
  BY WholeFolds
<1>2. {} \in P
  BY <1>1 DEF Folds
<1>3. ASSUME NEW s \in SUBSET S, s # {}, s \ {OneOf(s)} \in P
      PROVE  s \in P
  <2>1. h[s] = h[s \ {OneOf(s)}] (+) f[OneOf(s)] /\ W[s] = W[s \ {OneOf(s)}] (+) f[OneOf(s)]
    BY <1>1, <1>3 DEF Folds
  <2>2. h[s \ {OneOf(s)}] = W[s \ {OneOf(s)}]
    BY <1>3
  <2>3. QED BY <2>1, <2>2
<1> HIDE DEF W
<1>4. P = SUBSET S
  <2>1. P \subseteq SUBSET S
    OBVIOUS
  <2> HIDE DEF P
  <2>2. QED BY <1>2, <1>3, <2>1, SubsetInduction
<1>5. h[S] = W[S]
  <2>1. S \in SUBSET S
    OBVIOUS
  <2>2. QED BY <1>4, <2>1
<1>6. QED BY <1>5 DEF W, Whole

(* A weight in front of one term.                                          *)
LEMMA ScaledTerm ==
  ASSUME NEW w \in Seq(Int), NEW t \in Seq(Int)
  PROVE  Scaled(w, SumOf({t})) = SumOf({w \o t})
<1> DEFINE u == w \o t   s == SumOf({t})
<1>1. DOMAIN s = {t} /\ s[t] = 1
  BY DEF SumOf, SetToBag
<1>2. SubSeq(u, Len(w) + 1, Len(u)) = t
  <2> DEFINE a == Len(w) + 1   b == Len(u)   v == SubSeq(u, a, b)
  <2>1. /\ u \in Seq(Int) /\ Len(w) \in Nat /\ Len(t) \in Nat /\ b = Len(w) + Len(t)
        /\ \A k \in 1 .. Len(t) : u[Len(w) + k] = t[k]
    OBVIOUS
  <2> HIDE DEF u
  <2>2. a \in 1 .. b + 1 /\ b \in Nat
    BY <2>1
  <2>3. /\ v \in Seq(Int) /\ Len(v) = Len(t)
        /\ \A k \in 1 .. Len(t) : v[k] = t[k]
    <3>1. v \in Seq(Int) /\ Len(v) = b - a + 1
      BY <2>1, <2>2
    <3>2. \A k \in 1 .. Len(t) : v[k] = u[a + k - 1]
      BY <2>1, <2>2
    <3>3. b - a + 1 = Len(t) /\ \A k \in 1 .. Len(t) : a + k - 1 = Len(w) + k
      BY <2>1
    <3> HIDE DEF v, a, b
    <3>4. QED BY <2>1, <3>1, <3>2, <3>3
  <2> HIDE DEF v
  <2>4. v = t
    BY <2>3, SeqEqual
  <2>5. QED BY <2>4 DEF v, u
<1>3. Scaled(w, s) = [x \in {u} |-> 1]
  <2> HIDE DEF s
  <2>1. {w \o x : x \in DOMAIN s} = {u}
    BY <1>1
  <2> HIDE DEF u
  <2>2. Scaled(w, s) = [x \in {u} |-> s[SubSeq(x, Len(w) + 1, Len(x))]]
    BY <2>1 DEF Scaled
  <2>3. QED BY <1>1, <1>2, <2>2
<1>4. SumOf({u}) = [x \in {u} |-> 1]
  BY DEF SumOf, SetToBag
<1>5. QED BY <1>3, <1>4

(* What a mask does to a slot it names once, and to one it does not name.  *)
Named(mask, p) == {e \in mask : e[1] = p}

Over(S, T) == UNION {T[e] : e \in S}
Weighing(v, mask, p, T) ==
  /\ p \in DOMAIN v /\ IsFiniteSet(Named(mask, p)) /\ Apart(Named(mask, p), T)
  /\ \A e \in Named(mask, p) : Scaled(e[2], v[p]) = SumOf(T[e])

\* A product with a mask holds in slot p the terms of the slot, once for each
\* weight the mask names.
LEMMA TimesAt ==
  ASSUME NEW v, NEW mask, NEW p, NEW T, Weighing(v, mask, p, T)
  PROVE  Times(v, mask)[p] = SumOf(Over(Named(mask, p), T))
<1>0. /\ p \in DOMAIN v /\ IsFiniteSet(Named(mask, p)) /\ Apart(Named(mask, p), T)
      /\ \A e \in Named(mask, p) : Scaled(e[2], v[p]) = SumOf(T[e])
  BY DEF Weighing
<1> USE <1>0
<1> DEFINE S == Named(mask, p)
           f == [e \in S |-> Scaled(e[2], v[p])]
           F(h) == [s \in SUBSET S |-> IF s = {} THEN EmptyBag
                                       ELSE h[s \ {OneOf(s)}] (+) Scaled(OneOf(s)[2], v[p])]
           W == Whole(S, T)
           run == CHOOSE h : h = F(h)
<1>1. Times(v, mask)[p] = run[S]
  <2>1. Times(v, mask)[p] = FoldSet(LAMBDA e, total : total (+) Scaled(e[2], v[p]), EmptyBag, S)
    BY DEF Times, Named
  <2>2. FoldSet(LAMBDA e, total : total (+) Scaled(e[2], v[p]), EmptyBag, S) = run[S]
    BY DEF FoldSet, MapThenFoldSet, OneOf
  <2>3. QED BY <2>1, <2>2
<1> HIDE DEF S
<1>2. \A s \in SUBSET S : s # {} => f[OneOf(s)] = Scaled(OneOf(s)[2], v[p])
  BY DEF OneOf
<1>3. IsFiniteSet(S) /\ Apart(S, T) /\ \A e \in S : f[e] = SumOf(T[e])
  BY DEF S
<1> HIDE DEF f
<1>4. Folds(W, S, f)
  BY <1>3, WholeFolds
<1>5. W = F(W)
  <2>1. \A s \in SUBSET S : W[s] = IF s = {} THEN EmptyBag
                                   ELSE W[s \ {OneOf(s)}] (+) Scaled(OneOf(s)[2], v[p])
    BY <1>2, <1>4 DEF Folds
  <2>2. W = [s \in SUBSET S |-> W[s]]
    BY DEF Whole
  <2> HIDE DEF W
  <2>3. QED BY <2>1, <2>2
<1> HIDE DEF W
<1>6. run = F(run)
  BY <1>5
<1> HIDE DEF run
<1>7. Folds(run, S, f)
  <2>1. \A s \in SUBSET S : run[s] = IF s = {} THEN EmptyBag
                                     ELSE run[s \ {OneOf(s)}] (+) Scaled(OneOf(s)[2], v[p])
    BY <1>6
  <2>2. QED BY <1>2, <2>1 DEF Folds
<1>8. run[S] = SumOf(UNION {T[e] : e \in S})
  BY <1>3, <1>7, FoldsWhole
<1>9. QED BY <1>1, <1>8 DEF S, Over

NamesOnly(mask, p, w) == Named(mask, p) = {<<p, w>>}

Single(v, mask, p, w, t) ==
  /\ p \in DOMAIN v /\ w \in Seq(Int) /\ t \in Seq(Int)
  /\ NamesOnly(mask, p, w) /\ v[p] = SumOf({t})

\* A mask that names a slot once puts its weight in front of the slot's term.
LEMMA TimesOne ==
  ASSUME NEW v, NEW mask, NEW p, NEW w, NEW t, Single(v, mask, p, w, t)
  PROVE  Times(v, mask)[p] = SumOf({w \o t})
<1>0. /\ p \in DOMAIN v /\ w \in Seq(Int) /\ t \in Seq(Int)
      /\ NamesOnly(mask, p, w) /\ v[p] = SumOf({t})
  BY DEF Single
<1> USE <1>0
<1> DEFINE S == {<<p, w>>}   T == [e \in S |-> {w \o t}]
<1>1. IsFiniteSet(S)
  BY FS_Singleton
<1>2. Apart(S, T)
  BY DEF Apart
<1>3. \A e \in S : Scaled(e[2], v[p]) = SumOf(T[e])
  <2>1. Scaled(w, v[p]) = SumOf({w \o t})
    BY ScaledTerm
  <2>2. QED BY <2>1
<1>4. Over(S, T) = {w \o t}
  BY DEF Over
<1> HIDE DEF T
<1>5. Weighing(v, mask, p, T)
  BY <1>1, <1>2, <1>3 DEF Weighing, NamesOnly
<1>6. Times(v, mask)[p] = SumOf(Over(Named(mask, p), T))
  BY <1>5, TimesAt
<1>7. QED BY <1>4, <1>6 DEF NamesOnly

\* A slot that the mask does not name becomes zero.
LEMMA TimesNone ==
  ASSUME NEW v, NEW mask, NEW p \in DOMAIN v, Named(mask, p) = {}
  PROVE  Times(v, mask)[p] = SumOf({})
<1> DEFINE S == {}   T == <<>>
<1>1. Weighing(v, mask, p, T)
  BY FS_EmptySet DEF Weighing, Apart
<1>2. Over(S, T) = {}
  BY DEF Over
<1> HIDE DEF T
<1>3. Times(v, mask)[p] = SumOf(Over(Named(mask, p), T))
  BY <1>1, TimesAt
<1>4. QED BY <1>2, <1>3

-----------------------------------------------------------------------------
(* The geometry of a projection.                                           *)

Rows(q) == 0 .. q.m - 1
Replicas(q) == 0 .. q.shape.replicas - 1
Windows(q) == q.shape.replicas + q.shape.guard_windows
Groups(q) == per_replica(q.n, q.shape.replicas)
At(q, i, j) == MaskSlot(q.shape.window, i, j)
Serves(q, k) == Diagonals(q.n, q.shape.replicas, k)
Reading(q, i, j, k) == InputRead(q.n, i, j, k, q.shape.replicas)
Shifted(q, k, off) == RotateMask(CombinedMask(0, q.m, q.n, k, q.shape), off, q.batch)

(* The term of output i with input c, and those of groups a to b - 1 that  *)
(* replica j adds to output i.                                             *)
TermOf(i, c) == <<0, i, c>> \o <<0, c>>
Terms(q, i, j, a, b) ==
  {TermOf(i, Reading(q, i, j, l)) : l \in {l \in a .. b - 1 : j \in Serves(q, l)}}
Holding(q, v, off, a, b) ==
  /\ DOMAIN v = Slots(q.batch)
  /\ \A i \in Rows(q), j \in Replicas(q) :
       v[(At(q, i, j) + off) % q.batch] = SumOf(Terms(q, i, j, a, b))

\* The types and bounds of a projection's geometry.
LEMMA GeometryFacts ==
  ASSUME NEW q, Geometry(q)
  PROVE  /\ q.m \in Nat \ {0} /\ q.n \in Nat \ {0} /\ q.batch \in Nat \ {0}
         /\ q.logarithmic \in BOOLEAN /\ q.baby_step \in Nat
         /\ Sound(q.shape, q.m, q.n, q.batch)
         /\ q.shape.window \in Nat \ {0} /\ q.shape.replicas \in 1 .. q.n
         /\ q.shape.replicas \in Nat \ {0} /\ Windows(q) \in Nat \ {0}
         /\ q.m + q.shape.replicas - 1 <= q.shape.window /\ q.n <= q.shape.window
         /\ q.shape.replicas * q.shape.window <= Windows(q) * q.shape.window
         /\ Windows(q) * q.shape.window <= q.batch
         /\ Groups(q) \in Nat \ {0}
<1> DEFINE w == q.shape.window   r == q.shape.replicas   g == q.shape.guard_windows
<1>1. /\ q.m \in Nat \ {0} /\ q.n \in Nat \ {0} /\ q.batch \in Nat \ {0}
      /\ q.logarithmic \in BOOLEAN /\ q.baby_step \in Nat
      /\ Sound(q.shape, q.m, q.n, q.batch)
  BY DEF Geometry
<1>2. /\ r \in 1 .. q.n /\ g \in {0, 1} /\ w \in Nat /\ q.m + r - 1 <= w /\ q.n <= w
      /\ (r + g) * w <= q.batch
  BY <1>1 DEF Sound
<1> HIDE DEF w, r, g
<1>3. w \in Nat \ {0} /\ r \in Nat \ {0} /\ r + g \in Nat \ {0} /\ r * w <= (r + g) * w
  BY <1>1, <1>2
<1>4. CeilDiv(q.n, r) \in Nat /\ q.n <= r * CeilDiv(q.n, r)
  BY <1>1, <1>3, CeilDivBounds
<1>5. CeilDiv(q.n, r) # 0
  BY <1>1, <1>3, <1>4
<1>6. QED BY <1>1, <1>2, <1>3, <1>4, <1>5 DEF w, r, g, Windows, Groups, per_replica

\* The third factor of a term is its column.
LEMMA TermColumn ==
  ASSUME NEW i \in Int, NEW c \in Int
  PROVE  TermOf(i, c)[3] = c
<1> DEFINE a == <<0, i, c>>   b == <<0, c>>
<1>1. a \in Seq(Int) /\ b \in Seq(Int) /\ Len(a) = 3 /\ a[3] = c
  OBVIOUS
<1> HIDE DEF a, b
<1>2. \A k \in 1 .. Len(a) + Len(b) : (a \o b)[k] = IF k <= Len(a) THEN a[k] ELSE b[k - Len(a)]
  BY <1>1, ConcatProperties
<1>3. 3 \in 1 .. Len(a) + Len(b) /\ 3 <= Len(a)
  BY <1>1
<1>4. (a \o b)[3] = c
  BY <1>1, <1>2, <1>3
<1>5. QED BY <1>4 DEF TermOf, a, b

\* The terms of different columns differ.
LEMMA TermsDiffer ==
  ASSUME NEW i \in Int, NEW c \in Int, NEW d \in Int, TermOf(i, c) = TermOf(i, d)
  PROVE  c = d
  BY TermColumn

(* The slots the masks name.                                               *)
LEMMA AtInside ==
  ASSUME NEW q, Geometry(q), NEW i \in Rows(q), NEW j \in Replicas(q)
  PROVE  At(q, i, j) \in Slots(q.batch) /\ At(q, i, j) = i + j * (q.shape.window + 1)
<1> DEFINE w == q.shape.window   r == q.shape.replicas   R == Windows(q)
<1>1. /\ w \in Nat \ {0} /\ r \in Nat \ {0} /\ q.batch \in Nat \ {0} /\ R \in Nat \ {0}
      /\ r * w <= R * w /\ R * w <= q.batch
  BY GeometryFacts
<1>2. At(q, i, j) = w * j + (i + j) /\ i + j \in 0 .. w - 1
  <2>1. /\ q.m \in Nat \ {0} /\ q.n \in Nat \ {0} /\ q.batch \in Nat
        /\ Sound(q.shape, q.m, q.n, q.batch)
    BY GeometryFacts
  <2>2. i \in 0 .. q.m - 1 /\ j \in 0 .. q.shape.replicas - 1
    BY DEF Rows, Replicas
  <2>3. QED BY <2>1, <2>2, InsideWindow DEF At
<1>3. j \in 0 .. r - 1 /\ i \in Int
  <2>1. q.m \in Nat
    BY GeometryFacts
  <2>2. QED BY <2>1 DEF Replicas, Rows
<1> HIDE DEF w, r, R
<1>4. w * j <= w * (r - 1) /\ w * (r - 1) = r * w - w /\ w * j \in Nat
  BY <1>1, <1>3
<1>5. w * j + (i + j) \in 0 .. q.batch - 1
  <2> DEFINE a == w * j   b == r * w   c == R * w   d == i + j
  <2>1. a \in Nat /\ b \in Int /\ c \in Int /\ d \in 0 .. w - 1 /\ a <= b - w /\ b <= c /\ c <= q.batch
    BY <1>1, <1>2, <1>4
  <2> HIDE DEF a, b, c, d
  <2>2. a + d \in 0 .. q.batch - 1
    BY <1>1, <2>1
  <2>3. QED BY <2>2 DEF a, d
<1>6. w * j + (i + j) = i + j * (w + 1)
  BY <1>1, <1>3
<1>7. QED BY <1>2, <1>5, <1>6 DEF Slots, w

\* A cyclic shift keeps different slots apart.
LEMMA ShiftInjective ==
  ASSUME NEW batch \in Nat \ {0}, NEW a \in Slots(batch), NEW b \in Slots(batch), NEW off \in Int
  PROVE  (a + off) % batch = (b + off) % batch => a = b
<1> DEFINE f == a + off   g == b + off
           x == f \div batch   y == g \div batch   c == f % batch   d == g % batch
<1>1. a \in 0 .. batch - 1 /\ b \in 0 .. batch - 1
  BY DEF Slots
<1>2. f \in Int /\ g \in Int
  BY <1>1
<1> HIDE DEF f, g
<1>3. x \in Int /\ c \in Int /\ f = batch * x + c /\ y \in Int /\ d \in Int /\ g = batch * y + d
  BY <1>2, Division
<1> HIDE DEF x, y, c, d
<1>4. SUFFICES ASSUME c = d PROVE a = b
  BY DEF c, d, f, g
<1>5. batch * y + a = batch * x + b
  <2> DEFINE u == batch * x   v == batch * y
  <2>1. u \in Int /\ v \in Int /\ a + off = u + c /\ b + off = v + c
    BY <1>3, <1>4 DEF f, g
  <2> HIDE DEF u, v
  <2>2. v + a = u + b
    BY <1>1, <1>3, <2>1
  <2>3. QED BY <2>2 DEF u, v
<1>6. QED BY <1>1, <1>3, <1>5, Quotient

\* Shifted by any offset, the mask slots of all outputs and replicas stay
\* apart.
LEMMA AtDistinct ==
  ASSUME NEW q, Geometry(q), NEW off \in Int,
         NEW i \in Rows(q), NEW j \in Replicas(q), NEW a \in Rows(q), NEW b \in Replicas(q),
         (At(q, i, j) + off) % q.batch = (At(q, a, b) + off) % q.batch
  PROVE  i = a /\ j = b
<1>1. At(q, i, j) \in Slots(q.batch) /\ At(q, a, b) \in Slots(q.batch)
  BY AtInside
<1>2. /\ q.m \in Nat \ {0} /\ q.n \in Nat \ {0} /\ q.batch \in Nat \ {0}
      /\ Sound(q.shape, q.m, q.n, q.batch)
  BY GeometryFacts
<1>3. At(q, i, j) = At(q, a, b)
  BY <1>1, <1>2, ShiftInjective
<1>4. /\ i \in 0 .. q.m - 1 /\ j \in 0 .. q.shape.replicas - 1
      /\ a \in 0 .. q.m - 1 /\ b \in 0 .. q.shape.replicas - 1
  BY DEF Rows, Replicas
<1>5. MaskSlot(q.shape.window, i, j) = MaskSlot(q.shape.window, a, b)
  BY <1>3 DEF At
<1>6. q.batch \in Nat
  BY <1>2
<1>7. QED BY <1>2, <1>4, <1>5, <1>6, SlotsDistinct

(* A shifted mask names the slot of output i and replica j once, with the  *)
(* weight of the input read there, or, without a diagonal, not at all.     *)
LEMMA MaskNames ==
  ASSUME NEW q, Geometry(q), NEW k \in Nat, NEW off \in Int,
         NEW i \in Rows(q), NEW j \in Replicas(q)
  PROVE  /\ j \in Serves(q, k) =>
              NamesOnly(Shifted(q, k, off), (At(q, i, j) + off) % q.batch,
                        <<0, i, Reading(q, i, j, k)>>)
         /\ j \notin Serves(q, k) =>
              Named(Shifted(q, k, off), (At(q, i, j) + off) % q.batch) = {}
<1> DEFINE p == (At(q, i, j) + off) % q.batch
           mask == Shifted(q, k, off)
           entry(a, b) == <<(At(q, a, b) + off) % q.batch, <<0, a, Reading(q, a, b, k)>> >>
           named == {entry(a, b) : a \in Rows(q), b \in Serves(q, k)}
<1>1. mask = named
  <2> DEFINE plain(a, b) == <<At(q, a, b), <<0, a, Reading(q, a, b, k)>> >>
             C == {plain(a, b) : a \in Rows(q), b \in Serves(q, k)}
  <2>1. CombinedMask(0, q.m, q.n, k, q.shape) = C
    BY DEF CombinedMask, Rows, Serves, At, Reading
  <2>2. mask = {<<(e[1] + off) % q.batch, e[2]>> : e \in C}
    BY <2>1 DEF Shifted, RotateMask
  <2>3. \A a, b : entry(a, b) = <<(plain(a, b)[1] + off) % q.batch, plain(a, b)[2]>>
    OBVIOUS
  <2> HIDE DEF entry, plain, mask
  <2>4. ASSUME NEW e \in mask
        PROVE  e \in named
    <3>1. PICK c \in C : e = <<(c[1] + off) % q.batch, c[2]>>
      BY <2>2
    <3>2. PICK a \in Rows(q), b \in Serves(q, k) : c = plain(a, b)
      OBVIOUS
    <3>3. e = entry(a, b)
      BY <2>3, <3>1, <3>2
    <3>4. QED BY <3>3
  <2>5. ASSUME NEW e \in named
        PROVE  e \in mask
    <3>1. PICK a \in Rows(q), b \in Serves(q, k) : e = entry(a, b)
      OBVIOUS
    <3>2. plain(a, b) \in C
      OBVIOUS
    <3>3. QED BY <2>2, <2>3, <3>1, <3>2
  <2> HIDE DEF named
  <2>6. QED BY <2>4, <2>5
<1>2. Serves(q, k) \subseteq Replicas(q)
  BY DEF Serves, Diagonals, Replicas
<1>3. \A a \in Rows(q), b \in Serves(q, k) : entry(a, b)[1] = p => a = i /\ b = j
  <2>1. \A a \in Rows(q), b \in Serves(q, k) : entry(a, b)[1] = (At(q, a, b) + off) % q.batch
    OBVIOUS
  <2> HIDE DEF entry
  <2>2. QED BY <1>2, <2>1, AtDistinct
<1>4. entry(i, j)[1] = p /\ entry(i, j) = <<p, <<0, i, Reading(q, i, j, k)>> >>
  OBVIOUS
<1> HIDE DEF mask, entry, p
<1>5. CASE j \in Serves(q, k)
  <2>1. Named(mask, p) = {entry(i, j)}
    BY <1>1, <1>3, <1>4, <1>5 DEF Named
  <2>2. NamesOnly(mask, p, <<0, i, Reading(q, i, j, k)>>)
    BY <1>4, <2>1 DEF NamesOnly
  <2>3. QED BY <1>5, <2>2 DEF mask, p
<1>6. CASE j \notin Serves(q, k)
  <2>1. Named(mask, p) = {}
    BY <1>1, <1>3, <1>6 DEF Named
  <2>2. QED BY <1>6, <2>1 DEF mask, p
<1>7. QED BY <1>5, <1>6

(* The terms of one group, and of two spans of groups.                     *)
LEMMA GroupTerms ==
  ASSUME NEW q, NEW k \in Nat, NEW i, NEW j
  PROVE  Terms(q, i, j, k, k + 1)
           = IF j \in Serves(q, k) THEN {TermOf(i, Reading(q, i, j, k))} ELSE {}
<1>1. k .. (k + 1) - 1 = {k}
  OBVIOUS
<1>2. QED BY <1>1 DEF Terms

\* What a mask slot reads is an entry of the input.
LEMMA ReadingType ==
  ASSUME NEW q, Geometry(q), NEW i \in Rows(q), NEW k \in Nat, NEW j \in Serves(q, k)
  PROVE  Reading(q, i, j, k) \in 0 .. q.n - 1
<1>1. q.m \in Nat /\ q.n \in Nat \ {0} /\ q.shape.replicas \in Nat
  BY GeometryFacts
<1>2. i \in Nat /\ j \in Nat
  BY <1>1 DEF Rows, Serves, Diagonals
<1>3. i + j + k * q.shape.replicas \in Int
  BY <1>1, <1>2
<1>4. QED BY <1>1, <1>3, Division DEF Reading, InputRead

\* The terms of the groups from a to b and from b to c are disjoint and
\* together those from a to c.
LEMMA SpansJoin ==
  ASSUME NEW q, Geometry(q), NEW i \in Rows(q), NEW j \in Replicas(q),
         NEW a \in Nat, NEW b \in Nat, NEW c \in Nat, a <= b, b <= c
  PROVE  /\ Terms(q, i, j, a, b) \cap Terms(q, i, j, b, c) = {}
         /\ Terms(q, i, j, a, b) \cup Terms(q, i, j, b, c) = Terms(q, i, j, a, c)
<1>1. ASSUME NEW e \in Terms(q, i, j, a, b), e \in Terms(q, i, j, b, c)
      PROVE  FALSE
  <2>1. PICK k \in a .. b - 1 : j \in Serves(q, k) /\ e = TermOf(i, Reading(q, i, j, k))
    BY DEF Terms
  <2>2. PICK l \in b .. c - 1 : j \in Serves(q, l) /\ e = TermOf(i, Reading(q, i, j, l))
    BY <1>1 DEF Terms
  <2>3. k \in Nat /\ l \in Nat /\ k # l
    OBVIOUS
  <2>4. i \in Nat /\ q.n \in Nat \ {0} /\ q.shape.replicas \in 1 .. q.n
    <3>1. q.m \in Nat
      BY GeometryFacts
    <3>2. QED BY <3>1, GeometryFacts DEF Rows
  <2> DEFINE x == Reading(q, i, j, k)   y == Reading(q, i, j, l)
  <2>5. x \in 0 .. q.n - 1 /\ y \in 0 .. q.n - 1
    BY <2>1, <2>2, <2>3, ReadingType
  <2>6. x = y
    <3> HIDE DEF x, y
    <3>1. TermOf(i, x) = TermOf(i, y)
      BY <2>1, <2>2 DEF x, y
    <3>2. x \in Int /\ y \in Int /\ i \in Int
      BY <2>4, <2>5
    <3>3. QED BY <3>1, <3>2, TermsDiffer
  <2>7. \A u, v \in Nat : \A h \in Diagonals(q.n, q.shape.replicas, u),
                             g \in Diagonals(q.n, q.shape.replicas, v) :
          InputRead(q.n, i, h, u, q.shape.replicas) = x
          /\ InputRead(q.n, i, g, v, q.shape.replicas) = x => u = v /\ h = g
    <3> HIDE DEF x
    <3>1. QED BY <2>4, <2>5, EveryWeightOnce
  <2>8. k = l
    <3>1. /\ j \in Diagonals(q.n, q.shape.replicas, k) /\ j \in Diagonals(q.n, q.shape.replicas, l)
          /\ InputRead(q.n, i, j, k, q.shape.replicas) = x
          /\ InputRead(q.n, i, j, l, q.shape.replicas) = x
      BY <2>1, <2>2, <2>6 DEF Serves, Reading
    <3> HIDE DEF x, y
    <3>2. QED BY <2>3, <2>7, <3>1
  <2>9. QED BY <2>3, <2>8
<1>2. a .. c - 1 = (a .. b - 1) \cup (b .. c - 1)
  OBVIOUS
<1>3. Terms(q, i, j, a, b) \cup Terms(q, i, j, b, c) = Terms(q, i, j, a, c)
  BY <1>2 DEF Terms
<1>4. QED BY <1>1, <1>3

-----------------------------------------------------------------------------
(* One group of diagonals.  A register feeds group k if the slots its      *)
(* shifted mask names hold the inputs of their weights.                    *)
Fed(q, v, off, k) ==
  /\ DOMAIN v = Slots(q.batch)
  /\ \A i \in Rows(q), j \in Serves(q, k) :
       v[(At(q, i, j) + off) % q.batch] = SumOf({<<0, Reading(q, i, j, k)>>})

\* Weights and inputs are sequences of numbers.
LEMMA PairTypes ==
  /\ \A i, c \in Int : <<0, i, c>> \in Seq(Int)
  /\ \A c \in Int : <<0, c>> \in Seq(Int)
  OBVIOUS

(* The product of what feeds a group with the mask of the group.           *)
LEMMA GroupHolds ==
  ASSUME NEW q, Geometry(q), NEW k \in Nat, NEW off \in Int, NEW v, Fed(q, v, off, k)
  PROVE  Holding(q, Times(v, Shifted(q, k, off)), off, k, k + 1)
<1> DEFINE mask == Shifted(q, k, off)
<1>1. DOMAIN v = Slots(q.batch) /\ DOMAIN Times(v, mask) = Slots(q.batch)
  BY DEF Fed, Times
<1>2. ASSUME NEW i \in Rows(q), NEW j \in Replicas(q)
      PROVE  Times(v, mask)[(At(q, i, j) + off) % q.batch] = SumOf(Terms(q, i, j, k, k + 1))
  <2> DEFINE p == (At(q, i, j) + off) % q.batch   c == Reading(q, i, j, k)
             w == <<0, i, c>>   u == <<0, c>>
  <2>1. p \in DOMAIN v
    <3>1. At(q, i, j) \in Slots(q.batch) /\ q.batch \in Nat \ {0}
      BY AtInside, GeometryFacts
    <3>2. At(q, i, j) + off \in Int
      BY <3>1 DEF Slots
    <3>3. QED BY <1>1, <3>1, <3>2, SlotFacts
  <2>2. CASE j \in Serves(q, k)
    <3>1. NamesOnly(mask, p, w)
      BY <2>2, MaskNames
    <3>2. v[p] = SumOf({u})
      BY <2>2 DEF Fed
    <3>3. w \in Seq(Int) /\ u \in Seq(Int)
      <4>1. q.n \in Nat /\ q.m \in Nat
        BY GeometryFacts
      <4>2. c \in Int /\ i \in Int
        BY <2>2, <4>1, ReadingType DEF Rows
      <4> HIDE DEF c
      <4>3. QED BY <4>2, PairTypes
    <3>4. Terms(q, i, j, k, k + 1) = {w \o u}
      BY <2>2, GroupTerms DEF TermOf
    <3> HIDE DEF p, w, u, mask
    <3>5. Single(v, mask, p, w, u)
      BY <2>1, <3>1, <3>2, <3>3 DEF Single
    <3>6. Times(v, mask)[p] = SumOf({w \o u})
      BY <3>5, TimesOne
    <3>7. QED BY <3>4, <3>6 DEF p
  <2>3. CASE j \notin Serves(q, k)
    <3>1. Named(mask, p) = {}
      BY <2>3, MaskNames
    <3>2. Terms(q, i, j, k, k + 1) = {}
      BY <2>3, GroupTerms
    <3> HIDE DEF p, mask
    <3>3. Times(v, mask)[p] = SumOf({})
      BY <2>1, <3>1, TimesNone
    <3>4. QED BY <3>2, <3>3 DEF p
  <2>4. QED BY <2>2, <2>3
<1>3. QED BY <1>1, <1>2 DEF Holding

(* Two spans of groups, added.                                             *)
LEMMA HoldingJoin ==
  ASSUME NEW q, Geometry(q), NEW v, NEW w, NEW off \in Int,
         NEW a \in Nat, NEW b \in Nat, NEW c \in Nat, a <= b, b <= c,
         Holding(q, v, off, a, b), Holding(q, w, off, b, c)
  PROVE  Holding(q, Plus(v, w), off, a, c)
<1>1. DOMAIN v = Slots(q.batch) /\ DOMAIN Plus(v, w) = Slots(q.batch)
  BY DEF Holding, Plus
<1>2. ASSUME NEW i \in Rows(q), NEW j \in Replicas(q)
      PROVE  Plus(v, w)[(At(q, i, j) + off) % q.batch] = SumOf(Terms(q, i, j, a, c))
  <2> DEFINE p == (At(q, i, j) + off) % q.batch
             A == Terms(q, i, j, a, b)   B == Terms(q, i, j, b, c)
  <2>1. p \in Slots(q.batch)
    <3>1. At(q, i, j) \in Slots(q.batch) /\ q.batch \in Nat \ {0}
      BY AtInside, GeometryFacts
    <3>2. At(q, i, j) + off \in Int
      BY <3>1 DEF Slots
    <3>3. QED BY <3>1, <3>2, SlotFacts
  <2>2. v[p] = SumOf(A) /\ w[p] = SumOf(B)
    BY DEF Holding
  <2>3. A \cap B = {} /\ A \cup B = Terms(q, i, j, a, c)
    BY SpansJoin
  <2> HIDE DEF p, A, B
  <2>4. Plus(v, w)[p] = SumOf(A \cup B)
    BY <1>1, <2>1, <2>2, <2>3, PlusAt
  <2>5. QED BY <2>3, <2>4 DEF p
<1>3. QED BY <1>1, <1>2 DEF Holding

(* Rotated back.                                                           *)
LEMMA HoldingRoll ==
  ASSUME NEW q, Geometry(q), NEW v, NEW off \in Int, NEW a, NEW b, Holding(q, v, off, a, b)
  PROVE  Holding(q, Rotate(v, off), 0, a, b)
<1>1. DOMAIN v = Slots(q.batch) /\ q.batch \in Nat \ {0}
  BY GeometryFacts DEF Holding
<1>2. /\ DOMAIN Rotate(v, off) = Slots(q.batch)
      /\ \A p \in Int : Rotate(v, off)[p % q.batch] = v[(p + off) % q.batch]
  BY <1>1, RotateAt
<1>3. ASSUME NEW i \in Rows(q), NEW j \in Replicas(q)
      PROVE  Rotate(v, off)[(At(q, i, j) + 0) % q.batch] = SumOf(Terms(q, i, j, a, b))
  <2>1. At(q, i, j) \in Int
    BY AtInside DEF Slots
  <2>2. At(q, i, j) + 0 = At(q, i, j)
    BY <2>1
  <2>3. v[(At(q, i, j) + off) % q.batch] = SumOf(Terms(q, i, j, a, b))
    BY DEF Holding
  <2>4. QED BY <1>2, <2>1, <2>2, <2>3
<1>4. QED BY <1>2, <1>3 DEF Holding

(* The input, repeated through the windows.                                *)
Filled(q, x) ==
  /\ DOMAIN x = Slots(q.batch)
  /\ \A p \in 0 .. Windows(q) * q.shape.window - 1 : x[p] = Read(q.n, p)

(* Rotated by part of k * r, it feeds the mask of group k that is rotated  *)
(* by the rest.                                                            *)
LEMMA FilledFeeds ==
  ASSUME NEW q, Geometry(q), NEW x, Filled(q, x), NEW k \in Nat,
         NEW by \in Int, NEW off \in Int, by + off = k * q.shape.replicas
  PROVE  Fed(q, Rotate(x, by), off, k)
<1> DEFINE R == Windows(q) * q.shape.window   B == q.batch
<1>1. /\ q.m \in Nat \ {0} /\ q.n \in Nat \ {0} /\ B \in Nat \ {0}
      /\ Sound(q.shape, q.m, q.n, B) /\ R <= B
      /\ q.shape.replicas \in Nat /\ q.shape.window \in Nat /\ Windows(q) \in Nat
  BY GeometryFacts
<1>2. DOMAIN x = Slots(B) /\ \A p \in 0 .. R - 1 : x[p] = Read(q.n, p)
  BY DEF Filled
<1> HIDE DEF B
<1>3. /\ DOMAIN Rotate(x, by) = Slots(B)
      /\ \A p \in Int : Rotate(x, by)[p % B] = x[(p + by) % B]
  <2>1. DOMAIN x = Slots(B) /\ B \in Nat \ {0}
    BY <1>1, <1>2
  <2>2. QED BY <2>1, RotateAt
<1>4. ASSUME NEW i \in Rows(q), NEW j \in Serves(q, k)
      PROVE  Rotate(x, by)[(At(q, i, j) + off) % B] = SumOf({<<0, Reading(q, i, j, k)>>})
  <2> DEFINE p == At(q, i, j) + off   s == At(q, i, j) + k * q.shape.replicas
  <2>1. j \in Replicas(q)
    BY DEF Serves, Diagonals, Replicas
  <2>2. At(q, i, j) \in Int
    BY <2>1, AtInside DEF Slots
  <2>3. p \in Int /\ p + by = s /\ s \in Int
    <3> DEFINE c == At(q, i, j)   d == k * q.shape.replicas
    <3>1. c \in Int /\ d \in Int /\ by + off = d
      BY <1>1, <2>2
    <3> HIDE DEF c, d
    <3>2. (c + off) + by = c + d
      BY <3>1
    <3>3. QED BY <3>1, <3>2 DEF c, d
  <2>4. s \in 0 .. R - 1 /\ s % q.n = Reading(q, i, j, k)
    <3>1. i \in 0 .. q.m - 1 /\ j \in Diagonals(q.n, q.shape.replicas, k)
      BY DEF Rows, Serves
    <3>2. /\ MaskSlot(q.shape.window, i, j) + k * q.shape.replicas
               \in 0 .. (q.shape.replicas + q.shape.guard_windows) * q.shape.window - 1
          /\ (MaskSlot(q.shape.window, i, j) + k * q.shape.replicas) % q.n
               = InputRead(q.n, i, j, k, q.shape.replicas)
      <4> DEFINE mm == q.m   nn == q.n   sh == q.shape
      <4>1. /\ B \in Nat /\ mm \in Nat \ {0} /\ nn \in Nat \ {0} /\ Sound(sh, mm, nn, B)
            /\ i \in 0 .. mm - 1 /\ j \in Diagonals(nn, sh.replicas, k)
        BY <1>1, <3>1
      <4> HIDE DEF mm, nn, sh
      <4>2. /\ MaskSlot(sh.window, i, j) + k * sh.replicas
                 \in 0 .. (sh.replicas + sh.guard_windows) * sh.window - 1
            /\ (MaskSlot(sh.window, i, j) + k * sh.replicas) % nn = InputRead(nn, i, j, k, sh.replicas)
        BY <4>1, ReadIsFilled
      <4>3. QED BY <4>2 DEF mm, nn, sh
    <3>3. QED BY <3>2 DEF At, Reading, Windows
  <2>5. x[s] = SumOf({<<0, Reading(q, i, j, k)>>})
    BY <1>2, <2>4 DEF Read
  <2>6. s % B = s
    <3>1. s \in Slots(B)
      <4> HIDE DEF R, s
      <4>1. R \in Int
        BY <1>1 DEF R
      <4>2. QED BY <1>1, <2>4, <4>1 DEF Slots
    <3>2. QED BY <1>1, <3>1, SlotFacts
  <2> HIDE DEF p, s
  <2>7. Rotate(x, by)[p % B] = x[s]
    BY <1>3, <2>3, <2>6
  <2>8. QED BY <2>5, <2>7 DEF p
<1>5. QED BY <1>3, <1>4 DEF Fed, B

(* The mask of a group as it is.                                           *)
LEMMA Unshifted ==
  ASSUME NEW q, Geometry(q), NEW k \in Nat
  PROVE  CombinedMask(0, q.m, q.n, k, q.shape) = Shifted(q, k, 0)
<1> DEFINE C == CombinedMask(0, q.m, q.n, k, q.shape)
<1>1. ASSUME NEW e \in C
      PROVE  e = <<(e[1] + 0) % q.batch, e[2]>>
  <2>1. PICK i \in Rows(q), j \in Serves(q, k) :
          e = <<At(q, i, j), <<0, i, Reading(q, i, j, k)>> >>
    BY DEF CombinedMask, Rows, Serves, At, Reading
  <2>2. j \in Replicas(q)
    BY DEF Serves, Diagonals, Replicas
  <2> DEFINE c == At(q, i, j)
  <2>3. c \in Slots(q.batch) /\ q.batch \in Nat \ {0}
    BY <2>2, AtInside, GeometryFacts
  <2> HIDE DEF c
  <2>4. c % q.batch = c /\ c + 0 = c
    <3>1. c \in Int
      BY <2>3 DEF Slots
    <3>2. QED BY <2>3, <3>1, SlotFacts
  <2>5. e = <<c, e[2]>> /\ e[1] = c
    BY <2>1 DEF c
  <2>6. QED BY <2>4, <2>5
<1> HIDE DEF C
<1>2. {<<(e[1] + 0) % q.batch, e[2]>> : e \in C} = C
  BY <1>1
<1>3. QED BY <1>2 DEF Shifted, RotateMask, C

-----------------------------------------------------------------------------
(* A loop, its rounds counted from 0.                                      *)
Laps(u, f, n, s, t, batch) ==
  /\ u[0] = s /\ u[n] = t
  /\ \A k \in 0 .. n - 1 : Runs(f[k], u[k], u[k + 1], batch)

\* A loop passes through a state after each lap.
LEMMA RunsEach ==
  ASSUME NEW n \in Nat, NEW f \in [0 .. n - 1 -> Seq(Instructions)], NEW s, NEW t, NEW batch,
         Runs(FlattenSeq([k \in 1 .. n |-> f[k - 1]]), s, t, batch)
  PROVE  \E u : Laps(u, f, n, s, t, batch)
<1> DEFINE V == Seq(Instructions)   g == [k \in 1 .. n |-> f[k - 1]]
<1> HIDE DEF V
<1>1. g \in [1 .. n -> V] /\ \A k \in 0 .. n - 1 : k + 1 \in 1 .. n /\ g[k + 1] = f[k] /\ (k + 1) - 1 = k
  <2>1. \A k \in 1 .. n : k - 1 \in 0 .. n - 1
    OBVIOUS
  <2>2. f \in [0 .. n - 1 -> V]
    BY DEF V
  <2>3. QED BY <2>1, <2>2
<1> HIDE DEF g
<1>2. PICK u : Rounds(u, g, n, s, t, batch)
  BY <1>1, RunsLoop DEF V, g
<1>3. u[0] = s /\ u[n] = t /\ \A k \in 1 .. n : Runs(g[k], u[k - 1], u[k], batch)
  BY <1>2 DEF Rounds
<1>4. \A k \in 0 .. n - 1 : Runs(f[k], u[k], u[k + 1], batch)
  <2> TAKE k \in 0 .. n - 1
  <2>1. Runs(g[k + 1], u[(k + 1) - 1], u[k + 1], batch)
    BY <1>1, <1>3
  <2>2. QED BY <1>1, <2>1
<1>5. QED BY <1>3, <1>4 DEF Laps

\* A loop of programs is a program.
LEMMA EachType ==
  ASSUME NEW n \in Nat, NEW f \in [0 .. n - 1 -> Seq(Instructions)]
  PROVE  FlattenSeq([k \in 1 .. n |-> f[k - 1]]) \in Seq(Instructions)
<1> DEFINE V == Seq(Instructions)   g == [k \in 1 .. n |-> f[k - 1]]
<1> HIDE DEF V
<1>1. g \in [1 .. n -> V]
  <2>1. \A k \in 1 .. n : k - 1 \in 0 .. n - 1
    OBVIOUS
  <2>2. f \in [0 .. n - 1 -> V]
    BY DEF V
  <2>3. QED BY <2>1, <2>2
<1> HIDE DEF g
<1>2. g \in Seq(V)
  BY <1>1
<1>3. QED BY <1>2, FlattenedType DEF V, g

\* The mask of a group, rotated or not, is a mask.
LEMMA MaskType ==
  ASSUME NEW q, Geometry(q), NEW k \in Nat, NEW off \in Int
  PROVE  Shifted(q, k, off) \in Masks
<1> DEFINE C == CombinedMask(0, q.m, q.n, k, q.shape)
<1>1. ASSUME NEW e \in C
      PROVE  e[1] \in Int /\ e[2] \in Weights
  <2>1. PICK i \in Rows(q), j \in Serves(q, k) :
          e = <<At(q, i, j), <<0, i, Reading(q, i, j, k)>> >>
    BY DEF CombinedMask, Rows, Serves, At, Reading
  <2>2. j \in Replicas(q)
    BY DEF Serves, Diagonals, Replicas
  <2>3. At(q, i, j) \in Int
    BY <2>2, AtInside DEF Slots
  <2>4. Reading(q, i, j, k) \in Int /\ i \in Int
    <3>1. q.n \in Nat /\ q.m \in Nat
      BY GeometryFacts
    <3>2. QED BY <3>1, ReadingType DEF Rows
  <2> DEFINE a == At(q, i, j)   w == <<0, i, Reading(q, i, j, k)>>
  <2>5. w \in Seq(Int)
    BY <2>4, PairTypes
  <2> HIDE DEF a, w
  <2>6. e[1] = a /\ e[2] = w
    BY <2>1 DEF a, w
  <2>7. QED BY <2>3, <2>5, <2>6 DEF a, Weights
<1>2. ASSUME NEW e \in C
      PROVE  (e[1] + off) % q.batch \in Int
  <2> DEFINE a == e[1] + off   b == q.batch
  <2>1. b \in Nat \ {0} /\ a \in Int
    BY <1>1, <1>2, GeometryFacts
  <2> HIDE DEF a, b
  <2>2. a % b \in Int
    BY <2>1, Division
  <2>3. QED BY <2>2 DEF a, b
<1> HIDE DEF C
<1>3. {<<(e[1] + off) % q.batch, e[2]>> : e \in C} \in SUBSET (Int \X Weights)
  BY <1>1, <1>2
<1>4. QED BY <1>3 DEF Shifted, RotateMask, C, Masks

\* Accumulate is a program.
LEMMA AccumulateType ==
  ASSUME NEW to \in Nat, NEW first \in BOOLEAN
  PROVE  Accumulate(to, first) \in Seq(Instructions)
<1> DEFINE V == Instructions   a == Copy(to, Term)   b == Add(to, to, Term)
<1>1. a \in V /\ b \in V
  BY InstructionTypes
<1> HIDE DEF V, a, b
<1>2. <<a>> \in Seq(V) /\ <<b>> \in Seq(V)
  BY <1>1
<1>3. QED BY <1>2 DEF Accumulate, V, a, b

(* What a register has of a sum of groups; of no group, nothing.           *)
Partial(s, q, to, off, a, b) ==
  a = b \/ \E v : Stores(s, to, v, 1) /\ Holding(q, v, off, a, b)

Adding(s, t, q, to, first, off, a, b, c) ==
  /\ Geometry(q) /\ to \in {Acc, Inner} /\ off \in Int
  /\ a \in Nat /\ b \in Nat /\ c \in Nat /\ a <= b /\ b < c
  /\ first \in BOOLEAN /\ (first <=> a = b)
  /\ Partial(s, q, to, off, a, b)
  /\ \E w : Stores(s, Term, w, 1) /\ Holding(q, w, off, b, c)
  /\ Runs(Accumulate(to, first), s, t, q.batch)

\* Accumulate adds the terms of Term to those the register has, or starts it.
LEMMA RunAccumulate ==
  ASSUME NEW s, NEW t, NEW q, NEW to, NEW first, NEW off, NEW a, NEW b, NEW c,
         Adding(s, t, q, to, first, off, a, b, c)
  PROVE  /\ Partial(t, q, to, off, a, c) /\ Keeps(s, t, {to})
         /\ t.rolls = s.rolls /\ t.mults = s.mults
<1>0. /\ Geometry(q) /\ to \in {Acc, Inner} /\ off \in Int
      /\ a \in Nat /\ b \in Nat /\ c \in Nat /\ a <= b /\ b < c
      /\ first \in BOOLEAN /\ (first <=> a = b)
      /\ Partial(s, q, to, off, a, b)
      /\ Runs(Accumulate(to, first), s, t, q.batch)
  BY DEF Adding
<1>1. PICK w : Stores(s, Term, w, 1) /\ Holding(q, w, off, b, c)
  BY DEF Adding
<1>2. CASE first
  <2>1. Runs(<<Copy(to, Term)>>, s, t, q.batch)
    BY <1>0, <1>2 DEF Accumulate
  <2>2. Stores(t, to, w, 1) /\ Keeps(s, t, {to}) /\ t.rolls = s.rolls /\ t.mults = s.mults
    BY <1>1, <2>1, RunCopy
  <2>3. Holding(q, w, off, a, c)
    BY <1>0, <1>1, <1>2
  <2>4. QED BY <2>2, <2>3 DEF Partial
<1>3. CASE ~ first
  <2>1. Runs(<<Add(to, to, Term)>>, s, t, q.batch)
    BY <1>0, <1>3 DEF Accumulate
  <2>2. PICK v : Stores(s, to, v, 1) /\ Holding(q, v, off, a, b)
    BY <1>0, <1>3 DEF Partial
  <2>3. Stores(t, to, Plus(v, w), 1) /\ Keeps(s, t, {to}) /\ t.rolls = s.rolls /\ t.mults = s.mults
    <3>1. 1 \in Nat
      OBVIOUS
    <3>2. QED BY <1>1, <2>1, <2>2, <3>1, RunAdd
  <2>4. Holding(q, Plus(v, w), off, a, c)
    <3>1. b <= c
      BY <1>0
    <3>2. QED BY <1>0, <1>1, <2>2, <3>1, HoldingJoin
  <2>5. QED BY <2>3, <2>4 DEF Partial
<1>4. QED BY <1>0, <1>2, <1>3

-----------------------------------------------------------------------------
(* The unshared schedule: every group rotates the input by itself.         *)
DirectGroup(q, k) ==
  <<Roll(Term, Base, k * q.shape.replicas),
    Mult(Term, Term, CombinedMask(0, q.m, q.n, k, q.shape))>> \o Accumulate(Acc, k = 0)

DirectLap(s, t, q, k, x) ==
  /\ Geometry(q) /\ k \in Nat /\ Filled(q, x) /\ Stores(s, Base, x, 0)
  /\ s.rolls \in Seq(Int) /\ Partial(s, q, Acc, 0, 0, k)
  /\ Runs(DirectGroup(q, k), s, t, q.batch)

\* One group of the unshared schedule is a program.
LEMMA DirectGroupType ==
  ASSUME NEW q, Geometry(q), NEW k \in Nat
  PROVE  /\ <<Roll(Term, Base, k * q.shape.replicas),
              Mult(Term, Term, CombinedMask(0, q.m, q.n, k, q.shape))>> \in Seq(Instructions)
         /\ Accumulate(Acc, k = 0) \in Seq(Instructions)
         /\ DirectGroup(q, k) \in Seq(Instructions)
<1> DEFINE V == Instructions
           by == k * q.shape.replicas   mask == CombinedMask(0, q.m, q.n, k, q.shape)
           a == Roll(Term, Base, by)   b == Mult(Term, Term, mask)
           c == Accumulate(Acc, k = 0)
<1>1. by \in Int
  <2>1. q.shape.replicas \in Nat
    BY GeometryFacts
  <2>2. QED BY <2>1
<1>2. mask \in Masks
  <2>1. 0 \in Int
    OBVIOUS
  <2>2. Shifted(q, k, 0) \in Masks /\ mask = Shifted(q, k, 0)
    BY <2>1, MaskType, Unshifted
  <2>3. QED BY <2>2
<1> HIDE DEF by, mask
<1>3. a \in V /\ b \in V
  BY <1>1, <1>2, InstructionTypes
<1>4. c \in Seq(V)
  <2>1. (k = 0) \in BOOLEAN /\ Acc \in Nat
    BY InstructionTypes
  <2>2. QED BY <2>1, AccumulateType
<1> HIDE DEF V, a, b, c
<1>5. <<a, b>> \in Seq(V) /\ <<a, b>> \o c \in Seq(V)
  BY <1>3, <1>4
<1>6. QED BY <1>4, <1>5 DEF DirectGroup, V, a, b, c, by, mask

\* One group of the unshared schedule adds the terms of its diagonals, by one
\* rotation and one product.
LEMMA RunDirectGroup ==
  ASSUME NEW s, NEW t, NEW q, NEW k, NEW x, DirectLap(s, t, q, k, x)
  PROVE  /\ Partial(t, q, Acc, 0, 0, k + 1) /\ Keeps(s, t, {Term, Acc})
         /\ Rolls(s, t, IF k * q.shape.replicas = 0 THEN 0 ELSE 1, {k * q.shape.replicas} \ {0})
         /\ t.mults = s.mults + 1
<1>0. /\ Geometry(q) /\ k \in Nat /\ Filled(q, x) /\ Stores(s, Base, x, 0)
      /\ s.rolls \in Seq(Int) /\ Partial(s, q, Acc, 0, 0, k)
      /\ Runs(DirectGroup(q, k), s, t, q.batch)
  BY DEF DirectLap
<1> DEFINE by == k * q.shape.replicas   mask == CombinedMask(0, q.m, q.n, k, q.shape)
           y == Rotate(x, by)   w == Times(y, mask)
<1>1. by \in Int /\ mask = Shifted(q, k, 0)
  <2>1. q.shape.replicas \in Nat
    BY <1>0, GeometryFacts
  <2>2. QED BY <1>0, <2>1, Unshifted
<1>2. Holding(q, w, 0, k, k + 1)
  <2>1. Fed(q, y, 0, k)
    <3>1. by + 0 = k * q.shape.replicas /\ 0 \in Int
      BY <1>1
    <3> HIDE DEF by
    <3>2. QED BY <1>0, <1>1, <3>1, FilledFeeds
  <2>2. 0 \in Int
    OBVIOUS
  <2> HIDE DEF y
  <2>3. QED BY <1>0, <1>1, <2>1, <2>2, GroupHolds
<1>3. PICK s2 : /\ Runs(<<Roll(Term, Base, by), Mult(Term, Term, mask)>>, s, s2, q.batch)
                /\ Runs(Accumulate(Acc, k = 0), s2, t, q.batch)
  <2> DEFINE c == <<Roll(Term, Base, by), Mult(Term, Term, mask)>>   d == Accumulate(Acc, k = 0)
  <2>1. c \in Seq(Instructions) /\ d \in Seq(Instructions)
    BY <1>0, DirectGroupType
  <2>2. Runs(c \o d, s, t, q.batch)
    BY <1>0 DEF DirectGroup
  <2> HIDE DEF c, d
  <2>3. \E u : Runs(c, s, u, q.batch) /\ Runs(d, u, t, q.batch)
    BY <2>1, <2>2, RunsBoth
  <2>4. QED BY <2>3 DEF c, d
<1> HIDE DEF by, mask
<1>4. PICK s1 : /\ Runs(<<Roll(Term, Base, by)>>, s, s1, q.batch)
                /\ Runs(<<Mult(Term, Term, mask)>>, s1, s2, q.batch)
  BY <1>3, RunsTwo
<1>5. /\ Stores(s1, Term, y, 0) /\ Keeps(s, s1, {Term})
      /\ Rolls(s, s1, IF by = 0 THEN 0 ELSE 1, {by} \ {0}) /\ s1.mults = s.mults
  BY <1>0, <1>1, <1>4, RunRoll
<1> HIDE DEF y
<1>6. /\ Stores(s2, Term, w, 1) /\ Keeps(s1, s2, {Term})
      /\ s2.rolls = s1.rolls /\ s2.mults = s1.mults + 1
  <2>1. Stores(s2, Term, w, 0 + 1) /\ Keeps(s1, s2, {Term})
        /\ s2.rolls = s1.rolls /\ s2.mults = s1.mults + 1
    BY <1>4, <1>5, RunMult
  <2>2. 0 + 1 = 1
    OBVIOUS
  <2>3. QED BY <2>1, <2>2
<1> HIDE DEF w
<1>7. Partial(s2, q, Acc, 0, 0, k)
  <2>1. CASE k = 0
    BY <2>1 DEF Partial
  <2>2. CASE k # 0
    <3>1. PICK v : Stores(s, Acc, v, 1) /\ Holding(q, v, 0, 0, k)
      BY <1>0, <2>2 DEF Partial
    <3>2. Acc \notin {Term}
      BY DEF Acc, Term
    <3>3. Stores(s2, Acc, v, 1)
      BY <1>5, <1>6, <3>1, <3>2, KeepsStored
    <3>4. QED BY <3>1, <3>3 DEF Partial
  <2>3. QED BY <2>1, <2>2
<1>8. Adding(s2, t, q, Acc, k = 0, 0, 0, k, k + 1)
  BY <1>0, <1>2, <1>3, <1>6, <1>7 DEF Adding
<1>9. /\ Partial(t, q, Acc, 0, 0, k + 1) /\ Keeps(s2, t, {Acc})
      /\ t.rolls = s2.rolls /\ t.mults = s2.mults
  <2> DEFINE first == k = 0   c == k + 1   zero == 0
  <2>1. Adding(s2, t, q, Acc, first, zero, zero, k, c)
    BY <1>8
  <2> HIDE DEF first, c, zero
  <2>2. /\ Partial(t, q, Acc, zero, zero, c) /\ Keeps(s2, t, {Acc})
        /\ t.rolls = s2.rolls /\ t.mults = s2.mults
    BY <2>1, RunAccumulate
  <2>3. QED BY <2>2 DEF c, zero
<1>10. Keeps(s, t, {Term, Acc})
  BY <1>5, <1>6, <1>9 DEF Keeps
<1>11. Rolls(s, t, IF by = 0 THEN 0 ELSE 1, {by} \ {0})
  BY <1>5, <1>6, <1>9 DEF Rolls
<1>12. t.mults = s.mults + 1
  BY <1>5, <1>6, <1>9
<1>13. QED BY <1>9, <1>10, <1>11, <1>12 DEF by

(* What the groups must leave: all products, in one register, at the cost  *)
(* the planners count on.                                                  *)
GroupRolls(q) ==
  IF q.baby_step = 0 THEN Groups(q) - 1
  ELSE q.baby_step - 1 + CeilDiv(Groups(q), q.baby_step) - 1
GroupOffsets(q) ==
  IF q.baby_step > 1
  THEN {i * q.shape.replicas : i \in 1 .. q.baby_step - 1}
       \cup {g * q.baby_step * q.shape.replicas : g \in 1 .. CeilDiv(Groups(q), q.baby_step) - 1}
  ELSE {k * q.shape.replicas : k \in 1 .. Groups(q) - 1}
Grouped(s, t, q) ==
  /\ \E v : Stores(t, Work, v, 1) /\ Holding(q, v, 0, 0, Groups(q))
  /\ Rolls(s, t, GroupRolls(q), GroupOffsets(q))
  /\ t.mults = s.mults + Groups(q)

(* A register holds the input in every window, and nothing is multiplied.  *)
Given(s, q, x) ==
  /\ Geometry(q) /\ Filled(q, x) /\ Stores(s, Work, x, 0)
  /\ s.rolls \in Seq(Int) /\ s.mults \in Nat

DirectLoop(q) == FlattenSeq([k \in 1 .. Groups(q) |-> DirectGroup(q, k - 1)])

\* The unshared schedule is a loop over its groups.
LEMMA DirectLaps ==
  ASSUME NEW q, Geometry(q)
  PROVE  LET f == [k \in 0 .. Groups(q) - 1 |-> DirectGroup(q, k)]
         IN  /\ f \in [0 .. Groups(q) - 1 -> Seq(Instructions)]
             /\ DirectLoop(q) = FlattenSeq([k \in 1 .. Groups(q) |-> f[k - 1]])
             /\ DirectLoop(q) \in Seq(Instructions)
<1> DEFINE G == Groups(q)   V == Seq(Instructions)
           f == [k \in 0 .. G - 1 |-> DirectGroup(q, k)]
<1>1. G \in Nat \ {0}
  BY GeometryFacts
<1>2. \A k \in 0 .. G - 1 : DirectGroup(q, k) \in V
  <2>1. \A k \in 0 .. G - 1 : k \in Nat
    BY <1>1
  <2>2. QED BY <2>1, DirectGroupType
<1> HIDE DEF V
<1>3. f \in [0 .. G - 1 -> V]
  BY <1>2
<1>4. [k \in 1 .. G |-> DirectGroup(q, k - 1)] = [k \in 1 .. G |-> f[k - 1]]
  <2>1. \A k \in 1 .. G : k - 1 \in 0 .. G - 1
    BY <1>1
  <2>2. QED BY <2>1
<1> HIDE DEF f
<1>5. FlattenSeq([k \in 1 .. G |-> f[k - 1]]) \in Seq(Instructions)
  BY <1>1, <1>3, EachType DEF V
<1>6. QED BY <1>3, <1>4, <1>5 DEF DirectLoop, G, f, V

DirectRun(s, s1, s2, t, q, x) ==
  /\ Given(s, q, x) /\ q.baby_step = 0
  /\ Runs(<<Copy(Base, Work)>>, s, s1, q.batch)
  /\ Runs(DirectLoop(q), s1, s2, q.batch)
  /\ Runs(<<Copy(Work, Acc)>>, s2, t, q.batch)

\* The unshared schedule collects the terms of all groups in the slots of the
\* masks.
LEMMA RunDirect ==
  ASSUME NEW s, NEW s1, NEW s2, NEW t, NEW q, NEW x, DirectRun(s, s1, s2, t, q, x)
  PROVE  Grouped(s, t, q)
<1>0. /\ Geometry(q) /\ Filled(q, x) /\ Stores(s, Work, x, 0)
      /\ s.rolls \in Seq(Int) /\ s.mults \in Nat /\ q.baby_step = 0
      /\ Runs(<<Copy(Base, Work)>>, s, s1, q.batch)
      /\ Runs(DirectLoop(q), s1, s2, q.batch)
      /\ Runs(<<Copy(Work, Acc)>>, s2, t, q.batch)
  BY DEF DirectRun, Given
<1> DEFINE G == Groups(q)   r == q.shape.replicas
           f == [k \in 0 .. G - 1 |-> DirectGroup(q, k)]
           K == {k * r : k \in 1 .. G - 1}
           count(k) == IF k = 0 THEN 0 ELSE k - 1
<1>1. G \in Nat \ {0} /\ r \in Nat \ {0}
  BY <1>0, GeometryFacts
<1>2. Stores(s1, Base, x, 0) /\ s1.rolls = s.rolls /\ s1.mults = s.mults
  BY <1>0, RunCopy
<1>3. PICK u : Laps(u, f, G, s1, s2, q.batch)
  <2>1. /\ f \in [0 .. G - 1 -> Seq(Instructions)]
        /\ DirectLoop(q) = FlattenSeq([k \in 1 .. G |-> f[k - 1]])
    BY <1>0, DirectLaps
  <2> HIDE DEF f, G
  <2>2. QED BY <1>0, <1>1, <2>1, RunsEach
<1>4. u[0] = s1 /\ u[G] = s2 /\ \A k \in 0 .. G - 1 : Runs(f[k], u[k], u[k + 1], q.batch)
  BY <1>3 DEF Laps
<1>5. \A k \in 0 .. G - 1 : f[k] = DirectGroup(q, k)
  OBVIOUS
<1> HIDE DEF f, G, r
<1> DEFINE Going(k) == /\ Stores(u[k], Base, x, 0) /\ Partial(u[k], q, Acc, 0, 0, k)
                       /\ Rolls(s1, u[k], count(k), K) /\ u[k].mults = s1.mults + k
           S == {k \in 0 .. G : Going(k)}
<1>6. 0 \in S
  <2>1. Rolls(s1, s1, 0, K)
    BY <1>0, <1>2, RollsStay
  <2>2. Partial(s1, q, Acc, 0, 0, 0)
    BY DEF Partial
  <2>3. s1.mults + 0 = s1.mults /\ 0 \in 0 .. G
    BY <1>0, <1>1, <1>2
  <2>4. QED BY <1>2, <1>4, <2>1, <2>2, <2>3
<1>7. ASSUME NEW k \in 0 .. G - 1, k \in S
      PROVE  k + 1 \in S
  <2> DEFINE a == u[k]   b == u[k + 1]   by == k * r
  <2>1. /\ Stores(a, Base, x, 0) /\ Partial(a, q, Acc, 0, 0, k)
        /\ Rolls(s1, a, count(k), K) /\ a.mults = s1.mults + k
    BY <1>7
  <2>2. k \in Nat /\ k + 1 \in 0 .. G /\ k + 1 # 0 /\ (k + 1) - 1 = k
    BY <1>1
  <2>3. Runs(DirectGroup(q, k), a, b, q.batch)
    BY <1>4, <1>5
  <2>4. a.rolls \in Seq(Int)
    BY <2>1 DEF Rolls
  <2> HIDE DEF a, b
  <2>5. DirectLap(a, b, q, k, x)
    BY <1>0, <2>1, <2>2, <2>3, <2>4 DEF DirectLap
  <2>6. /\ Partial(b, q, Acc, 0, 0, k + 1) /\ Keeps(a, b, {Term, Acc})
        /\ Rolls(a, b, IF by = 0 THEN 0 ELSE 1, {by} \ {0}) /\ b.mults = a.mults + 1
    BY <2>5, RunDirectGroup DEF r
  <2>7. Stores(b, Base, x, 0)
    <3>1. Base \notin {Term, Acc}
      BY DEF Base, Term, Acc
    <3>2. QED BY <2>1, <2>6, <3>1, KeepsStored
  <2>8. (by = 0 <=> k = 0) /\ {by} \ {0} \subseteq K
    <3>1. CASE k = 0
      <4>1. by = 0
        BY <1>1, <3>1
      <4>2. QED BY <3>1, <4>1
    <3>2. CASE k # 0
      <4>1. k \in 1 .. G - 1
        BY <2>2, <3>2
      <4>2. by # 0
        BY <1>1, <2>2, <3>2
      <4>3. by \in K
        BY <4>1
      <4>4. QED BY <3>2, <4>2, <4>3
    <3>3. QED BY <3>1, <3>2
  <2> DEFINE one == IF k = 0 THEN 0 ELSE 1   c == count(k)
  <2>9. Rolls(a, b, one, K)
    <3>1. Rolls(a, b, one, {by} \ {0})
      BY <2>6, <2>8
    <3> HIDE DEF one, by, K
    <3>2. QED BY <2>8, <3>1, RollsMore
  <2>10. c \in Int /\ one \in Int /\ c + one = count(k + 1)
    BY <2>2
  <2>11. Rolls(s1, b, count(k + 1), K)
    <3>1. Rolls(s1, a, c, K)
      BY <2>1
    <3> HIDE DEF one, c, count, K
    <3>2. Rolls(s1, b, c + one, K \cup K)
      BY <2>9, <2>10, <3>1, RollsOn
    <3>3. QED BY <2>10, <3>2
  <2>12. b.mults = s1.mults + (k + 1)
    <3>1. s1.mults \in Nat
      BY <1>0, <1>2
    <3> DEFINE d == s1.mults   e == b.mults   h == a.mults
    <3>2. d \in Nat /\ h = d + k /\ e = h + 1
      BY <2>1, <2>6, <3>1
    <3> HIDE DEF d, e, h
    <3>3. e = d + (k + 1)
      BY <2>2, <3>2
    <3>4. QED BY <3>3 DEF d, e
  <2>13. Going(k + 1)
    BY <2>6, <2>7, <2>11, <2>12 DEF b
  <2> HIDE DEF Going
  <2>14. QED BY <2>2, <2>13
<1> HIDE DEF S
<1>8. \A k \in 0 .. G : k \in S
  BY <1>1, <1>6, <1>7, Climb
<1>9. Going(G)
  <2>1. G \in 0 .. G
    BY <1>1
  <2>2. QED BY <1>8, <2>1 DEF S
<1>10. PICK v : Stores(s2, Acc, v, 1) /\ Holding(q, v, 0, 0, G)
  BY <1>1, <1>4, <1>9 DEF Partial
<1>11. Stores(t, Work, v, 1) /\ t.rolls = s2.rolls /\ t.mults = s2.mults
  BY <1>0, <1>10, RunCopy
<1>12. Rolls(s, t, G - 1, K)
  <2>1. count(G) = G - 1 /\ Rolls(s1, s2, count(G), K)
    BY <1>1, <1>4, <1>9
  <2> HIDE DEF count
  <2>2. QED BY <1>2, <1>11, <2>1 DEF Rolls
<1>13. t.mults = s.mults + G
  BY <1>2, <1>4, <1>9, <1>11
<1>14. GroupRolls(q) = G - 1 /\ GroupOffsets(q) = K
  <2>1. ~ (q.baby_step > 1)
    BY <1>0
  <2>2. QED BY <1>0, <2>1 DEF GroupRolls, GroupOffsets, G, r
<1>15. \E w : Stores(t, Work, w, 1) /\ Holding(q, w, 0, 0, Groups(q))
  BY <1>10, <1>11 DEF G
<1> HIDE DEF K, Going
<1>16. QED BY <1>12, <1>13, <1>14, <1>15 DEF Grouped, G

-----------------------------------------------------------------------------
(* The shared schedule.  First the baby rotations of the input.            *)
Babies(s, q, x, n) ==
  \A i \in 0 .. n - 1 : Stores(s, Baby(i), Rotate(x, i * q.shape.replicas), 0)
BabyRoll(q, i) == <<Roll(Baby(i), Work, i * q.shape.replicas)>>
BabyLoop(q) == FlattenSeq([k \in 1 .. q.baby_step |-> BabyRoll(q, k - 1)])
BabyRegisters(q) == {Baby(i) : i \in 0 .. q.baby_step - 1}

\* The baby rotations are a loop.
LEMMA BabyLaps ==
  ASSUME NEW q, Geometry(q)
  PROVE  LET f == [k \in 0 .. q.baby_step - 1 |-> BabyRoll(q, k)]
         IN  /\ f \in [0 .. q.baby_step - 1 -> Seq(Instructions)]
             /\ BabyLoop(q) = FlattenSeq([k \in 1 .. q.baby_step |-> f[k - 1]])
             /\ BabyLoop(q) \in Seq(Instructions)
<1> DEFINE G == q.baby_step   V == Seq(Instructions)
           f == [k \in 0 .. G - 1 |-> BabyRoll(q, k)]
<1>1. G \in Nat /\ q.shape.replicas \in Nat
  BY GeometryFacts
<1>2. ASSUME NEW k \in 0 .. G - 1
      PROVE  BabyRoll(q, k) \in V
  <2> DEFINE a == Roll(Baby(k), Work, k * q.shape.replicas)
  <2>1. Baby(k) \in Nat /\ k * q.shape.replicas \in Int
    BY <1>1 DEF Baby
  <2>2. a \in Instructions
    BY <2>1, InstructionTypes
  <2> HIDE DEF a
  <2>3. <<a>> \in V
    BY <2>2
  <2>4. QED BY <2>3 DEF BabyRoll, a
<1> HIDE DEF V
<1>3. f \in [0 .. G - 1 -> V]
  BY <1>2
<1>4. [k \in 1 .. G |-> BabyRoll(q, k - 1)] = [k \in 1 .. G |-> f[k - 1]]
  <2>1. \A k \in 1 .. G : k - 1 \in 0 .. G - 1
    BY <1>1
  <2>2. QED BY <2>1
<1> HIDE DEF f
<1>5. FlattenSeq([k \in 1 .. G |-> f[k - 1]]) \in Seq(Instructions)
  BY <1>1, <1>3, EachType DEF V
<1>6. QED BY <1>3, <1>4, <1>5 DEF BabyLoop, G, f, V

BabyRun(s, t, q, x) ==
  Given(s, q, x) /\ q.baby_step # 0 /\ Runs(BabyLoop(q), s, t, q.batch)

\* Every baby register holds the input rotated by its step, for one rotation
\* less than there are babies.
LEMMA RunBabies ==
  ASSUME NEW s, NEW t, NEW q, NEW x, BabyRun(s, t, q, x)
  PROVE  /\ Babies(t, q, x, q.baby_step) /\ t.mults = s.mults
         /\ Rolls(s, t, q.baby_step - 1, {i * q.shape.replicas : i \in 1 .. q.baby_step - 1})
<1>0. /\ Geometry(q) /\ Filled(q, x) /\ Stores(s, Work, x, 0)
      /\ s.rolls \in Seq(Int) /\ s.mults \in Nat /\ q.baby_step # 0
      /\ Runs(BabyLoop(q), s, t, q.batch)
  BY DEF BabyRun, Given
<1> DEFINE G == q.baby_step   r == q.shape.replicas
           f == [k \in 0 .. G - 1 |-> BabyRoll(q, k)]
           K == {k * r : k \in 1 .. G - 1}
           count(k) == IF k = 0 THEN 0 ELSE k - 1
<1>1. G \in Nat \ {0} /\ r \in Nat \ {0}
  BY <1>0, GeometryFacts
<1>3. PICK u : Laps(u, f, G, s, t, q.batch)
  <2>1. /\ f \in [0 .. G - 1 -> Seq(Instructions)]
        /\ BabyLoop(q) = FlattenSeq([k \in 1 .. G |-> f[k - 1]])
    BY <1>0, BabyLaps
  <2> HIDE DEF f, G
  <2>2. QED BY <1>0, <1>1, <2>1, RunsEach
<1>4. u[0] = s /\ u[G] = t /\ \A k \in 0 .. G - 1 : Runs(f[k], u[k], u[k + 1], q.batch)
  BY <1>3 DEF Laps
<1>5. \A k \in 0 .. G - 1 : f[k] = BabyRoll(q, k)
  OBVIOUS
<1> HIDE DEF f, G, r
<1> DEFINE Going(k) == /\ Stores(u[k], Work, x, 0) /\ Babies(u[k], q, x, k)
                       /\ Rolls(s, u[k], count(k), K) /\ u[k].mults = s.mults
           S == {k \in 0 .. G : Going(k)}
<1>6. 0 \in S
  <2>1. Rolls(s, s, 0, K)
    BY <1>0, RollsStay
  <2>2. Babies(s, q, x, 0)
    BY DEF Babies
  <2>3. 0 \in 0 .. G
    BY <1>1
  <2>4. QED BY <1>0, <1>4, <2>1, <2>2, <2>3
<1>7. ASSUME NEW k \in 0 .. G - 1, k \in S
      PROVE  k + 1 \in S
  <2> DEFINE a == u[k]   b == u[k + 1]   by == k * r   to == Baby(k)
  <2>1. /\ Stores(a, Work, x, 0) /\ Babies(a, q, x, k)
        /\ Rolls(s, a, count(k), K) /\ a.mults = s.mults
    BY <1>7
  <2>2. k \in Nat /\ k + 1 \in 0 .. G /\ k + 1 # 0 /\ (k + 1) - 1 = k
    BY <1>1
  <2>3. Runs(<<Roll(to, Work, by)>>, a, b, q.batch)
    BY <1>4, <1>5 DEF BabyRoll, r
  <2>4. a.rolls \in Seq(Int) /\ by \in Int
    BY <1>1, <2>1, <2>2 DEF Rolls
  <2>8. (by = 0 <=> k = 0) /\ {by} \ {0} \subseteq K
    <3>1. CASE k = 0
      <4>1. by = 0
        BY <1>1, <3>1
      <4>2. QED BY <3>1, <4>1
    <3>2. CASE k # 0
      <4>1. k \in 1 .. G - 1
        BY <2>2, <3>2
      <4>2. by # 0
        BY <1>1, <2>2, <3>2
      <4>3. by \in K
        BY <4>1
      <4>4. QED BY <3>2, <4>2, <4>3
    <3>3. QED BY <3>1, <3>2
  <2> HIDE DEF a, b, by, to
  <2>6. /\ Stores(b, to, Rotate(x, by), 0) /\ Keeps(a, b, {to})
        /\ Rolls(a, b, IF by = 0 THEN 0 ELSE 1, {by} \ {0}) /\ b.mults = a.mults
    BY <2>1, <2>3, <2>4, RunRoll
  <2>7. Stores(b, Work, x, 0) /\ Babies(b, q, x, k + 1)
    <3>1. Work \notin {to}
      BY <2>2 DEF Work, to, Baby
    <3>2. Stores(b, Work, x, 0)
      BY <2>1, <2>6, <3>1, KeepsStored
    <3>3. ASSUME NEW i \in 0 .. (k + 1) - 1
          PROVE  Stores(b, Baby(i), Rotate(x, i * q.shape.replicas), 0)
      <4>1. CASE i = k
        BY <2>6, <4>1 DEF to, by, r
      <4>2. CASE i # k
        <5>1. i \in 0 .. k - 1
          BY <2>2, <4>2
        <5>2. Stores(a, Baby(i), Rotate(x, i * q.shape.replicas), 0)
          BY <2>1, <5>1 DEF Babies
        <5>3. Baby(i) \notin {to}
          BY <2>2, <4>2, <5>1 DEF Baby, to
        <5>4. QED BY <2>6, <5>2, <5>3, KeepsStored
      <4>3. QED BY <4>1, <4>2
    <3>4. QED BY <3>2, <3>3 DEF Babies
  <2> DEFINE one == IF k = 0 THEN 0 ELSE 1   c == count(k)
  <2>9. Rolls(a, b, one, K)
    <3>1. Rolls(a, b, one, {by} \ {0})
      BY <2>6, <2>8
    <3> HIDE DEF one, K
    <3>2. QED BY <2>8, <3>1, RollsMore
  <2>10. c \in Int /\ one \in Int /\ c + one = count(k + 1)
    BY <2>2
  <2>11. Rolls(s, b, count(k + 1), K)
    <3>1. Rolls(s, a, c, K)
      BY <2>1
    <3> HIDE DEF one, c, count, K
    <3>2. Rolls(s, b, c + one, K \cup K)
      BY <2>9, <2>10, <3>1, RollsOn
    <3>3. QED BY <2>10, <3>2
  <2>13. Going(k + 1)
    BY <2>1, <2>6, <2>7, <2>11 DEF b
  <2> HIDE DEF Going
  <2>14. QED BY <2>2, <2>13
<1> HIDE DEF S
<1>8. \A k \in 0 .. G : k \in S
  BY <1>1, <1>6, <1>7, Climb
<1>9. Going(G)
  <2>1. G \in 0 .. G
    BY <1>1
  <2>2. QED BY <1>8, <2>1 DEF S
<1>10. count(G) = G - 1
  BY <1>1
<1> HIDE DEF count
<1>11. QED BY <1>4, <1>9, <1>10 DEF G, r

(* How far the groups of the first g giant steps reach.                    *)
Span(q, g) == Smaller(q.baby_step, Groups(q) - g * q.baby_step)
Giants(q) == CeilDiv(Groups(q), q.baby_step)
Reach(q, g) == Smaller(g * q.baby_step, Groups(q))

\* The giant steps cut the groups into spans without gap or overlap.
LEMMA GiantFacts ==
  ASSUME NEW q, Geometry(q), q.baby_step # 0
  PROVE  /\ Giants(q) \in Nat \ {0} /\ Reach(q, 0) = 0 /\ Reach(q, Giants(q)) = Groups(q)
         /\ \A g \in 0 .. Giants(q) - 1 :
              /\ Span(q, g) \in Nat \ {0} /\ Span(q, g) <= q.baby_step
              /\ Reach(q, g) = g * q.baby_step /\ g * q.baby_step \in Nat
              /\ g * q.baby_step + Span(q, g) = Reach(q, g + 1)
<1> DEFINE b == q.baby_step   G == Groups(q)   C == Giants(q)   a == G + b - 1
<1>1. b \in Nat \ {0} /\ G \in Nat \ {0}
  BY GeometryFacts
<1> HIDE DEF b, G
<1>2. C \in Nat /\ G <= b * C
  BY <1>1, CeilDivBounds DEF Giants, b, G
<1>3. C = a \div b /\ a \in Int
  BY <1>1 DEF Giants, CeilDiv, b, G
<1> HIDE DEF C
<1>4. b * C <= G + b - 1
  <2> HIDE DEF a
  <2>1. a % b \in 0 .. b - 1 /\ a = b * C + (a % b)
    BY <1>1, <1>3, Division
  <2>2. b * C <= a
    BY <1>1, <1>2, <2>1
  <2>3. QED BY <1>1, <2>2 DEF a
<1>5. C # 0
  BY <1>1, <1>2
<1>6. ASSUME NEW g \in 0 .. C - 1
      PROVE  g * b \in Nat /\ g * b < G /\ (g + 1) * b = g * b + b
  <2>1. g \in Nat /\ g <= C - 1
    BY <1>2
  <2>2. b * g <= b * (C - 1) /\ b * (C - 1) = b * C - b
    BY <1>1, <1>2, <2>1
  <2>3. g * b = b * g /\ g * b \in Nat /\ (g + 1) * b = g * b + b
    BY <1>1, <2>1
  <2> DEFINE d == b * g   e == b * C   h == b * (C - 1)
  <2>4. d \in Nat /\ e \in Int /\ h \in Int /\ d <= h /\ h = e - b /\ e <= G + b - 1
    BY <1>1, <1>2, <1>4, <2>2, <2>3
  <2> HIDE DEF d, e, h
  <2>5. d < G
    BY <1>1, <2>4
  <2>6. QED BY <2>3, <2>5 DEF d
<1>7. ASSUME NEW g \in 0 .. C - 1
      PROVE  /\ Span(q, g) \in Nat \ {0} /\ Span(q, g) <= b
             /\ Reach(q, g) = g * b /\ g * b + Span(q, g) = Reach(q, g + 1)
  <2> DEFINE d == g * b   e == (g + 1) * b
  <2>1. d \in Nat /\ d < G /\ e = d + b
    BY <1>6
  <2>2. Span(q, g) = Smaller(b, G - d) /\ Reach(q, g) = Smaller(d, G) /\ Reach(q, g + 1) = Smaller(e, G)
    BY DEF Span, Reach, b, G
  <2> HIDE DEF d, e
  <2>3. /\ Smaller(b, G - d) \in Nat \ {0} /\ Smaller(b, G - d) <= b
        /\ Smaller(d, G) = d /\ d + Smaller(b, G - d) = Smaller(e, G)
    BY <1>1, <2>1 DEF Smaller
  <2>4. QED BY <2>2, <2>3 DEF d
<1>8. Reach(q, 0) = 0 /\ Reach(q, C) = G
  <2>1. Reach(q, 0) = Smaller(0 * b, G) /\ Reach(q, C) = Smaller(C * b, G)
    BY DEF Reach, b, G
  <2>2. 0 * b = 0 /\ C * b = b * C
    BY <1>1, <1>2
  <2>3. QED BY <1>1, <1>2, <2>1, <2>2 DEF Smaller
<1>9. \A g \in 0 .. C - 1 : g * b \in Nat
  BY <1>6
<1>10. QED BY <1>2, <1>5, <1>7, <1>8, <1>9 DEF b, G, C

(* One product of a giant step.                                            *)
By(q, g) == g * q.baby_step * q.shape.replicas
GroupOf(q, g, i) == g * q.baby_step + i
GiantTerm(q, g, i) ==
  <<Mult(Term, Baby(i), RotateMask(CombinedMask(0, q.m, q.n, GroupOf(q, g, i), q.shape),
                                   By(q, g), q.batch))>>
  \o Accumulate(Inner, i = 0)

\* The rotation of a giant step and that of a baby add up to the rotation of
\* their group.
LEMMA GiantTypes ==
  ASSUME NEW q, Geometry(q), NEW g \in Nat, NEW i \in Nat
  PROVE  /\ By(q, g) \in Int /\ GroupOf(q, g, i) \in Nat /\ g * q.baby_step \in Nat
         /\ By(q, g) = (g * q.baby_step) * q.shape.replicas
         /\ i * q.shape.replicas + By(q, g) = GroupOf(q, g, i) * q.shape.replicas
         /\ i * q.shape.replicas \in Int
<1> DEFINE b == q.baby_step   r == q.shape.replicas
<1>1. b \in Nat /\ r \in Nat
  BY GeometryFacts
<1> HIDE DEF b, r
<1>2. /\ g * b * r \in Int /\ g * b + i \in Nat /\ g * b \in Nat
      /\ i * r + g * b * r = (g * b + i) * r /\ i * r \in Int
  BY <1>1
<1>3. QED BY <1>2 DEF By, GroupOf, b, r

\* One product of a giant step is a program.
LEMMA GiantTermType ==
  ASSUME NEW q, Geometry(q), NEW g \in Nat, NEW i \in Nat
  PROVE  /\ <<Mult(Term, Baby(i), Shifted(q, GroupOf(q, g, i), By(q, g)))>> \in Seq(Instructions)
         /\ Accumulate(Inner, i = 0) \in Seq(Instructions)
         /\ GiantTerm(q, g, i) \in Seq(Instructions)
<1> DEFINE V == Instructions   mask == Shifted(q, GroupOf(q, g, i), By(q, g))
           a == Mult(Term, Baby(i), mask)   c == Accumulate(Inner, i = 0)
<1>1. mask \in Masks
  BY GiantTypes, MaskType
<1> HIDE DEF mask
<1>2. a \in V
  <2>1. Baby(i) \in Nat
    BY DEF Baby
  <2>2. QED BY <1>1, <2>1, InstructionTypes
<1>3. c \in Seq(V)
  <2>1. (i = 0) \in BOOLEAN /\ Inner \in Nat
    BY InstructionTypes
  <2>2. QED BY <2>1, AccumulateType
<1> HIDE DEF V, a, c
<1>4. <<a>> \in Seq(V) /\ <<a>> \o c \in Seq(V)
  BY <1>2, <1>3
<1>5. QED BY <1>3, <1>4 DEF GiantTerm, Shifted, V, a, c, mask

GiantLap(s, t, q, g, i, x) ==
  /\ Geometry(q) /\ g \in Nat /\ i \in 0 .. q.baby_step - 1 /\ Filled(q, x)
  /\ Babies(s, q, x, q.baby_step) /\ Partial(s, q, Inner, By(q, g), GroupOf(q, g, 0), GroupOf(q, g, i))
  /\ Runs(GiantTerm(q, g, i), s, t, q.batch)

\* One product of a giant step adds the terms of its group, shifted right by
\* the giant rotation.
LEMMA RunGiantTerm ==
  ASSUME NEW s, NEW t, NEW q, NEW g, NEW i, NEW x, GiantLap(s, t, q, g, i, x)
  PROVE  /\ Partial(t, q, Inner, By(q, g), GroupOf(q, g, 0), GroupOf(q, g, i + 1))
         /\ Keeps(s, t, {Term, Inner}) /\ t.rolls = s.rolls /\ t.mults = s.mults + 1
<1>0. /\ Geometry(q) /\ g \in Nat /\ i \in 0 .. q.baby_step - 1 /\ Filled(q, x)
      /\ Babies(s, q, x, q.baby_step)
      /\ Partial(s, q, Inner, By(q, g), GroupOf(q, g, 0), GroupOf(q, g, i))
      /\ Runs(GiantTerm(q, g, i), s, t, q.batch)
  BY DEF GiantLap
<1> DEFINE a == GroupOf(q, g, 0)   k == GroupOf(q, g, i)   c == GroupOf(q, g, i + 1)
           off == By(q, g)   by == i * q.shape.replicas   first == i = 0
           mask == Shifted(q, k, off)   y == Rotate(x, by)   w == Times(y, mask)
<1>1. /\ i \in Nat /\ off \in Int /\ by \in Int /\ a \in Nat /\ k \in Nat /\ c \in Nat
      /\ by + off = k * q.shape.replicas /\ a <= k /\ k < c /\ c = k + 1
      /\ first \in BOOLEAN /\ (first <=> a = k)
  <2>1. q.baby_step \in Nat
    BY <1>0, GeometryFacts
  <2>2. i \in Nat /\ 0 \in Nat
    BY <1>0, <2>1
  <2> DEFINE h == g * q.baby_step
  <2>3. /\ off \in Int /\ by \in Int /\ k \in Nat /\ h \in Nat /\ by + off = k * q.shape.replicas
    BY <1>0, <2>2, GiantTypes
  <2>4. a = h + 0 /\ k = h + i /\ c = h + (i + 1)
    BY DEF GroupOf
  <2> HIDE DEF h, a, k, c, off, by
  <2>5. a \in Nat /\ c \in Nat /\ a <= k /\ k < c /\ c = k + 1 /\ (i = 0 <=> a = k)
    BY <2>2, <2>3, <2>4
  <2>6. QED BY <2>2, <2>3, <2>5
<1>2. Holding(q, w, off, k, k + 1)
  <2> HIDE DEF by, off, k
  <2>1. Fed(q, y, off, k)
    BY <1>0, <1>1, FilledFeeds
  <2> HIDE DEF y
  <2>2. QED BY <1>0, <1>1, <2>1, GroupHolds
<1>3. PICK s1 : /\ Runs(<<Mult(Term, Baby(i), mask)>>, s, s1, q.batch)
                /\ Runs(Accumulate(Inner, first), s1, t, q.batch)
  <2> DEFINE d == <<Mult(Term, Baby(i), mask)>>   e == Accumulate(Inner, first)
  <2>1. d \in Seq(Instructions) /\ e \in Seq(Instructions)
    BY <1>0, <1>1, GiantTermType
  <2>2. Runs(d \o e, s, t, q.batch)
    BY <1>0 DEF GiantTerm, Shifted
  <2> HIDE DEF d, e
  <2>3. \E u : Runs(d, s, u, q.batch) /\ Runs(e, u, t, q.batch)
    BY <2>1, <2>2, RunsBoth
  <2>4. QED BY <2>3 DEF d, e
<1>4. Stores(s, Baby(i), y, 0)
  BY <1>0 DEF Babies
<1>5. Partial(s, q, Inner, off, a, k)
  BY <1>0
<1> HIDE DEF a, k, c, off, by, first, mask, y
<1>6. /\ Stores(s1, Term, w, 1) /\ Keeps(s, s1, {Term})
      /\ s1.rolls = s.rolls /\ s1.mults = s.mults + 1
  <2>1. Stores(s1, Term, w, 0 + 1) /\ Keeps(s, s1, {Term})
        /\ s1.rolls = s.rolls /\ s1.mults = s.mults + 1
    BY <1>3, <1>4, RunMult
  <2>2. 0 + 1 = 1
    OBVIOUS
  <2>3. QED BY <2>1, <2>2
<1> HIDE DEF w
<1>7. Partial(s1, q, Inner, off, a, k)
  <2>1. CASE a = k
    BY <2>1 DEF Partial
  <2>2. CASE a # k
    <3>1. PICK v : Stores(s, Inner, v, 1) /\ Holding(q, v, off, a, k)
      BY <1>5, <2>2 DEF Partial
    <3>2. Inner \notin {Term}
      BY DEF Inner, Term
    <3>3. Stores(s1, Inner, v, 1)
      BY <1>6, <3>1, <3>2, KeepsStored
    <3>4. QED BY <3>1, <3>3 DEF Partial
  <2>3. QED BY <2>1, <2>2
<1>8. Adding(s1, t, q, Inner, first, off, a, k, c)
  BY <1>0, <1>1, <1>2, <1>3, <1>6, <1>7 DEF Adding
<1>9. /\ Partial(t, q, Inner, off, a, c) /\ Keeps(s1, t, {Inner})
      /\ t.rolls = s1.rolls /\ t.mults = s1.mults
  BY <1>8, RunAccumulate
<1>10. Keeps(s, t, {Term, Inner})
  BY <1>6, <1>9 DEF Keeps
<1>11. QED BY <1>6, <1>9, <1>10 DEF off, a, c

(* All products of a giant step.                                           *)
GiantLoop(q, g) == FlattenSeq([k \in 1 .. Span(q, g) |-> GiantTerm(q, g, k - 1)])

\* A giant step is a loop over its babies.
LEMMA GiantLaps ==
  ASSUME NEW q, Geometry(q), NEW g \in Nat, Span(q, g) \in Nat
  PROVE  LET f == [k \in 0 .. Span(q, g) - 1 |-> GiantTerm(q, g, k)]
         IN  /\ f \in [0 .. Span(q, g) - 1 -> Seq(Instructions)]
             /\ GiantLoop(q, g) = FlattenSeq([k \in 1 .. Span(q, g) |-> f[k - 1]])
             /\ GiantLoop(q, g) \in Seq(Instructions)
<1> DEFINE G == Span(q, g)   V == Seq(Instructions)
           f == [k \in 0 .. G - 1 |-> GiantTerm(q, g, k)]
<1>1. G \in Nat
  OBVIOUS
<1>2. \A k \in 0 .. G - 1 : GiantTerm(q, g, k) \in V
  <2>1. \A k \in 0 .. G - 1 : k \in Nat
    BY <1>1
  <2>2. QED BY <2>1, GiantTermType
<1> HIDE DEF V
<1>3. f \in [0 .. G - 1 -> V]
  BY <1>2
<1>4. [k \in 1 .. G |-> GiantTerm(q, g, k - 1)] = [k \in 1 .. G |-> f[k - 1]]
  <2>1. \A k \in 1 .. G : k - 1 \in 0 .. G - 1
    BY <1>1
  <2>2. QED BY <2>1
<1> HIDE DEF f
<1>5. FlattenSeq([k \in 1 .. G |-> f[k - 1]]) \in Seq(Instructions)
  <2> HIDE DEF G
  <2>1. QED BY <1>1, <1>3, EachType DEF V
<1>6. QED BY <1>3, <1>4, <1>5 DEF GiantLoop, G, f, V

LoopRun(s, t, q, g, x) ==
  /\ Geometry(q) /\ q.baby_step # 0 /\ g \in 0 .. Giants(q) - 1 /\ Filled(q, x)
  /\ Babies(s, q, x, q.baby_step) /\ s.mults \in Nat
  /\ Runs(GiantLoop(q, g), s, t, q.batch)

\* The products of a giant step collect the terms of its span, still shifted.
LEMMA RunGiantLoop ==
  ASSUME NEW s, NEW t, NEW q, NEW g, NEW x, LoopRun(s, t, q, g, x)
  PROVE  /\ \E v : /\ Stores(t, Inner, v, 1)
                   /\ Holding(q, v, By(q, g), Reach(q, g), Reach(q, g + 1))
         /\ Keeps(s, t, {Term, Inner}) /\ t.rolls = s.rolls
         /\ t.mults = s.mults + Span(q, g)
<1>0. /\ Geometry(q) /\ q.baby_step # 0 /\ g \in 0 .. Giants(q) - 1 /\ Filled(q, x)
      /\ Babies(s, q, x, q.baby_step) /\ s.mults \in Nat
      /\ Runs(GiantLoop(q, g), s, t, q.batch)
  BY DEF LoopRun
<1> DEFINE G == Span(q, g)   a == GroupOf(q, g, 0)   off == By(q, g)
           f == [k \in 0 .. G - 1 |-> GiantTerm(q, g, k)]
<1>1. /\ g \in Nat /\ G \in Nat \ {0} /\ G <= q.baby_step /\ q.baby_step \in Nat
      /\ a = Reach(q, g) /\ GroupOf(q, g, G) = Reach(q, g + 1) /\ a \in Nat
      /\ \A k \in 0 .. G : GroupOf(q, g, k) = a + k
  <2>1. /\ Giants(q) \in Nat /\ G \in Nat \ {0} /\ G <= q.baby_step
        /\ Reach(q, g) = g * q.baby_step /\ g * q.baby_step \in Nat
        /\ g * q.baby_step + G = Reach(q, g + 1)
    BY <1>0, GiantFacts
  <2>2. g \in Nat /\ q.baby_step \in Nat
    BY <1>0, <2>1, GeometryFacts
  <2> DEFINE h == g * q.baby_step
  <2>3. a = h + 0 /\ GroupOf(q, g, G) = h + G /\ \A k : GroupOf(q, g, k) = h + k
    BY DEF GroupOf
  <2>4. h \in Nat /\ Reach(q, g) = h /\ h + G = Reach(q, g + 1)
    BY <2>1
  <2> HIDE DEF h, a, G
  <2>5. a = h
    BY <2>3, <2>4
  <2>6. QED BY <2>1, <2>2, <2>3, <2>4, <2>5
<1>3. PICK u : Laps(u, f, G, s, t, q.batch)
  <2>1. /\ f \in [0 .. G - 1 -> Seq(Instructions)]
        /\ GiantLoop(q, g) = FlattenSeq([k \in 1 .. G |-> f[k - 1]])
    BY <1>0, <1>1, GiantLaps
  <2>2. G \in Nat
    BY <1>1
  <2> HIDE DEF f, G
  <2>3. QED BY <1>0, <2>1, <2>2, RunsEach
<1>4. u[0] = s /\ u[G] = t /\ \A k \in 0 .. G - 1 : Runs(f[k], u[k], u[k + 1], q.batch)
  BY <1>3 DEF Laps
<1>5. \A k \in 0 .. G - 1 : f[k] = GiantTerm(q, g, k)
  OBVIOUS
<1> HIDE DEF f, G, a, off
<1> DEFINE Going(k) == /\ Babies(u[k], q, x, q.baby_step)
                       /\ Partial(u[k], q, Inner, off, a, GroupOf(q, g, k))
                       /\ Keeps(s, u[k], {Term, Inner})
                       /\ u[k].rolls = s.rolls /\ u[k].mults = s.mults + k
           S == {k \in 0 .. G : Going(k)}
<1>6. 0 \in S
  <2>1. Partial(s, q, Inner, off, a, GroupOf(q, g, 0))
    BY DEF Partial, a
  <2>2. s.mults + 0 = s.mults /\ 0 \in 0 .. G
    BY <1>0, <1>1
  <2>3. Keeps(s, s, {Term, Inner})
    BY DEF Keeps
  <2>4. QED BY <1>0, <1>4, <2>1, <2>2, <2>3
<1>7. ASSUME NEW k \in 0 .. G - 1, k \in S
      PROVE  k + 1 \in S
  <2> DEFINE c == u[k]   d == u[k + 1]
  <2>1. /\ Babies(c, q, x, q.baby_step) /\ Partial(c, q, Inner, off, a, GroupOf(q, g, k))
        /\ Keeps(s, c, {Term, Inner}) /\ c.rolls = s.rolls /\ c.mults = s.mults + k
    BY <1>7
  <2>2. k \in Nat /\ k + 1 \in 0 .. G /\ k \in 0 .. q.baby_step - 1
    BY <1>1
  <2>3. Runs(GiantTerm(q, g, k), c, d, q.batch)
    BY <1>4, <1>5
  <2> HIDE DEF c, d
  <2>4. GiantLap(c, d, q, g, k, x)
    BY <1>0, <1>1, <2>1, <2>2, <2>3 DEF GiantLap, off, a
  <2>5. /\ Partial(d, q, Inner, off, a, GroupOf(q, g, k + 1))
        /\ Keeps(c, d, {Term, Inner}) /\ d.rolls = c.rolls /\ d.mults = c.mults + 1
    BY <2>4, RunGiantTerm DEF off, a
  <2>6. Babies(d, q, x, q.baby_step)
    <3>1. ASSUME NEW i \in 0 .. q.baby_step - 1
          PROVE  Stores(d, Baby(i), Rotate(x, i * q.shape.replicas), 0)
      <4>1. Baby(i) \notin {Term, Inner}
        BY <1>1 DEF Baby, Term, Inner
      <4>2. Stores(c, Baby(i), Rotate(x, i * q.shape.replicas), 0)
        BY <2>1 DEF Babies
      <4>3. QED BY <2>5, <4>1, <4>2, KeepsStored
    <3>2. QED BY <3>1 DEF Babies
  <2>7. Keeps(s, d, {Term, Inner})
    BY <2>1, <2>5 DEF Keeps
  <2>8. d.mults = s.mults + (k + 1)
    <3> DEFINE e == s.mults   h == c.mults   l == d.mults
    <3>1. e \in Nat /\ h = e + k /\ l = h + 1
      BY <1>0, <2>1, <2>5
    <3> HIDE DEF e, h, l
    <3>2. l = e + (k + 1)
      BY <2>2, <3>1
    <3>3. QED BY <3>2 DEF e, l
  <2>9. Going(k + 1)
    BY <2>1, <2>5, <2>6, <2>7, <2>8 DEF d
  <2> HIDE DEF Going
  <2>10. QED BY <2>2, <2>9
<1> HIDE DEF S
<1>8. \A k \in 0 .. G : k \in S
  <2>1. G \in Nat
    BY <1>1
  <2>2. QED BY <1>6, <1>7, <2>1, Climb
<1>9. Going(G)
  <2>1. G \in 0 .. G
    BY <1>1
  <2>2. QED BY <1>8, <2>1 DEF S
<1>10. \E v : Stores(t, Inner, v, 1) /\ Holding(q, v, off, a, GroupOf(q, g, G))
  <2>1. a # GroupOf(q, g, G)
    <3>1. G \in 0 .. G
      BY <1>1
    <3>2. GroupOf(q, g, G) = a + G
      BY <1>1, <3>1
    <3>3. QED BY <1>1, <3>2
  <2>2. QED BY <1>4, <1>9, <2>1 DEF Partial
<1>11. QED BY <1>1, <1>4, <1>9, <1>10 DEF G, off

(* A giant step: its products, rotated back, and added up.                 *)
Giant(q, g) == GiantLoop(q, g) \o <<Roll(Term, Inner, By(q, g))>> \o Accumulate(Acc, g = 0)

\* A giant step is a program.
LEMMA GiantType ==
  ASSUME NEW q, Geometry(q), q.baby_step # 0, NEW g \in 0 .. Giants(q) - 1
  PROVE  /\ GiantLoop(q, g) \in Seq(Instructions)
         /\ <<Roll(Term, Inner, By(q, g))>> \in Seq(Instructions)
         /\ GiantLoop(q, g) \o <<Roll(Term, Inner, By(q, g))>> \in Seq(Instructions)
         /\ Accumulate(Acc, g = 0) \in Seq(Instructions)
         /\ Giant(q, g) \in Seq(Instructions)
<1> DEFINE V == Instructions   a == Roll(Term, Inner, By(q, g))
           c == GiantLoop(q, g)   d == Accumulate(Acc, g = 0)
<1>1. g \in Nat /\ Span(q, g) \in Nat
  <2>1. Giants(q) \in Nat
    BY GiantFacts
  <2>2. Span(q, g) \in Nat
    BY GiantFacts
  <2>3. QED BY <2>1, <2>2
<1>2. a \in V
  <2>1. By(q, g) \in Int
    <3>1. 0 \in Nat
      OBVIOUS
    <3>2. QED BY <1>1, <3>1, GiantTypes
  <2>2. QED BY <2>1, InstructionTypes
<1>3. c \in Seq(V)
  BY <1>1, GiantLaps
<1>4. d \in Seq(V)
  <2>1. (g = 0) \in BOOLEAN /\ Acc \in Nat
    BY InstructionTypes
  <2>2. QED BY <2>1, AccumulateType
<1> HIDE DEF V, a, c, d
<1>5. <<a>> \in Seq(V) /\ c \o <<a>> \in Seq(V)
  BY <1>2, <1>3
<1>6. (c \o <<a>>) \o d \in Seq(V)
  BY <1>4, <1>5
<1>7. QED BY <1>3, <1>4, <1>5, <1>6 DEF Giant, V, a, c, d

GiantStep(s, t, q, g, x) ==
  /\ Geometry(q) /\ q.baby_step # 0 /\ g \in 0 .. Giants(q) - 1 /\ Filled(q, x)
  /\ Babies(s, q, x, q.baby_step) /\ s.mults \in Nat /\ s.rolls \in Seq(Int)
  /\ Partial(s, q, Acc, 0, 0, Reach(q, g))
  /\ Runs(Giant(q, g), s, t, q.batch)

GiantDone(s, t, q, g) ==
  /\ Partial(t, q, Acc, 0, 0, Reach(q, g + 1)) /\ Keeps(s, t, {Term, Inner, Acc})
  /\ Rolls(s, t, IF By(q, g) = 0 THEN 0 ELSE 1, {By(q, g)} \ {0})
  /\ t.mults = s.mults + Span(q, g)

\* The rotation of a giant step undoes the shift of its masks, and its terms
\* join the others.
LEMMA RunGiant ==
  ASSUME NEW s, NEW t, NEW q, NEW g, NEW x, GiantStep(s, t, q, g, x)
  PROVE  GiantDone(s, t, q, g)
<1>0. /\ Geometry(q) /\ q.baby_step # 0 /\ g \in 0 .. Giants(q) - 1 /\ Filled(q, x)
      /\ Babies(s, q, x, q.baby_step) /\ s.mults \in Nat /\ s.rolls \in Seq(Int)
      /\ Partial(s, q, Acc, 0, 0, Reach(q, g))
      /\ Runs(Giant(q, g), s, t, q.batch)
  BY DEF GiantStep
<1> DEFINE b == Reach(q, g)   c == Reach(q, g + 1)   off == By(q, g)   first == g = 0   zero == 0
<1>1. /\ b \in Nat /\ c \in Nat /\ zero <= b /\ b < c /\ off \in Int /\ zero \in Int /\ zero \in Nat
      /\ first \in BOOLEAN /\ (first <=> zero = b)
  <2> DEFINE h == g * q.baby_step   n == Span(q, g)
  <2>1. Giants(q) \in Nat /\ n \in Nat \ {0} /\ b = h /\ h \in Nat /\ h + n = c
    BY <1>0, GiantFacts
  <2>2. g \in Nat /\ 0 \in Nat
    BY <1>0, <2>1
  <2>3. off \in Int
    BY <1>0, <2>2, GiantTypes
  <2>4. h = 0 <=> g = 0
    <3>1. q.baby_step \in Nat \ {0}
      BY <1>0, GeometryFacts
    <3>2. QED BY <2>2, <3>1
  <2> HIDE DEF h, n, b, c, off
  <2>5. QED BY <2>1, <2>3, <2>4
<1>2. PICK s2 : /\ Runs(GiantLoop(q, g) \o <<Roll(Term, Inner, off)>>, s, s2, q.batch)
                /\ Runs(Accumulate(Acc, first), s2, t, q.batch)
  <2> DEFINE d == GiantLoop(q, g) \o <<Roll(Term, Inner, off)>>   e == Accumulate(Acc, first)
  <2>1. d \in Seq(Instructions) /\ e \in Seq(Instructions)
    BY <1>0, GiantType
  <2>2. Runs(d \o e, s, t, q.batch)
    BY <1>0 DEF Giant
  <2> HIDE DEF d, e
  <2>3. \E u : Runs(d, s, u, q.batch) /\ Runs(e, u, t, q.batch)
    BY <2>1, <2>2, RunsBoth
  <2>4. QED BY <2>3 DEF d, e
<1>3. PICK s1 : /\ Runs(GiantLoop(q, g), s, s1, q.batch)
                /\ Runs(<<Roll(Term, Inner, off)>>, s1, s2, q.batch)
  <2> DEFINE d == GiantLoop(q, g)   e == <<Roll(Term, Inner, off)>>
  <2>1. d \in Seq(Instructions) /\ e \in Seq(Instructions)
    BY <1>0, GiantType
  <2>2. Runs(d \o e, s, s2, q.batch)
    BY <1>2
  <2> HIDE DEF d, e
  <2>3. \E u : Runs(d, s, u, q.batch) /\ Runs(e, u, s2, q.batch)
    BY <2>1, <2>2, RunsBoth
  <2>4. QED BY <2>3 DEF d, e
<1>4. LoopRun(s, s1, q, g, x)
  BY <1>0, <1>3 DEF LoopRun
<1>5. /\ \E v : Stores(s1, Inner, v, 1) /\ Holding(q, v, off, b, c)
      /\ Keeps(s, s1, {Term, Inner}) /\ s1.rolls = s.rolls
      /\ s1.mults = s.mults + Span(q, g)
  BY <1>4, RunGiantLoop
<1>6. PICK v : Stores(s1, Inner, v, 1) /\ Holding(q, v, off, b, c)
  BY <1>5
<1>7. Partial(s, q, Acc, zero, zero, b)
  BY <1>0
<1> HIDE DEF b, c, off, first, zero
<1>8. /\ Stores(s2, Term, Rotate(v, off), 1) /\ Keeps(s1, s2, {Term})
      /\ Rolls(s1, s2, IF off = 0 THEN 0 ELSE 1, {off} \ {0}) /\ s2.mults = s1.mults
  <2>1. s1.rolls \in Seq(Int)
    BY <1>0, <1>5
  <2>2. QED BY <1>1, <1>3, <1>6, <2>1, RunRoll
<1>9. Holding(q, Rotate(v, off), zero, b, c)
  BY <1>0, <1>1, <1>6, HoldingRoll DEF zero
<1>10. Partial(s2, q, Acc, zero, zero, b)
  <2>1. CASE zero = b
    BY <2>1 DEF Partial
  <2>2. CASE zero # b
    <3>1. PICK w : Stores(s, Acc, w, 1) /\ Holding(q, w, zero, zero, b)
      BY <1>7, <2>2 DEF Partial
    <3>2. Acc \notin {Term, Inner} /\ Acc \notin {Term}
      BY DEF Inner, Term, Acc
    <3>3. Stores(s1, Acc, w, 1)
      BY <1>5, <3>1, <3>2, KeepsStored
    <3>4. Stores(s2, Acc, w, 1)
      BY <1>8, <3>2, <3>3, KeepsStored
    <3>5. QED BY <3>1, <3>4 DEF Partial
  <2>3. QED BY <2>1, <2>2
<1>11. Adding(s2, t, q, Acc, first, zero, zero, b, c)
  BY <1>0, <1>1, <1>2, <1>8, <1>9, <1>10 DEF Adding
<1>12. /\ Partial(t, q, Acc, zero, zero, c) /\ Keeps(s2, t, {Acc})
       /\ t.rolls = s2.rolls /\ t.mults = s2.mults
  BY <1>11, RunAccumulate
<1>13. Keeps(s, t, {Term, Inner, Acc})
  BY <1>5, <1>8, <1>12 DEF Keeps
<1>14. Rolls(s, t, IF off = 0 THEN 0 ELSE 1, {off} \ {0})
  BY <1>5, <1>8, <1>12 DEF Rolls
<1>15. QED BY <1>5, <1>8, <1>12, <1>13, <1>14 DEF GiantDone, zero, off, c

(* All giant steps.                                                        *)
GiantSteps(q) == FlattenSeq([k \in 1 .. Giants(q) |-> Giant(q, k - 1)])

\* The giant steps are a loop.
LEMMA StepLaps ==
  ASSUME NEW q, Geometry(q), q.baby_step # 0
  PROVE  LET f == [k \in 0 .. Giants(q) - 1 |-> Giant(q, k)]
         IN  /\ f \in [0 .. Giants(q) - 1 -> Seq(Instructions)]
             /\ GiantSteps(q) = FlattenSeq([k \in 1 .. Giants(q) |-> f[k - 1]])
             /\ GiantSteps(q) \in Seq(Instructions)
<1> DEFINE G == Giants(q)   V == Seq(Instructions)
           f == [k \in 0 .. G - 1 |-> Giant(q, k)]
<1>1. G \in Nat
  BY GiantFacts
<1>2. \A k \in 0 .. G - 1 : Giant(q, k) \in V
  BY GiantType
<1> HIDE DEF V, G
<1>3. f \in [0 .. G - 1 -> V]
  BY <1>2
<1>4. [k \in 1 .. G |-> Giant(q, k - 1)] = [k \in 1 .. G |-> f[k - 1]]
  <2>1. \A k \in 1 .. G : k - 1 \in 0 .. G - 1
    BY <1>1
  <2>2. QED BY <2>1
<1> HIDE DEF f
<1>5. FlattenSeq([k \in 1 .. G |-> f[k - 1]]) \in Seq(Instructions)
  BY <1>1, <1>3, EachType DEF V
<1>6. QED BY <1>3, <1>4, <1>5 DEF GiantSteps, G, f, V

SharedRun(s, s1, s2, t, q, x) ==
  /\ Given(s, q, x) /\ q.baby_step # 0
  /\ Runs(BabyLoop(q), s, s1, q.batch)
  /\ Runs(GiantSteps(q), s1, s2, q.batch)
  /\ Runs(<<Copy(Work, Acc)>>, s2, t, q.batch)

\* The schedule with baby steps collects the terms of all groups, too.
LEMMA RunShared ==
  ASSUME NEW s, NEW s1, NEW s2, NEW t, NEW q, NEW x, SharedRun(s, s1, s2, t, q, x)
  PROVE  Grouped(s, t, q)
<1>0. /\ Given(s, q, x) /\ q.baby_step # 0
      /\ Geometry(q) /\ Filled(q, x) /\ Stores(s, Work, x, 0)
      /\ s.rolls \in Seq(Int) /\ s.mults \in Nat
      /\ Runs(BabyLoop(q), s, s1, q.batch)
      /\ Runs(GiantSteps(q), s1, s2, q.batch)
      /\ Runs(<<Copy(Work, Acc)>>, s2, t, q.batch)
  BY DEF SharedRun, Given
<1> DEFINE G == Giants(q)   r == q.shape.replicas   n == q.baby_step
           f == [k \in 0 .. G - 1 |-> Giant(q, k)]
           K == {k * n * r : k \in 1 .. G - 1}
           J == {i * r : i \in 1 .. n - 1}
           count(k) == IF k = 0 THEN 0 ELSE k - 1
<1>1. G \in Nat \ {0} /\ r \in Nat \ {0} /\ n \in Nat \ {0}
  BY <1>0, GeometryFacts, GiantFacts
<1>2. /\ Babies(s1, q, x, n) /\ s1.mults = s.mults
      /\ Rolls(s, s1, n - 1, J)
  <2>1. BabyRun(s, s1, q, x)
    BY <1>0 DEF BabyRun
  <2>2. QED BY <2>1, RunBabies
<1>3. PICK u : Laps(u, f, G, s1, s2, q.batch)
  <2>1. /\ f \in [0 .. G - 1 -> Seq(Instructions)]
        /\ GiantSteps(q) = FlattenSeq([k \in 1 .. G |-> f[k - 1]])
    BY <1>0, StepLaps
  <2> HIDE DEF f, G
  <2>2. QED BY <1>0, <1>1, <2>1, RunsEach
<1>4. u[0] = s1 /\ u[G] = s2 /\ \A k \in 0 .. G - 1 : Runs(f[k], u[k], u[k + 1], q.batch)
  BY <1>3 DEF Laps
<1>5. \A k \in 0 .. G - 1 : f[k] = Giant(q, k)
  OBVIOUS
<1> HIDE DEF f, G, r, n
<1> DEFINE Going(k) == /\ Babies(u[k], q, x, n) /\ Partial(u[k], q, Acc, 0, 0, Reach(q, k))
                       /\ Rolls(s1, u[k], count(k), K)
                       /\ u[k].mults \in Nat /\ u[k].mults = s1.mults + Reach(q, k)
           S == {k \in 0 .. G : Going(k)}
<1>6. 0 \in S
  <2>1. Rolls(s1, s1, 0, K)
    <3>1. s1.rolls \in Seq(Int)
      BY <1>2 DEF Rolls
    <3>2. QED BY <3>1, RollsStay
  <2>2. Partial(s1, q, Acc, 0, 0, 0) /\ Reach(q, 0) = 0
    BY <1>0, GiantFacts DEF Partial
  <2>3. s1.mults + 0 = s1.mults /\ 0 \in 0 .. G /\ s1.mults \in Nat
    BY <1>0, <1>1, <1>2
  <2>4. QED BY <1>2, <1>4, <2>1, <2>2, <2>3
<1>7. ASSUME NEW k \in 0 .. G - 1, k \in S
      PROVE  k + 1 \in S
  <2> DEFINE a == u[k]   b == u[k + 1]   by == By(q, k)
  <2>1. /\ Babies(a, q, x, n) /\ Partial(a, q, Acc, 0, 0, Reach(q, k))
        /\ Rolls(s1, a, count(k), K) /\ a.mults \in Nat /\ a.mults = s1.mults + Reach(q, k)
    BY <1>7
  <2>2. k \in Nat /\ k + 1 \in 0 .. G /\ k + 1 # 0 /\ (k + 1) - 1 = k
    BY <1>1
  <2>3. Runs(Giant(q, k), a, b, q.batch)
    BY <1>4, <1>5
  <2>4. a.rolls \in Seq(Int)
    BY <2>1 DEF Rolls
  <2> HIDE DEF a, b
  <2>5. GiantStep(a, b, q, k, x)
    BY <1>0, <2>1, <2>3, <2>4 DEF GiantStep, G, n
  <2>6. /\ Partial(b, q, Acc, 0, 0, Reach(q, k + 1)) /\ Keeps(a, b, {Term, Inner, Acc})
        /\ Rolls(a, b, IF by = 0 THEN 0 ELSE 1, {by} \ {0}) /\ b.mults = a.mults + Span(q, k)
    <3>1. GiantDone(a, b, q, k)
      BY <2>5, RunGiant
    <3>2. QED BY <3>1 DEF GiantDone
  <2>7. Babies(b, q, x, n)
    <3>1. ASSUME NEW i \in 0 .. n - 1
          PROVE  Stores(b, Baby(i), Rotate(x, i * q.shape.replicas), 0)
      <4>1. Baby(i) \notin {Term, Inner, Acc}
        BY <1>1 DEF Baby, Term, Inner, Acc
      <4>2. Stores(a, Baby(i), Rotate(x, i * q.shape.replicas), 0)
        BY <2>1 DEF Babies
      <4>3. QED BY <2>6, <4>1, <4>2, KeepsStored
    <3>2. QED BY <3>1 DEF Babies
  <2>8. (by = 0 <=> k = 0) /\ {by} \ {0} \subseteq K
    <3>0. by = k * n * r
      BY DEF By, n, r
    <3>1. CASE k = 0
      <4>1. by = 0
        BY <1>1, <3>0, <3>1
      <4>2. QED BY <3>1, <4>1
    <3>2. CASE k # 0
      <4>1. k \in 1 .. G - 1
        BY <2>2, <3>2
      <4>2. by # 0
        <5>1. n * r \in Nat \ {0} /\ k * n * r = k * (n * r)
          BY <1>1, <2>2
        <5> DEFINE m == n * r
        <5>2. m \in Nat \ {0} /\ by = k * m
          BY <3>0, <5>1
        <5> HIDE DEF m, by
        <5>3. QED BY <2>2, <3>2, <5>2
      <4>3. by \in K
        BY <3>0, <4>1
      <4>4. QED BY <3>2, <4>2, <4>3
    <3>3. QED BY <3>1, <3>2
  <2> DEFINE one == IF k = 0 THEN 0 ELSE 1   c == count(k)
  <2>9. Rolls(a, b, one, K)
    <3>1. Rolls(a, b, one, {by} \ {0})
      BY <2>6, <2>8
    <3> HIDE DEF one, by, K
    <3>2. QED BY <2>8, <3>1, RollsMore
  <2>10. c \in Int /\ one \in Int /\ c + one = count(k + 1)
    BY <2>2
  <2>11. Rolls(s1, b, count(k + 1), K)
    <3>1. Rolls(s1, a, c, K)
      BY <2>1
    <3> HIDE DEF one, c, count, K
    <3>2. Rolls(s1, b, c + one, K \cup K)
      BY <2>9, <2>10, <3>1, RollsOn
    <3>3. QED BY <2>10, <3>2
  <2>12. b.mults \in Nat /\ b.mults = s1.mults + Reach(q, k + 1)
    <3> DEFINE d == s1.mults   e == b.mults   h == a.mults   g == k * q.baby_step
               y == Span(q, k)   z == Reach(q, k + 1)
    <3>1. d \in Nat /\ h = d + Reach(q, k) /\ e = h + y
      BY <1>0, <1>2, <2>1, <2>6
    <3>2. y \in Nat /\ Reach(q, k) = g /\ g \in Nat /\ g + y = z
      BY <1>0, GiantFacts DEF G
    <3> HIDE DEF d, e, h, g, y, z
    <3>3. e \in Nat /\ e = d + z
      BY <3>1, <3>2
    <3>4. QED BY <3>3 DEF d, e, z
  <2>13. Going(k + 1)
    BY <2>6, <2>7, <2>11, <2>12 DEF b
  <2> HIDE DEF Going
  <2>14. QED BY <2>2, <2>13
<1> HIDE DEF S
<1>8. \A k \in 0 .. G : k \in S
  BY <1>1, <1>6, <1>7, Climb
<1>9. Going(G)
  <2>1. G \in 0 .. G
    BY <1>1
  <2>2. QED BY <1>8, <2>1 DEF S
<1>10. Reach(q, G) = Groups(q) /\ Groups(q) # 0
  BY <1>0, GiantFacts, GeometryFacts DEF G
<1>11. PICK v : Stores(s2, Acc, v, 1) /\ Holding(q, v, 0, 0, Groups(q))
  BY <1>4, <1>9, <1>10 DEF Partial
<1>12. Stores(t, Work, v, 1) /\ t.rolls = s2.rolls /\ t.mults = s2.mults
  BY <1>0, <1>11, RunCopy
<1>13. Rolls(s, t, (n - 1) + (G - 1), J \cup K)
  <2>1. count(G) = G - 1 /\ Rolls(s1, s2, count(G), K)
    BY <1>1, <1>4, <1>9
  <2> DEFINE c == n - 1   d == G - 1
  <2>2. c \in Int /\ d \in Int /\ Rolls(s, s1, c, J) /\ Rolls(s1, s2, d, K)
    BY <1>1, <1>2, <2>1
  <2> HIDE DEF count, c, d, J, K
  <2>3. Rolls(s, s2, c + d, J \cup K)
    BY <2>2, RollsOn
  <2>4. Rolls(s, t, c + d, J \cup K)
    BY <1>12, <2>3 DEF Rolls
  <2>5. QED BY <2>4 DEF c, d
<1>14. t.mults = s.mults + Groups(q)
  BY <1>2, <1>4, <1>9, <1>10, <1>12
<1>15. GroupRolls(q) = (n - 1) + (G - 1)
  <2>1. GroupRolls(q) = n - 1 + G - 1
    BY <1>0 DEF GroupRolls, n, G, Giants
  <2>2. QED BY <1>1, <2>1
<1>16. GroupOffsets(q) = J \cup K
  <2>1. CASE n > 1
    BY <2>1 DEF GroupOffsets, n, G, Giants, r
  <2>2. CASE ~ (n > 1)
    <3>1. n = 1
      BY <1>1, <2>2
    <3>2. GroupOffsets(q) = {k * r : k \in 1 .. Groups(q) - 1}
      BY <2>2 DEF GroupOffsets, n, r
    <3>3. G = Groups(q)
      <4> DEFINE g == Groups(q)
      <4>1. g \in Nat
        BY <1>0, GeometryFacts
      <4> HIDE DEF g
      <4>2. CeilDiv(g, 1) = g
        BY <4>1 DEF CeilDiv
      <4>3. QED BY <3>1, <4>2 DEF G, Giants, n, g
    <3>4. J = {}
      BY <3>1
    <3>5. \A k \in 1 .. G - 1 : k * n * r = k * r
      BY <1>1, <3>1
    <3>6. K = {k * r : k \in 1 .. G - 1}
      BY <3>5
    <3>7. QED BY <3>2, <3>3, <3>4, <3>6
  <2>3. QED BY <2>1, <2>2
<1>17. \E w : Stores(t, Work, w, 1) /\ Holding(q, w, 0, 0, Groups(q))
  BY <1>11, <1>12
<1> HIDE DEF K, J, Going
<1>18. QED BY <1>13, <1>14, <1>15, <1>16, <1>17 DEF Grouped

-----------------------------------------------------------------------------
(* The routines, in these parts.                                           *)
Replicating(q) == replicate_input(q.n, q.shape, q.logarithmic)
Folding(q) == fold_replicas(q.shape, q.logarithmic)
Direct(q) == ((Replicating(q) \o <<Copy(Base, Work)>>) \o DirectLoop(q)) \o <<Copy(Work, Acc)>>
SharedGroups(q) == (BabyLoop(q) \o GiantSteps(q)) \o <<Copy(Work, Acc)>>

\* replicated_matmul in its parts.
LEMMA DirectProgram ==
  ASSUME NEW q
  PROVE  replicated_matmul(0, q.m, q.n, q.shape, q.logarithmic) = Direct(q) \o Folding(q)
  BY DEF replicated_matmul, Direct, Replicating, Folding, DirectLoop, DirectGroup, Each, Groups

\* replicated_bsgs_matmul in its parts.
LEMMA SharedProgram ==
  ASSUME NEW q
  PROVE  replicated_bsgs_matmul(0, q.m, q.n, q.shape, q.baby_step, q.logarithmic, q.batch)
           = (Replicating(q) \o SharedGroups(q)) \o Folding(q)
<1>1. replicated_bsgs_groups(0, q.m, q.n, q.shape, q.baby_step, q.batch) = SharedGroups(q)
  BY DEF replicated_bsgs_groups, SharedGroups, BabyLoop, BabyRoll, GiantSteps, Giants, Giant,
         GiantLoop, GiantTerm, GroupOf, By, Span, Each, Groups
<1>2. QED BY <1>1 DEF replicated_bsgs_matmul, Replicating, Folding

\* The parts of a projection are programs.
LEMMA PartTypes ==
  ASSUME NEW q, Geometry(q)
  PROVE  /\ Replicating(q) \in Seq(Instructions) /\ Folding(q) \in Seq(Instructions)
         /\ <<Copy(Base, Work)>> \in Seq(Instructions) /\ <<Copy(Work, Acc)>> \in Seq(Instructions)
         /\ <<Encrypt(Work, 0, q.n)>> \in Seq(Instructions)
<1> DEFINE V == Instructions   n == q.n   w == q.shape.window   tiles == w \div n
           R == Windows(q)   r == q.shape.replicas
           l == q.logarithmic   h == q.logarithmic \/ IsPowerOf2(r)
           backn == -n   backw == -w   step == w + 1
           first == rotation_sum(tiles, backn, l)   second == rotation_sum(R, backw, l)
           third == rotation_sum(r, step, h)
           a == Copy(Base, Work)   b == Copy(Work, Acc)   c == Encrypt(Work, 0, n)
<1>1. /\ n \in Nat \ {0} /\ w \in Nat \ {0} /\ R \in Nat \ {0} /\ r \in Nat \ {0}
      /\ l \in BOOLEAN /\ n <= w /\ h \in BOOLEAN
  BY GeometryFacts
<1>2. Replicating(q) = first \o second /\ Folding(q) = third
  BY DEF Replicating, Folding, replicate_input, fold_replicas, Windows
<1> HIDE DEF n, w, R, r, l, h
<1>3. tiles \in Nat \ {0}
  <2>1. tiles \in Int /\ w % n \in 0 .. n - 1 /\ w = n * tiles + (w % n)
    BY <1>1, Division
  <2> HIDE DEF tiles
  <2>2. tiles > 0
    <3>1. CASE tiles <= 0
      <4>1. n * tiles <= 0
        BY <1>1, <2>1, <3>1
      <4>2. QED BY <1>1, <2>1, <4>1
    <3>2. QED BY <2>1, <3>1
  <2>3. QED BY <2>1, <2>2
<1>4. backn \in Int /\ backw \in Int /\ step \in Int
  BY <1>1
<1> HIDE DEF tiles, backn, backw, step
<1>5. first \in Seq(V) /\ second \in Seq(V) /\ third \in Seq(V)
  BY <1>1, <1>3, <1>4, SumInstructions
<1>6. a \in V /\ b \in V /\ c \in V
  BY <1>1, InstructionTypes
<1> HIDE DEF V, first, second, third, a, b, c
<1>7. first \o second \in Seq(V) /\ <<a>> \in Seq(V) /\ <<b>> \in Seq(V) /\ <<c>> \in Seq(V)
  BY <1>5, <1>6
<1>8. QED BY <1>2, <1>5, <1>7 DEF V, a, b, c, n

(* What a projection leaves: the folded sums, at the cost it counts on.    *)
Cost(q) ==
  IF q.baby_step = 0 THEN replicated_cost(q.n, q.shape, q.logarithmic)
  ELSE replicated_bsgs_cost(q.n, q.shape, q.baby_step, q.logarithmic)
Projected(t, q) ==
  /\ \E v, w : /\ Holding(q, v, 0, 0, Groups(q)) /\ Stores(t, Work, w, 1)
               /\ Collected(v, w, q.shape.replicas, q.shape.window + 1, q.batch)
  /\ t.mults = Cost(q).ct_pt_mul
  /\ Rolls(Start, t, Cost(q).rotations,
           insert_replicated_rotations(q.n, q.shape, q.baby_step, q.logarithmic))

(* The input is encrypted and replicated.                                  *)
LEMMA RunInput ==
  ASSUME NEW q, Geometry(q), NEW s, NEW t,
         Runs(<<Encrypt(Work, 0, q.n)>>, Start, s, q.batch), Runs(Replicating(q), s, t, q.batch)
  PROVE  /\ \E x : Given(t, q, x)
         /\ t.mults = 0
         /\ Rolls(Start, t, ScheduleLength(q.shape.window \div q.n, q.logarithmic)
                            + ScheduleLength(Windows(q), q.logarithmic),
                  OffsetsOf(q.shape.window \div q.n, -q.n, q.logarithmic)
                  \cup OffsetsOf(Windows(q), -q.shape.window, q.logarithmic))
<1>1. /\ q.m \in Nat \ {0} /\ q.n \in Nat \ {0} /\ q.batch \in Nat \ {0}
      /\ q.logarithmic \in BOOLEAN /\ Sound(q.shape, q.m, q.n, q.batch)
  BY GeometryFacts
<1>2. /\ Stores(s, Work, Encrypted(0, q.n, q.batch), 0)
      /\ s.rolls = <<>> /\ s.mults = 0
  <2> DEFINE n == q.n   B == q.batch   zero == 0
  <2>1. Runs(<<Encrypt(Work, zero, n)>>, Start, s, B)
    OBVIOUS
  <2> HIDE DEF n, B, zero
  <2>2. /\ Stores(s, Work, Encrypted(zero, n, B), 0)
        /\ s.rolls = Start.rolls /\ s.mults = Start.mults
    BY <2>1, RunEncrypt
  <2>3. QED BY <2>2 DEF Start, n, B, zero
<1>3. s.rolls \in Seq(Int)
  BY <1>2
<1> DEFINE m == q.m   n == q.n   B == q.batch   sh == q.shape   l == q.logarithmic
<1>4. /\ \E x : /\ Stores(t, Work, x, 0) /\ DOMAIN x = Slots(B)
                /\ \A p \in 0 .. (sh.replicas + sh.guard_windows) * sh.window - 1 : x[p] = Read(n, p)
      /\ Rolls(s, t, ScheduleLength(sh.window \div n, l)
                     + ScheduleLength(sh.replicas + sh.guard_windows, l),
               OffsetsOf(sh.window \div n, -n, l)
               \cup OffsetsOf(sh.replicas + sh.guard_windows, -sh.window, l))
      /\ t.mults = s.mults
  <2>1. /\ m \in Nat \ {0} /\ n \in Nat \ {0} /\ B \in Nat \ {0} /\ l \in BOOLEAN
        /\ Sound(sh, m, n, B) /\ Stores(s, Work, Encrypted(0, n, B), 0)
        /\ Runs(replicate_input(n, sh, l), s, t, B)
    BY <1>1, <1>2 DEF Replicating
  <2> HIDE DEF m, n, B, sh, l
  <2>2. Replicated(s, t, n, sh, l, B)
    BY <1>3, <2>1, RunReplicate
  <2>3. QED BY <2>2 DEF Replicated
<1>5. PICK x : /\ Stores(t, Work, x, 0) /\ DOMAIN x = Slots(B)
               /\ \A p \in 0 .. (sh.replicas + sh.guard_windows) * sh.window - 1 : x[p] = Read(n, p)
  BY <1>4
<1>6. Filled(q, x)
  BY <1>5 DEF Filled, Windows
<1>7. t.mults = 0
  BY <1>2, <1>4
<1>8. Rolls(Start, t, ScheduleLength(q.shape.window \div q.n, q.logarithmic)
                      + ScheduleLength(Windows(q), q.logarithmic),
            OffsetsOf(q.shape.window \div q.n, -q.n, q.logarithmic)
            \cup OffsetsOf(Windows(q), -q.shape.window, q.logarithmic))
  <2>1. Start.rolls = s.rolls
    BY <1>2 DEF Start
  <2>2. QED BY <1>4, <2>1 DEF Rolls, Windows
<1>9. Given(t, q, x)
  <2>1. t.rolls \in Seq(Int)
    BY <1>8 DEF Rolls
  <2>2. QED BY <1>5, <1>6, <1>7, <2>1 DEF Given
<1>10. QED BY <1>7, <1>8, <1>9

(* The groups, added up over the replicas.                                 *)
Gathered(s2, s3, t, q) ==
  /\ Geometry(q) /\ s2.mults = 0
  /\ Rolls(Start, s2, ScheduleLength(q.shape.window \div q.n, q.logarithmic)
                      + ScheduleLength(Windows(q), q.logarithmic),
           OffsetsOf(q.shape.window \div q.n, -q.n, q.logarithmic)
           \cup OffsetsOf(Windows(q), -q.shape.window, q.logarithmic))
  /\ Grouped(s2, s3, q) /\ Runs(Folding(q), s3, t, q.batch)

\* The cost model and the planned keys, part by part.
LEMMA CostParts ==
  ASSUME NEW q, Geometry(q)
  PROVE  LET A == ScheduleLength(q.shape.window \div q.n, q.logarithmic)
                  + ScheduleLength(Windows(q), q.logarithmic)
             F == ScheduleLength(q.shape.replicas, q.logarithmic \/ IsPowerOf2(q.shape.replicas))
         IN  /\ A \in Int /\ F \in Int /\ GroupRolls(q) \in Int
             /\ Cost(q).rotations = (A + GroupRolls(q)) + F
             /\ Cost(q).ct_pt_mul = Groups(q)
             /\ insert_replicated_rotations(q.n, q.shape, q.baby_step, q.logarithmic)
                  = ((OffsetsOf(q.shape.window \div q.n, -q.n, q.logarithmic)
                      \cup OffsetsOf(Windows(q), -q.shape.window, q.logarithmic))
                     \cup GroupOffsets(q))
                    \cup FoldRotations(q.shape, q.logarithmic)
<1> DEFINE n == q.n   w == q.shape.window   tiles == w \div n   r == q.shape.replicas
           l == q.logarithmic   h == q.logarithmic \/ IsPowerOf2(r)   R == Windows(q)
           a == ScheduleLength(tiles, l)   b == ScheduleLength(R, l)   F == ScheduleLength(r, h)
           G == Groups(q)   d == GroupRolls(q)   c == CeilDiv(G, q.baby_step)
<1>1. /\ n \in Nat \ {0} /\ w \in Nat \ {0} /\ R \in Nat \ {0} /\ r \in Nat \ {0}
      /\ l \in BOOLEAN /\ n <= w /\ h \in BOOLEAN /\ G \in Nat \ {0} /\ q.baby_step \in Nat
  BY GeometryFacts
<1>2. /\ q.baby_step = 0 => d = G - 1
      /\ q.baby_step # 0 => d = q.baby_step - 1 + c - 1 /\ c \in Nat
  <2>1. q.baby_step # 0 => c \in Nat
    BY GiantFacts DEF Giants
  <2>2. QED BY <2>1 DEF GroupRolls
<1>3. /\ Cost(q).ct_pt_mul = G
      /\ q.baby_step = 0 => Cost(q).rotations = (a + b + F) + G - 1
      /\ q.baby_step # 0 => Cost(q).rotations = (a + b + F) + q.baby_step - 1 + c - 1
  BY DEF Cost, replicated_cost, replicated_bsgs_cost, ReplicationCost, Groups, Windows
<1>4. insert_replicated_rotations(q.n, q.shape, q.baby_step, q.logarithmic)
        = ((OffsetsOf(tiles, -n, l) \cup OffsetsOf(R, -w, l)) \cup GroupOffsets(q))
          \cup FoldRotations(q.shape, l)
  BY DEF insert_replicated_rotations, GroupOffsets, Groups, Windows
<1> HIDE DEF n, w, r, l, h, R, G, d, c
<1>5. tiles \in Nat \ {0}
  <2>1. tiles \in Int /\ w % n \in 0 .. n - 1 /\ w = n * tiles + (w % n)
    BY <1>1, Division
  <2> HIDE DEF tiles
  <2>2. tiles > 0
    <3>1. CASE tiles <= 0
      <4>1. n * tiles <= 0
        BY <1>1, <2>1, <3>1
      <4>2. QED BY <1>1, <2>1, <4>1
    <3>2. QED BY <2>1, <3>1
  <2>3. QED BY <2>1, <2>2
<1> HIDE DEF tiles
<1>6. a \in Nat /\ b \in Nat /\ F \in Nat
  BY <1>1, <1>5, ScheduleLengthType
<1> HIDE DEF a, b, F
<1>7. d \in Int /\ Cost(q).rotations = ((a + b) + d) + F
  BY <1>1, <1>2, <1>3, <1>6
<1>8. a + b \in Int /\ F \in Int
  BY <1>6
<1>9. QED BY <1>3, <1>4, <1>7, <1>8 DEF n, w, tiles, r, l, h, R, a, b, F, G, d

\* The fold over the replicas ends a projection.
LEMMA RunFold ==
  ASSUME NEW s2, NEW s3, NEW t, NEW q, Gathered(s2, s3, t, q)
  PROVE  Projected(t, q)
<1> DEFINE A == ScheduleLength(q.shape.window \div q.n, q.logarithmic)
                + ScheduleLength(Windows(q), q.logarithmic)
           K == OffsetsOf(q.shape.window \div q.n, -q.n, q.logarithmic)
                \cup OffsetsOf(Windows(q), -q.shape.window, q.logarithmic)
           r == q.shape.replicas   step == q.shape.window + 1
           h == q.logarithmic \/ IsPowerOf2(r)   B == q.batch   one == 1
           F == ScheduleLength(r, h)   D == GroupRolls(q)   L == GroupOffsets(q)
           M == OffsetsOf(r, step, h)
<1>0. /\ Geometry(q) /\ s2.mults = 0 /\ Rolls(Start, s2, A, K)
      /\ Grouped(s2, s3, q) /\ Runs(Folding(q), s3, t, B)
  BY DEF Gathered
<1>1. /\ r \in Nat \ {0} /\ step \in Int \ {0} /\ h \in BOOLEAN /\ B \in Nat \ {0} /\ one \in Nat
      /\ Groups(q) \in Nat
  BY <1>0, GeometryFacts
<1>2. PICK v : Stores(s3, Work, v, one) /\ Holding(q, v, 0, 0, Groups(q))
  BY <1>0 DEF Grouped
<1>3. Rolls(s2, s3, D, L) /\ s3.mults = Groups(q)
  <2>1. s3.mults = s2.mults + Groups(q) /\ Rolls(s2, s3, D, L)
    BY <1>0 DEF Grouped
  <2>2. QED BY <1>0, <1>1, <2>1
<1>4. Runs(rotation_sum(r, step, h), s3, t, B)
  BY <1>0 DEF Folding, fold_replicas
<1>5. DOMAIN v = Slots(B) /\ s3.rolls \in Seq(Int)
  BY <1>2, <1>3 DEF Holding, Rolls
<1>6. /\ A \in Int /\ F \in Int /\ D \in Int
      /\ Cost(q).rotations = (A + D) + F
      /\ Cost(q).ct_pt_mul = Groups(q)
      /\ insert_replicated_rotations(q.n, q.shape, q.baby_step, q.logarithmic) = (K \cup L) \cup M
  BY <1>0, CostParts DEF FoldRotations
<1> HIDE DEF A, K, r, step, h, B, one, D, L
<1>7. Summing(s3, t, v, one, r, step, h, B)
  BY <1>1, <1>2, <1>4, <1>5 DEF Summing
<1>8. Summed(s3, t, v, one, r, step, h, B)
  BY <1>7, RunSum
<1>9. PICK w : Stores(t, Work, w, one) /\ Collected(v, w, r, step, B)
  BY <1>8 DEF Summed
<1>10. Rolls(s3, t, F, M) /\ t.mults = Groups(q)
  BY <1>3, <1>8 DEF Summed
<1> HIDE DEF F, M
<1>11. Rolls(Start, t, (A + D) + F, (K \cup L) \cup M)
  <2> DEFINE E == A + D   J == K \cup L
  <2>1. Rolls(Start, s3, E, J)
    BY <1>0, <1>3, <1>6, RollsOn
  <2>2. E \in Int
    BY <1>6
  <2> HIDE DEF E, J
  <2>3. Rolls(Start, t, E + F, J \cup M)
    BY <1>6, <1>10, <2>1, <2>2, RollsOn
  <2>4. QED BY <2>3 DEF E, J
<1>12. \E x, y : /\ Holding(q, x, 0, 0, Groups(q)) /\ Stores(t, Work, y, 1)
                 /\ Collected(x, y, q.shape.replicas, q.shape.window + 1, q.batch)
  BY <1>2, <1>9 DEF one, r, step, B
<1>13. QED BY <1>6, <1>10, <1>11, <1>12 DEF Projected

\* The unshared schedule and its beginnings are programs.
LEMMA DirectTypes ==
  ASSUME NEW q, Geometry(q)
  PROVE  /\ DirectLoop(q) \in Seq(Instructions)
         /\ Replicating(q) \o <<Copy(Base, Work)>> \in Seq(Instructions)
         /\ (Replicating(q) \o <<Copy(Base, Work)>>) \o DirectLoop(q) \in Seq(Instructions)
         /\ Direct(q) \in Seq(Instructions)
<1> DEFINE V == Instructions   a == Replicating(q)   b == <<Copy(Base, Work)>>
           c == DirectLoop(q)   d == <<Copy(Work, Acc)>>
<1>1. a \in Seq(V) /\ b \in Seq(V) /\ c \in Seq(V) /\ d \in Seq(V)
  BY PartTypes, DirectLaps
<1> HIDE DEF V, a, b, c, d
<1>2. a \o b \in Seq(V)
  BY <1>1
<1>3. (a \o b) \o c \in Seq(V)
  BY <1>1, <1>2
<1>4. ((a \o b) \o c) \o d \in Seq(V)
  BY <1>1, <1>3
<1>5. QED BY <1>1, <1>2, <1>3, <1>4 DEF Direct, V, a, b, c, d

\* The schedule with baby steps and its beginnings are programs.
LEMMA SharedTypes ==
  ASSUME NEW q, Geometry(q), q.baby_step # 0
  PROVE  /\ BabyLoop(q) \in Seq(Instructions) /\ GiantSteps(q) \in Seq(Instructions)
         /\ BabyLoop(q) \o GiantSteps(q) \in Seq(Instructions)
         /\ SharedGroups(q) \in Seq(Instructions)
         /\ Replicating(q) \o SharedGroups(q) \in Seq(Instructions)
<1> DEFINE V == Instructions   a == Replicating(q)   b == BabyLoop(q)
           c == GiantSteps(q)   d == <<Copy(Work, Acc)>>
<1>1. a \in Seq(V) /\ b \in Seq(V) /\ c \in Seq(V) /\ d \in Seq(V)
  BY PartTypes, BabyLaps, StepLaps
<1> HIDE DEF V, a, b, c, d
<1>2. b \o c \in Seq(V)
  BY <1>1
<1>3. (b \o c) \o d \in Seq(V)
  BY <1>1, <1>2
<1>4. a \o ((b \o c) \o d) \in Seq(V)
  BY <1>1, <1>3
<1>5. QED BY <1>1, <1>2, <1>3, <1>4 DEF SharedGroups, V, a, b, c, d

(* The two routines of a projection, from the encryption on.               *)
Begun(q, s) == Runs(<<Encrypt(Work, 0, q.n)>>, Start, s, q.batch)

\* The unshared routine, after its input.
LEMMA RunDirectRoutine ==
  ASSUME NEW q, Geometry(q), q.baby_step = 0, NEW s, NEW t, Begun(q, s),
         Runs(Direct(q) \o Folding(q), s, t, q.batch)
  PROVE  Projected(t, q)
<1>1. PICK s3 : Runs(Direct(q), s, s3, q.batch) /\ Runs(Folding(q), s3, t, q.batch)
  <2> DEFINE a == Direct(q)   b == Folding(q)
  <2>1. a \in Seq(Instructions) /\ b \in Seq(Instructions)
    BY DirectTypes, PartTypes
  <2> HIDE DEF a, b
  <2>2. Runs(a \o b, s, t, q.batch)
    BY DEF a, b
  <2>3. \E u : Runs(a, s, u, q.batch) /\ Runs(b, u, t, q.batch)
    BY <2>1, <2>2, RunsBoth
  <2>4. QED BY <2>3 DEF a, b
<1>2. PICK s2 : /\ Runs((Replicating(q) \o <<Copy(Base, Work)>>) \o DirectLoop(q), s, s2, q.batch)
                /\ Runs(<<Copy(Work, Acc)>>, s2, s3, q.batch)
  <2> DEFINE a == (Replicating(q) \o <<Copy(Base, Work)>>) \o DirectLoop(q)
             b == <<Copy(Work, Acc)>>
  <2>1. a \in Seq(Instructions) /\ b \in Seq(Instructions)
    BY DirectTypes, PartTypes
  <2>2. Runs(a \o b, s, s3, q.batch)
    BY <1>1 DEF Direct
  <2> HIDE DEF a, b
  <2>3. \E u : Runs(a, s, u, q.batch) /\ Runs(b, u, s3, q.batch)
    BY <2>1, <2>2, RunsBoth
  <2>4. QED BY <2>3 DEF a, b
<1>3. PICK s1 : /\ Runs(Replicating(q) \o <<Copy(Base, Work)>>, s, s1, q.batch)
                /\ Runs(DirectLoop(q), s1, s2, q.batch)
  <2> DEFINE a == Replicating(q) \o <<Copy(Base, Work)>>   b == DirectLoop(q)
  <2>1. a \in Seq(Instructions) /\ b \in Seq(Instructions)
    BY DirectTypes
  <2>2. Runs(a \o b, s, s2, q.batch)
    BY <1>2
  <2> HIDE DEF a, b
  <2>3. \E u : Runs(a, s, u, q.batch) /\ Runs(b, u, s2, q.batch)
    BY <2>1, <2>2, RunsBoth
  <2>4. QED BY <2>3 DEF a, b
<1>4. PICK s0 : /\ Runs(Replicating(q), s, s0, q.batch)
                /\ Runs(<<Copy(Base, Work)>>, s0, s1, q.batch)
  <2> DEFINE a == Replicating(q)   b == <<Copy(Base, Work)>>
  <2>1. a \in Seq(Instructions) /\ b \in Seq(Instructions)
    BY PartTypes
  <2>2. Runs(a \o b, s, s1, q.batch)
    BY <1>3
  <2> HIDE DEF a, b
  <2>3. \E u : Runs(a, s, u, q.batch) /\ Runs(b, u, s1, q.batch)
    BY <2>1, <2>2, RunsBoth
  <2>4. QED BY <2>3 DEF a, b
<1>5. /\ \E x : Given(s0, q, x)
      /\ s0.mults = 0
      /\ Rolls(Start, s0, ScheduleLength(q.shape.window \div q.n, q.logarithmic)
                          + ScheduleLength(Windows(q), q.logarithmic),
               OffsetsOf(q.shape.window \div q.n, -q.n, q.logarithmic)
               \cup OffsetsOf(Windows(q), -q.shape.window, q.logarithmic))
  BY <1>4, RunInput DEF Begun
<1>6. PICK x : Given(s0, q, x)
  BY <1>5
<1>7. DirectRun(s0, s1, s2, s3, q, x)
  BY <1>2, <1>3, <1>4, <1>6 DEF DirectRun
<1>8. Grouped(s0, s3, q)
  BY <1>7, RunDirect
<1>9. Gathered(s0, s3, t, q)
  BY <1>1, <1>5, <1>8 DEF Gathered
<1>10. QED BY <1>9, RunFold

\* The routine with baby steps, after its input.
LEMMA RunSharedRoutine ==
  ASSUME NEW q, Geometry(q), q.baby_step # 0, NEW s, NEW t, Begun(q, s),
         Runs((Replicating(q) \o SharedGroups(q)) \o Folding(q), s, t, q.batch)
  PROVE  Projected(t, q)
<1>1. PICK s3 : /\ Runs(Replicating(q) \o SharedGroups(q), s, s3, q.batch)
                /\ Runs(Folding(q), s3, t, q.batch)
  <2> DEFINE a == Replicating(q) \o SharedGroups(q)   b == Folding(q)
  <2>1. a \in Seq(Instructions) /\ b \in Seq(Instructions)
    BY SharedTypes, PartTypes
  <2> HIDE DEF a, b
  <2>2. Runs(a \o b, s, t, q.batch)
    BY DEF a, b
  <2>3. \E u : Runs(a, s, u, q.batch) /\ Runs(b, u, t, q.batch)
    BY <2>1, <2>2, RunsBoth
  <2>4. QED BY <2>3 DEF a, b
<1>2. PICK s0 : Runs(Replicating(q), s, s0, q.batch) /\ Runs(SharedGroups(q), s0, s3, q.batch)
  <2> DEFINE a == Replicating(q)   b == SharedGroups(q)
  <2>1. a \in Seq(Instructions) /\ b \in Seq(Instructions)
    BY SharedTypes, PartTypes
  <2>2. Runs(a \o b, s, s3, q.batch)
    BY <1>1
  <2> HIDE DEF a, b
  <2>3. \E u : Runs(a, s, u, q.batch) /\ Runs(b, u, s3, q.batch)
    BY <2>1, <2>2, RunsBoth
  <2>4. QED BY <2>3 DEF a, b
<1>3. PICK s2 : /\ Runs(BabyLoop(q) \o GiantSteps(q), s0, s2, q.batch)
                /\ Runs(<<Copy(Work, Acc)>>, s2, s3, q.batch)
  <2> DEFINE a == BabyLoop(q) \o GiantSteps(q)   b == <<Copy(Work, Acc)>>
  <2>1. a \in Seq(Instructions) /\ b \in Seq(Instructions)
    BY SharedTypes, PartTypes
  <2>2. Runs(a \o b, s0, s3, q.batch)
    BY <1>2 DEF SharedGroups
  <2> HIDE DEF a, b
  <2>3. \E u : Runs(a, s0, u, q.batch) /\ Runs(b, u, s3, q.batch)
    BY <2>1, <2>2, RunsBoth
  <2>4. QED BY <2>3 DEF a, b
<1>4. PICK s1 : Runs(BabyLoop(q), s0, s1, q.batch) /\ Runs(GiantSteps(q), s1, s2, q.batch)
  <2> DEFINE a == BabyLoop(q)   b == GiantSteps(q)
  <2>1. a \in Seq(Instructions) /\ b \in Seq(Instructions)
    BY SharedTypes
  <2>2. Runs(a \o b, s0, s2, q.batch)
    BY <1>3
  <2> HIDE DEF a, b
  <2>3. \E u : Runs(a, s0, u, q.batch) /\ Runs(b, u, s2, q.batch)
    BY <2>1, <2>2, RunsBoth
  <2>4. QED BY <2>3 DEF a, b
<1>5. /\ \E x : Given(s0, q, x)
      /\ s0.mults = 0
      /\ Rolls(Start, s0, ScheduleLength(q.shape.window \div q.n, q.logarithmic)
                          + ScheduleLength(Windows(q), q.logarithmic),
               OffsetsOf(q.shape.window \div q.n, -q.n, q.logarithmic)
               \cup OffsetsOf(Windows(q), -q.shape.window, q.logarithmic))
  BY <1>2, RunInput DEF Begun
<1>6. PICK x : Given(s0, q, x)
  BY <1>5
<1>7. SharedRun(s0, s1, s2, s3, q, x)
  BY <1>3, <1>4, <1>6 DEF SharedRun
<1>8. Grouped(s0, s3, q)
  BY <1>7, RunShared
<1>9. Gathered(s0, s3, t, q)
  BY <1>1, <1>5, <1>8 DEF Gathered
<1>10. QED BY <1>9, RunFold

(* A projection as a whole.                                                *)
LEMMA RunProjection ==
  ASSUME NEW q, Geometry(q)
  PROVE  /\ Projection(q) \in Seq(Instructions)
         /\ \A t : Runs(Projection(q), Start, t, q.batch) => Projected(t, q)
<1> DEFINE V == Instructions   a == <<Encrypt(Work, 0, q.n)>>
           b == IF q.baby_step = 0 THEN Direct(q) \o Folding(q)
                ELSE (Replicating(q) \o SharedGroups(q)) \o Folding(q)
<1>1. Projection(q) = a \o b
  BY DirectProgram, SharedProgram DEF Projection
<1>2. b \in Seq(V)
  <2>1. CASE q.baby_step = 0
    <3> DEFINE c == Direct(q)   d == Folding(q)
    <3>1. c \in Seq(V) /\ d \in Seq(V)
      BY DirectTypes, PartTypes
    <3> HIDE DEF V, c, d
    <3>2. c \o d \in Seq(V)
      BY <3>1
    <3>3. QED BY <2>1, <3>2 DEF c, d
  <2>2. CASE q.baby_step # 0
    <3> DEFINE c == Replicating(q) \o SharedGroups(q)   d == Folding(q)
    <3>1. c \in Seq(V) /\ d \in Seq(V)
      BY <2>2, SharedTypes, PartTypes
    <3> HIDE DEF V, c, d
    <3>2. c \o d \in Seq(V)
      BY <3>1
    <3>3. QED BY <2>2, <3>2 DEF c, d
  <2>3. QED BY <2>1, <2>2
<1>3. a \in Seq(V)
  BY PartTypes
<1>4. ASSUME NEW s, NEW t, Begun(q, s), Runs(b, s, t, q.batch)
      PROVE  Projected(t, q)
  <2>1. CASE q.baby_step = 0
    BY <1>4, <2>1, RunDirectRoutine
  <2>2. CASE q.baby_step # 0
    BY <1>4, <2>2, RunSharedRoutine
  <2>3. QED BY <2>1, <2>2
<1>5. ASSUME NEW t, Runs(Projection(q), Start, t, q.batch)
      PROVE  Projected(t, q)
  <2>1. Runs(a \o b, Start, t, q.batch)
    BY <1>1, <1>5
  <2> HIDE DEF a, b
  <2>2. PICK s : Runs(a, Start, s, q.batch) /\ Runs(b, s, t, q.batch)
    BY <1>2, <1>3, <2>1, RunsBoth
  <2>3. Begun(q, s)
    BY <2>2 DEF Begun, a
  <2>4. QED BY <1>4, <2>2, <2>3 DEF b
<1> HIDE DEF V, a, b
<1>6. a \o b \in Seq(V)
  BY <1>2, <1>3
<1>7. QED BY <1>1, <1>5, <1>6 DEF V

-----------------------------------------------------------------------------
(* The entries of W x as the reference adds them up.                       *)
Columns1(i, n) == {TermOf(i, c) : c \in 0 .. n - 1}

\* An entry of W x is the sum of one term for each column.
LEMMA ProductTerms ==
  ASSUME NEW i \in Nat, NEW n \in Nat
  PROVE  Product(0, i, n, [c \in Slots(n) |-> SumOf({<<0, c>>})]) = SumOf(Columns1(i, n))
<1> DEFINE S == 0 .. n - 1   x == [c \in Slots(n) |-> SumOf({<<0, c>>})]
           T == [c \in S |-> {TermOf(i, c)}]
           f == [c \in S |-> Scaled(<<0, i, c>>, x[c])]
           F(h) == [s \in SUBSET S |-> IF s = {} THEN EmptyBag
                                       ELSE h[s \ {OneOf(s)}] (+) Scaled(<<0, i, OneOf(s)>>, x[OneOf(s)])]
           W == Whole(S, T)
           run == CHOOSE h : h = F(h)
<1>1. Product(0, i, n, x) = run[S]
  <2>1. Product(0, i, n, x) = FoldSet(LAMBDA c, total : total (+) Scaled(<<0, i, c>>, x[c]), EmptyBag, S)
    BY DEF Product
  <2>2. FoldSet(LAMBDA c, total : total (+) Scaled(<<0, i, c>>, x[c]), EmptyBag, S) = run[S]
    BY DEF FoldSet, MapThenFoldSet, OneOf
  <2>3. QED BY <2>1, <2>2
<1>2. \A s \in SUBSET S : s # {} => f[OneOf(s)] = Scaled(<<0, i, OneOf(s)>>, x[OneOf(s)])
  BY DEF OneOf
<1>3. IsFiniteSet(S)
  BY FS_Interval
<1>4. ASSUME NEW c \in S
      PROVE  f[c] = SumOf(T[c])
  <2> DEFINE w == <<0, i, c>>   u == <<0, c>>
  <2>1. w \in Seq(Int) /\ u \in Seq(Int)
    BY PairTypes
  <2>2. x[c] = SumOf({u})
    BY DEF Slots
  <2>3. T[c] = {w \o u} /\ f[c] = Scaled(w, x[c])
    BY DEF TermOf
  <2> HIDE DEF w, u, x, T, f
  <2>4. Scaled(w, SumOf({u})) = SumOf({w \o u})
    BY <2>1, ScaledTerm
  <2>5. QED BY <2>2, <2>3, <2>4
<1>5. Apart(S, T)
  <2>1. ASSUME NEW c \in S, NEW d \in S, c # d
        PROVE  T[c] \cap T[d] = {}
    <3>1. c \in Int /\ d \in Int /\ i \in Int
      OBVIOUS
    <3>2. TermOf(i, c) # TermOf(i, d)
      BY <2>1, <3>1, TermsDiffer
    <3>3. T[c] = {TermOf(i, c)} /\ T[d] = {TermOf(i, d)}
      OBVIOUS
    <3> HIDE DEF T
    <3>4. QED BY <3>2, <3>3
  <2>2. QED BY <2>1 DEF Apart
<1>6. UNION {T[c] : c \in S} = Columns1(i, n)
  BY DEF Columns1
<1> HIDE DEF f, T, x, S
<1>7. Folds(W, S, f)
  BY <1>3, <1>4, <1>5, WholeFolds
<1>8. W = F(W)
  <2>1. \A s \in SUBSET S : W[s] = IF s = {} THEN EmptyBag
                                   ELSE W[s \ {OneOf(s)}] (+) Scaled(<<0, i, OneOf(s)>>, x[OneOf(s)])
    BY <1>2, <1>7 DEF Folds
  <2>2. W = [s \in SUBSET S |-> W[s]]
    BY DEF Whole
  <2> HIDE DEF W
  <2>3. QED BY <2>1, <2>2
<1> HIDE DEF W
<1>9. run = F(run)
  BY <1>8
<1> HIDE DEF run
<1>10. Folds(run, S, f)
  <2>1. \A s \in SUBSET S : run[s] = IF s = {} THEN EmptyBag
                                     ELSE run[s \ {OneOf(s)}] (+) Scaled(<<0, i, OneOf(s)>>, x[OneOf(s)])
    BY <1>9
  <2>2. QED BY <1>2, <2>1 DEF Folds
<1>11. run[S] = SumOf(UNION {T[e] : e \in S})
  BY <1>3, <1>4, <1>5, <1>10, FoldsWhole
<1>12. QED BY <1>1, <1>6, <1>11 DEF x

ReadOnce(n, r, i, c) ==
  /\ \E k \in 0 .. per_replica(n, r) - 1 : \E j \in Diagonals(n, r, k) :
       InputRead(n, i, j, k, r) = c
  /\ \A k, l \in Nat : \A j \in Diagonals(n, r, k), h \in Diagonals(n, r, l) :
       InputRead(n, i, j, k, r) = c /\ InputRead(n, i, h, l, r) = c => k = l /\ j = h

\* EveryWeightOnce, as one fact.
LEMMA EveryColumnOnce ==
  ASSUME NEW n \in Nat \ {0}, NEW r \in 1 .. n,
         NEW i \in Nat, NEW c \in 0 .. n - 1
  PROVE  ReadOnce(n, r, i, c)
BY EveryWeightOnce DEF ReadOnce

(* All terms of an output are there once, over its replicas and groups.    *)
LEMMA OutputTerms ==
  ASSUME NEW q, Geometry(q), NEW i \in Rows(q)
  PROVE  LET U == [j \in Replicas(q) |-> Terms(q, i, j, 0, Groups(q))]
         IN  Disjoint(U, q.shape.replicas) /\ Among(U, q.shape.replicas) = Columns1(i, q.n)
<1> DEFINE n == q.n   r == q.shape.replicas   G == Groups(q)
           U == [j \in Replicas(q) |-> Terms(q, i, j, 0, G)]
<1>1. n \in Nat \ {0} /\ r \in 1 .. n /\ i \in Nat /\ G \in Nat
  <2>1. q.m \in Nat
    BY GeometryFacts
  <2>2. QED BY <2>1, GeometryFacts DEF Rows
<1>2. Replicas(q) = 0 .. r - 1 /\ G = per_replica(n, r)
  BY DEF Replicas, Groups
<1>3. \A k \in Nat : Serves(q, k) = Diagonals(n, r, k)
  BY DEF Serves
<1>4. \A j, k : Reading(q, i, j, k) = InputRead(n, i, j, k, r)
  BY DEF Reading
<1>5. \A j \in 0 .. r - 1 : U[j] = Terms(q, i, j, 0, G)
  BY <1>2
<1>6. \A j \in 0 .. r - 1 : \A e : e \in U[j] <=>
        \E k \in 0 .. G - 1 : j \in Diagonals(n, r, k) /\ e = TermOf(i, InputRead(n, i, j, k, r))
  <2>1. ASSUME NEW j \in 0 .. r - 1, NEW e
        PROVE  e \in Terms(q, i, j, 0, G) <=>
                 \E k \in 0 .. G - 1 : j \in Serves(q, k) /\ e = TermOf(i, Reading(q, i, j, k))
    BY DEF Terms
  <2>2. \A k \in 0 .. G - 1 : k \in Nat
    BY <1>1
  <2> HIDE DEF U, r, G
  <2>3. QED BY <1>3, <1>4, <1>5, <2>1, <2>2
<1>7. ASSUME NEW k \in Nat, NEW j \in Diagonals(n, r, k)
      PROVE  InputRead(n, i, j, k, r) \in 0 .. n - 1 /\ j \in 0 .. r - 1
  <2>1. j \in Serves(q, k)
    BY <1>3
  <2>2. Reading(q, i, j, k) \in 0 .. n - 1
    BY <2>1, ReadingType
  <2>3. QED BY <1>4, <2>2 DEF Diagonals
<1> HIDE DEF n, r, G, U
<1>8. ASSUME NEW j \in 0 .. r - 1, NEW h \in 0 .. r - 1, j # h
      PROVE  U[j] \cap U[h] = {}
  <2>1. SUFFICES ASSUME NEW e, e \in U[j], e \in U[h] PROVE FALSE
    OBVIOUS
  <2>2. PICK k \in 0 .. G - 1 : j \in Diagonals(n, r, k) /\ e = TermOf(i, InputRead(n, i, j, k, r))
    BY <1>6, <2>1
  <2>3. PICK l \in 0 .. G - 1 : h \in Diagonals(n, r, l) /\ e = TermOf(i, InputRead(n, i, h, l, r))
    BY <1>6, <2>1
  <2>4. k \in Nat /\ l \in Nat
    BY <1>1
  <2> DEFINE c == InputRead(n, i, j, k, r)   d == InputRead(n, i, h, l, r)
  <2>5. c \in 0 .. n - 1 /\ d \in 0 .. n - 1
    BY <1>7, <2>2, <2>3, <2>4
  <2>6. c = d
    <3> HIDE DEF c, d
    <3>1. TermOf(i, c) = TermOf(i, d) /\ c \in Int /\ d \in Int /\ i \in Int
      BY <1>1, <2>2, <2>3, <2>5 DEF c, d
    <3>2. QED BY <3>1, TermsDiffer
  <2>7. InputRead(n, i, j, k, r) = c /\ InputRead(n, i, h, l, r) = c
    BY <2>6
  <2> HIDE DEF c, d
  <2>10. ReadOnce(n, r, i, c)
    BY <1>1, <2>5, EveryColumnOnce
  <2>8. k = l /\ j = h
    BY <2>2, <2>3, <2>4, <2>7, <2>10 DEF ReadOnce
  <2>9. QED BY <1>8, <2>8
<1>9. Disjoint(U, r)
  BY <1>8 DEF Disjoint
<1>10. Among(U, r) = Columns1(i, n)
  <2>1. ASSUME NEW e \in Among(U, r)
        PROVE  e \in Columns1(i, n)
    <3>1. PICK j \in 0 .. r - 1 : e \in U[j]
      BY DEF Among
    <3>2. PICK k \in 0 .. G - 1 : j \in Diagonals(n, r, k) /\ e = TermOf(i, InputRead(n, i, j, k, r))
      BY <1>6, <3>1
    <3>3. k \in Nat
      BY <1>1
    <3>4. InputRead(n, i, j, k, r) \in 0 .. n - 1
      BY <1>7, <3>2, <3>3
    <3>5. QED BY <3>2, <3>4 DEF Columns1
  <2>2. ASSUME NEW e \in Columns1(i, n)
        PROVE  e \in Among(U, r)
    <3>1. PICK c \in 0 .. n - 1 : e = TermOf(i, c)
      BY DEF Columns1
    <3>8. ReadOnce(n, r, i, c)
      BY <1>1, EveryColumnOnce
    <3>2. PICK k \in 0 .. per_replica(n, r) - 1 : \E j \in Diagonals(n, r, k) :
            InputRead(n, i, j, k, r) = c
      BY <3>8 DEF ReadOnce
    <3>3. PICK j \in Diagonals(n, r, k) : InputRead(n, i, j, k, r) = c
      BY <3>2
    <3>4. k \in 0 .. G - 1 /\ k \in Nat
      BY <1>1, <1>2, <3>2
    <3>5. j \in 0 .. r - 1
      BY <1>7, <3>3, <3>4
    <3>6. e \in U[j]
      BY <1>6, <3>1, <3>3, <3>4, <3>5
    <3>7. QED BY <3>5, <3>6 DEF Among
  <2>3. QED BY <2>1, <2>2
<1>11. QED BY <1>9, <1>10 DEF U, r, n, G

(* The fold brings them into the slot of the output.                       *)
LEMMA ProjectedOutput ==
  ASSUME NEW q, Geometry(q), NEW v, NEW w, Holding(q, v, 0, 0, Groups(q)),
         Collected(v, w, q.shape.replicas, q.shape.window + 1, q.batch), NEW i \in Rows(q)
  PROVE  w[i] = SumOf(Columns1(i, q.n)) /\ i \in Slots(q.batch)
<1> DEFINE r == q.shape.replicas   step == q.shape.window + 1   B == q.batch
           U == [j \in Replicas(q) |-> Terms(q, i, j, 0, Groups(q))]
<1>1. Disjoint(U, r) /\ Among(U, r) = Columns1(i, q.n)
  BY OutputTerms
<1>2. B \in Nat \ {0} /\ r \in Nat \ {0} /\ i \in Int /\ step \in Int /\ Replicas(q) = 0 .. r - 1
  <2>1. q.m \in Nat
    BY GeometryFacts
  <2>2. QED BY <2>1, GeometryFacts DEF Rows, Replicas
<1>3. \A j \in 0 .. r - 1 : v[(i + j * step) % B] = SumOf(U[j])
  <2> TAKE j \in 0 .. r - 1
  <2>1. v[(At(q, i, j) + 0) % B] = SumOf(Terms(q, i, j, 0, Groups(q)))
    BY <1>2 DEF Holding
  <2>2. At(q, i, j) = i + j * step /\ At(q, i, j) \in Int
    BY <1>2, AtInside DEF Slots
  <2>3. At(q, i, j) + 0 = At(q, i, j)
    BY <2>2
  <2>4. U[j] = Terms(q, i, j, 0, Groups(q))
    BY <1>2
  <2>5. QED BY <2>1, <2>2, <2>3, <2>4
<1>4. i \in Slots(B) /\ i % B = i
  <2>1. 0 \in Replicas(q)
    BY <1>2
  <2>2. At(q, i, 0) \in Slots(B) /\ At(q, i, 0) = i + 0 * step
    BY <2>1, AtInside
  <2>3. i + 0 * step = i
    BY <1>2
  <2>4. i \in Slots(B)
    BY <2>2, <2>3
  <2> HIDE DEF B
  <2>5. i % B = i
    BY <1>2, <2>4 DEF Slots
  <2>6. QED BY <2>4, <2>5
<1>5. Collected(v, w, r, step, B)
  OBVIOUS
<1> HIDE DEF r, step, B, U
<1>6. w[i % B] = SumOf(Among(U, r))
  BY <1>1, <1>2, <1>3, <1>5 DEF Collected
<1>7. QED BY <1>1, <1>4, <1>6 DEF B

-----------------------------------------------------------------------------
(* The machine keeps its job, and a job that is done was executed whole.   *)
Foreseen == job \in Jobs

\* The job is one of Jobs.
LEMMA JobKept == Spec => []Foreseen
<1>1. Init => Foreseen
  BY DEF Init, Foreseen
<1>2. Foreseen /\ [Next]_vars => Foreseen'
  BY DEF Foreseen, Next, vars, EncryptInput, CopyRegister, RollRegister, AddRegisters,
         MultiplyMask, Executes
<1>3. QED BY <1>1, <1>2, PTL DEF Spec

(* A projection that is done was executed from its beginning to its end.   *)
LEMMA DoneProjected ==
  ASSUME Traced, Done, Foreseen, job.kind = "projection"
  PROVE  Geometry(job) /\ Projected(Machine, job)
<1>1. Geometry(job)
  BY ProjectionAssumption DEF Foreseen
<1>2. Code(job) = Projection(job)
  BY DEF Code
<1>3. /\ Projection(job) \in Seq(Instructions)
      /\ \A t : Runs(Projection(job), Start, t, job.batch) => Projected(t, job)
  BY <1>1, RunProjection
<1>4. Runs(Code(job), Start, Machine, job.batch)
  BY <1>2, <1>3, DoneRan
<1>5. QED BY <1>1, <1>2, <1>3, <1>4

\* A projection takes the level, the products and the rotations of its cost
\* model, whatever its shape, schedule and number of baby steps.
THEOREM ProjectionsCounted == Spec => [](job.kind = "projection" => DepthCounted)
<1>1. ASSUME Traced, Foreseen, job.kind = "projection"
      PROVE  DepthCounted
  <2> SUFFICES ASSUME Done
               PROVE  /\ regs[Work].level = 1 /\ mults = Cost(job).ct_pt_mul
                      /\ Len(rolls) = Cost(job).rotations
    BY <1>1 DEF DepthCounted, Cost
  <2>1. Geometry(job) /\ Projected(Machine, job)
    BY <1>1, DoneProjected
  <2>2. PICK w : Stores(Machine, Work, w, 1)
    BY <2>1 DEF Projected
  <2>3. regs[Work].level = 1
    BY <2>2 DEF Stores, Reg, Machine
  <2>4. mults = Cost(job).ct_pt_mul
    BY <2>1 DEF Projected, Machine
  <2>5. Cost(job).rotations \in Int
    BY <2>1, CostParts
  <2>6. Len(rolls) = Len(<<>>) + Cost(job).rotations
    BY <2>1 DEF Projected, Rolls, Start, Machine
  <2>7. Len(rolls) = Cost(job).rotations
    BY <2>5, <2>6
  <2>8. QED BY <2>3, <2>4, <2>7
<1>2. QED BY <1>1, Execution, JobKept, PTL

\* A projection rotates by nothing that has no key.
THEOREM ProjectionsHaveKeys == Spec => [](job.kind = "projection" => KeysCover)
<1>1. ASSUME Traced, Foreseen, job.kind = "projection"
      PROVE  KeysCover
  <2> DEFINE keys == insert_replicated_rotations(job.n, job.shape, job.baby_step, job.logarithmic)
  <2> SUFFICES ASSUME Done
               PROVE  ToSet(rolls) \subseteq keys
    BY <1>1 DEF KeysCover
  <2>1. Geometry(job) /\ Projected(Machine, job)
    BY <1>1, DoneProjected
  <2>2. ToSet(rolls) \subseteq ToSet(<<>>) \cup keys
    BY <2>1 DEF Projected, Rolls, Start, Machine
  <2>3. ToSet(<<>>) = {}
    BY DEF ToSet
  <2>4. QED BY <2>2, <2>3
<1>2. QED BY <1>1, Execution, JobKept, PTL

\* A projection computes W x in its leading slots: every entry of the matrix
\* is multiplied by its input and added to its output exactly once.
THEOREM ProjectionsExact == Spec => [](job.kind = "projection" => ProjectionExact)
<1>1. ASSUME Traced, Foreseen, job.kind = "projection"
      PROVE  ProjectionExact
  <2> DEFINE x == [c \in Slots(job.n) |-> SumOf({<<0, c>>})]
             y == [i \in Slots(job.m) |-> Product(0, i, job.n, x)]
  <2> SUFFICES ASSUME Done
               PROVE  Holds(Work, y, FALSE)
    BY <1>1 DEF ProjectionExact
  <2>1. Geometry(job) /\ Projected(Machine, job)
    BY <1>1, DoneProjected
  <2>2. PICK v, w : /\ Holding(job, v, 0, 0, Groups(job)) /\ Stores(Machine, Work, w, 1)
                    /\ Collected(v, w, job.shape.replicas, job.shape.window + 1, job.batch)
    BY <2>1 DEF Projected
  <2>3. regs[Work].slots = w
    BY <2>2 DEF Stores, Reg, Machine
  <2>4. ASSUME NEW i \in Slots(job.m)
        PROVE  w[i] = y[i]
    <3>1. i \in Rows(job) /\ i \in Nat /\ job.n \in Nat
      BY <2>1 DEF Slots, Rows, Geometry
    <3>2. w[i] = SumOf(Columns1(i, job.n))
      BY <2>1, <2>2, <3>1, ProjectedOutput
    <3>3. Product(0, i, job.n, x) = SumOf(Columns1(i, job.n))
      BY <3>1, ProductTerms
    <3>4. QED BY <3>2, <3>3
  <2>5. DOMAIN y = Slots(job.m)
    OBVIOUS
  <2> HIDE DEF y
  <2>6. QED BY <2>3, <2>4, <2>5 DEF Holds
<1>2. QED BY <1>1, Execution, JobKept, PTL
=============================================================================
