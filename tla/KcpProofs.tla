------------------------------- MODULE KcpProofs -------------------------------
(***************************************************************************)
(* Proofs about Kcp: the windows of both sides hold, no segment is         *)
(* forgotten before the peer has it, and each side receives the messages   *)
(* of the other, for every window and mtu and every fault of the network.  *)
(***************************************************************************)
EXTENDS Kcp, FiniteSetTheorems, WellFoundedInduction, TLAPS

(* Sequence numbers *)

Half == SnMod \div 2

LEMMA Constants ==
  /\ SnMod \in Nat /\ FirstSn \in Sns
  /\ SndWnd \in Nat \ {0} /\ RcvWindow \in Nat \ {0} /\ WndRcv \in 1..RcvWindow
  /\ Half \in Nat /\ SndWnd + RcvWindow <= Half /\ SndWnd + RcvWindow < SnMod - Half
  /\ 2 * Half <= SnMod /\ SnMod <= 2 * Half + 1
<1>1. Max({WndRcv, RcvWnd}) = RcvWindow
  BY KcpAssumption DEF Max, RcvWindow
<1>2. RcvWindow \in Nat \ {0} /\ WndRcv \in 1..RcvWindow
  BY KcpAssumption DEF RcvWindow
<1>3. Half \in Nat /\ 2 * Half <= SnMod /\ SnMod <= 2 * Half + 1
  BY KcpAssumption DEF Half
<1> QED  BY <1>1, <1>2, <1>3, KcpAssumption DEF Sns

LEMMA ModDiv ==
  ASSUME NEW m \in Nat \ {0}, NEW z \in Int
  PROVE  /\ z = ((z \div m) * m) + (z % m)
         /\ z \div m \in Int /\ z % m \in 0..(m - 1)
OBVIOUS

LEMMA SmallMultiple ==
  ASSUME NEW m \in Nat \ {0}, NEW k \in Int, NEW r \in Int, r = k * m, -m < r, r < m
  PROVE  r = 0
<1>1. CASE k > 0
  <2>1. k * m >= m
    BY <1>1
  <2> QED  BY <2>1
<1>2. CASE k < 0
  <2>1. k * m <= -m
    BY <1>2
  <2> QED  BY <2>1
<1>3. CASE k = 0
  BY <1>3
<1> QED  BY <1>1, <1>2, <1>3

LEMMA ModShift ==
  ASSUME NEW m \in Nat \ {0}, NEW z \in Int
  PROVE  (z + m) % m = z % m
<1> DEFINE q == z \div m
           r == z % m
           v == (z + m) \div m
           s == (z + m) % m
<1>1. z = q * m + r /\ q \in Int /\ r \in 0..(m - 1)
  BY ModDiv
<1>2. z + m = v * m + s /\ v \in Int /\ s \in 0..(m - 1)
  BY ModDiv
<1> HIDE DEF q, r, v, s
<1>3. s - r = (q + 1 - v) * m
  BY <1>1, <1>2
<1>4. s - r = 0
  BY <1>1, <1>2, <1>3, SmallMultiple
<1>5. s = r
  BY <1>1, <1>2, <1>4
<1> QED  BY <1>5 DEF s, r

LEMMA ModIs ==
  ASSUME NEW z \in (1 - SnMod)..(2 * SnMod - 1)
  PROVE  z % SnMod = IF z < 0 THEN z + SnMod ELSE IF z < SnMod THEN z ELSE z - SnMod
<1>1. SnMod \in Nat \ {0}
  BY KcpAssumption
<1>2. ASSUME NEW m \in Nat \ {0}, NEW y \in Int PROVE (y + m) % m = y % m
  BY ModShift
<1>3. ASSUME NEW m \in Nat \ {0}, NEW y \in 0..(m - 1) PROVE y % m = y
  OBVIOUS
<1>4. CASE z < 0
  <2>1. z + SnMod \in 0..(SnMod - 1) /\ z \in Int
    BY <1>1, <1>4
  <2> QED  BY <2>1, <1>1, <1>2, <1>3, <1>4
<1>5. CASE z \in 0..(SnMod - 1)
  BY <1>1, <1>3, <1>5
<1>6. CASE z >= SnMod
  <2>1. z - SnMod \in 0..(SnMod - 1) /\ z - SnMod \in Int /\ (z - SnMod) + SnMod = z
    BY <1>1, <1>6
  <2>2. ((z - SnMod) + SnMod) % SnMod = (z - SnMod) % SnMod
    BY <2>1, <1>1, <1>2
  <2>3. (z - SnMod) % SnMod = z - SnMod
    BY <2>1, <1>1, <1>3
  <2>4. z % SnMod = z - SnMod
    BY <2>1, <2>2, <2>3
  <2> QED  BY <2>4, <1>1, <1>6
<1> QED  BY <1>1, <1>4, <1>5, <1>6

\* _itimediff: the distance, of the two that are possible, that is less than half.
LEMMA DiffIs ==
  ASSUME NEW a \in Sns, NEW b \in Sns
  PROVE  /\ Diff(a, b) \in (Half - SnMod)..(Half - 1)
         /\ Diff(a, b) = a - b \/ Diff(a, b) = a - b + SnMod \/ Diff(a, b) = a - b - SnMod
<1>1. SnMod \in Nat \ {0} /\ a \in 0..(SnMod - 1) /\ b \in 0..(SnMod - 1)
  BY KcpAssumption DEF Sns
<1>2. a - b \in (1 - SnMod)..(2 * SnMod - 1)
  BY <1>1
<1>3. (a - b) % SnMod = IF a - b < 0 THEN a - b + SnMod ELSE a - b
  BY <1>1, <1>2, ModIs
<1>4. Diff(a, b) = IF (a - b) % SnMod < Half THEN (a - b) % SnMod ELSE ((a - b) % SnMod) - SnMod
  BY DEF Diff, Half
<1>5. Half \in Nat /\ 2 * Half <= SnMod /\ SnMod <= 2 * Half + 1
  BY Constants
<1> QED  BY <1>1, <1>3, <1>4, <1>5

LEMMA DiffUnique ==
  ASSUME NEW a \in Sns, NEW b \in Sns, NEW e \in (Half - SnMod)..(Half - 1),
         e = a - b \/ e = a - b + SnMod \/ e = a - b - SnMod
  PROVE  Diff(a, b) = e
<1>1. SnMod \in Nat \ {0} /\ a \in 0..(SnMod - 1) /\ b \in 0..(SnMod - 1) /\ Half \in Nat
  BY KcpAssumption, Constants DEF Sns
<1> QED  BY <1>1, DiffIs

LEMMA PlusIs ==
  ASSUME NEW a \in Sns, NEW n \in 0..SnMod
  PROVE  /\ Plus(a, n) \in Sns
         /\ Plus(a, n) = a + n \/ Plus(a, n) = a + n - SnMod
<1>1. SnMod \in Nat \ {0} /\ a \in 0..(SnMod - 1)
  BY KcpAssumption DEF Sns
<1>2. a + n \in (1 - SnMod)..(2 * SnMod - 1)
  BY <1>1
<1>3. (a + n) % SnMod = IF a + n < SnMod THEN a + n ELSE a + n - SnMod
  BY <1>1, <1>2, ModIs
<1> QED  BY <1>1, <1>3 DEF Plus, Sns

LEMMA DiffSelf ==
  ASSUME NEW a \in Sns
  PROVE  Diff(a, a) = 0
<1>1. a \in Int /\ 0 \in (Half - SnMod)..(Half - 1)
  BY Constants DEF Sns
<1> QED  BY <1>1, DiffUnique

LEMMA DiffOrder ==
  ASSUME NEW a \in Sns, NEW b \in Sns
  PROVE  Diff(a, b) = 0 => a = b
<1>1. a \in 0..(SnMod - 1) /\ b \in 0..(SnMod - 1) /\ SnMod \in Nat
  BY Constants DEF Sns
<1> QED  BY <1>1, DiffIs

\* Distances add up as long as the sum is one.
LEMMA DiffTri ==
  ASSUME NEW a \in Sns, NEW b \in Sns, NEW c \in Sns,
         Diff(a, b) + Diff(b, c) \in (Half - SnMod)..(Half - 1)
  PROVE  Diff(a, c) = Diff(a, b) + Diff(b, c)
<1>1. a \in 0..(SnMod - 1) /\ b \in 0..(SnMod - 1) /\ c \in 0..(SnMod - 1)
      /\ SnMod \in Nat /\ Half \in Nat /\ 2 * Half <= SnMod /\ SnMod <= 2 * Half + 1
  BY Constants DEF Sns
<1>2. /\ Diff(a, b) = a - b \/ Diff(a, b) = a - b + SnMod \/ Diff(a, b) = a - b - SnMod
      /\ Diff(b, c) = b - c \/ Diff(b, c) = b - c + SnMod \/ Diff(b, c) = b - c - SnMod
      /\ Diff(a, c) = a - c \/ Diff(a, c) = a - c + SnMod \/ Diff(a, c) = a - c - SnMod
  BY DiffIs
<1>3. /\ Diff(a, b) \in (Half - SnMod)..(Half - 1) /\ Diff(b, c) \in (Half - SnMod)..(Half - 1)
      /\ Diff(a, c) \in (Half - SnMod)..(Half - 1)
  BY DiffIs
<1> DEFINE x == Diff(a, b)
           y == Diff(b, c)
           z == Diff(a, c)
<1>4. x + y \in (Half - SnMod)..(Half - 1)
  OBVIOUS
<1> HIDE DEF x, y, z
<1> QED  BY <1>1, <1>2, <1>3, <1>4 DEF x, y, z

LEMMA DiffPlus ==
  ASSUME NEW a \in Sns, NEW b \in Sns, NEW n \in 0..(Half - 1)
  PROVE  /\ Diff(a, b) + n < Half => Diff(Plus(a, n), b) = Diff(a, b) + n
         /\ Diff(a, b) - n >= Half - SnMod => Diff(a, Plus(b, n)) = Diff(a, b) - n
<1>1. a \in 0..(SnMod - 1) /\ b \in 0..(SnMod - 1)
      /\ SnMod \in Nat /\ Half \in Nat /\ 2 * Half <= SnMod /\ SnMod <= 2 * Half + 1
  BY Constants DEF Sns
<1>2. n \in 0..SnMod
  BY <1>1
<1>3. /\ Plus(a, n) \in 0..(SnMod - 1) /\ (Plus(a, n) = a + n \/ Plus(a, n) = a + n - SnMod)
      /\ Plus(b, n) \in 0..(SnMod - 1) /\ (Plus(b, n) = b + n \/ Plus(b, n) = b + n - SnMod)
  BY <1>2, PlusIs DEF Sns
<1>4. Plus(a, n) \in Sns /\ Plus(b, n) \in Sns
  BY <1>3 DEF Sns
<1>5. /\ Diff(a, b) \in (Half - SnMod)..(Half - 1)
      /\ Diff(a, b) = a - b \/ Diff(a, b) = a - b + SnMod \/ Diff(a, b) = a - b - SnMod
  BY DiffIs
<1>6. /\ Diff(Plus(a, n), b) \in (Half - SnMod)..(Half - 1)
      /\ \/ Diff(Plus(a, n), b) = Plus(a, n) - b
         \/ Diff(Plus(a, n), b) = Plus(a, n) - b + SnMod
         \/ Diff(Plus(a, n), b) = Plus(a, n) - b - SnMod
  BY <1>4, DiffIs
<1>7. /\ Diff(a, Plus(b, n)) \in (Half - SnMod)..(Half - 1)
      /\ \/ Diff(a, Plus(b, n)) = a - Plus(b, n)
         \/ Diff(a, Plus(b, n)) = a - Plus(b, n) + SnMod
         \/ Diff(a, Plus(b, n)) = a - Plus(b, n) - SnMod
  BY <1>4, DiffIs
<1> DEFINE d == Diff(a, b)
           u == Plus(a, n)
           v == Plus(b, n)
           x == Diff(u, b)
           y == Diff(a, v)
<1>8. d + n < Half => x = d + n
  <2> HIDE DEF d, x, u
  <2> QED  BY <1>1, <1>2, <1>3, <1>5, <1>6 DEF d, x, u
<1>9. d - n >= Half - SnMod => y = d - n
  <2> HIDE DEF d, y, v
  <2> QED  BY <1>1, <1>2, <1>3, <1>5, <1>7 DEF d, y, v
<1> QED  BY <1>8, <1>9

LEMMA PlusPlus ==
  ASSUME NEW a \in Sns, NEW m \in Nat, NEW n \in Nat, m + n <= SnMod
  PROVE  Plus(Plus(a, m), n) = Plus(a, m + n)
<1>1. SnMod \in Nat /\ a \in 0..(SnMod - 1) /\ m \in 0..SnMod /\ n \in 0..SnMod /\ m + n \in 0..SnMod
  BY Constants DEF Sns
<1>2. /\ Plus(a, m) \in Sns /\ (Plus(a, m) = a + m \/ Plus(a, m) = a + m - SnMod)
      /\ Plus(a, m + n) \in Sns
      /\ Plus(a, m + n) = a + (m + n) \/ Plus(a, m + n) = a + (m + n) - SnMod
  BY <1>1, PlusIs
<1>3. /\ Plus(Plus(a, m), n) \in Sns
      /\ Plus(Plus(a, m), n) = Plus(a, m) + n \/ Plus(Plus(a, m), n) = Plus(a, m) + n - SnMod
  BY <1>1, <1>2, PlusIs
<1> DEFINE x == Plus(a, m)
           y == Plus(a, m + n)
           z == Plus(x, n)
<1>4. x \in 0..(SnMod - 1) /\ y \in 0..(SnMod - 1) /\ z \in 0..(SnMod - 1)
  BY <1>2, <1>3 DEF Sns
<1> HIDE DEF x, y, z
<1> QED  BY <1>1, <1>2, <1>3, <1>4 DEF x, y, z

\* A number n ahead of another is the one n further.
LEMMA PlusOfDiff ==
  ASSUME NEW a \in Sns, NEW b \in Sns
  PROVE  /\ Diff(a, b) >= 0 => a = Plus(b, Diff(a, b))
         /\ \A n \in 0..(Half - 1) : a = Plus(b, n) <=> Diff(a, b) = n
<1>1. a \in 0..(SnMod - 1) /\ b \in 0..(SnMod - 1) /\ SnMod \in Nat /\ Half \in Nat
      /\ 2 * Half <= SnMod /\ SnMod <= 2 * Half + 1
  BY Constants DEF Sns
<1>2. ASSUME NEW n \in 0..(Half - 1) PROVE a = Plus(b, n) <=> Diff(a, b) = n
  <2>1. n \in 0..SnMod
    BY <1>1
  <2>2. /\ Plus(b, n) \in 0..(SnMod - 1)
        /\ Plus(b, n) = b + n \/ Plus(b, n) = b + n - SnMod
    BY <2>1, PlusIs DEF Sns
  <2>3. /\ Diff(a, b) \in (Half - SnMod)..(Half - 1)
        /\ Diff(a, b) = a - b \/ Diff(a, b) = a - b + SnMod \/ Diff(a, b) = a - b - SnMod
    BY DiffIs
  <2> DEFINE x == Plus(b, n)
             d == Diff(a, b)
  <2> HIDE DEF x, d
  <2> QED  BY <1>1, <2>1, <2>2, <2>3 DEF x, d
<1>3. Diff(a, b) >= 0 => Diff(a, b) \in 0..(Half - 1)
  BY <1>1, DiffIs
<1> QED  BY <1>2, <1>3
-----------------------------------------------------------------------------
(* Numbers, finite sets, and the folds of ikcp_input and ikcp_flush. *)

Below == OpToRel(<, Nat)

LEMMA BelowHolds ==
  ASSUME NEW y \in Nat, NEW x \in Nat, y < x
  PROVE  <<y, x>> \in Below
<1>1. <<y, x>> \in Nat \X Nat
  OBVIOUS
<1>2. <<y, x>>[1] = y /\ <<y, x>>[2] = x
  OBVIOUS
<1>3. <<y, x>>[1] < <<y, x>>[2]
  BY <1>2, Zenon
<1> QED  BY <1>1, <1>3, Zenon DEF Below, OpToRel

LEMMA LeastNatural ==
  ASSUME NEW S \in SUBSET Nat, S # {}
  PROVE  \E x \in S : \A y \in S : x <= y
<1>1. IsWellFoundedOn(Below, Nat)
  BY NatLessThanWellFounded, Zenon DEF Below
<1>2. PICK x \in S : \A y \in S : ~(<<y, x>> \in Below)
  BY <1>1, WFMin, Zenon
<1>3. \A y \in S : ~(y < x)
  BY <1>2, BelowHolds
<1> QED  BY <1>3

LEMMA MaxIs ==
  ASSUME NEW b \in Nat, NEW S \in SUBSET (0..b), S # {}
  PROVE  Max(S) \in S /\ \A y \in S : Max(S) >= y
<1> DEFINE T == {b - y : y \in S}
<1>1. T \in SUBSET Nat /\ T # {}
  <2>1. \A y \in S : y \in Nat /\ b - y \in Nat
    OBVIOUS
  <2> QED  BY <2>1
<1>2. PICK x \in T : \A y \in T : x <= y
  <2> HIDE DEF T
  <2> QED  BY <1>1, LeastNatural
<1>3. PICK m \in S : x = b - m
  OBVIOUS
<1>4. \A y \in S : m >= y
  <2> TAKE y \in S
  <2>1. b - m <= b - y
    BY <1>2, <1>3
  <2> QED  BY <2>1
<1>5. \E n \in S : \A y \in S : n >= y
  BY <1>4
<1> QED  BY <1>5, Zenon DEF Max

\* Of some subsets of a finite set, one is smallest.
LEMMA Smallest ==
  ASSUME NEW S, IsFiniteSet(S), NEW B \in SUBSET SUBSET S, B # {}
  PROVE  \E T \in B : /\ IsFiniteSet(T)
                     /\ \A x \in T : /\ IsFiniteSet(T \ {x}) /\ T \ {x} \in SUBSET S
                                     /\ T \ {x} \notin B
<1> DEFINE sizes == {Cardinality(T) : T \in B}
<1>1. \A T \in B : IsFiniteSet(T) /\ Cardinality(T) \in Nat
  BY FS_Subset, FS_CardinalityType
<1>2. PICK n \in sizes : \A m \in sizes : n <= m
  <2>1. sizes \in SUBSET Nat /\ sizes # {}
    BY <1>1
  <2> HIDE DEF sizes
  <2> QED  BY <2>1, LeastNatural
<1>3. PICK T \in B : n = Cardinality(T)
  BY <1>2
<1>4. ASSUME NEW x \in T
      PROVE  /\ IsFiniteSet(T \ {x}) /\ T \ {x} \in SUBSET S
             /\ T \ {x} \notin B
  <2>1. /\ IsFiniteSet(T \ {x}) /\ Cardinality(T \ {x}) = Cardinality(T) - 1
    BY <1>1, FS_RemoveElement
  <2>2. T \ {x} \in B => Cardinality(T \ {x}) \in sizes
    OBVIOUS
  <2> QED  BY <1>1, <1>2, <1>3, <2>1, <2>2
<1> QED  BY <1>1, <1>4

LEMMA MaxIn ==
  ASSUME NEW n \in Nat, NEW T \in SUBSET (1..n), T # {}
  PROVE  Max(T) \in T
<1>1. T \in SUBSET (0..n)
  OBVIOUS
<1> QED  BY <1>1, MaxIs

\* A fold with a function for its step is a function of the prefixes.
IsFold(h, base, n, seq, step) ==
  \A T \in SUBSET (1..n) :
    h[T] = IF T = {} THEN base ELSE step[<<h[T \ {Max(T)}], seq[Max(T)]>>]

LEMMA FoldExists ==
  ASSUME NEW A, NEW B, NEW base \in A, NEW n \in Nat, NEW seq \in [1..n -> B],
         NEW step \in [A \X B -> A]
  PROVE  \E h \in [SUBSET (1..n) -> A] : IsFold(h, base, n, seq, step)
<1> DEFINE S == 1..n
           Next1(h, T) == IF T = {} THEN base ELSE step[<<h[T \ {Max(T)}], seq[Max(T)]>>]
           Upto(m, h) == \A T \in SUBSET S : Cardinality(T) <= m => h[T] = Next1(h, T)
           bad == {m \in Nat : ~\E h \in [SUBSET S -> A] : Upto(m, h)}
<1>a. IsFiniteSet(S)
  BY FS_Interval
<1>0. \A T \in SUBSET S : /\ IsFiniteSet(T) /\ Cardinality(T) \in Nat
                          /\ T # {} => /\ Max(T) \in T /\ Cardinality(T) # 0
                                       /\ Cardinality(T \ {Max(T)}) = Cardinality(T) - 1
  <2> TAKE T \in SUBSET S
  <2>1. IsFiniteSet(T) /\ Cardinality(T) \in Nat
    BY <1>a, FS_Subset, FS_CardinalityType
  <2>2. ASSUME T # {}
        PROVE  /\ Max(T) \in T /\ Cardinality(T) # 0
               /\ Cardinality(T \ {Max(T)}) = Cardinality(T) - 1
    <3>1. Max(T) \in T
      BY <2>2, MaxIn
    <3>2. Cardinality(T) # 0
      BY <2>1, <2>2, FS_EmptySet
    <3> QED  BY <3>1, <3>2, <2>1, FS_RemoveElement
  <2> QED  BY <2>1, <2>2
<1>b. ASSUME NEW h \in [SUBSET S -> A], NEW T \in SUBSET S PROVE Next1(h, T) \in A
  <2>1. CASE T = {}
    BY <2>1
  <2>2. CASE T # {}
    <3>1. Max(T) \in S /\ T \ {Max(T)} \in SUBSET S
      BY <1>0, <2>2
    <3>2. h[T \ {Max(T)}] \in A /\ seq[Max(T)] \in B
      BY <3>1
    <3>3. <<h[T \ {Max(T)}], seq[Max(T)]>> \in A \X B
      BY <3>2
    <3> QED  BY <2>2, <3>3
  <2> QED  BY <2>1, <2>2
<1>1. bad = {}
  <2>1. SUFFICES ASSUME bad # {} PROVE FALSE
    OBVIOUS
  <2>2. PICK m \in bad : \A y \in bad : m <= y
    <3>1. bad \in SUBSET Nat
      OBVIOUS
    <3> HIDE DEF bad
    <3> QED  BY <2>1, <3>1, LeastNatural
  <2>3. CASE m = 0
    <3> DEFINE z == [T \in SUBSET S |-> base]
    <3>1. z \in [SUBSET S -> A]
      OBVIOUS
    <3>2. ASSUME NEW T \in SUBSET S, Cardinality(T) <= 0 PROVE T = {}
      <4>1. IsFiniteSet(T) /\ Cardinality(T) \in Nat
        BY <1>0
      <4>2. Cardinality(T) = 0
        BY <3>2, <4>1
      <4> QED  BY <4>1, <4>2, FS_EmptySet
    <3>3. Upto(0, z)
      BY <3>2
    <3> QED  BY <2>2, <2>3, <3>1, <3>3
  <2>4. CASE m # 0
    <3>1. m \in Nat /\ m - 1 \in Nat /\ m - 1 \notin bad
      <4>1. m \in Nat
        OBVIOUS
      <4> HIDE DEF bad
      <4> QED  BY <2>2, <2>4, <4>1
    <3>2. PICK g \in [SUBSET S -> A] : Upto(m - 1, g)
      BY <3>1
    <3> DEFINE h == [T \in SUBSET S |-> IF T # {} /\ Cardinality(T) = m THEN Next1(g, T) ELSE g[T]]
    <3>3. h \in [SUBSET S -> A]
      <4>1. \A T \in SUBSET S : Next1(g, T) \in A
        BY <1>b
      <4> HIDE DEF Next1
      <4> QED  BY <4>1
    <3>4. ASSUME NEW T \in SUBSET S, Cardinality(T) <= m PROVE h[T] = Next1(h, T)
      <4>1. CASE T = {}
        <5>1. h[T] = g[T]
          BY <4>1
        <5>2. Cardinality(T) <= m - 1
          BY <4>1, <3>1, FS_EmptySet
        <5> QED  BY <4>1, <5>1, <5>2, <3>2
      <4>2. CASE T # {}
        <5> DEFINE U == T \ {Max(T)}
        <5>1. U \in SUBSET S /\ Cardinality(U) = Cardinality(T) - 1 /\ Cardinality(T) \in Nat
          BY <1>0, <4>2
        <5>2. h[U] = g[U]
          BY <5>1, <3>4
        <5>3. Next1(h, T) = Next1(g, T)
          <6> HIDE DEF h
          <6> QED  BY <4>2, <5>2
        <5>4. h[T] = Next1(g, T)
          <6>1. CASE Cardinality(T) = m
            <7> HIDE DEF Next1
            <7> QED  BY <4>2, <6>1
          <6>2. CASE Cardinality(T) # m
            <7>1. h[T] = g[T] /\ Cardinality(T) <= m - 1
              BY <5>1, <6>2, <3>4, <3>1
            <7> HIDE DEF Next1
            <7> QED  BY <7>1, <3>2
          <6> QED  BY <6>1, <6>2
        <5> QED  BY <5>3, <5>4
      <4> QED  BY <4>1, <4>2
    <3> HIDE DEF h
    <3>5. Upto(m, h)
      BY <3>4
    <3> QED  BY <2>2, <3>3, <3>5
  <2> QED  BY <2>3, <2>4
<1>2. Cardinality(S) \in Nat
  BY <1>a, FS_CardinalityType
<1>3. PICK h \in [SUBSET S -> A] : Upto(Cardinality(S), h)
  BY <1>1, <1>2
<1>4. \A T \in SUBSET S : Cardinality(T) <= Cardinality(S)
  BY <1>a, FS_Subset
<1>5. \A T \in SUBSET S : h[T] = Next1(h, T)
  <2> HIDE DEF Next1
  <2> QED  BY <1>3, <1>4
<1>6. IsFold(h, base, n, seq, step)
  BY <1>5, Zenon DEF IsFold
<1> QED  BY <1>6

\* Two such functions are the same.
LEMMA FoldOnce ==
  ASSUME NEW n \in Nat, NEW f, NEW h, f[{}] = h[{}],
         \A T \in SUBSET (1..n) : T # {} /\ f[T \ {Max(T)}] = h[T \ {Max(T)}] => f[T] = h[T]
  PROVE  f[1..n] = h[1..n]
<1> DEFINE bad == {T \in SUBSET (1..n) : f[T] # h[T]}
<1>1. bad = {}
  <2>1. SUFFICES ASSUME bad # {} PROVE FALSE
    OBVIOUS
  <2>2. PICK T \in bad : \A x \in T : T \ {x} \in SUBSET (1..n) /\ T \ {x} \notin bad
    <3>1. bad \in SUBSET SUBSET (1..n)
      OBVIOUS
    <3>2. IsFiniteSet(1..n)
      BY FS_Interval
    <3> HIDE DEF bad
    <3>3. \E T \in bad : /\ IsFiniteSet(T)
                        /\ \A x \in T : /\ IsFiniteSet(T \ {x}) /\ T \ {x} \in SUBSET (1..n)
                                        /\ T \ {x} \notin bad
      BY <2>1, <3>1, <3>2, Smallest, Zenon
    <3> QED  BY <3>3, Zenon
  <2>3. T \in SUBSET (1..n) /\ f[T] # h[T]
    OBVIOUS
  <2>4. T # {}
    BY <2>3
  <2>5. Max(T) \in T
    BY <2>3, <2>4, MaxIn
  <2>6. f[T \ {Max(T)}] = h[T \ {Max(T)}]
    BY <2>2, <2>5
  <2> QED  BY <2>3, <2>4, <2>6
<1> QED  BY <1>1

\* What every segment keeps, all the segments of a datagram keep.
LEMMA InputFold ==
  ASSUME NEW A, NEW B, NEW k \in A, NEW seq \in Seq(B),
         \A a \in A, s \in B : InputSeg(a, s) \in A
  PROVE  FoldLeft(InputSeg, k, seq) \in A
<1> DEFINE n == Len(seq)
           step == [x \in A \X B |-> InputSeg(x[1], x[2])]
           Chain(h) == h = [T \in SUBSET (1..n) |->
                              IF T = {} THEN k ELSE InputSeg(h[T \ {Max(T)}], seq[Max(T)])]
           f == CHOOSE h : Chain(h)
<1>1. n \in Nat /\ DOMAIN seq = 1..n /\ seq \in [1..n -> B]
  OBVIOUS
<1>2. step \in [A \X B -> A]
  OBVIOUS
<1>3. FoldLeft(InputSeg, k, seq) = f[1..n]
  BY <1>1, Zenon DEF FoldLeft, MapThenFoldSet
<1>4. PICK h \in [SUBSET (1..n) -> A] : IsFold(h, k, n, seq, step)
  <2> HIDE DEF n, step
  <2> QED  BY <1>1, <1>2, FoldExists
<1>5. ASSUME NEW T \in SUBSET (1..n)
      PROVE  h[T] = IF T = {} THEN k ELSE InputSeg(h[T \ {Max(T)}], seq[Max(T)])
  <2>1. CASE T = {}
    BY <1>4, <2>1 DEF IsFold
  <2>2. CASE T # {}
    <3>1. Max(T) \in 1..n /\ T \ {Max(T)} \in SUBSET (1..n)
      BY <1>1, <2>2, MaxIn
    <3>2. h[T \ {Max(T)}] \in A /\ seq[Max(T)] \in B
      BY <1>1, <3>1
    <3>3. step[<<h[T \ {Max(T)}], seq[Max(T)]>>] = InputSeg(h[T \ {Max(T)}], seq[Max(T)])
      BY <3>2
    <3> HIDE DEF step
    <3> QED  BY <1>4, <2>2, <3>3 DEF IsFold
  <2> QED  BY <2>1, <2>2
<1>6. Chain(h)
  <2>1. h = [T \in SUBSET (1..n) |-> h[T]]
    OBVIOUS
  <2> HIDE DEF n
  <2> QED  BY <1>5, <2>1, Zenon
<1>7. Chain(f)
  <2> HIDE DEF Chain
  <2> QED  BY <1>6, Zenon
<1>8. \A T \in SUBSET (1..n) :
        f[T] = IF T = {} THEN k ELSE InputSeg(f[T \ {Max(T)}], seq[Max(T)])
  <2> HIDE DEF f, n
  <2> QED  BY <1>7, Zenon
<1> HIDE DEF f, n, step, Chain
<1>9. f[1..n] = h[1..n]
  <2>1. f[{}] = h[{}]
    BY <1>5, <1>8
  <2>2. \A T \in SUBSET (1..n) : T # {} /\ f[T \ {Max(T)}] = h[T \ {Max(T)}] => f[T] = h[T]
    BY <1>5, <1>8
  <2> QED  BY <1>1, <2>1, <2>2, FoldOnce
<1>10. h[1..n] \in A
  OBVIOUS
<1> QED  BY <1>3, <1>9, <1>10
-----------------------------------------------------------------------------
(* The types of the segments and of the control blocks. *)

Datas == Seq(Nat)
Commands == {"ack", "push", "wask", "wins"}

Frags == [data : Datas, frg : Nat]
SndSegs == [sn : Sns, frg : Nat, data : Datas, xmit : 0..(FastLimit + 1),
            fastack : 0..FastResend, due : BOOLEAN]
RcvSegs == [sn : Sns, frg : Nat, data : Datas]
NetSegs == [cmd : Commands, sn : Sns, frg : Nat, data : Datas, wnd : 0..RcvWindow, una : Sns]

Kcbs == [sndQueue : Seq(Frags), sndBuf : SUBSET SndSegs, sndUna : Sns, sndNxt : Sns,
         rcvQueue : Seq(Frags), rcvBuf : SUBSET RcvSegs, rcvNxt : Sns,
         ackList : Seq(Sns), rmtWnd : 0..RcvWindow,
         probe : SUBSET {"ask", "tell"}, probeWait : BOOLEAN, probeDue : BOOLEAN]

\* What is in flight lies in the send window, each number once.
SendSound(k) ==
  /\ IsFiniteSet(k.sndBuf)
  /\ \A s, t \in k.sndBuf : s.sn = t.sn => s = t
  /\ Diff(k.sndNxt, k.sndUna) \in 0..SndWnd
  /\ \A s \in k.sndBuf : InFlight(k, s.sn)

\* What arrived lies in the receive window, each number once.
RecvSound(k) ==
  /\ IsFiniteSet(k.rcvBuf)
  /\ \A s, t \in k.rcvBuf : s.sn = t.sn => s = t
  /\ Len(k.rcvQueue) <= RcvWindow
  /\ \A s \in k.rcvBuf : Diff(s.sn, k.rcvNxt) \in 0..(RcvWindow - 1)

Sound == {k \in Kcbs : SendSound(k) /\ RecvSound(k)}

LEMMA FieldTypes ==
  ASSUME NEW k \in Kcbs
  PROVE  /\ k.sndQueue \in Seq(Frags) /\ k.sndBuf \in SUBSET SndSegs
         /\ k.sndUna \in Sns /\ k.sndNxt \in Sns
         /\ k.rcvQueue \in Seq(Frags) /\ k.rcvBuf \in SUBSET RcvSegs /\ k.rcvNxt \in Sns
         /\ k.ackList \in Seq(Sns) /\ k.rmtWnd \in 0..RcvWindow
         /\ k.probe \in SUBSET {"ask", "tell"} /\ k.probeWait \in BOOLEAN /\ k.probeDue \in BOOLEAN
BY DEF Kcbs

LEMMA DiffSub ==
  ASSUME NEW a \in Sns, NEW b \in Sns, NEW c \in Sns,
         Diff(a, c) - Diff(b, c) \in (Half - SnMod)..(Half - 1)
  PROVE  Diff(a, b) = Diff(a, c) - Diff(b, c)
<1>1. a \in 0..(SnMod - 1) /\ b \in 0..(SnMod - 1) /\ c \in 0..(SnMod - 1)
      /\ SnMod \in Nat /\ Half \in Nat /\ 2 * Half <= SnMod /\ SnMod <= 2 * Half + 1
  BY Constants DEF Sns
<1>2. /\ Diff(a, b) = a - b \/ Diff(a, b) = a - b + SnMod \/ Diff(a, b) = a - b - SnMod
      /\ Diff(b, c) = b - c \/ Diff(b, c) = b - c + SnMod \/ Diff(b, c) = b - c - SnMod
      /\ Diff(a, c) = a - c \/ Diff(a, c) = a - c + SnMod \/ Diff(a, c) = a - c - SnMod
  BY DiffIs
<1>3. /\ Diff(a, b) \in (Half - SnMod)..(Half - 1) /\ Diff(b, c) \in (Half - SnMod)..(Half - 1)
      /\ Diff(a, c) \in (Half - SnMod)..(Half - 1)
  BY DiffIs
<1> DEFINE x == Diff(a, b)
           y == Diff(b, c)
           z == Diff(a, c)
<1>4. z - y \in (Half - SnMod)..(Half - 1)
  OBVIOUS
<1> HIDE DEF x, y, z
<1> QED  BY <1>1, <1>2, <1>3, <1>4 DEF x, y, z

\* What is in flight is less than a window after una, and before nxt.
LEMMA Offsets ==
  ASSUME NEW k \in Kcbs, SendSound(k), NEW sn \in Sns, InFlight(k, sn)
  PROVE  Diff(sn, k.sndUna) \in 0..(Diff(k.sndNxt, k.sndUna) - 1)
<1>1. k.sndUna \in Sns /\ k.sndNxt \in Sns
  BY FieldTypes
<1> DEFINE x == Diff(sn, k.sndUna)
           w == Diff(k.sndNxt, k.sndUna)
           y == Diff(sn, k.sndNxt)
<1>2. x >= 0 /\ y < 0 /\ w \in 0..SndWnd
  BY DEF InFlight, SendSound
<1>3. x \in (Half - SnMod)..(Half - 1)
  BY <1>1, DiffIs
<1>4. x - w \in (Half - SnMod)..(Half - 1) => y = x - w
  BY <1>1, DiffSub
<1> HIDE DEF x, w, y
<1>5. x - w \in (Half - SnMod)..(Half - 1)
  BY <1>2, <1>3, Constants
<1>6. x \in 0..(w - 1)
  BY <1>2, <1>3, <1>4, <1>5, Constants
<1> QED  BY <1>6 DEF x, w

\* And so the distance of two of them is the difference of their offsets.
LEMMA OffsetsDiff ==
  ASSUME NEW k \in Kcbs, SendSound(k), NEW a \in Sns, NEW b \in Sns,
         InFlight(k, a), InFlight(k, b)
  PROVE  Diff(a, b) = Diff(a, k.sndUna) - Diff(b, k.sndUna)
<1>1. k.sndUna \in Sns /\ k.sndNxt \in Sns
  BY FieldTypes
<1> DEFINE x == Diff(a, k.sndUna)
           y == Diff(b, k.sndUna)
           w == Diff(k.sndNxt, k.sndUna)
<1>2. x \in 0..(w - 1) /\ y \in 0..(w - 1)
  BY Offsets
<1>3. w \in 0..SndWnd
  BY DEF SendSound
<1>4. x - y \in (Half - SnMod)..(Half - 1) => Diff(a, b) = x - y
  BY <1>1, DiffSub
<1> HIDE DEF x, y, w
<1>5. x - y \in (Half - SnMod)..(Half - 1)
  BY <1>2, <1>3, Constants
<1> QED  BY <1>4, <1>5 DEF x, y
-----------------------------------------------------------------------------
(* ikcp_input, the sender's side. *)

LEMMA SendFewer ==
  ASSUME NEW k, SendSound(k), NEW l, l.sndBuf \subseteq k.sndBuf,
         l.sndUna = k.sndUna, l.sndNxt = k.sndNxt
  PROVE  SendSound(l)
<1>1. IsFiniteSet(l.sndBuf)
  BY FS_Subset DEF SendSound
<1>2. \A s \in l.sndBuf : InFlight(l, s.sn)
  BY DEF SendSound, InFlight
<1>3. /\ \A s, t \in l.sndBuf : s.sn = t.sn => s = t
      /\ Diff(l.sndNxt, l.sndUna) \in 0..SndWnd
  BY DEF SendSound
<1> QED  BY <1>1, <1>2, <1>3 DEF SendSound

LEMMA RecvLocal ==
  ASSUME NEW k, RecvSound(k), NEW l, l.rcvBuf = k.rcvBuf,
         l.rcvNxt = k.rcvNxt, l.rcvQueue = k.rcvQueue
  PROVE  RecvSound(l)
BY DEF RecvSound

\* The segment ikcp_shrink_buf takes una from is there.
LEMMA FirstOfBuf ==
  ASSUME NEW k \in Kcbs, SendSound(k), k.sndBuf # {}
  PROVE  \E s \in k.sndBuf : \A t \in k.sndBuf : Diff(s.sn, t.sn) <= 0
<1> DEFINE offs == {Diff(s.sn, k.sndUna) : s \in k.sndBuf}
<1>1. \A s \in k.sndBuf : s.sn \in Sns /\ InFlight(k, s.sn)
  BY FieldTypes DEF SendSound, SndSegs
<1>2. \A s \in k.sndBuf : Diff(s.sn, k.sndUna) \in Nat
  <2> TAKE s \in k.sndBuf
  <2> DEFINE x == Diff(s.sn, k.sndUna)
             w == Diff(k.sndNxt, k.sndUna)
  <2>1. x \in 0..(w - 1) /\ w \in 0..SndWnd /\ SndWnd \in Nat
    BY <1>1, Offsets, Constants DEF SendSound
  <2> HIDE DEF x, w
  <2>2. x \in Nat
    BY <2>1
  <2> QED  BY <2>2 DEF x
<1>3. PICK x \in offs : \A y \in offs : x <= y
  <2>1. offs \in SUBSET Nat /\ offs # {}
    BY <1>2
  <2> HIDE DEF offs
  <2> QED  BY <2>1, LeastNatural
<1>4. PICK s \in k.sndBuf : x = Diff(s.sn, k.sndUna)
  OBVIOUS
<1>5. \A t \in k.sndBuf : Diff(s.sn, t.sn) <= 0
  <2> TAKE t \in k.sndBuf
  <2>1. Diff(s.sn, t.sn) = Diff(s.sn, k.sndUna) - Diff(t.sn, k.sndUna)
    BY <1>1, OffsetsDiff
  <2>2. Diff(s.sn, k.sndUna) <= Diff(t.sn, k.sndUna)
    BY <1>3, <1>4
  <2> QED  BY <1>2, <2>1, <2>2
<1> QED  BY <1>5

\* una moves to the first segment in flight, and none is before it.
LEMMA ShrinkSpec ==
  ASSUME NEW k \in Kcbs, SendSound(k)
  PROVE  \E u \in Sns :
           /\ ShrinkBuf(k) = [k EXCEPT !.sndUna = u]
           /\ u = k.sndNxt \/ \E s \in k.sndBuf : u = s.sn
           /\ ShrinkBuf(k) \in Kcbs
           /\ SendSound(ShrinkBuf(k))
<1> DEFINE first(s) == \A t \in k.sndBuf : Diff(s.sn, t.sn) <= 0
           f == CHOOSE s \in k.sndBuf : first(s)
           u == IF k.sndBuf = {} THEN k.sndNxt ELSE f.sn
           l == ShrinkBuf(k)
<1>1. l = [k EXCEPT !.sndUna = u]
  BY Zenon DEF ShrinkBuf
<1>2. k.sndBuf # {} => f \in k.sndBuf /\ first(f)
  <2> HIDE DEF first
  <2> SUFFICES ASSUME k.sndBuf # {} PROVE f \in k.sndBuf /\ first(f)
    OBVIOUS
  <2>1. \E s \in k.sndBuf : first(s)
    BY FirstOfBuf DEF first
  <2> QED  BY <2>1, Zenon
<1>3. /\ k.sndNxt \in Sns /\ k.sndUna \in Sns
      /\ \A s \in k.sndBuf : s.sn \in Sns /\ InFlight(k, s.sn)
  BY FieldTypes DEF SendSound, SndSegs
<1>4. u \in Sns
  BY <1>2, <1>3
<1>5. u = k.sndNxt \/ \E s \in k.sndBuf : u = s.sn
  BY <1>2
<1> HIDE DEF f
<1>6. l \in Kcbs /\ l.sndBuf = k.sndBuf /\ l.sndNxt = k.sndNxt /\ l.sndUna = u
  <2> HIDE DEF u, l
  <2> QED  BY <1>1, <1>4 DEF Kcbs
<1> HIDE DEF l
<1>7. SendSound(l)
  <2> DEFINE w == Diff(k.sndNxt, k.sndUna)
             x == Diff(u, k.sndUna)
             v == Diff(k.sndNxt, u)
  <2>1. w \in 0..SndWnd
    BY DEF SendSound
  <2>2. x \in 0..w
    <3>1. CASE k.sndBuf = {}
      BY <3>1, <2>1
    <3>2. CASE k.sndBuf # {}
      <4>1. u \in Sns /\ InFlight(k, u)
        BY <1>2, <1>3, <3>2
      <4>2. x \in 0..(w - 1)
        BY <4>1, Offsets
      <4> HIDE DEF x, w
      <4> QED  BY <4>2, <2>1, Constants
    <3> QED  BY <3>1, <3>2
  <2>3. w - x \in (Half - SnMod)..(Half - 1) => v = w - x
    BY <1>3, <1>4, DiffSub
  <2>4. v = w - x /\ v \in 0..SndWnd
    <3> HIDE DEF w, x, v
    <3>1. w - x \in (Half - SnMod)..(Half - 1)
      BY <2>1, <2>2, Constants
    <3> QED  BY <2>1, <2>2, <2>3, <3>1, Constants
  <2>5. ASSUME NEW s \in k.sndBuf PROVE InFlight(l, s.sn)
    <3>1. u = f.sn /\ f \in k.sndBuf /\ first(f)
      BY <2>5, <1>2
    <3>2. Diff(f.sn, s.sn) = Diff(f.sn, k.sndUna) - Diff(s.sn, k.sndUna)
      BY <1>3, <3>1, OffsetsDiff
    <3>3. Diff(s.sn, f.sn) = Diff(s.sn, k.sndUna) - Diff(f.sn, k.sndUna)
      BY <1>3, <3>1, OffsetsDiff
    <3>4. Diff(f.sn, s.sn) <= 0
      BY <3>1
    <3>5. Diff(f.sn, k.sndUna) \in Int /\ Diff(s.sn, k.sndUna) \in Int
      BY <1>3, <3>1, DiffIs, Constants
    <3>6. Diff(s.sn, u) >= 0
      BY <3>1, <3>2, <3>3, <3>4, <3>5
    <3>7. Diff(s.sn, k.sndNxt) < 0
      BY <1>3 DEF InFlight
    <3> HIDE DEF u
    <3> QED  BY <3>6, <3>7, <1>6 DEF InFlight
  <2>6. IsFiniteSet(l.sndBuf) /\ \A s, t \in l.sndBuf : s.sn = t.sn => s = t
    BY <1>6 DEF SendSound
  <2>7. Diff(l.sndNxt, l.sndUna) \in 0..SndWnd
    BY <2>4, <1>6
  <2>8. \A s \in l.sndBuf : InFlight(l, s.sn)
    BY <2>5, <1>6
  <2> QED  BY <2>6, <2>7, <2>8 DEF SendSound
<1>8. /\ ShrinkBuf(k) = [k EXCEPT !.sndUna = u]
      /\ ShrinkBuf(k) \in Kcbs /\ SendSound(ShrinkBuf(k))
  BY <1>1, <1>6, <1>7 DEF l
<1> HIDE DEF u
<1> QED  BY <1>4, <1>5, <1>8, Zenon

\* A change of snd_buf alone keeps the types, and what it leaves is as sound.
LEMMA BufChange ==
  ASSUME NEW k \in Kcbs, NEW B \in SUBSET SndSegs
  PROVE  LET l == [k EXCEPT !.sndBuf = B] IN
         /\ l \in Kcbs /\ l.sndBuf = B
         /\ l.sndUna = k.sndUna /\ l.sndNxt = k.sndNxt
         /\ SendSound(k) /\ B \subseteq k.sndBuf => SendSound(l)
         /\ RecvSound(k) => RecvSound(l)
<1> DEFINE l == [k EXCEPT !.sndBuf = B]
<1>1. /\ l \in Kcbs /\ l.sndBuf = B
      /\ l.sndUna = k.sndUna /\ l.sndNxt = k.sndNxt
  BY DEF Kcbs
<1>2. l.rcvBuf = k.rcvBuf /\ l.rcvNxt = k.rcvNxt /\ l.rcvQueue = k.rcvQueue
  BY DEF Kcbs
<1> HIDE DEF l
<1>3. SendSound(k) /\ B \subseteq k.sndBuf => SendSound(l)
  BY <1>1, SendFewer
<1>4. RecvSound(k) => RecvSound(l)
  BY <1>2, RecvLocal
<1> QED  BY <1>1, <1>3, <1>4 DEF l

LEMMA UnaChange ==
  ASSUME NEW k \in Kcbs, NEW u \in Sns
  PROVE  LET l == [k EXCEPT !.sndUna = u] IN
         l \in Kcbs /\ (RecvSound(k) => RecvSound(l))
<1> DEFINE l == [k EXCEPT !.sndUna = u]
<1>1. l \in Kcbs /\ l.rcvBuf = k.rcvBuf /\ l.rcvNxt = k.rcvNxt /\ l.rcvQueue = k.rcvQueue
  BY DEF Kcbs
<1> HIDE DEF l
<1> QED  BY <1>1, RecvLocal DEF l

LEMMA ShrinkSound ==
  ASSUME NEW k \in Sound
  PROVE  ShrinkBuf(k) \in Sound
<1>1. k \in Kcbs /\ SendSound(k) /\ RecvSound(k)
  BY DEF Sound
<1>2. PICK u \in Sns : /\ ShrinkBuf(k) = [k EXCEPT !.sndUna = u]
                       /\ ShrinkBuf(k) \in Kcbs /\ SendSound(ShrinkBuf(k))
  BY <1>1, ShrinkSpec
<1>3. RecvSound(ShrinkBuf(k))
  BY <1>1, <1>2, UnaChange
<1> QED  BY <1>2, <1>3 DEF Sound

LEMMA ParseUnaSound ==
  ASSUME NEW k \in Sound, NEW una
  PROVE  ParseUna(k, una) \in Sound
<1> DEFINE B == {s \in k.sndBuf : Diff(una, s.sn) <= 0}
<1>1. k \in Kcbs /\ SendSound(k) /\ RecvSound(k) /\ k.sndBuf \in SUBSET SndSegs
  BY FieldTypes DEF Sound
<1>2. B \subseteq k.sndBuf
  OBVIOUS
<1>3. ParseUna(k, una) = [k EXCEPT !.sndBuf = B]
  BY DEF ParseUna
<1> HIDE DEF B
<1> QED  BY <1>1, <1>2, <1>3, BufChange DEF Sound

LEMMA ParseAckSound ==
  ASSUME NEW k \in Sound, NEW sn
  PROVE  ParseAck(k, sn) \in Sound
<1> DEFINE B == {s \in k.sndBuf : s.sn # sn}
<1>1. k \in Kcbs /\ SendSound(k) /\ RecvSound(k) /\ k.sndBuf \in SUBSET SndSegs
  BY FieldTypes DEF Sound
<1>2. B \subseteq k.sndBuf
  OBVIOUS
<1>3. ParseAck(k, sn) = [k EXCEPT !.sndBuf = B] \/ ParseAck(k, sn) = k
  BY DEF ParseAck
<1> HIDE DEF B
<1> QED  BY <1>1, <1>2, <1>3, BufChange DEF Sound

\* A counter of a segment that changes leaves its number, and so its place.
LEMMA BufCounters ==
  ASSUME NEW k \in Kcbs, SendSound(k), NEW f \in [SndSegs -> SndSegs],
         \A s \in SndSegs : f[s].sn = s.sn
  PROVE  LET l == [k EXCEPT !.sndBuf = {f[s] : s \in k.sndBuf}] IN
         l \in Kcbs /\ SendSound(l) /\ (RecvSound(k) => RecvSound(l))
<1> DEFINE B == {f[s] : s \in k.sndBuf}
           l == [k EXCEPT !.sndBuf = B]
<1>1. k.sndBuf \in SUBSET SndSegs /\ IsFiniteSet(k.sndBuf)
  BY FieldTypes DEF SendSound
<1>2. B \in SUBSET SndSegs
  BY <1>1
<1>3. IsFiniteSet(B)
  <2> DEFINE g == [s \in k.sndBuf |-> f[s]]
  <2>1. g \in Surjection(k.sndBuf, B)
    BY DEF Surjection
  <2> HIDE DEF B, g
  <2> QED  BY <1>1, <2>1, FS_Surjection
<1>4. \A t \in B : \E s \in k.sndBuf : t = f[s] /\ t.sn = s.sn
  BY <1>1
<1>5. \A s, t \in B : s.sn = t.sn => s = t
  <2> TAKE s, t \in B
  <2>1. PICK v \in k.sndBuf : s = f[v] /\ s.sn = v.sn
    BY <1>4
  <2>2. PICK w \in k.sndBuf : t = f[w] /\ t.sn = w.sn
    BY <1>4
  <2>3. v.sn = w.sn => v = w
    BY DEF SendSound
  <2> HIDE DEF B
  <2> QED  BY <2>1, <2>2, <2>3
<1> HIDE DEF B
<1>6. /\ l \in Kcbs /\ l.sndBuf = B /\ l.sndUna = k.sndUna /\ l.sndNxt = k.sndNxt
      /\ RecvSound(k) => RecvSound(l)
  BY <1>2, BufChange
<1> HIDE DEF l
<1>7. \A s \in l.sndBuf : InFlight(l, s.sn)
  BY <1>4, <1>6 DEF SendSound, InFlight
<1>8. Diff(l.sndNxt, l.sndUna) \in 0..SndWnd
  BY <1>6 DEF SendSound
<1>9. SendSound(l)
  BY <1>3, <1>5, <1>6, <1>7, <1>8 DEF SendSound
<1> QED  BY <1>6, <1>9 DEF l, B

LEMMA ParseFastackSound ==
  ASSUME NEW k \in Sound, NEW sn
  PROVE  ParseFastack(k, sn) \in Sound
<1> DEFINE Up(s) == IF Diff(sn, s.sn) > 0 /\ s.fastack < FastResend
                      THEN [s EXCEPT !.fastack = @ + 1] ELSE s
           f == [s \in SndSegs |-> Up(s)]
<1>1. k \in Kcbs /\ SendSound(k) /\ RecvSound(k) /\ k.sndBuf \in SUBSET SndSegs
  BY FieldTypes DEF Sound
<1>2. ASSUME NEW s \in SndSegs PROVE Up(s) \in SndSegs /\ Up(s).sn = s.sn
  <2>1. s.fastack \in 0..FastResend /\ FastResend \in Nat
    BY KcpAssumption DEF SndSegs
  <2>2. s.fastack < FastResend => s.fastack + 1 \in 0..FastResend
    BY <2>1
  <2> QED  BY <2>2 DEF SndSegs
<1> HIDE DEF Up
<1>3. f \in [SndSegs -> SndSegs] /\ \A s \in SndSegs : f[s].sn = s.sn
  BY <1>2
<1>4. {Up(s) : s \in k.sndBuf} = {f[s] : s \in k.sndBuf}
  BY <1>1
<1>5. ParseFastack(k, sn) = [k EXCEPT !.sndBuf = {f[s] : s \in k.sndBuf}] \/ ParseFastack(k, sn) = k
  <2>1. ParseFastack(k, sn) = [k EXCEPT !.sndBuf = {Up(s) : s \in k.sndBuf}] \/ ParseFastack(k, sn) = k
    BY DEF ParseFastack, Up
  <2> HIDE DEF f
  <2> QED  BY <2>1, <1>4
<1> HIDE DEF f
<1> QED  BY <1>1, <1>3, <1>5, BufCounters DEF Sound
-----------------------------------------------------------------------------
(* ikcp_input and ikcp_recv, the receiver's side. *)

\* What MoveAvailable moves: n segments that follow rcv_nxt.
Moved(k, n, f) ==
  /\ Len(k.rcvQueue) + n <= RcvWindow
  /\ \A j \in 1..n : f[j].sn = Plus(k.rcvNxt, j - 1)
  /\ MoveAvailable(k) =
       [k EXCEPT !.rcvBuf = @ \ {f[j] : j \in 1..n},
                 !.rcvQueue = @ \o [j \in 1..n |-> [data |-> f[j].data, frg |-> f[j].frg]],
                 !.rcvNxt = Plus(@, n)]

LEMMA MoveSpec ==
  ASSUME NEW k \in Kcbs, IsFiniteSet(k.rcvBuf), Len(k.rcvQueue) <= RcvWindow
  PROVE  \E n \in Nat : \E f \in [1..n -> k.rcvBuf] : Moved(k, n, f)
<1> DEFINE next(n) == {s \in k.rcvBuf : s.sn = Plus(k.rcvNxt, n - 1)}
           fits(n) == /\ Len(k.rcvQueue) + n <= RcvWindow
                      /\ \A j \in 1..n : next(j) # {}
           S == {j \in 0..Cardinality(k.rcvBuf) : fits(j)}
           n == Max(S)
           seg(j) == CHOOSE s \in next(j) : TRUE
           f == [j \in 1..n |-> seg(j)]
<1>1. Cardinality(k.rcvBuf) \in Nat /\ Len(k.rcvQueue) \in Nat /\ RcvWindow \in Nat
  BY FS_CardinalityType, FieldTypes, Constants
<1>2. fits(0)
  <2>1. 1..0 = {}
    OBVIOUS
  <2> HIDE DEF next
  <2> QED  BY <1>1, <2>1
<1>3. n \in S
  <2>1. S \in SUBSET (0..Cardinality(k.rcvBuf)) /\ S # {}
    <3> HIDE DEF fits
    <3> QED  BY <1>1, <1>2
  <2> HIDE DEF S
  <2> QED  BY <1>1, <2>1, MaxIs
<1>4. n \in Nat /\ fits(n)
  <2> HIDE DEF fits, n
  <2> QED  BY <1>1, <1>3
<1>5. MoveAvailable(k) =
        [k EXCEPT !.rcvBuf = @ \ {seg(j) : j \in 1..n},
                  !.rcvQueue = @ \o [j \in 1..n |-> [data |-> seg(j).data, frg |-> seg(j).frg]],
                  !.rcvNxt = Plus(@, n)]
  BY Zenon DEF MoveAvailable
<1> HIDE DEF n
<1>6. ASSUME NEW j \in 1..n PROVE seg(j) \in k.rcvBuf /\ seg(j).sn = Plus(k.rcvNxt, j - 1)
  <2>1. next(j) # {}
    BY <1>4
  <2>2. seg(j) \in next(j)
    <3> HIDE DEF next
    <3> QED  BY <2>1
  <2> HIDE DEF seg
  <2> QED  BY <2>2
<1> HIDE DEF seg
<1>7. f \in [1..n -> k.rcvBuf] /\ \A j \in 1..n : f[j].sn = Plus(k.rcvNxt, j - 1)
  BY <1>6
<1>8. /\ {seg(j) : j \in 1..n} = {f[j] : j \in 1..n}
      /\ [j \in 1..n |-> [data |-> seg(j).data, frg |-> seg(j).frg]]
         = [j \in 1..n |-> [data |-> f[j].data, frg |-> f[j].frg]]
  OBVIOUS
<1>9. MoveAvailable(k) =
        [k EXCEPT !.rcvBuf = @ \ {f[j] : j \in 1..n},
                  !.rcvQueue = @ \o [j \in 1..n |-> [data |-> f[j].data, frg |-> f[j].frg]],
                  !.rcvNxt = Plus(@, n)]
  <2> HIDE DEF f
  <2> QED  BY <1>5, <1>8
<1>10. Len(k.rcvQueue) + n <= RcvWindow
  BY <1>4
<1> HIDE DEF f, fits, S
<1>11. Moved(k, n, f)
  BY <1>7, <1>9, <1>10, Zenon DEF Moved
<1> QED  BY <1>4, <1>7, <1>11

\* The window slides with what moves, and what stays is still inside it.
LEMMA MoveSound ==
  ASSUME NEW k \in Kcbs, SendSound(k), RecvSound(k)
  PROVE  MoveAvailable(k) \in Sound
<1>1. PICK n \in Nat : \E f \in [1..n -> k.rcvBuf] : Moved(k, n, f)
  BY MoveSpec DEF RecvSound
<1>2. PICK f \in [1..n -> k.rcvBuf] : Moved(k, n, f)
  BY <1>1
<1> DEFINE B == k.rcvBuf \ {f[j] : j \in 1..n}
           add == [j \in 1..n |-> [data |-> f[j].data, frg |-> f[j].frg]]
           Q == k.rcvQueue \o add
           nxt == Plus(k.rcvNxt, n)
           l == [k EXCEPT !.rcvBuf = B, !.rcvQueue = Q, !.rcvNxt = nxt]
<1>3. l = MoveAvailable(k) /\ Len(k.rcvQueue) + n <= RcvWindow
      /\ \A j \in 1..n : f[j].sn = Plus(k.rcvNxt, j - 1)
  BY <1>2 DEF Moved
<1>4. /\ k.rcvQueue \in Seq(Frags) /\ k.rcvBuf \in SUBSET RcvSegs /\ k.rcvNxt \in Sns
      /\ Len(k.rcvQueue) \in Nat
  BY FieldTypes
<1>5. n \in 0..RcvWindow /\ n \in 0..(Half - 1) /\ n \in 0..SnMod
  BY <1>3, <1>4, Constants
<1>6. nxt \in Sns
  BY <1>4, <1>5, PlusIs
<1>7. add \in Seq(Frags) /\ Len(add) = n
  <2>1. \A j \in 1..n : f[j] \in RcvSegs
    BY <1>4
  <2>2. \A j \in 1..n : [data |-> f[j].data, frg |-> f[j].frg] \in Frags
    BY <2>1 DEF RcvSegs, Frags
  <2> QED  BY <2>2
<1>8. Q \in Seq(Frags) /\ Len(Q) <= RcvWindow
  <2> HIDE DEF add
  <2>1. Q \in Seq(Frags) /\ Len(Q) = Len(k.rcvQueue) + Len(add)
    BY <1>4, <1>7
  <2> HIDE DEF Q
  <2> QED  BY <1>3, <1>7, <2>1
<1>9. B \in SUBSET RcvSegs
  BY <1>4
<1>10. /\ l \in Kcbs /\ l.rcvBuf = B /\ l.rcvQueue = Q /\ l.rcvNxt = nxt
       /\ l.sndBuf = k.sndBuf /\ l.sndUna = k.sndUna /\ l.sndNxt = k.sndNxt
  <2> HIDE DEF B, Q, nxt
  <2> QED  BY <1>6, <1>8, <1>9 DEF Kcbs
<1>11. ASSUME NEW s \in B PROVE Diff(s.sn, nxt) \in 0..(RcvWindow - 1)
  <2> DEFINE d == Diff(s.sn, k.rcvNxt)
  <2>1. s \in k.rcvBuf /\ s.sn \in Sns
    BY <1>4 DEF RcvSegs
  <2>2. d \in 0..(RcvWindow - 1)
    BY <2>1 DEF RecvSound
  <2>3. d >= n
    <3>1. SUFFICES ASSUME d < n PROVE FALSE
      BY <2>2, <1>5
    <3>2. d + 1 \in 1..n /\ (d + 1) - 1 = d
      <4> HIDE DEF d
      <4> QED  BY <2>2, <3>1, <1>5, Constants
    <3>3. f[d + 1].sn = Plus(k.rcvNxt, d)
      BY <1>3, <3>2
    <3>4. s.sn = Plus(k.rcvNxt, d)
      BY <1>4, <2>1, <2>2, PlusOfDiff
    <3>5. f[d + 1] \in k.rcvBuf
      BY <3>2
    <3>6. s = f[d + 1]
      BY <2>1, <3>3, <3>4, <3>5 DEF RecvSound
    <3> QED  BY <3>2, <3>6
  <2>4. d - n >= Half - SnMod => Diff(s.sn, nxt) = d - n
    BY <1>4, <1>5, <2>1, DiffPlus
  <2> DEFINE e == Diff(s.sn, nxt)
  <2>5. e \in 0..(RcvWindow - 1)
    <3> HIDE DEF d, e
    <3>1. d - n >= Half - SnMod
      BY <2>2, <2>3, <1>5, Constants
    <3>2. e = d - n
      BY <3>1, <2>4 DEF e, d
    <3> QED  BY <2>2, <2>3, <3>2, <1>5, Constants
  <2> QED  BY <2>5
<1>12. IsFiniteSet(B) /\ \A s, t \in B : s.sn = t.sn => s = t
  <2>1. B \in SUBSET k.rcvBuf
    OBVIOUS
  <2> HIDE DEF B
  <2> QED  BY <2>1, FS_Subset DEF RecvSound
<1>13. \A s \in B : Diff(s.sn, nxt) \in 0..(RcvWindow - 1)
  BY <1>11
<1> HIDE DEF l, B, Q, nxt
<1>14. RecvSound(l)
  BY <1>8, <1>10, <1>12, <1>13 DEF RecvSound
<1>15. SendSound(l)
  BY <1>10, SendFewer
<1> QED  BY <1>3, <1>10, <1>14, <1>15 DEF Sound

\* A segment goes to rcv_buf only inside the window, and once.
LEMMA ParseDataSound ==
  ASSUME NEW k \in Sound, NEW s \in NetSegs
  PROVE  ParseData(k, s) \in Sound
<1> DEFINE t == [sn |-> s.sn, frg |-> s.frg, data |-> s.data]
           B == k.rcvBuf \cup {t}
           l == [k EXCEPT !.rcvBuf = B]
           late == Diff(s.sn, Plus(k.rcvNxt, RcvWindow)) >= 0 \/ Diff(s.sn, k.rcvNxt) < 0
<1>1. /\ k \in Kcbs /\ SendSound(k) /\ RecvSound(k)
      /\ k.rcvBuf \in SUBSET RcvSegs /\ k.rcvNxt \in Sns
  BY FieldTypes DEF Sound
<1>2. s.sn \in Sns /\ t \in RcvSegs /\ t.sn = s.sn
  BY DEF NetSegs, RcvSegs
<1>3. ParseData(k, s) = IF late THEN k
                        ELSE IF \E v \in k.rcvBuf : v.sn = s.sn THEN MoveAvailable(k)
                        ELSE MoveAvailable(l)
  BY DEF ParseData
<1>4. CASE late
  BY <1>3, <1>4
<1>5. CASE ~late /\ \E v \in k.rcvBuf : v.sn = s.sn
  <2>1. ParseData(k, s) = MoveAvailable(k)
    <3> HIDE DEF late, l
    <3> QED  BY <1>3, <1>5
  <2> QED  BY <2>1, <1>1, MoveSound
<1>6. CASE ~late /\ ~\E v \in k.rcvBuf : v.sn = s.sn
  <2>1. ParseData(k, s) = MoveAvailable(l)
    <3> HIDE DEF late, l
    <3> QED  BY <1>3, <1>6
  <2>2. /\ l \in Kcbs /\ l.rcvBuf = B /\ l.rcvQueue = k.rcvQueue /\ l.rcvNxt = k.rcvNxt
        /\ l.sndBuf = k.sndBuf /\ l.sndUna = k.sndUna /\ l.sndNxt = k.sndNxt
    <3>1. B \in SUBSET RcvSegs
      BY <1>1, <1>2
    <3> HIDE DEF B
    <3> QED  BY <1>1, <3>1 DEF Kcbs
  <2> DEFINE d == Diff(s.sn, k.rcvNxt)
             e == Diff(s.sn, Plus(k.rcvNxt, RcvWindow))
  <2>3. d \in 0..(RcvWindow - 1)
    <3>1. d >= 0 /\ e < 0
      <4>1. d \in Int /\ e \in Int
        <5>1. RcvWindow \in 0..SnMod
          BY Constants
        <5>2. Plus(k.rcvNxt, RcvWindow) \in Sns
          BY <1>1, <5>1, PlusIs
        <5> QED  BY <1>1, <1>2, <5>2, DiffIs, Constants
      <4> HIDE DEF d, e
      <4>2. late <=> e >= 0 \/ d < 0
        BY DEF late, d, e
      <4> QED  BY <1>6, <4>1, <4>2
    <3>2. d \in (Half - SnMod)..(Half - 1)
      BY <1>1, <1>2, DiffIs
    <3>3. RcvWindow \in 0..(Half - 1)
      BY Constants
    <3>4. d - RcvWindow >= Half - SnMod => e = d - RcvWindow
      BY <1>1, <1>2, <3>3, DiffPlus
    <3> HIDE DEF d, e
    <3> QED  BY <3>1, <3>2, <3>3, <3>4, Constants
  <2>4. IsFiniteSet(B)
    <3>1. IsFiniteSet(k.rcvBuf)
      BY <1>1 DEF RecvSound
    <3> HIDE DEF t
    <3> QED  BY <3>1, FS_AddElement
  <2>5. \A v, w \in B : v.sn = w.sn => v = w
    BY <1>1, <1>2, <1>6 DEF RecvSound
  <2>6. \A v \in B : Diff(v.sn, k.rcvNxt) \in 0..(RcvWindow - 1)
    <3> HIDE DEF d
    <3>1. \A v \in k.rcvBuf : Diff(v.sn, k.rcvNxt) \in 0..(RcvWindow - 1)
      BY <1>1 DEF RecvSound
    <3>2. Diff(t.sn, k.rcvNxt) = d
      BY <1>2 DEF d
    <3> HIDE DEF t
    <3> QED  BY <2>3, <3>1, <3>2
  <2>7. Len(k.rcvQueue) <= RcvWindow
    BY <1>1 DEF RecvSound
  <2> HIDE DEF l, B
  <2>8. RecvSound(l)
    BY <2>2, <2>4, <2>5, <2>6, <2>7 DEF RecvSound
  <2>9. SendSound(l)
    BY <1>1, <2>2, SendFewer
  <2> QED  BY <2>1, <2>2, <2>8, <2>9, MoveSound
<1> QED  BY <1>4, <1>5, <1>6

\* The fields the windows do not depend on.
LEMMA OtherFields ==
  ASSUME NEW k \in Sound, NEW l \in Kcbs,
         l.sndBuf = k.sndBuf, l.sndUna = k.sndUna, l.sndNxt = k.sndNxt,
         l.rcvBuf = k.rcvBuf, l.rcvNxt = k.rcvNxt, l.rcvQueue = k.rcvQueue
  PROVE  l \in Sound
<1>1. SendSound(k) /\ RecvSound(k)
  BY DEF Sound
<1>2. SendSound(l)
  BY <1>1, SendFewer
<1>3. RecvSound(l)
  BY <1>1, RecvLocal
<1> QED  BY <1>2, <1>3 DEF Sound

LEMMA InputPushSound ==
  ASSUME NEW k \in Sound, NEW s \in NetSegs
  PROVE  InputPush(k, s) \in Sound
<1> DEFINE a == Append(k.ackList, s.sn)
           l == [k EXCEPT !.ackList = a]
<1>1. k \in Kcbs /\ k.ackList \in Seq(Sns) /\ s.sn \in Sns
  BY FieldTypes DEF Sound, NetSegs
<1>2. a \in Seq(Sns)
  BY <1>1
<1>3. InputPush(k, s) = k \/ InputPush(k, s) = ParseData(l, s)
  BY DEF InputPush
<1>4. /\ l \in Kcbs
      /\ l.sndBuf = k.sndBuf /\ l.sndUna = k.sndUna /\ l.sndNxt = k.sndNxt
      /\ l.rcvBuf = k.rcvBuf /\ l.rcvNxt = k.rcvNxt /\ l.rcvQueue = k.rcvQueue
  <2> HIDE DEF a
  <2> QED  BY <1>1, <1>2 DEF Kcbs
<1> HIDE DEF l
<1>5. l \in Sound
  BY <1>4, OtherFields
<1> QED  BY <1>3, <1>5, ParseDataSound

LEMMA InputSegSound ==
  ASSUME NEW k0 \in Sound, NEW s \in NetSegs
  PROVE  InputSeg(k0, s) \in Sound
<1> DEFINE w == [k0 EXCEPT !.rmtWnd = s.wnd]
           k == ShrinkBuf(ParseUna(w, s.una))
           p == [k EXCEPT !.probe = @ \cup {"tell"}]
<1>1. k0 \in Kcbs /\ s.wnd \in 0..RcvWindow /\ s.una \in Sns /\ s.sn \in Sns /\ s.cmd \in Commands
  BY DEF Sound, NetSegs
<1>2. w \in Sound
  <2>1. /\ w \in Kcbs
        /\ w.sndBuf = k0.sndBuf /\ w.sndUna = k0.sndUna /\ w.sndNxt = k0.sndNxt
        /\ w.rcvBuf = k0.rcvBuf /\ w.rcvNxt = k0.rcvNxt /\ w.rcvQueue = k0.rcvQueue
    BY <1>1 DEF Kcbs
  <2> HIDE DEF w
  <2> QED  BY <2>1, OtherFields
<1> HIDE DEF w
<1>3. k \in Sound
  BY <1>2, ParseUnaSound, ShrinkSound
<1>4. InputSeg(k0, s) = CASE s.cmd = "ack"  -> ShrinkBuf(ParseAck(k, s.sn))
                          [] s.cmd = "push" -> InputPush(k, s)
                          [] s.cmd = "wask" -> p
                          [] s.cmd = "wins" -> k
  BY DEF InputSeg, w
<1> HIDE DEF k
<1>5. p \in Sound
  <2>1. k \in Kcbs
    BY <1>3 DEF Sound
  <2>2. k.probe \cup {"tell"} \in SUBSET {"ask", "tell"}
    BY <2>1, FieldTypes
  <2>3. /\ p \in Kcbs
        /\ p.sndBuf = k.sndBuf /\ p.sndUna = k.sndUna /\ p.sndNxt = k.sndNxt
        /\ p.rcvBuf = k.rcvBuf /\ p.rcvNxt = k.rcvNxt /\ p.rcvQueue = k.rcvQueue
    BY <2>1, <2>2 DEF Kcbs
  <2> HIDE DEF p
  <2> QED  BY <1>3, <2>3, OtherFields
<1> HIDE DEF p
<1>6. ShrinkBuf(ParseAck(k, s.sn)) \in Sound
  BY <1>3, ParseAckSound, ShrinkSound
<1>7. InputPush(k, s) \in Sound
  BY <1>3, InputPushSound
<1> QED  BY <1>1, <1>3, <1>4, <1>5, <1>6, <1>7 DEF Commands

LEMMA InputDatagramSound ==
  ASSUME NEW k \in Sound, NEW segs \in Seq(NetSegs)
  PROVE  InputDatagram(k, segs) \in Sound
<1>1. FoldLeft(InputSeg, k, segs) \in Sound
  BY InputSegSound, InputFold
<1>2. \E sn : \/ InputDatagram(k, segs) = FoldLeft(InputSeg, k, segs)
              \/ InputDatagram(k, segs) = ParseFastack(FoldLeft(InputSeg, k, segs), sn)
  BY DEF InputDatagram
<1> QED  BY <1>1, <1>2, ParseFastackSound
-----------------------------------------------------------------------------
(* ikcp_flush. *)

LEMMA ProbeWindowSound ==
  ASSUME NEW k \in Sound
  PROVE  /\ ProbeWindow(k) \in Sound
         /\ ProbeWindow(k).sndBuf = k.sndBuf /\ ProbeWindow(k).sndUna = k.sndUna
         /\ ProbeWindow(k).sndNxt = k.sndNxt /\ ProbeWindow(k).sndQueue = k.sndQueue
<1> DEFINE l == ProbeWindow(k)
<1>1. k \in Kcbs /\ k.probe \cup {"ask"} \in SUBSET {"ask", "tell"}
  BY FieldTypes DEF Sound
<1>2. /\ l \in Kcbs
      /\ l.sndBuf = k.sndBuf /\ l.sndUna = k.sndUna /\ l.sndNxt = k.sndNxt
      /\ l.rcvBuf = k.rcvBuf /\ l.rcvNxt = k.rcvNxt /\ l.rcvQueue = k.rcvQueue
      /\ l.sndQueue = k.sndQueue
  BY <1>1 DEF ProbeWindow, Kcbs
<1> HIDE DEF l
<1>3. l \in Sound
  BY <1>2, OtherFields
<1> QED  BY <1>2, <1>3 DEF l

\* The segment made of place j of snd_queue.
NewSeg(k, j) ==
  [sn |-> Plus(k.sndNxt, j - 1), frg |-> k.sndQueue[j].frg, data |-> k.sndQueue[j].data,
   xmit |-> 0, fastack |-> 0, due |-> FALSE]

\* FillSndBuf takes n segments, as many as the send window still has room for.
Filled(k, n) ==
  /\ n <= Len(k.sndQueue)
  /\ n > 0 => Diff(k.sndNxt, k.sndUna) + n <= SndWnd
  /\ FillSndBuf(k) = [k EXCEPT !.sndQueue = SubSeq(@, n + 1, Len(@)),
                               !.sndBuf = @ \cup {NewSeg(k, j) : j \in 1..n},
                               !.sndNxt = Plus(@, n)]

LEMMA MinOfTwo ==
  ASSUME NEW a \in Int, NEW b \in Int
  PROVE  /\ Min({a, b}) = IF a <= b THEN a ELSE b
         /\ Max({a, b}) = IF a >= b THEN a ELSE b
<1> DEFINE m == IF a <= b THEN a ELSE b
           M == IF a >= b THEN a ELSE b
<1>1. m \in {a, b} /\ \A y \in {a, b} : m <= y
  OBVIOUS
<1>2. M \in {a, b} /\ \A y \in {a, b} : M >= y
  OBVIOUS
<1>3. \A x \in {a, b} : (\A y \in {a, b} : x <= y) => x = m
  OBVIOUS
<1>4. \A x \in {a, b} : (\A y \in {a, b} : x >= y) => x = M
  OBVIOUS
<1> HIDE DEF m, M
<1>5. Min({a, b}) = m
  BY <1>1, <1>3 DEF Min
<1>6. Max({a, b}) = M
  BY <1>2, <1>4 DEF Max
<1> QED  BY <1>5, <1>6 DEF m, M

LEMMA FillSpec ==
  ASSUME NEW k \in Kcbs, Diff(k.sndNxt, k.sndUna) \in 0..SndWnd
  PROVE  \E n \in Nat : Filled(k, n)
<1> DEFINE cwnd == Min({SndWnd, k.rmtWnd})
           w == Diff(k.sndNxt, k.sndUna)
           room == Max({0, cwnd - w})
           len == Len(k.sndQueue)
           n == Min({len, room})
<1>1. len \in Nat /\ SndWnd \in Nat /\ k.rmtWnd \in Nat /\ w \in 0..SndWnd
  <2>1. k.rmtWnd \in 0..RcvWindow /\ RcvWindow \in Nat /\ SndWnd \in Nat
    BY FieldTypes, Constants
  <2>2. k.sndQueue \in Seq(Frags)
    BY FieldTypes
  <2> QED  BY <2>1, <2>2
<1>2. cwnd \in Nat /\ cwnd <= SndWnd
  BY <1>1, MinOfTwo
<1> HIDE DEF cwnd, w, len
<1>3. room \in Nat /\ (room > 0 => w + room <= SndWnd)
  <2> DEFINE r == cwnd - w
  <2>1. r \in Int
    BY <1>1, <1>2
  <2> HIDE DEF r
  <2>2. Max({0, r}) = IF 0 >= r THEN 0 ELSE r
    BY <2>1, MinOfTwo
  <2>3. room = IF 0 >= r THEN 0 ELSE r
    BY <2>2 DEF r
  <2> HIDE DEF room
  <2> QED  BY <1>1, <1>2, <2>1, <2>3 DEF r
<1> HIDE DEF room
<1>4. n \in Nat /\ n <= len /\ n <= room
  BY <1>1, <1>3, MinOfTwo
<1>5. FillSndBuf(k) = [k EXCEPT !.sndQueue = SubSeq(@, n + 1, Len(@)),
                                !.sndBuf = @ \cup {NewSeg(k, j) : j \in 1..n},
                                !.sndNxt = Plus(@, n)]
  BY Zenon DEF FillSndBuf, NewSeg, cwnd, w, room, len
<1> HIDE DEF n
<1>6. n > 0 => w + n <= SndWnd
  BY <1>1, <1>3, <1>4
<1>7. Filled(k, n)
  BY <1>4, <1>5, <1>6 DEF Filled, w, len
<1> QED  BY <1>4, <1>7

\* What is sent first takes the numbers from nxt on, all of them new.
LEMMA FillSound ==
  ASSUME NEW k \in Sound
  PROVE  FillSndBuf(k) \in Sound
<1>1. /\ k \in Kcbs /\ SendSound(k) /\ RecvSound(k)
      /\ k.sndQueue \in Seq(Frags) /\ k.sndBuf \in SUBSET SndSegs
      /\ k.sndNxt \in Sns /\ k.sndUna \in Sns
  BY FieldTypes DEF Sound
<1>2. Diff(k.sndNxt, k.sndUna) \in 0..SndWnd
  BY <1>1 DEF SendSound
<1>3. PICK n \in Nat : Filled(k, n)
  BY <1>1, <1>2, FillSpec
<1>4. /\ n <= Len(k.sndQueue) /\ n \in 0..SndWnd /\ Diff(k.sndNxt, k.sndUna) + n \in 0..SndWnd
      /\ n \in 0..(Half - 1) /\ n \in 0..SnMod
  <2>1. n <= Len(k.sndQueue) /\ (n > 0 => Diff(k.sndNxt, k.sndUna) + n <= SndWnd)
    BY <1>3 DEF Filled
  <2> DEFINE w == Diff(k.sndNxt, k.sndUna)
  <2> HIDE DEF w
  <2>2. w \in 0..SndWnd /\ (n > 0 => w + n <= SndWnd)
    BY <1>2, <2>1 DEF w
  <2>3. n \in 0..SndWnd /\ w + n \in 0..SndWnd
    BY <2>2, Constants
  <2>4. n \in 0..(Half - 1) /\ n \in 0..SnMod
    BY <2>3, Constants
  <2> QED  BY <2>1, <2>3, <2>4 DEF w
<1> DEFINE Q == SubSeq(k.sndQueue, n + 1, Len(k.sndQueue))
           new == {NewSeg(k, j) : j \in 1..n}
           B == k.sndBuf \cup new
           nxt == Plus(k.sndNxt, n)
           l == [k EXCEPT !.sndQueue = Q, !.sndBuf = B, !.sndNxt = nxt]
<1>5. FillSndBuf(k) = l
  BY <1>3 DEF Filled
<1>6. nxt \in Sns /\ Q \in Seq(Frags)
  <2>1. nxt \in Sns
    BY <1>1, <1>4, PlusIs
  <2>2. Q \in Seq(Frags)
    BY <1>1, <1>4
  <2> QED  BY <2>1, <2>2
<1>7. ASSUME NEW j \in 1..n
      PROVE  /\ NewSeg(k, j) \in SndSegs
             /\ NewSeg(k, j).sn = Plus(k.sndNxt, j - 1)
             /\ Diff(Plus(k.sndNxt, j - 1), k.sndUna) = Diff(k.sndNxt, k.sndUna) + (j - 1)
             /\ Diff(Plus(k.sndNxt, j - 1), nxt) < 0
  <2>1. j - 1 \in 0..(Half - 1) /\ j - 1 \in 0..SnMod
    BY <1>4, Constants
  <2>2. k.sndQueue[j] \in Frags
    BY <1>1, <1>4
  <2>3. Plus(k.sndNxt, j - 1) \in Sns
    BY <1>1, <2>1, PlusIs
  <2>4. NewSeg(k, j) \in SndSegs /\ NewSeg(k, j).sn = Plus(k.sndNxt, j - 1)
    <3>1. 0 \in 0..(FastLimit + 1) /\ 0 \in 0..FastResend
      BY KcpAssumption
    <3> QED  BY <2>2, <2>3, <3>1 DEF NewSeg, SndSegs, Frags
  <2> DEFINE w == Diff(k.sndNxt, k.sndUna)
             x == Plus(k.sndNxt, j - 1)
             y == Diff(x, k.sndNxt)
             z == Diff(x, nxt)
  <2>5. w + (j - 1) < Half => Diff(x, k.sndUna) = w + (j - 1)
    BY <1>1, <2>1, DiffPlus
  <2>6. w + (j - 1) < Half
    <3>1. w + n \in 0..SndWnd /\ w \in 0..SndWnd
      BY <1>2, <1>4
    <3> HIDE DEF w
    <3> QED  BY <3>1, <1>4, Constants
  <2>7. y = j - 1
    BY <1>1, <2>1, <2>3, PlusOfDiff
  <2>8. y - n >= Half - SnMod => z = y - n
    BY <1>1, <1>4, <2>3, DiffPlus
  <2> HIDE DEF y, z
  <2>9. y - n >= Half - SnMod
    BY <2>7, <1>4, Constants
  <2>10. z < 0
    BY <2>7, <2>8, <2>9, <1>4
  <2> QED  BY <2>4, <2>5, <2>6, <2>10 DEF z
<1>8. new \in SUBSET SndSegs /\ IsFiniteSet(new)
  <2>1. new \in SUBSET SndSegs
    BY <1>7
  <2> DEFINE g == [j \in 1..n |-> NewSeg(k, j)]
  <2>2. g \in Surjection(1..n, new)
    BY DEF Surjection
  <2>3. IsFiniteSet(1..n)
    BY FS_Interval
  <2> HIDE DEF new, g
  <2> QED  BY <2>1, <2>2, <2>3, FS_Surjection
<1>9. \A s \in new : \E j \in 1..n : s = NewSeg(k, j)
  OBVIOUS
<1> HIDE DEF new
<1>10. /\ l \in Kcbs /\ l.sndBuf = B /\ l.sndNxt = nxt /\ l.sndUna = k.sndUna
       /\ l.rcvBuf = k.rcvBuf /\ l.rcvNxt = k.rcvNxt /\ l.rcvQueue = k.rcvQueue
  <2>1. B \in SUBSET SndSegs
    BY <1>1, <1>8
  <2> HIDE DEF B, Q, nxt
  <2> QED  BY <1>1, <1>6, <2>1 DEF Kcbs
<1> HIDE DEF l
<1>11. Diff(nxt, k.sndUna) = Diff(k.sndNxt, k.sndUna) + n
  <2> DEFINE w == Diff(k.sndNxt, k.sndUna)
  <2>1. w + n < Half => Diff(nxt, k.sndUna) = w + n
    BY <1>1, <1>4, DiffPlus
  <2>2. w + n \in 0..SndWnd
    BY <1>4
  <2> HIDE DEF w
  <2>3. w + n < Half
    BY <2>2, Constants
  <2> QED  BY <2>1, <2>3 DEF w
<1>12. \A s \in k.sndBuf : /\ s.sn \in Sns
                           /\ Diff(s.sn, k.sndUna) \in 0..(Diff(k.sndNxt, k.sndUna) - 1)
                           /\ Diff(s.sn, nxt) < 0
  <2> TAKE s \in k.sndBuf
  <2>1. s.sn \in Sns /\ InFlight(k, s.sn)
    BY <1>1 DEF SendSound, SndSegs
  <2> DEFINE x == Diff(s.sn, k.sndUna)
             w == Diff(k.sndNxt, k.sndUna)
             v == Diff(nxt, k.sndUna)
             z == Diff(s.sn, nxt)
  <2>2. x \in 0..(w - 1)
    BY <1>1, <2>1, Offsets
  <2>3. x - v \in (Half - SnMod)..(Half - 1) => z = x - v
    BY <1>1, <1>6, <2>1, DiffSub
  <2>4. v = w + n /\ w + n \in 0..SndWnd /\ w \in 0..SndWnd
    BY <1>2, <1>4, <1>11
  <2> HIDE DEF x, w, v, z
  <2>5. x - v \in (Half - SnMod)..(Half - 1)
    BY <2>2, <2>4, Constants
  <2>6. z < 0
    BY <2>2, <2>3, <2>4, <2>5, Constants
  <2> QED  BY <2>1, <2>2, <2>6 DEF x, w, z
<1>13. \A s \in l.sndBuf : InFlight(l, s.sn)
  <2>1. ASSUME NEW s \in k.sndBuf PROVE Diff(s.sn, k.sndUna) >= 0 /\ Diff(s.sn, nxt) < 0
    BY <1>1, <1>12 DEF SendSound, InFlight
  <2>2. ASSUME NEW s \in new PROVE Diff(s.sn, k.sndUna) >= 0 /\ Diff(s.sn, nxt) < 0
    <3>1. PICK j \in 1..n : s = NewSeg(k, j)
      BY <1>9
    <3>2. /\ Diff(s.sn, k.sndUna) = Diff(k.sndNxt, k.sndUna) + (j - 1) /\ Diff(s.sn, nxt) < 0
      BY <1>7, <3>1
    <3> DEFINE w == Diff(k.sndNxt, k.sndUna)
    <3>3. w \in 0..SndWnd
      BY <1>2
    <3> HIDE DEF w
    <3>4. w + (j - 1) >= 0
      BY <3>3, Constants
    <3> QED  BY <3>2, <3>4 DEF w
  <2> HIDE DEF nxt
  <2> QED  BY <1>10, <2>1, <2>2 DEF InFlight
<1>14. \A s, t \in B : s.sn = t.sn => s = t
  <2>1. ASSUME NEW s \in k.sndBuf, NEW t \in new PROVE s.sn # t.sn
    <3>1. PICK j \in 1..n : t = NewSeg(k, j)
      BY <1>9
    <3> DEFINE w == Diff(k.sndNxt, k.sndUna)
    <3>2. Diff(t.sn, k.sndUna) = w + (j - 1) /\ Diff(s.sn, k.sndUna) \in 0..(w - 1)
      BY <1>7, <1>12, <3>1
    <3>3. w \in 0..SndWnd
      BY <1>2
    <3> HIDE DEF w
    <3>4. w + (j - 1) \notin 0..(w - 1)
      BY <3>3, Constants
    <3> QED  BY <3>2, <3>4
  <2>2. ASSUME NEW s \in new, NEW t \in new, s.sn = t.sn PROVE s = t
    <3>1. PICK i \in 1..n : s = NewSeg(k, i)
      BY <1>9
    <3>2. PICK j \in 1..n : t = NewSeg(k, j)
      BY <1>9
    <3> DEFINE w == Diff(k.sndNxt, k.sndUna)
    <3>3. Diff(s.sn, k.sndUna) = w + (i - 1) /\ Diff(t.sn, k.sndUna) = w + (j - 1)
      BY <1>7, <3>1, <3>2
    <3>4. w \in 0..SndWnd
      BY <1>2
    <3> HIDE DEF w
    <3>5. i = j
      BY <3>3, <3>4, <2>2, Constants
    <3> QED  BY <3>1, <3>2, <3>5
  <2>3. \A s, t \in k.sndBuf : s.sn = t.sn => s = t
    BY <1>1 DEF SendSound
  <2> QED  BY <2>1, <2>2, <2>3
<1>15. IsFiniteSet(B)
  <2>1. IsFiniteSet(k.sndBuf)
    BY <1>1 DEF SendSound
  <2> QED  BY <1>8, <2>1, FS_Union
<1>16. Diff(l.sndNxt, l.sndUna) \in 0..SndWnd
  BY <1>4, <1>10, <1>11
<1>17. SendSound(l)
  <2> HIDE DEF B
  <2> QED  BY <1>10, <1>13, <1>14, <1>15, <1>16 DEF SendSound
<1>18. RecvSound(l)
  BY <1>1, <1>10, RecvLocal
<1> QED  BY <1>5, <1>10, <1>17, <1>18 DEF Sound

LEMMA FlushedSound ==
  ASSUME NEW k \in Sound
  PROVE  Flushed(k) \in Sound
<1> DEFINE w == ProbeWindow(k)
           v == [w EXCEPT !.ackList = <<>>, !.probe = {}]
           f == FillSndBuf(v)
           Sent(s) == IF NeedSend(s) THEN Transmitted(s) ELSE s
           g == [s \in SndSegs |-> Sent(s)]
<1>1. w \in Sound
  BY ProbeWindowSound
<1> HIDE DEF w
<1>2. v \in Sound
  <2>1. w \in Kcbs
    BY <1>1 DEF Sound
  <2>2. /\ v \in Kcbs
        /\ v.sndBuf = w.sndBuf /\ v.sndUna = w.sndUna /\ v.sndNxt = w.sndNxt
        /\ v.rcvBuf = w.rcvBuf /\ v.rcvNxt = w.rcvNxt /\ v.rcvQueue = w.rcvQueue
    <3> DEFINE e == <<>>
    <3>1. e \in Seq(Sns) /\ v = [w EXCEPT !.ackList = e, !.probe = {}]
      OBVIOUS
    <3> HIDE DEF v, e
    <3> QED  BY <2>1, <3>1 DEF Kcbs
  <2> HIDE DEF v
  <2> QED  BY <1>1, <2>2, OtherFields
<1>3. Flushed(k) = [f EXCEPT !.sndBuf = {Sent(s) : s \in f.sndBuf}]
  BY DEF Flushed, w
<1> HIDE DEF v
<1>4. f \in Sound
  BY <1>2, FillSound
<1> HIDE DEF f
<1>5. f \in Kcbs /\ SendSound(f) /\ RecvSound(f) /\ f.sndBuf \in SUBSET SndSegs
  BY <1>4, FieldTypes DEF Sound
<1>6. ASSUME NEW s \in SndSegs PROVE Sent(s) \in SndSegs /\ Sent(s).sn = s.sn
  <2>1. /\ s.xmit \in 0..(FastLimit + 1) /\ s.fastack \in 0..FastResend
        /\ FastLimit \in Nat /\ FastResend \in Nat
    BY KcpAssumption DEF SndSegs
  <2> DEFINE x == IF s.xmit > FastLimit THEN s.xmit ELSE s.xmit + 1
             a == IF s.xmit = 0 \/ s.due THEN s.fastack ELSE 0
  <2>2. x \in 0..(FastLimit + 1) /\ a \in 0..FastResend
    BY <2>1
  <2>3. Sent(s) = [s EXCEPT !.xmit = x, !.fastack = a, !.due = FALSE] \/ Sent(s) = s
    BY DEF Transmitted
  <2> HIDE DEF x, a, Sent
  <2> QED  BY <2>2, <2>3 DEF SndSegs
<1> HIDE DEF Sent
<1>7. g \in [SndSegs -> SndSegs] /\ \A s \in SndSegs : g[s].sn = s.sn
  BY <1>6
<1>8. {Sent(s) : s \in f.sndBuf} = {g[s] : s \in f.sndBuf}
  BY <1>5
<1> HIDE DEF g
<1>9. Flushed(k) = [f EXCEPT !.sndBuf = {g[s] : s \in f.sndBuf}]
  BY <1>3, <1>8
<1> QED  BY <1>5, <1>7, <1>9, BufCounters DEF Sound

\* A step of Pack.
Put(ds, s) ==
  IF ds # <<>> /\ FoldLeft(LAMBDA n, t : n + SizeOf(t), 0, Last(ds)) + SizeOf(s) <= Mtu
    THEN Append(Front(ds), Append(Last(ds), s)) ELSE Append(ds, <<s>>)

LEMMA PutType ==
  ASSUME NEW B, NEW ds \in Seq(Seq(B)), NEW s \in B
  PROVE  Put(ds, s) \in Seq(Seq(B))
<1>1. Append(ds, <<s>>) \in Seq(Seq(B))
  OBVIOUS
<1>2. ds # <<>> => Append(Front(ds), Append(Last(ds), s)) \in Seq(Seq(B))
  <2>1. SUFFICES ASSUME ds # <<>> PROVE Append(Front(ds), Append(Last(ds), s)) \in Seq(Seq(B))
    OBVIOUS
  <2>2. Last(ds) \in Seq(B)
    BY <2>1 DEF Last
  <2>3. Front(ds) \in Seq(Seq(B))
    BY <2>1 DEF Front
  <2> QED  BY <2>2, <2>3
<1> QED  BY <1>1, <1>2 DEF Put

\* Pack adds nothing: every segment of its datagrams was given to it.
LEMMA PackFold ==
  ASSUME NEW B, NEW seq \in Seq(B)
  PROVE  Pack(seq) \in Seq(Seq(B))
<1> DEFINE A == Seq(Seq(B))
           n == Len(seq)
           step == [x \in A \X B |-> Put(x[1], x[2])]
           Chain(h) == h = [T \in SUBSET (1..n) |->
                              IF T = {} THEN <<>> ELSE Put(h[T \ {Max(T)}], seq[Max(T)])]
           f == CHOOSE h : Chain(h)
<1>a. <<>> \in A
  OBVIOUS
<1>b. \A a \in A, s \in B : Put(a, s) \in A
  BY PutType
<1>1. n \in Nat /\ DOMAIN seq = 1..n /\ seq \in [1..n -> B]
  OBVIOUS
<1>3. Pack(seq) = f[1..n]
  <2>1. Pack(seq) = FoldLeft(Put, <<>>, seq)
    BY Zenon DEF Pack, Put
  <2>2. FoldLeft(Put, <<>>, seq) = f[1..n]
    BY <1>1, Zenon DEF FoldLeft, MapThenFoldSet
  <2> QED  BY <2>1, <2>2
<1> HIDE DEF A
<1>2. step \in [A \X B -> A]
  BY <1>b
<1>4. PICK h \in [SUBSET (1..n) -> A] : IsFold(h, <<>>, n, seq, step)
  <2> HIDE DEF n, step
  <2> QED  BY <1>a, <1>1, <1>2, FoldExists
<1>5. ASSUME NEW T \in SUBSET (1..n)
      PROVE  h[T] = IF T = {} THEN <<>> ELSE Put(h[T \ {Max(T)}], seq[Max(T)])
  <2>1. CASE T = {}
    BY <1>4, <2>1 DEF IsFold
  <2>2. CASE T # {}
    <3>1. Max(T) \in 1..n /\ T \ {Max(T)} \in SUBSET (1..n)
      BY <1>1, <2>2, MaxIn
    <3>2. h[T \ {Max(T)}] \in A /\ seq[Max(T)] \in B
      BY <1>1, <3>1
    <3>3. step[<<h[T \ {Max(T)}], seq[Max(T)]>>] = Put(h[T \ {Max(T)}], seq[Max(T)])
      BY <3>2
    <3> HIDE DEF step
    <3> QED  BY <1>4, <2>2, <3>3 DEF IsFold
  <2> QED  BY <2>1, <2>2
<1>6. Chain(h)
  <2>1. h = [T \in SUBSET (1..n) |-> h[T]]
    OBVIOUS
  <2> HIDE DEF n
  <2> QED  BY <1>5, <2>1, Zenon
<1>7. Chain(f)
  <2> HIDE DEF Chain
  <2> QED  BY <1>6, Zenon
<1>8. \A T \in SUBSET (1..n) :
        f[T] = IF T = {} THEN <<>> ELSE Put(f[T \ {Max(T)}], seq[Max(T)])
  <2> HIDE DEF f, n
  <2> QED  BY <1>7, Zenon
<1> HIDE DEF f, n, step, Chain
<1>9. f[1..n] = h[1..n]
  <2>1. f[{}] = h[{}]
    BY <1>5, <1>8
  <2>2. \A T \in SUBSET (1..n) : T # {} /\ f[T \ {Max(T)}] = h[T \ {Max(T)}] => f[T] = h[T]
    BY <1>5, <1>8
  <2> QED  BY <1>1, <2>1, <2>2, FoldOnce
<1>10. h[1..n] \in A
  OBVIOUS
<1> QED  BY <1>3, <1>9, <1>10 DEF A

\* The elements of a finite set can be listed by rank.
Ranked(S, r, d) == \A i, j \in 1..Cardinality(S) : i < j => r[d[i]] < r[d[j]]

LEMMA ByRank ==
  ASSUME NEW S, IsFiniteSet(S), NEW b \in Nat, NEW r \in [S -> 0..b],
         \A x, y \in S : r[x] = r[y] => x = y
  PROVE  \E d \in [1..Cardinality(S) -> S] : Ranked(S, r, d)
<1> DEFINE bad == {T \in SUBSET S : ~\E d \in [1..Cardinality(T) -> T] : Ranked(T, r, d)}
<1>1. SUFFICES bad = {}
  <2>1. S \in SUBSET S
    OBVIOUS
  <2> QED  BY <1>1, <2>1
<1>2. SUFFICES ASSUME bad # {} PROVE FALSE
  OBVIOUS
<1>3. PICK T \in bad : /\ IsFiniteSet(T)
                       /\ \A x \in T : /\ IsFiniteSet(T \ {x}) /\ T \ {x} \in SUBSET S
                                       /\ T \ {x} \notin bad
  <2>1. bad \in SUBSET SUBSET S
    OBVIOUS
  <2> HIDE DEF bad
  <2>2. \E T \in bad : /\ IsFiniteSet(T)
                      /\ \A x \in T : /\ IsFiniteSet(T \ {x}) /\ T \ {x} \in SUBSET S
                                      /\ T \ {x} \notin bad
    BY <1>2, <2>1, Smallest, Zenon
  <2> QED  BY <2>2, Zenon
<1>4. T \in SUBSET S /\ ~\E d \in [1..Cardinality(T) -> T] : Ranked(T, r, d)
  OBVIOUS
<1>5. Cardinality(T) \in Nat
  BY <1>3, FS_CardinalityType
<1>6. T # {}
  <2>1. SUFFICES ASSUME T = {} PROVE FALSE
    OBVIOUS
  <2>2. Cardinality(T) = 0
    BY <2>1, FS_EmptySet
  <2> DEFINE d == [i \in 1..Cardinality(T) |-> 0]
  <2>3. d \in [1..Cardinality(T) -> T]
    BY <2>2
  <2>4. Ranked(T, r, d)
    BY <2>2 DEF Ranked
  <2> QED  BY <1>4, <2>3, <2>4
<1>7. PICK m \in T : \A x \in T : r[x] <= r[m]
  <2> DEFINE R == {r[x] : x \in T}
  <2>1. R \in SUBSET (0..b) /\ R # {}
    BY <1>4, <1>6
  <2>2. \A x \in T : r[x] \in R
    OBVIOUS
  <2>3. \A y \in R : \E x \in T : y = r[x]
    OBVIOUS
  <2> HIDE DEF R
  <2>4. Max(R) \in R /\ \A y \in R : Max(R) >= y
    BY <2>1, MaxIs
  <2>5. PICK m \in T : Max(R) = r[m]
    BY <2>3, <2>4
  <2>6. \A x \in T : r[x] <= r[m]
    BY <2>1, <2>2, <2>4, <2>5
  <2> QED  BY <2>6
<1> DEFINE U == T \ {m}
           c == Cardinality(U)
<1>8. IsFiniteSet(U) /\ U \in SUBSET S /\ U \notin bad
  BY <1>3
<1>9. PICK d \in [1..c -> U] : Ranked(U, r, d)
  BY <1>8
<1>10. c \in Nat /\ Cardinality(T) = c + 1
  <2>1. Cardinality(U) = Cardinality(T) - 1 /\ Cardinality(U) \in Nat
    BY <1>3, <1>8, FS_RemoveElement, FS_CardinalityType
  <2> QED  BY <2>1, <1>5
<1> HIDE DEF bad
<1> DEFINE e == [i \in 1..(c + 1) |-> IF i = c + 1 THEN m ELSE d[i]]
<1>11. e \in [1..(c + 1) -> T]
  <2>1. \A i \in 1..(c + 1) : i # c + 1 => i \in 1..c
    BY <1>10
  <2> HIDE DEF c
  <2> QED  BY <2>1
<1>12. ASSUME NEW i \in 1..(c + 1), NEW j \in 1..(c + 1), i < j
       PROVE  r[e[i]] < r[e[j]]
  <2>1. i \in 1..c /\ e[i] = d[i]
    BY <1>10, <1>12
  <2>2. CASE j = c + 1
    <3>1. d[i] \in U
      BY <2>1
    <3>2. d[i] \in T /\ d[i] # m /\ m \in T /\ e[j] = m
      BY <3>1, <2>2
    <3>3. r[d[i]] # r[m] /\ r[d[i]] <= r[m] /\ r[d[i]] \in 0..b /\ r[m] \in 0..b
      BY <1>4, <1>7, <3>2
    <3>4. r[d[i]] < r[m]
      BY <3>3
    <3> QED  BY <2>1, <3>2, <3>4
  <2>3. CASE j # c + 1
    <3>1. j \in 1..c /\ e[j] = d[j]
      BY <1>10, <2>3
    <3> QED  BY <1>9, <1>12, <2>1, <3>1 DEF Ranked
  <2> QED  BY <2>2, <2>3
<1> HIDE DEF e, c
<1>13. Ranked(T, r, e)
  BY <1>10, <1>12 DEF Ranked
<1> QED  BY <1>4, <1>10, <1>11, <1>13

\* What ikcp_flush sends: the segments it is to send now, and how it dresses them.
DueSegs(k) == {s \in FillSndBuf(ProbeWindow(k)).sndBuf : NeedSend(s)}

OutSeg(k, cmd, sn, frg, data) ==
  [cmd |-> cmd, sn |-> sn, frg |-> frg, data |-> data, wnd |-> WndUnused(k), una |-> k.rcvNxt]

InOrder(d) == \A i, j \in DOMAIN d : i < j => Diff(d[i].sn, d[j].sn) < 0

\* snd_buf is a list in the order of the numbers: the segments have one.
LEMMA DueInOrder ==
  ASSUME NEW k \in Sound
  PROVE  \E d \in [1..Cardinality(DueSegs(k)) -> DueSegs(k)] : InOrder(d)
<1> DEFINE f == FillSndBuf(ProbeWindow(k))
           S == DueSegs(k)
           r == [s \in S |-> Diff(s.sn, f.sndUna)]
<1>1. f \in Sound
  BY ProbeWindowSound, FillSound
<1>2. S \subseteq f.sndBuf
  BY DEF DueSegs
<1> HIDE DEF f, S
<1>3. f \in Kcbs /\ SendSound(f) /\ f.sndBuf \in SUBSET SndSegs /\ f.sndUna \in Sns
  BY <1>1, FieldTypes DEF Sound
<1>4. \A s \in S : s.sn \in Sns /\ InFlight(f, s.sn)
  BY <1>2, <1>3 DEF SendSound, SndSegs
<1>5. IsFiniteSet(S)
  BY <1>2, <1>3, FS_Subset DEF SendSound
<1>6. \A s \in S : Diff(s.sn, f.sndUna) \in 0..SndWnd
  <2> TAKE s \in S
  <2> DEFINE x == Diff(s.sn, f.sndUna)
             w == Diff(f.sndNxt, f.sndUna)
  <2>1. x \in 0..(w - 1)
    BY <1>3, <1>4, Offsets
  <2>2. w \in 0..SndWnd
    BY <1>3 DEF SendSound
  <2> HIDE DEF x, w
  <2>3. x \in 0..SndWnd
    BY <2>1, <2>2, Constants
  <2> QED  BY <2>3 DEF x
<1>7. r \in [S -> 0..SndWnd] /\ \A s \in S : r[s] = Diff(s.sn, f.sndUna)
  BY <1>6
<1> HIDE DEF r
<1>8. ASSUME NEW x \in S, NEW y \in S
      PROVE  Diff(x.sn, y.sn) = r[x] - r[y] /\ (r[x] = r[y] => x = y)
  <2>1. Diff(x.sn, y.sn) = r[x] - r[y]
    BY <1>3, <1>4, <1>7, OffsetsDiff
  <2>2. r[x] \in Int /\ r[y] \in Int
    BY <1>7, Constants
  <2>3. r[x] = r[y] => Diff(x.sn, y.sn) = 0
    BY <2>1, <2>2
  <2>4. r[x] = r[y] => x.sn = y.sn
    BY <2>3, <1>4, DiffOrder
  <2>5. x.sn = y.sn => x = y
    BY <1>2, <1>3 DEF SendSound
  <2> QED  BY <2>1, <2>4, <2>5
<1>9. PICK d \in [1..Cardinality(S) -> S] : Ranked(S, r, d)
  BY <1>5, <1>7, <1>8, Constants, ByRank
<1>10. ASSUME NEW i \in DOMAIN d, NEW j \in DOMAIN d, i < j
       PROVE  Diff(d[i].sn, d[j].sn) < 0
  <2>1. d[i] \in S /\ d[j] \in S /\ r[d[i]] < r[d[j]]
    BY <1>9, <1>10 DEF Ranked
  <2>2. Diff(d[i].sn, d[j].sn) = r[d[i]] - r[d[j]] /\ r[d[i]] \in Int /\ r[d[j]] \in Int
    BY <1>7, <1>8, <2>1, Constants
  <2> QED  BY <2>1, <2>2
<1>11. InOrder(d)
  BY <1>10 DEF InOrder
<1> QED  BY <1>9, <1>11 DEF S

\* Every segment that leaves is an acknowledgment that was listed, a window
\* command, or one of the segments that are due.
LEMMA OutputSegs ==
  ASSUME NEW k \in Sound, NEW B,
         \A j \in DOMAIN k.ackList : OutSeg(k, "ack", k.ackList[j], 0, <<>>) \in B,
         OutSeg(k, "wask", 0, 0, <<>>) \in B, OutSeg(k, "wins", 0, 0, <<>>) \in B,
         \A s \in DueSegs(k) : OutSeg(k, "push", s.sn, s.frg, s.data) \in B
  PROVE  Output(k) \in Seq(Seq(B))
<1> DEFINE f == ProbeWindow(k)
           due == DueSegs(k)
           data == CHOOSE d \in [1..Cardinality(due) -> due] : InOrder(d)
           a == [j \in DOMAIN k.ackList |-> OutSeg(k, "ack", k.ackList[j], 0, <<>>)]
           b == IF "ask" \in f.probe THEN <<OutSeg(k, "wask", 0, 0, <<>>)>> ELSE <<>>
           c == IF "tell" \in f.probe THEN <<OutSeg(k, "wins", 0, 0, <<>>)>> ELSE <<>>
           e == [j \in DOMAIN data |-> OutSeg(k, "push", data[j].sn, data[j].frg, data[j].data)]
<1>1. Output(k) = Pack(a \o b \o c \o e)
  BY Zenon DEF Output, OutSeg, DueSegs, InOrder
<1>2. data \in [1..Cardinality(due) -> due]
  <2>1. \E d \in [1..Cardinality(due) -> due] : InOrder(d)
    BY DueInOrder
  <2> HIDE DEF due
  <2> QED  BY <2>1, Zenon
<1>3. Cardinality(due) \in Nat
  <2>1. FillSndBuf(f) \in Sound
    BY ProbeWindowSound, FillSound
  <2>2. IsFiniteSet(FillSndBuf(f).sndBuf)
    BY <2>1 DEF Sound, SendSound
  <2>3. due \in SUBSET FillSndBuf(f).sndBuf
    BY DEF DueSegs
  <2> HIDE DEF due
  <2> QED  BY <2>2, <2>3, FS_Subset, FS_CardinalityType
<1> HIDE DEF data, due
<1>4. a \in Seq(B)
  <2>1. k.ackList \in Seq(Sns)
    BY FieldTypes DEF Sound
  <2> QED  BY <2>1
<1>5. b \in Seq(B) /\ c \in Seq(B)
  <2> DEFINE x == OutSeg(k, "wask", 0, 0, <<>>)
             y == OutSeg(k, "wins", 0, 0, <<>>)
  <2>1. x \in B /\ y \in B
    OBVIOUS
  <2> HIDE DEF x, y
  <2>2. <<x>> \in Seq(B) /\ <<y>> \in Seq(B) /\ <<>> \in Seq(B)
    BY <2>1
  <2> QED  BY <2>2 DEF x, y
<1>6. e \in Seq(B)
  <2>1. \A j \in DOMAIN data : data[j] \in due
    BY <1>2
  <2>2. \A j \in DOMAIN data : OutSeg(k, "push", data[j].sn, data[j].frg, data[j].data) \in B
    BY <2>1 DEF due
  <2>3. DOMAIN data = 1..Cardinality(due)
    BY <1>2
  <2> QED  BY <1>3, <2>2, <2>3
<1> HIDE DEF a, b, c, e
<1>7. a \o b \o c \o e \in Seq(B)
  BY <1>4, <1>5, <1>6
<1> QED  BY <1>1, <1>7, PackFold

LEMMA OutputType ==
  ASSUME NEW k \in Sound
  PROVE  Output(k) \in Seq(Seq(NetSegs))
<1>1. /\ k \in Kcbs /\ k.ackList \in Seq(Sns) /\ k.rcvNxt \in Sns
      /\ k.rcvQueue \in Seq(Frags)
  BY FieldTypes DEF Sound
<1>2. WndUnused(k) \in 0..RcvWindow
  BY <1>1, Constants DEF WndUnused
<1>3. ASSUME NEW cmd \in Commands, NEW sn \in Sns, NEW frg \in Nat, NEW data \in Datas
      PROVE  OutSeg(k, cmd, sn, frg, data) \in NetSegs
  BY <1>1, <1>2 DEF OutSeg, NetSegs
<1>4. 0 \in Sns /\ <<>> \in Datas /\ 0 \in Nat
  BY KcpAssumption DEF Sns, Datas
<1>5. \A j \in DOMAIN k.ackList : OutSeg(k, "ack", k.ackList[j], 0, <<>>) \in NetSegs
  <2>1. \A j \in DOMAIN k.ackList : k.ackList[j] \in Sns
    BY <1>1
  <2>2. "ack" \in Commands
    BY DEF Commands
  <2> QED  BY <2>1, <2>2, <1>3, <1>4
<1>6. OutSeg(k, "wask", 0, 0, <<>>) \in NetSegs /\ OutSeg(k, "wins", 0, 0, <<>>) \in NetSegs
  <2>1. "wask" \in Commands /\ "wins" \in Commands
    BY DEF Commands
  <2> QED  BY <2>1, <1>3, <1>4
<1>7. \A s \in DueSegs(k) : OutSeg(k, "push", s.sn, s.frg, s.data) \in NetSegs
  <2>1. FillSndBuf(ProbeWindow(k)) \in Sound
    BY ProbeWindowSound, FillSound
  <2>2. DueSegs(k) \subseteq SndSegs
    BY <2>1, FieldTypes DEF Sound, DueSegs
  <2>3. \A s \in SndSegs : s.sn \in Sns /\ s.frg \in Nat /\ s.data \in Datas
    BY DEF SndSegs
  <2>4. "push" \in Commands
    BY DEF Commands
  <2> QED  BY <2>2, <2>3, <2>4, <1>3
<1> QED  BY <1>5, <1>6, <1>7, OutputSegs
-----------------------------------------------------------------------------
(* The windows: the inductive invariant, and the steps. *)

Windows ==
  /\ kcb \in [Peers -> Sound]
  /\ net \in [Peers -> Seq(Seq(NetSegs))]
  /\ sent \in [Peers -> Seq(Nat)]
  /\ got \in [Peers -> Seq(Seq(Datas))]
  /\ faults \in 0..MaxFaults

LEMMA OtherIs ==
  ASSUME NEW p \in Peers
  PROVE  Other(p) \in Peers /\ Other(p) # p /\ Peers = {p, Other(p)}
<1>1. IsFiniteSet(Peers) /\ Cardinality(Peers) = 2
  BY KcpAssumption
<1>2. IsFiniteSet(Peers \ {p}) /\ Cardinality(Peers \ {p}) = 1
  BY <1>1, FS_RemoveElement
<1>3. PICK q : Peers \ {p} = {q}
  BY <1>2, FS_Singleton
<1>4. \E r \in Peers : r # p
  BY <1>3
<1>5. Other(p) \in Peers /\ Other(p) # p
  BY <1>4, Zenon DEF Other
<1> QED  BY <1>3, <1>5

LEMMA NewKcbSound == NewKcb \in Sound
<1> DEFINE e == <<>>
           k == [sndQueue |-> e, sndBuf |-> {}, sndUna |-> FirstSn, sndNxt |-> FirstSn,
                 rcvQueue |-> e, rcvBuf |-> {}, rcvNxt |-> FirstSn,
                 ackList |-> e, rmtWnd |-> WndRcv,
                 probe |-> {}, probeWait |-> FALSE, probeDue |-> FALSE]
<1>1. e \in Seq(Frags) /\ e \in Seq(Sns) /\ Len(e) = 0
  OBVIOUS
<1>2. NewKcb = k
  BY DEF NewKcb
<1> HIDE DEF e
<1>3. /\ k \in Kcbs /\ k.sndBuf = {} /\ k.rcvBuf = {} /\ k.rcvQueue = e
      /\ k.sndUna = FirstSn /\ k.sndNxt = FirstSn
  <2>1. WndRcv \in 0..RcvWindow /\ FirstSn \in Sns
    BY Constants
  <2> QED  BY <1>1, <2>1 DEF Kcbs
<1> HIDE DEF k
<1>4. IsFiniteSet({}) /\ Diff(FirstSn, FirstSn) = 0 /\ 0 \in 0..SndWnd /\ 0 <= RcvWindow
  BY FS_EmptySet, DiffSelf, Constants
<1>5. SendSound(k) /\ RecvSound(k)
  BY <1>1, <1>3, <1>4 DEF SendSound, RecvSound
<1> QED  BY <1>2, <1>3, <1>5 DEF Sound

LEMMA WindowsInit == Init => Windows
<1>1. 0 \in 0..MaxFaults
  BY KcpAssumption
<1> QED  BY <1>1, NewKcbSound DEF Init, Windows

LEMMA SendMsgWindows ==
  ASSUME Windows, NEW p \in Peers, NEW n \in Lens, SendMsg(p, n)
  PROVE  Windows'
<1> DEFINE i == Len(sent[p]) + 1
           k == kcb[p]
           add == [j \in 1..n |-> Fragment(i, j, n)]
           Q == k.sndQueue \o add
           l == [k EXCEPT !.sndQueue = Q]
<1>1. n \in Nat /\ i \in Nat
  BY KcpAssumption DEF Windows
<1>2. k \in Sound /\ k \in Kcbs /\ k.sndQueue \in Seq(Frags)
  BY FieldTypes DEF Windows, Sound
<1>3. add \in Seq(Frags)
  <2>1. ASSUME NEW j \in 1..n PROVE Fragment(i, j, n) \in Frags
    <3>1. n - j \in Nat /\ j \in Nat
      BY <1>1
    <3> HIDE DEF i
    <3>2. <<i, j>> \in Datas
      BY <1>1, <3>1 DEF Datas
    <3> QED  BY <3>1, <3>2 DEF Fragment, Frags
  <2> HIDE DEF i
  <2> QED  BY <1>1, <2>1
<1>4. Q \in Seq(Frags)
  <2> HIDE DEF add
  <2> QED  BY <1>2, <1>3
<1>5. /\ kcb' = [kcb EXCEPT ![p] = l] /\ sent' = [sent EXCEPT ![p] = Append(@, n)]
      /\ net' = net /\ got' = got /\ faults' = faults
  BY DEF SendMsg, Windows
<1>6. l \in Sound
  <2> HIDE DEF Q, k
  <2>1. /\ l \in Kcbs
        /\ l.sndBuf = k.sndBuf /\ l.sndUna = k.sndUna /\ l.sndNxt = k.sndNxt
        /\ l.rcvBuf = k.rcvBuf /\ l.rcvNxt = k.rcvNxt /\ l.rcvQueue = k.rcvQueue
    BY <1>2, <1>4 DEF Kcbs
  <2> HIDE DEF l
  <2> QED  BY <1>2, <2>1, OtherFields
<1>7. Append(sent[p], n) \in Seq(Nat)
  BY <1>1 DEF Windows
<1> HIDE DEF l
<1>8. kcb' \in [Peers -> Sound] /\ sent' \in [Peers -> Seq(Nat)]
  BY <1>5, <1>6, <1>7 DEF Windows
<1> QED  BY <1>5, <1>8 DEF Windows

LEMMA InputWindows ==
  ASSUME Windows, NEW p \in Peers, Input(p)
  PROVE  Windows'
<1> DEFINE k == InputDatagram(kcb[p], Head(net[p]))
<1>1. net[p] \in Seq(Seq(NetSegs)) /\ net[p] # <<>> /\ kcb[p] \in Sound
  BY DEF Windows, Input
<1>2. Head(net[p]) \in Seq(NetSegs) /\ Tail(net[p]) \in Seq(Seq(NetSegs))
  BY <1>1
<1>3. k \in Sound
  BY <1>1, <1>2, InputDatagramSound
<1>4. /\ kcb' = [kcb EXCEPT ![p] = k] /\ net' = [net EXCEPT ![p] = Tail(@)]
      /\ sent' = sent /\ got' = got /\ faults' = faults
  BY DEF Input
<1> HIDE DEF k
<1>5. kcb' \in [Peers -> Sound] /\ net' \in [Peers -> Seq(Seq(NetSegs))]
  BY <1>2, <1>3, <1>4 DEF Windows
<1> QED  BY <1>4, <1>5 DEF Windows

LEMMA UpdateWindows ==
  ASSUME Windows, NEW p \in Peers, Update(p)
  PROVE  Windows'
<1> DEFINE out == Output(kcb[p])
           k == Flushed(kcb[p])
           q == Other(p)
<1>1. kcb[p] \in Sound /\ q \in Peers
  BY OtherIs DEF Windows
<1>2. k \in Sound /\ out \in Seq(Seq(NetSegs))
  BY <1>1, FlushedSound, OutputType
<1>3. /\ kcb' = [kcb EXCEPT ![p] = k] /\ net' = [net EXCEPT ![q] = @ \o out]
      /\ sent' = sent /\ got' = got /\ faults' = faults
  BY DEF Update
<1> HIDE DEF k, out, q
<1>4. net[q] \o out \in Seq(Seq(NetSegs))
  <2>1. net[q] \in Seq(Seq(NetSegs))
    BY <1>1 DEF Windows
  <2> QED  BY <1>2, <2>1
<1>5. kcb' \in [Peers -> Sound] /\ net' \in [Peers -> Seq(Seq(NetSegs))]
  BY <1>1, <1>2, <1>3, <1>4 DEF Windows
<1> QED  BY <1>3, <1>5 DEF Windows

LEMMA ExpireWindows ==
  ASSUME Windows, NEW p \in Peers, Expire(p)
  PROVE  Windows'
<1>1. PICK s \in kcb[p].sndBuf :
        kcb' = [kcb EXCEPT ![p].sndBuf = (@ \ {s}) \cup {[s EXCEPT !.due = TRUE]}]
  BY DEF Expire
<1> DEFINE k == kcb[p]
           Late(t) == IF t = s THEN [t EXCEPT !.due = TRUE] ELSE t
           f == [t \in SndSegs |-> Late(t)]
           l == [k EXCEPT !.sndBuf = {f[t] : t \in k.sndBuf}]
<1>2. k \in Kcbs /\ SendSound(k) /\ RecvSound(k) /\ k.sndBuf \in SUBSET SndSegs
  BY FieldTypes DEF Windows, Sound
<1>3. ASSUME NEW t \in SndSegs PROVE Late(t) \in SndSegs /\ Late(t).sn = t.sn
  BY DEF SndSegs
<1>4. (k.sndBuf \ {s}) \cup {[s EXCEPT !.due = TRUE]} = {Late(t) : t \in k.sndBuf}
  <2> DEFINE v == [s EXCEPT !.due = TRUE]
  <2>1. \A t : Late(t) = IF t = s THEN v ELSE t
    OBVIOUS
  <2>2. s \in k.sndBuf
    OBVIOUS
  <2> HIDE DEF Late, v, k
  <2>3. (k.sndBuf \ {s}) \cup {v} = {Late(t) : t \in k.sndBuf}
    BY <2>1, <2>2
  <2> QED  BY <2>3 DEF v
<1> HIDE DEF Late
<1>5. f \in [SndSegs -> SndSegs] /\ \A t \in SndSegs : f[t].sn = t.sn
  BY <1>3
<1>6. {Late(t) : t \in k.sndBuf} = {f[t] : t \in k.sndBuf}
  BY <1>2
<1>7. kcb' = [kcb EXCEPT ![p] = l]
  <2> DEFINE B == (k.sndBuf \ {s}) \cup {[s EXCEPT !.due = TRUE]}
  <2>1. kcb' = [kcb EXCEPT ![p] = [k EXCEPT !.sndBuf = B]]
    BY <1>1 DEF Windows
  <2>2. B = {f[t] : t \in k.sndBuf}
    BY <1>4, <1>6
  <2> HIDE DEF B, f
  <2> QED  BY <2>1, <2>2
<1> HIDE DEF f
<1>8. l \in Sound
  BY <1>2, <1>5, BufCounters DEF Sound
<1> HIDE DEF l
<1>9. kcb' \in [Peers -> Sound]
  BY <1>7, <1>8 DEF Windows
<1>10. faults' \in 0..MaxFaults
  BY KcpAssumption DEF Expire, Elapses, Windows
<1>11. net' = net /\ sent' = sent /\ got' = got
  BY DEF Expire
<1> QED  BY <1>9, <1>10, <1>11 DEF Windows

LEMMA ProbeExpireWindows ==
  ASSUME Windows, NEW p \in Peers, ProbeExpire(p)
  PROVE  Windows'
<1> DEFINE k == kcb[p]
           l == [k EXCEPT !.probeDue = TRUE]
<1>1. k \in Sound /\ k \in Kcbs
  BY DEF Windows, Sound
<1>2. kcb' = [kcb EXCEPT ![p] = l]
  BY DEF ProbeExpire, Windows
<1> HIDE DEF k
<1>3. l \in Sound
  <2>1. /\ l \in Kcbs
        /\ l.sndBuf = k.sndBuf /\ l.sndUna = k.sndUna /\ l.sndNxt = k.sndNxt
        /\ l.rcvBuf = k.rcvBuf /\ l.rcvNxt = k.rcvNxt /\ l.rcvQueue = k.rcvQueue
    BY <1>1 DEF Kcbs
  <2> HIDE DEF l
  <2> QED  BY <1>1, <2>1, OtherFields
<1> HIDE DEF l
<1>4. kcb' \in [Peers -> Sound]
  BY <1>2, <1>3 DEF Windows
<1>5. faults' \in 0..MaxFaults
  BY KcpAssumption DEF ProbeExpire, Elapses, Windows
<1>6. net' = net /\ sent' = sent /\ got' = got
  BY DEF ProbeExpire
<1> QED  BY <1>4, <1>5, <1>6 DEF Windows

\* ikcp_recv takes the segments up to the first with frg 0.
Taken(k) == Min({j \in DOMAIN k.rcvQueue : k.rcvQueue[j].frg = 0} \cup {Len(k.rcvQueue)})

LEMMA MinIs ==
  ASSUME NEW S \in SUBSET Nat, S # {}
  PROVE  Min(S) \in S /\ \A y \in S : Min(S) <= y
<1>1. \E x \in S : \A y \in S : x <= y
  BY LeastNatural
<1> QED  BY <1>1, Zenon DEF Min

LEMMA TakenIs ==
  ASSUME NEW k \in Kcbs, k.rcvQueue # <<>>
  PROVE  /\ Taken(k) \in 1..Len(k.rcvQueue)
         /\ \A j \in 1..(Taken(k) - 1) : k.rcvQueue[j].frg # 0
         /\ Taken(k) < Len(k.rcvQueue) => k.rcvQueue[Taken(k)].frg = 0
<1> DEFINE Z == {j \in DOMAIN k.rcvQueue : k.rcvQueue[j].frg = 0}
           len == Len(k.rcvQueue)
           S == Z \cup {len}
<1>1. len \in Nat \ {0} /\ DOMAIN k.rcvQueue = 1..len
  <2>1. k.rcvQueue \in Seq(Frags)
    BY FieldTypes
  <2> QED  BY <2>1
<1>2. S \in SUBSET (1..len) /\ len \in S
  <2> HIDE DEF len
  <2> QED  BY <1>1
<1>3. Taken(k) = Min(S)
  BY DEF Taken
<1>4. \A j \in 1..len : k.rcvQueue[j].frg = 0 => j \in S
  BY <1>1
<1>5. \A j \in S : j # len => k.rcvQueue[j].frg = 0
  OBVIOUS
<1> HIDE DEF S, len
<1>6. Min(S) \in S /\ \A y \in S : Min(S) <= y
  <2>1. S \in SUBSET Nat /\ S # {}
    BY <1>2
  <2> QED  BY <2>1, MinIs
<1>7. Taken(k) \in 1..len
  BY <1>2, <1>3, <1>6
<1>8. \A j \in 1..(Taken(k) - 1) : k.rcvQueue[j].frg # 0
  BY <1>1, <1>3, <1>4, <1>6, <1>7
<1>9. Taken(k) < len => k.rcvQueue[Taken(k)].frg = 0
  BY <1>1, <1>3, <1>5, <1>6, <1>7
<1> QED  BY <1>7, <1>8, <1>9 DEF len

LEMMA RecvWindows ==
  ASSUME Windows, NEW p \in Peers, Recv(p)
  PROVE  Windows'
<1> DEFINE k == kcb[p]
           n == Taken(k)
           Q == SubSeq(k.rcvQueue, n + 1, Len(k.rcvQueue))
           l == [k EXCEPT !.rcvQueue = Q]
           moved == MoveAvailable(l)
           told == [moved EXCEPT !.probe = @ \cup {"tell"}]
           msg == [j \in 1..n |-> k.rcvQueue[j].data]
<1>1. k \in Sound /\ k \in Kcbs /\ SendSound(k) /\ RecvSound(k) /\ k.rcvQueue \in Seq(Frags)
  BY FieldTypes DEF Windows, Sound
<1>2. /\ got' = [got EXCEPT ![p] = Append(@, msg)]
      /\ kcb' = [kcb EXCEPT ![p] = told] \/ kcb' = [kcb EXCEPT ![p] = moved]
      /\ net' = net /\ sent' = sent /\ faults' = faults
      /\ Complete(k)
  BY DEF Recv, Taken
<1>3. n \in 1..Len(k.rcvQueue)
  BY <1>1, <1>2, TakenIs DEF Complete
<1> HIDE DEF n
<1>4. Q \in Seq(Frags) /\ Len(Q) <= Len(k.rcvQueue)
  BY <1>1, <1>3
<1>5. msg \in Seq(Datas)
  <2>1. \A j \in 1..n : k.rcvQueue[j] \in Frags
    BY <1>1, <1>3
  <2>2. \A j \in 1..n : k.rcvQueue[j].data \in Datas
    BY <2>1 DEF Frags
  <2> QED  BY <1>3, <2>2
<1> HIDE DEF Q, k
<1>6. l \in Kcbs /\ SendSound(l) /\ RecvSound(l)
  <2>1. /\ l \in Kcbs
        /\ l.sndBuf = k.sndBuf /\ l.sndUna = k.sndUna /\ l.sndNxt = k.sndNxt
        /\ l.rcvBuf = k.rcvBuf /\ l.rcvNxt = k.rcvNxt /\ l.rcvQueue = Q
    BY <1>1, <1>4 DEF Kcbs
  <2> HIDE DEF l
  <2>2. Len(Q) <= RcvWindow
    <3>1. Len(k.rcvQueue) <= RcvWindow /\ Len(k.rcvQueue) \in Nat /\ Len(Q) \in Nat
      BY <1>1, <1>4 DEF RecvSound
    <3> QED  BY <1>4, <3>1, Constants
  <2>3. RecvSound(l)
    BY <1>1, <2>1, <2>2 DEF RecvSound
  <2> QED  BY <1>1, <2>1, <2>3, SendFewer
<1> HIDE DEF l
<1>7. moved \in Sound
  BY <1>6, MoveSound
<1> HIDE DEF moved
<1>8. told \in Sound
  <2>1. moved \in Kcbs
    BY <1>7 DEF Sound
  <2>2. moved.probe \cup {"tell"} \in SUBSET {"ask", "tell"}
    BY <2>1, FieldTypes
  <2>3. /\ told \in Kcbs
        /\ told.sndBuf = moved.sndBuf /\ told.sndUna = moved.sndUna /\ told.sndNxt = moved.sndNxt
        /\ told.rcvBuf = moved.rcvBuf /\ told.rcvNxt = moved.rcvNxt
        /\ told.rcvQueue = moved.rcvQueue
    BY <2>1, <2>2 DEF Kcbs
  <2> HIDE DEF told
  <2> QED  BY <1>7, <2>3, OtherFields
<1> HIDE DEF told, msg
<1>9. kcb' \in [Peers -> Sound]
  BY <1>2, <1>7, <1>8 DEF Windows
<1>10. got' \in [Peers -> Seq(Seq(Datas))]
  <2>1. Append(got[p], msg) \in Seq(Seq(Datas))
    BY <1>5 DEF Windows
  <2> QED  BY <1>2, <2>1 DEF Windows
<1> QED  BY <1>2, <1>9, <1>10 DEF Windows

\* The network only drops, repeats and moves what is on the way.
LEMMA FaultTypes ==
  ASSUME NEW B, NEW d \in Seq(B), NEW i \in DOMAIN d
  PROVE  RemoveAt(d, i) \in Seq(B) /\ Append(d, d[i]) \in Seq(B)
         /\ <<d[i]>> \o RemoveAt(d, i) \in Seq(B)
<1>1. i \in 1..Len(d) /\ Len(d) \in Nat /\ d[i] \in B
  OBVIOUS
<1>2. SubSeq(d, 1, i - 1) \in Seq(B) /\ SubSeq(d, i + 1, Len(d)) \in Seq(B)
  BY <1>1
<1>3. RemoveAt(d, i) \in Seq(B)
  BY <1>2 DEF RemoveAt
<1>4. <<d[i]>> \in Seq(B)
  BY <1>1
<1> QED  BY <1>1, <1>3, <1>4

LEMMA FaultWindows ==
  ASSUME Windows, NEW p \in Peers, Lose(p) \/ Duplicate(p) \/ Overtake(p)
  PROVE  Windows'
<1> DEFINE d == net[p]
<1>1. d \in Seq(Seq(NetSegs))
  BY DEF Windows
<1>2. \E e \in Seq(Seq(NetSegs)) : net' = [net EXCEPT ![p] = e]
  <2>1. CASE Lose(p)
    <3>1. PICK i \in DOMAIN d : net' = [net EXCEPT ![p] = RemoveAt(d, i)]
      BY <2>1 DEF Lose
    <3> HIDE DEF d
    <3> QED  BY <1>1, <3>1, FaultTypes
  <2>2. CASE Duplicate(p)
    <3>1. PICK i \in DOMAIN d : net' = [net EXCEPT ![p] = Append(d, d[i])]
      BY <2>2 DEF Duplicate
    <3> HIDE DEF d
    <3> QED  BY <1>1, <3>1, FaultTypes
  <2>3. CASE Overtake(p)
    <3>1. PICK i \in 2..Len(d) : net' = [net EXCEPT ![p] = <<d[i]>> \o RemoveAt(d, i)]
      BY <2>3 DEF Overtake
    <3> HIDE DEF d
    <3>2. i \in DOMAIN d
      BY <1>1
    <3> QED  BY <1>1, <3>1, <3>2, FaultTypes
  <2> QED  BY <2>1, <2>2, <2>3
<1>3. net' \in [Peers -> Seq(Seq(NetSegs))]
  BY <1>2 DEF Windows
<1>4. faults < MaxFaults /\ faults' = faults + 1 /\ kcb' = kcb /\ sent' = sent /\ got' = got
  BY DEF Lose, Duplicate, Overtake, Fault
<1>5. faults' \in 0..MaxFaults
  <2>1. faults \in 0..MaxFaults /\ MaxFaults \in Nat
    BY KcpAssumption DEF Windows
  <2> QED  BY <1>4, <2>1
<1> QED  BY <1>3, <1>4, <1>5 DEF Windows

LEMMA WindowsStep ==
  ASSUME Windows, [Next]_vars
  PROVE  Windows'
<1>1. CASE Next
  <2>1. PICK p \in Peers :
          \/ \E n \in Lens : SendMsg(p, n)
          \/ Input(p) \/ Update(p) \/ Recv(p)
          \/ Expire(p) \/ ProbeExpire(p)
          \/ Lose(p) \/ Duplicate(p) \/ Overtake(p)
    BY <1>1 DEF Next
  <2> QED  BY <2>1, SendMsgWindows, InputWindows, UpdateWindows, RecvWindows, ExpireWindows,
              ProbeExpireWindows, FaultWindows
<1>2. CASE UNCHANGED vars
  BY <1>2 DEF Windows, vars
<1> QED  BY <1>1, <1>2

\* Numbers that occur once are as many as their segments.
LEMMA NumbersCount ==
  ASSUME NEW S, IsFiniteSet(S), \A s, t \in S : s.sn = t.sn => s = t
  PROVE  Cardinality({s.sn : s \in S}) = Cardinality(S)
<1> DEFINE T == {s.sn : s \in S}
           f == [s \in S |-> s.sn]
<1>1. f \in Bijection(S, T)
  BY DEF Bijection, Injection, Surjection, IsInjective
<1> HIDE DEF T, f
<1>2. ExistsBijection(S, T)
  BY <1>1 DEF ExistsBijection
<1>3. Cardinality(T) = Cardinality(S)
  BY <1>2, FS_Bijection
<1> QED  BY <1>3 DEF T

LEMMA WindowsImply == Windows => WindowsHold /\ TypeOK
<1> SUFFICES ASSUME Windows PROVE WindowsHold /\ TypeOK
  OBVIOUS
<1>1. ASSUME NEW p \in Peers
      PROVE  kcb[p] \in Kcbs /\ SendSound(kcb[p]) /\ RecvSound(kcb[p])
  BY DEF Windows, Sound
<1>2. WindowsHold
  <2>1. ASSUME NEW p \in Peers
        PROVE  Cardinality({s.sn : s \in kcb[p].rcvBuf}) = Cardinality(kcb[p].rcvBuf)
    <3> DEFINE B == kcb[p].rcvBuf
    <3>1. IsFiniteSet(B) /\ \A s, t \in B : s.sn = t.sn => s = t
      BY <1>1 DEF RecvSound
    <3> HIDE DEF B
    <3>2. Cardinality({s.sn : s \in B}) = Cardinality(B)
      BY <3>1, NumbersCount
    <3> QED  BY <3>2 DEF B
  <2> QED  BY <1>1, <2>1 DEF WindowsHold, SendSound, RecvSound
<1>3. TypeOK
  BY <1>1, FieldTypes DEF TypeOK, SndSegs, RcvSegs, Windows
<1> QED  BY <1>2, <1>3

\* The control blocks keep their types, and the windows hold: whatever is lost,
\* duplicated or overtaken, and whenever the application reads, rcv_queue and
\* rcv_buf never outgrow the receive window, nor snd_buf the send window.
THEOREM KcpWindows == Spec => [](WindowsHold /\ TypeOK)
<1>1. Init => Windows
  BY WindowsInit
<1>2. Windows /\ [Next]_vars => Windows'
  BY WindowsStep
<1>3. Windows => WindowsHold /\ TypeOK
  BY WindowsImply
<1> QED  BY <1>1, <1>2, <1>3, PTL DEF Spec
-----------------------------------------------------------------------------
(* The stream: a message is cut into fragments, and the fragment at offset x *)
(* of the stream travels under the number x after the first.                 *)

\* A connection sends less than half as many segments as there are numbers, which
\* is as far as _itimediff can tell an old number from a new one.  They may pass
\* 2^32 on the way.  With the program's IKCP_WND_RCV of 128, sixteen million
\* messages of the greatest size are fewer.
UsesLessThanHalf == \A p \in Peers : MaxMsgs[p] * (WndRcv - 1) < Half

Off(sn) == Diff(sn, FirstSn)

Streams == {F \in Seq(Frags) : Len(F) < Half}

\* The segment holds the fragment its number stands for.
Carries(F, s) ==
  /\ Off(s.sn) \in 0..(Len(F) - 1)
  /\ F[Off(s.sn) + 1] = [data |-> s.data, frg |-> s.frg]

\* The offsets a receiver has had.
Arrived(k) == {x \in Nat : x < Off(k.rcvNxt) \/ \E s \in k.rcvBuf : Off(s.sn) = x}

\* The sender holds what is to come of its stream F, and what has left and is
\* not in A, where the receiver has it.
Sending(F, A, k) ==
  /\ Off(k.sndNxt) \in 0..Len(F)
  /\ k.sndQueue = SubSeq(F, Off(k.sndNxt) + 1, Len(F))
  /\ \A s \in k.sndBuf : Carries(F, s)
  /\ \A x \in 0..(Off(k.sndNxt) - 1) : x \in A \/ \E s \in k.sndBuf : Off(s.sn) = x

\* The receiver holds stream F from offset D on, where the application stopped.
Receiving(F, D, k) ==
  /\ Off(k.rcvNxt) \in D..Len(F)
  /\ k.rcvQueue = SubSeq(F, D + 1, Off(k.rcvNxt))
  /\ \A s \in k.rcvBuf : Carries(F, s)

\* Only what has arrived is acknowledged.
Acked(k) == \A j \in DOMAIN k.ackList : Off(k.ackList[j]) \in Arrived(k)

\* On the way to the sender of a stream of which A has arrived: true
\* acknowledgments, and data of the stream G its peer sends.
TrueSegs(A, G) ==
  {s \in NetSegs : /\ s.cmd = "push" => Carries(G, s)
                   /\ s.cmd = "ack" => Off(s.sn) \in A
                   /\ Off(s.una) >= 0
                   /\ \A x \in 0..(Off(s.una) - 1) : x \in A}

LEMMA OffDiff ==
  ASSUME NEW a \in Sns, NEW b \in Sns, Off(a) >= 0, Off(b) >= 0
  PROVE  /\ Off(a) \in 0..(Half - 1) /\ Off(b) \in 0..(Half - 1)
         /\ Diff(a, b) = Off(a) - Off(b)
<1> DEFINE x == Off(a)
           y == Off(b)
<1>1. FirstSn \in Sns
  BY Constants
<1>2. x \in (Half - SnMod)..(Half - 1) /\ y \in (Half - SnMod)..(Half - 1)
  BY <1>1, DiffIs DEF Off
<1>3. x >= 0 /\ y >= 0
  OBVIOUS
<1>4. x - y \in (Half - SnMod)..(Half - 1) => Diff(a, b) = x - y
  BY <1>1, DiffSub DEF Off
<1> HIDE DEF x, y
<1>5. x - y \in (Half - SnMod)..(Half - 1)
  BY <1>2, <1>3, Constants
<1>6. x \in 0..(Half - 1) /\ y \in 0..(Half - 1)
  BY <1>2, <1>3, Constants
<1> QED  BY <1>4, <1>5, <1>6 DEF x, y

LEMMA OffPlus ==
  ASSUME NEW a \in Sns, NEW n \in 0..(Half - 1), Off(a) + n < Half
  PROVE  Off(Plus(a, n)) = Off(a) + n
<1>1. FirstSn \in Sns
  BY Constants
<1> QED  BY <1>1, DiffPlus DEF Off

LEMMA SameSeq ==
  ASSUME NEW B, NEW L \in Seq(B), NEW R \in Seq(B), NEW n \in Nat, Len(L) = n, Len(R) = n,
         \A j \in 1..n : L[j] = R[j]
  PROVE  L = R
OBVIOUS

LEMMA SubSeqRest ==
  ASSUME NEW B, NEW F \in Seq(B), NEW lo \in 0..Len(F), NEW hi \in lo..Len(F),
         NEW n \in 0..(hi - lo), NEW Q, Q = SubSeq(F, lo + 1, hi)
  PROVE  /\ Len(Q) = hi - lo /\ Q \in Seq(B)
         /\ \A j \in 1..(hi - lo) : Q[j] = F[lo + j]
         /\ SubSeq(Q, n + 1, Len(Q)) = SubSeq(F, (lo + n) + 1, hi)
<1>1. Len(F) \in Nat /\ lo \in Nat /\ hi \in Nat /\ n \in Nat /\ hi <= Len(F) /\ lo <= hi /\ n <= hi - lo
  OBVIOUS
<1>2. /\ Len(Q) = hi - lo /\ Q \in Seq(B)
      /\ \A j \in 1..(hi - lo) : Q[j] = F[lo + j]
  BY <1>1
<1> DEFINE L == SubSeq(Q, n + 1, hi - lo)
           R == SubSeq(F, (lo + n) + 1, hi)
<1>3. /\ L \in Seq(B) /\ Len(L) = (hi - lo) - n
      /\ \A j \in 1..((hi - lo) - n) : L[j] = Q[n + j]
  BY <1>1, <1>2
<1>4. /\ R \in Seq(B) /\ Len(R) = hi - (lo + n)
      /\ \A j \in 1..(hi - (lo + n)) : R[j] = F[(lo + n) + j]
  BY <1>1
<1>5. \A j \in 1..((hi - lo) - n) : n + j \in 1..(hi - lo) /\ lo + (n + j) = (lo + n) + j
  BY <1>1
<1> HIDE DEF L, R
<1>6. ASSUME NEW j \in 1..((hi - lo) - n) PROVE L[j] = R[j]
  <2>1. L[j] = Q[n + j] /\ Q[n + j] = F[lo + (n + j)]
    BY <1>2, <1>3, <1>5
  <2>2. j \in 1..(hi - (lo + n))
    BY <1>1
  <2>3. R[j] = F[(lo + n) + j]
    BY <1>4, <2>2
  <2> QED  BY <1>5, <2>1, <2>3
<1>7. L = R
  <2>1. (hi - lo) - n \in Nat /\ (hi - lo) - n = hi - (lo + n)
    BY <1>1
  <2> QED  BY <1>3, <1>4, <1>6, <2>1, SameSeq
<1> QED  BY <1>2, <1>7 DEF L, R

LEMMA SubSeqMore ==
  ASSUME NEW B, NEW F \in Seq(B), NEW lo \in 0..Len(F), NEW hi \in lo..Len(F),
         NEW n \in Nat, NEW e \in Seq(B), Len(e) = n, hi + n <= Len(F),
         \A j \in 1..n : e[j] = F[hi + j]
  PROVE  SubSeq(F, lo + 1, hi) \o e = SubSeq(F, lo + 1, hi + n)
<1>1. Len(F) \in Nat /\ lo \in Nat /\ hi \in Nat /\ hi <= Len(F) /\ lo <= hi
  OBVIOUS
<1> DEFINE Q == SubSeq(F, lo + 1, hi)
           L == Q \o e
           R == SubSeq(F, lo + 1, hi + n)
<1>2. Q \in Seq(B) /\ Len(Q) = hi - lo /\ \A j \in 1..(hi - lo) : Q[j] = F[lo + j]
  BY <1>1
<1>3. R \in Seq(B) /\ Len(R) = (hi + n) - lo /\ \A j \in 1..((hi + n) - lo) : R[j] = F[lo + j]
  BY <1>1
<1> HIDE DEF Q, R
<1>4. /\ L \in Seq(B) /\ Len(L) = (hi - lo) + n
      /\ \A j \in 1..(hi - lo) : L[j] = Q[j]
      /\ \A j \in 1..n : L[(hi - lo) + j] = e[j]
  <2>1. /\ L \in Seq(B) /\ Len(L) = Len(Q) + Len(e)
        /\ \A j \in 1..Len(Q) : L[j] = Q[j]
        /\ \A j \in 1..Len(e) : L[Len(Q) + j] = e[j]
    <3>1. Q \in Seq(B) /\ e \in Seq(B)
      BY <1>2
    <3> QED  BY ONLY <3>1 DEF L
  <2> QED  BY <1>2, <2>1
<1> HIDE DEF L
<1>5. ASSUME NEW j \in 1..((hi + n) - lo) PROVE L[j] = F[lo + j]
  <2>1. CASE j <= hi - lo
    BY <1>1, <1>2, <1>4, <2>1
  <2>2. CASE j > hi - lo
    <3>1. j - (hi - lo) \in 1..n /\ (hi - lo) + (j - (hi - lo)) = j /\ hi + (j - (hi - lo)) = lo + j
      BY <1>1, <2>2
    <3> QED  BY <1>4, <3>1
  <2> QED  BY <1>1, <2>1, <2>2
<1>6. L = R
  BY <1>1, <1>3, <1>4, <1>5
<1> QED  BY <1>6 DEF L, R, Q

LEMMA SubSeqGrow ==
  ASSUME NEW B, NEW F \in Seq(B), NEW e \in Seq(B), NEW lo \in 0..Len(F), NEW hi \in lo..Len(F)
  PROVE  /\ SubSeq(F \o e, lo + 1, hi) = SubSeq(F, lo + 1, hi)
         /\ SubSeq(F, lo + 1, Len(F)) \o e = SubSeq(F \o e, lo + 1, Len(F) + Len(e))
<1> DEFINE G == F \o e
<1>1. /\ Len(F) \in Nat /\ Len(e) \in Nat /\ lo \in Nat /\ hi \in Nat /\ hi <= Len(F) /\ lo <= hi
      /\ lo <= Len(F)
  OBVIOUS
<1>2. /\ G \in Seq(B) /\ Len(G) = Len(F) + Len(e)
      /\ \A j \in 1..Len(F) : G[j] = F[j]
      /\ \A j \in 1..Len(e) : G[Len(F) + j] = e[j]
  OBVIOUS
<1> HIDE DEF G
<1>3. ASSUME NEW h \in lo..Len(F) PROVE SubSeq(G, lo + 1, h) = SubSeq(F, lo + 1, h)
  <2> DEFINE L == SubSeq(G, lo + 1, h)
             R == SubSeq(F, lo + 1, h)
  <2>1. L \in Seq(B) /\ Len(L) = h - lo /\ \A j \in 1..(h - lo) : L[j] = G[lo + j]
    BY <1>1, <1>2
  <2>2. R \in Seq(B) /\ Len(R) = h - lo /\ \A j \in 1..(h - lo) : R[j] = F[lo + j]
    BY <1>1
  <2> HIDE DEF L, R
  <2>3. \A j \in 1..(h - lo) : L[j] = R[j]
    <3>1. \A j \in 1..(h - lo) : lo + j \in 1..Len(F)
      BY <1>1
    <3> QED  BY <1>2, <2>1, <2>2, <3>1
  <2>4. L = R
    BY <1>1, <2>1, <2>2, <2>3
  <2> QED  BY <2>4 DEF L, R
<1>4. SubSeq(G, lo + 1, Len(F)) \o e = SubSeq(G, lo + 1, Len(F) + Len(e))
  <2>1. lo \in 0..Len(G) /\ Len(F) \in lo..Len(G) /\ Len(F) + Len(e) <= Len(G)
    BY <1>1, <1>2
  <2> QED  BY <1>1, <1>2, <2>1, SubSeqMore
<1>5. Len(F) \in lo..Len(F)
  BY <1>1
<1> QED  BY <1>3, <1>4, <1>5 DEF G

-----------------------------------------------------------------------------
(* The stream in ikcp_input and ikcp_recv, the receiver's side. *)

\* The fields of the sender's side, and those that are not the receiver's window.
SameSend(k, l) == l.sndQueue = k.sndQueue /\ l.sndBuf = k.sndBuf /\ l.sndNxt = k.sndNxt

SameRecv(k, l) == l.rcvQueue = k.rcvQueue /\ l.rcvBuf = k.rcvBuf /\ l.rcvNxt = k.rcvNxt

LEMMA ReceivingSame ==
  ASSUME NEW k, NEW l, SameRecv(k, l), NEW F, NEW D
  PROVE  /\ Receiving(F, D, l) = Receiving(F, D, k)
         /\ Arrived(l) = Arrived(k)
BY DEF SameRecv, Receiving, Arrived

LEMMA SegOffs ==
  ASSUME NEW F \in Streams, NEW s, s.sn \in Sns, Carries(F, s)
  PROVE  Off(s.sn) \in 0..(Len(F) - 1) /\ Off(s.sn) \in 0..(Half - 1)
<1>1. Len(F) \in Nat /\ Len(F) < Half /\ Half \in Nat
  BY Constants DEF Streams
<1> DEFINE x == Off(s.sn)
<1>2. x \in 0..(Len(F) - 1)
  BY DEF Carries
<1> HIDE DEF x
<1>3. x \in 0..(Half - 1)
  BY <1>1, <1>2
<1> QED  BY <1>2, <1>3 DEF x

\* What moves to rcv_queue is what comes next in the stream.
LEMMA MoveReceives ==
  ASSUME NEW k \in Kcbs, IsFiniteSet(k.rcvBuf), Len(k.rcvQueue) <= RcvWindow,
         NEW F \in Streams, NEW D \in Nat, Receiving(F, D, k)
  PROVE  /\ Receiving(F, D, MoveAvailable(k))
         /\ Arrived(k) \subseteq Arrived(MoveAvailable(k))
         /\ SameSend(k, MoveAvailable(k)) /\ MoveAvailable(k).ackList = k.ackList
<1>1. PICK n \in Nat : \E f \in [1..n -> k.rcvBuf] : Moved(k, n, f)
  BY MoveSpec
<1>2. PICK f \in [1..n -> k.rcvBuf] : Moved(k, n, f)
  BY <1>1
<1> DEFINE B == k.rcvBuf \ {f[j] : j \in 1..n}
           add == [j \in 1..n |-> [data |-> f[j].data, frg |-> f[j].frg]]
           Q == k.rcvQueue \o add
           nxt == Plus(k.rcvNxt, n)
           l == [k EXCEPT !.rcvBuf = B, !.rcvQueue = Q, !.rcvNxt = nxt]
           R == Off(k.rcvNxt)
<1>3. l = MoveAvailable(k) /\ Len(k.rcvQueue) + n <= RcvWindow
      /\ \A j \in 1..n : f[j].sn = Plus(k.rcvNxt, j - 1)
  BY <1>2 DEF Moved
<1>4. /\ k.rcvQueue \in Seq(Frags) /\ k.rcvBuf \in SUBSET RcvSegs /\ k.rcvNxt \in Sns
      /\ Len(k.rcvQueue) \in Nat
  BY FieldTypes
<1>5. n \in 0..RcvWindow /\ n \in 0..(Half - 1)
  BY <1>3, <1>4, Constants
<1>6. R \in D..Len(F) /\ R \in Nat /\ Len(F) \in Nat /\ Len(F) < Half /\ F \in Seq(Frags)
  BY DEF Receiving, Streams
<1>7. ASSUME NEW j \in 1..n
      PROVE  /\ f[j] \in k.rcvBuf /\ f[j] \in RcvSegs /\ Carries(F, f[j])
             /\ Off(f[j].sn) = R + (j - 1) /\ R + j \in 1..Len(F)
  <2>1. f[j] \in k.rcvBuf /\ f[j] \in RcvSegs /\ Carries(F, f[j])
    BY <1>4 DEF Receiving
  <2>2. f[j].sn \in Sns
    BY <2>1 DEF RcvSegs
  <2> DEFINE x == Off(f[j].sn)
  <2>3. x \in 0..(Len(F) - 1)
    BY <2>1, <2>2, SegOffs
  <2>4. j - 1 \in 0..(Half - 1)
    BY <1>5, Constants
  <2>5. Diff(f[j].sn, k.rcvNxt) = j - 1
    BY <1>3, <1>4, <2>2, <2>4, PlusOfDiff
  <2>6. x >= 0 /\ R >= 0
    BY <1>6, <2>3
  <2>7. Diff(f[j].sn, k.rcvNxt) = x - R
    BY <1>4, <2>2, <2>6, OffDiff
  <2> HIDE DEF x, R
  <2>8. x = R + (j - 1)
    BY <1>6, <2>3, <2>4, <2>5, <2>7
  <2>9. R + j \in 1..Len(F)
    BY <1>6, <2>3, <2>8, <2>4
  <2> QED  BY <2>1, <2>8, <2>9 DEF x
<1>8. R + n <= Len(F)
  <2>1. CASE n = 0
    BY <2>1, <1>6
  <2>2. CASE n # 0
    <3>1. n \in 1..n
      BY <2>2
    <3> QED  BY <3>1, <1>7
  <2> QED  BY <2>1, <2>2
<1>9. Off(nxt) = R + n
  <2>1. R + n < Half
    <3> HIDE DEF R
    <3> QED  BY <1>6, <1>8, Constants
  <2> QED  BY <2>1, <1>4, <1>5, OffPlus
<1>10. Q = SubSeq(F, D + 1, R + n)
  <2>1. \A j \in 1..n : add[j] = F[R + j]
    <3> TAKE j \in 1..n
    <3>1. F[Off(f[j].sn) + 1] = [data |-> f[j].data, frg |-> f[j].frg]
      BY <1>7 DEF Carries
    <3>2. Off(f[j].sn) + 1 = R + j
      <4> HIDE DEF R
      <4> QED  BY <1>6, <1>7
    <3> QED  BY <3>1, <3>2
  <2>2. add \in Seq(Frags) /\ Len(add) = n
    <3>1. \A j \in 1..n : [data |-> f[j].data, frg |-> f[j].frg] \in Frags
      BY <1>7 DEF RcvSegs, Frags
    <3> QED  BY <3>1
  <2>3. k.rcvQueue = SubSeq(F, D + 1, R)
    BY DEF Receiving
  <2>4. D \in 0..Len(F) /\ R \in D..Len(F)
    <3> HIDE DEF R
    <3> QED  BY <1>6
  <2> HIDE DEF add, R
  <2>5. SubSeq(F, D + 1, R) \o add = SubSeq(F, D + 1, R + n)
    BY <1>6, <1>8, <2>1, <2>2, <2>4, SubSeqMore
  <2> QED  BY <2>3, <2>5
<1>11. /\ l.rcvBuf = B /\ l.rcvQueue = Q /\ l.rcvNxt = nxt
       /\ l.sndBuf = k.sndBuf /\ l.sndQueue = k.sndQueue /\ l.sndNxt = k.sndNxt
       /\ l.ackList = k.ackList
  <2> HIDE DEF B, Q, nxt
  <2> QED  BY DEF Kcbs
<1>12. B \subseteq k.rcvBuf /\ \A s \in k.rcvBuf : s \in B \/ \E j \in 1..n : s = f[j]
  OBVIOUS
<1> HIDE DEF l, B, Q, nxt, add
<1>13. Receiving(F, D, l)
  <2>1. R + n \in D..Len(F)
    <3> HIDE DEF R
    <3> QED  BY <1>6, <1>8
  <2>2. \A s \in l.rcvBuf : Carries(F, s)
    BY <1>11, <1>12 DEF Receiving
  <2> QED  BY <1>9, <1>10, <1>11, <2>1, <2>2 DEF Receiving
<1>14. Arrived(k) \subseteq Arrived(l)
  <2>1. SUFFICES ASSUME NEW x \in Nat, x < R \/ \E s \in k.rcvBuf : Off(s.sn) = x
                 PROVE  x < R + n \/ \E s \in B : Off(s.sn) = x
    BY <1>9, <1>11 DEF Arrived
  <2>2. CASE x < R
    BY <2>2, <1>6
  <2>3. CASE \E s \in k.rcvBuf : Off(s.sn) = x
    <3>1. PICK s \in k.rcvBuf : Off(s.sn) = x
      BY <2>3
    <3>2. CASE \E j \in 1..n : s = f[j]
      <4>1. PICK j \in 1..n : s = f[j]
        BY <3>2
      <4>2. x = R + (j - 1)
        BY <1>7, <3>1, <4>1
      <4> HIDE DEF R
      <4> QED  BY <1>6, <4>2
    <3> QED  BY <3>1, <3>2, <1>12
  <2> QED  BY <2>1, <2>2, <2>3
<1> QED  BY <1>3, <1>11, <1>13, <1>14 DEF SameSend

\* ikcp_parse_data: a segment inside the window has arrived afterwards.
LEMMA ParseDataReceives ==
  ASSUME NEW k \in Sound, NEW s \in NetSegs, NEW F \in Streams, NEW D \in Nat,
         Receiving(F, D, k), Carries(F, s), ~(Diff(s.sn, Plus(k.rcvNxt, RcvWindow)) >= 0)
  PROVE  /\ Receiving(F, D, ParseData(k, s))
         /\ Arrived(k) \cup {Off(s.sn)} \subseteq Arrived(ParseData(k, s))
         /\ SameSend(k, ParseData(k, s)) /\ ParseData(k, s).ackList = k.ackList
<1> DEFINE t == [sn |-> s.sn, frg |-> s.frg, data |-> s.data]
           B == k.rcvBuf \cup {t}
           l == [k EXCEPT !.rcvBuf = B]
           before == Diff(s.sn, k.rcvNxt) < 0
           R == Off(k.rcvNxt)
           x == Off(s.sn)
<1>1. /\ k \in Kcbs /\ RecvSound(k) /\ k.rcvBuf \in SUBSET RcvSegs /\ k.rcvNxt \in Sns
      /\ IsFiniteSet(k.rcvBuf) /\ Len(k.rcvQueue) <= RcvWindow
  BY FieldTypes DEF Sound, RecvSound
<1>2. s.sn \in Sns /\ t \in RcvSegs /\ t.sn = s.sn /\ t.frg = s.frg /\ t.data = s.data
  BY DEF NetSegs, RcvSegs
<1>3. x \in 0..(Half - 1) /\ R \in Nat
  <2>1. R \in D..Len(F) /\ Len(F) \in Nat
    BY DEF Receiving, Streams
  <2>2. R \in Nat
    <3> HIDE DEF R
    <3> QED  BY <2>1
  <2> QED  BY <1>2, <2>2, SegOffs
<1>4. ParseData(k, s) = IF before THEN k
                        ELSE IF \E v \in k.rcvBuf : v.sn = s.sn THEN MoveAvailable(k)
                        ELSE MoveAvailable(l)
  BY DEF ParseData
<1>5. CASE before
  <2>1. ParseData(k, s) = k
    <3> HIDE DEF before, l
    <3> QED  BY <1>4, <1>5
  <2>2. Diff(s.sn, k.rcvNxt) = x - R
    <3>1. x >= 0 /\ R >= 0
      BY <1>3
    <3> QED  BY <1>1, <1>2, <3>1, OffDiff
  <2>3. x < R /\ x \in Nat
    <3>1. x - R < 0
      BY <2>2, <1>5
    <3> HIDE DEF x, R
    <3> QED  BY <1>3, <3>1, Constants
  <2>4. x \in Arrived(k)
    BY <2>3 DEF Arrived
  <2> QED  BY <2>1, <2>4 DEF SameSend
<1>6. CASE ~before /\ \E v \in k.rcvBuf : v.sn = s.sn
  <2>1. ParseData(k, s) = MoveAvailable(k)
    <3> HIDE DEF before, l
    <3> QED  BY <1>4, <1>6
  <2>2. x \in Arrived(k)
    <3>1. x \in Nat
      <4> HIDE DEF x
      <4> QED  BY <1>3, Constants
    <3> QED  BY <1>6, <3>1 DEF Arrived
  <2>3. /\ Receiving(F, D, MoveAvailable(k))
        /\ Arrived(k) \subseteq Arrived(MoveAvailable(k))
        /\ SameSend(k, MoveAvailable(k)) /\ MoveAvailable(k).ackList = k.ackList
    BY <1>1, MoveReceives
  <2> QED  BY <2>1, <2>2, <2>3
<1>7. CASE ~before /\ ~\E v \in k.rcvBuf : v.sn = s.sn
  <2>1. ParseData(k, s) = MoveAvailable(l)
    <3> HIDE DEF before, l
    <3> QED  BY <1>4, <1>7
  <2>2. /\ l \in Kcbs /\ l.rcvBuf = B /\ l.rcvQueue = k.rcvQueue /\ l.rcvNxt = k.rcvNxt
        /\ SameSend(k, l) /\ l.ackList = k.ackList
    <3>1. B \in SUBSET RcvSegs
      BY <1>1, <1>2
    <3> HIDE DEF B
    <3> QED  BY <1>1, <3>1 DEF Kcbs, SameSend
  <2>3. IsFiniteSet(B)
    <3> HIDE DEF t
    <3> QED  BY <1>1, FS_AddElement
  <2>4. k.rcvBuf \subseteq B /\ t \in B /\ \A v \in B : v \in k.rcvBuf \/ v = t
    OBVIOUS
  <2>5. Carries(F, t)
    BY <1>2 DEF Carries
  <2> HIDE DEF l, B
  <2>6. Receiving(F, D, l)
    BY <2>2, <2>4, <2>5 DEF Receiving
  <2>7. Arrived(k) \cup {x} \subseteq Arrived(l)
    <3>1. x \in Nat
      <4> HIDE DEF x
      <4> QED  BY <1>3, Constants
    <3>2. Off(t.sn) = x
      BY <1>2
    <3> HIDE DEF t
    <3> QED  BY <2>2, <2>4, <3>1, <3>2 DEF Arrived
  <2>8. /\ Receiving(F, D, MoveAvailable(l))
        /\ Arrived(l) \subseteq Arrived(MoveAvailable(l))
        /\ SameSend(l, MoveAvailable(l)) /\ MoveAvailable(l).ackList = l.ackList
    BY <1>1, <2>2, <2>3, <2>6, MoveReceives
  <2> QED  BY <2>1, <2>2, <2>7, <2>8 DEF SameSend
<1> QED  BY <1>5, <1>6, <1>7

LEMMA AckedGrows ==
  ASSUME NEW k, NEW l, Acked(k), l.ackList = k.ackList, Arrived(k) \subseteq Arrived(l)
  PROVE  Acked(l)
BY DEF Acked

\* IKCP_CMD_PUSH: what is acknowledged has arrived.
LEMMA InputPushReceives ==
  ASSUME NEW k \in Sound, NEW s \in NetSegs, NEW F \in Streams, NEW D \in Nat,
         Receiving(F, D, k), Acked(k), Carries(F, s)
  PROVE  /\ Receiving(F, D, InputPush(k, s)) /\ Acked(InputPush(k, s))
         /\ Arrived(k) \subseteq Arrived(InputPush(k, s))
         /\ SameSend(k, InputPush(k, s))
<1> DEFINE a == Append(k.ackList, s.sn)
           l == [k EXCEPT !.ackList = a]
           beyond == Diff(s.sn, Plus(k.rcvNxt, RcvWindow)) >= 0
<1>1. k \in Kcbs /\ k.ackList \in Seq(Sns) /\ s.sn \in Sns
  BY FieldTypes DEF Sound, NetSegs
<1>2. InputPush(k, s) = IF beyond THEN k ELSE ParseData(l, s)
  BY DEF InputPush
<1>3. CASE beyond
  <2>1. InputPush(k, s) = k
    <3> HIDE DEF beyond, l
    <3> QED  BY <1>2, <1>3
  <2> QED  BY <2>1 DEF SameSend
<1>4. CASE ~beyond
  <2>1. InputPush(k, s) = ParseData(l, s)
    <3> HIDE DEF beyond, l
    <3> QED  BY <1>2, <1>4
  <2>2. a \in Seq(Sns) /\ Len(a) = Len(k.ackList) + 1 /\ Len(k.ackList) \in Nat
        /\ \A j \in DOMAIN a : (j \in DOMAIN k.ackList /\ a[j] = k.ackList[j]) \/ a[j] = s.sn
    BY <1>1
  <2>3. /\ l \in Kcbs /\ l.ackList = a /\ SameSend(k, l) /\ SameRecv(k, l) /\ l.sndUna = k.sndUna
    <3> HIDE DEF a
    <3> QED  BY <1>1, <2>2 DEF Kcbs, SameSend, SameRecv
  <2> HIDE DEF l, a
  <2>4. l \in Sound
    BY <2>3, OtherFields DEF SameSend, SameRecv
  <2>5. Receiving(F, D, l) /\ Arrived(l) = Arrived(k)
    BY <2>3, ReceivingSame
  <2>6. ~(Diff(s.sn, Plus(l.rcvNxt, RcvWindow)) >= 0)
    BY <1>4, <2>3 DEF SameRecv
  <2> DEFINE m == ParseData(l, s)
  <2>7. /\ Receiving(F, D, m) /\ Arrived(l) \cup {Off(s.sn)} \subseteq Arrived(m)
        /\ SameSend(l, m) /\ m.ackList = l.ackList
    BY <2>4, <2>5, <2>6, ParseDataReceives
  <2> HIDE DEF m
  <2>8. Acked(m)
    BY <2>2, <2>3, <2>5, <2>7 DEF Acked
  <2>9. SameSend(k, m)
    BY <2>3, <2>7 DEF SameSend
  <2> QED  BY <2>1, <2>5, <2>7, <2>8, <2>9 DEF m
<1> QED  BY <1>3, <1>4

-----------------------------------------------------------------------------
(* The stream in ikcp_input, the sender's side. *)

SameData(s, t) == s.sn = t.sn /\ s.frg = t.frg /\ s.data = t.data

LEMMA SendingSame ==
  ASSUME NEW k, NEW l, SameSend(k, l), NEW F, NEW A
  PROVE  Sending(F, A, l) = Sending(F, A, k)
BY DEF SameSend, Sending

\* A segment may leave snd_buf when it has arrived.
LEMMA SendingFewer ==
  ASSUME NEW k, NEW l, NEW F, NEW A, Sending(F, A, k),
         l.sndQueue = k.sndQueue, l.sndNxt = k.sndNxt,
         \A s \in l.sndBuf : \E t \in k.sndBuf : SameData(s, t),
         \A t \in k.sndBuf : Off(t.sn) \in A \/ \E s \in l.sndBuf : s.sn = t.sn
  PROVE  Sending(F, A, l)
<1>1. \A s \in l.sndBuf : Carries(F, s)
  BY DEF Sending, SameData, Carries
<1>2. ASSUME NEW x \in 0..(Off(k.sndNxt) - 1)
      PROVE  x \in A \/ \E s \in l.sndBuf : Off(s.sn) = x
  <2>1. x \in A \/ \E t \in k.sndBuf : Off(t.sn) = x
    BY DEF Sending
  <2> QED  BY <2>1
<1> QED  BY <1>1, <1>2 DEF Sending

\* More has arrived than was known.
LEMMA SendingMore ==
  ASSUME NEW k, NEW F, NEW A, NEW B, A \subseteq B, Sending(F, A, k)
  PROVE  Sending(F, B, k)
BY DEF Sending

LEMMA ShrinkSends ==
  ASSUME NEW k \in Kcbs
  PROVE  /\ SameSend(k, ShrinkBuf(k)) /\ SameRecv(k, ShrinkBuf(k))
         /\ ShrinkBuf(k).ackList = k.ackList
<1>1. PICK u : ShrinkBuf(k) = [k EXCEPT !.sndUna = u]
  BY Zenon DEF ShrinkBuf
<1> QED  BY <1>1 DEF Kcbs, SameSend, SameRecv

LEMMA BufFields ==
  ASSUME NEW k \in Kcbs, NEW B
  PROVE  LET l == [k EXCEPT !.sndBuf = B] IN
         /\ l.sndBuf = B /\ l.sndQueue = k.sndQueue /\ l.sndNxt = k.sndNxt
         /\ SameRecv(k, l) /\ l.ackList = k.ackList
BY DEF Kcbs, SameRecv

LEMMA ParseUnaSends ==
  ASSUME NEW k \in Sound, NEW una \in Sns, NEW F \in Streams, NEW A, Sending(F, A, k),
         Off(una) >= 0, \A x \in 0..(Off(una) - 1) : x \in A
  PROVE  /\ Sending(F, A, ParseUna(k, una))
         /\ SameRecv(k, ParseUna(k, una)) /\ ParseUna(k, una).ackList = k.ackList
<1> DEFINE B == {s \in k.sndBuf : Diff(una, s.sn) <= 0}
           l == [k EXCEPT !.sndBuf = B]
<1>1. k \in Kcbs /\ k.sndBuf \in SUBSET SndSegs
  BY FieldTypes DEF Sound
<1>2. ParseUna(k, una) = l
  BY DEF ParseUna
<1>3. \A s \in B : \E t \in k.sndBuf : SameData(s, t)
  BY DEF SameData
<1>4. ASSUME NEW t \in k.sndBuf PROVE Off(t.sn) \in A \/ t \in B
  <2> DEFINE x == Off(t.sn)
             y == Off(una)
  <2>1. t.sn \in Sns /\ Carries(F, t)
    BY <1>1 DEF SndSegs, Sending
  <2>2. x \in 0..(Half - 1) /\ y \in 0..(Half - 1)
    <3>1. x \in 0..(Half - 1)
      BY <2>1, SegOffs
    <3> QED  BY <3>1, OffDiff
  <2>3. Diff(una, t.sn) = y - x
    <3>1. x >= 0 /\ y >= 0
      BY <2>2
    <3> QED  BY <2>1, <3>1, OffDiff
  <2>4. \A z \in 0..(y - 1) : z \in A
    OBVIOUS
  <2>5. t \notin B => y - x > 0
    <3>1. t \notin B => ~(y - x <= 0)
      BY <2>3
    <3> HIDE DEF x, y, B
    <3> QED  BY <2>2, <3>1, Constants
  <2> HIDE DEF x, y, B
  <2>6. y - x > 0 => x \in 0..(y - 1)
    BY <2>2, Constants
  <2>7. x \in A \/ t \in B
    BY <2>4, <2>5, <2>6
  <2> QED  BY <2>7 DEF x
<1> HIDE DEF B
<1>5. /\ l.sndBuf = B /\ l.sndQueue = k.sndQueue /\ l.sndNxt = k.sndNxt
      /\ SameRecv(k, l) /\ l.ackList = k.ackList
  BY <1>1, BufFields
<1> HIDE DEF l
<1>6. Sending(F, A, l)
  BY <1>3, <1>4, <1>5, SendingFewer
<1> QED  BY <1>2, <1>5, <1>6

LEMMA ParseAckSends ==
  ASSUME NEW k \in Sound, NEW sn \in Sns, NEW F \in Streams, NEW A, Sending(F, A, k), Off(sn) \in A
  PROVE  /\ Sending(F, A, ParseAck(k, sn))
         /\ SameRecv(k, ParseAck(k, sn)) /\ ParseAck(k, sn).ackList = k.ackList
<1> DEFINE B == {s \in k.sndBuf : s.sn # sn}
           l == [k EXCEPT !.sndBuf = B]
<1>1. k \in Kcbs
  BY DEF Sound
<1>2. ParseAck(k, sn) = l \/ ParseAck(k, sn) = k
  BY DEF ParseAck
<1>3. \A s \in B : \E t \in k.sndBuf : SameData(s, t)
  BY DEF SameData
<1>4. \A t \in k.sndBuf : Off(t.sn) \in A \/ t \in B
  OBVIOUS
<1> HIDE DEF B
<1>5. /\ l.sndBuf = B /\ l.sndQueue = k.sndQueue /\ l.sndNxt = k.sndNxt
      /\ SameRecv(k, l) /\ l.ackList = k.ackList
  BY <1>1, BufFields
<1> HIDE DEF l
<1>6. Sending(F, A, l)
  BY <1>3, <1>4, <1>5, SendingFewer
<1>7. SameRecv(k, k)
  BY DEF SameRecv
<1> QED  BY <1>2, <1>5, <1>6, <1>7

\* Counters of the segments that change leave what they carry.
LEMMA CountersSend ==
  ASSUME NEW k \in Kcbs, NEW f \in [SndSegs -> SndSegs], \A s \in SndSegs : SameData(f[s], s),
         NEW F, NEW A, Sending(F, A, k)
  PROVE  LET l == [k EXCEPT !.sndBuf = {f[s] : s \in k.sndBuf}] IN
         Sending(F, A, l) /\ SameRecv(k, l) /\ l.ackList = k.ackList
<1> DEFINE B == {f[s] : s \in k.sndBuf}
           l == [k EXCEPT !.sndBuf = B]
<1>1. k.sndBuf \in SUBSET SndSegs
  BY FieldTypes
<1>2. \A s \in B : \E t \in k.sndBuf : SameData(s, t)
  BY <1>1
<1>3. \A t \in k.sndBuf : \E s \in B : s.sn = t.sn
  BY <1>1 DEF SameData
<1> HIDE DEF B
<1>4. /\ l.sndBuf = B /\ l.sndQueue = k.sndQueue /\ l.sndNxt = k.sndNxt
      /\ SameRecv(k, l) /\ l.ackList = k.ackList
  BY BufFields
<1> HIDE DEF l
<1>5. Sending(F, A, l)
  BY <1>2, <1>3, <1>4, SendingFewer
<1> QED  BY <1>4, <1>5 DEF l, B

LEMMA ParseFastackSends ==
  ASSUME NEW k \in Sound, NEW sn, NEW F, NEW A, Sending(F, A, k)
  PROVE  /\ Sending(F, A, ParseFastack(k, sn))
         /\ SameRecv(k, ParseFastack(k, sn)) /\ ParseFastack(k, sn).ackList = k.ackList
<1> DEFINE Up(s) == IF Diff(sn, s.sn) > 0 /\ s.fastack < FastResend
                      THEN [s EXCEPT !.fastack = @ + 1] ELSE s
           f == [s \in SndSegs |-> Up(s)]
           l == [k EXCEPT !.sndBuf = {f[s] : s \in k.sndBuf}]
<1>1. k \in Kcbs /\ k.sndBuf \in SUBSET SndSegs
  BY FieldTypes DEF Sound
<1>2. ASSUME NEW s \in SndSegs PROVE Up(s) \in SndSegs /\ SameData(Up(s), s)
  <2>1. s.fastack \in 0..FastResend /\ FastResend \in Nat
    BY KcpAssumption DEF SndSegs
  <2>2. s.fastack < FastResend => s.fastack + 1 \in 0..FastResend
    BY <2>1
  <2> QED  BY <2>2 DEF SndSegs, SameData
<1> HIDE DEF Up
<1>3. f \in [SndSegs -> SndSegs] /\ \A s \in SndSegs : SameData(f[s], s)
  BY <1>2
<1>4. {Up(s) : s \in k.sndBuf} = {f[s] : s \in k.sndBuf}
  BY <1>1
<1>5. ParseFastack(k, sn) = l \/ ParseFastack(k, sn) = k
  <2>1. ParseFastack(k, sn) = [k EXCEPT !.sndBuf = {Up(s) : s \in k.sndBuf}] \/ ParseFastack(k, sn) = k
    BY DEF ParseFastack, Up
  <2> HIDE DEF f
  <2> QED  BY <2>1, <1>4
<1> HIDE DEF f
<1>6. Sending(F, A, l) /\ SameRecv(k, l) /\ l.ackList = k.ackList
  BY <1>1, <1>3, CountersSend
<1>7. SameRecv(k, k)
  BY DEF SameRecv
<1> HIDE DEF l
<1> QED  BY <1>5, <1>6, <1>7
-----------------------------------------------------------------------------
(* ikcp_input *)

\* Control blocks that send stream F, of which A has arrived, and receive
\* stream G from offset D on, of which B had arrived.
Blocks(F, A, G, D, B) ==
  {k \in Sound : Sending(F, A, k) /\ Receiving(G, D, k) /\ Acked(k) /\ B \subseteq Arrived(k)}

LEMMA BlocksSend ==
  ASSUME NEW F, NEW A, NEW G, NEW D, NEW B, NEW k \in Blocks(F, A, G, D, B),
         NEW l \in Sound, Sending(F, A, l), SameRecv(k, l), l.ackList = k.ackList
  PROVE  l \in Blocks(F, A, G, D, B)
<1>1. Receiving(G, D, l) = Receiving(G, D, k) /\ Arrived(l) = Arrived(k)
  BY ReceivingSame
<1>2. Acked(l)
  BY <1>1 DEF Acked, Blocks
<1> QED  BY <1>1, <1>2 DEF Blocks

LEMMA InputSegFlows ==
  ASSUME NEW F \in Streams, NEW A, NEW G \in Streams, NEW D \in Nat, NEW B,
         NEW k0 \in Blocks(F, A, G, D, B), NEW s \in TrueSegs(A, G)
  PROVE  InputSeg(k0, s) \in Blocks(F, A, G, D, B)
<1> DEFINE Good == Blocks(F, A, G, D, B)
           w == [k0 EXCEPT !.rmtWnd = s.wnd]
           v == ParseUna(w, s.una)
           k == ShrinkBuf(v)
           a == ParseAck(k, s.sn)
           p == [k EXCEPT !.probe = @ \cup {"tell"}]
<1>1. k0 \in Sound /\ k0 \in Kcbs /\ s \in NetSegs
      /\ s.wnd \in 0..RcvWindow /\ s.una \in Sns /\ s.sn \in Sns /\ s.cmd \in Commands
  BY DEF Blocks, Sound, NetSegs, TrueSegs
<1>2. w \in Good
  <2>1. /\ w \in Kcbs
        /\ w.sndBuf = k0.sndBuf /\ w.sndUna = k0.sndUna /\ w.sndNxt = k0.sndNxt
        /\ w.rcvBuf = k0.rcvBuf /\ w.rcvNxt = k0.rcvNxt /\ w.rcvQueue = k0.rcvQueue
        /\ w.sndQueue = k0.sndQueue /\ w.ackList = k0.ackList
    BY <1>1 DEF Kcbs
  <2> HIDE DEF w
  <2>2. w \in Sound
    BY <1>1, <2>1, OtherFields
  <2>3. SameSend(k0, w) /\ SameRecv(k0, w)
    BY <2>1 DEF SameSend, SameRecv
  <2>4. Sending(F, A, w)
    BY <2>3, SendingSame DEF Blocks
  <2> QED  BY <2>1, <2>2, <2>3, <2>4, BlocksSend
<1> HIDE DEF w
<1>3. v \in Good
  <2>1. w \in Sound /\ Sending(F, A, w)
    BY <1>2 DEF Blocks
  <2>2. v \in Sound
    BY <2>1, ParseUnaSound
  <2>3. Off(s.una) >= 0 /\ \A x \in 0..(Off(s.una) - 1) : x \in A
    BY DEF TrueSegs
  <2>4. Sending(F, A, v) /\ SameRecv(w, v) /\ v.ackList = w.ackList
    BY <1>1, <2>1, <2>3, ParseUnaSends
  <2> HIDE DEF v
  <2> QED  BY <1>2, <2>2, <2>4, BlocksSend
<1> HIDE DEF v
<1>4. ASSUME NEW c \in Good PROVE ShrinkBuf(c) \in Good
  <2>1. c \in Sound /\ c \in Kcbs /\ Sending(F, A, c)
    BY DEF Blocks, Sound
  <2>2. ShrinkBuf(c) \in Sound
    BY <2>1, ShrinkSound
  <2>3. SameSend(c, ShrinkBuf(c)) /\ SameRecv(c, ShrinkBuf(c)) /\ ShrinkBuf(c).ackList = c.ackList
    BY <2>1, ShrinkSends
  <2>4. Sending(F, A, ShrinkBuf(c))
    BY <2>1, <2>3, SendingSame
  <2> QED  BY <2>2, <2>3, <2>4, BlocksSend
<1>5. k \in Good
  BY <1>3, <1>4
<1>6. InputSeg(k0, s) = CASE s.cmd = "ack"  -> ShrinkBuf(a)
                          [] s.cmd = "push" -> InputPush(k, s)
                          [] s.cmd = "wask" -> p
                          [] s.cmd = "wins" -> k
  BY DEF InputSeg, w, v
<1> HIDE DEF k
<1>7. /\ k \in Sound /\ k \in Kcbs /\ Sending(F, A, k) /\ Receiving(G, D, k)
      /\ Acked(k) /\ B \subseteq Arrived(k)
  BY <1>5 DEF Blocks, Sound
<1>8. CASE s.cmd = "ack"
  <2>1. InputSeg(k0, s) = ShrinkBuf(a)
    BY <1>6, <1>8
  <2>2. Off(s.sn) \in A
    BY <1>8 DEF TrueSegs
  <2>3. a \in Sound
    BY <1>7, ParseAckSound
  <2>4. Sending(F, A, a) /\ SameRecv(k, a) /\ a.ackList = k.ackList
    BY <1>1, <1>7, <2>2, ParseAckSends
  <2> HIDE DEF a
  <2>5. a \in Good
    BY <1>5, <2>3, <2>4, BlocksSend
  <2> QED  BY <1>4, <2>1, <2>5
<1>9. CASE s.cmd = "push"
  <2> DEFINE l == InputPush(k, s)
  <2>1. InputSeg(k0, s) = l
    BY <1>6, <1>9
  <2>2. Carries(G, s)
    BY <1>9 DEF TrueSegs
  <2>3. l \in Sound
    BY <1>1, <1>7, InputPushSound
  <2>4. Receiving(G, D, l) /\ Acked(l) /\ Arrived(k) \subseteq Arrived(l) /\ SameSend(k, l)
    BY <1>1, <1>7, <2>2, InputPushReceives
  <2> HIDE DEF l
  <2>5. Sending(F, A, l)
    BY <1>7, <2>4, SendingSame
  <2> QED  BY <1>7, <2>1, <2>3, <2>4, <2>5 DEF Blocks
<1>10. CASE s.cmd = "wask"
  <2>1. InputSeg(k0, s) = p
    BY <1>6, <1>10
  <2>2. k.probe \cup {"tell"} \in SUBSET {"ask", "tell"}
    BY <1>7, FieldTypes
  <2>3. /\ p \in Kcbs
        /\ p.sndBuf = k.sndBuf /\ p.sndUna = k.sndUna /\ p.sndNxt = k.sndNxt
        /\ p.rcvBuf = k.rcvBuf /\ p.rcvNxt = k.rcvNxt /\ p.rcvQueue = k.rcvQueue
        /\ p.sndQueue = k.sndQueue /\ p.ackList = k.ackList
    BY <1>7, <2>2 DEF Kcbs
  <2> HIDE DEF p
  <2>4. p \in Sound
    BY <1>7, <2>3, OtherFields
  <2>5. SameSend(k, p) /\ SameRecv(k, p)
    BY <2>3 DEF SameSend, SameRecv
  <2>6. Sending(F, A, p)
    BY <1>7, <2>5, SendingSame
  <2> QED  BY <1>5, <2>1, <2>3, <2>4, <2>5, <2>6, BlocksSend
<1>11. CASE s.cmd = "wins"
  BY <1>5, <1>6, <1>11
<1> QED  BY <1>1, <1>8, <1>9, <1>10, <1>11 DEF Commands

LEMMA InputDatagramFlows ==
  ASSUME NEW F \in Streams, NEW A, NEW G \in Streams, NEW D \in Nat, NEW B,
         NEW k \in Blocks(F, A, G, D, B), NEW segs \in Seq(TrueSegs(A, G))
  PROVE  InputDatagram(k, segs) \in Blocks(F, A, G, D, B)
<1> DEFINE l == FoldLeft(InputSeg, k, segs)
           Good == Blocks(F, A, G, D, B)
<1>1. l \in Good
  <2>1. \A c \in Good, s \in TrueSegs(A, G) : InputSeg(c, s) \in Good
    BY InputSegFlows
  <2> HIDE DEF Good
  <2>2. k \in Good
    BY DEF Good
  <2> QED  BY <2>1, <2>2, InputFold
<1>2. PICK sn : InputDatagram(k, segs) = l \/ InputDatagram(k, segs) = ParseFastack(l, sn)
  BY DEF InputDatagram
<1> HIDE DEF l
<1>3. l \in Sound /\ Sending(F, A, l)
  BY <1>1 DEF Blocks
<1>4. ParseFastack(l, sn) \in Sound
  BY <1>3, ParseFastackSound
<1>5. /\ Sending(F, A, ParseFastack(l, sn))
      /\ SameRecv(l, ParseFastack(l, sn)) /\ ParseFastack(l, sn).ackList = l.ackList
  BY <1>3, ParseFastackSends
<1>6. ParseFastack(l, sn) \in Good
  BY <1>1, <1>4, <1>5, BlocksSend
<1> QED  BY <1>1, <1>2, <1>6

-----------------------------------------------------------------------------
(* The stream in ikcp_flush. *)

\* What is put into snd_buf carries on where the stream was.
LEMMA FillSends ==
  ASSUME NEW k \in Sound, NEW F \in Streams, NEW A, Sending(F, A, k)
  PROVE  /\ Sending(F, A, FillSndBuf(k))
         /\ SameRecv(k, FillSndBuf(k)) /\ FillSndBuf(k).ackList = k.ackList
<1>1. /\ k \in Kcbs /\ k.sndQueue \in Seq(Frags) /\ k.sndBuf \in SUBSET SndSegs /\ k.sndNxt \in Sns
      /\ Diff(k.sndNxt, k.sndUna) \in 0..SndWnd
  BY FieldTypes DEF Sound, SendSound
<1>2. PICK n \in Nat : Filled(k, n)
  BY <1>1, FillSpec
<1> DEFINE Q == SubSeq(k.sndQueue, n + 1, Len(k.sndQueue))
           new == {NewSeg(k, j) : j \in 1..n}
           B == k.sndBuf \cup new
           nxt == Plus(k.sndNxt, n)
           l == [k EXCEPT !.sndQueue = Q, !.sndBuf = B, !.sndNxt = nxt]
           X == Off(k.sndNxt)
<1>3. FillSndBuf(k) = l /\ n <= Len(k.sndQueue)
  BY <1>2 DEF Filled
<1>4. X \in 0..Len(F) /\ X \in Nat /\ Len(F) \in Nat /\ Len(F) < Half /\ F \in Seq(Frags)
  BY DEF Sending, Streams
<1>5. /\ Len(k.sndQueue) = Len(F) - X
      /\ \A j \in 1..(Len(F) - X) : k.sndQueue[j] = F[X + j]
      /\ Q = SubSeq(F, (X + n) + 1, Len(F)) /\ X + n <= Len(F)
  <2>1. k.sndQueue = SubSeq(F, X + 1, Len(F))
    BY DEF Sending
  <2> HIDE DEF X
  <2>2. Len(F) \in X..Len(F) /\ 0 \in 0..(Len(F) - X)
    BY <1>4
  <2>3. Len(k.sndQueue) = Len(F) - X /\ \A j \in 1..(Len(F) - X) : k.sndQueue[j] = F[X + j]
    BY <1>4, <2>1, <2>2, SubSeqRest
  <2>4. n \in 0..(Len(F) - X) /\ X + n <= Len(F)
    BY <1>3, <1>4, <2>3
  <2>5. SubSeq(k.sndQueue, n + 1, Len(k.sndQueue)) = SubSeq(F, (X + n) + 1, Len(F))
    BY <1>4, <2>1, <2>2, <2>4, SubSeqRest
  <2> QED  BY <2>3, <2>4, <2>5
<1>6. n \in 0..(Half - 1)
  <2> HIDE DEF X
  <2> QED  BY <1>4, <1>5, Constants
<1>7. Off(nxt) = X + n /\ X + n \in 0..Len(F)
  <2>1. X + n < Half /\ X + n \in 0..Len(F)
    <3> HIDE DEF X
    <3> QED  BY <1>4, <1>5, Constants
  <2> QED  BY <2>1, <1>1, <1>6, OffPlus
<1>8. ASSUME NEW j \in 1..n
      PROVE  Off(NewSeg(k, j).sn) = X + (j - 1) /\ Carries(F, NewSeg(k, j))
  <2> DEFINE s == NewSeg(k, j)
  <2>1. /\ s.sn = Plus(k.sndNxt, j - 1)
        /\ s.data = k.sndQueue[j].data /\ s.frg = k.sndQueue[j].frg
    BY DEF NewSeg
  <2>2. j - 1 \in 0..(Half - 1) /\ X + (j - 1) < Half /\ X + (j - 1) \in 0..(Len(F) - 1)
        /\ j \in 1..(Len(F) - X) /\ (X + (j - 1)) + 1 = X + j /\ X + j \in 1..Len(F)
    <3> HIDE DEF X
    <3> QED  BY <1>4, <1>5, <1>6, Constants
  <2>3. Off(s.sn) = X + (j - 1)
    BY <1>1, <2>1, <2>2, OffPlus
  <2> HIDE DEF s, X
  <2>4. k.sndQueue[j] = F[X + j]
    BY <1>5, <2>2
  <2>5. F[X + j] \in Frags
    BY <1>4, <2>2
  <2>6. F[X + j] = [data |-> s.data, frg |-> s.frg]
    BY <2>1, <2>4, <2>5 DEF Frags
  <2>7. F[Off(s.sn) + 1] = [data |-> s.data, frg |-> s.frg]
    BY <2>2, <2>3, <2>6
  <2> QED  BY <2>2, <2>3, <2>7 DEF Carries, s
<1>9. /\ k.sndBuf \subseteq B /\ \A j \in 1..n : NewSeg(k, j) \in B
      /\ \A s \in B : s \in k.sndBuf \/ \E j \in 1..n : s = NewSeg(k, j)
  OBVIOUS
<1> HIDE DEF Q, B, nxt
<1>10. /\ l.sndBuf = B /\ l.sndQueue = Q /\ l.sndNxt = nxt
       /\ SameRecv(k, l) /\ l.ackList = k.ackList
  BY <1>1 DEF Kcbs, SameRecv
<1> HIDE DEF l
<1>11. \A s \in B : Carries(F, s)
  BY <1>8, <1>9 DEF Sending
<1>12. ASSUME NEW x \in 0..((X + n) - 1) PROVE x \in A \/ \E s \in B : Off(s.sn) = x
  <2>1. CASE x < X
    <3>1. x \in 0..(X - 1)
      <4> HIDE DEF X
      <4> QED  BY <1>4, <2>1
    <3>2. x \in A \/ \E s \in k.sndBuf : Off(s.sn) = x
      BY <3>1 DEF Sending
    <3> QED  BY <3>2, <1>9
  <2>2. CASE x >= X
    <3>1. (x - X) + 1 \in 1..n /\ X + (((x - X) + 1) - 1) = x
      <4> HIDE DEF X
      <4> QED  BY <1>4, <2>2
    <3> DEFINE s == NewSeg(k, (x - X) + 1)
    <3>2. Off(s.sn) = x
      BY <1>8, <3>1
    <3>3. s \in B
      BY <1>9, <3>1
    <3> QED  BY <3>2, <3>3
  <2> QED  BY <1>4, <2>1, <2>2
<1>13. Sending(F, A, l)
  <2> HIDE DEF X
  <2> QED  BY <1>5, <1>7, <1>10, <1>11, <1>12 DEF Sending
<1> QED  BY <1>3, <1>10, <1>13

LEMMA ProbeWindowFields ==
  ASSUME NEW k \in Kcbs
  PROVE  /\ SameSend(k, ProbeWindow(k)) /\ SameRecv(k, ProbeWindow(k))
         /\ ProbeWindow(k).ackList = k.ackList
BY DEF ProbeWindow, Kcbs, SameSend, SameRecv

LEMMA FlushedSends ==
  ASSUME NEW k \in Sound, NEW F \in Streams, NEW A, Sending(F, A, k)
  PROVE  /\ Sending(F, A, Flushed(k)) /\ SameRecv(k, Flushed(k))
         /\ Flushed(k).ackList = <<>>
<1> DEFINE e == <<>>
           w == ProbeWindow(k)
           v == [w EXCEPT !.ackList = e, !.probe = {}]
           f == FillSndBuf(v)
           Sent(s) == IF NeedSend(s) THEN Transmitted(s) ELSE s
           g == [s \in SndSegs |-> Sent(s)]
<1>1. w \in Sound /\ w \in Kcbs /\ SameSend(k, w) /\ SameRecv(k, w)
  BY ProbeWindowSound, ProbeWindowFields DEF Sound
<1>a. e \in Seq(Sns)
  OBVIOUS
<1> HIDE DEF w, e
<1>2. v \in Sound /\ SameSend(w, v) /\ SameRecv(w, v) /\ v.ackList = e
  <2>1. /\ v \in Kcbs
        /\ v.sndBuf = w.sndBuf /\ v.sndUna = w.sndUna /\ v.sndNxt = w.sndNxt
        /\ v.rcvBuf = w.rcvBuf /\ v.rcvNxt = w.rcvNxt /\ v.rcvQueue = w.rcvQueue
        /\ v.sndQueue = w.sndQueue /\ v.ackList = e
    BY <1>1, <1>a DEF Kcbs
  <2> HIDE DEF v
  <2>2. v \in Sound
    BY <1>1, <2>1, OtherFields
  <2> QED  BY <2>1, <2>2 DEF SameSend, SameRecv
<1>3. Flushed(k) = [f EXCEPT !.sndBuf = {Sent(s) : s \in f.sndBuf}]
  BY DEF Flushed, w, e
<1> HIDE DEF v
<1>4. Sending(F, A, v)
  <2>1. Sending(F, A, w)
    BY <1>1, SendingSame
  <2> QED  BY <1>2, <2>1, SendingSame
<1>5. f \in Sound /\ f \in Kcbs /\ Sending(F, A, f) /\ SameRecv(v, f) /\ f.ackList = e
  <2>1. f \in Sound
    BY <1>2, FillSound
  <2>2. Sending(F, A, f) /\ SameRecv(v, f) /\ f.ackList = v.ackList
    BY <1>2, <1>4, FillSends
  <2> QED  BY <1>2, <2>1, <2>2 DEF Sound
<1> HIDE DEF f
<1>6. ASSUME NEW s \in SndSegs PROVE Sent(s) \in SndSegs /\ SameData(Sent(s), s)
  <2>1. /\ s.xmit \in 0..(FastLimit + 1) /\ s.fastack \in 0..FastResend
        /\ FastLimit \in Nat /\ FastResend \in Nat
    BY KcpAssumption DEF SndSegs
  <2> DEFINE x == IF s.xmit > FastLimit THEN s.xmit ELSE s.xmit + 1
             a == IF s.xmit = 0 \/ s.due THEN s.fastack ELSE 0
  <2>2. x \in 0..(FastLimit + 1) /\ a \in 0..FastResend
    BY <2>1
  <2>3. Sent(s) = [s EXCEPT !.xmit = x, !.fastack = a, !.due = FALSE] \/ Sent(s) = s
    BY DEF Transmitted
  <2> HIDE DEF x, a, Sent
  <2> QED  BY <2>2, <2>3 DEF SndSegs, SameData
<1> HIDE DEF Sent
<1>7. g \in [SndSegs -> SndSegs] /\ \A s \in SndSegs : SameData(g[s], s)
  BY <1>6
<1>8. {Sent(s) : s \in f.sndBuf} = {g[s] : s \in f.sndBuf}
  <2>1. f.sndBuf \in SUBSET SndSegs
    BY <1>5, FieldTypes
  <2> QED  BY <2>1
<1> HIDE DEF g
<1>9. Flushed(k) = [f EXCEPT !.sndBuf = {g[s] : s \in f.sndBuf}]
  BY <1>3, <1>8
<1>10. Sending(F, A, Flushed(k)) /\ SameRecv(f, Flushed(k)) /\ Flushed(k).ackList = f.ackList
  <2> DEFINE l == [f EXCEPT !.sndBuf = {g[s] : s \in f.sndBuf}]
  <2>1. Sending(F, A, l) /\ SameRecv(f, l) /\ l.ackList = f.ackList
    BY <1>5, <1>7, CountersSend
  <2> HIDE DEF l
  <2>2. Flushed(k) = l
    BY <1>9 DEF l
  <2> QED  BY <2>1, <2>2
<1> QED  BY <1>1, <1>2, <1>5, <1>10 DEF SameRecv, e

\* What is sent tells the truth: of the stream, and of what has arrived.
LEMMA OutputTrue ==
  ASSUME NEW k \in Sound, NEW F \in Streams, NEW A, Sending(F, A, k),
         NEW G \in Streams, NEW D \in Nat, Receiving(G, D, k), Acked(k)
  PROVE  Output(k) \in Seq(Seq(TrueSegs(Arrived(k), F)))
<1> DEFINE good == TrueSegs(Arrived(k), F)
           w == ProbeWindow(k)
           f == FillSndBuf(w)
<1>1. /\ k \in Kcbs /\ k.ackList \in Seq(Sns) /\ k.rcvNxt \in Sns
      /\ k.rcvQueue \in Seq(Frags)
  BY FieldTypes DEF Sound
<1>2. WndUnused(k) \in 0..RcvWindow
  BY <1>1, Constants DEF WndUnused
<1>3. Off(k.rcvNxt) >= 0 /\ \A x \in 0..(Off(k.rcvNxt) - 1) : x \in Arrived(k)
  <2> DEFINE R == Off(k.rcvNxt)
  <2>1. R \in D..Len(G) /\ Len(G) \in Nat
    BY DEF Receiving, Streams
  <2>2. Arrived(k) = {x \in Nat : x < R \/ \E s \in k.rcvBuf : Off(s.sn) = x}
    BY DEF Arrived
  <2> HIDE DEF R
  <2> QED  BY <2>1, <2>2 DEF R
<1>4. ASSUME NEW cmd \in Commands, NEW sn \in Sns, NEW frg \in Nat, NEW data \in Datas,
             cmd = "push" => Carries(F, [sn |-> sn, frg |-> frg, data |-> data]),
             cmd = "ack" => Off(sn) \in Arrived(k)
      PROVE  OutSeg(k, cmd, sn, frg, data) \in good
  <2> DEFINE s == OutSeg(k, cmd, sn, frg, data)
  <2>1. /\ s \in NetSegs /\ s.cmd = cmd /\ s.sn = sn /\ s.frg = frg /\ s.data = data
        /\ s.una = k.rcvNxt
    BY <1>1, <1>2 DEF OutSeg, NetSegs
  <2> HIDE DEF s
  <2>2. s.cmd = "push" => Carries(F, s)
    BY <1>4, <2>1 DEF Carries
  <2> QED  BY <1>3, <1>4, <2>1, <2>2 DEF TrueSegs, s
<1>5. 0 \in Sns /\ <<>> \in Datas /\ 0 \in Nat
  BY KcpAssumption DEF Sns, Datas
<1>6. \A j \in DOMAIN k.ackList : OutSeg(k, "ack", k.ackList[j], 0, <<>>) \in good
  <2> TAKE j \in DOMAIN k.ackList
  <2>1. k.ackList[j] \in Sns /\ Off(k.ackList[j]) \in Arrived(k)
    BY <1>1 DEF Acked
  <2>2. "ack" \in Commands /\ "ack" # "push"
    BY DEF Commands
  <2> HIDE DEF good
  <2> QED  BY <2>1, <2>2, <1>4, <1>5
<1>7. OutSeg(k, "wask", 0, 0, <<>>) \in good /\ OutSeg(k, "wins", 0, 0, <<>>) \in good
  <2>1. /\ "wask" \in Commands /\ "wask" # "push" /\ "wask" # "ack"
        /\ "wins" \in Commands /\ "wins" # "push" /\ "wins" # "ack"
    BY DEF Commands
  <2> HIDE DEF good
  <2> QED  BY <2>1, <1>4, <1>5
<1>8. ASSUME NEW s \in DueSegs(k) PROVE OutSeg(k, "push", s.sn, s.frg, s.data) \in good
  <2>1. w \in Sound /\ SameSend(k, w)
    BY <1>1, ProbeWindowSound, ProbeWindowFields
  <2>2. Sending(F, A, w)
    BY <2>1, SendingSame
  <2> HIDE DEF w
  <2>3. f \in Sound /\ Sending(F, A, f)
    BY <2>1, <2>2, FillSound, FillSends
  <2>4. s \in f.sndBuf
    BY DEF DueSegs, w
  <2> HIDE DEF f
  <2>5. s \in SndSegs /\ Carries(F, s)
    BY <2>3, <2>4, FieldTypes DEF Sound, Sending
  <2>6. s.sn \in Sns /\ s.frg \in Nat /\ s.data \in Datas
    BY <2>5 DEF SndSegs
  <2>7. Carries(F, [sn |-> s.sn, frg |-> s.frg, data |-> s.data])
    BY <2>5 DEF Carries
  <2>8. "push" \in Commands /\ "push" # "ack"
    BY DEF Commands
  <2> HIDE DEF good
  <2> QED  BY <2>6, <2>7, <2>8, <1>4
<1> HIDE DEF good
<1>9. Output(k) \in Seq(Seq(good))
  BY <1>6, <1>7, <1>8, OutputSegs
<1> QED  BY <1>9 DEF good

-----------------------------------------------------------------------------
(* The flow of both streams: the inductive invariant, and the steps. *)

\* The messages S are cut into F, where the ith begins after place st[i].
Chopped(S, F, st) ==
  /\ Len(st) = Len(S) + 1 /\ st[1] = 0 /\ st[Len(S) + 1] = Len(F)
  /\ \A i \in 1..Len(S) :
       /\ S[i] \in 1..(WndRcv - 1) /\ st[i + 1] = st[i] + S[i]
       /\ \A j \in 1..S[i] : F[st[i] + j] = Fragment(i, j, S[i])
  /\ \A i \in 1..(Len(S) + 1) : st[i] <= (i - 1) * (WndRcv - 1)
  /\ \A i, j \in 1..(Len(S) + 1) : i <= j => st[i] <= st[j]

\* What the application was given are the first of the messages, whole.
Prefix(S, g) ==
  /\ Len(g) <= Len(S)
  /\ \A m \in 1..Len(g) : g[m] = [j \in 1..S[m] |-> <<m, j>>]

\* Of the side with the control block k that sent S, toward the one with l that
\* was given g: d is on the way back, where the stream G goes.
Flows(S, k, l, g, d, F, G, st) ==
  /\ Chopped(S, F, st) /\ Prefix(S, g)
  /\ Sending(F, Arrived(l), k)
  /\ Receiving(F, st[Len(g) + 1], l) /\ Acked(l)
  /\ d \in Seq(Seq(TrueSegs(Arrived(l), G)))

\* The stream p sends, to the application of its peer.
FlowOf(p, F, st) ==
  Flows(sent[p], kcb[p], kcb[Other(p)], got[Other(p)], net[p], F[p], F[Other(p)], st[p])

\* With Windows, the inductive invariant: for some streams F and beginnings st of
\* the messages in them, all that either side holds is where it should be.
Flow ==
  /\ \A p \in Peers : Len(sent[p]) <= MaxMsgs[p]
  /\ \E F \in [Peers -> Streams], st \in [Peers -> Seq(Nat)] : \A p \in Peers : FlowOf(p, F, st)

LEMMA OtherOther ==
  ASSUME NEW p \in Peers, NEW q, q = Other(p)
  PROVE  q \in Peers /\ q # p /\ Other(q) = p /\ \A r \in Peers : r = p \/ r = q
<1>1. q \in Peers /\ q # p /\ Peers = {p, q}
  BY OtherIs
<1>2. Other(q) \in Peers /\ Other(q) # q
  BY <1>1, OtherIs
<1> QED  BY <1>1, <1>2

LEMMA SeqMore ==
  ASSUME NEW A, NEW B, A \subseteq B, NEW d \in Seq(Seq(A))
  PROVE  d \in Seq(Seq(B))
<1>1. \A i \in 1..Len(d) : d[i] \in Seq(B)
  <2> TAKE i \in 1..Len(d)
  <2>1. d[i] \in Seq(A)
    OBVIOUS
  <2> QED  BY <2>1
<1>2. DOMAIN d = 1..Len(d) /\ Len(d) \in Nat /\ d = [i \in 1..Len(d) |-> d[i]]
  OBVIOUS
<1> QED  BY <1>1, <1>2

LEMMA TrueMore ==
  ASSUME NEW A, NEW B, A \subseteq B, NEW F, NEW G, \A s \in NetSegs : Carries(F, s) => Carries(G, s)
  PROVE  TrueSegs(A, F) \subseteq TrueSegs(B, G)
BY DEF TrueSegs

\* More has arrived, and the stream has grown.
LEMMA NetMore ==
  ASSUME NEW A, NEW B, A \subseteq B, NEW F, NEW G, \A s \in NetSegs : Carries(F, s) => Carries(G, s),
         NEW d \in Seq(Seq(TrueSegs(A, F)))
  PROVE  d \in Seq(Seq(TrueSegs(B, G)))
<1>1. TrueSegs(A, F) \subseteq TrueSegs(B, G)
  BY TrueMore
<1> QED  BY <1>1, SeqMore

LEMMA StartIs ==
  ASSUME NEW S \in Seq(Nat), NEW F \in Streams, NEW st \in Seq(Nat), NEW g, Len(g) \in Nat,
         Chopped(S, F, st), Prefix(S, g)
  PROVE  st[Len(g) + 1] \in Nat /\ st[Len(g) + 1] <= Len(F)
<1>1. Len(g) + 1 \in 1..Len(st) /\ Len(g) + 1 \in 1..(Len(S) + 1) /\ Len(S) + 1 \in 1..(Len(S) + 1)
      /\ Len(g) + 1 <= Len(S) + 1
  BY DEF Chopped, Prefix
<1>2. st[Len(g) + 1] <= st[Len(S) + 1] /\ st[Len(S) + 1] = Len(F)
  BY <1>1 DEF Chopped
<1> QED  BY <1>1, <1>2

\* What every step of one control block needs, and what it gives.
LEMMA FlowBlock ==
  ASSUME Windows, NEW F \in [Peers -> Streams], NEW st \in [Peers -> Seq(Nat)],
         \A p \in Peers : FlowOf(p, F, st), NEW p \in Peers, NEW q, q = Other(p)
  PROVE  /\ kcb[p] \in Blocks(F[p], Arrived(kcb[q]), F[q], st[q][Len(got[p]) + 1], Arrived(kcb[p]))
         /\ F[p] \in Streams /\ F[q] \in Streams /\ st[q][Len(got[p]) + 1] \in Nat
         /\ net[p] \in Seq(Seq(TrueSegs(Arrived(kcb[q]), F[q])))
         /\ net[q] \in Seq(Seq(TrueSegs(Arrived(kcb[p]), F[p])))
<1>1. q \in Peers /\ Other(q) = p
  BY OtherOther
<1>2. FlowOf(p, F, st) /\ FlowOf(q, F, st)
  BY <1>1
<1>3. /\ Sending(F[p], Arrived(kcb[q]), kcb[p])
      /\ net[p] \in Seq(Seq(TrueSegs(Arrived(kcb[q]), F[q])))
  BY <1>2 DEF FlowOf, Flows
<1>4. /\ Chopped(sent[q], F[q], st[q]) /\ Prefix(sent[q], got[p])
      /\ Receiving(F[q], st[q][Len(got[p]) + 1], kcb[p]) /\ Acked(kcb[p])
      /\ net[q] \in Seq(Seq(TrueSegs(Arrived(kcb[p]), F[p])))
  BY <1>1, <1>2 DEF FlowOf, Flows
<1>5. kcb[p] \in Sound /\ sent[q] \in Seq(Nat) /\ Len(got[p]) \in Nat
  BY <1>1 DEF Windows
<1>6. F[p] \in Streams /\ F[q] \in Streams /\ st[q] \in Seq(Nat)
  BY <1>1
<1>7. st[q][Len(got[p]) + 1] \in Nat
  BY <1>4, <1>5, <1>6, StartIs
<1>8. kcb[p] \in Blocks(F[p], Arrived(kcb[q]), F[q], st[q][Len(got[p]) + 1], Arrived(kcb[p]))
  BY <1>3, <1>4, <1>5 DEF Blocks
<1> QED  BY <1>3, <1>4, <1>6, <1>7, <1>8

LEMMA BlockStep ==
  ASSUME NEW F \in [Peers -> Streams], NEW st \in [Peers -> Seq(Nat)],
         Flow, \A r \in Peers : FlowOf(r, F, st), kcb \in [Peers -> Sound],
         NEW p \in Peers, NEW q, q = Other(p),
         NEW k \in Blocks(F[p], Arrived(kcb[q]), F[q], st[q][Len(got[p]) + 1], Arrived(kcb[p])),
         kcb' = [kcb EXCEPT ![p] = k], sent' = sent, got' = got,
         net'[p] \in Seq(Seq(TrueSegs(Arrived(kcb[q]), F[q]))),
         net'[q] \in Seq(Seq(TrueSegs(Arrived(k), F[p])))
  PROVE  Flow'
<1>1. q \in Peers /\ q # p /\ Other(q) = p /\ \A r \in Peers : r = p \/ r = q
  BY OtherOther
<1>2. kcb'[p] = k /\ kcb'[q] = kcb[q]
  BY <1>1
<1>3. FlowOf(p, F, st) /\ FlowOf(q, F, st)
  BY <1>1
<1>4. /\ Sending(F[p], Arrived(kcb[q]), k) /\ Receiving(F[q], st[q][Len(got[p]) + 1], k) /\ Acked(k)
      /\ Arrived(kcb[p]) \subseteq Arrived(k)
  BY DEF Blocks
<1>5. FlowOf(p, F, st)'
  <2>1. Flows(sent[p], k, kcb[q], got[q], net'[p], F[p], F[q], st[p])
    BY <1>3, <1>4 DEF FlowOf, Flows
  <2> QED  BY <1>2, <2>1 DEF FlowOf
<1>6. FlowOf(q, F, st)'
  <2>1. Sending(F[q], Arrived(k), kcb[q])
    <3>1. Sending(F[q], Arrived(kcb[p]), kcb[q])
      BY <1>1, <1>3 DEF FlowOf, Flows
    <3> QED  BY <1>4, <3>1, SendingMore
  <2>2. Flows(sent[q], kcb[q], k, got[p], net'[q], F[q], F[p], st[q])
    BY <1>1, <1>3, <1>4, <2>1 DEF FlowOf, Flows
  <2> QED  BY <1>1, <1>2, <2>2 DEF FlowOf
<1>7. \A r \in Peers : FlowOf(r, F, st)'
  BY <1>1, <1>5, <1>6
<1>8. \A r \in Peers : Len(sent'[r]) <= MaxMsgs[r]
  BY DEF Flow
<1> QED  BY <1>7, <1>8 DEF Flow

LEMMA InputFlow ==
  ASSUME Windows, Flow, NEW p \in Peers, Input(p)
  PROVE  Flow'
<1> DEFINE q == Other(p)
           k == InputDatagram(kcb[p], Head(net[p]))
<1>1. PICK F \in [Peers -> Streams], st \in [Peers -> Seq(Nat)] : \A r \in Peers : FlowOf(r, F, st)
  BY DEF Flow
<1>2. q \in Peers /\ q # p
  BY OtherIs
<1>3. /\ kcb[p] \in Blocks(F[p], Arrived(kcb[q]), F[q], st[q][Len(got[p]) + 1], Arrived(kcb[p]))
      /\ F[p] \in Streams /\ F[q] \in Streams /\ st[q][Len(got[p]) + 1] \in Nat
      /\ net[p] \in Seq(Seq(TrueSegs(Arrived(kcb[q]), F[q])))
      /\ net[q] \in Seq(Seq(TrueSegs(Arrived(kcb[p]), F[p])))
  BY <1>1, FlowBlock
<1>4. /\ kcb' = [kcb EXCEPT ![p] = k] /\ net' = [net EXCEPT ![p] = Tail(@)] /\ net[p] # <<>>
      /\ sent' = sent /\ got' = got
  BY DEF Input
<1>5. kcb \in [Peers -> Sound] /\ net'[p] = Tail(net[p]) /\ net'[q] = net[q]
  BY <1>2, <1>4 DEF Windows
<1> HIDE DEF q
<1> DEFINE good == TrueSegs(Arrived(kcb[q]), F[q])
<1>6. Head(net[p]) \in Seq(good) /\ Tail(net[p]) \in Seq(Seq(good))
  <2>1. net[p] \in Seq(Seq(good))
    BY <1>3
  <2> HIDE DEF good
  <2> QED  BY <1>4, <2>1
<1>7. k \in Blocks(F[p], Arrived(kcb[q]), F[q], st[q][Len(got[p]) + 1], Arrived(kcb[p]))
  BY <1>3, <1>6, InputDatagramFlows
<1> HIDE DEF k
<1>8. net'[q] \in Seq(Seq(TrueSegs(Arrived(k), F[p])))
  <2>1. Arrived(kcb[p]) \subseteq Arrived(k)
    BY <1>7 DEF Blocks
  <2> QED  BY <1>3, <1>5, <2>1, NetMore
<1>9. net'[p] \in Seq(Seq(good))
  BY <1>5, <1>6
<1> QED  BY <1>1, <1>4, <1>5, <1>7, <1>8, <1>9, BlockStep DEF q

LEMMA UpdateFlow ==
  ASSUME Windows, Flow, NEW p \in Peers, Update(p)
  PROVE  Flow'
<1> DEFINE q == Other(p)
           k == Flushed(kcb[p])
           out == Output(kcb[p])
<1>1. PICK F \in [Peers -> Streams], st \in [Peers -> Seq(Nat)] : \A r \in Peers : FlowOf(r, F, st)
  BY DEF Flow
<1>2. q \in Peers /\ q # p
  BY OtherIs
<1> DEFINE D == st[q][Len(got[p]) + 1]
           good == TrueSegs(Arrived(kcb[p]), F[p])
<1>3. /\ kcb[p] \in Blocks(F[p], Arrived(kcb[q]), F[q], D, Arrived(kcb[p]))
      /\ F[p] \in Streams /\ F[q] \in Streams /\ D \in Nat
      /\ net[p] \in Seq(Seq(TrueSegs(Arrived(kcb[q]), F[q])))
      /\ net[q] \in Seq(Seq(good))
  BY <1>1, FlowBlock
<1>4. /\ kcb' = [kcb EXCEPT ![p] = k] /\ net' = [net EXCEPT ![q] = @ \o out]
      /\ sent' = sent /\ got' = got
  BY DEF Update
<1>5. kcb \in [Peers -> Sound] /\ net'[p] = net[p] /\ net'[q] = net[q] \o out
  BY <1>2, <1>4 DEF Windows
<1> HIDE DEF q, D
<1>6. /\ kcb[p] \in Sound /\ Sending(F[p], Arrived(kcb[q]), kcb[p])
      /\ Receiving(F[q], D, kcb[p]) /\ Acked(kcb[p])
  BY <1>3 DEF Blocks
<1>7. out \in Seq(Seq(good))
  BY <1>3, <1>6, OutputTrue
<1>8. k \in Sound /\ Sending(F[p], Arrived(kcb[q]), k) /\ SameRecv(kcb[p], k) /\ k.ackList = <<>>
  BY <1>3, <1>6, FlushedSound, FlushedSends
<1> HIDE DEF k, out
<1>9. Receiving(F[q], D, k) /\ Arrived(k) = Arrived(kcb[p]) /\ Acked(k)
  <2>1. Receiving(F[q], D, k) /\ Arrived(k) = Arrived(kcb[p])
    BY <1>6, <1>8, ReceivingSame
  <2>2. DOMAIN k.ackList = {}
    BY <1>8
  <2>3. Acked(k)
    BY <2>2 DEF Acked
  <2> QED  BY <2>1, <2>3
<1>10. k \in Blocks(F[p], Arrived(kcb[q]), F[q], D, Arrived(kcb[p]))
  BY <1>8, <1>9 DEF Blocks
<1>11. net'[q] \in Seq(Seq(TrueSegs(Arrived(k), F[p])))
  <2> HIDE DEF good
  <2>1. net[q] \o out \in Seq(Seq(good))
    BY <1>3, <1>7
  <2> QED  BY <1>5, <1>9, <2>1 DEF good
<1> QED  BY <1>1, <1>3, <1>4, <1>5, <1>10, <1>11, BlockStep DEF q, D

\* Counters of the segments of one side, and its probe, carry no data.
LEMMA ExpireFlow ==
  ASSUME Windows, Flow, NEW p \in Peers, Expire(p)
  PROVE  Flow'
<1> DEFINE q == Other(p)
<1>1. PICK F \in [Peers -> Streams], st \in [Peers -> Seq(Nat)] : \A r \in Peers : FlowOf(r, F, st)
  BY DEF Flow
<1>2. PICK s \in kcb[p].sndBuf :
        kcb' = [kcb EXCEPT ![p].sndBuf = (@ \ {s}) \cup {[s EXCEPT !.due = TRUE]}]
  BY DEF Expire
<1> DEFINE D == st[q][Len(got[p]) + 1]
           v == [s EXCEPT !.due = TRUE]
           B == (kcb[p].sndBuf \ {s}) \cup {v}
           k == [kcb[p] EXCEPT !.sndBuf = B]
<1>3. /\ kcb[p] \in Blocks(F[p], Arrived(kcb[q]), F[q], D, Arrived(kcb[p]))
      /\ F[p] \in Streams /\ F[q] \in Streams /\ D \in Nat
      /\ net[p] \in Seq(Seq(TrueSegs(Arrived(kcb[q]), F[q])))
      /\ net[q] \in Seq(Seq(TrueSegs(Arrived(kcb[p]), F[p])))
  BY <1>1, FlowBlock
<1>4. /\ kcb' = [kcb EXCEPT ![p] = k] /\ net' = net /\ sent' = sent /\ got' = got
      /\ kcb \in [Peers -> Sound]
  BY <1>2 DEF Expire, Windows
<1>5. k \in Sound
  <2>1. Windows'
    BY ExpireWindows
  <2>2. kcb' \in [Peers -> Sound]
    BY <2>1 DEF Windows
  <2>3. kcb'[p] = k
    <3> HIDE DEF k
    <3> QED  BY <1>4
  <2> HIDE DEF k
  <2> QED  BY <2>2, <2>3
<1> HIDE DEF q, D
<1>6. kcb[p] \in Kcbs /\ kcb[p].sndBuf \in SUBSET SndSegs
      /\ Sending(F[p], Arrived(kcb[q]), kcb[p])
  BY <1>3, FieldTypes DEF Blocks, Sound
<1>7. SameData(v, s)
  BY <1>6 DEF SndSegs, SameData
<1> HIDE DEF v
<1>8. /\ \A t \in B : \E u \in kcb[p].sndBuf : SameData(t, u)
      /\ \A u \in kcb[p].sndBuf : \E t \in B : t.sn = u.sn
  BY <1>7 DEF SameData
<1> HIDE DEF B
<1>9. /\ k.sndBuf = B /\ k.sndQueue = kcb[p].sndQueue /\ k.sndNxt = kcb[p].sndNxt
      /\ SameRecv(kcb[p], k) /\ k.ackList = kcb[p].ackList
  BY <1>6, BufFields
<1> HIDE DEF k
<1>10. Sending(F[p], Arrived(kcb[q]), k)
  BY <1>6, <1>8, <1>9, SendingFewer
<1>11. k \in Blocks(F[p], Arrived(kcb[q]), F[q], D, Arrived(kcb[p]))
  BY <1>3, <1>5, <1>9, <1>10, BlocksSend
<1>12. Arrived(k) = Arrived(kcb[p])
  BY <1>9, ReceivingSame
<1> QED  BY <1>1, <1>3, <1>4, <1>11, <1>12, BlockStep DEF q, D

LEMMA ProbeExpireFlow ==
  ASSUME Windows, Flow, NEW p \in Peers, ProbeExpire(p)
  PROVE  Flow'
<1> DEFINE q == Other(p)
           k == [kcb[p] EXCEPT !.probeDue = TRUE]
<1>1. PICK F \in [Peers -> Streams], st \in [Peers -> Seq(Nat)] : \A r \in Peers : FlowOf(r, F, st)
  BY DEF Flow
<1> DEFINE D == st[q][Len(got[p]) + 1]
<1>3. /\ kcb[p] \in Blocks(F[p], Arrived(kcb[q]), F[q], D, Arrived(kcb[p]))
      /\ net[p] \in Seq(Seq(TrueSegs(Arrived(kcb[q]), F[q])))
      /\ net[q] \in Seq(Seq(TrueSegs(Arrived(kcb[p]), F[p])))
  BY <1>1, FlowBlock
<1>4. /\ kcb' = [kcb EXCEPT ![p] = k] /\ net' = net /\ sent' = sent /\ got' = got
      /\ kcb \in [Peers -> Sound]
  BY DEF ProbeExpire, Windows
<1>5. k \in Sound
  <2>1. Windows'
    BY ProbeExpireWindows
  <2>2. kcb' \in [Peers -> Sound]
    BY <2>1 DEF Windows
  <2>3. kcb'[p] = k
    <3> HIDE DEF k
    <3> QED  BY <1>4
  <2> HIDE DEF k
  <2> QED  BY <2>2, <2>3
<1> HIDE DEF q, D
<1>6. kcb[p] \in Kcbs /\ Sending(F[p], Arrived(kcb[q]), kcb[p])
  BY <1>3 DEF Blocks, Sound
<1>7. SameSend(kcb[p], k) /\ SameRecv(kcb[p], k) /\ k.ackList = kcb[p].ackList
  BY <1>6 DEF Kcbs, SameSend, SameRecv
<1> HIDE DEF k
<1>8. Sending(F[p], Arrived(kcb[q]), k)
  BY <1>6, <1>7, SendingSame
<1>9. k \in Blocks(F[p], Arrived(kcb[q]), F[q], D, Arrived(kcb[p]))
  BY <1>3, <1>5, <1>7, <1>8, BlocksSend
<1>10. Arrived(k) = Arrived(kcb[p])
  BY <1>7, ReceivingSame
<1> QED  BY <1>1, <1>3, <1>4, <1>9, <1>10, BlockStep DEF q, D

LEMMA FaultFlow ==
  ASSUME Windows, Flow, NEW p \in Peers, Lose(p) \/ Duplicate(p) \/ Overtake(p)
  PROVE  Flow'
<1> DEFINE q == Other(p)
           d == net[p]
<1>1. PICK F \in [Peers -> Streams], st \in [Peers -> Seq(Nat)] : \A r \in Peers : FlowOf(r, F, st)
  BY DEF Flow
<1>2. q \in Peers /\ q # p
  BY OtherIs
<1> DEFINE D == st[q][Len(got[p]) + 1]
           good == TrueSegs(Arrived(kcb[q]), F[q])
<1>3. /\ kcb[p] \in Blocks(F[p], Arrived(kcb[q]), F[q], D, Arrived(kcb[p]))
      /\ d \in Seq(Seq(good))
      /\ net[q] \in Seq(Seq(TrueSegs(Arrived(kcb[p]), F[p])))
  BY <1>1, FlowBlock
<1>4. \E e \in Seq(Seq(good)) : net' = [net EXCEPT ![p] = e]
  <2> HIDE DEF good
  <2>1. CASE Lose(p)
    <3>1. PICK i \in DOMAIN d : net' = [net EXCEPT ![p] = RemoveAt(d, i)]
      BY <2>1 DEF Lose
    <3> HIDE DEF d
    <3> QED  BY <1>3, <3>1, FaultTypes
  <2>2. CASE Duplicate(p)
    <3>1. PICK i \in DOMAIN d : net' = [net EXCEPT ![p] = Append(d, d[i])]
      BY <2>2 DEF Duplicate
    <3> HIDE DEF d
    <3> QED  BY <1>3, <3>1, FaultTypes
  <2>3. CASE Overtake(p)
    <3>1. PICK i \in 2..Len(d) : net' = [net EXCEPT ![p] = <<d[i]>> \o RemoveAt(d, i)]
      BY <2>3 DEF Overtake
    <3> HIDE DEF d
    <3>2. i \in DOMAIN d
      BY <1>3
    <3> QED  BY <1>3, <3>1, <3>2, FaultTypes
  <2> QED  BY <2>1, <2>2, <2>3
<1>5. kcb' = [kcb EXCEPT ![p] = kcb[p]] /\ sent' = sent /\ got' = got /\ kcb \in [Peers -> Sound]
  BY DEF Lose, Duplicate, Overtake, Fault, Windows
<1>6. net'[p] \in Seq(Seq(good)) /\ net'[q] = net[q]
  <2> HIDE DEF good
  <2>1. net \in [Peers -> Seq(Seq(NetSegs))]
    BY DEF Windows
  <2> QED  BY <1>2, <1>4, <2>1
<1> HIDE DEF q, D
<1> QED  BY <1>1, <1>3, <1>5, <1>6, BlockStep DEF q, D
-----------------------------------------------------------------------------
(* ikcp_send *)

LEMMA MulMore ==
  ASSUME NEW a \in Nat, NEW b \in Nat, NEW c \in Nat, a <= b
  PROVE  a * c <= b * c /\ (a + 1) * c = a * c + c
<1>1. b = a + (b - a) /\ b - a \in Nat
  OBVIOUS
<1>2. b * c = a * c + (b - a) * c /\ (b - a) * c \in Nat /\ a * c \in Nat
  BY <1>1
<1> QED  BY <1>2

LEMMA AppendIs ==
  ASSUME NEW B, NEW S \in Seq(B), NEW x \in B
  PROVE  /\ Append(S, x) \in Seq(B) /\ Len(Append(S, x)) = Len(S) + 1 /\ Len(S) \in Nat
         /\ \A i \in 1..Len(S) : Append(S, x)[i] = S[i]
         /\ Append(S, x)[Len(S) + 1] = x
OBVIOUS

LEMMA ConcatIs ==
  ASSUME NEW B, NEW S \in Seq(B), NEW T \in Seq(B)
  PROVE  /\ S \o T \in Seq(B) /\ Len(S \o T) = Len(S) + Len(T)
         /\ \A i \in 1..Len(S) : (S \o T)[i] = S[i]
         /\ \A i \in 1..Len(T) : (S \o T)[Len(S) + i] = T[i]
OBVIOUS

\* A message more: its fragments follow what there is.
LEMMA ChopMore ==
  ASSUME NEW S \in Seq(Nat), NEW F \in Seq(Frags), NEW st \in Seq(Nat), Chopped(S, F, st),
         NEW n \in 1..(WndRcv - 1), NEW add \in Seq(Frags),
         Len(add) = n, \A j \in 1..n : add[j] = Fragment(Len(S) + 1, j, n)
  PROVE  /\ Chopped(Append(S, n), F \o add, Append(st, Len(F) + n))
         /\ Append(st, Len(F) + n) \in Seq(Nat)
<1> DEFINE T == Append(S, n)
           G == F \o add
           ut == Append(st, Len(F) + n)
           len == Len(S)
           W == WndRcv - 1
<1>1. n \in Nat /\ n >= 1 /\ n <= W /\ W \in Nat /\ Len(F) \in Nat /\ len \in Nat
  BY KcpAssumption
<1>2. /\ T \in Seq(Nat) /\ Len(T) = len + 1 /\ T[len + 1] = n
      /\ \A i \in 1..len : T[i] = S[i]
  BY <1>1, AppendIs
<1>3. Len(st) = len + 1 /\ st[1] = 0 /\ st[len + 1] = Len(F)
  BY DEF Chopped
<1>4. /\ ut \in Seq(Nat) /\ Len(ut) = len + 2 /\ ut[len + 2] = Len(F) + n
      /\ \A i \in 1..(len + 1) : ut[i] = st[i]
  <2>1. Len(F) + n \in Nat
    BY <1>1
  <2>2. /\ ut \in Seq(Nat) /\ Len(ut) = Len(st) + 1 /\ ut[Len(st) + 1] = Len(F) + n
        /\ \A i \in 1..Len(st) : ut[i] = st[i]
    BY <2>1, AppendIs
  <2> HIDE DEF ut
  <2> QED  BY <1>1, <1>3, <2>2
<1>5. /\ Len(G) = Len(F) + n
      /\ \A j \in 1..Len(F) : G[j] = F[j]
      /\ \A j \in 1..n : G[Len(F) + j] = add[j]
  <2>1. /\ Len(G) = Len(F) + Len(add)
        /\ \A j \in 1..Len(F) : G[j] = F[j]
        /\ \A j \in 1..Len(add) : G[Len(F) + j] = add[j]
    <3>1. F \in Seq(Frags) /\ add \in Seq(Frags)
      OBVIOUS
    <3> QED  BY ONLY <3>1, ConcatIs DEF G
  <2> HIDE DEF G
  <2> QED  BY <2>1
<1>6. \A i \in 1..(len + 1) : st[i] \in Nat
  BY <1>3
<1> HIDE DEF T, G, ut, len, W
<1>7. Len(ut) = Len(T) + 1 /\ ut[1] = 0 /\ ut[Len(T) + 1] = Len(G)
  BY <1>1, <1>2, <1>3, <1>4, <1>5
<1>8. ASSUME NEW i \in 1..Len(T)
      PROVE  /\ T[i] \in 1..(WndRcv - 1) /\ ut[i + 1] = ut[i] + T[i]
             /\ \A j \in 1..T[i] : G[ut[i] + j] = Fragment(i, j, T[i])
  <2>1. CASE i <= len
    <3>1. i \in 1..len /\ i \in 1..(len + 1) /\ i + 1 \in 1..(len + 1)
      BY <1>1, <1>2, <2>1
    <3>2. /\ S[i] \in 1..(WndRcv - 1) /\ st[i + 1] = st[i] + S[i]
          /\ \A j \in 1..S[i] : F[st[i] + j] = Fragment(i, j, S[i])
      BY <3>1 DEF Chopped, len
    <3>3. T[i] = S[i] /\ ut[i] = st[i] /\ ut[i + 1] = st[i + 1]
      BY <1>2, <1>4, <3>1
    <3>4. st[i + 1] <= Len(F) /\ st[i] \in Nat
      <4>1. len + 1 \in 1..(len + 1) /\ i + 1 <= len + 1
        BY <1>1, <3>1
      <4>2. st[i + 1] <= st[len + 1]
        BY <3>1, <4>1 DEF Chopped, len
      <4> QED  BY <1>3, <1>6, <3>1, <4>2
    <3>5. ASSUME NEW j \in 1..S[i] PROVE G[st[i] + j] = Fragment(i, j, S[i])
      <4>1. st[i] + j \in 1..Len(F)
        <5>1. S[i] \in Nat
          BY <1>1, <3>2 DEF W
        <5>2. st[i] + S[i] <= Len(F)
          BY <3>2, <3>4
        <5> DEFINE x == st[i]
                   y == S[i]
                   z == Len(F)
        <5>3. x \in Nat /\ y \in Nat /\ z \in Nat /\ x + y <= z /\ j \in 1..y
          BY <1>1, <3>4, <5>1, <5>2
        <5> HIDE DEF x, y, z
        <5>4. x + j \in 1..z
          BY ONLY <5>3
        <5> QED  BY <5>4 DEF x, z
      <4> QED  BY <1>5, <3>2, <4>1
    <3> QED  BY <3>2, <3>3, <3>5
  <2>2. CASE i > len
    <3>1. i = len + 1 /\ i + 1 = len + 2 /\ i \in 1..(len + 1)
      BY <1>1, <1>2, <2>2
    <3>2. T[i] = n /\ ut[i] = Len(F) /\ ut[i + 1] = Len(F) + n
      BY <1>2, <1>3, <1>4, <3>1
    <3>3. \A j \in 1..n : G[Len(F) + j] = Fragment(i, j, n)
      BY <1>5, <3>1 DEF len
    <3> QED  BY <3>2, <3>3
  <2> QED  BY <1>1, <2>1, <2>2
<1>9. ASSUME NEW i \in 1..(Len(T) + 1) PROVE ut[i] <= (i - 1) * W
  <2>1. CASE i <= len + 1
    <3>1. i \in 1..(len + 1)
      BY <1>1, <1>2, <2>1
    <3> QED  BY <1>4, <3>1 DEF Chopped, len, W
  <2>2. CASE i > len + 1
    <3>1. i = len + 2 /\ i - 1 = len + 1 /\ len + 1 \in 1..(len + 1) /\ (len + 1) - 1 = len
      BY <1>1, <1>2, <2>2
    <3> DEFINE c == len * W
               e == (len + 1) * W
    <3>2. Len(F) <= c
      <4>1. st[len + 1] <= ((len + 1) - 1) * W
        BY <3>1 DEF Chopped, len, W
      <4> QED  BY <1>3, <3>1, <4>1
    <3>3. e = c + W /\ c \in Nat
      BY <1>1, MulMore
    <3>4. ut[i] = Len(F) + n
      BY <1>4, <3>1
    <3> HIDE DEF c, e
    <3>5. ut[i] <= e
      BY <1>1, <3>2, <3>3, <3>4
    <3> QED  BY <3>1, <3>5 DEF e
  <2> QED  BY <1>1, <1>2, <2>1, <2>2
<1>10. ASSUME NEW i \in 1..(Len(T) + 1), NEW j \in 1..(Len(T) + 1), i <= j PROVE ut[i] <= ut[j]
  <2>1. \A h \in 1..(len + 1) : st[h] <= Len(F) /\ st[h] \in Nat
    <3> TAKE h \in 1..(len + 1)
    <3>1. len + 1 \in 1..(len + 1) /\ h <= len + 1
      BY <1>1
    <3>2. st[h] <= st[len + 1]
      BY <3>1 DEF Chopped, len
    <3> QED  BY <1>3, <1>6, <3>2
  <2>2. CASE j <= len + 1
    <3>1. i \in 1..(len + 1) /\ j \in 1..(len + 1)
      BY <1>1, <1>2, <1>10, <2>2
    <3>2. st[i] <= st[j]
      BY <1>10, <3>1 DEF Chopped, len
    <3> QED  BY <1>4, <3>1, <3>2
  <2>3. CASE j > len + 1
    <3>1. j = len + 2 /\ (i = j \/ i \in 1..(len + 1))
      BY <1>1, <1>2, <1>10, <2>3
    <3>2. ut[j] = Len(F) + n
      BY <1>4, <3>1
    <3>3. i \in 1..(len + 1) => ut[i] <= Len(F) /\ ut[i] \in Nat
      BY <1>4, <2>1
    <3> QED  BY <1>1, <3>1, <3>2, <3>3
  <2> QED  BY <1>1, <1>2, <2>2, <2>3
<1>11. Chopped(T, G, ut)
  BY <1>7, <1>8, <1>9, <1>10 DEF Chopped, W
<1> QED  BY <1>4, <1>11 DEF T, G, ut

LEMMA PrefixMore ==
  ASSUME NEW S \in Seq(Nat), NEW n \in Nat, NEW g, Len(g) \in Nat, Prefix(S, g)
  PROVE  Prefix(Append(S, n), g)
<1> DEFINE T == Append(S, n)
<1>1. Len(T) = Len(S) + 1 /\ Len(S) \in Nat /\ \A i \in 1..Len(S) : T[i] = S[i]
  BY AppendIs
<1> HIDE DEF T
<1>2. Len(g) <= Len(T) /\ \A m \in 1..Len(g) : T[m] = S[m]
  BY <1>1 DEF Prefix
<1>3. \A m \in 1..Len(g) : g[m] = [j \in 1..T[m] |-> <<m, j>>]
  BY <1>2 DEF Prefix
<1> QED  BY <1>2, <1>3 DEF Prefix, T

\* ikcp_send puts the fragments of a message at the end of the stream.
LEMMA SendMsgFlow ==
  ASSUME UsesLessThanHalf, Windows, Flow, NEW p \in Peers, NEW n \in Lens, SendMsg(p, n)
  PROVE  Flow'
<1> DEFINE q == Other(p)
           S == sent[p]
           i == Len(S) + 1
           add == [j \in 1..n |-> Fragment(i, j, n)]
           Q == kcb[p].sndQueue \o add
           k == [kcb[p] EXCEPT !.sndQueue = Q]
           T == Append(S, n)
<1>1. PICK F \in [Peers -> Streams], st \in [Peers -> Seq(Nat)] : \A r \in Peers : FlowOf(r, F, st)
  BY DEF Flow
<1>2. q \in Peers /\ q # p /\ Other(q) = p /\ \A r \in Peers : r = p \/ r = q
  BY OtherOther
<1>3. /\ kcb' = [kcb EXCEPT ![p] = k] /\ sent' = [sent EXCEPT ![p] = T]
      /\ net' = net /\ got' = got /\ n < WndRcv /\ Len(S) < MaxMsgs[p]
  BY DEF SendMsg, Windows
<1>4. /\ kcb'[p] = k /\ kcb'[q] = kcb[q] /\ sent'[p] = T /\ sent'[q] = sent[q]
      /\ net'[p] = net[p] /\ net'[q] = net[q] /\ got'[p] = got[p] /\ got'[q] = got[q]
  BY <1>2, <1>3 DEF Windows
<1>5. n \in Nat /\ n \in 1..(WndRcv - 1) /\ S \in Seq(Nat) /\ i \in Nat /\ Len(S) \in Nat
      /\ kcb[p] \in Kcbs /\ kcb[p].sndQueue \in Seq(Frags) /\ Len(got[q]) \in Nat
      /\ MaxMsgs[p] \in Nat
  <2>1. S \in Seq(Nat) /\ i \in Nat /\ Len(S) \in Nat
    BY DEF Windows
  <2>2. n \in Nat /\ n \in 1..(WndRcv - 1) /\ MaxMsgs[p] \in Nat
    BY <1>3, KcpAssumption
  <2>3. kcb[p] \in Kcbs /\ Len(got[q]) \in Nat
    BY <1>2 DEF Windows, Sound
  <2> QED  BY <2>1, <2>2, <2>3, FieldTypes
<1>6. add \in Seq(Frags) /\ Len(add) = n /\ \A j \in 1..n : add[j] = Fragment(i, j, n)
  <2>1. ASSUME NEW j \in 1..n PROVE Fragment(i, j, n) \in Frags
    <3>1. n - j \in Nat /\ j \in Nat
      BY <1>5
    <3> HIDE DEF i
    <3>2. <<i, j>> \in Datas
      BY <1>5, <3>1 DEF Datas
    <3> QED  BY <3>1, <3>2 DEF Fragment, Frags
  <2> HIDE DEF i
  <2>2. add \in Seq(Frags) /\ Len(add) = n
    <3>1. n \in Nat
      BY <1>5
    <3> QED  BY ONLY <2>1, <3>1 DEF add
  <2> QED  BY <2>2
<1> DEFINE G == F[p] \o add
           ut == Append(st[p], Len(F[p]) + n)
<1>7. F[p] \in Streams /\ F[p] \in Seq(Frags) /\ st[p] \in Seq(Nat) /\ FlowOf(p, F, st) /\ FlowOf(q, F, st)
  BY <1>1, <1>2 DEF Streams
<1>8. /\ Chopped(S, F[p], st[p]) /\ Prefix(S, got[q]) /\ Sending(F[p], Arrived(kcb[q]), kcb[p])
      /\ Receiving(F[p], st[p][Len(got[q]) + 1], kcb[q]) /\ Acked(kcb[q])
      /\ net[p] \in Seq(Seq(TrueSegs(Arrived(kcb[q]), F[q])))
  BY <1>7 DEF FlowOf, Flows
<1>9. /\ Chopped(sent[q], F[q], st[q]) /\ Prefix(sent[q], got[p])
      /\ Sending(F[q], Arrived(kcb[p]), kcb[q])
      /\ Receiving(F[q], st[q][Len(got[p]) + 1], kcb[p]) /\ Acked(kcb[p])
      /\ net[q] \in Seq(Seq(TrueSegs(Arrived(kcb[p]), F[p])))
  BY <1>2, <1>7 DEF FlowOf, Flows
<1> HIDE DEF add, q
<1>10. Chopped(T, G, ut) /\ ut \in Seq(Nat)
  BY <1>5, <1>6, <1>7, <1>8, ChopMore
<1>11. T \in Seq(Nat) /\ Len(T) = Len(S) + 1 /\ Len(T) <= MaxMsgs[p]
  <2>1. T \in Seq(Nat) /\ Len(T) = Len(S) + 1
    BY <1>5, AppendIs
  <2> HIDE DEF T
  <2> QED  BY <1>3, <1>5, <2>1
<1>12. G \in Streams /\ Len(G) = Len(F[p]) + n
  <2>1. G \in Seq(Frags) /\ Len(G) = Len(F[p]) + n
    BY <1>6, <1>7, ConcatIs
  <2> DEFINE W == WndRcv - 1
             a == Len(T) * W
             b == MaxMsgs[p] * W
  <2>2. Len(G) <= a
    <3> HIDE DEF T, G, ut
    <3>1. Len(T) + 1 \in 1..(Len(T) + 1) /\ (Len(T) + 1) - 1 = Len(T)
      BY <1>5, <1>11
    <3>2. ut[Len(T) + 1] = Len(G) /\ ut[Len(T) + 1] <= ((Len(T) + 1) - 1) * (WndRcv - 1)
      BY <1>10, <3>1 DEF Chopped
    <3> QED  BY <3>1, <3>2
  <2>3. a <= b
    <3>1. W \in Nat /\ Len(T) \in Nat
      BY <1>5, <1>11, KcpAssumption
    <3> HIDE DEF T, W
    <3> QED  BY <1>5, <1>11, <3>1, MulMore
  <2>4. b < Half
    BY DEF UsesLessThanHalf
  <2>5. a \in Int /\ b \in Int /\ Half \in Int
    <3>1. W \in Int /\ Len(T) \in Int
      BY <1>5, <1>11, KcpAssumption
    <3> HIDE DEF T, W
    <3> QED  BY <1>5, <3>1, Constants
  <2>6. Len(G) \in Nat
    BY <2>1
  <2> HIDE DEF a, b, G
  <2>7. Len(G) < Half
    BY <2>2, <2>3, <2>4, <2>5, <2>6
  <2> QED  BY <2>1, <2>7 DEF Streams
<1>13. PICK FF \in [Peers -> Streams], uu \in [Peers -> Seq(Nat)] :
         FF[p] = G /\ FF[q] = F[q] /\ uu[p] = ut /\ uu[q] = st[q]
  <2> HIDE DEF G, ut
  <2> DEFINE FF == [F EXCEPT ![p] = G]
             uu == [st EXCEPT ![p] = ut]
  <2>1. FF \in [Peers -> Streams] /\ FF[p] = G /\ FF[q] = F[q]
    BY <1>1, <1>2, <1>12
  <2>2. uu \in [Peers -> Seq(Nat)] /\ uu[p] = ut /\ uu[q] = st[q]
    BY <1>1, <1>2, <1>10
  <2> QED  BY <2>1, <2>2
<1>14. \A s : Carries(F[p], s) => Carries(G, s)
  <2> TAKE s
  <2>1. SUFFICES ASSUME Carries(F[p], s) PROVE Carries(G, s)
    OBVIOUS
  <2>2. Off(s.sn) \in 0..(Len(F[p]) - 1)
        /\ F[p][Off(s.sn) + 1] = [data |-> s.data, frg |-> s.frg]
    BY <2>1 DEF Carries
  <2> DEFINE x == Off(s.sn)
  <2> HIDE DEF x
  <2>3. x \in 0..(Len(F[p]) - 1) /\ Len(F[p]) \in Nat
    BY <1>7, <2>2 DEF x
  <2>4. x + 1 \in 1..Len(F[p]) /\ x \in 0..(Len(G) - 1)
    BY <1>5, <1>12, <2>3
  <2>5. G[x + 1] = F[p][x + 1]
    BY <1>6, <1>7, <2>4, ConcatIs
  <2> HIDE DEF G
  <2> QED  BY <2>2, <2>4, <2>5 DEF Carries, x
<1>15. /\ k.sndQueue = Q /\ k.sndBuf = kcb[p].sndBuf /\ k.sndNxt = kcb[p].sndNxt
       /\ SameRecv(kcb[p], k) /\ k.ackList = kcb[p].ackList
  <2> HIDE DEF Q
  <2> QED  BY <1>5 DEF Kcbs, SameRecv
<1> DEFINE A == Arrived(kcb[q])
           X == Off(kcb[p].sndNxt)
<1> HIDE DEF k
<1>16. Sending(G, A, k)
  <2>1. X \in 0..Len(F[p]) /\ kcb[p].sndQueue = SubSeq(F[p], X + 1, Len(F[p]))
    BY <1>8 DEF Sending
  <2>2. Q = SubSeq(G, X + 1, Len(G))
    <3>1. Len(F[p]) \in X..Len(F[p])
      <4> HIDE DEF X
      <4> QED  BY <1>7, <2>1
    <3>2. X \in 0..Len(F[p])
      BY <2>1
    <3> HIDE DEF X
    <3>3. SubSeq(F[p], X + 1, Len(F[p])) \o add = SubSeq(F[p] \o add, X + 1, Len(F[p]) + Len(add))
      BY <1>6, <1>7, <3>1, <3>2, SubSeqGrow
    <3> QED  BY <1>6, <1>12, <2>1, <3>3
  <2>3. X \in 0..Len(G)
    <3>1. Len(F[p]) \in Nat
      BY <1>7
    <3> HIDE DEF X, G
    <3> QED  BY <1>5, <1>12, <2>1, <3>1
  <2>4. \A s \in kcb[p].sndBuf : Carries(G, s)
    BY <1>8, <1>14 DEF Sending
  <2>5. \A x \in 0..(X - 1) : x \in A \/ \E s \in kcb[p].sndBuf : Off(s.sn) = x
    BY <1>8 DEF Sending
  <2> HIDE DEF G, Q
  <2> QED  BY <1>15, <2>2, <2>3, <2>4, <2>5 DEF Sending
<1> DEFINE D == st[p][Len(got[q]) + 1]
           R == Off(kcb[q].rcvNxt)
<1>17. Receiving(G, ut[Len(got[q]) + 1], kcb[q])
  <2>1. ut[Len(got[q]) + 1] = D
    <3>1. Len(got[q]) + 1 \in 1..Len(st[p])
      <4>1. Len(st[p]) = Len(S) + 1 /\ Len(got[q]) <= Len(S)
        BY <1>8 DEF Chopped, Prefix
      <4> HIDE DEF S
      <4> QED  BY <1>5, <4>1
    <3>2. Len(F[p]) + n \in Nat
      BY <1>5, <1>7
    <3> QED  BY <1>7, <3>1, <3>2, AppendIs
  <2>2. D \in Nat
    BY <1>5, <1>7, <1>8, StartIs
  <2>3. R \in D..Len(F[p]) /\ kcb[q].rcvQueue = SubSeq(F[p], D + 1, R)
    BY <1>8 DEF Receiving
  <2>4. SubSeq(G, D + 1, R) = SubSeq(F[p], D + 1, R) /\ R \in D..Len(G)
    <3>1. Len(F[p]) \in Nat
      BY <1>7
    <3> HIDE DEF D, R
    <3>2. D \in 0..Len(F[p]) /\ R \in D..Len(G)
      BY <1>5, <1>12, <2>2, <2>3, <3>1
    <3> QED  BY <1>6, <1>7, <2>3, <3>2, SubSeqGrow
  <2>5. \A s \in kcb[q].rcvBuf : Carries(G, s)
    BY <1>8, <1>14 DEF Receiving
  <2> HIDE DEF G, D
  <2>6. Receiving(G, D, kcb[q])
    BY <2>3, <2>4, <2>5 DEF Receiving
  <2> QED  BY <2>1, <2>6
<1>18. Prefix(T, got[q])
  BY <1>5, <1>8, PrefixMore
<1>19. Arrived(k) = Arrived(kcb[p]) /\ Receiving(F[q], st[q][Len(got[p]) + 1], k) /\ Acked(k)
  <2>1. Arrived(k) = Arrived(kcb[p]) /\ Receiving(F[q], st[q][Len(got[p]) + 1], k)
    BY <1>9, <1>15, ReceivingSame
  <2> QED  BY <1>9, <1>15, <2>1 DEF Acked
<1>20. net[q] \in Seq(Seq(TrueSegs(Arrived(k), G)))
  <2> HIDE DEF G
  <2> QED  BY <1>9, <1>14, <1>19, NetMore
<1> HIDE DEF G, ut, T
<1>21. FlowOf(p, FF, uu)'
  <2>1. Flows(T, k, kcb[q], got[q], net[p], G, F[q], ut)
    BY <1>8, <1>10, <1>16, <1>17, <1>18 DEF Flows
  <2>2. FlowOf(p, FF, uu)' = Flows(sent'[p], kcb'[p], kcb'[q], got'[q], net'[p], FF[p], FF[q], uu[p])
    BY DEF FlowOf, q
  <2> QED  BY <1>4, <1>13, <2>1, <2>2
<1>22. FlowOf(q, FF, uu)'
  <2>1. Flows(sent[q], kcb[q], k, got[p], net[q], F[q], G, st[q])
    BY <1>9, <1>19, <1>20 DEF Flows
  <2>2. FlowOf(q, FF, uu)' = Flows(sent'[q], kcb'[q], kcb'[p], got'[p], net'[q], FF[q], FF[p], uu[q])
    BY <1>2 DEF FlowOf
  <2> QED  BY <1>4, <1>13, <2>1, <2>2
<1>23. \A r \in Peers : Len(sent'[r]) <= MaxMsgs[r]
  BY <1>2, <1>4, <1>11 DEF Flow
<1>24. \A r \in Peers : FlowOf(r, FF, uu)'
  BY <1>2, <1>21, <1>22
<1> QED  BY <1>13, <1>23, <1>24 DEF Flow

-----------------------------------------------------------------------------
(* ikcp_recv takes one message. *)

\* What ikcp_recv takes of rcv_queue is the next message, all of it and no more.
LEMMA TakesMessage ==
  ASSUME NEW S \in Seq(Nat), NEW F \in Streams, NEW st \in Seq(Nat), Chopped(S, F, st),
         NEW c \in Nat, c <= Len(S), NEW k \in Kcbs, Complete(k), st[c + 1] \in Nat,
         Receiving(F, st[c + 1], k)
  PROVE  /\ c + 1 <= Len(S) /\ Taken(k) = S[c + 1] /\ st[c + 2] = st[c + 1] + S[c + 1]
         /\ S[c + 1] <= Len(k.rcvQueue)
         /\ \A j \in 1..S[c + 1] : k.rcvQueue[j].data = <<c + 1, j>>
<1> DEFINE m == c + 1
           D == st[m]
           R == Off(k.rcvNxt)
           Q == k.rcvQueue
           n == Taken(k)
<1>1. Q \in Seq(Frags) /\ Q # <<>> /\ Len(Q) \in Nat /\ Len(Q) >= 1
  <2>1. Q \in Seq(Frags) /\ Q # <<>>
    BY FieldTypes DEF Complete
  <2> HIDE DEF Q
  <2> QED  BY <2>1
<1>2. /\ Q = SubSeq(F, D + 1, R) /\ R \in D..Len(F) /\ D \in Nat
      /\ F \in Seq(Frags) /\ Len(F) \in Nat /\ Len(S) \in Nat
  BY DEF Receiving, Streams
<1>3. Len(Q) = R - D /\ \A j \in 1..(R - D) : Q[j] = F[D + j]
  <2> HIDE DEF D, R, Q
  <2>1. D \in 0..Len(F) /\ 0 \in 0..(R - D)
    BY <1>2
  <2> QED  BY <1>2, <2>1, SubSeqRest
<1>4. m \in 1..Len(S)
  <2>1. SUFFICES ASSUME m = Len(S) + 1 PROVE FALSE
    BY <1>2
  <2>2. D = Len(F)
    BY <2>1 DEF Chopped
  <2> HIDE DEF D, R, Q
  <2> QED  BY <1>1, <1>2, <1>3, <2>2
<1> DEFINE z == S[m]
<1>5. /\ z \in 1..(WndRcv - 1) /\ st[m + 1] = D + z
      /\ \A j \in 1..z : F[D + j] = Fragment(m, j, z)
  BY <1>4 DEF Chopped
<1>6. z \in Nat /\ z >= 1
  <2> HIDE DEF z
  <2> QED  BY <1>5, KcpAssumption
<1> HIDE DEF D, R, z, n
<1>7. ASSUME NEW j \in 1..z, j <= Len(Q) PROVE Q[j] = Fragment(m, j, z)
  <2>1. j \in 1..(R - D)
    BY <1>1, <1>3, <1>6, <1>7
  <2> QED  BY <1>3, <1>5, <2>1
<1>8. ASSUME NEW j \in 1..z, j <= Len(Q) PROVE Q[j].frg = z - j /\ Q[j].data = <<m, j>>
  <2> HIDE DEF m, Q
  <2>1. Q[j] = Fragment(m, j, z)
    BY <1>7, <1>8
  <2>2. Fragment(m, j, z).frg = z - j /\ Fragment(m, j, z).data = <<m, j>>
    BY DEF Fragment
  <2> QED  BY <2>1, <2>2
<1>9. z <= Len(Q)
  <2>1. Head(Q) = Q[1] /\ Len(Q) >= Head(Q).frg + 1
    <3>1. Len(Q) >= Head(Q).frg + 1
      BY DEF Complete
    <3> HIDE DEF Q
    <3> QED  BY <1>1, <3>1
  <2>2. Q[1].frg = z - 1
    BY <1>1, <1>6, <1>8
  <2> HIDE DEF Q
  <2> QED  BY <1>1, <1>6, <2>1, <2>2
<1>10. /\ n \in 1..Len(Q)
       /\ \A j \in 1..(n - 1) : Q[j].frg # 0
       /\ n < Len(Q) => Q[n].frg = 0
  BY <1>1, TakenIs DEF n
<1> HIDE DEF Q
<1>11. Q[z].frg = 0
  <2>2. z \in 1..z
    BY <1>6
  <2>1. Q[z].frg = z - z
    BY <1>8, <1>9, <2>2
  <2> QED  BY <1>6, <2>1
<1>12. n <= z
  <2>1. SUFFICES ASSUME n > z PROVE FALSE
    BY <1>1, <1>6, <1>10
  <2>2. z \in 1..(n - 1)
    BY <1>1, <1>6, <1>10, <2>1
  <2> QED  BY <1>10, <1>11, <2>2
<1>13. n = z
  <2>1. SUFFICES ASSUME n < z PROVE FALSE
    BY <1>1, <1>6, <1>10, <1>12
  <2>2. n \in 1..z /\ n < Len(Q) /\ n <= Len(Q)
    BY <1>1, <1>6, <1>9, <1>10, <2>1
  <2>3. Q[n].frg = z - n /\ Q[n].frg = 0
    BY <1>8, <1>10, <2>2
  <2> QED  BY <1>1, <1>6, <1>10, <2>1, <2>3
<1>14. \A j \in 1..z : Q[j].data = <<m, j>>
  <2> TAKE j \in 1..z
  <2>1. j <= Len(Q)
    BY <1>1, <1>6, <1>9
  <2> QED  BY <1>8, <2>1
<1>15. m + 1 = c + 2 /\ c + 1 <= Len(S)
  BY <1>4
<1> QED  BY <1>5, <1>9, <1>13, <1>14, <1>15 DEF D, z, n, Q

LEMMA RecvFlow ==
  ASSUME Windows, Flow, NEW p \in Peers, Recv(p)
  PROVE  Flow' /\ \E m \in Nat : /\ m = Len(got[p]) + 1 /\ m <= Len(sent[Other(p)])
                                 /\ got' = [got EXCEPT ![p] =
                                      Append(@, [j \in 1..sent[Other(p)][m] |-> <<m, j>>])]
                                 /\ sent' = sent
<1> DEFINE q == Other(p)
           k == kcb[p]
           n == Taken(k)
           Q == SubSeq(k.rcvQueue, n + 1, Len(k.rcvQueue))
           l == [k EXCEPT !.rcvQueue = Q]
           moved == MoveAvailable(l)
           told == [moved EXCEPT !.probe = @ \cup {"tell"}]
           msg == [j \in 1..n |-> k.rcvQueue[j].data]
           c == Len(got[p])
           S == sent[q]
           g == Append(got[p], msg)
<1>1. PICK F \in [Peers -> Streams], st \in [Peers -> Seq(Nat)] : \A r \in Peers : FlowOf(r, F, st)
  BY DEF Flow
<1>2. q \in Peers /\ q # p /\ Other(q) = p /\ \A r \in Peers : r = p \/ r = q
  BY OtherOther
<1>3. /\ got' = [got EXCEPT ![p] = g]
      /\ kcb' = [kcb EXCEPT ![p] = told] \/ kcb' = [kcb EXCEPT ![p] = moved]
      /\ net' = net /\ sent' = sent /\ Complete(k)
  BY DEF Recv, Taken
<1>4. /\ k \in Sound /\ k \in Kcbs /\ k.rcvQueue \in Seq(Frags) /\ RecvSound(k)
      /\ S \in Seq(Nat) /\ c \in Nat /\ got[p] \in Seq(Seq(Datas))
  <2>1. k \in Sound /\ k \in Kcbs /\ RecvSound(k)
    BY DEF Windows, Sound
  <2>2. S \in Seq(Nat) /\ c \in Nat /\ got[p] \in Seq(Seq(Datas))
    BY <1>2 DEF Windows
  <2> QED  BY <2>1, <2>2, FieldTypes
<1>5. F[p] \in Streams /\ F[q] \in Streams /\ st[q] \in Seq(Nat) /\ FlowOf(p, F, st) /\ FlowOf(q, F, st)
  BY <1>1, <1>2
<1>6. /\ Chopped(sent[p], F[p], st[p]) /\ Prefix(sent[p], got[q]) /\ Sending(F[p], Arrived(kcb[q]), k)
      /\ Receiving(F[p], st[p][Len(got[q]) + 1], kcb[q]) /\ Acked(kcb[q])
      /\ net[p] \in Seq(Seq(TrueSegs(Arrived(kcb[q]), F[q])))
  BY <1>5 DEF FlowOf, Flows
<1>7. /\ Chopped(S, F[q], st[q]) /\ Prefix(S, got[p])
      /\ Sending(F[q], Arrived(k), kcb[q])
      /\ Receiving(F[q], st[q][c + 1], k) /\ Acked(k)
      /\ net[q] \in Seq(Seq(TrueSegs(Arrived(k), F[p])))
  BY <1>2, <1>5 DEF FlowOf, Flows
<1>8. st[q][c + 1] \in Nat /\ c <= Len(S)
  BY <1>4, <1>5, <1>7, StartIs DEF Prefix
<1> HIDE DEF S, c, k, q, n
<1>9. /\ c + 1 <= Len(S) /\ n = S[c + 1] /\ st[q][c + 2] = st[q][c + 1] + S[c + 1]
      /\ S[c + 1] <= Len(k.rcvQueue)
      /\ \A j \in 1..S[c + 1] : k.rcvQueue[j].data = <<c + 1, j>>
  <2>1. Complete(k) /\ Receiving(F[q], st[q][c + 1], k) /\ Chopped(S, F[q], st[q])
    BY <1>3, <1>7
  <2> DEFINE G == F[q]
             u == st[q]
  <2>2. G \in Streams /\ u \in Seq(Nat) /\ u[c + 1] \in Nat /\ c <= Len(S) /\ c \in Nat
        /\ S \in Seq(Nat) /\ k \in Kcbs /\ Complete(k) /\ Receiving(G, u[c + 1], k) /\ Chopped(S, G, u)
    BY <1>4, <1>5, <1>8, <2>1
  <2> HIDE DEF G, u
  <2>3. /\ c + 1 <= Len(S) /\ Taken(k) = S[c + 1] /\ u[c + 2] = u[c + 1] + S[c + 1]
        /\ S[c + 1] <= Len(k.rcvQueue)
        /\ \A j \in 1..S[c + 1] : k.rcvQueue[j].data = <<c + 1, j>>
    BY <2>2, TakesMessage
  <2> QED  BY <2>3 DEF n, u
<1>10. msg = [j \in 1..S[c + 1] |-> <<c + 1, j>>]
  BY <1>9
<1>11. n \in Nat /\ n <= Len(k.rcvQueue) /\ Len(k.rcvQueue) \in Nat
  <2>1. c + 1 \in 1..Len(S)
    BY <1>4, <1>9
  <2>2. S[c + 1] \in Nat
    BY <1>4, <2>1
  <2>3. Len(k.rcvQueue) \in Nat
    BY <1>4
  <2> QED  BY <1>9, <2>2, <2>3
<1> DEFINE D == st[q][c + 1]
           R == Off(k.rcvNxt)
<1>12. /\ Q = SubSeq(F[q], (D + n) + 1, R) /\ R \in (D + n)..Len(F[q]) /\ D + n \in Nat
       /\ Len(Q) <= Len(k.rcvQueue) /\ Len(Q) \in Nat /\ Q \in Seq(Frags)
  <2>1. /\ k.rcvQueue = SubSeq(F[q], D + 1, R) /\ R \in D..Len(F[q])
        /\ F[q] \in Seq(Frags) /\ Len(F[q]) \in Nat /\ D \in Nat
    BY <1>5, <1>7, <1>8 DEF Receiving, Streams
  <2>2. Len(Q) <= Len(k.rcvQueue) /\ Len(Q) \in Nat /\ Q \in Seq(Frags)
    BY <1>4, <1>11
  <2> HIDE DEF D, R
  <2>3. D \in 0..Len(F[q]) /\ 0 \in 0..(R - D)
    BY <2>1
  <2>4. Len(k.rcvQueue) = R - D
    BY <2>1, <2>3, SubSeqRest
  <2>5. n \in 0..(R - D)
    BY <2>1, <2>4, <1>11
  <2>6. Q = SubSeq(F[q], (D + n) + 1, R)
    BY <2>1, <2>3, <2>5, SubSeqRest
  <2>7. R \in (D + n)..Len(F[q]) /\ D + n \in Nat
    BY <2>1, <2>5
  <2> QED  BY <2>2, <2>6, <2>7
<1> HIDE DEF Q, D
<1>13. /\ l \in Kcbs /\ l.rcvQueue = Q /\ l.rcvBuf = k.rcvBuf /\ l.rcvNxt = k.rcvNxt
       /\ SameSend(k, l) /\ l.ackList = k.ackList
  BY <1>4, <1>12 DEF Kcbs, SameSend
<1> HIDE DEF l
<1>14. Receiving(F[q], D + n, l) /\ Arrived(l) = Arrived(k)
  BY <1>7, <1>12, <1>13 DEF Receiving, Arrived
<1>15. IsFiniteSet(l.rcvBuf) /\ Len(l.rcvQueue) <= RcvWindow
  <2>1. IsFiniteSet(k.rcvBuf) /\ Len(k.rcvQueue) <= RcvWindow
    BY <1>4 DEF RecvSound
  <2>2. Len(Q) <= RcvWindow
    BY <1>11, <1>12, <2>1, Constants
  <2> QED  BY <1>13, <2>1, <2>2
<1>16. /\ Receiving(F[q], D + n, moved) /\ Arrived(l) \subseteq Arrived(moved)
       /\ SameSend(l, moved) /\ moved.ackList = l.ackList
  BY <1>5, <1>12, <1>13, <1>14, <1>15, MoveReceives
<1>17. kcb'[p] \in Kcbs /\ SameSend(moved, kcb'[p]) /\ SameRecv(moved, kcb'[p])
       /\ kcb'[p].ackList = moved.ackList
  <2>1. Windows'
    BY RecvWindows
  <2>2. kcb'[p] \in Kcbs
    BY <2>1 DEF Windows, Sound
  <2>3. kcb'[p] = told \/ kcb'[p] = moved
    <3> HIDE DEF told, moved
    <3> QED  BY <1>3 DEF Windows
  <2>4. /\ told.sndQueue = moved.sndQueue /\ told.sndBuf = moved.sndBuf /\ told.sndNxt = moved.sndNxt
        /\ told.rcvQueue = moved.rcvQueue /\ told.rcvBuf = moved.rcvBuf /\ told.rcvNxt = moved.rcvNxt
        /\ told.ackList = moved.ackList
    <3> HIDE DEF moved
    <3> QED  OBVIOUS
  <2> HIDE DEF told, moved
  <2> QED  BY <2>2, <2>3, <2>4 DEF SameSend, SameRecv
<1> HIDE DEF moved, told
<1>18. PICK x : x = kcb'[p]
  OBVIOUS
<1>19. Receiving(F[q], D + n, x) /\ Arrived(k) \subseteq Arrived(x) /\ SameSend(k, x) /\ Acked(x)
  <2>1. Receiving(F[q], D + n, x) /\ Arrived(x) = Arrived(moved)
    BY <1>16, <1>17, <1>18, ReceivingSame
  <2>2. SameSend(k, x)
    BY <1>13, <1>16, <1>17, <1>18 DEF SameSend
  <2>3. Arrived(k) \subseteq Arrived(x) /\ x.ackList = k.ackList
    BY <1>13, <1>14, <1>16, <1>17, <1>18, <2>1
  <2>4. Acked(x)
    BY <1>7, <2>3, AckedGrows
  <2> QED  BY <2>1, <2>2, <2>3, <2>4
<1>20. msg \in Seq(Datas)
  <2>1. \A j \in 1..n : k.rcvQueue[j] \in Frags
    BY <1>4, <1>11
  <2>2. \A j \in 1..n : k.rcvQueue[j].data \in Datas
    BY <2>1 DEF Frags
  <2> QED  BY <1>11, <2>2
<1> HIDE DEF msg
<1>21. Len(g) = c + 1 /\ g[c + 1] = msg /\ \A m \in 1..c : g[m] = got[p][m]
  <2>1. /\ Len(g) = Len(got[p]) + 1 /\ g[Len(got[p]) + 1] = msg
        /\ \A m \in 1..Len(got[p]) : g[m] = got[p][m]
    BY <1>4, <1>20, AppendIs
  <2> QED  BY <2>1 DEF c
<1> HIDE DEF g
<1>22. Prefix(S, g)
  <2>1. ASSUME NEW m \in 1..Len(g) PROVE g[m] = [j \in 1..S[m] |-> <<m, j>>]
    <3>1. CASE m = c + 1
      BY <1>10, <1>21, <3>1
    <3>2. CASE m # c + 1
      <4>1. m \in 1..c
        BY <1>4, <1>21, <3>2
      <4>2. got[p][m] = [j \in 1..S[m] |-> <<m, j>>]
        BY <1>7, <4>1 DEF Prefix, c
      <4> QED  BY <1>21, <4>1, <4>2
    <3> QED  BY <3>1, <3>2
  <2> QED  BY <1>9, <1>21, <2>1 DEF Prefix
<1>23. st[q][Len(g) + 1] = D + n
  <2>1. Len(g) + 1 = c + 2
    BY <1>4, <1>21
  <2> QED  BY <1>9, <2>1 DEF D
<1>24. /\ kcb'[q] = kcb[q] /\ got'[p] = g /\ got'[q] = got[q]
  BY <1>2, <1>3 DEF Windows
<1>25. FlowOf(p, F, st)'
  <2>1. Sending(F[p], Arrived(kcb[q]), x)
    BY <1>6, <1>19, SendingSame
  <2>2. Flows(sent[p], x, kcb[q], got[q], net[p], F[p], F[q], st[p])
    BY <1>6, <2>1 DEF Flows
  <2>3. FlowOf(p, F, st)' = Flows(sent'[p], kcb'[p], kcb'[q], got'[q], net'[p], F[p], F[q], st[p])
    BY DEF FlowOf, q
  <2> QED  BY <1>3, <1>18, <1>24, <2>2, <2>3
<1>26. FlowOf(q, F, st)'
  <2>1. Sending(F[q], Arrived(x), kcb[q])
    BY <1>7, <1>19, SendingMore
  <2>2. net[q] \in Seq(Seq(TrueSegs(Arrived(x), F[p])))
    BY <1>7, <1>19, NetMore
  <2>3. Receiving(F[q], st[q][Len(g) + 1], x)
    BY <1>19, <1>23
  <2>4. Flows(S, kcb[q], x, g, net[q], F[q], F[p], st[q])
    BY <1>7, <1>19, <1>22, <2>1, <2>2, <2>3 DEF Flows
  <2>5. FlowOf(q, F, st)' = Flows(sent'[q], kcb'[q], kcb'[p], got'[p], net'[q], F[q], F[p], st[q])
    BY <1>2 DEF FlowOf
  <2> QED  BY <1>3, <1>18, <1>24, <2>4, <2>5 DEF S
<1>27. Flow'
  <2>1. \A r \in Peers : FlowOf(r, F, st)'
    BY <1>2, <1>25, <1>26
  <2>2. \A r \in Peers : Len(sent'[r]) <= MaxMsgs[r]
    BY <1>3 DEF Flow
  <2> QED  BY <2>1, <2>2 DEF Flow
<1>28. /\ c + 1 \in Nat /\ c + 1 <= Len(S) /\ sent' = sent
       /\ got' = [got EXCEPT ![p] = Append(@, [j \in 1..S[c + 1] |-> <<c + 1, j>>])]
  <2>1. g = Append(got[p], [j \in 1..S[c + 1] |-> <<c + 1, j>>])
    BY <1>10 DEF g
  <2>2. got' = [got EXCEPT ![p] = Append(@, [j \in 1..S[c + 1] |-> <<c + 1, j>>])]
    <3>1. got' = [got EXCEPT ![p] = g]
      BY <1>3
    <3> QED  BY ONLY <2>1, <3>1
  <2>3. c + 1 \in Nat
    BY <1>4
  <2> QED  BY <1>3, <1>9, <2>2, <2>3
<1> QED  BY <1>27, <1>28 DEF c, S, q

-----------------------------------------------------------------------------
(* The flow, from the start. *)

\* No message has been sent: both streams are empty.
LEMMA FlowInit == Init => Flow
<1> SUFFICES ASSUME Init PROVE Flow
  OBVIOUS
<1> DEFINE e == <<>>
           z == <<0>>
           F == [p \in Peers |-> e]
           st == [p \in Peers |-> z]
<1>1. /\ kcb = [p \in Peers |-> NewKcb] /\ net = [p \in Peers |-> e]
      /\ sent = [p \in Peers |-> e] /\ got = [p \in Peers |-> e]
  BY DEF Init
<1>2. /\ e \in Seq(Frags) /\ Len(e) = 0 /\ SubSeq(e, 1, 0) = e /\ DOMAIN e = {} /\ e \in Seq(Seq(NetSegs))
      /\ \A A, G : e \in Seq(Seq(TrueSegs(A, G)))
      /\ z \in Seq(Nat) /\ Len(z) = 1 /\ z[1] = 0
  OBVIOUS
<1>3. 0 < Half /\ 0 \in Nat /\ 0 * (WndRcv - 1) = 0
  BY Constants
<1>4. /\ NewKcb.sndQueue = e /\ NewKcb.sndBuf = {} /\ NewKcb.sndNxt = FirstSn
      /\ NewKcb.rcvQueue = e /\ NewKcb.rcvBuf = {} /\ NewKcb.rcvNxt = FirstSn
      /\ NewKcb.ackList = e
  BY DEF NewKcb
<1> HIDE DEF e, z
<1>5. e \in Streams
  BY <1>2, <1>3 DEF Streams
<1>6. F \in [Peers -> Streams] /\ st \in [Peers -> Seq(Nat)]
  BY <1>2, <1>5
<1>7. Off(FirstSn) = 0
  BY Constants, DiffSelf DEF Off
<1>8. Chopped(e, e, z)
  <2>1. \A i \in 1..Len(e) : FALSE
    BY <1>2
  <2>2. \A i \in 1..(Len(e) + 1) : i = 1
    BY <1>2
  <2>3. Len(z) = Len(e) + 1 /\ z[1] = 0 /\ z[Len(e) + 1] = Len(e)
    BY <1>2
  <2>4. \A i \in 1..(Len(e) + 1) : z[i] <= (i - 1) * (WndRcv - 1)
    <3> SUFFICES z[1] <= (1 - 1) * (WndRcv - 1)
      BY <2>2
    <3>1. 1 - 1 = 0
      OBVIOUS
    <3> QED  BY <1>2, <1>3, <3>1
  <2>5. \A i, j \in 1..(Len(e) + 1) : i <= j => z[i] <= z[j]
    BY <1>2, <2>2
  <2> QED  BY <2>1, <2>3, <2>4, <2>5 DEF Chopped
<1>9. Prefix(e, e)
  BY <1>2 DEF Prefix
<1>10. ASSUME NEW A PROVE Sending(e, A, NewKcb)
  <2>1. Off(NewKcb.sndNxt) = 0 /\ 0 \in 0..Len(e) /\ 0 + 1 = 1 /\ \A x \in 0..(0 - 1) : FALSE
    BY <1>2, <1>4, <1>7
  <2> QED  BY <1>2, <1>4, <2>1 DEF Sending
<1>11. Receiving(e, z[Len(e) + 1], NewKcb)
  <2>1. Off(NewKcb.rcvNxt) = 0 /\ z[Len(e) + 1] = 0 /\ 0 \in 0..Len(e) /\ 0 + 1 = 1
    BY <1>2, <1>4, <1>7
  <2> QED  BY <1>2, <1>4, <2>1 DEF Receiving
<1>12. Acked(NewKcb)
  BY <1>2, <1>4 DEF Acked
<1>13. Flows(e, NewKcb, NewKcb, e, e, e, e, z)
  BY <1>2, <1>8, <1>9, <1>10, <1>11, <1>12 DEF Flows
<1>14. ASSUME NEW p \in Peers PROVE FlowOf(p, F, st)
  <2>1. Other(p) \in Peers
    BY OtherOther
  <2> QED  BY <1>1, <1>13, <2>1 DEF FlowOf
<1>15. \A p \in Peers : Len(sent[p]) <= MaxMsgs[p]
  BY <1>1, <1>2, KcpAssumption
<1> QED  BY <1>6, <1>14, <1>15 DEF Flow

LEMMA FlowStep ==
  ASSUME UsesLessThanHalf, Windows, Flow, [Next]_vars
  PROVE  Flow'
<1>1. CASE Next
  <2>1. PICK p \in Peers :
          \/ \E n \in Lens : SendMsg(p, n)
          \/ Input(p) \/ Update(p) \/ Recv(p)
          \/ Expire(p) \/ ProbeExpire(p)
          \/ Lose(p) \/ Duplicate(p) \/ Overtake(p)
    BY <1>1 DEF Next
  <2> QED  BY <2>1, SendMsgFlow, InputFlow, UpdateFlow, RecvFlow, ExpireFlow, ProbeExpireFlow, FaultFlow
<1>2. CASE UNCHANGED vars
  <2>1. kcb' = kcb /\ net' = net /\ sent' = sent /\ got' = got
    BY <1>2 DEF vars
  <2>2. ASSUME NEW p, NEW F, NEW st PROVE FlowOf(p, F, st)' = FlowOf(p, F, st)
    BY <2>1 DEF FlowOf
  <2> QED  BY <2>1, <2>2 DEF Flow
<1> QED  BY <1>1, <1>2

-----------------------------------------------------------------------------
(* What the flow implies. *)

\* A fragment the sender waits for no more is with the receiver.
LEMMA FlowRetains ==
  ASSUME Windows, Flow
  PROVE  NothingForgotten
<1>1. PICK F \in [Peers -> Streams], st \in [Peers -> Seq(Nat)] : \A r \in Peers : FlowOf(r, F, st)
  BY DEF Flow
<1> SUFFICES ASSUME NEW p \in Peers, NEW i \in DOMAIN sent[p], NEW j \in 1..sent[p][i]
             PROVE  <<i, j>> \in Waiting(p) \cup Held(Other(p))
  BY DEF NothingForgotten
<1> DEFINE q == Other(p)
           S == sent[p]
           k == kcb[p]
           l == kcb[q]
           g == got[q]
           G == F[p]
           u == st[p]
           x == u[i] + j
           X == Off(k.sndNxt)
           R == Off(l.rcvNxt)
           D == u[Len(g) + 1]
<1>2. /\ q \in Peers /\ S \in Seq(Nat) /\ Len(g) \in Nat /\ G \in Streams /\ u \in Seq(Nat)
      /\ G \in Seq(Frags) /\ Len(G) \in Nat
  BY <1>1, OtherOther DEF Windows, Streams
<1>3. /\ Chopped(S, G, u) /\ Prefix(S, g) /\ Sending(G, Arrived(l), k) /\ Receiving(G, D, l)
  BY <1>1 DEF FlowOf, Flows
<1> HIDE DEF q, G, u
<1>4. i \in 1..Len(S) /\ Len(S) \in Nat /\ S[i] \in Nat /\ j \in 1..S[i] /\ j \in Nat /\ i \in Nat
  BY <1>2
<1> HIDE DEF S, g, k, l
<1>5. /\ Len(u) = Len(S) + 1 /\ u[Len(S) + 1] = Len(G) /\ u[i + 1] = u[i] + S[i]
      /\ G[x] = Fragment(i, j, S[i])
      /\ \A a, b \in 1..(Len(S) + 1) : a <= b => u[a] <= u[b]
  BY <1>3, <1>4 DEF Chopped
<1>6. u[i] \in Nat /\ u[i + 1] \in Nat
  <2>1. i \in 1..Len(u) /\ i + 1 \in 1..Len(u)
    BY <1>4, <1>5
  <2> QED  BY <1>2, <2>1
<1>7. D \in Nat /\ D <= Len(G)
  BY <1>2, <1>3, StartIs
<1>8. x \in 1..Len(G)
  <2>1. i + 1 \in 1..(Len(S) + 1) /\ Len(S) + 1 \in 1..(Len(S) + 1) /\ i + 1 <= Len(S) + 1
    BY <1>4
  <2>2. u[i + 1] <= Len(G)
    BY <1>5, <2>1
  <2> DEFINE a == u[i]
             n == S[i]
  <2>3. a \in Nat /\ n \in Nat /\ j \in 1..n /\ a + n <= Len(G) /\ Len(G) \in Nat /\ x = a + j
    BY <1>2, <1>4, <1>5, <1>6, <2>2
  <2> HIDE DEF a, n, x
  <2> QED  BY <2>3
<1> DEFINE f == Fragment(i, j, S[i])
<1>9. f.data = <<i, j>> /\ f = [data |-> <<i, j>>, frg |-> S[i] - j]
  BY DEF Fragment
<1>10. x <= D => i <= Len(g)
  <2>1. SUFFICES ASSUME x <= D, ~(i <= Len(g)) PROVE FALSE
    OBVIOUS
  <2>2. i \in 1..(Len(S) + 1) /\ Len(g) + 1 \in 1..(Len(S) + 1) /\ Len(g) + 1 <= i
    <3>1. ~(i <= Len(g))
      BY <2>1
    <3> QED  BY ONLY <1>2, <1>4, <3>1
  <2>3. D <= u[i]
    BY <1>5, <2>2
  <2> HIDE DEF D
  <2> QED  BY <1>4, <1>6, <1>7, <2>1, <2>3
<1>11. G[x].data = <<i, j>>
  BY <1>5, <1>9
<1> HIDE DEF x
<1>12. /\ X \in 0..Len(G) /\ k.sndQueue = SubSeq(G, X + 1, Len(G))
       /\ \A s \in k.sndBuf : Carries(G, s)
       /\ \A y \in 0..(X - 1) : y \in Arrived(l) \/ \E s \in k.sndBuf : Off(s.sn) = y
  BY <1>3 DEF Sending
<1>13. R \in D..Len(G) /\ l.rcvQueue = SubSeq(G, D + 1, R) /\ \A s \in l.rcvBuf : Carries(G, s)
  BY <1>3 DEF Receiving
<1> HIDE DEF X, R, D
<1>14. /\ \A s \in k.sndBuf : s.data \in Waiting(p)
       /\ \A y \in DOMAIN k.sndQueue : k.sndQueue[y].data \in Waiting(p)
  BY DEF Waiting, k
<1>15. /\ \A s \in l.rcvBuf : s.data \in Held(q)
       /\ \A y \in DOMAIN l.rcvQueue : l.rcvQueue[y].data \in Held(q)
       /\ \A y \in DOMAIN g : \A m \in DOMAIN g[y] : g[y][m] \in Held(q)
  BY DEF Held, l, g, ToSet
<1>16. ASSUME NEW s, Carries(G, s), Off(s.sn) = x - 1 PROVE s.data = <<i, j>>
  <2>1. G[Off(s.sn) + 1] = [data |-> s.data, frg |-> s.frg] /\ Off(s.sn) + 1 = x
    BY <1>8, <1>16 DEF Carries
  <2>2. G[x] = [data |-> s.data, frg |-> s.frg]
    BY <2>1
  <2> QED  BY <1>11, <2>2
<1>17. ASSUME NEW lo \in 0..Len(G), NEW hi \in lo..Len(G), NEW Q, Q = SubSeq(G, lo + 1, hi), lo < x, x <= hi
       PROVE  \E y \in DOMAIN Q : Q[y].data = <<i, j>>
  <2>1. 0 \in 0..(hi - lo) /\ x - lo \in 1..(hi - lo) /\ lo + (x - lo) = x
    BY <1>2, <1>8, <1>17
  <2>2. /\ Len(Q) = hi - lo /\ Q \in Seq(Frags)
        /\ \A y \in 1..(hi - lo) : Q[y] = G[lo + y]
    <3>1. G \in Seq(Frags) /\ 0 \in 0..(hi - lo) /\ Q = SubSeq(G, lo + 1, hi)
      BY <1>2, <1>17, <2>1
    <3> QED  BY ONLY <3>1, SubSeqRest
  <2>3. DOMAIN Q = 1..(hi - lo)
    BY <2>2
  <2>4. Q[x - lo] = G[x]
    BY <2>1, <2>2
  <2> QED  BY <1>11, <2>1, <2>3, <2>4
<1>18. CASE X < x
  <2>1. Len(G) \in X..Len(G) /\ x <= Len(G)
    BY <1>2, <1>8, <1>12
  <2>2. \E y \in DOMAIN k.sndQueue : k.sndQueue[y].data = <<i, j>>
    BY <1>12, <1>17, <1>18, <2>1
  <2> QED  BY <1>14, <2>2
<1>19. CASE x <= X
  <2>1. x - 1 \in 0..(X - 1)
    BY <1>2, <1>8, <1>12, <1>19
  <2>2. CASE \E s \in k.sndBuf : Off(s.sn) = x - 1
    BY <1>12, <1>14, <1>16, <2>2
  <2>3. CASE \E s \in l.rcvBuf : Off(s.sn) = x - 1
    <3>1. <<i, j>> \in Held(q)
      BY <1>13, <1>15, <1>16, <2>3
    <3> QED  BY <3>1 DEF q
  <2>4. CASE x - 1 < R
    <3>1. CASE D < x
      <4>1. D \in 0..Len(G) /\ x <= R
        BY <1>2, <1>7, <1>8, <1>13, <2>4
      <4>2. \E y \in DOMAIN l.rcvQueue : l.rcvQueue[y].data = <<i, j>>
        BY <1>13, <1>17, <3>1, <4>1
      <4>3. <<i, j>> \in Held(q)
        BY <1>15, <4>2
      <4> QED  BY <4>3 DEF q
    <3>2. CASE x <= D
      <4>1. i \in 1..Len(g)
        BY <1>2, <1>4, <1>10, <3>2
      <4>2. g[i] = [m \in 1..S[i] |-> <<i, m>>]
        BY <1>3, <4>1 DEF Prefix
      <4>3. j \in DOMAIN g[i] /\ g[i][j] = <<i, j>>
        BY <1>4, <4>2
      <4>4. i \in DOMAIN g
        <5>1. g \in Seq(Seq(Datas))
          BY <1>2 DEF Windows, g
        <5> QED  BY <4>1, <5>1
      <4>5. <<i, j>> \in Held(q)
        BY <1>15, <4>3, <4>4
      <4> QED  BY <4>5 DEF q
    <3> QED  BY <1>7, <1>8, <3>1, <3>2
  <2>5. x - 1 \in Arrived(l) => x - 1 < R \/ \E s \in l.rcvBuf : Off(s.sn) = x - 1
    BY DEF Arrived, R
  <2> QED  BY <1>12, <2>1, <2>2, <2>3, <2>4, <2>5
<1> QED  BY <1>8, <1>12, <1>18, <1>19

\* The messages of these sizes, as Stream has them.
Messages(S) == [i \in DOMAIN S |-> [j \in 1..S[i] |-> <<i, j>>]]

LEMMA MessagesAre ==
  ASSUME NEW S \in Seq(Nat)
  PROVE  /\ Messages(S) \in Seq(Seq(Datas)) /\ Len(Messages(S)) = Len(S)
         /\ \A i \in 1..Len(S) : Messages(S)[i] = [j \in 1..S[i] |-> <<i, j>>]
<1>1. DOMAIN S = 1..Len(S) /\ Len(S) \in Nat
  OBVIOUS
<1>2. ASSUME NEW i \in 1..Len(S) PROVE [j \in 1..S[i] |-> <<i, j>>] \in Seq(Datas)
  <2>1. S[i] \in Nat /\ i \in Nat
    BY <1>1
  <2>2. \A j \in 1..S[i] : <<i, j>> \in Datas
    <3> TAKE j \in 1..S[i]
    <3>1. j \in Nat
      BY <2>1
    <3> QED  BY <2>1, <3>1 DEF Datas
  <2> QED  BY <2>1, <2>2
<1> DEFINE m(i) == [j \in 1..S[i] |-> <<i, j>>]
<1>3. Messages(S) = [i \in 1..Len(S) |-> m(i)]
  BY <1>1 DEF Messages
<1>4. \A i \in 1..Len(S) : m(i) \in Seq(Datas)
  BY <1>2
<1>5. \A i \in 1..Len(S) : Messages(S)[i] = m(i)
  BY <1>3
<1> HIDE DEF m
<1>6. Messages(S) \in Seq(Seq(Datas)) /\ Len(Messages(S)) = Len(S)
  BY <1>1, <1>3, <1>4
<1> QED  BY <1>5, <1>6 DEF m

LEMMA MessagesMore ==
  ASSUME NEW S \in Seq(Nat), NEW n \in Nat, NEW T, T = Append(S, n)
  PROVE  /\ Len(Messages(T)) = Len(Messages(S)) + 1
         /\ Messages(S) = SubSeq(Messages(T), 1, Len(Messages(S)))
<1>1. /\ T \in Seq(Nat) /\ Len(T) = Len(S) + 1 /\ Len(S) \in Nat
      /\ \A i \in 1..Len(S) : T[i] = S[i]
  BY AppendIs
<1> DEFINE M == Messages(S)
           N == Messages(T)
<1>2. /\ M \in Seq(Seq(Datas)) /\ Len(M) = Len(S)
      /\ \A i \in 1..Len(S) : M[i] = [j \in 1..S[i] |-> <<i, j>>]
  BY MessagesAre
<1>3. /\ N \in Seq(Seq(Datas)) /\ Len(N) = Len(T)
      /\ \A i \in 1..Len(T) : N[i] = [j \in 1..T[i] |-> <<i, j>>]
  BY <1>1, MessagesAre
<1> HIDE DEF M, N
<1>4. ASSUME NEW i \in 1..Len(S) PROVE M[i] = N[i]
  <2>1. i \in 1..Len(T) /\ T[i] = S[i]
    BY <1>1
  <2> QED  BY <1>2, <1>3, <2>1
<1> DEFINE P == SubSeq(N, 1, Len(S))
<1>5. P \in Seq(Seq(Datas)) /\ Len(P) = Len(S) /\ \A i \in 1..Len(S) : P[i] = N[i]
  BY <1>1, <1>3
<1> HIDE DEF P
<1>6. M = P
  BY <1>1, <1>2, <1>4, <1>5, SameSeq
<1> QED  BY <1>1, <1>2, <1>3, <1>6 DEF M, N, P

\* A step that is a step of Stream, or none, in each direction.
Streaming == \A p \in Peers : Stream(p)!Next \/ UNCHANGED Stream(p)!vars

LEMMA StreamInit ==
  ASSUME Init
  PROVE  \A p \in Peers : Stream(p)!Init
<1> TAKE p \in Peers
<1>1. sent[p] = <<>> /\ got[Other(p)] = <<>>
  <2>1. Other(p) \in Peers
    BY OtherOther
  <2> QED  BY <2>1 DEF Init
<1>2. Messages(sent[p]) = <<>>
  BY <1>1 DEF Messages
<1>3. [i \in DOMAIN sent[p] |-> [j \in 1..sent[p][i] |-> <<i, j>>]] = <<>>
  BY <1>2 DEF Messages
<1> QED  BY <1>1, <1>3 DEF Stream!Init

LEMMA StreamStep ==
  ASSUME Windows, Flow, [Next]_vars
  PROVE  Streaming
<1> USE DEF Streaming
<1>1. ASSUME sent' = sent, got' = got PROVE Streaming
  <2> TAKE p \in Peers
  <2> QED  BY <1>1 DEF Stream!vars
<1>2. ASSUME NEW p \in Peers, NEW n \in Lens, SendMsg(p, n) PROVE Streaming
  <2> TAKE r \in Peers
  <2>1. sent' = [sent EXCEPT ![p] = Append(sent[p], n)] /\ got' = got
    BY <1>2 DEF SendMsg
  <2>2. n \in Nat /\ sent[p] \in Seq(Nat)
    BY KcpAssumption DEF Windows
  <2>3. CASE r = p
    <3>1. sent'[p] = Append(sent[p], n)
      BY <2>1 DEF Windows
    <3>2. /\ Len(Messages(sent'[p])) = Len(Messages(sent[p])) + 1
          /\ Messages(sent[p]) = SubSeq(Messages(sent'[p]), 1, Len(Messages(sent[p])))
      BY <2>2, <3>1, MessagesMore
    <3>3. Stream(p)!Send
      BY <2>1, <3>2 DEF Stream!Send, Messages
    <3> QED  BY <2>3, <3>3 DEF Stream!Next
  <2>4. CASE r # p
    <3>1. sent'[r] = sent[r]
      BY <2>1, <2>4 DEF Windows
    <3> QED  BY <2>1, <3>1 DEF Stream!vars
  <2> QED  BY <2>3, <2>4
<1>3. ASSUME NEW p \in Peers, Recv(p) PROVE Streaming
  <2> DEFINE q == Other(p)
  <2>1. q \in Peers /\ q # p /\ Other(q) = p /\ \A r \in Peers : r = p \/ r = q
    BY OtherOther
  <2>2. PICK m \in Nat : /\ m = Len(got[p]) + 1 /\ m <= Len(sent[q])
                         /\ got' = [got EXCEPT ![p] =
                              Append(got[p], [j \in 1..sent[q][m] |-> <<m, j>>])]
                         /\ sent' = sent
    BY <1>3, RecvFlow
  <2>3. Stream(q)!Deliver
    <3>1. /\ sent[q] \in Seq(Nat) /\ Len(got[p]) \in Nat
          /\ got'[p] = Append(got[p], [j \in 1..sent[q][m] |-> <<m, j>>])
      BY <2>1, <2>2 DEF Windows
    <3>2. m \in 1..Len(sent[q]) /\ Len(got[p]) < Len(sent[q])
      BY <2>2, <3>1
    <3>3. Messages(sent[q])[m] = [j \in 1..sent[q][m] |-> <<m, j>>] /\ Len(Messages(sent[q])) = Len(sent[q])
      BY <3>1, <3>2, MessagesAre
    <3>4. /\ Len(got[p]) < Len(Messages(sent[q]))
          /\ got'[p] = Append(got[p], Messages(sent[q])[Len(got[p]) + 1])
      BY <2>2, <3>1, <3>2, <3>3
    <3> HIDE DEF q
    <3> QED  BY <2>1, <2>2, <3>4 DEF Stream!Deliver, Messages
  <2>4. UNCHANGED Stream(p)!vars
    <3>1. got'[q] = got[q]
      BY <2>1, <2>2 DEF Windows
    <3> QED  BY <2>2, <3>1 DEF Stream!vars
  <2> QED  BY <2>1, <2>3, <2>4 DEF Stream!Next
<1>4. CASE Next
  <2>1. PICK p \in Peers :
          \/ \E n \in Lens : SendMsg(p, n)
          \/ Input(p) \/ Update(p) \/ Recv(p)
          \/ Expire(p) \/ ProbeExpire(p)
          \/ Lose(p) \/ Duplicate(p) \/ Overtake(p)
    BY <1>4 DEF Next
  <2>2. CASE \/ Input(p) \/ Update(p) \/ Expire(p) \/ ProbeExpire(p)
             \/ Lose(p) \/ Duplicate(p) \/ Overtake(p)
    <3>1. sent' = sent /\ got' = got
      BY <2>2 DEF Input, Update, Expire, ProbeExpire, Lose, Duplicate, Overtake, Fault
    <3> QED  BY <1>1, <3>1
  <2> QED  BY <1>2, <1>3, <2>1, <2>2
<1>5. CASE UNCHANGED vars
  BY <1>1, <1>5 DEF vars
<1> QED  BY <1>4, <1>5

\* ikcp_input and ikcp_flush forget no segment the peer still lacks: of every
\* message ikcp_send took, each fragment waits with the sender or is with the
\* receiver, whatever the network did to data and acknowledgments, as long as
\* the connection uses less than half of the sequence numbers.
THEOREM KcpRetained == UsesLessThanHalf => (Spec => []Retained)
<1> SUFFICES ASSUME UsesLessThanHalf PROVE Spec => []Retained
  OBVIOUS
<1>1. Init => Windows /\ Flow
  BY WindowsInit, FlowInit
<1>2. (Windows /\ Flow) /\ [Next]_vars => (Windows /\ Flow)'
  BY WindowsStep, FlowStep
<1>3. Windows /\ Flow => Retained
  BY WindowsImply, FlowRetains DEF Retained
<1> QED  BY <1>1, <1>2, <1>3, PTL DEF Spec

\* ikcp_recv gives the application the messages the peer handed to ikcp_send:
\* whole, each once, in order, with the same hypothesis.
THEOREM KcpReliable == UsesLessThanHalf => (Spec => Reliable)
<1> SUFFICES ASSUME UsesLessThanHalf PROVE Spec => Reliable
  OBVIOUS
<1>1. Init => Windows /\ Flow
  BY WindowsInit, FlowInit
<1>2. (Windows /\ Flow) /\ [Next]_vars => (Windows /\ Flow)'
  BY WindowsStep, FlowStep
<1>3. Init => \A p \in Peers : Stream(p)!Init
  BY StreamInit
<1>4. (Windows /\ Flow) /\ [Next]_vars => [Streaming]_vars
  BY StreamStep
<1>5. Spec => [][Streaming]_vars
  BY <1>1, <1>2, <1>4, PTL DEF Spec
<1> QED  BY <1>3, <1>5, PTL DEF Spec, Reliable, Streaming
===============================================================================
