---------------------------- MODULE MappingProofs ----------------------------
(***************************************************************************)
(* Where regions lie, for an address space of any size, any page size that *)
(* is a power of two, any sizes and any number of regions, and whatever    *)
(* else the application maps: every region is aligned and in memory of its *)
(* own, a fault is rounded to a page of its region, and a lookup finds the *)
(* region of the address.  The masks of the code are shown to be           *)
(* remainders, by an induction over the bits.                              *)
(***************************************************************************)
EXTENDS Mapping, WellFoundedInduction, TLAPS

\* Most leaves are first-order reasoning; those that need more name SMT.
USE Zenon

-----------------------------------------------------------------------------
(* Arithmetic *)

\* A set of natural numbers has a least element.
LEMMA Least ==
  ASSUME NEW T \in SUBSET Nat, T # {}
  PROVE  \E x \in T : \A y \in T : x <= y
<1>1. \E x \in T : \A y \in T : ~(<<y, x>> \in OpToRel(<, Nat))
  BY WFMin, NatLessThanWellFounded
<1>2. PICK x \in T : \A y \in T : ~(<<y, x>> \in OpToRel(<, Nat))
  BY <1>1
<1>3. \A y \in T : y < x => <<y, x>> \in OpToRel(<, Nat)
  BY DEF OpToRel
<1>4. \A y \in T : ~(y < x)
  BY <1>2, <1>3
<1>5. ASSUME NEW y \in T PROVE x <= y
  <2>1. ~(y < x) /\ x \in Nat /\ y \in Nat
    BY <1>4
  <2> QED
    BY ONLY <2>1, SMT
<1> QED
  BY <1>5

\* Induction, for the numbers of a set.
LEMMA Induction ==
  ASSUME NEW P \in SUBSET Nat, \A n \in Nat : (\A m \in 0..(n - 1) : m \in P) => n \in P
  PROVE  P = Nat
<1> SUFFICES ASSUME Nat \ P # {} PROVE FALSE
  OBVIOUS
<1>1. PICK n \in Nat \ P : \A m \in Nat \ P : n <= m
  BY Least
<1>2. ASSUME NEW m \in 0..(n - 1) PROVE m \in P
  <2>1. m \in Nat /\ ~(n <= m)
    BY SMT
  <2> QED
    BY <2>1, <1>1
<1> QED
  BY <1>1, <1>2

\* Division with remainder.
LEMMA Division ==
  ASSUME NEW a \in Nat, NEW c \in Nat \ {0}
  PROVE  \E q \in Nat : a = c * q + (a % c) /\ a % c \in 0..(c - 1)
<1>1. a \div c \in Nat /\ a = c * (a \div c) + (a % c) /\ a % c \in 0..(c - 1)
  BY SMT
<1> QED
  BY <1>1

\* A remainder is known when it is found.
LEMMA RemainderIs ==
  ASSUME NEW a \in Nat, NEW c \in Nat \ {0}, NEW q \in Nat, NEW r \in 0..(c - 1), a = c * q + r
  PROVE  a % c = r
<1>2. PICK p \in Nat : a = c * p + (a % c) /\ a % c \in 0..(c - 1)
  BY Division
<1>3. c * (q - p) = c * q - c * p
  BY SMT
<1>4. (a % c) - r = c * (q - p)
  BY <1>2, <1>3, SMT
<1>5. CASE q - p >= 1
  <2>1. c * (q - p) >= c
    BY <1>5, SMT
  <2> QED
    BY <2>1, <1>2, <1>4, SMT
<1>6. CASE q - p <= -1
  <2>1. c * (q - p) <= -c
    BY <1>6, SMT
  <2> QED
    BY <2>1, <1>2, <1>4, SMT
<1>7. CASE q = p
  BY <1>7, <1>2, <1>4, SMT
<1> QED
  BY <1>5, <1>6, <1>7, SMT

\* A multiple leaves no remainder.
LEMMA MultipleDivides ==
  ASSUME NEW q \in Nat, NEW c \in Nat \ {0}
  PROVE  (c * q) % c = 0
<1>1. PICK a \in Nat : a = c * q
  BY SMT
<1>2. a = c * q + 0 /\ 0 \in 0..(c - 1)
  BY <1>1, SMT
<1>3. a % c = 0
  BY <1>2, RemainderIs, SMT
<1> QED
  BY <1>1, <1>3

\* Of two multiples of a number, the larger one is larger by that number at least, and the
\* difference is a multiple.
LEMMA Multiples ==
  ASSUME NEW a \in Nat, NEW b \in Nat, NEW c \in Nat \ {0}, a % c = 0, b % c = 0
  PROVE  /\ a < b => a + c <= b
         /\ a <= b => (b - a) % c = 0
         /\ (a + b) % c = 0
<1>1. PICK p \in Nat : a = c * p
  <2>1. PICK n \in Nat : a = c * n + (a % c)
    BY Division
  <2>2. a = c * n
    BY <2>1, SMT
  <2> QED
    BY <2>2
<1>2. PICK q \in Nat : b = c * q
  <2>1. PICK n \in Nat : b = c * n + (b % c)
    BY Division
  <2>2. b = c * n
    BY <2>1, SMT
  <2> QED
    BY <2>2
<1>3. ASSUME q <= p PROVE b <= a
  <2>1. c * q <= c * p
    BY <1>3, SMT
  <2> QED
    BY <2>1, <1>1, <1>2
<1>4. ASSUME p < q PROVE a + c <= b
  <2>1. c * (p + 1) <= c * q
    BY <1>4, SMT
  <2>2. c * (p + 1) = c * p + c
    BY SMT
  <2> QED
    BY <2>1, <2>2, <1>1, <1>2
<1>5. ASSUME a <= b PROVE (b - a) % c = 0
  <2>1. p <= q
    BY <1>4, <1>5, <1>1, <1>2, <1>3, SMT
  <2>2. q - p \in Nat /\ b - a = c * (q - p)
    BY <2>1, <1>1, <1>2, SMT
  <2> QED
    BY <2>2, MultipleDivides
<1>6. (a + b) % c = 0
  <2>1. p + q \in Nat /\ a + b = c * (p + q)
    BY <1>1, <1>2, SMT
  <2> QED
    BY <2>1, MultipleDivides
<1> QED
  BY <1>3, <1>4, <1>5, <1>6, SMT

-----------------------------------------------------------------------------
(* x & y *)

\* The equation that defines And, up to n.
AndUpTo(f, n) ==
  /\ f \in [0..n -> [Nat -> Nat]]
  /\ \A x \in 0..n, y \in Nat :
       f[x][y] = IF x = 0 \/ y = 0 THEN 0 ELSE 2 * f[x \div 2][y \div 2] + (x % 2) * (y % 2)

\* A number and its last bit.
LEMMA Halves ==
  ASSUME NEW x \in Nat
  PROVE  /\ x \div 2 \in Nat /\ x % 2 \in {0, 1} /\ x = 2 * (x \div 2) + (x % 2)
         /\ x # 0 => x \div 2 \in 0..(x - 1)
  BY SMT

\* There is a function that satisfies it, by induction.
LEMMA AndExistsUpTo == \A n \in Nat : \E f : AndUpTo(f, n)
<1> DEFINE P == {n \in Nat : \E f : AndUpTo(f, n)}
<1>1. ASSUME NEW n \in Nat, \A m \in 0..(n - 1) : m \in P PROVE n \in P
  <2>1. CASE n = 0
    <3> DEFINE f == [x \in 0..0 |-> [y \in Nat |-> 0]]
    <3>1. f \in [0..0 -> [Nat -> Nat]]
      OBVIOUS
    <3>2. ASSUME NEW x \in 0..0, NEW y \in Nat PROVE x = 0 /\ f[x][y] = 0
      BY SMT
    <3>3. AndUpTo(f, 0)
      BY <3>1, <3>2 DEF AndUpTo
    <3> QED
      BY <3>3, <2>1
  <2>2. CASE n # 0
    <3>1. n - 1 \in 0..(n - 1) /\ n \in 0..n
      BY <2>2, SMT
    <3>2. PICK f : AndUpTo(f, n - 1)
      BY <3>1, <1>1
    <3> DEFINE half == n \div 2
               row == [y \in Nat |-> IF y = 0 THEN 0 ELSE 2 * f[half][y \div 2] + (n % 2) * (y % 2)]
               g == [x \in 0..n |-> IF x = n THEN row ELSE f[x]]
    <3>3. half \in 0..(n - 1) /\ \A x \in 0..n : x # n => x \in 0..(n - 1)
      BY <2>2, SMT
    <3>4. ASSUME NEW y \in Nat PROVE row[y] \in Nat
      <4>1. y \div 2 \in Nat /\ n % 2 \in {0, 1} /\ y % 2 \in {0, 1}
        BY Halves
      <4>2. f[half][y \div 2] \in Nat
        BY <4>1, <3>2, <3>3 DEF AndUpTo
      <4> HIDE DEF half
      <4>3. 2 * f[half][y \div 2] + (n % 2) * (y % 2) \in Nat
        BY <4>1, <4>2, SMT
      <4> QED
        BY <4>3
    <3>5. g \in [0..n -> [Nat -> Nat]]
      <4>1. row \in [Nat -> Nat]
        BY <3>4
      <4>2. \A x \in 0..n : x # n => f[x] \in [Nat -> Nat]
        BY <3>2, <3>3 DEF AndUpTo
      <4> HIDE DEF row
      <4> QED
        BY <4>1, <4>2
    <3>6. \A x \in 0..(n - 1) : x \in 0..n /\ g[x] = f[x]
      BY SMT
    <3>7. ASSUME NEW x \in 0..n, NEW y \in Nat
          PROVE  g[x][y] = IF x = 0 \/ y = 0 THEN 0 ELSE 2 * g[x \div 2][y \div 2] + (x % 2) * (y % 2)
      <4>1. CASE x = n
        <5>1. g[x][y] = IF y = 0 THEN 0 ELSE 2 * f[half][y \div 2] + (x % 2) * (y % 2)
          BY <4>1, <3>1
        <5>2. g[x \div 2] = f[half]
          BY <4>1, <3>3, <3>6
        <5> QED
          BY <5>1, <5>2, <4>1, <2>2
      <4>2. CASE x # n
        <5>1. x \in 0..(n - 1) /\ (x # 0 => x \div 2 \in 0..(n - 1))
          BY <4>2, SMT
        <5>2. g[x][y] = f[x][y] /\ (x # 0 => g[x \div 2] = f[x \div 2])
          BY <5>1, <3>6
        <5> HIDE DEF g
        <5> QED
          BY <5>1, <5>2, <3>2 DEF AndUpTo
      <4> QED
        BY <4>1, <4>2
    <3> HIDE DEF g
    <3>8. AndUpTo(g, n)
      BY <3>5, <3>7 DEF AndUpTo
    <3> QED
      BY <3>8
  <2> QED
    BY <2>1, <2>2
<1> HIDE DEF P
<1>2. P = Nat
  <2>1. P \in SUBSET Nat
    BY DEF P
  <2> QED
    BY <2>1, <1>1, Induction
<1> QED
  BY <1>2 DEF P

LEMMA AndOfZero ==
  ASSUME NEW n \in Nat, NEW f, AndUpTo(f, n), NEW x \in 0..n, NEW y \in Nat, x = 0 \/ y = 0
  PROVE  f[x][y] = 0
BY DEF AndUpTo

\* And only one.
LEMMA AndUnique ==
  ASSUME NEW k \in Nat, NEW n \in Nat, NEW f, NEW g, AndUpTo(f, k), AndUpTo(g, n)
  PROVE  \A x \in Nat : x <= k /\ x <= n => \A y \in Nat : f[x][y] = g[x][y]
<1> DEFINE P == {x \in Nat : x <= k /\ x <= n => \A y \in Nat : f[x][y] = g[x][y]}
<1>1. ASSUME NEW x \in Nat, \A m \in 0..(x - 1) : m \in P PROVE x \in P
  <2> SUFFICES ASSUME x <= k, x <= n, NEW y \in Nat PROVE f[x][y] = g[x][y]
    OBVIOUS
  <2>1. x \in 0..k /\ x \in 0..n
    BY SMT
  <2>2. CASE x = 0 \/ y = 0
    <3>1. f[x][y] = 0
      BY <2>1, <2>2, AndOfZero, SMT
    <3>2. g[x][y] = 0
      BY <2>1, <2>2, AndOfZero, SMT
    <3> QED
      BY <3>1, <3>2
  <2>3. CASE ~(x = 0 \/ y = 0)
    <3>1. x \div 2 \in 0..(x - 1) /\ x \div 2 <= k /\ x \div 2 <= n /\ y \div 2 \in Nat
      BY <2>3, SMT
    <3>2. f[x \div 2][y \div 2] = g[x \div 2][y \div 2]
      BY <3>1, <1>1
    <3>3. f[x][y] = 2 * f[x \div 2][y \div 2] + (x % 2) * (y % 2)
      BY <2>1, <2>3 DEF AndUpTo
    <3>4. g[x][y] = 2 * g[x \div 2][y \div 2] + (x % 2) * (y % 2)
      BY <2>1, <2>3 DEF AndUpTo
    <3> QED
      BY <3>2, <3>3, <3>4
  <2> QED
    BY <2>2, <2>3
<1> HIDE DEF P
<1>2. P = Nat
  <2>1. P \in SUBSET Nat
    BY DEF P
  <2> QED
    BY <2>1, <1>1, Induction
<1> QED
  BY <1>2 DEF P

\* Therefore And satisfies it everywhere.
LEMMA AndIs ==
  \A x, y \in Nat :
    And[x][y] = IF x = 0 \/ y = 0 THEN 0 ELSE 2 * And[x \div 2][y \div 2] + (x % 2) * (y % 2)
<1> DEFINE Part(n) == CHOOSE f : AndUpTo(f, n)
           F == [x \in Nat |-> Part(x)[x]]
           G(h) == [x \in Nat |-> [y \in Nat |->
                     IF x = 0 \/ y = 0 THEN 0 ELSE 2 * h[x \div 2][y \div 2] + (x % 2) * (y % 2)]]
<1>1. ASSUME NEW n \in Nat PROVE AndUpTo(Part(n), n)
  BY AndExistsUpTo
<1> HIDE DEF Part
<1>2. ASSUME NEW x \in Nat PROVE F[x] = G(F)[x]
  <2>1. x \in 0..x
    BY SMT
  <2> DEFINE p == Part(x)
  <2>0. F[x] = p[x] /\ AndUpTo(p, x)
    BY <1>1
  <2> HIDE DEF p
  <2>2. F[x] \in [Nat -> Nat]
    BY <2>0, <2>1 DEF AndUpTo
  <2>3. ASSUME NEW y \in Nat PROVE F[x][y] = G(F)[x][y]
    <3>1. CASE x = 0 \/ y = 0
      <4>1. p[x][y] = 0
        BY <3>1, <2>0, <2>1 DEF AndUpTo
      <4>2. G(F)[x][y] = 0
        BY <3>1
      <4> QED
        BY <4>1, <4>2, <2>0
    <3>2. CASE ~(x = 0 \/ y = 0)
      <4>1. x \div 2 \in Nat /\ x \div 2 <= x /\ x \div 2 <= x \div 2 /\ y \div 2 \in Nat
        BY SMT
      <4> DEFINE h == x \div 2
                 q == Part(h)
      <4>2. F[h] = q[h] /\ AndUpTo(q, h)
        BY <4>1, <1>1
      <4> HIDE DEF h, q
      <4>3. F[h][y \div 2] = p[h][y \div 2]
        <5>1. \A z \in Nat : z <= x /\ z <= h => \A w \in Nat : p[z][w] = q[z][w]
          <6>1. h \in Nat /\ AndUpTo(q, h) /\ AndUpTo(p, x)
            BY <4>1, <4>2, <2>0 DEF h
          <6> HIDE DEF F, G
          <6> QED
            BY <6>1, AndUnique, SMT
        <5>2. h \in Nat /\ h <= x /\ h <= h /\ y \div 2 \in Nat
          BY <4>1 DEF h
        <5>3. p[h][y \div 2] = q[h][y \div 2]
          BY <5>1, <5>2
        <5> QED
          BY <4>2, <5>3
      <4>4. p[x][y] = 2 * p[x \div 2][y \div 2] + (x % 2) * (y % 2)
        BY <3>2, <2>0, <2>1 DEF AndUpTo
      <4>5. G(F)[x][y] = 2 * F[x \div 2][y \div 2] + (x % 2) * (y % 2)
        BY <3>2
      <4> QED
        BY <4>3, <4>4, <4>5, <2>0 DEF h
    <3> QED
      BY <3>1, <3>2
  <2>4. G(F)[x] = [y \in Nat |-> G(F)[x][y]]
    <3> HIDE DEF F
    <3> QED
      BY SMT
  <2> HIDE DEF F, G
  <2>5. F[x] = [y \in Nat |-> F[x][y]]
    BY <2>2
  <2> QED
    BY <2>3, <2>4, <2>5
<1>3. F = G(F)
  <2>1. F = [x \in Nat |-> F[x]] /\ G(F) = [x \in Nat |-> G(F)[x]]
    OBVIOUS
  <2> HIDE DEF F, G
  <2> QED
    BY <2>1, <1>2
<1>4. And = CHOOSE h : h = G(h)
  BY DEF And
<1>5. And = G(And)
  <2> HIDE DEF F, G
  <2> QED
    BY <1>3, <1>4
<1>6. ASSUME NEW x \in Nat, NEW y \in Nat
      PROVE  G(And)[x][y] = IF x = 0 \/ y = 0 THEN 0
                            ELSE 2 * And[x \div 2][y \div 2] + (x % 2) * (y % 2)
  OBVIOUS
<1> HIDE DEF G
<1> QED
  BY <1>5, <1>6

\* A divisor of a number divides its double.
LEMMA DivisorOfDouble ==
  ASSUME NEW m \in Nat, NEW d \in Nat \ {0}, m % d = 0
  PROVE  (2 * m) % d = 0
<1>1. PICK q \in Nat : m = d * q
  <2>1. PICK p \in Nat : m = d * p + (m % d)
    BY Division
  <2>2. m = d * p
    BY <2>1, SMT
  <2> QED
    BY <2>2
<1>2. 2 * m = d * (2 * q) + 0 /\ 2 * q \in Nat /\ 2 * m \in Nat /\ 0 \in 0..(d - 1)
  BY <1>1, SMT
<1>3. PICK a \in Nat : a = 2 * m
  BY <1>2
<1>4. PICK p \in Nat : p = 2 * q
  BY <1>2
<1>5. a = d * p + 0 /\ 0 \in 0..(d - 1)
  BY <1>2, <1>3, <1>4
<1>6. a % d = 0
  BY <1>5, RemainderIs, SMT
<1> QED
  BY <1>3, <1>6

\* x & (n - 1) is the remainder of x by n, if n is a power of two.
LEMMA MaskOfPower ==
  \A n \in Nat \ {0} : PowerOfTwo(n) => \A x \in Nat : And[x][n - 1] = x % n
<1> DEFINE P == {n \in Nat : n # 0 /\ PowerOfTwo(n) => \A x \in Nat : And[x][n - 1] = x % n}
<1>1. ASSUME NEW n \in Nat, \A m \in 0..(n - 1) : m \in P PROVE n \in P
  <2> SUFFICES ASSUME n # 0, PowerOfTwo(n), NEW x \in Nat PROVE And[x][n - 1] = x % n
    OBVIOUS
  <2>1. CASE n = 1
    <3>1. n - 1 = 0 /\ x % n = 0 /\ 0 \in Nat
      BY <2>1, SMT
    <3>2. And[x][0] = 0
      BY <3>1, AndIs
    <3> QED
      BY <3>1, <3>2
  <2>2. CASE n # 1 /\ x = 0
    <3>1. n - 1 \in Nat /\ x % n = 0
      BY <2>2, SMT
    <3> QED
      BY <3>1, <2>2, AndIs
  <2>3. CASE n # 1 /\ x # 0
    <3>1. n \in 2..n /\ n % n = 0
      BY <2>3, SMT
    <3>2. n % 2 = 0
      BY <3>1 DEF PowerOfTwo
    <3>3. PICK m \in Nat : n = 2 * m
      BY <3>2, SMT
    <3>4. /\ m # 0 /\ m \in 0..(n - 1) /\ m - 1 \in Nat /\ n - 1 \in Nat
          /\ n - 1 # 0 /\ (n - 1) \div 2 = m - 1 /\ (n - 1) % 2 = 1
      BY <3>3, <2>3, SMT
    <3>5. PowerOfTwo(m)
      <4> SUFFICES ASSUME NEW d \in 2..m, m % d = 0 PROVE d % 2 = 0
        BY DEF PowerOfTwo
      <4>1. d \in Nat \ {0} /\ d \in 2..n
        BY <3>3, SMT
      <4>2. n % d = 0
        BY <4>1, <3>3, DivisorOfDouble
      <4> QED
        BY <4>1, <4>2 DEF PowerOfTwo
    <3> DEFINE h == x \div 2
               b == x % 2
    <3>6. h \in Nat /\ b \in {0, 1} /\ x = 2 * h + b
      BY SMT
    <3>7. And[x][n - 1] = 2 * And[h][m - 1] + b * 1
      <4>1. And[x][n - 1] = 2 * And[x \div 2][(n - 1) \div 2] + (x % 2) * ((n - 1) % 2)
        BY <2>3, <3>4, AndIs
      <4> QED
        BY <4>1, <3>4
    <3>8. And[h][m - 1] = h % m
      BY <3>4, <3>5, <3>6, <1>1
    <3> HIDE DEF h, b
    <3>9. PICK q \in Nat : h = m * q + (h % m) /\ h % m \in 0..(m - 1)
      BY <3>4, <3>6, Division
    <3>10. PICK r \in Nat : r = h % m /\ r <= m - 1
      BY <3>9, <3>4, SMT
    <3>11. 2 * r + b \in 0..(n - 1) /\ x = n * q + (2 * r + b)
      <4>1. h = m * q + r
        BY <3>9, <3>10
      <4>2. n * q = 2 * (m * q)
        BY <3>3, SMT
      <4> QED
        BY <4>1, <4>2, <3>3, <3>4, <3>6, <3>10, SMT
    <3>12. x % n = 2 * r + b
      BY <3>11, <2>3, RemainderIs
    <3>13. 2 * r + b * 1 = 2 * r + b
      BY <3>6, <3>10, SMT
    <3> QED
      BY <3>7, <3>8, <3>10, <3>12, <3>13
  <2> QED
    BY <2>1, <2>2, <2>3
<1> HIDE DEF P
<1>2. P = Nat
  <2>1. P \in SUBSET Nat
    BY DEF P
  <2> QED
    BY <2>1, <1>1, Induction
<1> QED
  BY <1>2 DEF P

-----------------------------------------------------------------------------
(* The invariant *)

\* The regions there are, the one that umap_ex is about to add included.
Placed == m_active_regions \cup ({g_mutex} \ {NoRegion})

\* Pages of a region begin and end in it, and it has memory of its own.
PlacedSound(r) ==
  /\ r \in Region /\ r.size # 0
  /\ r.start % umap_psize = 0 /\ r.size % umap_psize = 0
  /\ r.id <= made
  /\ \A a \in Within(r) : a \in Addr /\ owner[a] = r.id

\* Every region is sound, no two have the same number, and the iterator of the last lookup
\* points to a region that there is.
MappingInv ==
  /\ TypeOK
  /\ \A r \in Placed : PlacedSound(r)
  /\ \A r, s \in Placed : r.id = s.id => r = s
  /\ m_last_iter \in m_active_regions \cup {NoRegion}

\* The addresses of a region.
LEMMA WithinIs ==
  ASSUME NEW r
  PROVE  Within(r) = r.start..((r.start + r.size) - 1)
  BY DEF Within, end

\* The start of a region is in it.
LEMMA StartWithin ==
  ASSUME NEW r, PlacedSound(r)
  PROVE  r.start \in Within(r) /\ r.start \in Nat /\ r.size \in Nat
<1>1. r.start \in Addr /\ r.size \in Sizes /\ r.size # 0
  BY DEF PlacedSound, Region
<1>2. Addr \subseteq Nat /\ Sizes \subseteq Nat
  BY MappingAssumption, SMT DEF Addr
<1>3. r.start \in Nat /\ r.size \in Nat
  BY <1>1, <1>2
<1> QED
  BY <1>1, <1>3, SMT DEF Within, end

\* NoRegion is not a region.
LEMMA NotNoRegion ==
  ASSUME NEW r \in Region
  PROVE  r # NoRegion
<1>1. r.id \in 1..MaxRegions /\ NoRegion.id = 0
  BY DEF Region, NoRegion
<1>2. r.id # 0
  BY <1>1, MappingAssumption, SMT
<1> QED
  BY <1>1, <1>2

\* Two regions have no address in common.
LEMMA Disjoint ==
  ASSUME MappingInv, NEW r \in m_active_regions, NEW s \in m_active_regions,
         NEW a \in Within(r), a \in Within(s)
  PROVE  r = s
<1>1. r \in Placed /\ s \in Placed
  BY DEF Placed
<1>2. owner[a] = r.id /\ owner[a] = s.id
  BY <1>1 DEF MappingInv, PlacedSound
<1> QED
  BY <1>1, <1>2 DEF MappingInv

\* addr & ~(umap_psize - 1) is the start of the page of addr.
LEMMA Rounding ==
  ASSUME PowerOfTwo(umap_psize), NEW a \in Nat
  PROVE  /\ RoundDown(a) \in Nat /\ RoundDown(a) % umap_psize = 0
         /\ RoundDown(a) <= a /\ a < RoundDown(a) + umap_psize
<1>1. umap_psize \in Nat \ {0}
  BY MappingAssumption
<1>2. RoundDown(a) = a - (a % umap_psize)
  BY <1>1, MaskOfPower DEF Mask, RoundDown
<1>3. PICK q \in Nat : a = umap_psize * q + (a % umap_psize) /\ a % umap_psize \in 0..(umap_psize - 1)
  BY <1>1, Division
<1>4. RoundDown(a) = umap_psize * q
  BY <1>1, <1>2, <1>3, SMT
<1>5. RoundDown(a) \in Nat
  BY <1>1, <1>4, SMT
<1> QED
  BY <1>1, <1>2, <1>3, <1>4, <1>5, MultipleDivides, SMT

-----------------------------------------------------------------------------
(* Every step keeps the invariant *)

\* At the start there are no regions.
LEMMA InitInv == Init => MappingInv
<1> SUFFICES ASSUME Init PROVE MappingInv
  OBVIOUS
<1>1. Placed = {}
  BY DEF Init, Placed
<1>2. 0 \in Addr /\ 0 \in 0..MaxRegions
  BY MappingAssumption, SMT DEF Addr
<1>3. TypeOK
  BY <1>2 DEF Init, TypeOK
<1> QED
  BY <1>1, <1>3 DEF Init, MappingInv

\* A step that leaves the regions and their memory alone.
LEMMA SamePlaces ==
  ASSUME MappingInv, TypeOK', Placed' \subseteq Placed, made' = made,
         \A a \in Addr : owner[a] \in 1..MaxRegions => owner'[a] = owner[a],
         m_last_iter' \in m_active_regions' \cup {NoRegion}
  PROVE  MappingInv'
<1>1. ASSUME NEW r \in Placed' PROVE PlacedSound(r)'
  <2>1. PlacedSound(r)
    BY <1>1 DEF MappingInv
  <2>2. \A a \in Within(r) : owner[a] \in 1..MaxRegions
    BY <2>1 DEF PlacedSound, Region
  <2> QED
    BY <2>1, <2>2 DEF PlacedSound
<1>2. \A r, s \in Placed' : r.id = s.id => r = s
  BY DEF MappingInv
<1> QED
  BY <1>1, <1>2 DEF MappingInv

\* A new region lies in memory that was free.
LEMMA UmapExInv ==
  ASSUME PowerOfTwo(umap_psize), MappingInv,
         NEW hint \in Hints, NEW addr \in Addr, NEW region_size \in Sizes,
         umap_ex(hint, addr, region_size, FALSE)
  PROVE  MappingInv'
<1>1. CASE aborted' = TRUE /\ UNCHANGED <<owner, g_mutex, made>>
  <2>1. UNCHANGED <<m_active_regions, m_last_iter, asked, answer>>
    BY DEF umap_ex
  <2>2. TypeOK' /\ Placed' = Placed
    BY <1>1, <2>1 DEF MappingInv, TypeOK, Placed
  <2> QED
    BY <1>1, <2>1, <2>2, SamePlaces DEF MappingInv
<1>2. CASE aborted' # TRUE \/ ~UNCHANGED <<owner, g_mutex, made>>
  <2> DEFINE len == mmap_size(region_size)
             start == RoundUp(addr)
             taken == addr..(addr + len - 1)
  <2>1. /\ g_mutex = NoRegion /\ made < MaxRegions /\ region_size # 0
        /\ region_size % umap_psize = 0
        /\ Place(addr, hint, len, FALSE)
        /\ made' = made + 1
        /\ owner' = [a \in Addr |-> IF a \in taken THEN made' ELSE owner[a]]
        /\ g_mutex' = [id |-> made', start |-> start, size |-> region_size]
        /\ UNCHANGED <<aborted, m_active_regions, m_last_iter, asked, answer>>
    BY <1>2 DEF umap_ex
  <2>2. /\ umap_psize \in Nat \ {0} /\ addr \in Nat /\ region_size \in Nat /\ region_size # 0
        /\ made \in Nat /\ MaxRegions \in Nat /\ Space \in Nat /\ addr < Space
    <3>1. made \in 0..MaxRegions
      BY DEF MappingInv, TypeOK
    <3> QED
      BY <3>1, <2>1, MappingAssumption, SMT DEF Addr
  <2>3. len = region_size + umap_psize /\ addr + len <= Space
    BY <2>1 DEF mmap_size, Place
  <2>4. \A a \in taken : owner[a] = Nobody
    BY <2>1 DEF Place
  <2>5. /\ start \in Nat /\ start % umap_psize = 0
        /\ addr <= start /\ start <= addr + umap_psize - 1
    <3>1. addr + umap_psize - 1 \in Nat
      BY <2>2, SMT
    <3>2. /\ start \in Nat /\ start % umap_psize = 0
          /\ start <= addr + umap_psize - 1 /\ addr + umap_psize - 1 < start + umap_psize
      BY <3>1, Rounding DEF RoundUp
    <3> HIDE DEF start
    <3> QED
      BY <3>2, <2>2, SMT
  <2> HIDE DEF start, len
  <2>6. made' \in 1..MaxRegions /\ start \in Addr
    BY <2>1, <2>2, <2>3, <2>5, SMT DEF Addr
  <2>7. PICK new \in Region : /\ new = g_mutex'
                             /\ new.id = made' /\ new.start = start /\ new.size = region_size
    <3>1. g_mutex' \in Region
      BY <2>1, <2>6 DEF Region
    <3>2. g_mutex'.id = made' /\ g_mutex'.start = start /\ g_mutex'.size = region_size
      BY <2>1
    <3> QED
      BY <3>1, <3>2
  <2>8. TypeOK'
    <3>1. owner' \in [Addr -> {Nobody, App} \cup 1..MaxRegions]
      BY <2>1, <2>6 DEF MappingInv, TypeOK
    <3>2. made' \in 0..MaxRegions
      BY <2>6, <2>2, SMT
    <3> QED
      BY <3>1, <3>2, <2>1, <2>7 DEF MappingInv, TypeOK
  <2>9. Placed' = Placed \cup {new}
    BY <2>1, <2>7, NotNoRegion DEF Placed
  <2>10. PlacedSound(new)'
    <3>1. ASSUME NEW a \in Within(new) PROVE a \in Addr /\ a \in taken
      <4>1. a \in start..((start + region_size) - 1)
        BY <2>7, WithinIs
      <4> QED
        BY <4>1, <2>2, <2>3, <2>5, SMT DEF Addr
    <3>2. \A a \in Within(new) : a \in Addr /\ owner'[a] = new.id
      BY <3>1, <2>1, <2>7
    <3>3. new.id <= made'
      BY <2>6, <2>7, SMT
    <3> QED
      BY <3>2, <3>3, <2>1, <2>5, <2>7 DEF PlacedSound
  <2>11. ASSUME NEW r \in Placed PROVE PlacedSound(r)' /\ r.id # new.id
    <3>1. PlacedSound(r)
      BY DEF MappingInv
    <3>2. r.id \in 1..MaxRegions /\ r.id <= made
      BY <3>1 DEF PlacedSound, Region
    <3>3. r.id <= made' /\ r.id # new.id /\ r.id # Nobody
      BY <3>2, <2>1, <2>2, <2>7, SMT DEF Nobody
    <3>4. \A a \in Within(r) : a \in Addr /\ owner'[a] = r.id
      BY <3>1, <3>3, <2>1, <2>4 DEF PlacedSound
    <3> QED
      BY <3>1, <3>3, <3>4 DEF PlacedSound
  <2>12. \A r \in Placed' : PlacedSound(r)'
    BY <2>9, <2>10, <2>11
  <2>13. \A r, s \in Placed' : r.id = s.id => r = s
    BY <2>9, <2>11 DEF MappingInv
  <2> QED
    BY <2>1, <2>8, <2>12, <2>13 DEF MappingInv
<1> QED
  BY <1>1, <1>2

\* The region that umap_ex made becomes an active one.
LEMMA AddRegionInv ==
  ASSUME MappingInv, addRegion
  PROVE  MappingInv'
<1>1. Placed' \subseteq Placed
  BY DEF addRegion, Placed
<1>2. TypeOK'
  BY DEF addRegion, MappingInv, TypeOK
<1> QED
  BY <1>1, <1>2, SamePlaces DEF addRegion

\* A region leaves; the iterator is reset.
LEMMA RemoveRegionInv ==
  ASSUME MappingInv, NEW region \in Addr, removeRegion(region)
  PROVE  MappingInv'
<1>1. m_active_regions' \subseteq m_active_regions /\ g_mutex' = g_mutex
  BY DEF removeRegion
<1>2. Placed' \subseteq Placed
  BY <1>1 DEF Placed
<1>3. TypeOK'
  BY <1>1 DEF removeRegion, LastAfterErase, MappingInv, TypeOK
<1> QED
  BY <1>2, <1>3, SamePlaces DEF removeRegion, LastAfterErase

\* The map has a last region that starts at or before the address, if it has one at all.
LEMMA PreviousExists ==
  ASSUME MappingInv, NEW vaddr \in Addr, NotAfter(vaddr) # {}
  PROVE  /\ Previous(vaddr) \in NotAfter(vaddr)
         /\ \A s \in NotAfter(vaddr) : s.start <= Previous(vaddr).start
<1> DEFINE Distances == {vaddr - r.start : r \in NotAfter(vaddr)}
<1>1. \A r \in NotAfter(vaddr) : r.start \in Nat /\ r.start <= vaddr
  BY StartWithin DEF MappingInv, NotAfter, Placed
<1>2. vaddr \in Nat
  BY MappingAssumption, SMT DEF Addr
<1>3. Distances \in SUBSET Nat
  BY <1>1, <1>2, SMT
<1>4. Distances # {}
  OBVIOUS
<1>5. PICK d \in Distances : \A e \in Distances : d <= e
  BY <1>3, <1>4, Least
<1>6. PICK r \in NotAfter(vaddr) : d = vaddr - r.start
  OBVIOUS
<1>7. ASSUME NEW s \in NotAfter(vaddr) PROVE s.start <= r.start
  <2>1. vaddr - r.start <= vaddr - s.start
    BY <1>5, <1>6
  <2>2. s.start \in Nat /\ r.start \in Nat
    BY <1>1
  <2> QED
    BY <2>1, <2>2, <1>2, SMT
<1>8. \E x \in NotAfter(vaddr) : \A s \in NotAfter(vaddr) : s.start <= x.start
  BY <1>7
<1> QED
  BY <1>8 DEF Previous

\* The iterator moves to a region of the map.
LEMMA ContainingRegionInv ==
  ASSUME MappingInv, NEW vaddr \in Addr, containing_region(vaddr)
  PROVE  MappingInv'
<1>1. m_last_iter' \in m_active_regions \cup {NoRegion} /\ answer' \in m_active_regions \cup {NoRegion}
  <2>1. CASE In(vaddr, m_last_iter) /\ answer' = m_last_iter /\ UNCHANGED m_last_iter
    BY <2>1 DEF MappingInv
  <2>2. CASE /\ NotAfter(vaddr) # {}
             /\ answer' = Previous(vaddr) /\ m_last_iter' = Previous(vaddr)
    BY <2>2, PreviousExists DEF NotAfter
  <2>3. CASE answer' = NoRegion /\ UNCHANGED m_last_iter
    BY <2>3 DEF MappingInv
  <2> QED
    BY <2>1, <2>2, <2>3 DEF containing_region
<1>2. TypeOK' /\ Placed' = Placed
  BY <1>1 DEF containing_region, MappingInv, TypeOK, Placed
<1> QED
  BY <1>1, <1>2, SamePlaces DEF containing_region

\* The application gets and gives back memory that is not umap's.
LEMMA AppMapInv ==
  ASSUME MappingInv, NEW a \in Addr, AppMap(a)
  PROVE  MappingInv'
<1>1. owner[a] \in {Nobody, App} /\ \E o \in {Nobody, App} : owner' = [owner EXCEPT ![a] = o]
  BY DEF AppMap
<1>2. owner[a] \notin 1..MaxRegions
  BY <1>1, MappingAssumption, SMT DEF Nobody, App
<1>3. \A b \in Addr : owner[b] \in 1..MaxRegions => owner'[b] = owner[b]
  BY <1>1, <1>2 DEF MappingInv, TypeOK
<1>4. owner' \in [Addr -> {Nobody, App} \cup 1..MaxRegions]
  BY <1>1 DEF MappingInv, TypeOK
<1>5. TypeOK' /\ Placed' = Placed
  BY <1>4 DEF AppMap, MappingInv, TypeOK, Placed
<1> QED
  BY <1>3, <1>5, SamePlaces DEF AppMap, MappingInv

\* Every step.
LEMMA NextInv ==
  ASSUME PowerOfTwo(umap_psize), ~Fixed, MappingInv, [Next]_vars
  PROVE  MappingInv'
<1>1. ASSUME NEW h \in Hints, NEW a \in Addr, NEW s \in Sizes, NEW f \in {FALSE, Fixed},
             umap_ex(h, a, s, f)
      PROVE  MappingInv'
  <2>1. f = FALSE
    BY MappingAssumption
  <2> QED
    BY <1>1, <2>1, UmapExInv
<1>2. CASE UNCHANGED vars
  <2>1. TypeOK' /\ Placed' = Placed
    BY <1>2 DEF vars, MappingInv, TypeOK, Placed
  <2> QED
    BY <1>2, <2>1, SamePlaces DEF vars, MappingInv
<1> QED
  BY <1>1, <1>2, AddRegionInv, RemoveRegionInv, ContainingRegionInv, AppMapInv DEF Next

\* All regions keep their places, whatever is mapped, unmapped and looked up.
LEMMA InvAlways == ASSUME PowerOfTwo(umap_psize), ~Fixed PROVE Spec => []MappingInv
<1>1. MappingInv /\ [Next]_vars => MappingInv'
  BY NextInv
<1> QED
  BY <1>1, InitInv, PTL DEF Spec

-----------------------------------------------------------------------------
(* What follows *)

\* Without UMAP_FIXED, a region that umap_ex makes begins on a umap page and lies in the
\* memory that its own mmap gave, as long as it is mapped, and Uffd rounds a fault in it
\* down to a page that lies in the region as a whole.
THEOREM RegionsAlwaysSound == ASSUME PowerOfTwo(umap_psize), ~Fixed PROVE Spec => []RegionsSound
<1>1. ASSUME MappingInv PROVE RegionsSound
  <2>1. ASSUME NEW r \in m_active_regions PROVE PlacedSound(r)
    BY <1>1 DEF MappingInv, Placed
  <2>2. RegionInItsMemory
    BY <2>1 DEF RegionInItsMemory, PlacedSound
  <2>3. ASSUME NEW r \in m_active_regions, NEW a \in Within(r)
        PROVE  LET p == RoundDown(a)
               IN /\ p >= r.start /\ a \in p..(p + umap_psize - 1) /\ p + umap_psize <= end(r)
                  /\ (p - r.start) % umap_psize = 0
    <3> DEFINE p == RoundDown(a)
    <3>1. /\ r.start \in Nat /\ r.size \in Nat /\ umap_psize \in Nat \ {0}
          /\ r.start % umap_psize = 0 /\ r.size % umap_psize = 0
      BY <2>1, StartWithin, MappingAssumption DEF PlacedSound
    <3>2. a \in Nat /\ r.start <= a /\ a < r.start + r.size
      <4>1. a \in Addr /\ a \in r.start..((r.start + r.size) - 1)
        BY <2>1, WithinIs DEF PlacedSound
      <4> QED
        BY <4>1, <3>1, MappingAssumption, SMT DEF Addr
    <3>3. p \in Nat /\ p % umap_psize = 0 /\ p <= a /\ a < p + umap_psize
      BY <3>2, Rounding
    <3> HIDE DEF p
    <3>4. r.start <= p /\ (p - r.start) % umap_psize = 0
      <4>1. p < r.start => p + umap_psize <= r.start
        BY <3>1, <3>3, Multiples
      <4>2. r.start <= p
        BY <4>1, <3>1, <3>2, <3>3, SMT
      <4> QED
        BY <4>2, <3>1, <3>3, Multiples
    <3>5. p + umap_psize <= r.start + r.size
      <4>1. r.start + r.size \in Nat /\ (r.start + r.size) % umap_psize = 0
        BY <3>1, Multiples, SMT
      <4>2. p < r.start + r.size
        BY <3>1, <3>2, <3>3, SMT
      <4> QED
        BY <4>1, <4>2, <3>1, <3>3, Multiples
    <3>6. a \in p..(p + umap_psize - 1) /\ p >= r.start
      BY <3>1, <3>2, <3>3, <3>4, SMT
    <3> QED
      BY <3>4, <3>5, <3>6 DEF p, end
  <2>4. PageInRegion
    BY <2>3 DEF PageInRegion
  <2> QED
    BY <1>1, <2>2, <2>4 DEF MappingInv, RegionsSound
<1> QED
  BY <1>1, InvAlways, PTL

\* Without UMAP_FIXED, containing_region gives the region that the address lies in, and none
\* if there is none: the iterator of the last lookup is never one of a region that was
\* removed, and no region hides another one from the search in the map.
THEOREM LookupsAreRight == ASSUME PowerOfTwo(umap_psize), ~Fixed PROVE Spec => LookupRight
<1> DEFINE found(a) == {r \in m_active_regions : a \in Within(r)}
<1>1. ASSUME MappingInv, NEW a \in Addr, NEW r \in m_active_regions
      PROVE  /\ In(a, r) <=> r \in found(a)
             /\ r \in found(a) => r.start <= a
  <2>1. PlacedSound(r) /\ r # NoRegion
    BY <1>1, NotNoRegion DEF MappingInv, Placed, PlacedSound
  <2>2. r.start \in Nat /\ r.size \in Nat
    BY <2>1, StartWithin
  <2>3. a \in Nat
    BY MappingAssumption, SMT DEF Addr
  <2>4. a \in Within(r) <=> (a >= r.start /\ a < end(r))
    BY <2>2, <2>3, SMT DEF Within, end
  <2>5. a >= r.start <=> r.start <= a
    BY <2>2, <2>3, SMT
  <2> QED
    BY <2>1, <2>4, <2>5 DEF In
<1>2. ASSUME MappingInv, NEW a \in Addr, NEW r \in found(a)
      PROVE  r \in NotAfter(a) /\ Previous(a) = r
  <2>1. r \in m_active_regions /\ a \in Within(r) /\ r.start <= a /\ PlacedSound(r)
    BY <1>1, <1>2 DEF MappingInv, Placed
  <2>2. r \in NotAfter(a)
    BY <2>1 DEF NotAfter
  <2> DEFINE s == Previous(a)
  <2>3. s \in m_active_regions /\ s.start <= a /\ r.start <= s.start
    BY <1>2, <2>2, PreviousExists DEF NotAfter
  <2>4. PlacedSound(s)
    BY <1>2, <2>3 DEF MappingInv, Placed
  <2>5. s.start \in Within(s)
    BY <2>4, StartWithin
  <2>6. s.start \in Within(r)
    <3>1. /\ r.start \in Nat /\ r.size \in Nat /\ s.start \in Nat
          /\ a \in r.start..((r.start + r.size) - 1)
      BY <2>1, <2>4, StartWithin, WithinIs
    <3>2. s.start \in r.start..((r.start + r.size) - 1)
      BY <3>1, <2>3, SMT
    <3> QED
      BY <3>2, WithinIs
  <2> QED
    BY <1>2, <2>1, <2>2, <2>3, <2>5, <2>6, Disjoint
<1>3. ASSUME MappingInv, NEW a \in Addr, containing_region(a)
      PROVE  answer' \in found(a) \/ (found(a) = {} /\ answer' = NoRegion)
  <2>1. CASE In(a, m_last_iter) /\ answer' = m_last_iter
    <3>1. m_last_iter \in m_active_regions
      BY <2>1, <1>3 DEF In, MappingInv
    <3> QED
      BY <3>1, <2>1, <1>1, <1>3
  <2>2. CASE NotAfter(a) # {} /\ In(a, Previous(a)) /\ answer' = Previous(a)
    <3>1. Previous(a) \in m_active_regions
      BY <2>2, <1>3, PreviousExists DEF NotAfter
    <3> QED
      BY <3>1, <2>2, <1>1, <1>3
  <2>3. CASE (NotAfter(a) # {} => ~In(a, Previous(a))) /\ answer' = NoRegion
    <3>1. ASSUME NEW r \in found(a) PROVE FALSE
      <4>1. r \in NotAfter(a) /\ Previous(a) = r
        BY <1>2, <1>3
      <4>2. In(a, r)
        BY <1>1, <1>3
      <4> QED
        BY <4>1, <4>2, <2>3
    <3> QED
      BY <3>1, <2>3
  <2> QED
    BY <1>3, <2>1, <2>2, <2>3 DEF containing_region
<1>4. MappingInv /\ [Next]_vars =>
        [\A a \in Addr : containing_region(a) =>
           LET fnd == {r \in m_active_regions : a \in Within(r)}
           IN answer' \in fnd \/ (fnd = {} /\ answer' = NoRegion)]_vars
  BY <1>3
<1> QED
  BY <1>4, InvAlways, PTL DEF Spec, LookupRight
=============================================================================
