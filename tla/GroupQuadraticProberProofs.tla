--------------------- MODULE GroupQuadraticProberProofs ---------------------
(***************************************************************************)
(* A traversal of a table whose number of groups is a power of two visits  *)
(* every group exactly once.  Two probes m < n in the same group would     *)
(* make 2 * (mask + 1) divide (n - m) * (n + m + 1); one of the factors is *)
(* odd, so it would divide the other, which is smaller than it is.         *)
(***************************************************************************)
EXTENDS GroupQuadraticProber, FiniteSetTheorems, WellFoundedInduction, TLAPS

(* Every non-empty set of natural numbers has a least element. *)
LEMMA LeastElement ==
  ASSUME NEW T, T \subseteq Nat, T # {}
  PROVE  \E x \in T : \A y \in T : x <= y
<1> DEFINE Below(n) == 0 .. (n - 1)
           F == {Below(n) : n \in T}
<1>1. F \subseteq FiniteSubsetsOf(Nat)
  <2> SUFFICES ASSUME NEW n \in T PROVE Below(n) \in FiniteSubsetsOf(Nat)
    OBVIOUS
  <2>1. n \in Nat
    OBVIOUS
  <2>2. IsFiniteSet(0 .. (n - 1))
    BY <2>1, FS_Interval
  <2> QED
    BY <2>1, <2>2 DEF FiniteSubsetsOf
<1>2. F # {}
  OBVIOUS
<1>3. \E u \in F : \A w \in F : ~ (<<w, u>> \in StrictSubsetOrdering(Nat))
  <2> HIDE DEF F
  <2> QED
    BY <1>1, <1>2, WFMin, FS_StrictSubsetOrderingWellFounded
<1>4. PICK x \in T : \A y \in T : ~ (<<Below(y), Below(x)>> \in StrictSubsetOrdering(Nat))
  BY <1>3
<1>5. ASSUME NEW y \in T, y < x PROVE FALSE
  <2>1. x \in Nat /\ y \in Nat
    OBVIOUS
  <2>2. Below(y) \subseteq Below(x) /\ Below(y) \subseteq Nat /\ Below(x) \subseteq Nat
    BY <2>1, <1>5
  <2>3. y \in Below(x) /\ y \notin Below(y)
    BY <2>1, <1>5
  <2>4. Below(y) # Below(x)
    BY <2>3
  <2>5. <<Below(y), Below(x)>> \in StrictSubsetOrdering(Nat)
    <3> HIDE DEF Below
    <3> QED
      BY <2>2, <2>4 DEF StrictSubsetOrdering
  <2> QED
    BY <2>5, <1>4
<1> QED
  BY <1>5

(* Division with remainder by a positive number. *)
LEMMA DivMod ==
  ASSUME NEW n \in Nat, NEW d \in Nat \ {0}
  PROVE  /\ n % d \in 0..(d-1)
         /\ n \div d \in Nat
         /\ n = (d * (n \div d)) + (n % d)
  OBVIOUS

(* A multiple of d leaves no remainder. *)
LEMMA ZeroMod ==
  ASSUME NEW d \in Nat \ {0}, NEW q \in Nat
  PROVE  (d * q) % d = 0
  OBVIOUS

(* A natural number is odd or even, and is written so. *)
LEMMA Parity ==
  ASSUME NEW n \in Nat
  PROVE  \/ n % 2 = 1 /\ \E q \in Nat : n = 2 * q + 1
         \/ n % 2 = 0 /\ \E q \in Nat : n = 2 * q
<1>1. n \div 2 \in Nat /\ n % 2 \in {0, 1} /\ n = 2 * (n \div 2) + (n % 2)
  OBVIOUS
<1> QED
  BY <1>1

(* Doubling and halving is the identity. *)
LEMMA HalfOfDouble ==
  ASSUME NEW m \in Nat
  PROVE  (2 * m) \div 2 = m
  OBVIOUS

(* The n-th triangular number is a natural number, half of n * (n + 1). *)
LEMMA HalfTriangle ==
  ASSUME NEW n \in Nat
  PROVE  /\ Triangle(n) \in Nat
         /\ 2 * Triangle(n) = n * (n + 1)
<1>1. \E p \in Nat : n * (n + 1) = 2 * p
  <2>1. CASE \E q \in Nat : n = 2 * q
    <3>1. PICK q \in Nat : n = 2 * q
      BY <2>1
    <3>2. n * (n + 1) = 2 * (q * (n + 1)) /\ q * (n + 1) \in Nat
      BY <3>1
    <3> QED
      BY <3>2
  <2>2. CASE \E q \in Nat : n = 2 * q + 1
    <3>1. PICK q \in Nat : n = 2 * q + 1
      BY <2>2
    <3>2. n * (n + 1) = 2 * (n * (q + 1)) /\ n * (q + 1) \in Nat
      BY <3>1
    <3> QED
      BY <3>2
  <2> QED
    BY <2>1, <2>2, Parity
<1>2. PICK p \in Nat : n * (n + 1) = 2 * p
  BY <1>1
<1> QED
  BY <1>2, HalfOfDouble DEF Triangle

(* Half of a power of two other than 1 is a power of two. *)
LEMMA Pow2Half ==
  ASSUME NEW n \in Nat, IsPow2(n), n # 1
  PROVE  \E m \in Nat : n = 2 * m /\ IsPow2(m)
<1>1. n \in 2..n /\ n > 1
  BY DEF IsPow2
<1>2. n % n = 0
  BY <1>1, ZeroMod, n * 1 = n
<1>3. PICK m \in Nat : n = 2 * m
  BY <1>1, <1>2, Parity DEF IsPow2
<1>4. ASSUME NEW d \in 2..m, d % 2 = 1, m % d = 0 PROVE FALSE
  <2>1. PICK q \in Nat : m = d * q
    BY <1>4, DivMod
  <2>2. n = d * (2 * q)
    BY <2>1, <1>3
  <2>3. n % d = 0
    BY <2>2, ZeroMod
  <2> QED
    BY <2>3, <1>3, <1>4 DEF IsPow2
<1>5. m > 0
  BY <1>1, <1>3
<1>6. IsPow2(m)
  BY <1>4, <1>5 DEF IsPow2
<1> QED
  BY <1>3, <1>6

(* Twice a power of two is a power of two. *)
LEMMA Pow2Double ==
  ASSUME NEW n \in Nat, IsPow2(n)
  PROVE  IsPow2(2 * n)
<1>1. n > 0
  BY DEF IsPow2
<1>2. ASSUME NEW d \in 2..(2 * n), d % 2 = 1, (2 * n) % d = 0 PROVE FALSE
  <2>1. PICK q \in Nat : 2 * n = d * q
    <3>1. 2 * n \in Nat /\ d \in Nat \ {0}
      OBVIOUS
    <3>2. 2 * n = (d * ((2 * n) \div d)) + ((2 * n) % d) /\ (2 * n) \div d \in Nat
      <4> DEFINE N == 2 * n
      <4> HIDE DEF N
      <4>1. N \in Nat
        BY DEF N
      <4>2. N = (d * (N \div d)) + (N % d) /\ N \div d \in Nat
        BY <4>1, <3>1, DivMod
      <4> QED
        BY <4>2 DEF N
    <3> QED
      BY <3>2, <1>2
  <2>2. PICK e \in Nat : d = 2 * e + 1
    BY <1>2, Parity
  <2>3. q = 2 * (n - e * q)
    BY <2>1, <2>2
  <2>4. n - e * q \in Nat
    <3>1. e * q \in Nat
      OBVIOUS
    <3> QED
      BY <3>1, <2>3
  <2>5. PICK r \in Nat : q = 2 * r
    BY <2>3, <2>4
  <2>6. n = d * r
    BY <2>1, <2>5
  <2>7. n % d = 0
    BY <2>6, ZeroMod
  <2>8. d <= n
    <3>1. r >= 1
      BY <2>6, <1>1
    <3> QED
      BY <2>6, <3>1
  <2> QED
    BY <2>7, <2>8, <1>2 DEF IsPow2
<1> QED
  BY <1>1, <1>2 DEF IsPow2

(* There is a power of two between a number and its double. *)
LEMMA Pow2Between ==
  ASSUME NEW n \in Nat, n >= 1
  PROVE  \E p \in n..(2 * n) : IsPow2(p) /\ p < 2 * n
<1> DEFINE Good(k) == \E p \in Nat : k <= p /\ p < 2 * k /\ IsPow2(p)
           T == {k \in Nat : k >= 1 /\ ~ Good(k)}
<1>1. SUFFICES ASSUME T # {} PROVE FALSE
  <2>1. n \notin T
    <3> HIDE DEF T
    <3> QED
      BY <1>1
  <2>2. Good(n)
    <3> HIDE DEF Good
    <3> QED
      BY <2>1
  <2> QED
    BY <2>2
<1>2. PICK k \in T : \A j \in T : k <= j
  <2>1. T \subseteq Nat
    OBVIOUS
  <2> HIDE DEF T
  <2> QED
    BY <1>1, <2>1, LeastElement
<1>3. k \in Nat /\ k >= 1 /\ ~ Good(k)
  <2> HIDE DEF Good
  <2> QED
    OBVIOUS
<1>4. k # 1
  <2>1. IsPow2(1)
    BY DEF IsPow2
  <2> QED
    BY <2>1, <1>3
<1>5. Good(k - 1)
  <2>1. k - 1 \in Nat /\ k - 1 >= 1 /\ k - 1 < k
    BY <1>3, <1>4
  <2>2. k - 1 \notin T
    <3> HIDE DEF T
    <3> QED
      BY <2>1, <1>2, <1>3
  <2> HIDE DEF Good
  <2> QED
    BY <2>1, <2>2
<1>6. PICK p \in Nat : k - 1 <= p /\ p < 2 * (k - 1) /\ IsPow2(p)
  BY <1>5
<1>7. CASE k <= p
  BY <1>3, <1>6, <1>7
<1>8. CASE p < k
  <2>1. 2 * p \in Nat /\ k <= 2 * p /\ 2 * p < 2 * k
    BY <1>3, <1>4, <1>6, <1>8
  <2>2. IsPow2(2 * p)
    BY <1>6, Pow2Double
  <2> QED
    BY <2>1, <2>2, <1>3
<1> QED
  BY <1>3, <1>6, <1>7, <1>8

(* A power of two divides every larger one. *)
LEMMA Pow2Divides ==
  ASSUME NEW a \in Nat, NEW b \in Nat, IsPow2(a), IsPow2(b), a <= b
  PROVE  \E q \in Nat : b = a * q /\ IsPow2(q)
<1> DEFINE Splits(x, y) == \E q \in Nat : y = x * q /\ IsPow2(q)
           Bad(x) == \E y \in Nat : IsPow2(y) /\ x <= y /\ ~ Splits(x, y)
           T == {x \in Nat : IsPow2(x) /\ Bad(x)}
<1>1. SUFFICES ASSUME T # {} PROVE FALSE
  <2>1. a \notin T
    <3> HIDE DEF T
    <3> QED
      BY <1>1
  <2>2. ~ Bad(a)
    <3> HIDE DEF Bad
    <3> QED
      BY <2>1
  <2>3. Splits(a, b)
    <3> HIDE DEF Splits
    <3> QED
      BY <2>2
  <2> QED
    BY <2>3
<1>2. PICK x \in T : \A z \in T : x <= z
  <2>1. T \subseteq Nat
    OBVIOUS
  <2> HIDE DEF T
  <2> QED
    BY <1>1, <2>1, LeastElement
<1>3. x \in Nat /\ IsPow2(x) /\ Bad(x) /\ x > 0
  <2> HIDE DEF Bad
  <2> QED
    BY DEF IsPow2
<1>4. PICK y \in Nat : IsPow2(y) /\ x <= y /\ ~ Splits(x, y)
  <2> HIDE DEF Splits
  <2> QED
    BY <1>3
<1>5. x # 1
  <2>1. ASSUME x = 1 PROVE Splits(x, y)
    BY <2>1, <1>4
  <2> HIDE DEF Splits
  <2> QED
    BY <2>1, <1>4
<1>6. y # 1
  BY <1>3, <1>4, <1>5
<1>7. PICK v \in Nat : x = 2 * v /\ IsPow2(v)
  BY <1>3, <1>5, Pow2Half
<1>8. PICK w \in Nat : y = 2 * w /\ IsPow2(w)
  BY <1>4, <1>6, Pow2Half
<1>9. v < x /\ v <= w
  BY <1>3, <1>4, <1>7, <1>8
<1>10. ~ Bad(v)
  <2>1. v \notin T
    <3> HIDE DEF T
    <3> QED
      BY <1>2, <1>3, <1>9
  <2> HIDE DEF Bad
  <2> QED
    BY <2>1, <1>7
<1>11. Splits(v, w)
  <2> HIDE DEF Splits
  <2> QED
    BY <1>8, <1>9, <1>10
<1>12. PICK q \in Nat : w = v * q /\ IsPow2(q)
  BY <1>11
<1>13. y = x * q
  BY <1>7, <1>8, <1>12
<1>14. Splits(x, y)
  BY <1>12, <1>13
<1> QED
  <2> HIDE DEF Splits
  <2> QED
    BY <1>4, <1>14

(* Dividing a multiple gives the factor back. *)
LEMMA Quotient ==
  ASSUME NEW d \in Nat \ {0}, NEW q \in Nat
  PROVE  (d * q) \div d = q
OBVIOUS

Odd(n) == n % 2 = 1

Divides(n, b) == \E e \in Nat : b = n * e

(***************************************************************************)
(* An odd factor can be dropped: what a power of two divides it still      *)
(* divides without it.                                                     *)
(***************************************************************************)
LEMMA OddFactor ==
  ASSUME NEW n \in Nat, IsPow2(n), NEW a \in Nat, Odd(a),
         NEW b \in Nat, NEW p \in Nat, p = a * b, Divides(n, p)
  PROVE  Divides(n, b)
<1> USE DEF Odd, Divides
<1> DEFINE Bad(k) == \E x, y \in Nat : a * x = k * y /\ ~ \E e \in Nat : x = k * e
           T == {k \in Nat : IsPow2(k) /\ Bad(k)}
<1>1. SUFFICES ASSUME T # {} PROVE FALSE
  <2>1. SUFFICES ASSUME ~ Divides(n, b) PROVE FALSE
    OBVIOUS
  <2>2. PICK c \in Nat : a * b = n * c
    OBVIOUS
  <2>3. n \in T
    BY <2>1, <2>2
  <2> QED
    BY <2>3
<1>2. PICK k \in T : \A j \in T : k <= j
  <2> HIDE DEF Bad
  <2> QED
    BY <1>1, LeastElement
<1>3. PICK x \in Nat, y \in Nat : a * x = k * y /\ ~ \E e \in Nat : x = k * e
  OBVIOUS
<1>4. k \in Nat /\ IsPow2(k) /\ k > 0
  BY DEF IsPow2
<1>5. k # 1
  BY <1>3
<1>6. PICK m \in Nat : k = 2 * m /\ IsPow2(m)
  BY <1>4, <1>5, Pow2Half
<1>7. PICK h \in Nat : a = 2 * h + 1
  BY Parity
<1>8. x = 2 * (m * y - h * x)
  BY <1>3, <1>6, <1>7
<1>9. PICK w \in Nat : x = 2 * w
  <2>1. m * y \in Nat /\ h * x \in Nat
    OBVIOUS
  <2>2. m * y - h * x \in Nat
    BY <2>1, <1>8
  <2> QED
    BY <2>2, <1>8
<1>10. a * w = m * y
  BY <1>3, <1>6, <1>9
<1>11. \E e \in Nat : w = m * e
  <2>1. m < k
    BY <1>4, <1>6
  <2>2. m \notin T
    <3> HIDE DEF T
    <3> QED
      BY <2>1, <1>2, <1>4
  <2>3. ~ Bad(m)
    <3> HIDE DEF Bad
    <3> QED
      BY <2>2, <1>6
  <2> QED
    BY <2>3, <1>10
<1>12. PICK e \in Nat : w = m * e
  BY <1>11
<1>13. x = k * e
  BY <1>9, <1>12, <1>6
<1> QED
  BY <1>13, <1>3

(* Numbers with the same remainder differ by a multiple. *)
LEMMA SameRemainder ==
  ASSUME NEW a \in Nat, NEW b \in Nat, NEW d \in Nat \ {0},
         a <= b, a % d = b % d
  PROVE  \E e \in Nat : b - a = d * e
<1>1. a = (d * (a \div d)) + (a % d) /\ b = (d * (b \div d)) + (b % d)
  BY DivMod
<1>2. b - a = d * ((b \div d) - (a \div d))
  BY <1>1
<1>3. (b \div d) - (a \div d) \in Int
  OBVIOUS
<1>4. ASSUME (b \div d) - (a \div d) < 0 PROVE FALSE
  <2> DEFINE z == (b \div d) - (a \div d)
  <2> HIDE DEF z
  <2>1. z \in Int /\ z < 0 /\ b - a = d * z
    BY <1>2, <1>3, <1>4 DEF z
  <2>2. d * z < 0
    BY <2>1
  <2> QED
    BY <2>1, <2>2
<1>5. (b \div d) - (a \div d) \in Nat
  BY <1>3, <1>4
<1> QED
  BY <1>2, <1>5, Zenon

(* A number is determined by its remainder and its quotient. *)
LEMMA ModUnique ==
  ASSUME NEW d \in Nat \ {0}, NEW q \in Nat, NEW r \in 0..(d-1)
  PROVE  ((d * q) + r) % d = r
OBVIOUS

(* A term of a sum may be reduced before the sum is. *)
LEMMA ModAdd ==
  ASSUME NEW a \in Nat, NEW b \in Nat, NEW d \in Nat \ {0}
  PROVE  ((a % d) + b) % d = (a + b) % d
<1> DEFINE r == a % d
           q == a \div d
           s == (r + b) % d
           p == (r + b) \div d
<1>1. r \in 0..(d-1) /\ q \in Nat /\ a = (d * q) + r
  BY DivMod
<1>2. s \in 0..(d-1) /\ p \in Nat /\ r + b = (d * p) + s
  <2> DEFINE n == r + b
  <2>1. n \in Nat
    BY <1>1
  <2>2. n % d \in 0..(d-1) /\ n \div d \in Nat /\ n = (d * (n \div d)) + (n % d)
    <3> HIDE DEF n
    <3> QED
      BY <2>1, DivMod
  <2> QED
    BY <2>2
<1> HIDE DEF r, q, s, p
<1>3. a + b = (d * (q + p)) + s /\ q + p \in Nat
  BY <1>1, <1>2
<1>4. ((d * (q + p)) + s) % d = s
  <2> DEFINE u == q + p
  <2>1. u \in Nat
    BY <1>3
  <2> HIDE DEF u
  <2>2. ((d * u) + s) % d = s
    BY <2>1, <1>2, ModUnique
  <2> QED
    BY <2>2 DEF u
<1> QED
  BY <1>3, <1>4 DEF s, r

(***************************************************************************)
(* What next_bucket() computes from its index and its step is the next     *)
(* probe of the closed form.                                               *)
(***************************************************************************)
LEMMA ProbeStep ==
  ASSUME NEW mask \in Nat, NEW home \in Nat, NEW n \in Nat
  PROVE  NextIndex(Probe(home, n, mask), n, mask) = Probe(home, n + 1, mask)
<1>1. /\ Triangle(n) \in Nat /\ 2 * Triangle(n) = n * (n + 1)
      /\ Triangle(n + 1) \in Nat /\ 2 * Triangle(n + 1) = (n + 1) * (n + 1 + 1)
  BY HalfTriangle
<1>2. Triangle(n + 1) = Triangle(n) + n + 1
  BY <1>1
<1>3. Probe(home, n + 1, mask) = (home + Triangle(n + 1)) % (mask + 1)
  BY DEF Probe
<1>4. CASE n = 0
  <2>1. Triangle(0) = 0
    BY HalfTriangle
  <2> QED
    BY <1>2, <1>3, <1>4, <2>1 DEF Probe, NextIndex
<1>5. CASE n # 0
  <2> DEFINE a == home + Triangle(n)
             b == n + 1
             d == mask + 1
  <2>1. a \in Nat /\ b \in Nat /\ d \in Nat \ {0}
    BY <1>1
  <2>2. ((a % d) + b) % d = (a + b) % d
    <3> HIDE DEF a, b, d
    <3> QED
      BY <2>1, ModAdd
  <2>3. NextIndex(Probe(home, n, mask), n, mask) = ((a % d) + n + 1) % d
    BY <1>5 DEF Probe, NextIndex
  <2>4. a % d \in Nat
    <3> HIDE DEF a, d
    <3> QED
      BY <2>1, DivMod
  <2>5. (a % d) + n + 1 = (a % d) + b
    <3> HIDE DEF a, d
    <3> QED
      BY <2>4
  <2>6. home + Triangle(n + 1) = a + b
    BY <1>1, <1>2
  <2> QED
    BY <1>3, <2>2, <2>3, <2>5, <2>6
<1> QED
  BY <1>4, <1>5

(* Every probe is a group of the table. *)
LEMMA ProbeRange ==
  ASSUME NEW mask \in Nat, NEW home \in 0..mask, NEW n \in Nat
  PROVE  Probe(home, n, mask) \in 0..mask
<1>1. Triangle(n) \in Nat
  BY HalfTriangle
<1> QED
  BY <1>1 DEF Probe

(***************************************************************************)
(* Two probes of the same sequence meet in the same group only if they are *)
(* the same probe, as long as they are among the first mask + 1.           *)
(***************************************************************************)
THEOREM ProbeInjective ==
  ASSUME NEW mask \in Nat, IsPow2(mask + 1), NEW home \in 0..mask,
         NEW m \in 0..mask, NEW n \in 0..mask, m < n
  PROVE  Probe(home, m, mask) # Probe(home, n, mask)
<1> SUFFICES ASSUME Probe(home, m, mask) = Probe(home, n, mask) PROVE FALSE
  OBVIOUS
<1> DEFINE G == mask + 1
<1>1. \A i \in 0..mask : Probe(home, i, mask) = (home + Triangle(i)) % G
  <2> SUFFICES ASSUME NEW i \in 0..mask, i = 0
               PROVE  home = (home + Triangle(i)) % G
    BY DEF Probe
  <2>1. Triangle(i) = 0
    BY HalfTriangle
  <2> QED
    BY <2>1
<1>2. /\ Triangle(m) \in Nat /\ Triangle(n) \in Nat
      /\ 2 * Triangle(m) = m * (m + 1) /\ 2 * Triangle(n) = n * (n + 1)
  BY HalfTriangle
<1>3. 2 * (Triangle(n) - Triangle(m)) = (n - m) * (n + m + 1)
  <2>1. (n - m) * (n + m + 1) = n * (n + 1) - m * (m + 1)
    OBVIOUS
  <2>2. 2 * (Triangle(n) - Triangle(m)) = 2 * Triangle(n) - 2 * Triangle(m)
    BY <1>2
  <2>3. m \in Nat /\ n \in Nat
    OBVIOUS
  <2> QED
    BY <2>1, <2>2, <2>3, <1>2
<1>4. Triangle(m) <= Triangle(n)
  <2>1. (n - m) * (n + m + 1) >= 0
    OBVIOUS
  <2> QED
    BY <2>1, <1>2, <1>3
<1>5. PICK e \in Nat : Triangle(n) - Triangle(m) = G * e
  <2>1. (home + Triangle(m)) % G = (home + Triangle(n)) % G
    BY <1>1
  <2> DEFINE a == home + Triangle(m)
             b == home + Triangle(n)
  <2>2. a \in Nat /\ b \in Nat /\ a <= b /\ G \in Nat \ {0} /\ a % G = b % G
    BY <2>1, <1>2, <1>4
  <2>3. \E e \in Nat : b - a = G * e
    <3> HIDE DEF a, b, G
    <3> QED
      BY <2>2, SameRemainder
  <2> QED
    BY <2>3, <1>2
<1>6. (n - m) * (n + m + 1) = (2 * G) * e
  BY <1>3, <1>5
<1>7. IsPow2(2 * G) /\ 2 * G \in Nat
  BY Pow2Double
<1>8. CASE (n - m) % 2 = 1
  <2>1. \E c \in Nat : n + m + 1 = (2 * G) * c
    <3> DEFINE a == n - m
               b == n + m + 1
               p == 2 * G
               q == a * b
    <3>1. a \in Nat /\ b \in Nat /\ p \in Nat /\ IsPow2(p) /\ Odd(a)
      BY <1>7, <1>8 DEF Odd
    <3>2. q \in Nat /\ q = a * b
      OBVIOUS
    <3>3. Divides(p, q)
      BY <1>6 DEF Divides
    <3>4. Divides(p, b)
      <4> HIDE DEF a, b, p, q
      <4> QED
        BY <3>1, <3>2, <3>3, OddFactor
    <3> QED
      BY <3>4 DEF Divides
  <2>2. PICK c \in Nat : n + m + 1 = (2 * G) * c
    BY <2>1
  <2>3. c # 0
    BY <2>2
  <2>4. (2 * G) * c >= 2 * G
    BY <2>3
  <2> QED
    BY <2>2, <2>4
<1>9. CASE (n - m) % 2 = 0
  <2>1. (n + m + 1) % 2 = 1
    BY <1>9
  <2>2. \E c \in Nat : n - m = (2 * G) * c
    <3> DEFINE a == n + m + 1
               b == n - m
               p == 2 * G
               q == a * b
    <3>1. a \in Nat /\ b \in Nat /\ p \in Nat /\ IsPow2(p) /\ Odd(a)
      BY <1>7, <2>1 DEF Odd
    <3>2. q \in Nat /\ q = a * b
      OBVIOUS
    <3>3. Divides(p, q)
      BY <1>6 DEF Divides
    <3>4. Divides(p, b)
      <4> HIDE DEF a, b, p, q
      <4> QED
        BY <3>1, <3>2, <3>3, OddFactor
    <3> QED
      BY <3>4 DEF Divides
  <2>3. PICK c \in Nat : n - m = (2 * G) * c
    BY <2>2
  <2>4. c # 0
    BY <2>3
  <2>5. (2 * G) * c >= 2 * G
    BY <2>4
  <2> QED
    BY <2>3, <2>5
<1> QED
  BY <1>8, <1>9

(***************************************************************************)
(* The first mask + 1 probes reach every group: the comment in the source  *)
(* that the whole array has been traversed when next_bucket() returns      *)
(* false.  An insertion that finds a free slot anywhere in the table       *)
(* therefore finds one, and a lookup that ends on it has seen every group. *)
(***************************************************************************)
THEOREM ProbeCovers ==
  ASSUME NEW mask \in Nat, IsPow2(mask + 1), NEW home \in 0..mask,
         NEW g \in 0..mask
  PROVE  \E n \in 0..mask : Probe(home, n, mask) = g
<1> DEFINE f == [n \in 0..mask |-> Probe(home, n, mask)]
<1>1. f \in [0..mask -> 0..mask]
  BY ProbeRange
<1>2. \A i, j \in 0..mask : f[i] = f[j] => i = j
  <2> SUFFICES ASSUME NEW i \in 0..mask, NEW j \in 0..mask, i # j PROVE f[i] # f[j]
    OBVIOUS
  <2>1. CASE i < j
    BY <2>1, ProbeInjective
  <2>2. CASE j < i
    BY <2>2, ProbeInjective
  <2> QED
    BY <2>1, <2>2
<1>3. f \in Injection(0..mask, 0..mask)
  BY <1>1, <1>2 DEF Injection, IsInjective
<1>4. IsFiniteSet(0..mask)
  BY FS_Interval
<1>5. f \in Surjection(0..mask, 0..mask)
  <2> HIDE DEF f
  <2> QED
    BY <1>3, <1>4, FS_Injection
<1> QED
  BY <1>5 DEF Surjection
=============================================================================
