----------------------------- MODULE Remainders -----------------------------
(***************************************************************************)
(* Remainders by a modulus that need not be a power of two: what the proofs *)
(* about cursors (RleDrain) and clocks (TimeBase, LedBlinker) know of them. *)
(***************************************************************************)
EXTENDS Integers, TLAPS

------------------------------------------------------------------------------
\* Quotients.

\* Quotient and remainder.
LEMMA Divides ==
  ASSUME NEW m \in Nat \ {0}, NEW x \in Int
  PROVE  /\ x \div m \in Int
         /\ x % m \in 0 .. m - 1
         /\ x = m * (x \div m) + (x % m)
OBVIOUS

\* A non-zero multiple of m is at least m.
LEMMA OneMultiple ==
  ASSUME NEW m \in Nat \ {0}, NEW d \in Int, d >= 1
  PROVE  m * d >= m
OBVIOUS

\* Quotients do not overlap.
LEMMA QuotientBound ==
  ASSUME NEW m \in Nat \ {0}, NEW p \in Int, NEW q \in Int, p > q,
         NEW r \in 0 .. m - 1, NEW t \in 0 .. m - 1
  PROVE  m * p + r # m * q + t
<1>1. m * (p - q) >= m
  BY OneMultiple
<1>2. m * (p - q) = m * p - m * q
  OBVIOUS
<1> QED BY <1>1, <1>2

\* Remainders are unique.
LEMMA RemainderUnique ==
  ASSUME NEW m \in Nat \ {0}, NEW p \in Int, NEW q \in Int,
         NEW r \in 0 .. m - 1, NEW t \in 0 .. m - 1, m * p + r = m * q + t
  PROVE  r = t
<1>1. ~(p > q) /\ ~(q > p)
  BY QuotientBound
<1> QED BY <1>1

\* Whole turns leave the remainder as it is.
LEMMA WholeTurns ==
  ASSUME NEW m \in Nat \ {0}, NEW x \in Int, NEW k \in Int
  PROVE  (x + m * k) % m = x % m
<1> DEFINE q == x \div m
           p == (x + m * k) \div m
           r == x % m
           t == (x + m * k) % m
<1>1. m * k \in Int /\ x + m * k \in Int
  OBVIOUS
<1>2. x = m * q + r /\ q \in Int /\ r \in 0 .. m - 1
  BY Divides
<1>3. x + m * k = m * p + t /\ p \in Int /\ t \in 0 .. m - 1
  BY <1>1, Divides
<1> HIDE DEF p, q, r, t
<1>4. m * (q + k) = m * q + m * k /\ q + k \in Int
  BY <1>2
<1>5. m * (q + k) + r = m * p + t
  BY <1>1, <1>2, <1>3, <1>4
<1>6. r = t
  BY <1>2, <1>3, <1>4, <1>5, RemainderUnique
<1> QED BY <1>6 DEF r, t

\* A small number is its own remainder.
LEMMA SmallRemainder ==
  ASSUME NEW m \in Nat \ {0}, NEW x \in 0 .. m - 1
  PROVE  x % m = x
OBVIOUS

\* The remainder of a sum depends on the remainders of its parts only.
LEMMA SumRemainder ==
  ASSUME NEW m \in Nat \ {0}, NEW x \in Int, NEW y \in Int
  PROVE  ((x % m) + y) % m = (x + y) % m
<1> DEFINE q == x \div m
           r == x % m
<1>1. x = m * q + r /\ q \in Int /\ r \in Int
  BY Divides
<1> HIDE DEF q, r
<1>2. m * q \in Int /\ x + y = (r + y) + m * q
  BY <1>1
<1>3. ((r + y) + m * q) % m = (r + y) % m
  <2>1. r + y \in Int
    BY <1>1
  <2> HIDE DEF r
  <2> QED BY <1>1, <2>1, WholeTurns
<1> QED BY <1>2, <1>3 DEF r

\* ... and that of a difference, likewise.
LEMMA DifferenceRemainder ==
  ASSUME NEW m \in Nat \ {0}, NEW x \in Int, NEW y \in Int
  PROVE  (x - (y % m)) % m = (x - y) % m
<1> DEFINE q == y \div m
           r == y % m
<1>1. y = m * q + r /\ q \in Int /\ r \in Int
  BY Divides
<1> HIDE DEF q, r
<1>2. m * q \in Int /\ x - r = (x - y) + m * q
  BY <1>1
<1>3. ((x - y) + m * q) % m = (x - y) % m
  <2>1. x - y \in Int
    OBVIOUS
  <2> QED BY <1>1, <2>1, WholeTurns
<1> QED BY <1>2, <1>3 DEF r

\* Two numbers less than m apart with the same remainder are the same.
LEMMA SameRemainder ==
  ASSUME NEW m \in Nat \ {0}, NEW x \in Int, NEW y \in Int,
         x % m = y % m, x - y < m, y - x < m
  PROVE  x = y
<1> DEFINE p == x \div m
           q == y \div m
           r == x % m
<1>1. x = m * p + r /\ y = m * q + r /\ p \in Int /\ q \in Int /\ r \in 0 .. m - 1
  BY Divides
<1> HIDE DEF p, q, r
<1>2. m * (p - q) = m * p - m * q /\ m * (q - p) = m * q - m * p
  BY <1>1
<1>3. ASSUME p - q >= 1 PROVE FALSE
  <2>1. m * (p - q) >= m
    BY <1>1, <1>3, OneMultiple
  <2> QED BY <1>1, <1>2, <2>1
<1>4. ASSUME q - p >= 1 PROVE FALSE
  <2>1. m * (q - p) >= m
    BY <1>1, <1>4, OneMultiple
  <2> QED BY <1>1, <1>2, <2>1
<1>5. p = q
  BY <1>1, <1>3, <1>4
<1> QED BY <1>1, <1>5

\* The difference of two cursors is that of what they count, modulo m.
LEMMA CursorDifference ==
  ASSUME NEW m \in Nat \ {0}, NEW x \in Int, NEW y \in Int
  PROVE  ((x % m) - (y % m)) % m = (x - y) % m
<1> DEFINE r == x % m
           z == -y
<1>1. r \in Int /\ z \in Int /\ r - y = r + z /\ x - y = x + z
  BY Divides
<1>2. (r - (y % m)) % m = (r - y) % m
  <2> HIDE DEF r
  <2> QED BY <1>1, DifferenceRemainder
<1>3. (r + z) % m = (x + z) % m
  <2> HIDE DEF z
  <2> QED BY <1>1, SumRemainder
<1> QED BY <1>1, <1>2, <1>3

\* A whole turn less leaves the remainder as it is.
LEMMA OneTurnLess ==
  ASSUME NEW m \in Nat \ {0}, NEW x \in Int
  PROVE  (x - m) % m = x % m
<1> DEFINE turns == -1
<1>1. turns \in Int /\ x - m = x + m * turns
  OBVIOUS
<1> HIDE DEF turns
<1> QED BY <1>1, WholeTurns

\* A counter that wraps at a multiple of m can be taken modulo m.
LEMMA NestedRemainder ==
  ASSUME NEW m \in Nat \ {0}, NEW w \in Nat \ {0}, w % m = 0, NEW x \in Int
  PROVE  (x % w) % m = x % m
<1> DEFINE q == w \div m
           p == x \div w
           r == x % w
<1>1. w = m * q + 0 /\ q \in Int
  BY Divides
<1>2. x = w * p + r /\ p \in Int /\ r \in Int
  BY Divides
<1> HIDE DEF q, p, r
<1>3. (m * q) * p = m * (q * p) /\ q * p \in Int /\ w = m * q
  BY <1>1, <1>2
<1>4. x = r + m * (q * p)
  <2>1. x = (m * q) * p + r
    BY <1>2, <1>3
  <2>2. m * (q * p) \in Int
    BY <1>3
  <2> QED BY <1>2, <1>3, <2>1, <2>2
<1>5. (r + m * (q * p)) % m = r % m
  BY <1>2, <1>3, WholeTurns
<1> QED BY <1>4, <1>5 DEF r

\* How far x is ahead of y on a circle of m places.
LEMMA CircleDistance ==
  ASSUME NEW m \in Nat \ {0}, NEW x \in 0 .. m - 1, NEW y \in 0 .. m - 1
  PROVE  (x - y) % m = IF y <= x THEN x - y ELSE x - y + m
<1>1. CASE y <= x
  <2>1. x - y \in 0 .. m - 1
    BY <1>1
  <2> QED BY <1>1, <2>1, SmallRemainder
<1>2. CASE ~(y <= x)
  <2> DEFINE z == x - y + m
  <2>1. z \in 0 .. m - 1 /\ z \in Int /\ x - y = z - m
    BY <1>2
  <2> HIDE DEF z
  <2>2. (z - m) % m = z % m /\ z % m = z
    BY <2>1, OneTurnLess, SmallRemainder
  <2> QED BY <1>2, <2>1, <2>2 DEF z
<1> QED BY <1>1, <1>2

\* One place further.
LEMMA CircleStep ==
  ASSUME NEW m \in Nat \ {0}, NEW x \in 0 .. m - 1
  PROVE  (x + 1) % m = IF x + 1 = m THEN 0 ELSE x + 1
<1>1. CASE x + 1 = m
  <2>1. (m - m) % m = m % m /\ m - m = 0 /\ 0 % m = 0
    BY OneTurnLess
  <2> QED BY <1>1, <2>1
<1>2. CASE x + 1 # m
  <2>1. x + 1 \in 0 .. m - 1
    BY <1>2
  <2> QED BY <1>2, <2>1, SmallRemainder
<1> QED BY <1>1, <1>2
=============================================================================
