--------------------------- MODULE FoundationProofs ---------------------------
(***************************************************************************)
(* Proofs about what the datapaths stand on: Ring, for every capacity and   *)
(* every index width the capacity divides - the power-of-two capacities of  *)
(* the USB rings under 32-bit indices; TimeBase and LedBlinker, for every   *)
(* period, every width of the clocks (a whole number of turns of micros()   *)
(* to one of g_millis) and every set of blinks.                             *)
(***************************************************************************)
EXTENDS Ring, LedBlinker, Remainders

------------------------------------------------------------------------------
\* The ring: arithmetic of indices.

\* Quotient and remainder by the capacity (index() of ring.hpp).
LEMMA IndexDivides ==
  ASSUME NEW x \in Int
  PROVE  /\ x \div Capacity \in Int
         /\ x % Capacity \in Slots
         /\ x = Capacity * (x \div Capacity) + (x % Capacity)
BY RingAssumption DEF Slots

\* A non-zero number of turns round the array is at least one capacity.
LEMMA OneTurn ==
  ASSUME NEW d \in Int, d >= 1
  PROVE  Capacity * d >= Capacity
BY RingAssumption

\* Quotient and remainder are unique.
LEMMA IndexUnique ==
  ASSUME NEW q1 \in Int, NEW q2 \in Int, NEW r1 \in Slots, NEW r2 \in Slots,
         Capacity * q1 + r1 = Capacity * q2 + r2
  PROVE  r1 = r2
<1>1. ASSUME q1 - q2 >= 1 PROVE FALSE
  <2>1. Capacity * (q1 - q2) >= Capacity
    BY <1>1, OneTurn
  <2>2. Capacity * (q1 - q2) = Capacity * q1 - Capacity * q2
    BY RingAssumption
  <2> QED BY <2>1, <2>2, RingAssumption DEF Slots
<1>2. ASSUME q2 - q1 >= 1 PROVE FALSE
  <2>1. Capacity * (q2 - q1) >= Capacity
    BY <1>2, OneTurn
  <2>2. Capacity * (q2 - q1) = Capacity * q2 - Capacity * q1
    BY RingAssumption
  <2> QED BY <2>1, <2>2, RingAssumption DEF Slots
<1>3. q1 = q2
  BY <1>1, <1>2
<1> QED BY <1>3, RingAssumption DEF Slots

\* Positions less than one capacity apart lie in different slots.
LEMMA SlotsDiffer ==
  ASSUME NEW x \in Int, NEW j \in Slots, NEW k \in Slots,
         (x + j) % Capacity = (x + k) % Capacity
  PROVE  j = k
<1> DEFINE qj == (x + j) \div Capacity
           qk == (x + k) \div Capacity
<1>0. x + j \in Int /\ x + k \in Int
  BY RingAssumption DEF Slots
<1>1. /\ x + j = Capacity * qj + ((x + j) % Capacity) /\ qj \in Int
      /\ x + k = Capacity * qk + ((x + k) % Capacity) /\ qk \in Int
      /\ (x + j) % Capacity \in Slots
  BY <1>0, IndexDivides
<1> HIDE DEF qj, qk
<1>2. Capacity * (qj - qk) = Capacity * qj - Capacity * qk
  BY <1>1, RingAssumption
<1>3. ASSUME qj - qk >= 1 PROVE FALSE
  <2>1. Capacity * (qj - qk) >= Capacity
    BY <1>1, <1>3, OneTurn
  <2> QED BY <2>1, <1>1, <1>2, RingAssumption DEF Slots
<1>4. ASSUME qk - qj >= 1 PROVE FALSE
  <2>1. Capacity * (qk - qj) >= Capacity
    BY <1>1, <1>4, OneTurn
  <2>2. Capacity * (qk - qj) = Capacity * qk - Capacity * qj
    BY <1>1, RingAssumption
  <2> QED BY <2>1, <2>2, <1>1, RingAssumption DEF Slots
<1>5. qj = qk
  BY <1>1, <1>3, <1>4
<1> QED BY <1>1, <1>5, RingAssumption DEF Slots

\* Reducing a sum of an index and a length modulo W subtracts W at most once.
LEMMA AddWrap ==
  ASSUME NEW a \in 0 .. W - 1, NEW n \in 0 .. Capacity
  PROVE  /\ Advance(a, n) = IF a + n < W THEN a + n ELSE a + n - W
         /\ Advance(a, n) \in 0 .. W - 1
BY RingAssumption DEF Advance

\* Likewise for the difference of two indices.
LEMMA SubWrap ==
  ASSUME NEW a \in 0 .. W - 1, NEW b \in 0 .. W - 1
  PROVE  /\ Distance(a, b) = IF a >= b THEN a - b ELSE a - b + W
         /\ Distance(a, b) \in 0 .. W - 1
BY RingAssumption DEF Distance

\* When the capacity divides the index width, wrapping does not move a slot.
LEMMA SlotAcrossWrap ==
  ASSUME W % Capacity = 0, NEW a \in 0 .. W - 1, NEW n \in 0 .. Capacity
  PROVE  Index(Advance(a, n)) = (a + n) % Capacity
<1>1. CASE a + n < W
  BY <1>1, AddWrap, RingAssumption DEF Index
<1>2. CASE ~(a + n < W)
  <2>1. Advance(a, n) = a + n - W
    BY <1>2, AddWrap
  <2> DEFINE q == W \div Capacity
             q1 == (a + n) \div Capacity
             q2 == (a + n - W) \div Capacity
             r1 == (a + n) % Capacity
             r2 == (a + n - W) % Capacity
  <2>2. W = Capacity * q /\ q \in Int
    BY IndexDivides, RingAssumption DEF Slots
  <2>9. a + n \in Int /\ a + n - W \in Int
    BY RingAssumption
  <2>3. a + n = Capacity * q1 + r1 /\ q1 \in Int /\ r1 \in Slots
    BY <2>9, IndexDivides
  <2>4. a + n - W = Capacity * q2 + r2 /\ q2 \in Int /\ r2 \in Slots
    BY <2>9, IndexDivides
  <2> HIDE DEF q, q1, q2, r1, r2
  <2>5. Capacity * (q1 - q) = Capacity * q1 - Capacity * q /\ q1 - q \in Int
    BY <2>2, <2>3, RingAssumption
  <2>6. Capacity * (q1 - q) + r1 = Capacity * q2 + r2
    BY <2>2, <2>3, <2>4, <2>5, RingAssumption DEF Slots
  <2>7. r1 = r2
    BY <2>3, <2>4, <2>5, <2>6, IndexUnique
  <2> QED BY <2>1, <2>7 DEF Index, r1, r2
<1> QED BY <1>1, <1>2

\* size() after the producer published n items that fitted.
LEMMA SizeGrows ==
  ASSUME NEW h \in 0 .. W - 1, NEW t \in 0 .. W - 1, NEW n \in 0 .. Capacity,
         Distance(h, t) + n <= Capacity
  PROVE  Distance(Advance(h, n), t) = Distance(h, t) + n
<1> DEFINE h2 == Advance(h, n)
<1>1. h2 = (IF h + n < W THEN h + n ELSE h + n - W) /\ h2 \in 0 .. W - 1
  BY AddWrap
<1>2. Distance(h, t) = IF h >= t THEN h - t ELSE h - t + W
  BY SubWrap
<1> HIDE DEF h2
<1>3. Distance(h2, t) = IF h2 >= t THEN h2 - t ELSE h2 - t + W
  BY <1>1, SubWrap
<1>4. Distance(h2, t) = Distance(h, t) + n
  BY <1>1, <1>2, <1>3, RingAssumption
<1> QED BY <1>4 DEF h2

\* size() after the consumer released n of the items there were.
LEMMA SizeShrinks ==
  ASSUME NEW h \in 0 .. W - 1, NEW t \in 0 .. W - 1, NEW n \in 0 .. Capacity,
         n <= Distance(h, t), Distance(h, t) <= Capacity
  PROVE  Distance(h, Advance(t, n)) = Distance(h, t) - n
<1> DEFINE t2 == Advance(t, n)
<1>1. t2 = (IF t + n < W THEN t + n ELSE t + n - W) /\ t2 \in 0 .. W - 1
  BY AddWrap
<1>2. Distance(h, t) = IF h >= t THEN h - t ELSE h - t + W
  BY SubWrap
<1> HIDE DEF t2
<1>3. Distance(h, t2) = IF h >= t2 THEN h - t2 ELSE h - t2 + W
  BY <1>1, SubWrap
<1>4. Distance(h, t2) = Distance(h, t) - n
  BY <1>1, <1>2, <1>3, RingAssumption
<1> QED BY <1>4 DEF t2

\* The head is size() items after the tail.
LEMMA HeadAfterTail ==
  ASSUME NEW h \in 0 .. W - 1, NEW t \in 0 .. W - 1, Distance(h, t) <= Capacity
  PROVE  Advance(t, Distance(h, t)) = h
<1> DEFINE n == Distance(h, t)
<1>0. n = (IF h >= t THEN h - t ELSE h - t + W) /\ n \in 0 .. W - 1
  BY SubWrap
<1> HIDE DEF n
<1>1. n = (IF h >= t THEN h - t ELSE h - t + W) /\ n \in 0 .. Capacity
  BY <1>0, RingAssumption DEF n
<1>2. Advance(t, n) = IF t + n < W THEN t + n ELSE t + n - W
  BY <1>1, AddWrap
<1>3. Advance(t, n) = h
  BY <1>1, <1>2, RingAssumption
<1> QED BY <1>3 DEF n

\* Two advances of together at most one capacity are one advance.
LEMMA AdvanceTwice ==
  ASSUME NEW a \in 0 .. W - 1, NEW m \in 0 .. Capacity, NEW n \in 0 .. Capacity,
         m + n <= Capacity
  PROVE  Advance(Advance(a, m), n) = Advance(a, m + n)
<1> DEFINE b == Advance(a, m)
<1>1. b = (IF a + m < W THEN a + m ELSE a + m - W) /\ b \in 0 .. W - 1
  BY AddWrap
<1>2. m + n \in 0 .. Capacity
  BY RingAssumption
<1>3. Advance(a, m + n) = IF a + (m + n) < W THEN a + (m + n) ELSE a + (m + n) - W
  BY <1>2, AddWrap
<1> HIDE DEF b
<1>4. Advance(b, n) = IF b + n < W THEN b + n ELSE b + n - W
  BY <1>1, AddWrap
<1>5. Advance(b, n) = Advance(a, m + n)
  BY <1>1, <1>3, <1>4, RingAssumption
<1> QED BY <1>5 DEF b

------------------------------------------------------------------------------
\* Slots counted from a position.

SlotAt(a, k) == Index(Advance(a, k))

\* SlotAt most one capacity apart, different offsets are different slots.
LEMMA SlotAtDiffers ==
  ASSUME W % Capacity = 0, NEW a \in 0 .. W - 1, NEW j \in Slots, NEW k \in Slots,
         SlotAt(a, j) = SlotAt(a, k)
  PROVE  j = k
<1>1. j \in 0 .. Capacity /\ k \in 0 .. Capacity /\ a \in Int
  BY RingAssumption DEF Slots
<1>2. SlotAt(a, j) = (a + j) % Capacity /\ SlotAt(a, k) = (a + k) % Capacity
  BY <1>1, SlotAcrossWrap DEF SlotAt
<1> QED BY <1>1, <1>2, SlotsDiffer

LEMMA SlotAtType ==
  ASSUME NEW a \in Int, NEW k \in Int
  PROVE  SlotAt(a, k) \in Slots
<1>1. Advance(a, k) \in Int
  BY RingAssumption DEF Advance
<1> QED BY <1>1, IndexDivides DEF SlotAt, Index

\* Zero-copy and copying operations reach the same slots.
LEMMA SlotOfIsSlotAt ==
  ASSUME W % Capacity = 0, NEW a \in 0 .. W - 1, NEW k \in Slots, NEW way \in {"copy", "place"},
         way = "place" => Index(a) + k < Capacity
  PROVE  SlotOf(way, a, k) = SlotAt(a, k)
<1>1. CASE way = "copy"
  BY <1>1 DEF SlotOf, SlotAt
<1>2. CASE way = "place"
  <2>0. a \in Int /\ a + k \in Int /\ k \in 0 .. Capacity /\ k \in Int
    BY RingAssumption DEF Slots
  <2>1. SlotAt(a, k) = (a + k) % Capacity
    BY <2>0, SlotAcrossWrap DEF SlotAt
  <2> DEFINE q1 == a \div Capacity
             r1 == a % Capacity
             q2 == (a + k) \div Capacity
             r2 == (a + k) % Capacity
  <2>2. a = Capacity * q1 + r1 /\ q1 \in Int /\ r1 \in Slots
    BY <2>0, IndexDivides
  <2>3. a + k = Capacity * q2 + r2 /\ q2 \in Int /\ r2 \in Slots
    BY <2>0, IndexDivides
  <2>4. r1 + k \in Slots
    BY <1>2, <2>0, <2>2, RingAssumption DEF Index, Slots
  <2>5. SlotOf(way, a, k) = r1 + k
    BY <1>2 DEF SlotOf, Index
  <2> HIDE DEF q1, r1, q2, r2
  <2>6. Capacity * q1 + (r1 + k) = Capacity * q2 + r2
    BY <2>0, <2>2, <2>3, RingAssumption DEF Slots
  <2>7. r1 + k = r2
    BY <2>2, <2>3, <2>4, <2>6, IndexUnique
  <2> QED BY <2>1, <2>5, <2>7 DEF r2
<1> QED BY <1>1, <1>2

------------------------------------------------------------------------------
\* The inductive invariant.

LEMMA RingInvInit == Init => RingInv
<1> SUFFICES ASSUME Init PROVE RingInv
  OBVIOUS
<1>1. Size = 0
  BY RingAssumption, SubWrap DEF Init, Size
<1>2. TypeOK
  BY RingAssumption DEF Init, TypeOK, Phases
<1> QED
  BY <1>1, <1>2, RingAssumption
  DEF Init, RingInv, SizeIsExact, StaleReadsAreConservative, InPlaceBlocksFit,
      UnreadItemsIntact, UnpublishedItemsIntact, ConsumerReadsInOrder

\* Facts about a state that satisfies the invariant, in terms of offsets from
\* the tail.
LEMMA Offsets ==
  ASSUME W % Capacity = 0, RingInv
  PROVE  /\ Size \in 0 .. Capacity
         /\ Free \in 0 .. Capacity
         /\ head = Advance(tail, Size)
         /\ ppc # "idle" => \A k \in 0 .. pn - 1 : SlotOf(ppc, ph, k) = SlotAt(tail, Size + k)
         /\ cpc # "idle" => \A k \in 0 .. cn - 1 : SlotOf(cpc, ct, k) = SlotAt(tail, k)
         /\ \A k \in 0 .. Size - 1 : buf[SlotAt(tail, k)] = nextOut + k
<1> USE RingAssumption
<1>1. Size \in 0 .. Capacity
  BY SubWrap DEF RingInv, TypeOK, SizeIsExact, Size
<1>2. Free \in 0 .. Capacity
  BY <1>1 DEF Free
<1>0. head \in 0 .. W - 1 /\ tail \in 0 .. W - 1
  BY DEF RingInv, TypeOK
<1>3. head = Advance(tail, Size)
  <2>1. Distance(head, tail) <= Capacity
    BY <1>1 DEF Size
  <2> QED BY <1>0, <2>1, HeadAfterTail DEF Size
<1>4. ASSUME ppc # "idle", NEW k \in 0 .. pn - 1
      PROVE  SlotOf(ppc, ph, k) = SlotAt(tail, Size + k)
  <2>1. /\ ph = head /\ pn \in 1 .. Free /\ ph \in 0 .. W - 1 /\ tail \in 0 .. W - 1
        /\ ppc \in {"copy", "place"}
        /\ ppc = "place" => Index(ph) + pn <= Capacity
    BY <1>4 DEF RingInv, TypeOK, Phases, StaleReadsAreConservative, InPlaceBlocksFit
  <2>2. Index(ph) \in Slots
    BY <2>1, IndexDivides DEF Index
  <2>3. k \in Slots /\ k \in 0 .. Capacity /\ Size + k \in 0 .. Capacity /\ Size + k <= Capacity
    BY <1>1, <1>2, <2>1 DEF Free, Slots
  <2>4. ppc = "place" => Index(ph) + k < Capacity
    BY <2>1, <2>2, <2>3 DEF Slots
  <2>5. SlotOf(ppc, ph, k) = SlotAt(ph, k)
    BY <2>1, <2>3, <2>4, SlotOfIsSlotAt
  <2>6. Advance(head, k) = Advance(tail, Size + k)
    <3>1. Advance(Advance(tail, Size), k) = Advance(tail, Size + k)
      BY <1>0, <1>1, <2>3, AdvanceTwice
    <3> QED BY <1>3, <3>1
  <2> QED BY <2>1, <2>5, <2>6 DEF SlotAt
<1>5. ASSUME cpc # "idle", NEW k \in 0 .. cn - 1
      PROVE  SlotOf(cpc, ct, k) = SlotAt(tail, k)
  <2>1. /\ ct = tail /\ cn \in 1 .. Size /\ ct \in 0 .. W - 1
        /\ cpc \in {"copy", "place"}
        /\ cpc = "place" => Index(ct) + cn <= Capacity
    BY <1>5 DEF RingInv, TypeOK, Phases, StaleReadsAreConservative, InPlaceBlocksFit
  <2>2. Index(ct) \in Slots
    BY <2>1, IndexDivides DEF Index
  <2>3. k \in Slots
    BY <1>1, <2>1 DEF Slots
  <2>4. cpc = "place" => Index(ct) + k < Capacity
    BY <2>1, <2>2, <2>3 DEF Slots
  <2> QED BY <2>1, <2>3, <2>4, SlotOfIsSlotAt
<1>6. \A k \in 0 .. Size - 1 : buf[SlotAt(tail, k)] = nextOut + k
  BY DEF RingInv, UnreadItemsIntact, SlotAt
<1> QED BY <1>1, <1>2, <1>3, <1>4, <1>5, <1>6

LEMMA ClaimStep ==
  ASSUME W % Capacity = 0, RingInv, NEW way \in {"copy", "place"}, NEW n \in Nat,
         n <= Free, way = "place" => Index(head) + n <= Capacity,
         Claim(way, n)
  PROVE  RingInv'
<1> USE RingAssumption
<1>1. Size' = Size /\ Free' = Free
  BY DEF Claim, Size, Free
<1>2. Size \in 0 .. Capacity /\ Free \in 0 .. Capacity
  BY Offsets
<1>3. TypeOK'
  BY <1>2 DEF RingInv, TypeOK, Claim, consVars, Phases
<1>4. SizeIsExact'
  BY <1>1 DEF RingInv, SizeIsExact, Claim
<1>5. StaleReadsAreConservative'
  BY <1>1, <1>2 DEF RingInv, TypeOK, StaleReadsAreConservative, Claim, consVars
<1>6. InPlaceBlocksFit'
  BY DEF RingInv, InPlaceBlocksFit, Claim, consVars, Index
<1>7. UnreadItemsIntact'
  BY <1>1 DEF RingInv, UnreadItemsIntact, Claim, Index
<1>8. UnpublishedItemsIntact'
  BY DEF UnpublishedItemsIntact, Claim
<1>9. ConsumerReadsInOrder'
  BY DEF RingInv, ConsumerReadsInOrder, Claim, consVars
<1> QED BY <1>3, <1>4, <1>5, <1>6, <1>7, <1>8, <1>9 DEF RingInv

LEMMA WriteItemStep ==
  ASSUME W % Capacity = 0, RingInv, WriteItem
  PROVE  RingInv'
<1> USE RingAssumption
<1> DEFINE s == SlotOf(ppc, ph, pi)
<1>1. /\ Size' = Size /\ Free' = Free
      /\ Size \in 0 .. Capacity /\ Free \in 0 .. Capacity
      /\ tail \in 0 .. W - 1 /\ tail \in Int
  BY Offsets DEF WriteItem, Size, Free, RingInv, TypeOK
<1>2. /\ ppc # "idle" /\ pi \in 0 .. pn - 1 /\ pn \in 1 .. Free /\ pi \in Nat /\ pn \in Nat
  BY DEF RingInv, TypeOK, StaleReadsAreConservative, WriteItem
<1>3. Size + pi \in Slots
  BY <1>1, <1>2 DEF Free, Slots
<1>4. s = SlotAt(tail, Size + pi) /\ s \in Slots
  <2>1. s = SlotAt(tail, Size + pi)
    BY <1>2, Offsets
  <2>2. Size + pi \in Int
    BY <1>1, <1>2
  <2> HIDE DEF s
  <2> QED BY <1>1, <2>1, <2>2, SlotAtType
<1>5. buf' = [buf EXCEPT ![s] = nextIn + pi] /\ pi' = pi + 1 /\ buf \in [Slots -> Nat]
  BY DEF WriteItem, RingInv, TypeOK
<1>6. \A k \in Slots : k # Size + pi => buf'[SlotAt(tail, k)] = buf[SlotAt(tail, k)]
  <2> TAKE k \in Slots
  <2> HAVE k # Size + pi
  <2>1. SlotAt(tail, k) # s
    BY <1>1, <1>3, <1>4, SlotAtDiffers
  <2>2. SlotAt(tail, k) \in Slots
    <3>1. k \in Int
      BY DEF Slots
    <3> QED BY <1>1, <3>1, SlotAtType
  <2> HIDE DEF s
  <2> QED BY <1>5, <2>1, <2>2
<1> HIDE DEF s
<1>7. TypeOK'
  <2>1. nextIn + pi \in Nat /\ pi + 1 \in 0 .. Capacity
    BY <1>1, <1>2 DEF RingInv, TypeOK
  <2>2. buf' \in [Slots -> Nat]
    BY <1>4, <1>5, <2>1
  <2> QED BY <1>5, <2>1, <2>2 DEF RingInv, TypeOK, WriteItem, consVars
<1>8. SizeIsExact'
  BY <1>1 DEF RingInv, SizeIsExact, WriteItem
<1>9. StaleReadsAreConservative'
  BY <1>1, <1>2 DEF RingInv, TypeOK, StaleReadsAreConservative, WriteItem, consVars
<1>10. InPlaceBlocksFit'
  BY DEF RingInv, InPlaceBlocksFit, WriteItem, consVars, Index
<1>11. UnreadItemsIntact'
  <2>1. ASSUME NEW k \in 0 .. Size - 1
        PROVE  buf'[SlotAt(tail, k)] = nextOut + k
    <3>1. k \in Slots /\ k # Size + pi
      BY <1>1, <1>2 DEF Slots
    <3> QED BY <1>6, <3>1, Offsets
  <2> QED BY <1>1, <2>1 DEF UnreadItemsIntact, SlotAt, Index, WriteItem
<1>12. UnpublishedItemsIntact'
  <2>1. ASSUME NEW k \in 0 .. pi
        PROVE  buf'[SlotOf(ppc, ph, k)] = nextIn + k
    <3>1. k \in 0 .. pn - 1 /\ Size + k \in Slots
      BY <1>1, <1>2 DEF Free, Slots
    <3>2. SlotOf(ppc, ph, k) = SlotAt(tail, Size + k)
      BY <1>2, <3>1, Offsets
    <3>3. CASE k = pi
      BY <1>4, <1>5, <3>3 DEF s
    <3>4. CASE k # pi
      <4>1. Size + k # Size + pi /\ k \in 0 .. pi - 1
        BY <1>1, <1>2, <3>4
      <4>2. buf[SlotOf(ppc, ph, k)] = nextIn + k
        BY <1>2, <4>1 DEF RingInv, UnpublishedItemsIntact
      <4> QED BY <1>6, <3>1, <3>2, <4>1, <4>2
    <3> QED BY <3>3, <3>4
  <2>2. pi' - 1 = pi /\ ppc' = ppc /\ ph' = ph /\ nextIn' = nextIn
    BY <1>2 DEF WriteItem
  <2> QED BY <2>1, <2>2 DEF UnpublishedItemsIntact, SlotOf, Index
<1>13. ConsumerReadsInOrder'
  BY DEF RingInv, ConsumerReadsInOrder, WriteItem, consVars
<1> QED BY <1>7, <1>8, <1>9, <1>10, <1>11, <1>12, <1>13 DEF RingInv

LEMMA PublishStep ==
  ASSUME W % Capacity = 0, RingInv, Publish
  PROVE  RingInv' /\ Size' = Size + pn /\ nextOut' = nextOut
<1> USE RingAssumption
<1>1. /\ Size \in 0 .. Capacity /\ Free \in 0 .. Capacity
      /\ head \in 0 .. W - 1 /\ tail \in 0 .. W - 1
      /\ ph = head /\ pn \in 1 .. Free /\ pn \in 0 .. Capacity /\ pi = pn /\ ppc # "idle"
      /\ nextIn \in Nat /\ nextOut \in Nat /\ nextIn = nextOut + Size
  BY Offsets DEF RingInv, TypeOK, SizeIsExact, StaleReadsAreConservative, Publish
<1>2. Size + pn <= Capacity
  BY <1>1 DEF Free
<1>3. Size' = Size + pn
  <2>1. Distance(head, tail) + pn <= Capacity
    BY <1>2 DEF Size
  <2>0. head \in 0 .. W - 1 /\ tail \in 0 .. W - 1 /\ pn \in 0 .. Capacity
    BY <1>1
  <2>2. Distance(Advance(head, pn), tail) = Distance(head, tail) + pn
    BY <2>0, <2>1, SizeGrows
  <2> QED BY <1>1, <2>2 DEF Publish, Size
<1>4. TypeOK'
  <2>1. Advance(ph, pn) \in 0 .. W - 1
    BY <1>1, AddWrap
  <2> QED BY <1>1, <2>1 DEF RingInv, TypeOK, Publish, consVars, Phases
<1>5. SizeIsExact'
  BY <1>1, <1>2, <1>3 DEF SizeIsExact, Publish
<1>6. StaleReadsAreConservative'
  BY <1>1, <1>3 DEF RingInv, TypeOK, StaleReadsAreConservative, Publish, consVars
<1>7. InPlaceBlocksFit'
  BY DEF RingInv, InPlaceBlocksFit, Publish, consVars, Index
<1>8. UnreadItemsIntact'
  <2>1. ASSUME NEW k \in 0 .. (Size + pn) - 1
        PROVE  buf[SlotAt(tail, k)] = nextOut + k
    <3>1. CASE k \in 0 .. Size - 1
      BY <3>1, Offsets
    <3>2. CASE k >= Size
      <4>1. k - Size \in 0 .. pn - 1 /\ Size + (k - Size) = k
        BY <1>1, <3>2
      <4>2. SlotOf(ppc, ph, k - Size) = SlotAt(tail, Size + (k - Size))
        BY <1>1, <4>1, Offsets
      <4>3. buf[SlotOf(ppc, ph, k - Size)] = nextIn + (k - Size)
        BY <1>1, <4>1 DEF RingInv, UnpublishedItemsIntact
      <4> QED BY <1>1, <3>2, <4>1, <4>2, <4>3
    <3> QED BY <1>1, <3>1, <3>2
  <2>2. tail' = tail /\ buf' = buf /\ nextOut' = nextOut
    BY DEF Publish
  <2> QED BY <1>3, <2>1, <2>2 DEF UnreadItemsIntact, SlotAt, Index
<1>9. UnpublishedItemsIntact'
  BY DEF UnpublishedItemsIntact, Publish
<1>10. ConsumerReadsInOrder'
  BY DEF RingInv, ConsumerReadsInOrder, Publish, consVars
<1> QED
  BY <1>3, <1>4, <1>5, <1>6, <1>7, <1>8, <1>9, <1>10 DEF RingInv, Publish

LEMMA OpenStep ==
  ASSUME W % Capacity = 0, RingInv, NEW way \in {"copy", "place"}, NEW n \in Nat,
         n <= Size, way = "place" => Index(tail) + n <= Capacity,
         Open(way, n)
  PROVE  RingInv'
<1> USE RingAssumption
<1>1. Size' = Size /\ Free' = Free /\ Size \in 0 .. Capacity /\ Free \in 0 .. Capacity
  BY Offsets DEF Open, Size, Free
<1>2. TypeOK'
  BY <1>1 DEF RingInv, TypeOK, Open, prodVars, Phases
<1>3. SizeIsExact'
  BY <1>1 DEF RingInv, SizeIsExact, Open
<1>4. StaleReadsAreConservative'
  BY <1>1 DEF RingInv, TypeOK, StaleReadsAreConservative, Open, prodVars
<1>5. InPlaceBlocksFit'
  BY DEF RingInv, InPlaceBlocksFit, Open, prodVars, Index
<1>6. UnreadItemsIntact'
  BY <1>1 DEF RingInv, UnreadItemsIntact, Open, Index
<1>7. UnpublishedItemsIntact'
  BY DEF RingInv, UnpublishedItemsIntact, Open, prodVars, SlotOf, Index
<1>8. ConsumerReadsInOrder'
  BY DEF ConsumerReadsInOrder, Open
<1> QED BY <1>2, <1>3, <1>4, <1>5, <1>6, <1>7, <1>8 DEF RingInv

LEMMA ReadItemStep ==
  ASSUME W % Capacity = 0, RingInv, ReadItem
  PROVE  RingInv'
<1> USE RingAssumption
<1>1. /\ Size' = Size /\ Free' = Free /\ Size \in 0 .. Capacity /\ Free \in 0 .. Capacity
      /\ cpc # "idle" /\ cn \in 1 .. Size /\ dst \in Seq(Nat) /\ Len(dst) \in 0 .. cn - 1
      /\ nextOut \in Nat /\ tail \in 0 .. W - 1
  BY Offsets DEF RingInv, TypeOK, StaleReadsAreConservative, ReadItem, Size, Free
<1> DEFINE s == SlotOf(cpc, ct, Len(dst))
<1>2. s = SlotAt(tail, Len(dst)) /\ s \in Slots
  <2>1. s = SlotAt(tail, Len(dst))
    BY <1>1, Offsets
  <2>2. Len(dst) \in Int /\ tail \in Int
    BY <1>1
  <2> HIDE DEF s
  <2> QED BY <2>1, <2>2, SlotAtType
<1>3. buf[s] = nextOut + Len(dst) /\ buf[s] \in Nat
  <2>1. Len(dst) \in 0 .. Size - 1
    BY <1>1
  <2>2. buf[SlotAt(tail, Len(dst))] = nextOut + Len(dst)
    BY <2>1, Offsets
  <2> HIDE DEF s
  <2> QED BY <1>1, <1>2, <2>2
<1>4. dst' = Append(dst, buf[s])
  BY DEF ReadItem
<1> HIDE DEF s
<1>5. TypeOK'
  BY <1>1, <1>3, <1>4 DEF RingInv, TypeOK, ReadItem, prodVars
<1>6. SizeIsExact'
  BY <1>1 DEF RingInv, SizeIsExact, ReadItem
<1>7. StaleReadsAreConservative'
  BY <1>1, <1>3, <1>4 DEF RingInv, TypeOK, StaleReadsAreConservative, ReadItem, prodVars
<1>8. InPlaceBlocksFit'
  BY DEF RingInv, InPlaceBlocksFit, ReadItem, prodVars, Index
<1>9. UnreadItemsIntact'
  BY <1>1 DEF RingInv, UnreadItemsIntact, ReadItem, Index
<1>10. UnpublishedItemsIntact'
  BY DEF RingInv, UnpublishedItemsIntact, ReadItem, prodVars, SlotOf, Index
<1>11. ConsumerReadsInOrder'
  <2>1. \A k \in 1 .. Len(dst) : dst[k] = nextOut + k - 1
    BY <1>1 DEF RingInv, ConsumerReadsInOrder
  <2>3. /\ Len(dst') = Len(dst) + 1
        /\ \A k \in 1 .. Len(dst) : dst'[k] = dst[k]
        /\ dst'[Len(dst) + 1] = buf[s]
    BY <1>1, <1>3, <1>4
  <2>2. ASSUME NEW k \in 1 .. Len(dst')
        PROVE  dst'[k] = nextOut + k - 1
    <3>1. CASE k = Len(dst) + 1
      BY <1>1, <1>3, <2>3, <3>1
    <3>2. CASE k \in 1 .. Len(dst)
      BY <2>1, <2>3, <3>2
    <3> QED BY <1>1, <2>3, <3>1, <3>2
  <2> QED BY <2>2 DEF ConsumerReadsInOrder, ReadItem
<1> QED BY <1>5, <1>6, <1>7, <1>8, <1>9, <1>10, <1>11 DEF RingInv

LEMMA ReleaseStep ==
  ASSUME W % Capacity = 0, RingInv, Release
  PROVE  RingInv' /\ Size' = Size - cn /\ nextOut' = nextOut + cn
<1> USE RingAssumption
<1>1. /\ Size \in 0 .. Capacity /\ Free \in 0 .. Capacity
      /\ head \in 0 .. W - 1 /\ tail \in 0 .. W - 1
      /\ ct = tail /\ cn \in 1 .. Size /\ cn \in 0 .. Capacity /\ Len(dst) = cn /\ cpc # "idle"
      /\ nextIn \in Nat /\ nextOut \in Nat /\ nextIn = nextOut + Size
      /\ dst \in Seq(Nat)
  BY Offsets DEF RingInv, TypeOK, SizeIsExact, StaleReadsAreConservative, Release
<1>2. Size' = Size - cn
  <2>1. cn <= Distance(head, tail) /\ Distance(head, tail) <= Capacity
    BY <1>1 DEF Size
  <2>0. head \in 0 .. W - 1 /\ tail \in 0 .. W - 1 /\ cn \in 0 .. Capacity
    BY <1>1
  <2>2. Distance(head, Advance(tail, cn)) = Distance(head, tail) - cn
    BY <2>0, <2>1, SizeShrinks
  <2> QED BY <1>1, <2>2 DEF Release, Size
<1>3. TypeOK'
  <2>1. Advance(ct, cn) \in 0 .. W - 1
    BY <1>1, AddWrap
  <2> QED BY <1>1, <2>1 DEF RingInv, TypeOK, Release, prodVars, Phases
<1>4. SizeIsExact'
  BY <1>1, <1>2 DEF SizeIsExact, Release
<1>5. StaleReadsAreConservative'
  <2>1. Free' = Free + cn
    BY <1>1, <1>2 DEF Free
  <2> QED
    BY <1>1, <2>1 DEF RingInv, TypeOK, StaleReadsAreConservative, Release, prodVars
<1>6. InPlaceBlocksFit'
  BY DEF RingInv, InPlaceBlocksFit, Release, prodVars, Index
<1>7. UnreadItemsIntact'
  <2>1. ASSUME NEW k \in 0 .. (Size - cn) - 1
        PROVE  buf[Index(Advance(Advance(tail, cn), k))] = nextOut + cn + k
    <3>1. k \in 0 .. Capacity /\ cn + k <= Capacity /\ cn + k \in 0 .. Size - 1
      BY <1>1
    <3>0. tail \in 0 .. W - 1 /\ cn \in 0 .. Capacity
      BY <1>1
    <3>2. Advance(Advance(tail, cn), k) = Advance(tail, cn + k)
      BY <3>0, <3>1, AdvanceTwice
    <3>3. buf[SlotAt(tail, cn + k)] = nextOut + (cn + k)
      BY <3>1, Offsets
    <3> QED BY <1>1, <3>1, <3>2, <3>3 DEF SlotAt
  <2>2. tail' = Advance(tail, cn) /\ buf' = buf /\ nextOut' = nextOut + cn
    BY <1>1 DEF Release
  <2> QED BY <1>2, <2>1, <2>2 DEF UnreadItemsIntact, Index
<1>8. UnpublishedItemsIntact'
  BY DEF RingInv, UnpublishedItemsIntact, Release, prodVars, SlotOf, Index
<1>9. ConsumerReadsInOrder'
  BY DEF ConsumerReadsInOrder, Release
<1> QED
  BY <1>2, <1>3, <1>4, <1>5, <1>6, <1>7, <1>8, <1>9 DEF RingInv, Release

LEMMA ClearStep ==
  ASSUME W % Capacity = 0, RingInv, Clear
  PROVE  RingInv' /\ Size' = 0
<1> USE RingAssumption
<1>1. Size' = 0
  <2>1. Distance(0, 0) = 0
    BY SubWrap
  <2> QED BY <2>1 DEF Clear, Size
<1>2. TypeOK'
  BY DEF RingInv, TypeOK, Clear, prodVars, consVars
<1> QED
  BY <1>1, <1>2
  DEF RingInv, TypeOK, SizeIsExact, StaleReadsAreConservative, InPlaceBlocksFit, UnreadItemsIntact,
      UnpublishedItemsIntact, ConsumerReadsInOrder, Clear, prodVars, consVars

\* A stuttering step changes nothing the invariant mentions.
LEMMA RingStutterStep ==
  ASSUME RingInv, UNCHANGED vars
  PROVE  RingInv' /\ Size' = Size
BY DEF RingInv, TypeOK, SizeIsExact, StaleReadsAreConservative, InPlaceBlocksFit, UnreadItemsIntact,
       UnpublishedItemsIntact, ConsumerReadsInOrder, vars, prodVars, consVars, Size, Free,
       SlotOf, Index

------------------------------------------------------------------------------
\* Every operation of Next is one of the steps above, with a length that fits.

LEMMA RingInvStep ==
  ASSUME W % Capacity = 0, RingInv, [Next]_vars
  PROVE  RingInv'
<1> USE RingAssumption
<1>0. /\ Size \in 0 .. Capacity /\ Free \in 0 .. Capacity
      /\ Index(head) \in Slots /\ Index(tail) \in Slots
  <2>1. head \in Int /\ tail \in Int
    BY DEF RingInv, TypeOK
  <2> QED BY <2>1, Offsets, IndexDivides DEF Index
<1>1. ASSUME NEW n \in 1 .. Capacity + 1, Push(n) PROVE RingInv'
  <2>1. Lesser(n, Free) \in Nat /\ Lesser(n, Free) <= Free
    BY <1>0 DEF Lesser
  <2> QED BY <1>1, <2>1, ClaimStep DEF Push
<1>2. ASSUME NEW n \in 1 .. Capacity, PushAll(n) PROVE RingInv'
  BY <1>2, ClaimStep DEF PushAll
<1>3. ASSUME NEW n \in 1 .. Capacity, Reserve(n) PROVE RingInv'
  <2>1. n <= Free /\ Index(head) + n <= Capacity
    BY <1>0, <1>3 DEF Reserve, FreeContig, Lesser, Slots
  <2> QED BY <1>3, <2>1, ClaimStep DEF Reserve
<1>4. ASSUME NEW n \in 1 .. Capacity + 1, Pop(n) PROVE RingInv'
  <2>1. Lesser(n, Size) \in Nat /\ Lesser(n, Size) <= Size
    BY <1>0 DEF Lesser
  <2> QED BY <1>4, <2>1, OpenStep DEF Pop
<1>5. ASSUME NEW n \in 1 .. Capacity, Peek(n) PROVE RingInv'
  <2>1. n <= Size /\ Index(tail) + n <= Capacity
    BY <1>0, <1>5 DEF Peek, ReadContig, Lesser, Slots
  <2> QED BY <1>5, <2>1, OpenStep DEF Peek
<1> QED
  BY <1>1, <1>2, <1>3, <1>4, <1>5, WriteItemStep, PublishStep, ReadItemStep, ReleaseStep,
     ClearStep, RingStutterStep DEF Next, Producer, Consumer

\* With a capacity that divides the index width, the invariant of the ring
\* holds in every reachable state, for every interleaving of the two sides.
THEOREM RingInvariant ==
  ASSUME W % Capacity = 0
  PROVE  Spec => []RingInv
<1>1. RingInv /\ [Next]_vars => RingInv'
  BY RingInvStep
<1> QED BY <1>1, RingInvInit, PTL DEF Spec

\* Types, in particular: no index leaves its width and no block its array.
THEOREM RingTypeOK ==
  ASSUME W % Capacity = 0
  PROVE  Spec => []TypeOK
<1>1. RingInv => TypeOK
  BY DEF RingInv
<1> QED BY <1>1, RingInvariant, PTL

\* The header's claim: a stale view of the other side's index never lets an
\* operation overflow or underflow the ring.
THEOREM NeverOverflowsOrUnderflows ==
  ASSUME W % Capacity = 0
  PROVE  Spec => []StaleReadsAreConservative
<1>1. RingInv => StaleReadsAreConservative
  BY DEF RingInv
<1> QED BY <1>1, RingInvariant, PTL

\* No item that waits in the ring is overwritten by the producer.
THEOREM NothingOverwritten ==
  ASSUME W % Capacity = 0
  PROVE  Spec => []UnreadItemsIntact
<1>1. RingInv => UnreadItemsIntact
  BY DEF RingInv
<1> QED BY <1>1, RingInvariant, PTL

\* In-place (zero-copy) blocks stay inside the backing array.
THEOREM InPlaceInsideArray ==
  ASSUME W % Capacity = 0
  PROVE  Spec => []InPlaceBlocksFit
<1>1. RingInv => InPlaceBlocksFit
  BY DEF RingInv
<1> QED BY <1>1, RingInvariant, PTL

------------------------------------------------------------------------------
\* The ring implements BoundedFifo.

LEMMA OneLess ==
  ASSUME NEW n \in Nat, NEW k \in 1 .. n
  PROVE  k - 1 \in 0 .. n - 1
OBVIOUS

Numbered(first, n) == [k \in 1 .. n |-> first + k - 1]

\* Under the invariant, what waits in the ring is determined by two numbers.
LEMMA WaitingIsNumbered ==
  ASSUME W % Capacity = 0, RingInv
  PROVE  Waiting = Numbered(nextOut, Size)
<1>1. Size \in Nat /\ nextOut \in Nat
  BY Offsets DEF RingInv, TypeOK
<1>2. ASSUME NEW k \in 1 .. Size
      PROVE  buf[Index(Advance(tail, k - 1))] = nextOut + k - 1
  <2>1. k - 1 \in 0 .. Size - 1
    BY <1>1
  <2>2. buf[Index(Advance(tail, k - 1))] = nextOut + (k - 1)
    BY <2>1 DEF RingInv, UnreadItemsIntact
  <2> QED BY <1>1, <2>1, <2>2
<1> QED BY <1>2 DEF Waiting, Numbered

LEMMA NumberedSeq ==
  ASSUME NEW first \in Nat, NEW n \in Nat
  PROVE  Numbered(first, n) \in Seq(Nat) /\ Len(Numbered(first, n)) = n
BY DEF Numbered

\* Consecutive blocks concatenate.
LEMMA NumberedConcat ==
  ASSUME NEW first \in Nat, NEW m \in Nat, NEW n \in Nat
  PROVE  Numbered(first, m + n) = Numbered(first, m) \o Numbered(first + m, n)
BY DEF Numbered

LEMMA FifoInit == Init => Fifo!Init
<1> SUFFICES ASSUME Init PROVE Fifo!Init
  OBVIOUS
<1>1. Size = 0
  BY RingAssumption, SubWrap DEF Init, Size
<1>2. Waiting = <<>>
  BY <1>1 DEF Waiting
<1> QED BY <1>2 DEF Init, Fifo!Init

\* A published block is one Put, a released block one Take, clear() a Discard;
\* every other step moves items without the queue noticing.
LEMMA FifoStep ==
  ASSUME W % Capacity = 0, RingInv, [Next]_vars
  PROVE  [Fifo!Next]_(Fifo!fifoVars)
<1> USE RingAssumption
<1>0. /\ Size \in 0 .. Capacity /\ nextOut \in Nat /\ nextIn \in Nat
      /\ nextIn = nextOut + Size /\ Waiting = Numbered(nextOut, Size)
      /\ Len(Waiting) = Size
  <2>1. Size \in 0 .. Capacity
    BY Offsets
  <2>2. nextOut \in Nat /\ nextIn \in Nat /\ nextIn = nextOut + Size
    BY DEF RingInv, TypeOK, SizeIsExact
  <2>3. Waiting = Numbered(nextOut, Size)
    BY WaitingIsNumbered
  <2> QED BY <2>1, <2>2, <2>3, NumberedSeq
<1>1. RingInv'
  BY RingInvStep
<1>2. Waiting' = Numbered(nextOut', Size')
  <2>1. /\ Size' \in Nat /\ nextOut' \in Nat
        /\ \A k \in 0 .. Size' - 1 : buf'[Index(Advance(tail', k))] = nextOut' + k
    <3>1. head' \in 0 .. W - 1 /\ tail' \in 0 .. W - 1 /\ nextOut' \in Nat
      BY <1>1 DEF RingInv, TypeOK
    <3>2. Size' \in 0 .. W - 1
      BY <3>1, SubWrap DEF Size
    <3>3. UnreadItemsIntact'
      BY <1>1 DEF RingInv
    <3>4. Size' \in Nat
      BY <3>2
    <3>5. \A k \in 0 .. Size' - 1 : buf'[Index(Advance(tail', k))] = nextOut' + k
      BY <3>3 DEF UnreadItemsIntact, Index, Advance
    <3> QED BY <3>1, <3>4, <3>5
  <2>2. ASSUME NEW k \in 1 .. Size'
        PROVE  buf'[Index(Advance(tail', k - 1))] = nextOut' + k - 1
    <3>0. Size' \in Nat
      BY <2>1
    <3>1. k - 1 \in 0 .. Size' - 1
      BY <3>0, OneLess
    <3>2. buf'[Index(Advance(tail', k - 1))] = nextOut' + (k - 1)
      BY <2>1, <3>1
    <3> QED BY <2>1, <3>1, <3>2
  <2> QED BY <2>2 DEF Waiting, Numbered
<1>3. ASSUME Publish PROVE Fifo!Next
  <2>1. /\ Size' = Size + pn /\ nextOut' = nextOut /\ nextIn' = nextIn + pn /\ taken' = taken
        /\ pn \in 1 .. Capacity /\ Size + pn <= Capacity
    BY <1>0, <1>3, PublishStep
    DEF Publish, RingInv, TypeOK, StaleReadsAreConservative, Free
  <2>2. Waiting' = Waiting \o Numbered(nextIn, pn)
    <3>1. pn \in Nat /\ Size \in Nat /\ nextOut \in Nat
      BY <1>0, <2>1
    <3>2. Numbered(nextOut, Size + pn) = Numbered(nextOut, Size) \o Numbered(nextOut + Size, pn)
      BY <3>1, NumberedConcat, ZenonT(30)
    <3> QED BY <1>0, <1>2, <2>1, <3>2
  <2>3. Fifo!Put(pn)
    BY <1>0, <2>1, <2>2 DEF Fifo!Put, Numbered
  <2> QED BY <2>1, <2>3 DEF Fifo!Next
<1>4. ASSUME Release PROVE Fifo!Next
  <2>1. /\ Size' = Size - cn /\ nextOut' = nextOut + cn /\ nextIn' = nextIn /\ taken' = dst
        /\ cn \in 1 .. Size /\ cn \in 1 .. Capacity
    BY <1>0, <1>4, ReleaseStep DEF Release, RingInv, TypeOK, StaleReadsAreConservative
  <2>2. dst = Numbered(nextOut, cn)
    <3>1. dst \in Seq(Nat) /\ Len(dst) = cn /\ \A k \in 1 .. cn : dst[k] = nextOut + k - 1
      BY <1>4 DEF Release, RingInv, TypeOK, ConsumerReadsInOrder
    <3> QED BY <3>1, <2>1 DEF Numbered
  <2>3. /\ SubSeq(Waiting, 1, cn) = dst
        /\ SubSeq(Waiting, cn + 1, Len(Waiting)) = Waiting'
    <3>1. cn \in Nat /\ Size \in Nat /\ cn <= Size /\ nextOut \in Nat
      BY <1>0, <2>1
    <3>2. /\ SubSeq(Numbered(nextOut, Size), 1, cn) = Numbered(nextOut, cn)
          /\ SubSeq(Numbered(nextOut, Size), cn + 1, Size) = Numbered(nextOut + cn, Size - cn)
      <4> DEFINE m == Size
      <4>1. m \in Nat /\ cn <= m
        BY <3>1
      <4> HIDE DEF m
      <4>2. /\ SubSeq(Numbered(nextOut, m), 1, cn) = Numbered(nextOut, cn)
            /\ SubSeq(Numbered(nextOut, m), cn + 1, m) = Numbered(nextOut + cn, m - cn)
        BY <3>1, <4>1 DEF Numbered
      <4> QED BY <4>2 DEF m
    <3> QED BY <1>0, <1>2, <2>1, <2>2, <3>2
  <2>4. Fifo!Take(cn)
    BY <1>0, <2>1, <2>3 DEF Fifo!Take
  <2> QED BY <2>1, <2>4 DEF Fifo!Next
<1>5. ASSUME Clear PROVE Fifo!Next
  <2>1. Size' = 0 /\ nextIn' = nextIn /\ taken' = taken
    BY <1>5, ClearStep DEF Clear
  <2>2. Waiting' = <<>>
    BY <2>1 DEF Waiting
  <2> QED BY <2>1, <2>2 DEF Fifo!Next, Fifo!Discard
<1>6. ASSUME Size' = Size, nextOut' = nextOut, nextIn' = nextIn, taken' = taken
      PROVE  UNCHANGED Fifo!fifoVars
  BY <1>0, <1>2, <1>6 DEF Fifo!fifoVars
<1>7. ASSUME NEW way, NEW n, Claim(way, n) \/ Open(way, n)
      PROVE  UNCHANGED Fifo!fifoVars
  BY <1>6, <1>7 DEF Claim, Open, Size
<1>8. ASSUME WriteItem \/ ReadItem \/ UNCHANGED vars
      PROVE  UNCHANGED Fifo!fifoVars
  BY <1>6, <1>8 DEF WriteItem, ReadItem, vars, Size
<1> QED
  BY <1>3, <1>4, <1>5, <1>7, <1>8
  DEF Next, Producer, Consumer, Push, PushAll, Reserve, Pop, Peek

\* The ring is a bounded FIFO whose blocks appear and disappear as a whole.
THEOREM RingImplementsFifo ==
  ASSUME W % Capacity = 0
  PROVE  Spec => FifoSpec
<1>1. RingInv /\ [Next]_vars => [Fifo!Next]_(Fifo!fifoVars)
  BY FifoStep
<1> QED
  BY <1>1, RingInvariant, FifoInit, PTL DEF Spec, FifoSpec, Fifo!Spec

------------------------------------------------------------------------------
\* The time base: time stamps.

\* What is inductive; MicrosExact follows from it.
TimeInv == TimeTypeOK /\ CallTracked

LEMMA Widths ==
  /\ Period \in Nat \ {0} /\ MillisMod \in Nat \ {0, 1} /\ MicrosMod \in Nat \ {0}
  /\ MillisMod \in Nat \ {0}
  /\ MaxCall \in Nat /\ MaxCall < Period /\ MaxCall < MicrosMod
BY TimeBaseAssumption

LEMMA AtType ==
  ASSUME NEW ms \in Int, NEW us \in Int
  PROVE  At(ms, us) \in 0 .. MicrosMod - 1
<1>1. ms * Period + us \in Int
  BY Widths
<1> QED BY <1>1, Divides, Widths DEF At

\* A millisecond more is a period more, also when g_millis wraps.
LEMMA AtCarry ==
  ASSUME NEW ms \in 0 .. MillisMod - 1, NEW us \in Int
  PROVE  At((ms + 1) % MillisMod, us) = At(ms, Period + us)
<1> DEFINE q == (MillisMod * Period) \div MicrosMod
<1>1. MillisMod * Period = MicrosMod * q /\ q \in Int
  <2> DEFINE x == MillisMod * Period
  <2>1. x \in Int
    BY Widths
  <2>2. x % MicrosMod = 0
    BY TimeBaseAssumption
  <2> HIDE DEF x
  <2>3. x = MicrosMod * (x \div MicrosMod) + (x % MicrosMod) /\ x \div MicrosMod \in Int
    BY <2>1, Divides, Widths
  <2>4. x = MicrosMod * (x \div MicrosMod)
    BY <2>2, <2>3, Widths
  <2> QED BY <2>3, <2>4 DEF x
<1> HIDE DEF q
<1>2. (ms + 1) * Period + us = ms * Period + (Period + us)
  BY Widths
<1>3. CASE ms + 1 < MillisMod
  <2>1. (ms + 1) % MillisMod = ms + 1
    BY <1>3, SmallRemainder, Widths
  <2> QED BY <2>1, <1>2 DEF At
<1>4. CASE ms + 1 = MillisMod
  <2>1. (ms + 1) % MillisMod = 0
    BY <1>4, Widths
  <2>2. ms * Period + (Period + us) = us + MicrosMod * q
    BY <1>1, <1>2, <1>4, Widths
  <2>3. (us + MicrosMod * q) % MicrosMod = us % MicrosMod
    BY <1>1, WholeTurns, Widths
  <2>4. 0 * Period + us = us
    BY Widths
  <2> QED BY <2>1, <2>2, <2>3, <2>4 DEF At
<1> QED BY <1>3, <1>4, Widths

\* Two time stamps differ by the time between them.
LEMMA AtDifference ==
  ASSUME NEW ms \in Int, NEW us \in Int, NEW e \in 0 .. MaxCall
  PROVE  (At(ms, us) - At(ms, us - e)) % MicrosMod = e
<1> DEFINE x == ms * Period + us
           y == x - e
<1>1. x \in Int /\ y \in Int /\ ms * Period + (us - e) = y /\ x - y = e
  BY Widths
<1>2. At(ms, us) = x % MicrosMod /\ At(ms, us - e) = y % MicrosMod
  BY <1>1 DEF At
<1> HIDE DEF x, y
<1>3. x % MicrosMod \in Int
  BY <1>1, Divides, Widths
<1>4. ((x % MicrosMod) - (y % MicrosMod)) % MicrosMod = ((x % MicrosMod) - y) % MicrosMod
  BY <1>1, <1>3, DifferenceRemainder, Widths
<1>5. ((x % MicrosMod) - y) % MicrosMod = (x - y) % MicrosMod
  <2> DEFINE z == -y
  <2>1. z \in Int /\ (x % MicrosMod) + z = (x % MicrosMod) - y /\ x + z = x - y
    BY <1>1, <1>3
  <2> HIDE DEF z
  <2>2. ((x % MicrosMod) + z) % MicrosMod = (x + z) % MicrosMod
    BY <1>1, <2>1, SumRemainder, Widths
  <2> QED BY <2>1, <2>2
<1>6. e % MicrosMod = e
  BY SmallRemainder, Widths
<1>7. x - y = e
  BY <1>1
<1>8. ((x % MicrosMod) - (y % MicrosMod)) % MicrosMod = e
  BY <1>4, <1>5, <1>6, <1>7
<1>9. {At(ms, us), At(ms, us - e), x % MicrosMod, y % MicrosMod} \subseteq Int
  BY <1>1, <1>2, <1>3, Divides, Widths
<1>10. At(ms, us) - At(ms, us - e) = (x % MicrosMod) - (y % MicrosMod)
  BY <1>2, <1>9
<1> QED BY <1>8, <1>10

\* The count that follows is another one.
LEMMA NextMillis ==
  ASSUME NEW ms \in 0 .. MillisMod - 1
  PROVE  (ms + 1) % MillisMod \in 0 .. MillisMod - 1 /\ (ms + 1) % MillisMod # ms
<1>1. CASE ms + 1 < MillisMod
  BY <1>1, SmallRemainder, Widths
<1>2. CASE ms + 1 = MillisMod
  <2>1. (ms + 1) % MillisMod = 0
    BY <1>2, Widths
  <2> QED BY <2>1, <1>2, Widths
<1> QED BY <1>1, <1>2, Widths

\* Whatever micros() returns from what it has read lies inside the call.
LEMMA ExactFromReads == TimeInv => MicrosExact
<1> SUFFICES ASSUME TimeTypeOK, CallTracked, pc = "done"
             PROVE  (Result - begun) % MicrosMod <= elapsed
  BY DEF TimeInv, MicrosExact
<1>1. PICK e \in 0 .. elapsed : begun = At(m1, read - e)
  BY DEF CallTracked, ReadSince
<1>2. e \in 0 .. MaxCall /\ m1 \in Int /\ read \in Int /\ elapsed \in Int
  BY <1>1, Widths DEF TimeTypeOK
<1>3. (Result - begun) % MicrosMod = e
  BY <1>1, <1>2, AtDifference DEF Result
<1> QED BY <1>1, <1>2, <1>3

LEMMA TimeInvInit == TimeInit => TimeInv
<1> SUFFICES ASSUME TimeInit PROVE TimeInv
  OBVIOUS
<1>1. TimeTypeOK
  <2>1. cnt \in 0 .. Period - 1 /\ millis \in 0 .. MillisMod - 1
    BY Widths DEF TimeInit
  <2>2. /\ m1 \in 0 .. MillisMod - 1 /\ read \in 0 .. Period - 1
        /\ begun \in 0 .. MicrosMod - 1 /\ elapsed \in 0 .. MaxCall
    BY Widths DEF TimeInit
  <2> QED BY <2>1, <2>2 DEF TimeInit, TimeTypeOK
<1>2. CallTracked
  BY DEF TimeInit, CallTracked
<1> QED BY <1>1, <1>2 DEF TimeInv

\* The state in an arithmetic the provers can use.
LEMMA TimeTypes ==
  ASSUME TimeTypeOK
  PROVE  /\ cnt \in Int /\ 0 <= cnt /\ cnt < Period
         /\ millis \in 0 .. MillisMod - 1 /\ m1 \in 0 .. MillisMod - 1
         /\ millis \in Int /\ m1 \in Int
         /\ read \in Int /\ elapsed \in Int /\ 0 <= elapsed /\ elapsed <= MaxCall
BY Widths DEF TimeTypeOK

\* A microsecond passes: the age of everything read grows by one.
LEMMA CountStep ==
  ASSUME TimeInv, Count
  PROVE  TimeInv'
<1> USE DEF TimeInv
<1>0. /\ pending' = (pending \/ cnt = Period - 1)
      /\ UNCHANGED <<millis, pc, m1, read, begun>>
  BY DEF Count, call
<1>1. TimeTypeOK'
  <2>1. cnt' \in 0 .. Period - 1
    <3>1. cnt + 1 \in Int /\ cnt' = (cnt + 1) % Period
      BY TimeTypes DEF Count
    <3> QED BY <3>1, Divides, Widths
  <2>2. elapsed' \in 0 .. MaxCall
    BY TimeTypes, Widths DEF Count
  <2> QED BY <1>0, <2>1, <2>2 DEF TimeTypeOK
<1>2. CASE pc = "out"
  BY <1>0, <1>1, <1>2 DEF CallTracked
<1>3. CASE pc # "out"
  <2>1. elapsed' = elapsed + 1 /\ elapsed < MaxCall
    BY <1>3 DEF Count
  <2>2. cnt # Period - 1 => cnt' = cnt + 1 /\ pending' = pending
    BY <1>0, TimeTypes, SmallRemainder, Widths DEF Count, TimeTypeOK
  <2>3. cnt = Period - 1 => cnt' = 0 /\ pending' /\ ~pending /\ cnt >= elapsed
    <3> SUFFICES ASSUME cnt = Period - 1
                 PROVE  cnt' = 0 /\ pending' /\ ~pending /\ cnt >= elapsed
      OBVIOUS
    <3>1. cnt + 1 = Period /\ cnt >= elapsed
      BY <2>1, TimeTypes, Widths
    <3>2. cnt' = Period % Period
      BY <3>1 DEF Count
    <3>3. Period % Period = 0
      BY Widths
    <3> QED BY <1>0, <3>1, <3>2, <3>3 DEF Count
  <2>4. ReadSince => ReadSince'
    BY <1>0, <2>1, TimeTypes DEF ReadSince
  <2>5. pc \in {"counter", "check"} =>
          \/ ~Turned' /\ elapsed' <= cnt' /\ begun' = At(m1', cnt' - elapsed')
          \/ /\ Turned' /\ cnt' < elapsed'
             /\ millis' = IF pending' THEN m1' ELSE (m1' + 1) % MillisMod
             /\ begun' = At(m1', Period + cnt' - elapsed')
    <3> SUFFICES ASSUME pc \in {"counter", "check"}
                 PROVE  \/ ~Turned' /\ elapsed' <= cnt' /\ begun' = At(m1', cnt' - elapsed')
                        \/ /\ Turned' /\ cnt' < elapsed'
                           /\ millis' = IF pending' THEN m1' ELSE (m1' + 1) % MillisMod
                           /\ begun' = At(m1', Period + cnt' - elapsed')
      OBVIOUS
    <3>1. CASE cnt # Period - 1
      <4>1. cnt' - elapsed' = cnt - elapsed /\ Period + cnt' - elapsed' = Period + cnt - elapsed
        BY <2>1, <2>2, <3>1, TimeTypes, Widths
      <4>2. (elapsed' <= cnt' <=> elapsed <= cnt) /\ (cnt' < elapsed' <=> cnt < elapsed)
        BY <2>1, <2>2, <3>1, TimeTypes, Widths
      <4>3. Turned' <=> Turned
        BY <1>0, <2>2, <3>1 DEF Turned
      <4> QED BY <1>0, <2>2, <3>1, <4>1, <4>2, <4>3 DEF CallTracked
    <3>2. CASE cnt = Period - 1
      <4>1. ~Turned /\ begun = At(m1, cnt - elapsed) /\ millis = m1
        BY <2>3, <3>2, TimeTypes DEF CallTracked, Turned
      <4>2. Period + cnt' - elapsed' = cnt - elapsed /\ cnt' < elapsed'
        BY <2>1, <2>3, <3>2, TimeTypes, Widths
      <4>3. Turned'
        BY <2>3, <3>2 DEF Turned
      <4> QED BY <1>0, <2>3, <3>2, <4>1, <4>2, <4>3
    <3> QED BY <3>1, <3>2
  <2>6. pc = "again" => ~Turned' /\ cnt' < elapsed' /\ begun' = At(m1', cnt' - elapsed')
    <3> SUFFICES ASSUME pc = "again"
                 PROVE  ~Turned' /\ cnt' < elapsed' /\ begun' = At(m1', cnt' - elapsed')
      OBVIOUS
    <3>1. ~Turned /\ cnt < elapsed /\ begun = At(m1, cnt - elapsed)
      BY DEF CallTracked
    <3>2. cnt # Period - 1
      BY <2>3, <3>1, TimeTypes
    <3>3. cnt' - elapsed' = cnt - elapsed /\ cnt' < elapsed'
      BY <2>1, <2>2, <3>1, <3>2, TimeTypes
    <3>4. ~Turned'
      BY <1>0, <2>2, <3>1, <3>2 DEF Turned
    <3> QED BY <1>0, <3>1, <3>3, <3>4
  <2>7. CallTracked'
    BY <1>0, <2>4, <2>5, <2>6 DEF CallTracked
  <2> QED BY <1>1, <2>7
<1> QED BY <1>2, <1>3

\* The interrupt: from now on millis tells of the roll-over.
LEMMA HandlerStep ==
  ASSUME TimeInv, TIM2_UP_IRQHandler
  PROVE  TimeInv'
<1> USE DEF TimeInv
<1>0. /\ pending /\ ~pending' /\ millis' = (millis + 1) % MillisMod
      /\ UNCHANGED <<cnt, pc, m1, read, begun, elapsed>>
  BY DEF TIM2_UP_IRQHandler, call
<1>1. TimeTypeOK'
  <2>1. pending' = FALSE
    BY DEF TIM2_UP_IRQHandler
  <2>2. millis' \in 0 .. MillisMod - 1
    BY <1>0, TimeTypes, NextMillis
  <2> QED BY <1>0, <2>1, <2>2 DEF TimeTypeOK
<1>2. Turned
  BY <1>0 DEF Turned
<1>3. pc \in {"counter", "check"} =>
        /\ Turned' /\ cnt' < elapsed'
        /\ millis' = (m1' + 1) % MillisMod /\ millis' # m1'
        /\ begun' = At(m1', Period + cnt' - elapsed')
  <2> SUFFICES ASSUME pc \in {"counter", "check"}
               PROVE  /\ Turned' /\ cnt' < elapsed'
                      /\ millis' = (m1' + 1) % MillisMod /\ millis' # m1'
                      /\ begun' = At(m1', Period + cnt' - elapsed')
    OBVIOUS
  <2>1. cnt < elapsed /\ millis = m1 /\ begun = At(m1, Period + cnt - elapsed)
    BY <1>0, <1>2 DEF CallTracked
  <2>2. (m1 + 1) % MillisMod # m1
    BY TimeTypes, NextMillis
  <2> QED BY <1>0, <2>1, <2>2 DEF Turned
<1>4. pc # "again"
  BY <1>2 DEF CallTracked
<1>5. ReadSince => ReadSince'
  BY <1>0 DEF ReadSince
<1>6. CallTracked'
  BY <1>0, <1>3, <1>4, <1>5 DEF CallTracked
<1> QED BY <1>1, <1>6

\* micros() begins: the clock says what m1 and the counter say.
LEMMA CallStep ==
  ASSUME TimeInv, Call
  PROVE  TimeInv'
<1> USE DEF TimeInv
<1>0. /\ ~pending /\ m1' = millis /\ pc' = "counter" /\ elapsed' = 0 /\ begun' = At(millis, cnt)
      /\ UNCHANGED <<cnt, pending, millis, read>>
  <2>1. Clock = At(millis, cnt) /\ ~pending
    BY TimeTypes DEF Call, Running, Clock
  <2> QED BY <2>1 DEF Call, timer
<1>1. TimeTypeOK'
  <2>1. begun' \in 0 .. MicrosMod - 1
    BY <1>0, AtType, TimeTypes
  <2>2. elapsed' \in 0 .. MaxCall
    BY <1>0, Widths
  <2> QED BY <1>0, <2>1, <2>2 DEF TimeTypeOK
<1>2. ~Turned' /\ elapsed' <= cnt' /\ begun' = At(m1', cnt' - elapsed')
  BY <1>0, TimeTypes DEF Turned
<1>3. CallTracked'
  BY <1>0, <1>2 DEF CallTracked
<1> QED BY <1>1, <1>3

\* The counter is read: as old as the call, unless it has rolled over.
LEMMA ReadCounterStep ==
  ASSUME TimeInv, ReadCounter
  PROVE  TimeInv'
<1> USE DEF TimeInv
<1>0. /\ ~pending /\ pc = "counter" /\ pc' = "check" /\ read' = cnt
      /\ UNCHANGED <<cnt, pending, millis, m1, begun, elapsed>>
  BY DEF ReadCounter, Running, timer
<1>1. TimeTypeOK'
  BY <1>0, TimeTypes DEF TimeTypeOK
<1>2. \/ ~Turned' /\ elapsed' <= cnt' /\ begun' = At(m1', cnt' - elapsed')
      \/ /\ Turned' /\ cnt' < elapsed'
         /\ millis' = IF pending' THEN m1' ELSE (m1' + 1) % MillisMod
         /\ begun' = At(m1', Period + cnt' - elapsed')
  BY <1>0 DEF CallTracked, Turned
<1>3. millis = m1 => ReadSince'
  <2> SUFFICES ASSUME millis = m1 PROVE ReadSince'
    OBVIOUS
  <2>1. begun = At(m1, cnt - elapsed)
    BY <1>0 DEF CallTracked, Turned
  <2>2. elapsed \in 0 .. elapsed
    BY TimeTypes
  <2> QED BY <1>0, <2>1, <2>2 DEF ReadSince
<1>4. CallTracked'
  BY <1>0, <1>2, <1>3 DEF CallTracked
<1> QED BY <1>1, <1>4

\* millis is read again: unchanged, what was read will do; otherwise m1 is
\* brought up to it, and the counter cannot roll over once more.
LEMMA CheckStep ==
  ASSUME TimeInv, Check
  PROVE  TimeInv'
<1> USE DEF TimeInv
<1>0. /\ ~pending /\ pc = "check"
      /\ IF m1 # millis THEN pc' = "again" /\ m1' = millis ELSE pc' = "done" /\ m1' = m1
      /\ UNCHANGED <<cnt, pending, millis, read, begun, elapsed>>
  BY DEF Check, Running, RolledOver, timer
<1>1. TimeTypeOK'
  BY <1>0, TimeTypes DEF TimeTypeOK
<1>2. CASE m1 # millis
  <2>1. /\ cnt < elapsed /\ millis = (m1 + 1) % MillisMod
        /\ begun = At(m1, Period + cnt - elapsed)
    BY <1>0, <1>2 DEF CallTracked, Turned
  <2>2. At(millis, cnt - elapsed) = At(m1, Period + (cnt - elapsed))
    <3>1. cnt - elapsed \in Int
      BY TimeTypes
    <3> QED BY <2>1, <3>1, TimeTypes, AtCarry
  <2>3. Period + (cnt - elapsed) = Period + cnt - elapsed
    BY TimeTypes, Widths
  <2>4. ~Turned' /\ pc' = "again" /\ m1' = millis
    BY <1>0, <1>2 DEF Turned
  <2>5. cnt' < elapsed' /\ begun' = At(m1', cnt' - elapsed')
    BY <1>0, <2>1, <2>2, <2>3, <2>4
  <2>6. CallTracked'
    BY <2>4, <2>5 DEF CallTracked
  <2> QED BY <1>1, <2>6
<1>3. CASE m1 = millis
  <2>1. ReadSince /\ pc' = "done" /\ m1' = m1
    BY <1>0, <1>3 DEF CallTracked
  <2>2. ReadSince'
    BY <1>0, <2>1 DEF ReadSince
  <2>3. CallTracked'
    BY <2>1, <2>2 DEF CallTracked
  <2> QED BY <1>1, <2>3
<1> QED BY <1>2, <1>3

\* The counter is read again, and is now as old as the whole call.
LEMMA ReadAgainStep ==
  ASSUME TimeInv, ReadAgain
  PROVE  TimeInv'
<1> USE DEF TimeInv
<1>0. /\ pc = "again" /\ pc' = "done" /\ read' = cnt
      /\ UNCHANGED <<cnt, pending, millis, m1, begun, elapsed>>
  BY DEF ReadAgain, timer
<1>1. TimeTypeOK'
  BY <1>0, TimeTypes DEF TimeTypeOK
<1>2. ReadSince'
  <2>1. begun = At(m1, cnt - elapsed)
    BY <1>0 DEF CallTracked
  <2>2. elapsed \in 0 .. elapsed
    BY TimeTypes
  <2> QED BY <1>0, <2>1, <2>2 DEF ReadSince
<1>3. CallTracked'
  BY <1>0, <1>2 DEF CallTracked
<1> QED BY <1>1, <1>3

LEMMA ReturnStep ==
  ASSUME TimeInv, Return
  PROVE  TimeInv'
<1>0. /\ pc' = "out" /\ m1' = 0 /\ read' = 0 /\ begun' = 0 /\ elapsed' = 0
      /\ UNCHANGED <<cnt, pending, millis>>
  BY DEF Return, timer
<1>1. /\ m1' \in 0 .. MillisMod - 1 /\ read' \in 0 .. Period - 1
      /\ begun' \in 0 .. MicrosMod - 1 /\ elapsed' \in 0 .. MaxCall
  BY <1>0, Widths
<1>2. TimeTypeOK'
  BY <1>0, <1>1 DEF TimeInv, TimeTypeOK
<1>3. CallTracked'
  BY <1>0 DEF CallTracked
<1> QED BY <1>2, <1>3 DEF TimeInv

LEMMA TimeStutterStep ==
  ASSUME TimeInv, UNCHANGED timeVars
  PROVE  TimeInv'
<1>1. UNCHANGED <<cnt, pending, millis, pc, m1, read, begun, elapsed>>
  BY DEF timeVars, timer, call
<1>2. ReadSince' <=> ReadSince
  BY <1>1 DEF ReadSince
<1> QED BY <1>1, <1>2 DEF TimeInv, TimeTypeOK, CallTracked, Turned

LEMMA MicrosStep ==
  ASSUME TimeInv, Micros
  PROVE  TimeInv'
BY CallStep, ReadCounterStep, CheckStep, ReadAgainStep, ReturnStep DEF Micros

------------------------------------------------------------------------------
\* The LED blinker.

\* What is inductive of LedInv.
LedParts == LedTypeOK /\ CallTracked /\ TickInTime /\ DeadlineTracked

Half == MillisMod \div 2

LEMMA Halves ==
  /\ Half \in Nat /\ 2 * Half <= MillisMod /\ Half < MillisMod
  /\ MaxGap \in Nat /\ MaxGap < Half
  /\ MinTimeOff \in Nat /\ MinTimeOff <= Half
<1>1. /\ Half \in Nat /\ 2 * Half <= MillisMod /\ Half < MillisMod
  BY Widths DEF Half
<1>2. MinTimeOff \in 0 .. Half
  BY LedAssumption DEF Half
<1> QED BY <1>1, <1>2, LedAssumption DEF Half

LEMMA TimesOff ==
  ASSUME NEW t \in Off
  PROVE  t \in Nat /\ t <= Half
<1>1. t \in 0 .. Half
  BY LedAssumption DEF Half
<1> QED BY <1>1, Halves

LEMMA TimesOn ==
  ASSUME NEW t \in On, t # Forever
  PROVE  t \in Nat /\ t <= Half
<1>1. t \in 0 .. Half
  BY LedAssumption DEF Half
<1> QED BY <1>1, Halves

\* How long a phase lasts, at most half of what the clock counts.
LEMMA AskedBound ==
  ASSUME LedTypeOK, DeadlineTracked, phase # "Idle"
  PROVE  Asked \in Nat /\ Asked <= Half
<1>1. current.on \in On \/ current.on = 0
  BY DEF LedTypeOK, Command, None
<1>2. current.off \in Off \/ current.off = 0
  BY DEF LedTypeOK, Command, None
<1>3. CASE phase = "On"
  <2>1. current.on # Forever
    BY <1>3 DEF DeadlineTracked
  <2> QED BY <1>1, <1>3, <2>1, TimesOn, Halves DEF Asked
<1>4. CASE phase # "On"
  BY <1>2, <1>4, TimesOff, Halves DEF Asked, TimeOff
<1> QED BY <1>3, <1>4

\* The sign of the difference tells whether the deadline has passed, as long as
\* it is less than half the clock away.
LEMMA ExpiredMeans ==
  ASSUME NEW now \in 0 .. MillisMod - 1, NEW d \in Int, d <= Half, -d < Half
  PROVE  Expired(now, (now + d) % MillisMod) <=> d <= 0
<1>1. (now - ((now + d) % MillisMod)) % MillisMod = (-d) % MillisMod
  <2>1. now \in Int /\ now + d \in Int /\ now - (now + d) = -d
    BY Widths
  <2>2. (now - ((now + d) % MillisMod)) % MillisMod = (now - (now + d)) % MillisMod
    BY <2>1, DifferenceRemainder, Widths, ZenonT(30)
  <2> QED BY <2>1, <2>2
<1>2. CASE d <= 0
  <2>1. -d \in 0 .. MillisMod - 1 /\ -d < Half
    BY <1>2, Halves, Widths
  <2>2. (-d) % MillisMod = -d
    BY <2>1, SmallRemainder, Widths
  <2> QED BY <1>1, <1>2, <2>1, <2>2 DEF Expired, Half
<1>3. CASE ~(d <= 0)
  <2> DEFINE r == MillisMod - d
  <2>1. r \in 0 .. MillisMod - 1 /\ r >= Half /\ r = (-d) + MillisMod * 1 /\ -d \in Int
    BY <1>3, Halves, Widths
  <2> HIDE DEF r
  <2>2. ((-d) + MillisMod * 1) % MillisMod = (-d) % MillisMod
    <3> DEFINE z == -d
               turns == 1
    <3>1. z \in Int /\ turns \in Int
      BY <2>1
    <3> HIDE DEF z, turns
    <3>2. (z + MillisMod * turns) % MillisMod = z % MillisMod
      BY <3>1, WholeTurns, Widths
    <3> QED BY <3>2 DEF z, turns
  <2>3. r % MillisMod = r
    BY <2>1, SmallRemainder, Widths
  <2>4. ~((-d) % MillisMod < Half)
    BY <2>1, <2>2, <2>3, Halves, Widths
  <2> QED BY <1>1, <1>3, <2>4 DEF Expired, Half
<1> QED BY <1>2, <1>3

\* tick() leaves a phase when its time is over, and not before.
LEMMA ExpiredInPhase ==
  ASSUME LedTypeOK, DeadlineTracked, phase # "Idle"
  PROVE  Expired(millis, deadline) <=> shown >= Asked
<1> DEFINE d == Asked - shown
<1>1. Asked \in Nat /\ Asked <= Half /\ shown \in Nat /\ gap \in 0 .. MaxGap
  BY AskedBound DEF LedTypeOK
<1>2. shown <= Asked + gap /\ deadline = (millis + Asked - shown) % MillisMod
  BY DEF DeadlineTracked
<1>3. d \in Int /\ d <= Half /\ -d < Half /\ (d <= 0 <=> shown >= Asked)
  BY <1>1, <1>2, Halves
<1>4. millis \in 0 .. MillisMod - 1 /\ millis + Asked - shown = millis + d
  BY <1>1, TimeTypes DEF LedTypeOK
<1> HIDE DEF d
<1>5. Expired(millis, (millis + d) % MillisMod) <=> d <= 0
  BY <1>3, <1>4, ExpiredMeans
<1> QED BY <1>2, <1>3, <1>4, <1>5

LEMMA LedPartsInit == LedInit => LedParts
<1> SUFFICES ASSUME LedInit PROVE LedParts
  OBVIOUS
<1>1. TimeTypeOK /\ CallTracked
  BY TimeInvInit DEF LedInit, TimeInv
<1>2. queue \in Seq(Command) /\ Len(queue) <= QueueSize
  BY LedAssumption DEF LedInit
<1>3. deadline \in 0 .. MillisMod - 1 /\ shown \in Nat /\ gap \in 0 .. MaxGap
  BY Widths, LedAssumption DEF LedInit
<1>4. LedTypeOK
  BY <1>1, <1>2, <1>3 DEF LedInit, LedTypeOK
<1>5. TickInTime /\ DeadlineTracked
  BY DEF LedInit, TimeInit, TickInTime, DeadlineTracked
<1> QED BY <1>1, <1>4, <1>5 DEF LedParts

\* A microsecond: phases are not touched, and a roll-over is in time for tick().
LEMMA MicrosecondStep ==
  ASSUME LedParts, Microsecond
  PROVE  LedParts'
<1>0. /\ UNCHANGED <<queue, phase, deadline, current, lit, shown, gap, millis>>
      /\ pending' = (pending \/ cnt = Period - 1)
      /\ cnt = Period - 1 => gap < MaxGap
  BY DEF Microsecond, led, Count
<1>1. TimeInv'
  BY CountStep DEF LedParts, LedTypeOK, TimeInv, Microsecond
<1>2. LedTypeOK'
  BY <1>0, <1>1 DEF LedParts, LedTypeOK, TimeInv
<1>3. TickInTime'
  BY <1>0 DEF LedParts, TickInTime
<1>4. DeadlineTracked'
  BY <1>0 DEF LedParts, DeadlineTracked, Asked, TimeOff
<1> QED BY <1>1, <1>2, <1>3, <1>4 DEF LedParts, TimeInv

\* A millisecond: the deadline comes as much closer as the phase has lasted longer.
LEMMA MillisecondStep ==
  ASSUME LedParts, Millisecond
  PROVE  LedParts'
<1>0. /\ UNCHANGED <<queue, phase, deadline, current, lit>>
      /\ pending /\ pending' = FALSE /\ millis' = (millis + 1) % MillisMod
      /\ gap' = gap + 1
      /\ shown' = IF phase = "Idle" THEN 0 ELSE shown + 1
  BY DEF Millisecond, led, TIM2_UP_IRQHandler
<1>1. TimeInv'
  BY HandlerStep DEF LedParts, LedTypeOK, TimeInv, Millisecond
<1>2. shown \in Nat /\ gap \in 0 .. MaxGap /\ gap < MaxGap /\ millis \in Int
  BY <1>0, TimeTypes DEF LedParts, LedTypeOK, TickInTime
<1>3. LedTypeOK'
  <2>1. shown' \in Nat /\ gap' \in 0 .. MaxGap
    BY <1>0, <1>2, Halves
  <2> QED BY <1>0, <1>1, <2>1 DEF LedParts, LedTypeOK, TimeInv
<1>4. TickInTime'
  BY <1>0 DEF TickInTime
<1>5. DeadlineTracked'
  <2>1. CASE phase = "Idle"
    BY <1>0, <2>1 DEF LedParts, DeadlineTracked
  <2>2. CASE phase # "Idle"
    <3>1. Asked' = Asked /\ Asked \in Nat
      BY <1>0, <2>2, AskedBound DEF LedParts, Asked, TimeOff
    <3>2. shown <= Asked + gap /\ deadline = (millis + Asked - shown) % MillisMod
      BY <2>2 DEF LedParts, DeadlineTracked
    <3>3. shown' = shown + 1
      BY <1>0, <2>2
    <3>4. shown' <= Asked' + gap'
      BY <1>0, <1>2, <3>1, <3>2, <3>3
    <3>5. (millis' + Asked' - shown') % MillisMod = (millis + Asked - shown) % MillisMod
      <4> DEFINE y == Asked - shown'
                 x == millis + 1
      <4>1. x \in Int /\ y \in Int /\ x + y = millis + Asked - shown
        BY <1>2, <3>1, <3>3
      <4>2. x % MillisMod \in Int
        BY <4>1, Divides, Widths
      <4>3. millis' = x % MillisMod
        BY <1>0
      <4>4. millis' + Asked' - shown' = (x % MillisMod) + y
        BY <4>2, <4>3, <1>2, <3>1, <3>3
      <4> HIDE DEF x, y
      <4>5. ((x % MillisMod) + y) % MillisMod = (x + y) % MillisMod
        BY <4>1, SumRemainder, Widths
      <4> QED BY <4>1, <4>4, <4>5
    <3>6. lit' = (phase' = "On") /\ (phase' = "On" => current'.on # Forever) /\ phase' # "Idle"
      BY <1>0, <2>2 DEF LedParts, DeadlineTracked
    <3> QED BY <1>0, <3>2, <3>4, <3>5, <3>6 DEF DeadlineTracked
  <2> QED BY <2>1, <2>2
<1> QED BY <1>1, <1>3, <1>4, <1>5 DEF LedParts, TimeInv

\* micros() leaves clock and LED alone.
LEMMA MicrosKeepsLed ==
  ASSUME LedParts, Micros, UNCHANGED <<led, shown, gap>>
  PROVE  LedParts'
<1>0. UNCHANGED <<queue, phase, deadline, current, lit, shown, gap, millis, pending>>
  BY DEF led, Micros, Call, ReadCounter, Check, ReadAgain, Return, timer
<1>1. TimeInv'
  BY MicrosStep DEF LedParts, LedTypeOK, TimeInv
<1>2. LedTypeOK'
  BY <1>0, <1>1 DEF LedParts, LedTypeOK, TimeInv
<1>3. TickInTime' /\ DeadlineTracked'
  BY <1>0 DEF LedParts, TickInTime, DeadlineTracked, Asked, TimeOff
<1> QED BY <1>1, <1>2, <1>3 DEF LedParts, TimeInv

LEMMA BlinkStep ==
  ASSUME LedParts, NEW cmd \in Command, Blink(cmd)
  PROVE  LedParts'
<1>0. /\ UNCHANGED <<phase, deadline, current, lit, shown, gap, millis, pending>>
      /\ UNCHANGED timeVars
      /\ queue' = Append(queue, cmd) /\ Len(queue) < QueueSize
  BY DEF Blink, timeVars, timer
<1>1. TimeInv'
  BY <1>0, TimeStutterStep DEF LedParts, LedTypeOK, TimeInv
<1>2. queue' \in Seq(Command) /\ Len(queue') <= QueueSize
  BY <1>0, LedAssumption DEF LedParts, LedTypeOK
<1>3. LedTypeOK'
  BY <1>0, <1>1, <1>2 DEF LedParts, LedTypeOK, TimeInv
<1>4. TickInTime' /\ DeadlineTracked'
  BY <1>0 DEF LedParts, TickInTime, DeadlineTracked, Asked, TimeOff
<1> QED BY <1>1, <1>3, <1>4 DEF LedParts, TimeInv

\* What all branches of tick() share.
LEMMA TickFrame ==
  ASSUME LedParts, Tick
  PROVE  /\ TimeInv' /\ gap' = 0 /\ ~pending' /\ UNCHANGED <<millis, pending>>
         /\ gap' \in 0 .. MaxGap
         /\ TickInTime'
<1>1. UNCHANGED timeVars /\ gap' = 0 /\ ~pending
  BY DEF Tick, Running
<1>2. UNCHANGED <<millis, pending>>
  BY <1>1 DEF timeVars, timer
<1>3. TimeInv'
  BY <1>1, TimeStutterStep DEF LedParts, LedTypeOK, TimeInv
<1>4. gap' \in 0 .. MaxGap
  BY <1>1, Halves
<1> QED BY <1>1, <1>2, <1>3, <1>4 DEF TickInTime

LEMMA AfterType ==
  ASSUME NEW now \in Int, NEW time \in Int
  PROVE  After(now, time) \in 0 .. MillisMod - 1
<1>1. now + time \in Int
  OBVIOUS
<1> QED BY <1>1, Divides, Widths DEF After

\* A command is taken and begun: its deadline is all of its time away.
LEMMA TickIdleStep ==
  ASSUME LedParts, Tick, TickIdle
  PROVE  LedParts'
<1>0. phase = "Idle" /\ shown' = 0
  BY DEF TickIdle
<1>1. CASE queue = <<>>
  <2>1. UNCHANGED <<queue, phase, deadline, current, lit>>
    BY <1>1 DEF TickIdle, led
  <2>2. LedTypeOK'
    BY <1>0, <2>1, TickFrame DEF LedParts, LedTypeOK, TimeInv
  <2>3. DeadlineTracked'
    BY <1>0, <2>1 DEF LedParts, DeadlineTracked
  <2> QED BY <2>2, <2>3, TickFrame DEF LedParts, TimeInv
<1>2. CASE queue # <<>>
  <2> DEFINE cmd == Head(queue)
  <2>1. /\ queue' = Tail(queue) /\ current' = cmd
        /\ lit' = (cmd.on # 0)
        /\ IF cmd.on \in {0, Forever} THEN UNCHANGED <<phase, deadline>>
           ELSE phase' = "On" /\ deadline' = After(millis, cmd.on)
    BY <1>2 DEF TickIdle, Start
  <2>2. /\ cmd \in Command /\ queue' \in Seq(Command) /\ Len(queue') <= QueueSize
    BY <1>2, <2>1, LedAssumption DEF LedParts, LedTypeOK
  <2> HIDE DEF cmd
  <2>3. cmd.on \in On
    BY <2>2 DEF Command
  <2>4. CASE cmd.on \in {0, Forever}
    <3>1. LedTypeOK'
      BY <1>0, <2>1, <2>2, <2>4, TickFrame DEF LedParts, LedTypeOK, TimeInv
    <3>2. DeadlineTracked'
      BY <1>0, <2>1, <2>4 DEF DeadlineTracked
    <3> QED BY <3>1, <3>2, TickFrame DEF LedParts, TimeInv
  <2>5. CASE cmd.on \notin {0, Forever}
    <3>1. cmd.on \in Nat /\ cmd.on <= Half
      BY <2>3, <2>5, TimesOn
    <3>2. phase' = "On" /\ deadline' = After(millis, cmd.on) /\ lit' = TRUE
      BY <2>1, <2>5
    <3>3. millis \in Int
      BY TimeTypes DEF LedParts, LedTypeOK
    <3>4. deadline' \in 0 .. MillisMod - 1
      <4> DEFINE t == cmd.on
      <4>1. t \in Int /\ deadline' = After(millis, t)
        BY <3>1, <3>2
      <4> HIDE DEF t
      <4> QED BY <3>3, <4>1, AfterType
    <3>5. LedTypeOK'
      BY <1>0, <2>1, <2>2, <3>2, <3>4, TickFrame DEF LedParts, LedTypeOK, TimeInv
    <3>6. Asked' = cmd.on
      BY <2>1, <3>2 DEF Asked
    <3>7. millis' + Asked' - shown' = millis + cmd.on /\ shown' <= Asked' + gap'
      BY <1>0, <3>1, <3>3, <3>6, TickFrame
    <3>8. deadline' = (millis' + Asked' - shown') % MillisMod
      BY <3>2, <3>7 DEF After
    <3>9. DeadlineTracked'
      BY <2>1, <2>5, <3>2, <3>7, <3>8 DEF DeadlineTracked
    <3> QED BY <3>5, <3>9, TickFrame DEF LedParts, TimeInv
  <2> QED BY <2>4, <2>5
<1> QED BY <1>1, <1>2

\* The phase goes on: it has not lasted as long as it was asked to.
LEMMA TickWaitsStep ==
  ASSUME LedParts, Tick, TickWaits
  PROVE  LedParts'
<1>0. phase # "Idle" /\ UNCHANGED <<queue, phase, deadline, current, lit, shown>>
  BY DEF TickWaits, led
<1>1. LedTypeOK'
  BY <1>0, TickFrame DEF LedParts, LedTypeOK, TimeInv
<1>2. Asked' = Asked /\ Asked \in Nat /\ shown \in Nat
  BY <1>0, AskedBound DEF LedParts, LedTypeOK, Asked, TimeOff
<1>3. shown < Asked
  BY <1>0, <1>2, ExpiredInPhase DEF LedParts, TickWaits
<1>4. shown' <= Asked' + gap'
  BY <1>0, <1>2, <1>3, TickFrame
<1>5. DeadlineTracked'
  BY <1>0, <1>2, <1>4, TickFrame DEF LedParts, DeadlineTracked
<1> QED BY <1>1, <1>5, TickFrame DEF LedParts, TimeInv

\* The LED goes dark for the time asked for, or the least there is.
LEMMA TickOnStep ==
  ASSUME LedParts, Tick, TickOn
  PROVE  LedParts'
<1>0. /\ phase' = "Off" /\ lit' = FALSE /\ deadline' = After(millis, TimeOff)
      /\ shown' = 0 /\ UNCHANGED <<queue, current>>
  BY DEF TickOn
<1>1. Asked' = TimeOff
  BY <1>0 DEF Asked, TimeOff
<1>2. current.off \in Off \/ current.off = 0
  BY DEF LedParts, LedTypeOK, Command, None
<1>3. TimeOff \in Nat /\ millis \in Int
  BY <1>2, TimesOff, Halves, TimeTypes DEF LedParts, LedTypeOK, TimeOff
<1>4. deadline' \in 0 .. MillisMod - 1
  BY <1>0, <1>3, AfterType
<1>5. LedTypeOK'
  BY <1>0, <1>4, TickFrame DEF LedParts, LedTypeOK, TimeInv
<1>6. millis' + Asked' - shown' = millis + TimeOff /\ shown' <= Asked' + gap'
  BY <1>0, <1>1, <1>3, TickFrame
<1>7. DeadlineTracked'
  BY <1>0, <1>6 DEF DeadlineTracked, After
<1> QED BY <1>5, <1>7, TickFrame DEF LedParts, TimeInv

LEMMA TickOffStep ==
  ASSUME LedParts, Tick, TickOff
  PROVE  LedParts'
<1>0. /\ phase = "Off" /\ phase' = "Idle" /\ shown' = 0
      /\ UNCHANGED <<queue, deadline, current, lit>>
  BY DEF TickOff
<1>1. LedTypeOK'
  BY <1>0, TickFrame DEF LedParts, LedTypeOK, TimeInv
<1>2. DeadlineTracked'
  BY <1>0 DEF LedParts, DeadlineTracked
<1> QED BY <1>1, <1>2, TickFrame DEF LedParts, TimeInv

LEMMA LedStutterStep ==
  ASSUME LedParts, UNCHANGED ledVars
  PROVE  LedParts'
<1>0. UNCHANGED <<queue, phase, deadline, current, lit, shown, gap, millis, pending>>
  BY DEF ledVars, led, timeVars, timer
<1>1. TimeInv'
  BY TimeStutterStep DEF LedParts, LedTypeOK, TimeInv, ledVars
<1>2. LedTypeOK'
  BY <1>0, <1>1 DEF LedParts, LedTypeOK, TimeInv
<1>3. TickInTime' /\ DeadlineTracked'
  BY <1>0 DEF LedParts, TickInTime, DeadlineTracked, Asked, TimeOff
<1> QED BY <1>1, <1>2, <1>3 DEF LedParts, TimeInv

LEMMA LedStep == LedParts /\ [LedNext]_ledVars => LedParts'
<1> SUFFICES ASSUME LedParts, [LedNext]_ledVars PROVE LedParts'
  OBVIOUS
<1>1. CASE Tick
  BY <1>1, TickIdleStep, TickWaitsStep, TickOnStep, TickOffStep DEF Tick
<1>2. CASE Micros /\ UNCHANGED <<led, shown, gap>>
  BY <1>2, MicrosKeepsLed
<1>3. CASE UNCHANGED ledVars
  BY <1>3, LedStutterStep
<1> QED BY <1>1, <1>2, <1>3, MicrosecondStep, MillisecondStep, BlinkStep DEF LedNext

------------------------------------------------------------------------------
\* Theorems.

\* The invariant of clock and LED: what micros() has read so far is no older than
\* its call, across one roll-over, and the deadline of a phase is what is left of it.
THEOREM LedInvariant == LedSpec => []LedInv
<1>1. LedParts => LedInv
  BY ExactFromReads DEF LedParts, LedInv, LedTypeOK, TimeInv
<1> QED BY <1>1, LedPartsInit, LedStep, PTL DEF LedSpec

\* micros() returns a time inside its call, whatever the counter and the
\* roll-over interrupt do between its reads.
THEOREM TimestampsExact == LedSpec => []MicrosExact
<1>1. LedInv => MicrosExact
  BY DEF LedInv
<1> QED BY <1>1, LedInvariant, PTL

\* Blinks last as long as asked, and at most the lateness of tick() longer, for
\* every width of the clock the deadlines are computed in.
THEOREM BlinksLast == LedSpec => BlinksAsAsked
<1>1. LedParts => (phase # "Idle" => shown <= Asked + MaxGap /\ lit = (phase = "On"))
  <2> SUFFICES ASSUME LedParts, phase # "Idle"
               PROVE  shown <= Asked + MaxGap /\ lit = (phase = "On")
    OBVIOUS
  <2>1. Asked \in Nat /\ shown \in Nat /\ gap \in 0 .. MaxGap
    BY AskedBound DEF LedParts, LedTypeOK
  <2>2. shown <= Asked + gap /\ lit = (phase = "On")
    BY DEF LedParts, DeadlineTracked
  <2> QED BY <2>1, <2>2, Halves
<1>2. LedParts => (phase = "Idle" /\ lit => current.on = Forever)
  BY DEF LedParts, DeadlineTracked
<1>3. LedParts /\ [LedNext]_ledVars => [phase # "Idle" /\ phase' # phase => shown >= Asked]_ledVars
  <2> SUFFICES ASSUME LedParts, LedNext, phase # "Idle", phase' # phase
               PROVE  shown >= Asked
    BY DEF ledVars, led
  <2>1. Tick
    BY DEF LedNext, Microsecond, Millisecond, Blink, led
  <2>2. Expired(millis, deadline)
    BY <2>1 DEF Tick, TickIdle, TickWaits, TickOn, TickOff, led
  <2> QED BY <2>2, ExpiredInPhase DEF LedParts
<1> QED BY <1>1, <1>2, <1>3, LedPartsInit, LedStep, PTL DEF LedSpec, BlinksAsAsked
===============================================================================
