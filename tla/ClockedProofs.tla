---------------------------- MODULE ClockedProofs ----------------------------
(***************************************************************************)
(* Proofs about ClockedSniffer, for every width of a byte, every number of  *)
(* registers that divides the values of HEAD, every lateness a turn of HEAD *)
(* can tell, every buffer size and any number of bits and restarts.         *)
(***************************************************************************)
EXTENDS ClockedSniffer, Remainders, SequenceTheorems

------------------------------------------------------------------------------
\* Constants and types.

LEMMA ClockedSizes ==
  /\ ByteBits \in Nat \ {0} /\ Slots \in Nat \ {0} /\ HeadW \in Nat \ {0} /\ BurstMax \in Nat \ {0}
  /\ Overhead \in Nat \ {0} /\ ModeLen \in Nat \ {0} /\ RamCap \in Nat \ {0}
  /\ MaxBits \in Nat \ {0} /\ Late \in Nat /\ MaxStops \in Nat
  /\ Slots + Late < HeadW
  /\ Overhead + BurstMax <= RamCap /\ 1 + ModeLen <= RamCap
BY ClockedSnifferAssumption

LEMMA HeadDivides == HeadW % Slots = 0
BY ClockedSnifferAssumption

\* The state in an arithmetic the provers can use.
LEMMA ClockedTypes ==
  ASSUME TypeOK
  PROVE  /\ bit \in Int /\ 0 <= bit /\ bit <= MaxBits /\ lastBit \in Int /\ 0 <= lastBit
         /\ accN \in Int /\ 0 <= accN /\ accN < ByteBits /\ accN <= bit
         /\ kbits \in Int /\ 0 <= kbits /\ kbits < ByteBits
         /\ kfirst \in Int /\ 0 <= kfirst
         /\ head \in 0 .. HeadW - 1 /\ tail \in 0 .. HeadW - 1 /\ h \in 0 .. HeadW - 1
         /\ head \in Int /\ tail \in Int /\ h \in Int
         /\ slot \in [0 .. Slots - 1 -> 0 .. MaxBits]
         /\ buf \in Seq(Chunks) /\ Len(buf) \in Nat /\ DOMAIN buf = 1 .. Len(buf)
         /\ ramUsed \in Int /\ 0 <= ramUsed /\ ramUsed <= RamCap
<1>1. buf \in Seq(Chunks)
  BY DEF TypeOK
<1>2. Len(buf) \in Nat /\ DOMAIN buf = 1 .. Len(buf)
  BY <1>1, LenProperties
<1>3. /\ bit \in 0 .. MaxBits /\ lastBit \in 0 .. MaxBits /\ accN \in 0 .. ByteBits - 1 /\ accN <= bit
      /\ kbits \in 0 .. ByteBits - 1 /\ kfirst \in 0 .. MaxBits + 1 /\ ramUsed \in 0 .. RamCap
      /\ {head, tail, h} \subseteq 0 .. HeadW - 1 /\ slot \in [0 .. Slots - 1 -> 0 .. MaxBits]
  BY DEF TypeOK
<1> QED BY <1>1, <1>2, <1>3, ClockedSizes

LEMMA AheadType ==
  ASSUME TypeOK
  PROVE  Ahead \in 0 .. HeadW - 1 /\ Ahead \in Int /\ 0 <= Ahead
         /\ Ahead = IF tail <= head THEN head - tail ELSE head - tail + HeadW
<1>1. head \in 0 .. HeadW - 1 /\ tail \in 0 .. HeadW - 1 /\ HeadW \in Nat \ {0}
  BY ClockedTypes, ClockedSizes
<1>2. Ahead = IF tail <= head THEN head - tail ELSE head - tail + HeadW
  BY <1>1, CircleDistance DEF Ahead
<1> QED BY <1>1, <1>2

\* Bits in d bytes.
LEMMA ByteSums ==
  ASSUME NEW d \in Int
  PROVE  /\ ByteBits * d \in Int
         /\ ByteBits * (d - 1) = ByteBits * d - ByteBits
         /\ ByteBits * (d + 1) = ByteBits * d + ByteBits
BY ClockedSizes

LEMMA BytesGrow ==
  ASSUME NEW d \in Int, NEW e \in Int, d <= e
  PROVE  ByteBits * d <= ByteBits * e
<1>1. ByteBits * (e - d) >= 0 /\ ByteBits * (e - d) = ByteBits * e - ByteBits * d
  BY ClockedSizes
<1>2. ByteBits * d \in Int /\ ByteBits * e \in Int
  BY ClockedSizes
<1> QED BY <1>1, <1>2

LEMMA PassedType ==
  ASSUME TypeOK
  PROVE  Passed \in Int /\ Passed <= bit - accN /\ Passed <= bit
<1>1. Ahead \in Int /\ 0 <= Ahead
  BY AheadType
<1>2. ByteBits * Ahead \in Int /\ ByteBits * 0 <= ByteBits * Ahead /\ ByteBits * 0 = 0
  BY <1>1, ByteSums, BytesGrow, ClockedSizes
<1> QED BY <1>2, ClockedTypes DEF Passed

------------------------------------------------------------------------------
\* Registers.

\* HEAD may be taken modulo Slots, although it wraps at HeadW.
LEMMA SlotOfHead ==
  ASSUME NEW x \in Int, NEW d \in Int
  PROVE  ((x % HeadW) - d) % Slots = (x - d) % Slots
<1> DEFINE r == x % HeadW
           e == -d
<1>1. r \in Int /\ r % Slots = x % Slots
  <2>1. r \in Int
    BY ClockedSizes, Divides
  <2>2. (x % HeadW) % Slots = x % Slots
    BY ClockedSizes, HeadDivides, NestedRemainder
  <2> QED BY <2>1, <2>2
<1>2. e \in Int /\ r - d = r + e /\ x - d = x + e
  BY <1>1
<1> HIDE DEF r, e
<1>3. ((r % Slots) + e) % Slots = (r + e) % Slots /\ ((x % Slots) + e) % Slots = (x + e) % Slots
  BY <1>1, <1>2, ClockedSizes, SumRemainder
<1> QED BY <1>1, <1>2, <1>3 DEF r

\* The byte to be drained next lies Ahead slots behind HEAD.
LEMMA SlotOfTail ==
  ASSUME TypeOK
  PROVE  tail % Slots = (head - Ahead) % Slots
<1>0. Ahead \in Int /\ head \in Int /\ tail \in Int /\ HeadW \in Int
  BY AheadType, ClockedTypes, ClockedSizes
<1>1. tail = head - Ahead \/ tail = head - Ahead + HeadW
  BY <1>0, AheadType
<1> DEFINE x == head - Ahead
           y == x + HeadW
<1>2. x \in Int /\ y \in Int /\ y - HeadW = x /\ tail \in Int
  BY <1>0
<1> HIDE DEF x, y
<1>3. (y % HeadW) % Slots = y % Slots /\ (x % HeadW) % Slots = x % Slots
  BY <1>2, ClockedSizes, HeadDivides, NestedRemainder, ZenonT(30)
<1>4. x % HeadW = y % HeadW
  BY <1>2, ClockedSizes, OneTurnLess
<1> QED BY <1>1, <1>3, <1>4 DEF x, y

\* Less than Slots apart, different registers.
LEMMA SlotsDiffer ==
  ASSUME NEW x \in Int, NEW d \in Int, 0 < d, d < Slots
  PROVE  (x - d) % Slots # x % Slots
<1> DEFINE y == x - d
<1>1. y \in Int /\ x - y < Slots /\ y - x < Slots /\ x # y
  BY ClockedSizes
<1> HIDE DEF y
<1>2. y % Slots # x % Slots
  BY <1>1, ClockedSizes, SameRemainder
<1> QED BY <1>2 DEF y

\* What the drain finds in the slot it reads: a whole byte that was sampled since
\* the sampler was started, and unless the sampler is too far ahead the next one.
LEMMA ByteRead ==
  ASSUME TypeOK, SlotsHold, Running, Ahead >= 1
  PROVE  /\ slot[tail % Slots] \in 0 .. MaxBits
         /\ slot[tail % Slots] >= 1 /\ slot[tail % Slots] + ByteBits - 1 <= bit
         /\ Ahead <= Slots => slot[tail % Slots] = Passed + 1
<1> DEFINE a == Ahead
           e == (a - 1) % Slots
           d == e + 1
<1>1. a \in Int /\ 1 <= a /\ Slots \in Nat \ {0} /\ head \in Int /\ bit \in Int /\ accN \in Int
      /\ ByteBits \in Nat \ {0} /\ tail \in Int /\ 0 <= accN
  BY AheadType, ClockedTypes, ClockedSizes
<1>2. tail % Slots = (head - a) % Slots
  BY SlotOfTail
<1>3. a - 1 \in Int /\ 0 <= a - 1
  BY <1>1
<1>4. e \in 0 .. Slots - 1 /\ e <= a - 1 /\ (a <= Slots => e = a - 1)
  <2>1. e \in 0 .. Slots - 1
    BY <1>1, <1>3, Divides
  <2>2. a <= Slots => e = a - 1
    <3> SUFFICES ASSUME a <= Slots PROVE (a - 1) % Slots = a - 1
      OBVIOUS
    <3>1. a - 1 \in 0 .. Slots - 1
      BY <1>1
    <3> HIDE DEF a
    <3> QED BY <1>1, <3>1, SmallRemainder
  <2> HIDE DEF e
  <2> QED BY <1>1, <2>1, <2>2
<1>5. (head - d) % Slots = (head - a) % Slots
  <2> DEFINE x == head - 1
             y == a - 1
  <2>1. x \in Int /\ y \in Int /\ e = y % Slots
    BY <1>1
  <2>2. (x - (y % Slots)) % Slots = (x - y) % Slots
    <3> HIDE DEF x, y
    <3> QED BY <1>1, <2>1, DifferenceRemainder
  <2>3. e \in Int
    BY <1>1, <1>4
  <2> HIDE DEF e, a
  <2>4. x - e = head - d /\ x - y = head - a
    BY <1>1, <2>3
  <2> QED BY <2>1, <2>2, <2>4
<1> HIDE DEF a, e
<1>6. d \in 1 .. a /\ d <= Slots /\ (a <= Slots => d = a) /\ d \in Int
  BY <1>1, <1>4
<1>7. slot[tail % Slots] = bit - accN - ByteBits * d + 1
  BY <1>2, <1>5, <1>6 DEF SlotsHold, a
<1>8. /\ ByteBits * d \in Int /\ ByteBits * a \in Int /\ ByteBits * d <= ByteBits * a
      /\ ByteBits * 1 <= ByteBits * d /\ ByteBits * 1 = ByteBits
  <2> HIDE DEF d
  <2> QED BY <1>1, <1>6, ByteSums, BytesGrow
<1>9. Passed >= 0 /\ Passed = bit - accN - ByteBits * a
  BY DEF SlotsHold, Passed, a
<1>10. tail % Slots \in 0 .. Slots - 1
  BY <1>1, Divides
<1> DEFINE s == slot[tail % Slots]
           b == ByteBits * d
           c == ByteBits * a
<1>11. s \in 0 .. MaxBits
  BY <1>10, ClockedTypes
<1>12. b \in Int /\ c \in Int /\ b <= c /\ ByteBits <= b /\ (a <= Slots => b = c)
  BY <1>6, <1>8
<1>13. Passed \in Int /\ Passed >= 0 /\ Passed = bit - accN - c /\ s = bit - accN - b + 1
  BY <1>7, <1>9, PassedType
<1> HIDE DEF s, b, c, d
<1>14. s >= 1 /\ s + ByteBits - 1 <= bit /\ (a <= Slots => s = Passed + 1)
  BY <1>1, <1>12, <1>13
<1> QED BY <1>11, <1>14 DEF s, a

------------------------------------------------------------------------------
\* Chunks and records.

\* Where the chunks of a burst end that follows bit number prev.
End(b, prev) == IF b = <<>> THEN prev ELSE Last(b[Len(b)])

LEMMA GapType ==
  ASSUME NEW chunks, NEW prev
  PROVE  Gap(chunks, prev) \in {"none", "before", "inside", "disorder"}
BY DEF Gap

LEMMA GapOrdered ==
  ASSUME NEW b \in Seq(Chunks), NEW prev \in Int, Ordered(b, prev)
  PROVE  /\ Gap(b, prev) # "disorder"
         /\ Seamless(b, prev) => Gap(b, prev) = "none"
<1> DEFINE before(k) == IF k = 1 THEN prev ELSE Last(b[k - 1])
<1>1. /\ DOMAIN b = 1 .. Len(b) /\ Len(b) \in Nat /\ \A k \in DOMAIN b : b[k] \in Chunks
  BY LenProperties, ElementOfSeq
<1>2. \A k \in DOMAIN b : b[k].first \in Int /\ before(k) \in Int
  <2> SUFFICES ASSUME NEW k \in DOMAIN b PROVE b[k].first \in Int /\ before(k) \in Int
    OBVIOUS
  <2>1. b[k].first \in Int
    BY <1>1 DEF Chunks
  <2>2. ASSUME k # 1 PROVE Last(b[k - 1]) \in Int
    <3>1. k - 1 \in DOMAIN b
      BY <1>1, <2>2
    <3>2. b[k - 1].first \in Int /\ b[k - 1].n \in Int
      BY <1>1, <3>1 DEF Chunks
    <3> QED BY <3>2 DEF Last
  <2> QED BY <2>1, <2>2
<1>3. ~ \E k \in DOMAIN b : b[k].first <= before(k)
  BY <1>2 DEF Ordered
<1>4. Gap(b, prev) # "disorder"
  BY <1>3 DEF Gap
<1>5. ASSUME Seamless(b, prev) PROVE Gap(b, prev) = "none"
  <2>1. ~ \E k \in DOMAIN b : k > 1 /\ b[k].first > before(k) + 1
    BY <1>2, <1>5 DEF Seamless
  <2>2. ~(b # <<>> /\ b[1].first > prev + 1)
    <3> SUFFICES ASSUME b # <<>> PROVE b[1].first = prev + 1
      OBVIOUS
    <3>1. 1 \in DOMAIN b
      BY <1>1, EmptySeq
    <3> QED BY <1>5, <3>1 DEF Seamless
  <2> QED BY <1>3, <2>1, <2>2 DEF Gap
<1> QED BY <1>4, <1>5

\* One more chunk.
LEMMA ChunkAppended ==
  ASSUME NEW b \in Seq(Chunks), NEW prev \in Int, NEW c \in Chunks
  PROVE  /\ Append(b, c) \in Seq(Chunks) /\ Len(Append(b, c)) = Len(b) + 1
         /\ Append(b, c) # <<>> /\ End(Append(b, c), prev) = Last(c)
         /\ Last(Append(b, c)[Len(Append(b, c))]) = Last(c)
         /\ Ordered(b, prev) /\ c.first > End(b, prev) => Ordered(Append(b, c), prev)
         /\ Seamless(b, prev) /\ c.first = End(b, prev) + 1 => Seamless(Append(b, c), prev)
<1> DEFINE g == Append(b, c)
           l == Len(b)
<1>1. /\ g \in Seq(Chunks) /\ Len(g) = l + 1 /\ g[l + 1] = c /\ \A k \in 1 .. l : g[k] = b[k]
      /\ l \in Nat
  BY AppendProperties, LenProperties
<1>2. DOMAIN g = 1 .. l + 1 /\ DOMAIN b = 1 .. l /\ (b = <<>> <=> l = 0)
  BY <1>1, LenProperties, EmptySeq
<1>3. g # <<>>
  BY <1>1, EmptySeq
<1> HIDE DEF g
<1>4. \A k \in DOMAIN g : \/ k \in DOMAIN b /\ g[k] = b[k] /\ (k # 1 => g[k - 1] = b[k - 1])
                          \/ k = l + 1 /\ g[k] = c /\ (IF k = 1 THEN prev ELSE Last(g[k - 1])) = End(b, prev)
  <2> SUFFICES ASSUME NEW k \in DOMAIN g
               PROVE  \/ k \in DOMAIN b /\ g[k] = b[k] /\ (k # 1 => g[k - 1] = b[k - 1])
                      \/ k = l + 1 /\ g[k] = c /\ (IF k = 1 THEN prev ELSE Last(g[k - 1])) = End(b, prev)
    OBVIOUS
  <2>1. CASE k = l + 1
    <3>1. CASE l = 0
      BY <1>1, <1>2, <2>1, <3>1 DEF End
    <3>2. CASE l # 0
      <4>1. k # 1 /\ k - 1 = l /\ l \in 1 .. l
        BY <1>1, <2>1, <3>2
      <4> QED BY <1>1, <1>2, <2>1, <3>2, <4>1 DEF End
    <3> QED BY <3>1, <3>2
  <2>2. CASE k # l + 1
    <3>1. k \in 1 .. l /\ (k # 1 => k - 1 \in 1 .. l)
      BY <1>1, <1>2, <2>2
    <3> QED BY <1>1, <1>2, <3>1
  <2> QED BY <2>1, <2>2
<1>5. Ordered(b, prev) /\ c.first > End(b, prev) => Ordered(g, prev)
  BY <1>4 DEF Ordered
<1>6. Seamless(b, prev) /\ c.first = End(b, prev) + 1 => Seamless(g, prev)
  BY <1>4 DEF Seamless
<1> QED BY <1>1, <1>3, <1>5, <1>6 DEF g, End

LEMMA NoChunks ==
  ASSUME NEW prev
  PROVE  Ordered(<<>>, prev) /\ Seamless(<<>>, prev) /\ End(<<>>, prev) = prev
<1>1. DOMAIN <<>> = {}
  BY EmptySeq
<1> QED BY <1>1 DEF Ordered, Seamless, End

\* What emitRecord() leaves, staged or dropped.
LEMMA EmitTypes ==
  ASSUME TypeOK, NEW chunks, NEW continued \in BOOLEAN, Emit(chunks, continued),
         Passed >= 0, Len(chunks) \in Nat, chunks # <<>> => Last(chunks[Len(chunks)]) \in 0 .. MaxBits
  PROVE  /\ open' = FALSE /\ buf' = <<>> /\ ramUsed' \in 0 .. RamCap /\ rec' \in Records
         /\ lastBit' \in 0 .. MaxBits
         /\ {open', aged', needTerminal', ovfPioc', ovfRam'} \subseteq BOOLEAN
<1>1. /\ {needTerminal, ovfPioc, ovfRam} \subseteq BOOLEAN /\ rec \in Records /\ lastBit \in 0 .. MaxBits
      /\ ramUsed \in 0 .. RamCap
  BY DEF TypeOK
<1>2. open' = FALSE /\ buf' = <<>> /\ aged' = FALSE
  BY DEF Emit
<1>3. Passed \in 0 .. MaxBits
  BY PassedType, ClockedTypes, ClockedSizes, SMTT(20)
<1> DEFINE size == Overhead + Len(chunks)
<1>4. size \in Int /\ size >= 0
  BY ClockedSizes
<1>5. CASE ramUsed + size <= RamCap
  <2>1. /\ ramUsed' = ramUsed + size
        /\ rec' = [continued |-> continued, flagged |-> ovfPioc \/ ovfRam, gap |-> Gap(chunks, lastBit)]
        /\ lastBit' = IF chunks # <<>> THEN Last(chunks[Len(chunks)])
                      ELSE IF ovfPioc \/ ovfRam THEN Passed ELSE lastBit
        /\ ovfPioc' = FALSE /\ ovfRam' = FALSE /\ needTerminal' = continued
    BY <1>5 DEF Emit
  <2> HIDE DEF size
  <2>2. ramUsed' \in 0 .. RamCap
    BY <1>1, <1>4, <1>5, <2>1, ClockedSizes
  <2>3. rec' \in Records
    BY <2>1, GapType DEF Records
  <2>4. lastBit' \in 0 .. MaxBits
    BY <1>1, <1>3, <2>1
  <2> QED BY <1>2, <2>1, <2>2, <2>3, <2>4
<1>6. CASE ~(ramUsed + size <= RamCap)
  <2>1. ovfRam' = TRUE /\ ovfPioc' = ovfPioc /\ needTerminal' = needTerminal
        /\ ramUsed' = ramUsed /\ rec' = rec /\ lastBit' = lastBit
    BY <1>6 DEF Emit, Drop, KeepTerminal
  <2> QED BY <1>1, <1>2, <2>1
<1> QED BY <1>5, <1>6

\* An ordered burst that is seamless or flagged makes an honest record.
LEMMA EmitHonest ==
  ASSUME TypeOK, NEW chunks \in Seq(Chunks), NEW continued \in BOOLEAN, Emit(chunks, continued),
         Ordered(chunks, lastBit), Seamless(chunks, lastBit) \/ Flagged,
         rec.gap # "disorder", rec.gap # "none" => rec.flagged
  PROVE  rec'.gap # "disorder" /\ (rec'.gap # "none" => rec'.flagged)
<1>1. lastBit \in Int
  BY ClockedTypes
<1>2. /\ Gap(chunks, lastBit) # "disorder"
      /\ Seamless(chunks, lastBit) => Gap(chunks, lastBit) = "none"
  BY <1>1, GapOrdered
<1>3. CASE ramUsed + (Overhead + Len(chunks)) <= RamCap
  <2>1. rec' = [continued |-> continued, flagged |-> ovfPioc \/ ovfRam, gap |-> Gap(chunks, lastBit)]
    BY <1>3 DEF Emit
  <2> QED BY <1>2, <2>1 DEF Flagged
<1>4. CASE ~(ramUsed + (Overhead + Len(chunks)) <= RamCap)
  <2>1. rec' = rec
    BY <1>4 DEF Emit
  <2> QED BY <2>1
<1> QED BY <1>3, <1>4

\* ... and brings what is staged up to bit number p, or an overflow flag is up.
LEMMA EmitInStep ==
  ASSUME TypeOK, NEW chunks, NEW continued \in BOOLEAN, Emit(chunks, continued), NEW p \in Int,
         chunks = <<>> => p = Passed /\ (lastBit = p \/ (lastBit < p /\ Flagged)),
         chunks # <<>> => p = Last(chunks[Len(chunks)]) /\ lastBit < p
  PROVE  buf' = <<>> /\ (lastBit' = p \/ (lastBit' < p /\ Flagged'))
<1>1. buf' = <<>>
  BY DEF Emit
<1>2. CASE ramUsed + (Overhead + Len(chunks)) <= RamCap
  <2>1. lastBit' = IF chunks # <<>> THEN Last(chunks[Len(chunks)])
                   ELSE IF ovfPioc \/ ovfRam THEN Passed ELSE lastBit
    BY <1>2 DEF Emit
  <2> QED BY <1>1, <2>1 DEF Flagged
<1>3. CASE ~(ramUsed + (Overhead + Len(chunks)) <= RamCap)
  <2>1. lastBit' = lastBit /\ ovfRam' = TRUE
    BY <1>3 DEF Emit, Drop
  <2>2. lastBit' = p \/ lastBit' < p
    BY <2>1
  <2> QED BY <1>1, <2>1, <2>2 DEF Flagged
<1> QED BY <1>2, <1>3

\* A chain is left open only by a record that was dropped.
LEMMA EmitTerminal ==
  ASSUME NEW chunks, NEW continued \in BOOLEAN, Emit(chunks, continued)
  PROVE  /\ (rec.continued => needTerminal) => (rec'.continued => needTerminal')
         /\ ~continued => (rec'.continued => ovfRam')
<1>1. CASE ramUsed + (Overhead + Len(chunks)) <= RamCap
  <2>1. /\ rec' = [continued |-> continued, flagged |-> ovfPioc \/ ovfRam, gap |-> Gap(chunks, lastBit)]
        /\ needTerminal' = continued
    BY <1>1 DEF Emit
  <2> QED BY <2>1
<1>2. CASE ~(ramUsed + (Overhead + Len(chunks)) <= RamCap)
  <2>1. rec' = rec /\ needTerminal' = needTerminal /\ ovfRam' = TRUE
    BY <1>2 DEF Emit, Drop, KeepTerminal
  <2> QED BY <2>1
<1> QED BY <1>1, <1>2

------------------------------------------------------------------------------
\* Cursors.

\* A byte more in the registers.
LEMMA HeadSteps ==
  ASSUME TypeOK, Ahead < Slots + Late, head' = (head + 1) % HeadW, tail' = tail
  PROVE  Ahead' = Ahead + 1 /\ head' \in 0 .. HeadW - 1
<1>1. HeadW \in Nat \ {0} /\ head \in 0 .. HeadW - 1 /\ tail \in 0 .. HeadW - 1
      /\ Slots \in Int /\ Late \in Int /\ Slots + Late < HeadW
  BY ClockedSizes, ClockedTypes
<1>2. Ahead = IF tail <= head THEN head - tail ELSE head - tail + HeadW
  BY AheadType
<1>3. head' = (IF head + 1 = HeadW THEN 0 ELSE head + 1) /\ head' \in 0 .. HeadW - 1
  <2>1. head' = IF head + 1 = HeadW THEN 0 ELSE head + 1
    BY <1>1, CircleStep
  <2> QED BY <1>1, <2>1
<1>4. Ahead' = IF tail <= head' THEN head' - tail ELSE head' - tail + HeadW
  <2>1. Ahead' = (head' - tail) % HeadW
    BY DEF Ahead
  <2>2. \A x \in 0 .. HeadW - 1 : (x - tail) % HeadW = IF tail <= x THEN x - tail ELSE x - tail + HeadW
    BY <1>1, CircleDistance
  <2> QED BY <1>3, <2>1, <2>2
<1>5. Ahead < HeadW - 1
  BY <1>1, <1>2
<1> QED BY <1>1, <1>2, <1>3, <1>4, <1>5

\* A byte less.
LEMMA TailSteps ==
  ASSUME TypeOK, tail # h, (h - tail) % HeadW <= Ahead, tail' = (tail + 1) % HeadW,
         head' = head, h' = h
  PROVE  /\ Ahead >= 1 /\ Ahead' = Ahead - 1 /\ tail' \in 0 .. HeadW - 1
         /\ (h' - tail') % HeadW <= Ahead'
<1>1. HeadW \in Nat \ {0} /\ head \in 0 .. HeadW - 1 /\ tail \in 0 .. HeadW - 1 /\ h \in 0 .. HeadW - 1
  BY ClockedSizes, ClockedTypes
<1> DEFINE D(x, y) == IF y <= x THEN x - y ELSE x - y + HeadW
<1>2. \A x, y \in 0 .. HeadW - 1 : (x - y) % HeadW = D(x, y)
  BY <1>1, CircleDistance
<1>3. tail' = (IF tail + 1 = HeadW THEN 0 ELSE tail + 1) /\ tail' \in 0 .. HeadW - 1
  <2>1. tail' = IF tail + 1 = HeadW THEN 0 ELSE tail + 1
    BY <1>1, CircleStep
  <2> QED BY <1>1, <2>1
<1>4. /\ Ahead = D(head, tail) /\ Ahead' = D(head, tail') /\ (h - tail) % HeadW = D(h, tail)
      /\ (h' - tail') % HeadW = D(h, tail')
  <2>1. Ahead' = (head - tail') % HeadW /\ Ahead = (head - tail) % HeadW
    BY DEF Ahead
  <2>2. (h' - tail') % HeadW = (h - tail') % HeadW
    OBVIOUS
  <2> HIDE DEF D
  <2> QED BY <1>1, <1>2, <1>3, <2>1, <2>2
<1>5. D(h, tail) >= 1 /\ D(h, tail) <= Ahead
  BY <1>1, <1>4
<1>6. Ahead >= 1 /\ D(head, tail') = D(head, tail) - 1 /\ D(h, tail') = D(h, tail) - 1
  BY <1>1, <1>3, <1>4, <1>5
<1> QED BY <1>3, <1>4, <1>5, <1>6, <1>1

\* TAIL moved up to Slots behind HEAD.
LEMMA TailCatches ==
  ASSUME TypeOK, head' = head, tail' = (head - Slots) % HeadW
  PROVE  Ahead' = Slots /\ tail' \in 0 .. HeadW - 1
<1>1. HeadW \in Nat \ {0} /\ head \in Int /\ Slots \in Int /\ 0 <= Slots /\ Slots < HeadW
  BY ClockedSizes, ClockedTypes
<1> DEFINE y == head - Slots
<1>2. y \in Int /\ head - y = Slots
  BY <1>1
<1>3. Ahead' = (head - (y % HeadW)) % HeadW
  BY DEF Ahead
<1> HIDE DEF y
<1>4. (head - (y % HeadW)) % HeadW = (head - y) % HeadW /\ y % HeadW \in 0 .. HeadW - 1
  BY <1>1, <1>2, DifferenceRemainder, Divides
<1>5. Slots % HeadW = Slots
  <2>1. Slots \in 0 .. HeadW - 1
    BY <1>1
  <2> QED BY <1>1, <2>1, SmallRemainder
<1> QED BY <1>2, <1>3, <1>4, <1>5 DEF y

\* HEAD and TAIL at the same place.
LEMMA NothingAhead ==
  ASSUME NEW x \in Int
  PROVE  (x - x) % HeadW = 0
<1>1. x - x = 0 /\ 0 \in 0 .. HeadW - 1 /\ HeadW \in Nat \ {0}
  BY ClockedSizes
<1> QED BY <1>1, SmallRemainder

\* ... and only then is nothing waiting.
LEMMA NoneWaiting ==
  ASSUME TypeOK
  PROVE  Ahead = 0 <=> tail = head
<1>1. head \in 0 .. HeadW - 1 /\ tail \in 0 .. HeadW - 1 /\ HeadW \in Nat \ {0}
  BY ClockedTypes, ClockedSizes
<1>2. Ahead = IF tail <= head THEN head - tail ELSE head - tail + HeadW
  BY AheadType
<1> QED BY <1>1, <1>2

\* Without a byte in the registers the drain has passed all but ACC.
LEMMA PassedAll ==
  ASSUME TypeOK, tail = head
  PROVE  Passed = bit - accN
<1>1. Ahead = 0 /\ ByteBits * 0 = 0 /\ bit \in Int /\ accN \in Int
  BY NoneWaiting, ClockedSizes, ClockedTypes
<1> QED BY <1>1 DEF Passed

------------------------------------------------------------------------------
\* Bursts.

LEMMA BurstEnd ==
  ASSUME TypeOK, BitsInStep, buf # <<>>
  PROVE  Last(buf[Len(buf)]) \in 0 .. bit /\ Last(buf[Len(buf)]) \in Int
<1>1. /\ buf \in Seq(Chunks) /\ Len(buf) \in Nat /\ DOMAIN buf = 1 .. Len(buf)
      /\ bit \in Int
  BY ClockedTypes
<1>2. Len(buf) \in DOMAIN buf
  BY <1>1, EmptySeq
<1>3. buf[Len(buf)] \in Chunks /\ 1 <= buf[Len(buf)].n /\ Last(buf[Len(buf)]) <= bit
  BY <1>1, <1>2, ElementOfSeq DEF BitsInStep
<1> QED BY <1>1, <1>3 DEF Chunks, Last

\* The byte drained, appended to the burst.
LEMMA DrainGrows ==
  ASSUME TypeOK, SlotsHold, CallInStep, BitsInStep, Draining,
         NEW grown, grown = Append(buf, [first |-> slot[tail % Slots], n |-> ByteBits])
  PROVE  /\ Running /\ Ahead >= 1
         /\ grown \in Seq(Chunks) /\ Len(grown) = Len(buf) + 1 /\ Len(grown) \in Nat /\ grown # <<>>
         /\ Last(grown[Len(grown)]) = slot[tail % Slots] + ByteBits - 1
         /\ Last(grown[Len(grown)]) \in 0 .. bit /\ Last(grown[Len(grown)]) \in 0 .. MaxBits
         /\ ~excused => slot[tail % Slots] = Passed + 1
         /\ \A k \in DOMAIN grown : 1 <= grown[k].n /\ Last(grown[k]) <= bit
         /\ Ordered(buf, lastBit) /\ slot[tail % Slots] > End(buf, lastBit) => Ordered(grown, lastBit)
         /\ Seamless(buf, lastBit) /\ slot[tail % Slots] = End(buf, lastBit) + 1
              => Seamless(grown, lastBit)
<1> DEFINE s == slot[tail % Slots]
           c == [first |-> s, n |-> ByteBits]
<1>1. pc = "drain" /\ tail # h /\ Running
  BY DEF Draining, Running
<1>2. (h - tail) % HeadW <= Ahead /\ (~excused => Ahead <= Slots)
  BY <1>1 DEF CallInStep
<1>3. Ahead >= 1
  <2>1. HeadW \in Nat \ {0} /\ h \in 0 .. HeadW - 1 /\ tail \in 0 .. HeadW - 1
    BY ClockedSizes, ClockedTypes
  <2>2. (h - tail) % HeadW = IF tail <= h THEN h - tail ELSE h - tail + HeadW
    BY <2>1, CircleDistance
  <2> QED BY <1>1, <1>2, <2>1, <2>2, AheadType
<1>4. s \in 0 .. MaxBits /\ s >= 1 /\ s + ByteBits - 1 <= bit /\ (Ahead <= Slots => s = Passed + 1)
  BY <1>1, <1>3, ByteRead
<1> HIDE DEF s
<1>5. c \in Chunks /\ Last(c) = s + ByteBits - 1 /\ Last(c) \in 0 .. bit /\ Last(c) \in 0 .. MaxBits
      /\ c.first = s /\ c.n = ByteBits /\ 1 <= c.n
  <2>1. ByteBits \in Nat \ {0} /\ bit \in Int /\ bit <= MaxBits /\ MaxBits \in Int /\ s \in Int
    BY <1>4, ClockedSizes, ClockedTypes
  <2>2. c.first = s /\ c.n = ByteBits /\ Last(c) = s + ByteBits - 1
    BY DEF Last
  <2>3. c \in Chunks
    BY <1>4, <2>1 DEF Chunks
  <2> HIDE DEF c
  <2> QED BY <1>4, <2>1, <2>2, <2>3
<1>6. buf \in Seq(Chunks) /\ lastBit \in Int /\ grown = Append(buf, c) /\ Len(buf) \in Nat
      /\ DOMAIN buf = 1 .. Len(buf)
  BY ClockedTypes DEF s
<1> HIDE DEF c
<1>7. /\ grown \in Seq(Chunks) /\ Len(grown) = Len(buf) + 1 /\ grown # <<>>
      /\ Last(grown[Len(grown)]) = Last(c)
      /\ Ordered(buf, lastBit) /\ c.first > End(buf, lastBit) => Ordered(grown, lastBit)
      /\ Seamless(buf, lastBit) /\ c.first = End(buf, lastBit) + 1 => Seamless(grown, lastBit)
  BY <1>5, <1>6, ChunkAppended
<1>8. \A k \in DOMAIN grown : 1 <= grown[k].n /\ Last(grown[k]) <= bit
  <2> SUFFICES ASSUME NEW k \in DOMAIN grown PROVE 1 <= grown[k].n /\ Last(grown[k]) <= bit
    OBVIOUS
  <2>1. DOMAIN grown = 1 .. Len(buf) + 1
    BY <1>7, LenProperties
  <2>2. CASE k = Len(buf) + 1
    <3>1. grown[k] = c
      BY <1>5, <1>6, <2>2, AppendProperties
    <3>2. Last(c) <= bit
      BY <1>5, ClockedTypes
    <3> QED BY <1>5, <3>1, <3>2
  <2>3. CASE k # Len(buf) + 1
    <3>1. k \in 1 .. Len(buf)
      BY <1>6, <2>1, <2>3
    <3>2. grown[k] = buf[k]
      BY <1>5, <1>6, <3>1, AppendProperties
    <3> QED BY <1>6, <3>1, <3>2 DEF BitsInStep
  <2> QED BY <2>2, <2>3
<1>9. Len(grown) \in Nat
  BY <1>6, <1>7
<1> QED BY <1>1, <1>2, <1>3, <1>4, <1>5, <1>7, <1>8, <1>9 DEF s

\* The burst with the partial byte, if there is one.
LEMMA FlushGrows ==
  ASSUME TypeOK, CallInStep, BitsInStep, pc = "finalize", NEW b, b = buf \o Partial
  PROVE  /\ b \in Seq(Chunks) /\ Len(b) \in Nat /\ Len(b) <= BurstMax
         /\ b # <<>> => Last(b[Len(b)]) \in 0 .. MaxBits
         /\ kbits = 0 => b = buf
         /\ kbits > 0 => /\ b # <<>> /\ Last(b[Len(b)]) = kfirst + kbits - 1
                         /\ Ordered(buf, lastBit) /\ kfirst > End(buf, lastBit) => Ordered(b, lastBit)
                         /\ Seamless(buf, lastBit) /\ kfirst = End(buf, lastBit) + 1
                              => Seamless(b, lastBit)
<1>1. /\ buf \in Seq(Chunks) /\ Len(buf) \in Nat /\ kbits \in Int /\ 0 <= kbits /\ kfirst \in Int
      /\ bit \in Int /\ bit <= MaxBits /\ lastBit \in Int
  BY ClockedTypes
<1>2. Len(buf) < BurstMax /\ BurstMax \in Int /\ MaxBits \in Int
  BY ClockedSizes DEF TypeOK
<1>3. CASE kbits = 0
  <2>1. b = buf
    BY <1>1, <1>3, ConcatEmptySeq DEF Partial
  <2>2. b # <<>> => Last(b[Len(b)]) \in 0 .. MaxBits
    <3> SUFFICES ASSUME b # <<>> PROVE Last(b[Len(b)]) \in 0 .. MaxBits
      OBVIOUS
    <3>1. Last(b[Len(b)]) \in 0 .. bit /\ Last(b[Len(b)]) \in Int
      BY <2>1, BurstEnd
    <3> QED BY <1>1, <1>2, <3>1
  <2>3. b \in Seq(Chunks) /\ Len(b) \in Nat /\ Len(b) <= BurstMax
    BY <1>1, <1>2, <2>1
  <2> QED BY <1>3, <2>1, <2>2, <2>3
<1>4. CASE kbits > 0
  <2> DEFINE c == [first |-> kfirst, n |-> kbits]
  <2>1. 1 <= kfirst /\ kfirst + kbits - 1 <= bit
    BY DEF CallInStep
  <2>2. c \in Chunks /\ Last(c) = kfirst + kbits - 1 /\ c.first = kfirst
    BY <1>1, <1>4, <2>1 DEF Chunks, Last
  <2>3. b = buf \o <<c>>
    BY <1>4 DEF Partial
  <2> HIDE DEF c
  <2>4. b = Append(buf, c)
    BY <1>1, <2>2, <2>3, AppendIsConcat
  <2>5. /\ b \in Seq(Chunks) /\ Len(b) = Len(buf) + 1 /\ b # <<>> /\ Last(b[Len(b)]) = Last(c)
        /\ Ordered(buf, lastBit) /\ c.first > End(buf, lastBit) => Ordered(b, lastBit)
        /\ Seamless(buf, lastBit) /\ c.first = End(buf, lastBit) + 1 => Seamless(b, lastBit)
    BY <1>1, <2>2, <2>4, ChunkAppended
  <2>6. Len(b) \in Nat /\ Len(b) <= BurstMax
    BY <1>1, <1>2, <2>5
  <2>7. kfirst + kbits - 1 \in 0 .. MaxBits /\ kbits # 0
    BY <1>1, <1>2, <1>4, <2>1
  <2> QED BY <2>2, <2>5, <2>6, <2>7
<1> QED BY <1>1, <1>3, <1>4

------------------------------------------------------------------------------
\* Types are kept.

LEMMA TypesKept ==
  ASSUME TypeOK, SlotsHold, CallInStep, BitsInStep, [Next]_vars
  PROVE  TypeOK'
<1> DEFINE Flags == {open, needTerminal, ovfPioc, ovfRam, watched, sniffOld, partialOld, aged, got,
                     moved, long, settled, excused} \subseteq BOOLEAN
           Bits == bit \in 0 .. MaxBits /\ accN \in 0 .. ByteBits - 1 /\ accN <= bit
           Registers == /\ {head, tail, h} \subseteq 0 .. HeadW - 1
                        /\ slot \in [0 .. Slots - 1 -> 0 .. MaxBits]
           Taken == kbits \in 0 .. ByteBits - 1 /\ kfirst \in 0 .. MaxBits + 1
           Burst == buf \in Seq(Chunks) /\ Len(buf) < BurstMax /\ (~open => buf = <<>>)
           Output == lastBit \in 0 .. MaxBits /\ ramUsed \in 0 .. RamCap /\ rec \in Records
           Where == pc \in {"idle", "drain", "finalize", "restart", "ship", "off", "loading"}
<1>1. Flags /\ Bits /\ Registers /\ Taken /\ Burst /\ Output /\ Where
  BY DEF TypeOK
<1>2. SUFFICES (Flags /\ Bits /\ Registers /\ Taken /\ Burst /\ Output /\ Where)'
  BY DEF TypeOK
<1>3. /\ ByteBits \in Int /\ 1 <= ByteBits /\ Slots \in Int /\ 1 <= Slots /\ HeadW \in Nat \ {0}
      /\ MaxBits \in Int /\ 0 <= MaxBits /\ RamCap \in Int /\ BurstMax \in Int /\ 1 <= BurstMax
      /\ 0 <= 1 + ModeLen /\ 1 + ModeLen <= RamCap /\ ModeLen \in Int /\ 0 <= ModeLen
  BY ClockedSizes
<1>4. Running => Passed >= 0
  BY DEF SlotsHold
<1>5. <<>> \in Seq(Chunks) /\ Len(<<>>) = 0 /\ 0 < BurstMax
  BY <1>3, EmptySeq
<1>a. CASE Sample
  <2>1. (Flags /\ Taken /\ Burst /\ Output /\ Where)'
    <3>1. /\ excused' \in BOOLEAN /\ moved' \in BOOLEAN /\ settled' = FALSE
          /\ UNCHANGED <<tail, pc, snapshots, burst, output, watched, clock, aged, stops>>
      <4>1. CASE accN + 1 < ByteBits
        BY <1>1, <1>a, <4>1 DEF Sample
      <4>2. CASE ~(accN + 1 < ByteBits)
        BY <1>a, <4>2 DEF Sample, Draining
      <4> QED BY <4>1, <4>2
    <3> QED BY <1>1, <3>1 DEF snapshots, burst, output, clock
  <2>2. (Bits /\ Registers)'
    <3>0. bit' = bit + 1 /\ bit < MaxBits /\ h' = h /\ tail' = tail
      BY <1>a DEF Sample, snapshots
    <3>1. CASE accN + 1 < ByteBits
      <4>1. accN' = accN + 1 /\ head' = head /\ slot' = slot
        BY <1>a, <3>1 DEF Sample
      <4> QED BY <1>1, <1>3, <3>0, <3>1, <4>1
    <3>2. CASE ~(accN + 1 < ByteBits)
      <4>1. accN' = 0 /\ head' = (head + 1) % HeadW
            /\ slot' = [slot EXCEPT ![head % Slots] = bit + 2 - ByteBits]
        BY <1>a, <3>2 DEF Sample
      <4>2. bit + 2 - ByteBits \in 0 .. MaxBits
        BY <1>1, <1>3, <3>0, <3>2
      <4>3. head' \in 0 .. HeadW - 1
        <5>1. head + 1 \in Int
          BY <1>1, <1>3
        <5> QED BY <1>3, <4>1, <5>1, Divides
      <4>4. Registers'
        BY <1>1, <3>0, <4>1, <4>2, <4>3
      <4>5. Bits'
        BY <1>1, <1>3, <3>0, <4>1
      <4> QED BY <4>4, <4>5
    <3> QED BY <3>1, <3>2
  <2> QED BY <2>1, <2>2
<1>b. CASE Pause \/ PartialAges \/ Age
  BY <1>1, <1>b DEF Pause, PartialAges, Age, sampler, snapshots, burst, output, clock
<1>c. CASE ServiceBegin
  <2>1. (Flags /\ Bits /\ Taken /\ Burst /\ Where)'
    <3>1. /\ ovfPioc' \in BOOLEAN /\ got' \in BOOLEAN /\ moved' \in BOOLEAN /\ long' \in BOOLEAN
          /\ pc' = "drain"
          /\ UNCHANGED <<sampler, kbits, kfirst, burst, needTerminal, ovfRam, watched, clock, aged,
                         settled, excused>>
      BY <1>c DEF ServiceBegin
    <3> QED BY <1>1, <3>1 DEF sampler, burst, clock
  <2>2. Output'
    <3>1. ramUsed' = ramUsed \/ (ramUsed' = ramUsed + ModeLen /\ ramUsed' <= RamCap)
      BY <1>c DEF ServiceBegin
    <3>2. rec' = rec /\ lastBit' = lastBit
      BY <1>c DEF ServiceBegin
    <3> QED BY <1>1, <1>3, <3>1, <3>2
  <2>3. Registers'
    <3>1. slot' = slot /\ head' = head /\ h' = head
      BY <1>c DEF ServiceBegin, sampler
    <3>2. tail' = tail \/ tail' = (head - Slots) % HeadW
      BY <1>c DEF ServiceBegin
    <3>3. tail' \in 0 .. HeadW - 1
      BY <1>1, <3>1, <3>2, TailCatches
    <3> QED BY <1>1, <3>1, <3>3
  <2> QED BY <2>1, <2>2, <2>3
<1>d. CASE DrainByte
  <2> DEFINE grown == Append(buf, [first |-> slot[tail % Slots], n |-> ByteBits])
  <2>1. Draining /\ pc = "drain" /\ Running
    BY <1>d DEF DrainByte, Draining, Running
  <2>2. /\ grown \in Seq(Chunks) /\ Len(grown) = Len(buf) + 1 /\ Len(grown) \in Nat /\ grown # <<>>
        /\ Last(grown[Len(grown)]) \in 0 .. MaxBits
    BY <2>1, DrainGrows
  <2>3. /\ tail' = (tail + 1) % HeadW /\ got' = TRUE
        /\ UNCHANGED <<sampler, pc, h, kbits, kfirst, watched, clock, moved, long, settled, excused>>
        /\ IF Full(grown) THEN Emit(grown, TRUE)
           ELSE open' = TRUE /\ buf' = grown /\ UNCHANGED <<aged, output>>
    BY <1>d DEF DrainByte
  <2> HIDE DEF grown
  <2>4. tail' \in 0 .. HeadW - 1
    <3>1. tail + 1 \in Int
      BY <1>1, <1>3
    <3> QED BY <1>3, <2>3, <3>1, Divides
  <2>5. (Bits /\ Registers /\ Taken /\ Where)'
    BY <1>1, <2>3, <2>4 DEF sampler
  <2>6. /\ {open', aged', needTerminal', ovfPioc', ovfRam'} \subseteq BOOLEAN /\ Burst' /\ Output'
    <3>1. CASE Full(grown)
      <4>1. Emit(grown, TRUE) /\ TRUE \in BOOLEAN
        BY <2>3, <3>1
      <4>2. /\ open' = FALSE /\ buf' = <<>> /\ ramUsed' \in 0 .. RamCap /\ rec' \in Records
            /\ lastBit' \in 0 .. MaxBits
            /\ {open', aged', needTerminal', ovfPioc', ovfRam'} \subseteq BOOLEAN
        BY <1>4, <2>1, <2>2, <4>1, EmitTypes
      <4> QED BY <1>3, <1>5, <4>2
    <3>2. CASE ~Full(grown)
      <4>1. open' = TRUE /\ buf' = grown /\ UNCHANGED <<aged, output>>
        BY <2>3, <3>2
      <4>2. Len(grown) < BurstMax
        BY <1>3, <2>2, <3>2 DEF Full
      <4> QED BY <1>1, <2>2, <4>1, <4>2 DEF output
    <3> QED BY <3>1, <3>2
  <2>7. Flags'
    BY <1>1, <2>3, <2>6 DEF clock
  <2> QED BY <2>5, <2>6, <2>7
<1>e. CASE ReadAcc
  <2>1. /\ sniffOld' \in BOOLEAN /\ watched' \in BOOLEAN /\ partialOld' \in BOOLEAN
        /\ kbits' = accN /\ kfirst' = bit - accN + 1 /\ pc' = "finalize"
        /\ UNCHANGED <<sampler, tail, h, got, long, burst, output, aged, moved, settled, excused>>
    BY <1>1, <1>e DEF ReadAcc
  <2>2. Taken'
    BY <1>1, <1>3, <2>1
  <2> QED BY <1>1, <2>1, <2>2 DEF sampler, burst, output
<1>f. CASE FinalizeIdle
  <2> DEFINE b == buf \o Partial
  <2>1. /\ Emit(b, FALSE) /\ pc = "finalize" /\ pc' \in {"restart", "ship"}
        /\ excused' \in BOOLEAN
        /\ UNCHANGED <<sampler, tail, snapshots, watched, clock, moved, settled>>
    <3>1. excused' = (excused \/ (kbits > 0 /\ moved))
      BY <1>f DEF FinalizeIdle
    <3> QED BY <1>f, <3>1 DEF FinalizeIdle
  <2>2. Len(b) \in Nat /\ (b # <<>> => Last(b[Len(b)]) \in 0 .. MaxBits)
    BY <2>1, FlushGrows
  <2> HIDE DEF b
  <2>3. /\ open' = FALSE /\ buf' = <<>> /\ ramUsed' \in 0 .. RamCap /\ rec' \in Records
        /\ lastBit' \in 0 .. MaxBits
        /\ {open', aged', needTerminal', ovfPioc', ovfRam'} \subseteq BOOLEAN
    <3>1. Passed >= 0
      BY <1>4, <2>1 DEF Running
    <3> QED BY <2>1, <2>2, <3>1, EmitTypes
  <2> QED BY <1>1, <1>3, <1>5, <2>1, <2>3 DEF sampler, snapshots, clock
<1>g. CASE FinalizeAged
  <2>1. /\ Emit(buf, FALSE) /\ pc = "finalize" /\ pc' = "ship"
        /\ UNCHANGED <<sampler, tail, snapshots, watched, clock, moved, settled, excused>>
    BY <1>g DEF FinalizeAged
  <2>2. Len(buf) \in Nat /\ (buf # <<>> => Last(buf[Len(buf)]) \in 0 .. MaxBits)
    <3> SUFFICES ASSUME buf # <<>> PROVE Last(buf[Len(buf)]) \in 0 .. MaxBits
      BY ClockedTypes
    <3>1. Last(buf[Len(buf)]) \in 0 .. bit /\ Last(buf[Len(buf)]) \in Int
      BY BurstEnd
    <3> QED BY <1>1, <1>3, <3>1
  <2>3. /\ open' = FALSE /\ buf' = <<>> /\ ramUsed' \in 0 .. RamCap /\ rec' \in Records
        /\ lastBit' \in 0 .. MaxBits
        /\ {open', aged', needTerminal', ovfPioc', ovfRam'} \subseteq BOOLEAN
    <3>1. Passed >= 0
      BY <1>4, <2>1 DEF Running
    <3> QED BY <2>1, <2>2, <3>1, EmitTypes
  <2> QED BY <1>1, <1>3, <1>5, <2>1, <2>3 DEF sampler, snapshots, clock
<1>h. CASE FinalizeNothing
  BY <1>1, <1>h DEF FinalizeNothing, sampler, snapshots, burst, output, clock
<1>i. CASE Restart
  <2>1. /\ accN' = 0 /\ head' = 0 /\ tail' = 0 /\ watched' = FALSE /\ pc' = "ship"
        /\ excused' \in BOOLEAN
        /\ UNCHANGED <<bit, slot, snapshots, burst, output, clock, aged, moved, settled>>
    BY <1>i DEF Restart, RestartAcc
  <2>2. Flags' /\ Where'
    BY <1>1, <2>1 DEF snapshots, burst, output, clock
  <2>3. (Bits /\ Registers /\ Taken)'
    BY <1>1, <1>3, <2>1 DEF snapshots, burst, output, clock
  <2>4. (Burst /\ Output)'
    BY <1>1, <1>3, <2>1 DEF snapshots, burst, output, clock
  <2> QED BY <2>2, <2>3, <2>4
<1>j. CASE Ship
  <2>1. /\ ramUsed' \in 0 .. ramUsed /\ pc' = "idle" /\ settled' \in BOOLEAN
        /\ h' = 0 /\ kbits' = 0 /\ kfirst' = 0 /\ got' = FALSE /\ long' = FALSE /\ moved' = FALSE
        /\ UNCHANGED <<sampler, tail, burst, rec, lastBit, needTerminal, ovfPioc, ovfRam, watched,
                       clock, aged, excused>>
    BY <1>j DEF Ship
  <2>2. Flags' /\ Where'
    BY <1>1, <2>1 DEF sampler, burst, clock
  <2>3. (Bits /\ Registers /\ Taken)'
    BY <1>1, <1>3, <2>1 DEF sampler, burst, clock
  <2>4. (Burst /\ Output)'
    BY <1>1, <1>3, <2>1 DEF sampler, burst, clock
  <2> QED BY <2>2, <2>3, <2>4
<1>k. CASE Stop
  <2>1. /\ pc' = "off" /\ ramUsed' = 0
        /\ open' = FALSE /\ buf' = <<>> /\ needTerminal' = FALSE /\ watched' = FALSE
        /\ aged' = FALSE /\ settled' = FALSE
        /\ UNCHANGED <<sampler, tail, snapshots, rec, lastBit, ovfPioc, ovfRam, clock, moved, excused>>
    BY <1>k DEF Stop
  <2>2. Flags' /\ Where'
    BY <1>1, <2>1 DEF sampler, snapshots, clock
  <2>3. (Bits /\ Registers /\ Taken)'
    BY <1>1, <1>3, <2>1 DEF sampler, snapshots, clock
  <2>4. (Burst /\ Output)'
    BY <1>1, <1>3, <1>5, <2>1 DEF sampler, snapshots, clock
  <2> QED BY <2>2, <2>3, <2>4
<1>l. CASE LoadBlob
  <2>1. /\ pc' = "loading" /\ accN' = 0 /\ head' = 0
        /\ UNCHANGED <<bit, slot, tail, snapshots, burst, output, watched, clock, aged, moved,
                       settled, excused>>
    BY <1>l DEF LoadBlob
  <2> QED BY <1>1, <1>3, <2>1 DEF snapshots, burst, output, clock
<1>m. CASE Begin
  <2>1. /\ pc' = "idle" /\ tail' = head /\ sniffOld' = FALSE /\ partialOld' = FALSE
        /\ ovfPioc' = FALSE /\ ovfRam' = FALSE /\ ramUsed' = 1 + ModeLen
        /\ rec' = NoRec /\ lastBit' = bit - accN
        /\ UNCHANGED <<sampler, snapshots, burst, needTerminal, watched, aged, moved, settled, excused>>
    BY <1>m DEF Begin
  <2>2. rec' \in Records
    BY <2>1 DEF NoRec, Records
  <2>3. lastBit' \in 0 .. MaxBits /\ ramUsed' \in 0 .. RamCap
    BY <1>1, <1>3, <2>1
  <2> QED BY <1>1, <2>1, <2>2, <2>3 DEF sampler, snapshots, burst
<1>n. CASE UNCHANGED vars
  BY <1>1, <1>n DEF vars, sampler, snapshots, burst, output, clock
<1> QED BY <1>a, <1>b, <1>c, <1>d, <1>e, <1>f, <1>g, <1>h, <1>i, <1>j, <1>k, <1>l, <1>m, <1>n
        DEF Next, Service

------------------------------------------------------------------------------
\* The registers hold the last bytes.

\* Draining, or dropping what an overrun has overwritten, only takes bytes away.
LEMMA FewerAhead ==
  ASSUME TypeOK, SlotsHold, Running, UNCHANGED sampler, Ahead' \in Int, 0 <= Ahead', Ahead' <= Ahead
  PROVE  SlotsHold' /\ Passed' = bit - accN - ByteBits * Ahead' /\ Passed' >= Passed
<1>1. bit' = bit /\ accN' = accN /\ head' = head /\ slot' = slot
  BY DEF sampler
<1>2. Passed >= 0 /\ Ahead <= Slots + Late /\ Ahead \in Int
      /\ \A d \in 1 .. Ahead : d <= Slots => slot[(head - d) % Slots] = bit - accN - ByteBits * d + 1
  BY AheadType DEF SlotsHold
<1> DEFINE a == Ahead
           z == Ahead'
<1>3. ByteBits * z <= ByteBits * a /\ ByteBits * z \in Int /\ ByteBits * a \in Int
  <2>1. a \in Int /\ z \in Int /\ z <= a
    BY <1>2
  <2> HIDE DEF a, z
  <2> QED BY <2>1, ByteSums, BytesGrow
<1>4. Passed' = bit - accN - ByteBits * z
  BY <1>1 DEF Passed
<1>5. Passed = bit - accN - ByteBits * a
  BY DEF Passed
<1>6. z <= Slots + Late /\ \A d \in 1 .. z : d \in 1 .. a
  <2>1. a \in Int /\ z \in Int /\ z <= a /\ a <= Slots + Late /\ Slots + Late \in Int
    BY <1>2, ClockedSizes
  <2> HIDE DEF a, z
  <2> QED BY <2>1
<1>7. Passed' >= 0 /\ Passed' >= Passed
  <2> DEFINE u == ByteBits * z
             v == ByteBits * a
  <2>1. bit \in Int /\ accN \in Int /\ u <= v /\ u \in Int /\ v \in Int
        /\ Passed' = bit - accN - u /\ Passed = bit - accN - v /\ Passed >= 0
    BY <1>2, <1>3, <1>4, <1>5, ClockedTypes
  <2> HIDE DEF u, v
  <2> QED BY <2>1
<1>8. \A d \in 1 .. z : d <= Slots => slot'[(head' - d) % Slots] = bit' - accN' - ByteBits * d + 1
  BY <1>1, <1>2, <1>6
<1>9. SlotsHold'
  BY <1>6, <1>7, <1>8 DEF SlotsHold
<1> QED BY <1>4, <1>7, <1>9

\* A bit more leaves the drain where it is.
LEMMA SampleKeepsSlots ==
  ASSUME TypeOK, SlotsHold, Sample
  PROVE  SlotsHold' /\ Passed' = Passed /\ (Running => Ahead' >= Ahead /\ Ahead' \in Int)
         /\ Running' = Running
<1>1. /\ bit \in Int /\ accN \in Int /\ ByteBits \in Nat \ {0} /\ Ahead \in Int /\ head \in Int
      /\ Slots \in Nat \ {0} /\ Late \in Int /\ bit' = bit + 1 /\ tail' = tail
      /\ ByteBits * Ahead \in Int /\ accN < ByteBits /\ 0 <= Ahead /\ 0 <= accN
  BY ClockedTypes, ClockedSizes, AheadType, ByteSums, SMTT(20) DEF Sample
<1>2. Running' = Running
  BY DEF Sample, Running
<1>3. CASE accN + 1 < ByteBits
  <2>1. accN' = accN + 1 /\ head' = head /\ slot' = slot
    BY <1>3 DEF Sample
  <2>2. Ahead' = Ahead /\ bit' - accN' = bit - accN
    BY <1>1, <2>1 DEF Ahead
  <2>3. Passed' = Passed
    BY <2>2 DEF Passed
  <2>4. SlotsHold'
    BY <1>2, <2>1, <2>2, <2>3 DEF SlotsHold
  <2> QED BY <1>1, <1>2, <2>2, <2>3, <2>4
<1>4. CASE ~(accN + 1 < ByteBits)
  <2>1. /\ accN' = 0 /\ head' = (head + 1) % HeadW /\ Ahead < Slots + Late
        /\ slot' = [slot EXCEPT ![head % Slots] = bit + 2 - ByteBits]
    BY <1>4 DEF Sample
  <2>2. Ahead' = Ahead + 1
    BY <1>1, <2>1, HeadSteps
  <2>3. bit + 1 = bit - accN + ByteBits
    BY <1>1, <1>4
  <2>4. Passed' = Passed
    <3>1. Passed' = bit + 1 - 0 - ByteBits * (Ahead + 1)
      BY <1>1, <2>1, <2>2 DEF Passed
    <3>2. ByteBits * (Ahead + 1) = ByteBits * Ahead + ByteBits
      BY <1>1, ByteSums
    <3>3. Passed = bit - accN - ByteBits * Ahead
      BY DEF Passed
    <3> DEFINE u == ByteBits * Ahead
               v == ByteBits * (Ahead + 1)
    <3>4. u \in Int /\ v = u + ByteBits /\ Passed' = bit + 1 - 0 - v /\ Passed = bit - accN - u
      BY <1>1, <3>1, <3>2, <3>3
    <3> HIDE DEF u, v
    <3> QED BY <1>1, <2>3, <3>4
  <2>5. ASSUME Running PROVE SlotsHold'
    <3>1. /\ Passed >= 0 /\ Ahead <= Slots + Late
          /\ \A d \in 1 .. Ahead : d <= Slots =>
               slot[(head - d) % Slots] = bit - accN - ByteBits * d + 1
      BY <2>5 DEF SlotsHold
    <3>2. Ahead' <= Slots + Late
      BY <1>1, <2>1, <2>2
    <3>3. ASSUME NEW d \in 1 .. Ahead', d <= Slots
          PROVE  slot'[(head' - d) % Slots] = bit' - accN' - ByteBits * d + 1
      <4> DEFINE e == d - 1
      <4>1. d \in Int /\ 1 <= d /\ d <= Ahead + 1 /\ e \in Int
        BY <1>1, <2>2
      <4>2. (head' - d) % Slots = (head - e) % Slots
        <5> DEFINE x == head + 1
        <5>1. x \in Int /\ x - d = head - e
          BY <1>1, <4>1
        <5>2. head' = x % HeadW
          BY <2>1
        <5> HIDE DEF x, e
        <5>3. ((x % HeadW) - d) % Slots = (x - d) % Slots
          BY <4>1, <5>1, SlotOfHead
        <5> QED BY <5>1, <5>2, <5>3
      <4>3. ByteBits * e = ByteBits * d - ByteBits /\ ByteBits * d \in Int /\ ByteBits * e \in Int
        BY <4>1, ByteSums
      <4>4. DOMAIN slot = 0 .. Slots - 1 /\ head % Slots \in 0 .. Slots - 1
        BY <1>1, Divides, ClockedTypes
      <4>5. CASE e = 0
        <5>1. (head' - d) % Slots = head % Slots
          BY <1>1, <4>2, <4>5
        <5>2. slot'[(head' - d) % Slots] = bit + 2 - ByteBits
          BY <2>1, <4>4, <5>1
        <5>3. ByteBits * d = ByteBits
          BY <1>1, <4>1, <4>5
        <5> QED BY <1>1, <2>1, <5>2, <5>3
      <4>6. CASE e # 0
        <5>1. 0 < e /\ e < Slots /\ e \in 1 .. Ahead /\ e <= Slots
          BY <1>1, <3>3, <4>1, <4>6
        <5> HIDE DEF e
        <5>2. (head - e) % Slots # head % Slots
          BY <1>1, <4>1, <5>1, SlotsDiffer
        <5>3. (head - e) % Slots \in 0 .. Slots - 1
          <6>1. head - e \in Int
            BY <1>1, <4>1
          <6> QED BY <1>1, <6>1, Divides
        <5>4. slot'[(head - e) % Slots] = slot[(head - e) % Slots]
          BY <2>1, <4>4, <5>2, <5>3
        <5>5. slot[(head - e) % Slots] = bit - accN - ByteBits * e + 1
          BY <3>1, <5>1
        <5> DEFINE u == ByteBits * e
                   v == ByteBits * d
        <5>6. /\ u \in Int /\ v \in Int /\ u = v - ByteBits
              /\ slot[(head - e) % Slots] = bit - accN - u + 1
          BY <4>3, <5>5
        <5>7. bit' - accN' - v + 1 = bit - accN - u + 1
          <6> HIDE DEF u, v
          <6> QED BY <1>1, <2>1, <2>3, <5>6
        <5> QED BY <4>2, <5>4, <5>6, <5>7
      <4> QED BY <4>5, <4>6
    <3>4. Passed' >= 0
      BY <2>4, <3>1
    <3> QED BY <3>2, <3>3, <3>4 DEF SlotsHold
  <2>6. ASSUME ~Running PROVE SlotsHold'
    BY <1>2, <2>6 DEF SlotsHold
  <2> QED BY <1>1, <1>2, <2>2, <2>4, <2>5, <2>6
<1> QED BY <1>3, <1>4

\* The drain level with a sampler that has just been started.
LEMMA EmptyHolds ==
  ASSUME TypeOK, TypeOK', head' \in Int, tail' = head'
  PROVE  SlotsHold' /\ Ahead' = 0 /\ Passed' = bit' - accN'
<1>1. Ahead' = 0
  <2>1. Ahead' = (head' - head') % HeadW
    BY DEF Ahead
  <2> QED BY <2>1, NothingAhead
<1>2. bit' \in Int /\ accN' \in Int /\ accN' <= bit'
  BY ClockedSizes DEF TypeOK
<1>3. Passed' = bit' - accN' - ByteBits * 0 /\ ByteBits * 0 = 0
  BY <1>1, ClockedSizes DEF Passed
<1>4. Passed' = bit' - accN' /\ Passed' >= 0
  BY <1>2, <1>3
<1>5. Ahead' <= Slots + Late /\ 1 .. Ahead' = {}
  BY <1>1, ClockedSizes
<1> QED BY <1>1, <1>4, <1>5 DEF SlotsHold

------------------------------------------------------------------------------
\* The rest of the invariant, action by action.

Steady == SlotsHold /\ CallInStep /\ BitsInStep /\ RecordsHonest /\ SilenceKept

\* Where the burst ends, for a drain that has nothing left to take.
LEMMA BurstUpToDrain ==
  ASSUME TypeOK, BitsInStep, Running, ~excused, pc # "restart"
  PROVE  /\ Ordered(buf, lastBit) /\ (Seamless(buf, lastBit) \/ Flagged)
         /\ End(buf, lastBit) \in Int /\ End(buf, lastBit) <= Passed
         /\ lastBit <= End(buf, lastBit)
         /\ End(buf, lastBit) # Passed => Flagged
         /\ buf # <<>> => lastBit < Last(buf[Len(buf)])
         /\ buf # <<>> /\ ~Draining => Last(buf[Len(buf)]) = Passed
         /\ buf = <<>> => lastBit = Passed \/ (lastBit < Passed /\ Flagged)
<1>1. Passed \in Int /\ lastBit \in Int
  BY PassedType, ClockedTypes
<1>2. CASE buf = <<>>
  BY <1>1, <1>2 DEF BitsInStep, End
<1>3. CASE buf # <<>>
  <2>1. Last(buf[Len(buf)]) \in Int
    BY <1>3, BurstEnd
  <2>2. /\ lastBit < Last(buf[Len(buf)])
        /\ \/ Last(buf[Len(buf)]) = Passed
           \/ Last(buf[Len(buf)]) < Passed /\ Draining /\ ovfPioc
    BY <1>3 DEF BitsInStep
  <2>3. Ordered(buf, lastBit) /\ (Seamless(buf, lastBit) \/ Flagged)
    BY DEF BitsInStep
  <2> QED BY <1>1, <1>3, <2>1, <2>2, <2>3 DEF End, Flagged
<1> QED BY <1>2, <1>3

\* An empty burst.
LEMMA NothingInBurst ==
  ASSUME buf' = <<>>, ~excused' /\ Running' =>
           IF pc' = "restart" THEN ~moved' => lastBit' = bit' \/ (lastBit' < bit' /\ Flagged')
           ELSE lastBit' = Passed' \/ (lastBit' < Passed' /\ Flagged')
  PROVE  BitsInStep'
<1>1. DOMAIN buf' = {}
  BY EmptySeq
<1>2. Ordered(buf', lastBit') /\ Seamless(buf', lastBit')
  BY NoChunks
<1>3. Ordered(buf, lastBit)' /\ Seamless(buf, lastBit)'
  BY <1>2 DEF Ordered, Seamless, Last
<1> QED BY <1>1, <1>3 DEF BitsInStep

LEMMA SampleAhead ==
  ASSUME TypeOK, Sample
  PROVE  /\ ~excused' => ~excused
         /\ Draining /\ ~excused' /\ Ahead <= Slots => Ahead' <= Slots
<1>1. Ahead \in Int /\ Slots \in Int
  BY AheadType, ClockedSizes
<1>2. CASE accN + 1 < ByteBits
  <2>1. head' = head /\ tail' = tail /\ excused' = excused
    BY <1>2 DEF Sample
  <2> QED BY <2>1 DEF Ahead
<1>3. CASE ~(accN + 1 < ByteBits)
  <2>1. /\ head' = (head + 1) % HeadW /\ tail' = tail /\ Ahead < Slots + Late
        /\ excused' = (excused \/ (Draining /\ Ahead >= Slots))
    BY <1>3 DEF Sample
  <2>2. Ahead' = Ahead + 1
    BY <2>1, HeadSteps
  <2>3. ~excused' => ~excused /\ ~(Draining /\ Ahead >= Slots)
    BY <2>1, Zenon
  <2>4. ~(Ahead >= Slots) => Ahead' <= Slots
    BY <1>1, <2>2
  <2> QED BY <2>3, <2>4
<1> QED BY <1>2, <1>3

LEMMA SampleSteady ==
  ASSUME TypeOK, Steady, Sample
  PROVE  Steady'
<1>1. /\ SlotsHold /\ CallInStep /\ BitsInStep /\ RecordsHonest /\ SilenceKept
  BY DEF Steady
<1>2. /\ SlotsHold' /\ Passed' = Passed /\ (Running => Ahead' >= Ahead /\ Ahead' \in Int)
      /\ Running' = Running
  BY <1>1, SampleKeepsSlots
<1>3. /\ ~excused' => ~excused
      /\ Draining /\ ~excused' /\ Ahead <= Slots => Ahead' <= Slots
  BY SampleAhead
<1>4. /\ bit' = bit + 1 /\ settled' = FALSE /\ moved' = (pc \notin {"idle", "loading"})
      /\ UNCHANGED <<tail, pc, snapshots, burst, output, watched, clock>>
  BY DEF Sample
<1>5. /\ tail' = tail /\ pc' = pc /\ h' = h /\ kbits' = kbits /\ kfirst' = kfirst /\ got' = got
      /\ long' = long /\ open' = open /\ buf' = buf /\ rec' = rec /\ lastBit' = lastBit
      /\ needTerminal' = needTerminal /\ ovfPioc' = ovfPioc /\ ovfRam' = ovfRam
  BY <1>4 DEF snapshots, burst, output
<1>6. bit \in Int /\ kfirst \in Int /\ kbits \in Int /\ Ahead \in Int
      /\ (h - tail) % HeadW \in Int
  <2>1. HeadW \in Nat \ {0} /\ h - tail \in Int
    BY ClockedSizes, ClockedTypes
  <2>2. (h - tail) % HeadW \in Int
    BY <2>1, Divides
  <2> QED BY <2>2, ClockedTypes, AheadType
<1>7. Draining' = Draining
  BY <1>5 DEF Draining
<1>8. CallInStep'
  <2>1. ~Running' => ~open' /\ ~settled'
    BY <1>1, <1>2, <1>4, <1>5 DEF CallInStep
  <2>2. pc' = "drain" => (h' - tail') % HeadW <= Ahead' /\ (Draining' /\ ~excused' => Ahead' <= Slots)
    <3> SUFFICES ASSUME pc = "drain"
                 PROVE  (h - tail) % HeadW <= Ahead' /\ (Draining /\ ~excused' => Ahead' <= Slots)
      BY <1>5, <1>7
    <3>1. (h - tail) % HeadW <= Ahead /\ (Draining /\ ~excused => Ahead <= Slots) /\ Running
      BY <1>1 DEF CallInStep, Running
    <3> QED BY <1>2, <1>3, <1>6, <3>1
  <2>3. ~(pc' \in {"drain", "finalize"} /\ ~moved')
    BY <1>4, <1>5
  <2>4. pc' = "finalize" => tail' = h' /\ 1 <= kfirst' /\ kfirst' + kbits' - 1 <= bit' /\ moved'
    <3> SUFFICES ASSUME pc = "finalize"
                 PROVE  tail = h /\ 1 <= kfirst /\ kfirst + kbits - 1 <= bit + 1
      BY <1>4, <1>5
    <3>1. tail = h /\ 1 <= kfirst /\ kfirst + kbits - 1 <= bit
      BY <1>1 DEF CallInStep
    <3> QED BY <1>6, <3>1
  <2> QED BY <2>1, <2>2, <2>3, <2>4 DEF CallInStep
<1>9. BitsInStep'
  <2>1. \A k \in DOMAIN buf' : 1 <= buf'[k].n /\ Last(buf[k])' <= bit'
    <3> SUFFICES ASSUME NEW k \in DOMAIN buf PROVE 1 <= buf[k].n /\ Last(buf[k]) <= bit + 1
      BY <1>4, <1>5 DEF Last
    <3>1. 1 <= buf[k].n /\ Last(buf[k]) <= bit
      BY <1>1 DEF BitsInStep
    <3>2. buf[k] \in Chunks
      BY ClockedTypes, ElementOfSeq
    <3>3. Last(buf[k]) \in Int
      BY <3>2 DEF Chunks, Last
    <3> QED BY <1>6, <3>1, <3>3
  <2>2. pc' = "restart" => moved'
    BY <1>4, <1>5
  <2>3. ASSUME Running', ~excused'
        PROVE  /\ Ordered(buf, lastBit)' /\ (Seamless(buf, lastBit)' \/ Flagged')
               /\ pc' = "restart" => buf' = <<>>
               /\ pc' # "restart" => IF buf' = <<>> THEN lastBit' = Passed' \/ (lastBit' < Passed' /\ Flagged')
                                     ELSE LET end == Last(buf[Len(buf)])' IN
                                          lastBit' < end /\ (end = Passed' \/ (end < Passed' /\ Draining' /\ ovfPioc'))
    <3>1. Running /\ ~excused
      BY <1>2, <1>3, <2>3
    <3>2. /\ Ordered(buf, lastBit) /\ (Seamless(buf, lastBit) \/ Flagged)
          /\ pc = "restart" => buf = <<>>
          /\ pc # "restart" => IF buf = <<>> THEN lastBit = Passed \/ (lastBit < Passed /\ Flagged)
                               ELSE LET end == Last(buf[Len(buf)]) IN
                                    lastBit < end /\ (end = Passed \/ (end < Passed /\ Draining /\ ovfPioc))
      BY <1>1, <3>1 DEF BitsInStep
    <3>3. /\ Ordered(buf, lastBit)' = Ordered(buf, lastBit)
          /\ Seamless(buf, lastBit)' = Seamless(buf, lastBit)
          /\ Flagged' = Flagged /\ Last(buf[Len(buf)])' = Last(buf[Len(buf)])
      BY <1>5 DEF Ordered, Seamless, Flagged, Last
    <3> QED BY <1>2, <1>5, <1>7, <3>2, <3>3
  <2> QED BY <2>1, <2>2, <2>3 DEF BitsInStep
<1>10. RecordsHonest'
  BY <1>1, <1>3, <1>5 DEF RecordsHonest
<1>11. SilenceKept'
  BY <1>1, <1>2, <1>4, <1>5 DEF SilenceKept
<1> QED BY <1>2, <1>8, <1>9, <1>10, <1>11 DEF Steady

\* The clock alone.
LEMMA ClockSteady ==
  ASSUME TypeOK, Steady,
         UNCHANGED <<sampler, tail, pc, snapshots, burst, output, watched, moved, settled, excused>>,
         pc = "idle" \/ UNCHANGED clock
  PROVE  Steady'
<1>1. /\ bit' = bit /\ accN' = accN /\ head' = head /\ slot' = slot
      /\ tail' = tail /\ pc' = pc /\ h' = h /\ kbits' = kbits /\ kfirst' = kfirst /\ got' = got
      /\ long' = long /\ open' = open /\ buf' = buf /\ rec' = rec /\ lastBit' = lastBit
      /\ needTerminal' = needTerminal /\ ovfPioc' = ovfPioc /\ ovfRam' = ovfRam
      /\ watched' = watched /\ moved' = moved /\ settled' = settled /\ excused' = excused
      /\ (pc = "idle" \/ (sniffOld' = sniffOld /\ partialOld' = partialOld))
  BY DEF sampler, snapshots, burst, output, clock
<1>2. Ahead' = Ahead /\ Running' = Running /\ Draining' = Draining /\ Flagged' = Flagged
  BY <1>1 DEF Ahead, Running, Draining, Flagged
<1>3. Passed' = Passed
  BY <1>1, <1>2 DEF Passed
<1>4. SlotsHold'
  BY <1>1, <1>2, <1>3 DEF Steady, SlotsHold
<1>5. CallInStep'
  BY <1>1, <1>2 DEF Steady, CallInStep
<1>6. BitsInStep'
  BY <1>1, <1>2, <1>3 DEF Steady, BitsInStep, Ordered, Seamless, Last
<1>7. RecordsHonest'
  BY <1>1 DEF Steady, RecordsHonest
<1>8. Closed' = Closed
  BY <1>1 DEF Closed
<1>9. SilenceKept'
  BY <1>1, <1>2, <1>8 DEF Steady, SilenceKept
<1> QED BY <1>4, <1>5, <1>6, <1>7, <1>9 DEF Steady

LEMMA ServiceBeginSteady ==
  ASSUME TypeOK, Steady, ServiceBegin
  PROVE  Steady'
<1>1. /\ SlotsHold /\ CallInStep /\ BitsInStep /\ RecordsHonest /\ SilenceKept /\ Running
  BY DEF Steady, ServiceBegin, Running
<1>2. /\ pc = "idle" /\ pc' = "drain" /\ h' = head /\ got' = FALSE /\ moved' = FALSE
      /\ ovfPioc' = (ovfPioc \/ Ahead > Slots)
      /\ tail' = (IF Ahead > Slots THEN (head - Slots) % HeadW ELSE tail)
      /\ long' = (sniffOld /\ tail = head /\ (accN = 0 \/ (watched /\ partialOld)))
      /\ bit' = bit /\ accN' = accN /\ head' = head /\ slot' = slot
      /\ open' = open /\ buf' = buf /\ rec' = rec /\ lastBit' = lastBit
      /\ needTerminal' = needTerminal /\ ovfRam' = ovfRam /\ watched' = watched
      /\ sniffOld' = sniffOld /\ partialOld' = partialOld /\ settled' = settled /\ excused' = excused
      /\ UNCHANGED sampler
  BY DEF ServiceBegin, sampler, burst, clock
<1>3. /\ Ahead \in Int /\ 0 <= Ahead /\ Slots \in Int /\ 1 <= Slots /\ Passed \in Int
      /\ lastBit \in Int
  BY AheadType, ClockedSizes, PassedType, ClockedTypes
<1>4. Ahead' = (IF Ahead > Slots THEN Slots ELSE Ahead)
  <2>1. CASE Ahead > Slots
    BY <1>2, <2>1, TailCatches
  <2>2. CASE ~(Ahead > Slots)
    BY <1>2, <2>2 DEF Ahead
  <2> QED BY <2>1, <2>2
<1>5. Ahead' \in Int /\ 0 <= Ahead' /\ Ahead' <= Ahead /\ Ahead' <= Slots
  BY <1>3, <1>4
<1>6. SlotsHold' /\ Passed' >= Passed /\ Passed' = bit - accN - ByteBits * Ahead'
  BY <1>1, <1>2, <1>5, FewerAhead
<1>7. Passed' \in Int
  <2>1. ByteBits * Ahead' \in Int
    BY <1>5, ByteSums
  <2> QED BY <1>6, <2>1, ClockedTypes
<1>8. Ahead <= Slots => Passed' = Passed /\ tail' = tail
  BY <1>2, <1>3, <1>4, <1>6 DEF Passed
<1>9. Ahead > Slots => ovfPioc' = TRUE /\ Draining'
  <2> SUFFICES ASSUME Ahead > Slots PROVE ovfPioc' = TRUE /\ Draining'
    OBVIOUS
  <2>1. tail' # head'
    <3> SUFFICES ASSUME tail' = head' PROVE FALSE
      OBVIOUS
    <3>1. Ahead' = (head' - head') % HeadW
      BY DEF Ahead
    <3>2. Ahead' = 0
      BY <1>2, <3>1, ClockedTypes, NothingAhead
    <3> QED BY <1>3, <1>4, <3>2
  <2> QED BY <1>2, <2>1 DEF Draining
<1>10. CallInStep'
  <2>1. Running'
    BY <1>2 DEF Running
  <2>2. (h' - tail') % HeadW = Ahead'
    BY <1>2 DEF Ahead
  <2> QED BY <1>2, <1>5, <2>1, <2>2 DEF CallInStep
<1>11. BitsInStep'
  <2>1. \A k \in DOMAIN buf' : 1 <= buf'[k].n /\ Last(buf[k])' <= bit'
    BY <1>1, <1>2 DEF BitsInStep, Last
  <2>2. ASSUME ~excused'
        PROVE  /\ Ordered(buf, lastBit)' /\ (Seamless(buf, lastBit)' \/ Flagged')
               /\ IF buf' = <<>> THEN lastBit' = Passed' \/ (lastBit' < Passed' /\ Flagged')
                  ELSE LET end == Last(buf[Len(buf)])' IN
                       lastBit' < end /\ (end = Passed' \/ (end < Passed' /\ Draining' /\ ovfPioc'))
    <3>1. ~excused /\ pc # "restart" /\ ~Draining
      BY <1>2, <2>2 DEF Draining
    <3>2. /\ Ordered(buf, lastBit) /\ (Seamless(buf, lastBit) \/ Flagged)
          /\ buf # <<>> => lastBit < Last(buf[Len(buf)]) /\ Last(buf[Len(buf)]) = Passed
          /\ buf = <<>> => lastBit = Passed \/ (lastBit < Passed /\ Flagged)
      BY <1>1, <3>1, BurstUpToDrain
    <3>3. /\ Ordered(buf, lastBit)' = Ordered(buf, lastBit)
          /\ Seamless(buf, lastBit)' = Seamless(buf, lastBit)
          /\ Last(buf[Len(buf)])' = Last(buf[Len(buf)]) /\ (Flagged => Flagged')
      BY <1>2 DEF Ordered, Seamless, Flagged, Last
    <3>4. CASE Ahead <= Slots
      BY <1>2, <1>8, <3>2, <3>3, <3>4
    <3>5. CASE ~(Ahead <= Slots)
      <4>1. Flagged' /\ Draining' /\ ovfPioc'
        BY <1>3, <1>9, <3>5 DEF Flagged
      <4>2. ASSUME buf # <<>> PROVE Last(buf[Len(buf)]) = Passed' \/ Last(buf[Len(buf)]) < Passed'
        BY <1>3, <1>6, <1>7, <3>2, <4>2
      <4>3. ASSUME buf = <<>> PROVE lastBit = Passed' \/ lastBit < Passed'
        BY <1>3, <1>6, <1>7, <3>2, <4>3
      <4> QED BY <1>2, <3>2, <3>3, <4>1, <4>2, <4>3
    <3> QED BY <3>4, <3>5
  <2> QED BY <1>2, <2>1, <2>2 DEF BitsInStep
<1>12. RecordsHonest'
  BY <1>1, <1>2 DEF RecordsHonest
<1>13. tail = head => tail' = tail
  <2> SUFFICES ASSUME tail = head PROVE Ahead <= Slots
    BY <1>8
  <2> QED BY <1>3, NoneWaiting
<1>14. SilenceKept'
  <2>1. rec'.continued => needTerminal'
    BY <1>1, <1>2 DEF SilenceKept
  <2>2. settled' => ~moved' /\ Closed' /\ tail' = head'
    BY <1>1, <1>2, <1>13 DEF SilenceKept, Closed
  <2>3. long' => tail' = h' /\ ~got' /\ sniffOld' /\ (accN' = 0 \/ (watched' /\ partialOld'))
    BY <1>2, <1>13
  <2> QED BY <1>2, <2>1, <2>2, <2>3 DEF SilenceKept
<1> QED BY <1>6, <1>10, <1>11, <1>12, <1>14 DEF Steady

LEMMA DrainByteSteady ==
  ASSUME TypeOK, Steady, DrainByte
  PROVE  Steady'
<1> DEFINE s == slot[tail % Slots]
           grown == Append(buf, [first |-> s, n |-> ByteBits])
<1>1. /\ SlotsHold /\ CallInStep /\ BitsInStep /\ RecordsHonest /\ SilenceKept
      /\ Draining /\ pc = "drain" /\ tail # h /\ Running
  BY DEF Steady, DrainByte, Draining, Running
<1>2. /\ grown \in Seq(Chunks) /\ Len(grown) = Len(buf) + 1 /\ Len(grown) \in Nat /\ grown # <<>>
      /\ Last(grown[Len(grown)]) = s + ByteBits - 1
      /\ ~excused => s = Passed + 1
      /\ \A k \in DOMAIN grown : 1 <= grown[k].n /\ Last(grown[k]) <= bit
      /\ Ordered(buf, lastBit) /\ s > End(buf, lastBit) => Ordered(grown, lastBit)
      /\ Seamless(buf, lastBit) /\ s = End(buf, lastBit) + 1 => Seamless(grown, lastBit)
  BY <1>1, DrainGrows
<1>3. /\ tail' = (tail + 1) % HeadW /\ pc' = pc /\ h' = h /\ long' = long /\ moved' = moved
      /\ settled' = settled /\ excused' = excused /\ UNCHANGED sampler
      /\ bit' = bit /\ accN' = accN /\ head' = head
      /\ IF Full(grown) THEN Emit(grown, TRUE)
         ELSE open' = TRUE /\ buf' = grown /\ UNCHANGED <<aged, output>>
  BY DEF DrainByte, sampler
<1> HIDE DEF grown
<1>4. (h - tail) % HeadW <= Ahead /\ (~excused => Ahead <= Slots)
  BY <1>1 DEF CallInStep
<1>5. Ahead >= 1 /\ Ahead' = Ahead - 1 /\ tail' \in 0 .. HeadW - 1 /\ (h' - tail') % HeadW <= Ahead'
  BY <1>1, <1>3, <1>4, TailSteps
<1>6. Ahead \in Int /\ Passed \in Int /\ lastBit \in Int /\ ByteBits \in Int /\ 1 <= ByteBits
      /\ Slots \in Int /\ bit \in Int /\ accN \in Int
  BY AheadType, PassedType, ClockedTypes, ClockedSizes
<1>7. SlotsHold' /\ Passed' = bit - accN - ByteBits * Ahead'
  <2>1. Ahead' \in Int /\ 0 <= Ahead' /\ Ahead' <= Ahead
    BY <1>5, <1>6
  <2> QED BY <1>1, <1>3, <2>1, FewerAhead
<1>8. Passed' = Passed + ByteBits
  <2> DEFINE u == ByteBits * Ahead
             v == ByteBits * (Ahead - 1)
  <2>1. u \in Int /\ v = u - ByteBits /\ Passed' = bit - accN - v /\ Passed = bit - accN - u
    BY <1>5, <1>6, <1>7, ByteSums DEF Passed
  <2> HIDE DEF u, v
  <2> QED BY <1>6, <2>1
<1>9. ~(~moved /\ tail = head)
  BY <1>1 DEF CallInStep
<1>10. CallInStep'
  <2>1. Running'
    BY <1>1, <1>3 DEF Running
  <2>2. ~excused' => Ahead' <= Slots
    BY <1>3, <1>4, <1>5, <1>6
  <2>3. ~moved' => h' = head'
    BY <1>1, <1>3 DEF CallInStep
  <2> QED BY <1>1, <1>3, <1>5, <2>1, <2>2, <2>3 DEF CallInStep
<1>11. ASSUME ~excused
       PROVE  /\ Ordered(grown, lastBit) /\ (Seamless(grown, lastBit) \/ Flagged)
              /\ Last(grown[Len(grown)]) = Passed' /\ lastBit < Passed'
  <2>1. /\ Ordered(buf, lastBit) /\ (Seamless(buf, lastBit) \/ Flagged)
        /\ End(buf, lastBit) \in Int /\ End(buf, lastBit) <= Passed
        /\ lastBit <= End(buf, lastBit)
        /\ End(buf, lastBit) # Passed => Flagged
    BY <1>1, <1>11, BurstUpToDrain
  <2>2. s = Passed + 1
    BY <1>2, <1>11
  <2>3. s > End(buf, lastBit) /\ (End(buf, lastBit) = Passed => s = End(buf, lastBit) + 1)
    BY <1>6, <2>1, <2>2
  <2>4. Last(grown[Len(grown)]) = Passed' /\ lastBit < Passed'
    BY <1>2, <1>6, <1>8, <2>1, <2>2
  <2> QED BY <1>2, <2>1, <2>3, <2>4
<1>12. CASE Full(grown)
  <2>1. Emit(grown, TRUE) /\ TRUE \in BOOLEAN
    BY <1>3, <1>12
  <2>2. buf' = <<>> /\ open' = FALSE
    BY <2>1 DEF Emit
  <2>3. ASSUME ~excused PROVE lastBit' = Passed' \/ (lastBit' < Passed' /\ Flagged')
    <3>1. /\ Last(grown[Len(grown)]) = Passed' /\ lastBit < Passed' /\ Passed' \in Int
      BY <1>6, <1>8, <1>11, <2>3
    <3> QED BY <1>2, <2>1, <3>1, EmitInStep
  <2>4. BitsInStep'
    BY <1>1, <1>3, <2>2, <2>3, NothingInBurst
  <2>5. RecordsHonest'
    <3> SUFFICES ASSUME ~excused PROVE rec'.gap # "disorder" /\ (rec'.gap # "none" => rec'.flagged)
      BY <1>3 DEF RecordsHonest
    <3>1. rec.gap # "disorder" /\ (rec.gap # "none" => rec.flagged)
      BY <1>1 DEF RecordsHonest
    <3> QED BY <1>2, <1>11, <2>1, <3>1, EmitHonest
  <2>6. rec'.continued => needTerminal'
    <3>1. rec.continued => needTerminal
      BY <1>1 DEF SilenceKept
    <3> QED BY <2>1, <3>1, EmitTerminal
  <2> QED BY <2>4, <2>5, <2>6, <1>1, <1>3, <1>7, <1>9, <1>10 DEF Steady, SilenceKept, CallInStep
<1>13. CASE ~Full(grown)
  <2>1. /\ open' = TRUE /\ buf' = grown /\ rec' = rec /\ lastBit' = lastBit
        /\ needTerminal' = needTerminal /\ ovfPioc' = ovfPioc /\ ovfRam' = ovfRam
    BY <1>3, <1>13 DEF output
  <2>2. BitsInStep'
    <3>1. \A k \in DOMAIN buf' : 1 <= buf'[k].n /\ Last(buf[k])' <= bit'
      BY <1>2, <1>3, <2>1 DEF Last
    <3>2. ASSUME ~excused'
          PROVE  /\ Ordered(buf, lastBit)' /\ (Seamless(buf, lastBit)' \/ Flagged')
                 /\ lastBit' < Last(buf[Len(buf)])' /\ Last(buf[Len(buf)])' = Passed'
      <4>1. /\ Ordered(buf, lastBit)' = Ordered(grown, lastBit)
            /\ Seamless(buf, lastBit)' = Seamless(grown, lastBit)
            /\ Flagged' = Flagged /\ Last(buf[Len(buf)])' = Last(grown[Len(grown)])
        BY <2>1 DEF Ordered, Seamless, Flagged, Last
      <4> QED BY <1>3, <1>11, <2>1, <3>2, <4>1
    <3> QED BY <1>1, <1>2, <1>3, <2>1, <3>1, <3>2 DEF BitsInStep
  <2>3. RecordsHonest'
    BY <1>1, <1>3, <2>1 DEF RecordsHonest
  <2>4. rec'.continued => needTerminal'
    BY <1>1, <2>1 DEF SilenceKept
  <2> QED BY <2>2, <2>3, <2>4, <1>1, <1>3, <1>7, <1>9, <1>10 DEF Steady, SilenceKept, CallInStep
<1> QED BY <1>12, <1>13

LEMMA ReadAccSteady ==
  ASSUME TypeOK, Steady, ReadAcc
  PROVE  Steady'
<1>1. /\ SlotsHold /\ CallInStep /\ BitsInStep /\ RecordsHonest /\ SilenceKept
      /\ pc = "drain" /\ tail = h /\ Running /\ ~Draining
  BY DEF Steady, ReadAcc, Draining, Running
<1>2. /\ bit' = bit /\ accN' = accN /\ head' = head /\ slot' = slot
      /\ tail' = tail /\ pc' = "finalize" /\ h' = h /\ kbits' = accN /\ kfirst' = bit - accN + 1
      /\ long' = long /\ open' = open /\ buf' = buf /\ rec' = rec /\ lastBit' = lastBit
      /\ needTerminal' = needTerminal /\ ovfPioc' = ovfPioc /\ ovfRam' = ovfRam
      /\ moved' = moved /\ settled' = settled /\ excused' = excused
      /\ sniffOld' = (sniffOld /\ ~got) /\ partialOld' = (partialOld /\ watched /\ accN > 0)
  BY DEF ReadAcc, sampler, burst, output
<1>3. Ahead' = Ahead /\ Running' /\ Running' = Running /\ Flagged' = Flagged
  BY <1>1, <1>2 DEF Ahead, Running, Flagged
<1>4. Passed' = Passed
  BY <1>2, <1>3 DEF Passed
<1>5. SlotsHold'
  BY <1>1, <1>2, <1>3, <1>4 DEF SlotsHold
<1>6. CallInStep'
  <2>1. 1 <= kfirst' /\ kfirst' + kbits' - 1 <= bit'
    BY <1>2, ClockedTypes, SMTT(20)
  <2> QED BY <1>1, <1>2, <1>3, <2>1 DEF CallInStep
<1>7. BitsInStep'
  <2>1. \A k \in DOMAIN buf' : 1 <= buf'[k].n /\ Last(buf[k])' <= bit'
    BY <1>1, <1>2 DEF BitsInStep, Last
  <2>2. ASSUME ~excused'
        PROVE  /\ Ordered(buf, lastBit)' /\ (Seamless(buf, lastBit)' \/ Flagged')
               /\ IF buf' = <<>> THEN lastBit' = Passed' \/ (lastBit' < Passed' /\ Flagged')
                  ELSE lastBit' < Last(buf[Len(buf)])' /\ Last(buf[Len(buf)])' = Passed'
    <3>1. ~excused /\ pc # "restart"
      BY <1>1, <1>2, <2>2
    <3>2. /\ Ordered(buf, lastBit) /\ (Seamless(buf, lastBit) \/ Flagged)
          /\ buf # <<>> => lastBit < Last(buf[Len(buf)]) /\ Last(buf[Len(buf)]) = Passed
          /\ buf = <<>> => lastBit = Passed \/ (lastBit < Passed /\ Flagged)
      BY <1>1, <3>1, BurstUpToDrain
    <3>3. /\ Ordered(buf, lastBit)' = Ordered(buf, lastBit)
          /\ Seamless(buf, lastBit)' = Seamless(buf, lastBit)
          /\ Last(buf[Len(buf)])' = Last(buf[Len(buf)])
      BY <1>2 DEF Ordered, Seamless, Last
    <3> QED BY <1>2, <1>3, <1>4, <3>2, <3>3
  <2> QED BY <1>2, <2>1, <2>2 DEF BitsInStep
<1>8. RecordsHonest'
  BY <1>1, <1>2 DEF RecordsHonest
<1>9. SilenceKept'
  <2>1. Closed' = Closed
    BY <1>2 DEF Closed
  <2>2. accN = 0 \/ accN > 0
    BY ClockedTypes
  <2> QED BY <1>1, <1>2, <1>3, <2>1, <2>2 DEF SilenceKept
<1> QED BY <1>5, <1>6, <1>7, <1>8, <1>9 DEF Steady

\* A record on the way out: what of the invariant emitRecord() alone decides.
LEMMA EmittedSteady ==
  ASSUME TypeOK, BitsInStep, RecordsHonest, SilenceKept, Running, NEW b \in Seq(Chunks),
         Emit(b, FALSE), ~excused' => ~excused,
         ~excused' => Ordered(b, lastBit) /\ (Seamless(b, lastBit) \/ Flagged)
  PROVE  /\ RecordsHonest' /\ open' = FALSE /\ buf' = <<>>
         /\ rec'.continued => needTerminal'
         /\ rec'.continued => ovfRam'
<1>1. RecordsHonest'
  <2> SUFFICES ASSUME ~excused' PROVE rec'.gap # "disorder" /\ (rec'.gap # "none" => rec'.flagged)
    BY DEF RecordsHonest
  <2>1. rec.gap # "disorder" /\ (rec.gap # "none" => rec.flagged)
    BY DEF RecordsHonest
  <2> QED BY <2>1, EmitHonest
<1>2. rec.continued => needTerminal
  BY DEF SilenceKept
<1>3. FALSE \in BOOLEAN
  OBVIOUS
<1> QED BY <1>1, <1>2, <1>3, EmitTerminal DEF Emit

LEMMA FinalizeIdleSteady ==
  ASSUME TypeOK, Steady, FinalizeIdle
  PROVE  Steady'
<1> DEFINE b == buf \o Partial
<1>1. /\ SlotsHold /\ CallInStep /\ BitsInStep /\ RecordsHonest /\ SilenceKept
      /\ pc = "finalize" /\ Running /\ ~Draining /\ tail = h
  BY DEF Steady, FinalizeIdle, Draining, Running, CallInStep
<1>2. /\ b \in Seq(Chunks)
      /\ kbits = 0 => b = buf
      /\ kbits > 0 => /\ b # <<>> /\ Last(b[Len(b)]) = kfirst + kbits - 1
                      /\ Ordered(buf, lastBit) /\ kfirst > End(buf, lastBit) => Ordered(b, lastBit)
                      /\ Seamless(buf, lastBit) /\ kfirst = End(buf, lastBit) + 1
                           => Seamless(b, lastBit)
  BY <1>1, FlushGrows
<1>3. /\ Emit(b, FALSE) /\ pc' = (IF kbits > 0 THEN "restart" ELSE "ship")
      /\ excused' = (excused \/ (kbits > 0 /\ moved))
      /\ bit' = bit /\ accN' = accN /\ head' = head /\ slot' = slot /\ tail' = tail
      /\ h' = h /\ kbits' = kbits /\ kfirst' = kfirst /\ long' = long
      /\ moved' = moved /\ settled' = settled
  BY DEF FinalizeIdle, sampler, snapshots
<1> HIDE DEF b
<1>4. kbits \in Int /\ 0 <= kbits /\ bit \in Int /\ accN \in Int /\ kfirst \in Int /\ Passed \in Int
      /\ lastBit \in Int
  BY ClockedTypes, PassedType
<1>5. Ahead' = Ahead /\ Running' /\ (~excused' => ~excused) /\ (kbits > 0 /\ ~excused' => ~moved)
  BY <1>3, <1>4 DEF Ahead, Running
<1>6. Passed' = Passed
  BY <1>3, <1>5 DEF Passed
<1>7. SlotsHold'
  BY <1>1, <1>3, <1>5, <1>6 DEF SlotsHold
<1>8. CallInStep'
  BY <1>3, <1>5 DEF CallInStep, Draining
<1>9. ASSUME ~moved PROVE kbits = accN /\ kfirst = bit - accN + 1 /\ tail = head
  BY <1>1, <1>9 DEF CallInStep
<1>10. ASSUME ~excused'
       PROVE  /\ Ordered(b, lastBit) /\ (Seamless(b, lastBit) \/ Flagged)
              /\ b = <<>> => lastBit = Passed \/ (lastBit < Passed /\ Flagged)
              /\ kbits = 0 /\ b # <<>> => Last(b[Len(b)]) = Passed /\ lastBit < Passed
              /\ kbits > 0 => b # <<>> /\ Last(b[Len(b)]) = bit /\ lastBit < bit
  <2>1. /\ Ordered(buf, lastBit) /\ (Seamless(buf, lastBit) \/ Flagged)
        /\ End(buf, lastBit) \in Int /\ End(buf, lastBit) <= Passed
        /\ lastBit <= End(buf, lastBit)
        /\ End(buf, lastBit) # Passed => Flagged
        /\ buf # <<>> => lastBit < Last(buf[Len(buf)]) /\ Last(buf[Len(buf)]) = Passed
        /\ buf = <<>> => lastBit = Passed \/ (lastBit < Passed /\ Flagged)
    BY <1>1, <1>5, <1>10, BurstUpToDrain
  <2>2. CASE kbits = 0
    BY <1>2, <2>1, <2>2
  <2>3. CASE kbits > 0
    <3>1. kbits = accN /\ kfirst = bit - accN + 1 /\ tail = head
      BY <1>5, <1>9, <1>10, <2>3
    <3>2. Passed = bit - accN
      BY <3>1, PassedAll
    <3>3. kfirst > End(buf, lastBit) /\ (End(buf, lastBit) = Passed => kfirst = End(buf, lastBit) + 1)
          /\ kfirst + kbits - 1 = bit /\ lastBit < bit
      BY <1>4, <2>1, <2>3, <3>1, <3>2
    <3> QED BY <1>2, <2>1, <2>3, <3>3
  <2> QED BY <1>4, <2>2, <2>3
<1>11. /\ RecordsHonest' /\ open' = FALSE /\ buf' = <<>>
       /\ rec'.continued => needTerminal'
       /\ rec'.continued => ovfRam'
  BY <1>1, <1>2, <1>3, <1>5, <1>10, EmittedSteady
<1>12. BitsInStep'
  <2>1. ASSUME ~excused'
        PROVE  IF pc' = "restart" THEN ~moved' => lastBit' = bit' \/ (lastBit' < bit' /\ Flagged')
               ELSE lastBit' = Passed' \/ (lastBit' < Passed' /\ Flagged')
    <3>0. FALSE \in BOOLEAN
      OBVIOUS
    <3>1. CASE kbits = 0
      <4>1. lastBit' = Passed \/ (lastBit' < Passed /\ Flagged')
        BY <1>3, <1>4, <1>10, <2>1, <3>0, <3>1, EmitInStep
      <4>2. pc' # "restart"
        BY <1>3, <1>4, <3>1
      <4> QED BY <1>6, <4>1, <4>2
    <3>2. CASE kbits > 0
      <4>1. b # <<>> /\ Last(b[Len(b)]) = bit /\ lastBit < bit
        BY <1>10, <2>1, <3>2
      <4>2. lastBit' = bit \/ (lastBit' < bit /\ Flagged')
        BY <1>3, <1>4, <3>0, <4>1, EmitInStep
      <4>3. pc' = "restart"
        BY <1>3, <3>2
      <4> QED BY <1>3, <4>2, <4>3
    <3> QED BY <1>4, <3>1, <3>2
  <2> QED BY <1>11, <2>1, NothingInBurst
<1>13. SilenceKept'
  <2>1. settled' => ~moved' /\ Closed' /\ tail' = head'
    BY <1>1, <1>3, <1>11 DEF SilenceKept, Closed
  <2>2. ASSUME long', ~moved', pc' = "ship" PROVE Closed' /\ tail' = head'
    <3>1. ~(kbits > 0) /\ kbits = accN /\ tail = head
      BY <1>3, <1>9, <2>2
    <3> QED BY <1>3, <1>4, <1>11, <3>1 DEF Closed
  <2>3. pc' \in {"restart", "ship"}
    BY <1>3
  <2> QED BY <1>11, <2>1, <2>2, <2>3 DEF SilenceKept
<1> QED BY <1>7, <1>8, <1>11, <1>12, <1>13 DEF Steady

LEMMA FinalizeAgedSteady ==
  ASSUME TypeOK, Steady, FinalizeAged
  PROVE  Steady'
<1>1. /\ SlotsHold /\ CallInStep /\ BitsInStep /\ RecordsHonest /\ SilenceKept
      /\ pc = "finalize" /\ Running /\ ~Draining /\ tail = h /\ open /\ ~sniffOld
  BY DEF Steady, FinalizeAged, Draining, Running, CallInStep, Idle
<1>2. /\ Emit(buf, FALSE) /\ pc' = "ship" /\ excused' = excused
      /\ bit' = bit /\ accN' = accN /\ head' = head /\ slot' = slot /\ tail' = tail
      /\ long' = long /\ moved' = moved /\ settled' = settled
  BY DEF FinalizeAged, sampler, snapshots
<1>3. Passed \in Int /\ buf \in Seq(Chunks)
  BY ClockedTypes, PassedType
<1>4. Ahead' = Ahead /\ Running'
  BY <1>2 DEF Ahead, Running
<1>5. Passed' = Passed
  BY <1>2, <1>4 DEF Passed
<1>6. SlotsHold' /\ CallInStep'
  BY <1>1, <1>2, <1>4, <1>5 DEF SlotsHold, CallInStep
<1>7. ASSUME ~excused'
      PROVE  /\ Ordered(buf, lastBit) /\ (Seamless(buf, lastBit) \/ Flagged)
             /\ buf # <<>> => lastBit < Last(buf[Len(buf)]) /\ Last(buf[Len(buf)]) = Passed
             /\ buf = <<>> => lastBit = Passed \/ (lastBit < Passed /\ Flagged)
  BY <1>1, <1>2, <1>7, BurstUpToDrain
<1>8. /\ RecordsHonest' /\ open' = FALSE /\ buf' = <<>>
      /\ rec'.continued => needTerminal'
      /\ rec'.continued => ovfRam'
  BY <1>1, <1>2, <1>3, <1>7, EmittedSteady
<1>9. BitsInStep'
  <2>0. FALSE \in BOOLEAN
    OBVIOUS
  <2>1. ASSUME ~excused' PROVE lastBit' = Passed \/ (lastBit' < Passed /\ Flagged')
    BY <1>2, <1>3, <1>7, <2>0, <2>1, EmitInStep
  <2> QED BY <1>2, <1>5, <1>8, <2>1, NothingInBurst
<1>10. SilenceKept'
  <2>1. ~(long /\ ~moved) /\ ~settled
    BY <1>1 DEF SilenceKept, Closed
  <2> QED BY <1>2, <1>8, <2>1 DEF SilenceKept
<1> QED BY <1>6, <1>8, <1>9, <1>10 DEF Steady

LEMMA FinalizeNothingSteady ==
  ASSUME TypeOK, Steady, FinalizeNothing
  PROVE  Steady'
<1>1. /\ SlotsHold /\ CallInStep /\ BitsInStep /\ RecordsHonest /\ SilenceKept
      /\ pc = "finalize" /\ Running /\ ~Draining /\ tail = h /\ ~(Idle \/ PartialOnlyIdle)
  BY DEF Steady, FinalizeNothing, Draining, Running, CallInStep
<1>2. /\ bit' = bit /\ accN' = accN /\ head' = head /\ slot' = slot
      /\ tail' = tail /\ pc' = "ship" /\ long' = long /\ open' = open /\ buf' = buf /\ rec' = rec
      /\ lastBit' = lastBit
      /\ needTerminal' = needTerminal /\ ovfPioc' = ovfPioc /\ ovfRam' = ovfRam
      /\ moved' = moved /\ settled' = settled /\ excused' = excused
  BY DEF FinalizeNothing, sampler, snapshots, burst, output
<1>3. Ahead' = Ahead /\ Running' /\ Flagged' = Flagged /\ ~Draining'
  BY <1>2 DEF Ahead, Running, Flagged, Draining
<1>4. Passed' = Passed
  BY <1>2, <1>3 DEF Passed
<1>5. SlotsHold' /\ CallInStep'
  BY <1>1, <1>2, <1>3, <1>4 DEF SlotsHold, CallInStep
<1>6. BitsInStep'
  BY <1>1, <1>2, <1>3, <1>4 DEF BitsInStep, Ordered, Seamless, Last
<1>7. RecordsHonest'
  BY <1>1, <1>2 DEF RecordsHonest
<1>8. SilenceKept'
  <2>1. Closed' = Closed
    BY <1>2 DEF Closed
  <2>2. ASSUME long, ~moved PROVE Closed /\ tail = head
    <3>1. sniffOld /\ (accN = 0 \/ partialOld) /\ kbits = accN /\ tail = head
      BY <1>1, <2>2 DEF SilenceKept, CallInStep
    <3>2. ~open /\ ~needTerminal /\ ~rec.continued
      BY <1>1, <3>1 DEF Idle, SilenceKept
    <3>3. accN = 0
      BY <1>1, <3>1, <3>2, ClockedTypes DEF PartialOnlyIdle
    <3> QED BY <3>1, <3>2, <3>3 DEF Closed
  <2> QED BY <1>1, <1>2, <2>1, <2>2 DEF SilenceKept
<1> QED BY <1>5, <1>6, <1>7, <1>8 DEF Steady

LEMMA RestartSteady ==
  ASSUME TypeOK, TypeOK', Steady, Restart
  PROVE  Steady'
<1>1. /\ SlotsHold /\ CallInStep /\ BitsInStep /\ RecordsHonest /\ SilenceKept
      /\ pc = "restart" /\ Running
  BY DEF Steady, Restart, Running
<1>2. /\ bit' = bit /\ accN' = 0 /\ head' = 0 /\ tail' = 0 /\ pc' = "ship" /\ long' = long
      /\ open' = open /\ buf' = buf /\ rec' = rec /\ lastBit' = lastBit
      /\ needTerminal' = needTerminal /\ ovfPioc' = ovfPioc /\ ovfRam' = ovfRam
      /\ moved' = moved /\ settled' = settled /\ excused' = (excused \/ moved)
  BY DEF Restart, RestartAcc, snapshots, burst, output
<1>3. Running' /\ Flagged' = Flagged /\ (~excused' => ~excused /\ ~moved)
  BY <1>2 DEF Running, Flagged
<1>4. SlotsHold' /\ Passed' = bit
  <2>1. head' \in Int /\ tail' = head'
    BY <1>2
  <2>2. SlotsHold' /\ Passed' = bit' - accN'
    BY <2>1, EmptyHolds
  <2> QED BY <1>2, <2>2, ClockedTypes
<1>5. CallInStep'
  BY <1>2, <1>3 DEF CallInStep
<1>6. BitsInStep'
  <2>1. \A k \in DOMAIN buf' : 1 <= buf'[k].n /\ Last(buf[k])' <= bit'
    BY <1>1, <1>2 DEF BitsInStep, Last
  <2>2. ASSUME ~excused'
        PROVE  buf = <<>> /\ Ordered(buf, lastBit) /\ (Seamless(buf, lastBit) \/ Flagged)
               /\ (lastBit = bit \/ (lastBit < bit /\ Flagged))
    BY <1>1, <1>3, <2>2 DEF BitsInStep
  <2>3. /\ Ordered(buf, lastBit)' = Ordered(buf, lastBit)
        /\ Seamless(buf, lastBit)' = Seamless(buf, lastBit)
    BY <1>2 DEF Ordered, Seamless, Last
  <2>4. pc' # "restart"
    BY <1>2
  <2> QED BY <1>2, <1>3, <1>4, <2>1, <2>2, <2>3, <2>4 DEF BitsInStep
<1>7. RecordsHonest'
  BY <1>1, <1>2, <1>3 DEF RecordsHonest
<1>8. SilenceKept'
  BY <1>1, <1>2 DEF SilenceKept, Closed
<1> QED BY <1>4, <1>5, <1>6, <1>7, <1>8 DEF Steady

LEMMA ShipSteady ==
  ASSUME TypeOK, Steady, Ship
  PROVE  Steady'
<1>1. /\ SlotsHold /\ CallInStep /\ BitsInStep /\ RecordsHonest /\ SilenceKept
      /\ pc = "ship" /\ Running /\ ~Draining
  BY DEF Steady, Ship, Draining, Running
<1>2. /\ bit' = bit /\ accN' = accN /\ head' = head /\ slot' = slot
      /\ tail' = tail /\ pc' = "idle" /\ open' = open /\ buf' = buf /\ rec' = rec
      /\ lastBit' = lastBit
      /\ needTerminal' = needTerminal /\ ovfPioc' = ovfPioc /\ ovfRam' = ovfRam
      /\ moved' = FALSE /\ excused' = excused /\ settled' = (settled \/ (long /\ ~moved))
  BY DEF Ship, sampler, burst
<1>3. Ahead' = Ahead /\ Running' /\ Flagged' = Flagged /\ ~Draining'
  BY <1>2 DEF Ahead, Running, Flagged, Draining
<1>4. Passed' = Passed
  BY <1>2, <1>3 DEF Passed
<1>5. SlotsHold' /\ CallInStep'
  BY <1>1, <1>2, <1>3, <1>4 DEF SlotsHold, CallInStep
<1>6. BitsInStep'
  BY <1>1, <1>2, <1>3, <1>4 DEF BitsInStep, Ordered, Seamless, Last
<1>7. RecordsHonest'
  BY <1>1, <1>2 DEF RecordsHonest
<1>8. SilenceKept'
  <2>1. Closed' = Closed
    BY <1>2 DEF Closed
  <2>2. settled' => Closed /\ tail = head
    BY <1>1, <1>2 DEF SilenceKept
  <2> QED BY <1>1, <1>2, <2>1, <2>2 DEF SilenceKept
<1> QED BY <1>5, <1>6, <1>7, <1>8 DEF Steady

\* A mode switch.
LEMMA SwitchSteady ==
  ASSUME TypeOK, TypeOK', Steady, Stop \/ LoadBlob
  PROVE  Steady'
<1>1. CallInStep /\ RecordsHonest
  BY DEF Steady
<1>2. ~Running' /\ rec' = rec /\ excused' = excused
  BY DEF Stop, LoadBlob, Running, output
<1>3. ~open' /\ ~settled'
  <2>1. CASE Stop
    BY <2>1 DEF Stop
  <2>2. CASE LoadBlob
    <3>1. ~Running /\ open' = open /\ settled' = settled
      BY <2>2 DEF LoadBlob, Running, burst
    <3> QED BY <1>1, <3>1 DEF CallInStep
  <2> QED BY <2>1, <2>2
<1>4. SlotsHold'
  BY <1>2 DEF SlotsHold
<1>5. CallInStep'
  BY <1>2, <1>3 DEF CallInStep, Running, Draining
<1>6. BitsInStep'
  <2>1. buf' = <<>>
    BY <1>3 DEF TypeOK
  <2> QED BY <1>2, <2>1, NothingInBurst
<1>7. RecordsHonest'
  BY <1>1, <1>2 DEF RecordsHonest
<1>8. SilenceKept'
  BY <1>2, <1>3 DEF SilenceKept, Running
<1> QED BY <1>4, <1>5, <1>6, <1>7, <1>8 DEF Steady

LEMMA BeginSteady ==
  ASSUME TypeOK, TypeOK', Steady, Begin
  PROVE  Steady'
<1>1. CallInStep /\ ~Running
  BY DEF Steady, Begin, Running
<1>2. /\ bit' = bit /\ accN' = accN /\ head' = head /\ tail' = head /\ pc' = "idle"
      /\ open' = open /\ buf' = buf /\ rec' = NoRec /\ lastBit' = bit - accN
      /\ settled' = settled
  BY DEF Begin, sampler, burst
<1>3. ~open /\ ~settled
  BY <1>1 DEF CallInStep
<1>4. buf' = <<>>
  BY <1>2, <1>3 DEF TypeOK
<1>5. SlotsHold' /\ Passed' = bit' - accN'
  <2>1. head' \in Int /\ tail' = head'
    BY <1>2, ClockedTypes
  <2> QED BY <2>1, EmptyHolds
<1>6. CallInStep'
  BY <1>2 DEF CallInStep, Running
<1>7. BitsInStep'
  BY <1>2, <1>4, <1>5, NothingInBurst
<1>8. RecordsHonest'
  BY <1>2 DEF RecordsHonest, NoRec
<1>9. SilenceKept'
  BY <1>2, <1>3 DEF SilenceKept, NoRec
<1> QED BY <1>5, <1>6, <1>7, <1>8, <1>9 DEF Steady

------------------------------------------------------------------------------
\* The theorems.

LEMMA ClockedStarts ==
  ASSUME Init
  PROVE  TypeOK /\ Steady
<1>0. /\ bit = 0 /\ accN = 0 /\ head = 0 /\ slot = [s \in 0 .. Slots - 1 |-> 0]
      /\ tail = 0 /\ pc = "idle" /\ h = 0 /\ kbits = 0 /\ kfirst = 0 /\ got = FALSE /\ long = FALSE
      /\ open = FALSE /\ buf = <<>> /\ needTerminal = FALSE
      /\ ovfPioc = FALSE /\ ovfRam = FALSE
      /\ watched = FALSE /\ sniffOld = FALSE /\ partialOld = FALSE /\ aged = FALSE
      /\ ramUsed = 1 + ModeLen /\ rec = NoRec /\ lastBit = 0
      /\ moved = FALSE /\ settled = FALSE /\ excused = FALSE
  BY DEF Init
<1>1. /\ <<>> \in Seq(Chunks) /\ Len(<<>>) = 0 /\ DOMAIN <<>> = {} /\ NoRec \in Records
  BY EmptySeq DEF NoRec, Records
<1>2. TypeOK
  <2>1. /\ bit \in 0 .. MaxBits /\ lastBit \in 0 .. MaxBits
        /\ accN \in 0 .. ByteBits - 1 /\ accN <= bit
        /\ kbits \in 0 .. ByteBits - 1 /\ kfirst \in 0 .. MaxBits + 1
        /\ ramUsed \in 0 .. RamCap
    BY <1>0, ClockedSizes
  <2>2. 0 \in 0 .. HeadW - 1 /\ 0 \in 0 .. MaxBits /\ 0 < BurstMax
    BY ClockedSizes
  <2>3. {head, tail, h} \subseteq 0 .. HeadW - 1 /\ slot \in [0 .. Slots - 1 -> 0 .. MaxBits]
    BY <1>0, <2>2
  <2>4. pc \in {"idle", "drain", "finalize", "restart", "ship", "off", "loading"}
        /\ buf \in Seq(Chunks) /\ Len(buf) < BurstMax /\ (~open => buf = <<>>) /\ rec \in Records
    BY <1>0, <1>1, <2>2
  <2>5. {open, needTerminal, ovfPioc, ovfRam, watched, sniffOld, partialOld, aged, got, moved, long,
         settled, excused} \subseteq BOOLEAN
    BY <1>0
  <2> QED BY <2>1, <2>3, <2>4, <2>5 DEF TypeOK
<1>3. Ahead = 0 /\ Passed = 0
  <2>1. Passed = bit - accN
    BY <1>0, <1>2, PassedAll
  <2> QED BY <1>0, <1>2, <2>1, NoneWaiting
<1>4. SlotsHold
  BY <1>3, ClockedSizes DEF SlotsHold
<1>5. CallInStep
  BY <1>0 DEF CallInStep, Running
<1>6. BitsInStep
  BY <1>0, <1>1, <1>3, NoChunks DEF BitsInStep
<1>7. RecordsHonest
  BY <1>0 DEF RecordsHonest, NoRec
<1>8. SilenceKept
  BY <1>0 DEF SilenceKept, NoRec
<1> QED BY <1>2, <1>4, <1>5, <1>6, <1>7, <1>8 DEF Steady

LEMMA ClockedStep ==
  ASSUME TypeOK, Steady, [Next]_vars
  PROVE  (TypeOK /\ Steady)'
<1>1. TypeOK'
  BY TypesKept DEF Steady
<1>2. CASE Sample
  BY <1>1, <1>2, SampleSteady
<1>3. CASE Pause \/ PartialAges \/ Age \/ UNCHANGED vars
  <2>1. /\ UNCHANGED <<sampler, tail, pc, snapshots, burst, output, watched, moved, settled, excused>>
        /\ pc = "idle" \/ UNCHANGED clock
    BY <1>3 DEF Pause, PartialAges, Age, vars
  <2> QED BY <1>1, <2>1, ClockSteady
<1>4. CASE ServiceBegin
  BY <1>1, <1>4, ServiceBeginSteady
<1>5. CASE DrainByte
  BY <1>1, <1>5, DrainByteSteady
<1>6. CASE ReadAcc
  BY <1>1, <1>6, ReadAccSteady
<1>7. CASE FinalizeIdle
  BY <1>1, <1>7, FinalizeIdleSteady
<1>8. CASE FinalizeAged
  BY <1>1, <1>8, FinalizeAgedSteady
<1>9. CASE FinalizeNothing
  BY <1>1, <1>9, FinalizeNothingSteady
<1>10. CASE Restart
  BY <1>1, <1>10, RestartSteady
<1>11. CASE Ship
  BY <1>1, <1>11, ShipSteady
<1>12. CASE Stop \/ LoadBlob
  BY <1>1, <1>12, SwitchSteady
<1>13. CASE Begin
  BY <1>1, <1>13, BeginSteady
<1> QED BY <1>2, <1>3, <1>4, <1>5, <1>6, <1>7, <1>8, <1>9, <1>10, <1>11, <1>12, <1>13
        DEF Next, Service

\* Types, registers, snapshots and bits stay in step in every run of service()
\* against the sampler, and every record follows the one before it bit for bit or
\* says by its overflow flags that something is missing.
THEOREM ClockedInvariant == Spec => []ClockedInv
<1>1. Init => TypeOK /\ Steady
  BY ClockedStarts
<1>2. (TypeOK /\ Steady) /\ [Next]_vars => (TypeOK /\ Steady)'
  BY ClockedStep
<1>3. TypeOK /\ Steady => ClockedInv
  BY DEF ClockedInv, Steady
<1> QED BY <1>1, <1>2, <1>3, PTL DEF Spec

\* A pause between bursts separates them: after it service() has closed the
\* record and the chain and flushed the partial byte of the accumulator, and the
\* sampler has not a bit of the past left.
THEOREM PausesSeparateBursts == Spec => []PauseSeparates
<1>1. ClockedInv => PauseSeparates
  BY DEF ClockedInv, SilenceKept, Closed, PauseSeparates, Running
<1> QED BY <1>1, ClockedInvariant, PTL
=============================================================================
