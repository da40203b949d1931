--------------------------- MODULE RleDrainProofs ---------------------------
(***************************************************************************)
(* Proofs about RleDrain, for every number of slots, every width of HEAD    *)
(* that a drain is never a whole turn late for (in particular one that      *)
(* Slots does not divide), every size of the RAM ring and any number of     *)
(* records and restarts.                                                    *)
(***************************************************************************)
EXTENDS RleDrain, Remainders, FiniteSetTheorems, SequenceTheorems

------------------------------------------------------------------------------
\* Constants, types and registers.

LEMMA Widths ==
  /\ Slots \in Nat \ {0} /\ HeadW \in Nat \ {0} /\ RamCap \in Nat \ {0} /\ MaxRec \in Nat \ {0}
  /\ Late \in Nat /\ MaxSwitch \in Nat
  /\ Slots + Late + 1 < HeadW
BY RleDrainAssumption

\* The state in an arithmetic the provers can use.
LEMMA DrainTypes ==
  ASSUME TypeOK
  PROVE  /\ made \in Int /\ 0 <= made /\ made <= MaxRec
         /\ base \in Int /\ 0 <= base
         /\ cursor \in Int /\ 0 <= cursor /\ lastTaken \in Int /\ 0 <= lastTaken
         /\ lastTaken <= MaxRec
         /\ Top \in Int /\ (storing => Top = made + 1) /\ (~storing => Top = made)
         /\ ram \in Seq(0 .. MaxRec) /\ Len(ram) \in Nat /\ Len(ram) <= RamCap
         /\ DOMAIN ram = 1 .. Len(ram)
         /\ slot \in [0 .. Slots - 1 -> 0 .. MaxRec]
BY Widths, LenProperties DEF TypeOK, Top

LEMMA CallTypes ==
  ASSUME TypeOK, isr.pc = "copy"
  PROVE  /\ isr \in Calls
         /\ isr.upto \in Int /\ isr.gap \in Int /\ 0 <= isr.gap /\ isr.gap <= Slots
         /\ isr.raw \in Int /\ isr.copy \in Int /\ 0 <= isr.copy
         /\ isr.first \in 0 .. Slots - 1 /\ isr.first \in Int
         /\ isr.got \in Seq(0 .. MaxRec) /\ Len(isr.got) \in Nat
         /\ DOMAIN isr.got = 1 .. Len(isr.got)
<1>1. isr \in Calls
  BY DEF TypeOK, NoIsr
<1> QED BY <1>1, Widths, LenProperties DEF Calls

LEMMA CellType ==
  ASSUME TypeOK, NEW r \in Int
  PROVE  Cell(r) \in 0 .. Slots - 1
<1>1. r - 1 - base \in Int
  BY DrainTypes
<1> QED BY <1>1, Divides, Widths DEF Cell

\* Records less than Slots apart are kept in different registers.
LEMMA CellsDiffer ==
  ASSUME TypeOK, NEW r \in Int, NEW q \in Int, r - q < Slots, q - r < Slots, r # q
  PROVE  Cell(r) # Cell(q)
<1> DEFINE x == r - 1 - base
           y == q - 1 - base
<1>1. x \in Int /\ y \in Int /\ x - y = r - q /\ y - x = q - r /\ x # y
  BY DrainTypes, SMTT(20)
<1>2. Cell(r) = x % Slots /\ Cell(q) = y % Slots
  BY DEF Cell
<1> HIDE DEF x, y
<1> QED BY <1>1, <1>2, SameRemainder, Widths

\* The eMCU's pointer stands where the next record goes.
LEMMA PointerCell ==
  ASSUME TypeOK
  PROVE  Pointer = Cell(made + 1)
<1> DEFINE x == (made + 1) - 1 - base
<1>1. x = made - base
  BY DrainTypes
<1>2. Cell(made + 1) = x % Slots
  BY DEF Cell
<1> HIDE DEF x
<1> QED BY <1>1, <1>2 DEF Pointer

\* The registers after the one record u - g + 1 is in hold the records after it.
LEMMA CellAlong ==
  ASSUME TypeOK, NEW u \in Int, NEW g \in Int, NEW k \in Int
  PROVE  (((u - g - base) % Slots) + k) % Slots = Cell(u - g + k + 1)
<1> DEFINE x == u - g - base
           y == (u - g + k + 1) - 1 - base
<1>1. Cell(u - g + k + 1) = y % Slots
  BY DEF Cell
<1>2. x \in Int /\ y = x + k
  BY DrainTypes
<1> HIDE DEF x, y
<1>3. ((x % Slots) + k) % Slots = (x + k) % Slots
  BY <1>2, SumRemainder, Widths
<1> QED BY <1>1, <1>2, <1>3 DEF x

------------------------------------------------------------------------------
\* What is inductive.
DrainParts == DrainInv /\ NothingVanishes

LEMMA DrainInit == Init => DrainParts
<1> SUFFICES ASSUME Init PROVE DrainParts
  OBVIOUS
<1>1. isr = NoIsr /\ isr.pc # "copy" /\ ram = <<>> /\ ram \in Seq(0 .. MaxRec) /\ Len(ram) = 0
  BY EmptySeq DEF Init, NoIsr
<1>2. TypeOK
  <2>1. {made, base, cursor, lastTaken} \subseteq 0 .. MaxRec /\ {ovfPioc, ramDrop} \subseteq Nat
    BY Widths DEF Init
  <2>2. slot \in [0 .. Slots - 1 -> 0 .. MaxRec]
    BY Widths DEF Init
  <2>3. storing \in BOOLEAN /\ on \in BOOLEAN /\ clobbered \in BOOLEAN
    BY DEF Init
  <2>4. sniffTail \in 0 .. HeadW - 1 /\ sniffSlot \in 0 .. Slots - 1 /\ Len(ram) <= RamCap
    BY <1>1, Widths DEF Init
  <2> QED BY <1>1, <2>1, <2>2, <2>3, <2>4 DEF Init, TypeOK
<1>3. CursorsAgree
  <2>1. (0 - 0) % Slots = 0 /\ (0 - 0) % HeadW = 0
    BY Widths
  <2> QED BY <2>1 DEF Init, CursorsAgree
<1>4. RegistersHold
  BY Widths DEF Init, RegistersHold, Top
<1>5. CallInStep /\ CopyExact
  BY <1>1 DEF CallInStep, CopyExact
<1>6. RamInOrder
  BY <1>1 DEF Init, RamInOrder
<1>7. NothingVanishes
  <2>1. Cardinality({}) = 0
    BY FS_EmptySet
  <2> QED BY <2>1 DEF Init, NothingVanishes, LossesCounted, Uncounted
<1> QED BY <1>2, <1>3, <1>4, <1>5, <1>6, <1>7 DEF DrainParts, DrainInv

------------------------------------------------------------------------------
\* PIOC.

LEMMA NothingVanishesKept ==
  ASSUME NothingVanishes,
         UNCHANGED <<base, on, cursor, counters, ram, lastTaken>>, clobbered => clobbered'
  PROVE  NothingVanishes'
BY DEF NothingVanishes, LossesCounted, Uncounted, counters

LEMMA RamInOrderKept ==
  ASSUME RamInOrder, UNCHANGED <<cursor, ram, lastTaken>>, clobbered => clobbered'
  PROVE  RamInOrder'
BY DEF RamInOrder

\* A store goes to the register of the next record: no register that still counts,
\* and none a running drain has still to copy, unless that is noted.
LEMMA PiocStoreStep ==
  ASSUME DrainParts, PiocStore
  PROVE  DrainParts'
<1>0. /\ TypeOK /\ CursorsAgree /\ RegistersHold /\ CallInStep /\ CopyExact /\ RamInOrder
      /\ NothingVanishes
  BY DEF DrainParts, DrainInv
<1>1. /\ on /\ ~storing /\ made < MaxRec /\ made - cursor < Slots + Late /\ storing' = TRUE
      /\ slot' = [slot EXCEPT ![Pointer] = made + 1]
      /\ clobbered' = (clobbered \/ Pointer \in Uncopied(isr))
      /\ UNCHANGED <<made, base, on, isr, cursors, counters, ram, lastTaken, switches>>
  BY DEF PiocStore
<1>2. UNCHANGED <<base, made, cursor, isr, ram, sniffTail, sniffSlot, overrun>>
  BY <1>1 DEF cursors, counters
<1>3. Top = made /\ Top' = made + 1 /\ made + 1 \in 0 .. MaxRec /\ made + 1 \in Int
  <2>1. Top = made /\ Top' = made + 1
    BY <1>1, <1>2 DEF Top
  <2>2. made \in Int /\ 0 <= made /\ MaxRec \in Int
    BY <1>0, DrainTypes, Widths
  <2> QED BY <1>1, <2>1, <2>2
<1>4. Pointer = Cell(made + 1) /\ Pointer \in 0 .. Slots - 1
  BY <1>0, <1>3, PointerCell, CellType
<1>5. /\ slot' \in [0 .. Slots - 1 -> 0 .. MaxRec] /\ slot'[Pointer] = made + 1
      /\ \A c \in 0 .. Slots - 1 : c # Pointer => slot'[c] = slot[c]
  BY <1>0, <1>1, <1>3, <1>4, DrainTypes
<1>6. \A r : Cell(r)' = Cell(r)
  BY <1>2 DEF Cell
<1>7. TypeOK'
  BY <1>0, <1>1, <1>5 DEF TypeOK, cursors, counters
<1>8. RegistersHold'
  <2>1. Top' - cursor <= Slots + Late
    BY <1>0, <1>1, <1>3, DrainTypes, Widths, SMTT(20)
  <2>2. ASSUME NEW r \in base + 1 .. Top', r > Top' - Slots
        PROVE  slot'[Cell(r)] = r
    <3>1. CASE r = made + 1
      BY <1>4, <1>5, <3>1
    <3>2. CASE r # made + 1
      <4>1. made \in Int /\ base \in Int /\ Slots \in Int /\ Slots > 0
        BY <1>0, DrainTypes, Widths
      <4>2. r \in Int /\ base + 1 <= r /\ r <= made + 1 /\ r > made + 1 - Slots
        BY <1>3, <2>2, <4>1
      <4>3. r \in base + 1 .. Top /\ r > Top - Slots
        BY <1>3, <3>2, <4>1, <4>2
      <4>4. (made + 1) - r < Slots /\ r - (made + 1) < Slots
        BY <4>1, <4>2
      <4>5. Cell(r) # Cell(made + 1)
        BY <1>0, <1>3, <3>2, <4>2, <4>4, CellsDiffer
      <4>6. Cell(r) \in 0 .. Slots - 1
        BY <1>0, <4>2, CellType
      <4> QED BY <1>0, <1>1, <1>4, <1>5, <4>3, <4>5, <4>6 DEF RegistersHold
    <3> QED BY <3>1, <3>2
  <2> QED BY <1>0, <1>1, <1>2, <1>6, <2>1, <2>2 DEF RegistersHold
<1>9. CursorsAgree' /\ CallInStep'
  BY <1>0, <1>1, <1>2 DEF CursorsAgree, CallInStep
<1>10. CopyExact'
  <2> SUFFICES ASSUME isr.pc = "copy", ~clobbered'
               PROVE  /\ \A k \in 1 .. Len(isr.got) : isr.got[k] = isr.upto - isr.gap + k
                      /\ \A k \in Len(isr.got) .. isr.copy - 1 :
                           slot'[(isr.first + k) % Slots] = isr.upto - isr.gap + k + 1
    BY <1>2 DEF CopyExact
  <2>1. ~clobbered /\ Pointer \notin Uncopied(isr)
    BY <1>1
  <2>2. ASSUME NEW k \in Len(isr.got) .. isr.copy - 1
        PROVE  slot'[(isr.first + k) % Slots] = isr.upto - isr.gap + k + 1
    <3>1. (isr.first + k) % Slots # Pointer
      BY <2>1 DEF Uncopied
    <3>2. isr.first + k \in Int
      BY <1>0, CallTypes
    <3>3. (isr.first + k) % Slots \in 0 .. Slots - 1
      BY <3>2, Divides, Widths
    <3> QED BY <1>0, <1>5, <2>1, <3>1, <3>3 DEF CopyExact
  <2> QED BY <1>0, <2>1, <2>2 DEF CopyExact
<1>11. RamInOrder' /\ NothingVanishes'
  BY <1>0, <1>1, <1>2, RamInOrderKept, NothingVanishesKept
<1> QED BY <1>7, <1>8, <1>9, <1>10, <1>11 DEF DrainParts, DrainInv

LEMMA PiocPublishStep ==
  ASSUME DrainParts, PiocPublish
  PROVE  DrainParts'
<1>0. /\ TypeOK /\ CursorsAgree /\ RegistersHold /\ CallInStep /\ CopyExact /\ RamInOrder
      /\ NothingVanishes
  BY DEF DrainParts, DrainInv
<1>1. /\ storing /\ made' = made + 1 /\ storing' = FALSE
      /\ UNCHANGED <<base, slot, on, isr, cursors, counters, ram, clobbered, lastTaken, switches>>
  BY DEF PiocPublish
<1>2. UNCHANGED <<cursor, sniffTail, sniffSlot, overrun>>
  BY <1>1 DEF cursors, counters
<1>3. on /\ made < MaxRec /\ Top' = Top /\ made' \in 0 .. MaxRec /\ cursor <= made'
  <2>1. Top' = Top
    BY <1>1 DEF Top
  <2>2. on /\ made < MaxRec /\ cursor <= made
    BY <1>0, <1>1 DEF RegistersHold
  <2>3. made \in Int /\ 0 <= made /\ cursor \in Int /\ MaxRec \in Int
    BY <1>0, DrainTypes, Widths
  <2> QED BY <1>1, <2>1, <2>2, <2>3
<1>4. \A r : Cell(r)' = Cell(r)
  BY <1>1 DEF Cell
<1>5. TypeOK'
  BY <1>0, <1>1, <1>3 DEF TypeOK, cursors, counters
<1>6. RegistersHold'
  BY <1>0, <1>1, <1>2, <1>3, <1>4 DEF RegistersHold
<1>7. CursorsAgree' /\ CopyExact'
  BY <1>0, <1>1, <1>2 DEF CursorsAgree, CopyExact
<1>8. CallInStep'
  <2>1. isr.pc = "copy" => isr.upto <= made'
    BY <1>0, <1>1, DrainTypes, CallTypes DEF CallInStep
  <2> QED BY <1>0, <1>1, <1>2, <2>1 DEF CallInStep
<1>9. RamInOrder' /\ NothingVanishes'
  BY <1>0, <1>1, <1>2, RamInOrderKept, NothingVanishesKept
<1> QED BY <1>5, <1>6, <1>7, <1>8, <1>9 DEF DrainParts, DrainInv
------------------------------------------------------------------------------
\* Main loop.

\* What service() takes leaves the rest of the RAM ring in order behind it.
LEMMA ServiceTakesStep ==
  ASSUME DrainParts, NEW n \in 1 .. RamCap, ServiceTakes(n)
  PROVE  DrainParts'
<1>0. /\ TypeOK /\ CursorsAgree /\ RegistersHold /\ CallInStep /\ CopyExact /\ RamInOrder
      /\ NothingVanishes
  BY DEF DrainParts, DrainInv
<1>1. /\ isr.pc = "off" /\ n <= Len(ram) /\ ram' = SubSeq(ram, n + 1, Len(ram))
      /\ lastTaken' = ram[n]
      /\ UNCHANGED <<piocVars, on, isr, cursors, counters, clobbered, switches>>
  BY DEF ServiceTakes
<1>2. /\ UNCHANGED <<made, base, slot, storing, on, isr, cursor, sniffTail, sniffSlot, clobbered>>
      /\ UNCHANGED <<ovfPioc, ramDrop, dropped, overrun>>
  BY <1>1 DEF piocVars, cursors, counters
<1>3. /\ n \in Nat /\ 1 <= n /\ Len(ram) \in Nat /\ ram \in Seq(0 .. MaxRec)
      /\ DOMAIN ram = 1 .. Len(ram) /\ Len(ram) <= RamCap
  BY <1>0, DrainTypes, Widths
<1>4. /\ ram' \in Seq(0 .. MaxRec) /\ Len(ram') = Len(ram) - n
      /\ \A k \in 1 .. Len(ram) - n : ram'[k] = ram[n + k]
  <2>1. n + 1 \in Int /\ Len(ram) \in Int
    BY <1>3
  <2>2. ASSUME NEW i \in n + 1 .. Len(ram) PROVE ram[i] \in 0 .. MaxRec
    <3>1. i \in 1 .. Len(ram)
      BY <1>3
    <3> QED BY <1>3, <3>1, ElementOfSeq
  <2>3. /\ SubSeq(ram, n + 1, Len(ram)) \in Seq(0 .. MaxRec)
        /\ Len(SubSeq(ram, n + 1, Len(ram))) = Len(ram) - n
    <3>1. /\ SubSeq(ram, n + 1, Len(ram)) \in Seq(0 .. MaxRec)
          /\ Len(SubSeq(ram, n + 1, Len(ram)))
               = IF n + 1 <= Len(ram) THEN Len(ram) - (n + 1) + 1 ELSE 0
      BY <2>1, <2>2, SubSeqProperties
    <3>2. \A l \in Nat : n <= l => (IF n + 1 <= l THEN l - (n + 1) + 1 ELSE 0) = l - n
      BY <1>3
    <3>3. n <= Len(ram) /\ Len(ram) \in Nat
      BY <1>1, <1>3
    <3> QED BY <3>1, <3>2, <3>3
  <2>4. \A k \in 1 .. Len(ram) - n : SubSeq(ram, n + 1, Len(ram))[k] = ram[n + k]
    BY <1>1, <1>3
  <2> QED BY <1>1, <2>3, <2>4
<1>5. DOMAIN ram' = 1 .. Len(ram) - n
  BY <1>4, LenProperties
<1>6. n \in DOMAIN ram /\ \A k \in DOMAIN ram' : n + k \in DOMAIN ram /\ n < n + k /\ ram'[k] = ram[n + k]
  <2>1. n \in DOMAIN ram
    BY <1>1, <1>3
  <2>2. ASSUME NEW k \in DOMAIN ram'
        PROVE  n + k \in DOMAIN ram /\ n < n + k /\ ram'[k] = ram[n + k]
    <3>1. k \in 1 .. Len(ram) - n
      BY <1>5
    <3>2. n + k \in 1 .. Len(ram) /\ n < n + k
      BY <1>3, <3>1
    <3> QED BY <1>3, <1>4, <3>1, <3>2
  <2> QED BY <2>1, <2>2
<1>7. \A k \in DOMAIN ram : ram[k] \in 0 .. MaxRec
  BY <1>3, ElementOfSeq
<1>8. TypeOK'
  <2>1. Len(ram') <= RamCap
    BY <1>3, <1>4, Widths
  <2>2. lastTaken' \in 0 .. MaxRec
    BY <1>1, <1>6, <1>7
  <2> QED BY <1>0, <1>2, <1>4, <2>1, <2>2 DEF TypeOK
<1>9. CursorsAgree' /\ RegistersHold'
  BY <1>0, <1>2 DEF CursorsAgree, RegistersHold, Top, Cell
<1>10. CallInStep' /\ CopyExact'
  BY <1>1, <1>2 DEF CallInStep, CopyExact
<1>11. RamInOrder'
  <2> SUFFICES ASSUME ~clobbered PROVE RamInOrder'
    BY <1>2 DEF RamInOrder
  <2>1. ram[n] <= cursor /\ \A k \in DOMAIN ram' : ram[n] < ram'[k] /\ ram'[k] <= cursor
    BY <1>0, <1>6 DEF RamInOrder
  <2>2. ASSUME NEW j \in DOMAIN ram', NEW k \in DOMAIN ram', j < k
        PROVE  ram'[j] < ram'[k]
    <3>1. n + j < n + k
      BY <1>3, <1>5, <2>2
    <3> QED BY <1>0, <1>6, <3>1 DEF RamInOrder
  <2> QED BY <1>1, <1>2, <2>1, <2>2 DEF RamInOrder
<1>12. NothingVanishes'
  <2>1. LossesCounted' /\ Uncounted' = Uncounted
    BY <1>0, <1>2 DEF NothingVanishes, LossesCounted, Uncounted
  <2>2. ASSUME on, ~clobbered, NEW r \in Uncounted
        PROVE  r <= lastTaken' \/ \E i \in DOMAIN ram' : ram'[i] = r
    <3>1. r \in Int /\ lastTaken \in Int /\ ram[n] \in Int
      BY <1>0, <1>6, <1>7, DrainTypes DEF Uncounted
    <3>2. CASE r <= lastTaken
      <4>1. lastTaken < ram[n]
        BY <1>0, <1>6, <2>2 DEF RamInOrder
      <4> QED BY <1>1, <3>1, <3>2, <4>1
    <3>3. ASSUME NEW i \in DOMAIN ram, ram[i] = r
          PROVE  r <= lastTaken' \/ \E k \in DOMAIN ram' : ram'[k] = r
      <4>1. CASE i <= n
        <5>1. i = n \/ i < n
          BY <1>3, <4>1
        <5>2. i < n => ram[i] < ram[n]
          BY <1>0, <1>6, <2>2 DEF RamInOrder
        <5> QED BY <1>1, <3>1, <3>3, <5>1, <5>2
      <4>2. CASE ~(i <= n)
        <5>1. i - n \in 1 .. Len(ram) - n /\ n + (i - n) = i
          BY <1>3, <4>2
        <5> QED BY <1>4, <1>5, <3>3, <5>1
      <4> QED BY <4>1, <4>2
    <3>4. r <= lastTaken \/ \E i \in DOMAIN ram : ram[i] = r
      BY <1>0, <2>2 DEF NothingVanishes
    <3> QED BY <3>2, <3>3, <3>4
  <2> QED BY <1>2, <2>1, <2>2 DEF NothingVanishes
<1> QED BY <1>8, <1>9, <1>10, <1>11, <1>12 DEF DrainParts, DrainInv

\* stop() leaves the PIOC halted between two records.
LEMMA StopStep ==
  ASSUME DrainParts, Stop
  PROVE  DrainParts'
<1>0. /\ TypeOK /\ RegistersHold /\ RamInOrder /\ NothingVanishes
  BY DEF DrainParts, DrainInv
<1>1. /\ isr.pc = "off" /\ on' = FALSE /\ ram' = <<>> /\ made' = Top /\ storing' = FALSE
      /\ UNCHANGED <<base, slot, isr, cursors, counters, clobbered, lastTaken>>
  BY DEF Stop, Top
<1>2. UNCHANGED <<cursor, sniffTail, sniffSlot, ovfPioc, ramDrop, dropped, overrun>>
  BY <1>1 DEF cursors, counters
<1>3. ram' \in Seq(0 .. MaxRec) /\ Len(ram') = 0 /\ DOMAIN ram' = {}
  BY <1>1, EmptySeq
<1>4. made' \in 0 .. MaxRec /\ base <= cursor /\ cursor <= made'
  <2>1. made \in Int /\ 0 <= made /\ made <= MaxRec /\ cursor \in Int /\ MaxRec \in Int
    BY <1>0, DrainTypes, Widths
  <2>2. base <= cursor /\ cursor <= made /\ (storing => made < MaxRec)
    BY <1>0 DEF RegistersHold
  <2>3. Top = made \/ (storing /\ Top = made + 1)
    BY DEF Top
  <2> QED BY <1>1, <2>1, <2>2, <2>3
<1>5. TypeOK'
  <2>1. Len(ram') <= RamCap
    BY <1>3, Widths
  <2> QED BY <1>0, <1>1, <1>2, <1>3, <1>4, <2>1 DEF TypeOK
<1>6. CursorsAgree' /\ RegistersHold'
  BY <1>1, <1>2, <1>4 DEF CursorsAgree, RegistersHold
<1>7. CallInStep' /\ CopyExact'
  BY <1>1 DEF CallInStep, CopyExact
<1>8. RamInOrder'
  BY <1>0, <1>1, <1>2, <1>3 DEF RamInOrder
<1>9. NothingVanishes'
  BY <1>0, <1>1, <1>2 DEF NothingVanishes, LossesCounted
<1> QED BY <1>5, <1>6, <1>7, <1>8, <1>9 DEF DrainParts, DrainInv

\* begin() restarts the PIOC and both cursors at zero, whatever the slots held.
LEMMA BeginStep ==
  ASSUME DrainParts, Begin
  PROVE  DrainParts'
<1>0. /\ TypeOK /\ RegistersHold /\ CallInStep /\ RamInOrder
  BY DEF DrainParts, DrainInv
<1>1. /\ ~on /\ on' = TRUE /\ base' = made /\ cursor' = made /\ sniffTail' = 0 /\ sniffSlot' = 0
      /\ ovfPioc' = 0 /\ ramDrop' = 0 /\ dropped' = {} /\ overrun' = {}
      /\ UNCHANGED <<made, slot, storing, isr, ram, clobbered, lastTaken, switches>>
  BY DEF Begin, RestartCursors
<1>2. isr.pc # "copy" /\ ~storing
  BY <1>0, <1>1 DEF CallInStep, RegistersHold
<1>3. made \in Int /\ made - made = 0 /\ cursor \in Int /\ cursor <= made /\ made \in 0 .. MaxRec
  BY <1>0, DrainTypes DEF RegistersHold, TypeOK
<1>4. Top' = made
  BY <1>1, <1>2 DEF Top
<1>5. TypeOK'
  BY <1>0, <1>1, <1>3, Widths DEF TypeOK
<1>6. CursorsAgree'
  <2>1. 0 % Slots = 0 /\ 0 % HeadW = 0
    BY Widths
  <2> QED BY <1>1, <1>3, <2>1 DEF CursorsAgree
<1>7. RegistersHold'
  <2>1. base' <= cursor' /\ cursor' <= made' /\ Top' - cursor' <= Slots + Late
    BY <1>1, <1>3, <1>4, Widths
  <2>2. base' + 1 .. Top' = {}
    BY <1>1, <1>3, <1>4
  <2> QED BY <1>1, <1>2, <2>1, <2>2 DEF RegistersHold
<1>8. CallInStep' /\ CopyExact'
  BY <1>1, <1>2 DEF CallInStep, CopyExact
<1>9. RamInOrder'
  <2> SUFFICES ASSUME ~clobbered PROVE RamInOrder'
    BY <1>1 DEF RamInOrder
  <2>1. lastTaken <= made
    BY <1>0, <1>3, DrainTypes DEF RamInOrder
  <2>2. ASSUME NEW k \in DOMAIN ram PROVE ram[k] <= made
    <3>1. ram[k] <= cursor
      BY <1>0 DEF RamInOrder
    <3>2. k \in 1 .. Len(ram) /\ ram \in Seq(0 .. MaxRec)
      BY <1>0, DrainTypes
    <3>3. ram[k] \in 0 .. MaxRec
      BY <3>2, ElementOfSeq
    <3> QED BY <1>3, <3>1, <3>3, Widths
  <2> QED BY <1>0, <1>1, <2>1, <2>2 DEF RamInOrder
<1>10. NothingVanishes'
  <2>1. Cardinality({}) = 0
    BY FS_EmptySet
  <2>2. Uncounted' = {}
    BY <1>1, <1>3 DEF Uncounted
  <2> QED BY <1>1, <2>1, <2>2 DEF NothingVanishes, LossesCounted
<1> QED BY <1>5, <1>6, <1>7, <1>8, <1>9, <1>10 DEF DrainParts, DrainInv

LEMMA DrainStutter ==
  ASSUME DrainParts, UNCHANGED vars
  PROVE  DrainParts'
BY DEF DrainParts, DrainInv, vars, piocVars, cursors, counters, TypeOK, CursorsAgree,
       RegistersHold, Top, Cell, CallInStep, CopyExact, RamInOrder, NothingVanishes,
       LossesCounted, Uncounted
------------------------------------------------------------------------------
\* The interrupt.

\* The distance between the two logical cursors is what the drain is behind: it
\* is never a whole turn of HEAD.
LEMMA RawIsBacklog ==
  ASSUME TypeOK, CursorsAgree, RegistersHold, on
  PROVE  (Head8 - sniffTail) % HeadW = made - cursor
<1> DEFINE x == made - base
           y == cursor - base
<1>1. made \in Int /\ base \in Int /\ cursor \in Int /\ HeadW \in Nat \ {0} /\ Slots + Late + 1 < HeadW
      /\ Slots \in Nat /\ Late \in Nat
  BY DrainTypes, Widths
<1>2. Top = made \/ Top = made + 1
  BY DEF Top
<1>3. cursor <= made /\ Top - cursor <= Slots + Late
  BY DEF RegistersHold
<1>4. Head8 = x % HeadW /\ sniffTail = y % HeadW
  BY DEF CursorsAgree, Head8
<1>5. x \in Int /\ y \in Int /\ x - y = made - cursor
  BY <1>1
<1>6. made - cursor \in 0 .. HeadW - 1
  BY <1>1, <1>2, <1>3
<1> HIDE DEF x, y
<1>7. ((x % HeadW) - (y % HeadW)) % HeadW = (x - y) % HeadW
  BY <1>1, <1>5, CursorDifference
<1>8. (made - cursor) % HeadW = made - cursor
  BY <1>1, <1>6, SmallRemainder
<1> QED BY <1>4, <1>5, <1>7, <1>8

\* Where the drain starts: at the oldest record the registers still hold.
LEMMA FirstIsOldest ==
  ASSUME TypeOK, CursorsAgree, on, NEW raw \in Nat, raw = made - cursor
  PROVE  FirstSlot(raw) = (made - Lesser(raw, Slots) - base) % Slots
<1> DEFINE x == cursor - base
           z == made - base
<1>1. made \in Int /\ base \in Int /\ cursor \in Int /\ Slots \in Nat \ {0}
  BY DrainTypes, Widths
<1>2. sniffSlot = x % Slots
  BY DEF CursorsAgree
<1>3. CASE raw > Slots
  <2>1. x \in Int /\ z \in Int /\ x + raw = z /\ z - Slots = made - Slots - base
    BY <1>1
  <2>2. Lesser(raw, Slots) = Slots /\ FirstSlot(raw) = (sniffSlot + raw) % Slots
    BY <1>1, <1>3 DEF Lesser, FirstSlot
  <2> HIDE DEF x, z
  <2>3. ((x % Slots) + raw) % Slots = (x + raw) % Slots
    <3>1. raw \in Int /\ x \in Int
      BY <2>1
    <3> QED BY <3>1, SumRemainder, Widths
  <2>4. (z - Slots) % Slots = z % Slots
    BY <1>1, <2>1, OneTurnLess
  <2> QED BY <1>2, <2>1, <2>2, <2>3, <2>4
<1>4. CASE ~(raw > Slots)
  <2>1. Lesser(raw, Slots) = raw /\ FirstSlot(raw) = sniffSlot
    BY <1>1, <1>4 DEF Lesser, FirstSlot
  <2>2. made - raw - base = x
    BY <1>1
  <2> QED BY <1>2, <2>1, <2>2
<1> QED BY <1>3, <1>4

\* What a drain finds when it starts.
LEMMA CallBegins ==
  ASSUME TypeOK, CursorsAgree, RegistersHold, IsrEnter
  PROVE  /\ on /\ isr'.pc = "copy" /\ isr' \in Calls
         /\ isr'.head = (made - base) % HeadW
         /\ isr'.raw = made - cursor /\ isr'.gap = Lesser(made - cursor, Slots)
         /\ isr'.first = (made - isr'.gap - base) % Slots
         /\ isr'.got = <<>> /\ isr'.upto = made
         /\ 0 <= isr'.copy /\ isr'.copy <= isr'.gap /\ isr'.copy <= RamCap - Len(ram)
         /\ ovfPioc' = CountOverrun(made - cursor)
         /\ overrun' = overrun \cup (cursor + 1 .. made - isr'.gap)
         /\ clobbered' = (clobbered \/ (storing /\ Pointer \in Uncopied(isr')))
         /\ UNCHANGED <<piocVars, on, cursors, ramDrop, dropped, ram, lastTaken, switches>>
<1> DEFINE raw == (Head8 - sniffTail) % HeadW
           gap == Lesser(raw, Slots)
           copy == Lesser(gap, RamSpace)
<1>1. /\ on
      /\ isr' = [pc |-> "copy", head |-> Head8, raw |-> raw, gap |-> gap,
                 first |-> FirstSlot(raw), copy |-> copy, got |-> <<>>, upto |-> made]
      /\ ovfPioc' = CountOverrun(raw)
      /\ overrun' = overrun \cup (cursor + 1 .. made - gap)
      /\ clobbered' = (clobbered \/ (storing /\ Pointer \in Uncopied(isr')))
      /\ UNCHANGED <<piocVars, on, cursors, ramDrop, dropped, ram, lastTaken, switches>>
  BY DEF IsrEnter
<1>2. raw = made - cursor
  BY <1>1, RawIsBacklog
<1>3. made \in Int /\ base \in Int /\ cursor \in Int /\ cursor <= made /\ made \in 0 .. MaxRec
  BY DrainTypes DEF RegistersHold, TypeOK
<1>4. raw \in 0 .. HeadW - 1 /\ raw \in Nat
  <2>1. Head8 - sniffTail \in Int
    <3>1. made - base \in Int /\ HeadW \in Nat \ {0}
      BY <1>3, Widths
    <3>2. Head8 \in 0 .. HeadW - 1
      BY <3>1, Divides DEF Head8
    <3>3. sniffTail \in Int
      BY Widths DEF TypeOK
    <3> QED BY <3>1, <3>2, <3>3
  <2>2. raw \in 0 .. HeadW - 1
    BY <2>1, Divides, Widths
  <2> QED BY <2>2, Widths
<1>5. Head8 \in 0 .. HeadW - 1 /\ Head8 = (made - base) % HeadW
  <2>1. made - base \in Int
    BY <1>3
  <2> QED BY <2>1, Divides, Widths DEF Head8
<1> HIDE DEF raw
<1>6. gap \in 0 .. Slots /\ gap = Lesser(made - cursor, Slots)
  BY <1>2, <1>4, Widths DEF Lesser
<1>7. FirstSlot(raw) = (made - gap - base) % Slots /\ FirstSlot(raw) \in 0 .. Slots - 1
  <2>1. FirstSlot(raw) = (made - gap - base) % Slots
    BY <1>1, <1>2, <1>4, FirstIsOldest
  <2>2. made - gap - base \in Int
    BY <1>3, <1>6, Widths
  <2> QED BY <2>1, <2>2, Divides, Widths
<1> HIDE DEF gap
<1>8. RamSpace \in Nat /\ RamSpace = RamCap - Len(ram)
  <2>1. Len(ram) \in Nat /\ Len(ram) <= RamCap /\ RamCap \in Nat
    BY DrainTypes, Widths
  <2> QED BY <2>1 DEF RamSpace
<1>9. copy \in 0 .. Slots /\ 0 <= copy /\ copy <= gap /\ copy <= RamSpace
  BY <1>6, <1>8, Widths DEF Lesser
<1> HIDE DEF copy
<1>10. isr' \in Calls
  <2>1. <<>> \in Seq(0 .. MaxRec)
    BY EmptySeq
  <2> QED BY <1>1, <1>3, <1>4, <1>5, <1>6, <1>7, <1>9, <2>1 DEF Calls
<1> QED BY <1>1, <1>2, <1>5, <1>6, <1>7, <1>8, <1>9, <1>10

\* Unless the eMCU stands in the first of them, the slots a drain is about to
\* copy hold the records it will claim.
LEMMA IsrEnterStep ==
  ASSUME DrainParts, IsrEnter
  PROVE  DrainParts'
<1> DEFINE gap == isr'.gap
           copy == isr'.copy
<1>0. /\ TypeOK /\ CursorsAgree /\ RegistersHold /\ CallInStep /\ RamInOrder
      /\ NothingVanishes
  BY DEF DrainParts, DrainInv
<1>1. /\ on /\ isr'.pc = "copy" /\ isr' \in Calls
      /\ isr'.head = (made - base) % HeadW
      /\ isr'.raw = made - cursor /\ gap = Lesser(made - cursor, Slots)
      /\ isr'.first = (made - gap - base) % Slots
      /\ isr'.got = <<>> /\ isr'.upto = made
      /\ 0 <= copy /\ copy <= gap /\ copy <= RamCap - Len(ram)
      /\ ovfPioc' = CountOverrun(made - cursor)
      /\ overrun' = overrun \cup (cursor + 1 .. made - gap)
      /\ clobbered' = (clobbered \/ (storing /\ Pointer \in Uncopied(isr')))
      /\ UNCHANGED <<piocVars, on, cursors, ramDrop, dropped, ram, lastTaken, switches>>
  BY <1>0, CallBegins
<1>2. /\ UNCHANGED <<made, base, slot, storing, on, cursor, sniffTail, sniffSlot>>
      /\ UNCHANGED <<ramDrop, dropped, ram, lastTaken>> /\ (clobbered => clobbered')
  BY <1>1 DEF piocVars, cursors
<1>3. /\ made \in Int /\ base \in Int /\ cursor \in Int /\ Slots \in Int /\ Slots > 0
      /\ 0 <= cursor /\ base <= cursor /\ cursor <= made /\ made <= MaxRec /\ MaxRec \in Int
  BY <1>0, DrainTypes, Widths DEF RegistersHold
<1>4. gap \in Int /\ copy \in Int /\ gap <= made - cursor /\ gap <= Slots /\ 0 <= gap
      /\ (gap < made - cursor => made - cursor > Slots)
  <2>1. copy \in Int
    BY <1>1, Widths DEF Calls
  <2> QED BY <1>1, <1>3, <2>1 DEF Lesser
<1>5. Len(isr'.got) = 0
  BY <1>1, EmptySeq
<1> HIDE DEF gap, copy
<1>6. TypeOK'
  <2>1. ovfPioc' \in Nat
    BY <1>0, <1>1 DEF TypeOK, CountOverrun
  <2>2. overrun' \subseteq 1 .. MaxRec
    <3>1. cursor + 1 .. made - gap \subseteq 1 .. MaxRec
      BY <1>3, <1>4
    <3> QED BY <1>0, <1>1, <3>1 DEF TypeOK
  <2>3. clobbered' \in BOOLEAN
    BY <1>0, <1>1 DEF TypeOK
  <2> QED BY <1>0, <1>1, <1>2, <2>1, <2>2, <2>3 DEF TypeOK
<1>7. CursorsAgree' /\ RegistersHold'
  BY <1>0, <1>2 DEF CursorsAgree, RegistersHold, Top, Cell
<1>8. CallInStep'
  <2>1. isr'.gap = gap /\ isr'.copy = copy
    BY DEF gap, copy
  <2>2. made <= made
    BY <1>3
  <2> QED BY <1>1, <1>2, <1>3, <1>5, <2>1, <2>2 DEF CallInStep
<1>9. CopyExact'
  <2> SUFFICES ASSUME ~clobbered', NEW k \in 0 .. copy - 1
               PROVE  slot[(isr'.first + k) % Slots] = made - gap + k + 1
    BY <1>1, <1>2, <1>5 DEF CopyExact, gap, copy
  <2> DEFINE r == made - gap + k + 1
  <2>0. copy \in Int /\ copy <= gap
    BY <1>1, <1>4 DEF gap, copy
  <2>1. /\ k \in Int /\ 0 <= k /\ k < gap /\ r \in Int
        /\ base + 1 <= r /\ r <= made /\ r > made - Slots
    <3>1. k \in Int /\ 0 <= k /\ k < gap
      BY <1>4, <2>0
    <3> QED BY <1>3, <1>4, <3>1
  <2>2. (isr'.first + k) % Slots = Cell(r)
    <3>1. (((made - gap - base) % Slots) + k) % Slots = Cell(made - gap + k + 1)
      <4>1. made \in Int /\ gap \in Int /\ k \in Int
        BY <1>3, <1>4, <2>1
      <4> HIDE DEF gap
      <4> QED BY <1>0, <4>1, CellAlong, ZenonT(20)
    <3>2. isr'.first = (made - gap - base) % Slots
      BY <1>1 DEF gap
    <3> QED BY <3>1, <3>2
  <2>3. CASE r > Top - Slots
    <3>1. Top = made \/ Top = made + 1
      BY DEF Top
    <3>2. r \in base + 1 .. Top
      BY <1>3, <2>1, <3>1
    <3> QED BY <1>0, <1>1, <2>2, <2>3, <3>2 DEF RegistersHold
  <2>4. CASE ~(r > Top - Slots)
    <3>1. storing /\ Top = made + 1
      BY <1>3, <2>1, <2>4 DEF Top
    <3>2. gap = Slots /\ k = 0
      BY <1>3, <1>4, <2>1, <2>4, <3>1
    <3>3. Cell(r) = Pointer
      <4> DEFINE z == made - base
      <4>1. z \in Int /\ z - Slots = (made + 1 - Slots) - 1 - base /\ r = made + 1 - Slots
        BY <1>3, <3>2
      <4>2. (z - Slots) % Slots = z % Slots
        <5> HIDE DEF z
        <5> QED BY <4>1, OneTurnLess, Widths
      <4> QED BY <4>1, <4>2 DEF Cell, Pointer
    <3>4. Pointer \in Uncopied(isr')
      <4>1. k \in Len(isr'.got) .. isr'.copy - 1
        BY <1>5 DEF copy
      <4> QED BY <1>1, <2>2, <3>3, <4>1 DEF Uncopied
    <3> QED BY <1>1, <3>1, <3>4
  <2> QED BY <2>3, <2>4
<1>10. RamInOrder'
  BY <1>0, <1>2, RamInOrderKept
<1>11. NothingVanishes'
  <2>1. LossesCounted'
    <3>1. CASE made - cursor > Slots
      BY <1>0, <1>1, <1>2, <3>1 DEF NothingVanishes, LossesCounted, CountOverrun, TypeOK
    <3>2. CASE ~(made - cursor > Slots)
      <4>1. cursor + 1 .. made - gap = {}
        BY <1>3, <1>4, <3>2
      <4> QED BY <1>0, <1>1, <1>2, <3>2, <4>1 DEF NothingVanishes, LossesCounted, CountOverrun
    <3> QED BY <3>1, <3>2
  <2>2. Uncounted' \subseteq Uncounted
    BY <1>1, <1>2 DEF Uncounted
  <2> QED BY <1>0, <1>2, <2>1, <2>2 DEF NothingVanishes
<1> QED BY <1>6, <1>7, <1>8, <1>9, <1>10, <1>11 DEF DrainParts, DrainInv
\* One more slot is copied.
LEMMA IsrCopyStep ==
  ASSUME DrainParts, IsrCopy
  PROVE  DrainParts'
<1> DEFINE got == isr.got
           n == Len(got)
           c == (isr.first + n) % Slots
<1>0. /\ TypeOK /\ CursorsAgree /\ RegistersHold /\ CallInStep /\ CopyExact /\ RamInOrder
      /\ NothingVanishes
  BY DEF DrainParts, DrainInv
<1>1. /\ isr.pc = "copy" /\ n < isr.copy /\ isr' = [isr EXCEPT !.got = Append(got, slot[c])]
      /\ UNCHANGED <<piocVars, on, cursors, counters, ram, clobbered, lastTaken, switches>>
  BY DEF IsrCopy
<1>2. /\ UNCHANGED <<made, base, slot, storing, on, cursor, sniffTail, sniffSlot, clobbered>>
      /\ UNCHANGED <<ovfPioc, ramDrop, dropped, overrun, ram, lastTaken>>
  BY <1>1 DEF piocVars, cursors, counters
<1>3. /\ isr \in Calls /\ isr.upto \in Int /\ isr.gap \in Int /\ isr.copy \in Int /\ isr.first \in Int
      /\ got \in Seq(0 .. MaxRec) /\ n \in Nat
  BY <1>0, <1>1, CallTypes
<1>4. slot[c] \in 0 .. MaxRec
  <2>1. isr.first + n \in Int
    BY <1>3
  <2>2. c \in 0 .. Slots - 1
    BY <2>1, Divides, Widths
  <2> HIDE DEF c
  <2> QED BY <1>0, <2>2, DrainTypes
<1> HIDE DEF c
<1>5. /\ isr'.pc = "copy" /\ isr'.got = Append(got, slot[c])
      /\ isr'.head = isr.head /\ isr'.raw = isr.raw /\ isr'.gap = isr.gap
      /\ isr'.first = isr.first /\ isr'.copy = isr.copy /\ isr'.upto = isr.upto
  BY <1>1, <1>3 DEF Calls
<1> HIDE DEF got
<1>6. /\ isr'.got \in Seq(0 .. MaxRec) /\ Len(isr'.got) = n + 1
      /\ \A k \in 1 .. n : isr'.got[k] = got[k]
      /\ isr'.got[n + 1] = slot[c]
  BY <1>3, <1>4, <1>5, AppendProperties
<1> HIDE DEF n
<1>7. TypeOK'
  <2>1. isr' \in Calls
    BY <1>1, <1>3, <1>5, <1>6 DEF Calls
  <2> QED BY <1>0, <1>2, <2>1 DEF TypeOK
<1>8. CursorsAgree' /\ RegistersHold'
  BY <1>0, <1>2 DEF CursorsAgree, RegistersHold, Top, Cell
<1>9. CallInStep'
  <2>1. n + 1 <= isr.copy
    BY <1>1, <1>3
  <2> QED BY <1>0, <1>1, <1>2, <1>5, <1>6, <2>1 DEF CallInStep
<1>10. CopyExact'
  <2> SUFFICES ASSUME ~clobbered
               PROVE  /\ \A k \in 1 .. n + 1 : isr'.got[k] = isr.upto - isr.gap + k
                      /\ \A k \in n + 1 .. isr.copy - 1 :
                           slot[(isr.first + k) % Slots] = isr.upto - isr.gap + k + 1
    BY <1>2, <1>5, <1>6 DEF CopyExact
  <2>1. /\ \A k \in 1 .. n : got[k] = isr.upto - isr.gap + k
        /\ \A k \in n .. isr.copy - 1 :
             slot[(isr.first + k) % Slots] = isr.upto - isr.gap + k + 1
    BY <1>0, <1>1 DEF CopyExact, got, n
  <2>2. slot[c] = isr.upto - isr.gap + (n + 1)
    <3>1. n \in n .. isr.copy - 1
      BY <1>1, <1>3
    <3>2. slot[c] = isr.upto - isr.gap + n + 1
      BY <2>1, <3>1 DEF c
    <3> QED BY <1>3, <3>2
  <2>3. ASSUME NEW k \in 1 .. n + 1 PROVE isr'.got[k] = isr.upto - isr.gap + k
    <3>1. k \in 1 .. n \/ k = n + 1
      BY <1>3
    <3> QED BY <1>6, <2>1, <2>2, <3>1
  <2>4. \A k \in n + 1 .. isr.copy - 1 : k \in n .. isr.copy - 1
    BY <1>3
  <2> QED BY <2>1, <2>3, <2>4
<1>11. RamInOrder' /\ NothingVanishes'
  BY <1>0, <1>1, <1>2, RamInOrderKept, NothingVanishesKept
<1> QED BY <1>7, <1>8, <1>9, <1>10, <1>11 DEF DrainParts, DrainInv

\* Both cursors have passed the gap: the eMCU's pointer is where the drain expects it.
LEMMA GapPassed ==
  ASSUME TypeOK, CallInStep, isr.pc = "copy", PassGap
  PROVE  /\ sniffSlot' = (isr.upto - base) % Slots
         /\ sniffTail' = (isr.upto - base) % HeadW
         /\ cursor' = isr.upto
<1> DEFINE u == isr.upto
           g == isr.gap
           z == u - base
           x == u - g - base
<1>1. /\ cursor' = u /\ sniffTail' = isr.head
      /\ sniffSlot' = IF isr.raw > Slots THEN isr.first ELSE (isr.first + isr.raw) % Slots
  BY DEF PassGap
<1>2. isr.head = z % HeadW /\ g = Lesser(isr.raw, Slots) /\ isr.first = x % Slots
  BY DEF CallInStep
<1>3. u \in Int /\ g \in Int /\ base \in Int /\ isr.raw \in Int /\ Slots \in Int
  BY CallTypes, DrainTypes, Widths
<1>4. CASE isr.raw > Slots
  <2>1. g = Slots
    BY <1>2, <1>3, <1>4 DEF Lesser
  <2> HIDE DEF u, g
  <2>2. z \in Int /\ x = z - Slots
    BY <1>3, <2>1
  <2> HIDE DEF z, x
  <2>3. (z - Slots) % Slots = z % Slots
    BY <2>2, OneTurnLess, Widths
  <2> QED BY <1>1, <1>2, <1>4, <2>2, <2>3 DEF z, u
<1>5. CASE ~(isr.raw > Slots)
  <2>1. g = isr.raw
    BY <1>2, <1>3, <1>5 DEF Lesser
  <2> HIDE DEF u, g
  <2>2. x \in Int /\ x + g = z
    BY <1>3
  <2> HIDE DEF z, x
  <2>3. ((x % Slots) + g) % Slots = (x + g) % Slots
    BY <1>3, <2>2, SumRemainder, Widths
  <2> QED BY <1>1, <1>2, <1>5, <2>1, <2>2, <2>3 DEF z, u
<1> QED BY <1>4, <1>5

\* What the drain leaves in the RAM ring and in its counters accounts for every
\* record it has passed.
LEMMA IsrExitStep ==
  ASSUME DrainParts, IsrExit
  PROVE  DrainParts'
<1> DEFINE u == isr.upto
           g == isr.gap
           n == isr.copy
           got == isr.got
           missed == u - g + n + 1 .. u
<1>0. /\ TypeOK /\ CursorsAgree /\ RegistersHold /\ CallInStep /\ CopyExact /\ RamInOrder
      /\ NothingVanishes
  BY DEF DrainParts, DrainInv
<1>1. /\ isr.pc = "copy" /\ Len(got) = n /\ PassGap /\ ram' = ram \o got
      /\ ramDrop' = ramDrop + g - n /\ dropped' = dropped \cup missed
      /\ isr' = NoIsr
      /\ UNCHANGED <<piocVars, on, ovfPioc, overrun, clobbered, lastTaken, switches>>
  BY DEF IsrExit
<1>2. UNCHANGED <<made, base, slot, storing, on, ovfPioc, overrun, clobbered, lastTaken>>
  BY <1>1 DEF piocVars
<1>3. /\ u \in Int /\ g \in Int /\ n \in Int /\ 0 <= n /\ got \in Seq(0 .. MaxRec)
      /\ made \in Int /\ made <= MaxRec /\ base \in Int /\ 0 <= base /\ cursor \in Int
      /\ lastTaken \in Int /\ ram \in Seq(0 .. MaxRec) /\ Len(ram) \in Nat /\ MaxRec \in Int
      /\ DOMAIN ram = 1 .. Len(ram) /\ RamCap \in Int /\ 0 <= cursor /\ isr.raw \in Int
  BY <1>0, <1>1, CallTypes, DrainTypes, Widths
<1>4. /\ on /\ cursor <= u /\ u <= made /\ isr.raw = u - cursor /\ g = Lesser(isr.raw, Slots)
      /\ n <= g /\ n <= RamCap - Len(ram) /\ cursor + 1 .. u - g \subseteq overrun
  BY <1>0, <1>1 DEF CallInStep
<1>5. cursor <= u - g /\ u \in 0 .. MaxRec /\ base <= cursor
  <2>1. g <= isr.raw
    BY <1>3, <1>4, Widths DEF Lesser
  <2>2. base <= cursor
    BY <1>0 DEF RegistersHold
  <2> HIDE DEF u, g
  <2> QED BY <1>3, <1>4, <2>1, <2>2
<1>6. sniffSlot' = (u - base) % Slots /\ sniffTail' = (u - base) % HeadW /\ cursor' = u
  BY <1>0, <1>1, GapPassed
<1>7. ~clobbered => \A k \in 1 .. n : got[k] = u - g + k
  BY <1>0, <1>1 DEF CopyExact
<1> HIDE DEF u, g, n, got
<1>8. /\ ram' \in Seq(0 .. MaxRec) /\ Len(ram') = Len(ram) + n /\ DOMAIN ram' = 1 .. Len(ram) + n
      /\ \A i \in DOMAIN ram : i \in DOMAIN ram' /\ ram'[i] = ram[i]
      /\ \A k \in 1 .. n : Len(ram) + k \in DOMAIN ram' /\ ram'[Len(ram) + k] = got[k]
      /\ \A i \in DOMAIN ram' : i \in DOMAIN ram \/ \E k \in 1 .. n : i = Len(ram) + k
  <2> DEFINE l == Len(ram)
  <2>1. /\ ram \o got \in Seq(0 .. MaxRec) /\ Len(ram \o got) = l + n
        /\ \A i \in 1 .. l + n : (ram \o got)[i] = IF i <= l THEN ram[i] ELSE got[i - l]
    BY <1>1, <1>3, ConcatProperties
  <2>2. DOMAIN (ram \o got) = 1 .. l + n
    BY <2>1, LenProperties
  <2>3. l \in Nat /\ DOMAIN ram = 1 .. l
    BY <1>3
  <2> HIDE DEF l
  <2>4. \A i \in 1 .. l : i \in 1 .. l + n /\ i <= l
    BY <1>3, <2>3
  <2>5. \A k \in 1 .. n : l + k \in 1 .. l + n /\ ~(l + k <= l) /\ (l + k) - l = k
    BY <1>3, <2>3
  <2>6. ASSUME NEW i \in 1 .. l + n PROVE i \in 1 .. l \/ \E k \in 1 .. n : i = l + k
    <3>1. CASE i <= l
      BY <1>3, <2>3, <3>1
    <3>2. CASE ~(i <= l)
      <4>1. i - l \in 1 .. n /\ i = l + (i - l)
        BY <1>3, <2>3, <3>2
      <4> QED BY <4>1
    <3> QED BY <3>1, <3>2
  <2> QED BY <1>1, <2>1, <2>2, <2>3, <2>4, <2>5, <2>6 DEF l
<1>9. ~clobbered => \A k \in 1 .. n : /\ ram'[Len(ram) + k] = u - g + k
                                     /\ cursor < u - g + k /\ u - g + k <= u
  <2>1. \A k \in 1 .. n : cursor < u - g + k /\ u - g + k <= u
    BY <1>3, <1>4, <1>5, SMTT(20)
  <2> QED BY <1>7, <1>8, <2>1
<1>10. TypeOK'
  <2>1. sniffTail' \in 0 .. HeadW - 1 /\ sniffSlot' \in 0 .. Slots - 1
    <3>1. u - base \in Int
      BY <1>3
    <3> QED BY <1>6, <3>1, Divides, Widths
  <2>2. Len(ram') <= RamCap
    BY <1>3, <1>4, <1>8
  <2>3. ramDrop' \in Nat
    <3>1. ramDrop \in Nat
      BY <1>0 DEF TypeOK
    <3> QED BY <1>1, <1>3, <1>4, <3>1
  <2>4. dropped' \subseteq 1 .. MaxRec
    <3>1. u \in Int /\ u <= MaxRec /\ 1 <= u - g + n + 1
      <4>1. u \in Int /\ 0 <= u - g /\ u <= MaxRec
        BY <1>3, <1>5, SMTT(20)
      <4> QED BY <1>3, <4>1, SMTT(20)
    <3>2. MaxRec \in Int /\ u - g + n + 1 \in Int
      BY <1>3
    <3>3. missed \subseteq 1 .. MaxRec
      <4> HIDE DEF u, g, n
      <4> DEFINE m == u - g + n + 1
      <4>1. m \in Int /\ 1 <= m /\ u \in Int /\ u <= MaxRec /\ MaxRec \in Int
        BY <3>1, <3>2
      <4> HIDE DEF m
      <4> QED BY <4>1 DEF m
    <3> QED BY <1>0, <1>1, <3>3 DEF TypeOK
  <2> QED BY <1>0, <1>1, <1>2, <1>5, <1>6, <1>8, <2>1, <2>2, <2>3, <2>4, SMTT(20) DEF TypeOK
<1>11. CursorsAgree'
  BY <1>2, <1>6 DEF CursorsAgree
<1>12. RegistersHold'
  <2>1. base <= u /\ u <= made
    BY <1>3, <1>4, <1>5
  <2>2. Top - u <= Slots + Late
    <3>1. Top - cursor <= Slots + Late
      BY <1>0, <1>4 DEF RegistersHold
    <3>2. Top \in Int /\ Slots \in Int /\ Late \in Int
      BY <1>0, DrainTypes, Widths
    <3> QED BY <1>3, <1>4, <3>1, <3>2
  <2> QED BY <1>0, <1>2, <1>6, <2>1, <2>2 DEF RegistersHold, Top, Cell
<1>13. CallInStep' /\ CopyExact'
  BY <1>1 DEF CallInStep, CopyExact, NoIsr
<1>14. RamInOrder'
  <2> SUFFICES ASSUME ~clobbered PROVE RamInOrder'
    BY <1>2 DEF RamInOrder
  <2>1. lastTaken <= cursor /\ \A i \in DOMAIN ram : lastTaken < ram[i] /\ ram[i] <= cursor /\ ram[i] \in Int
    <3>1. \A i \in DOMAIN ram : ram[i] \in 0 .. MaxRec
      BY <1>3, ElementOfSeq
    <3>2. \A i \in DOMAIN ram : ram[i] \in Int
      BY <1>3, <3>1
    <3> QED BY <1>0, <3>2 DEF RamInOrder
  <2>2. ASSUME NEW i \in DOMAIN ram' PROVE lastTaken < ram'[i] /\ ram'[i] <= u
    <3>1. CASE i \in DOMAIN ram
      BY <1>3, <1>4, <1>8, <2>1, <3>1
    <3>2. ASSUME NEW k \in 1 .. n, i = Len(ram) + k PROVE lastTaken < ram'[i] /\ ram'[i] <= u
      <4>1. ram'[i] = u - g + k /\ cursor < u - g + k /\ u - g + k <= u /\ k \in Int
        BY <1>9, <3>2
      <4> QED BY <1>3, <2>1, <4>1
    <3> QED BY <1>8, <3>1, <3>2
  <2>3. ASSUME NEW i \in DOMAIN ram', NEW j \in DOMAIN ram', i < j PROVE ram'[i] < ram'[j]
    <3>1. CASE j \in DOMAIN ram
      <4>1. i \in DOMAIN ram
        BY <1>3, <1>8, <2>3, <3>1
      <4> QED BY <1>0, <1>8, <2>3, <3>1, <4>1 DEF RamInOrder
    <3>2. ASSUME NEW k \in 1 .. n, j = Len(ram) + k PROVE ram'[i] < ram'[j]
      <4>1. CASE i \in DOMAIN ram
        <5>1. ram'[i] \in Int /\ ram'[i] <= cursor
          BY <1>8, <2>1, <4>1
        <5>2. ram'[j] = u - g + k /\ cursor < u - g + k /\ k \in Int
          BY <1>9, <3>2
        <5> QED BY <1>3, <5>1, <5>2
      <4>2. ASSUME NEW m \in 1 .. n, i = Len(ram) + m PROVE ram'[i] < ram'[j]
        <5>1. m < k
          BY <1>3, <2>3, <3>2, <4>2
        <5>2. ram'[i] = u - g + m /\ ram'[j] = u - g + k
          BY <1>9, <3>2, <4>2
        <5> QED BY <1>3, <5>1, <5>2
      <4> QED BY <1>8, <4>1, <4>2
    <3> QED BY <1>8, <3>1, <3>2
  <2>4. lastTaken <= u
    BY <1>3, <1>4, <2>1
  <2> QED BY <1>2, <1>6, <2>2, <2>3, <2>4 DEF RamInOrder
<1>15. NothingVanishes'
  <2>1. LossesCounted'
    <3>1. /\ ramDrop = Cardinality(dropped) /\ (overrun # {} => ovfPioc > 0)
          /\ \A r \in dropped : r <= cursor
      BY <1>0 DEF NothingVanishes, LossesCounted
    <3>2. dropped \subseteq 1 .. MaxRec /\ ramDrop \in Nat
      BY <1>0 DEF TypeOK
    <3>3. ASSUME NEW r \in dropped PROVE r <= u /\ r \notin missed
      <4>1. r \in Int /\ r <= cursor
        BY <3>1, <3>2
      <4> QED BY <1>3, <1>4, <1>5, <4>1, SMTT(20)
    <3>4. \A r \in missed : r <= u
      BY <1>3
    <3>5. IsFiniteSet(dropped)
      <4>1. IsFiniteSet(1 .. MaxRec)
        BY <1>3, FS_Interval
      <4> QED BY <3>2, <4>1, FS_Subset
    <3>6. IsFiniteSet(missed) /\ Cardinality(missed) = g - n
      <4> DEFINE a == u - g + n + 1
      <4>1. a \in Int /\ (IF a > u THEN 0 ELSE u - a + 1) = g - n
        BY <1>3, <1>4
      <4> HIDE DEF a
      <4>2. IsFiniteSet(a .. u) /\ Cardinality(a .. u) = (IF a > u THEN 0 ELSE u - a + 1)
        BY <1>3, <4>1, FS_Interval
      <4> QED BY <4>1, <4>2 DEF a
    <3> HIDE DEF missed
    <3>7. dropped \cap missed = {}
      BY <3>3
    <3>8. Cardinality(dropped \cup missed)
            = Cardinality(dropped) + Cardinality(missed) - Cardinality(dropped \cap missed)
      BY <3>5, <3>6, FS_Union
    <3>9. Cardinality(dropped \cup missed) = ramDrop + (g - n) - 0
      BY <3>1, <3>6, <3>7, <3>8, FS_EmptySet
    <3>10. ramDrop' = Cardinality(dropped')
      BY <1>1, <1>3, <3>2, <3>9
    <3> QED BY <1>1, <1>2, <1>6, <3>1, <3>3, <3>4, <3>10 DEF LossesCounted
  <2>2. ASSUME ~clobbered, NEW r \in Uncounted'
        PROVE  r <= lastTaken \/ \E i \in DOMAIN ram' : ram'[i] = r
    <3>1. r \in Int /\ base + 1 <= r /\ r <= u /\ r \notin dropped /\ r \notin missed /\ r \notin overrun
      BY <1>1, <1>2, <1>3, <1>6 DEF Uncounted
    <3>2. CASE r <= cursor
      <4>1. r \in Uncounted
        BY <1>3, <3>1, <3>2 DEF Uncounted
      <4> QED BY <1>0, <1>4, <1>8, <2>2, <4>1 DEF NothingVanishes
    <3>3. CASE ~(r <= cursor)
      <4>1. r > u - g
        <5> SUFFICES ASSUME ~(r > u - g) PROVE FALSE
          OBVIOUS
        <5>1. r \in cursor + 1 .. u - g
          BY <1>3, <3>1, <3>3
        <5> QED BY <1>4, <3>1, <5>1
      <4>2. r <= u - g + n
        BY <1>3, <3>1
      <4>3. r - (u - g) \in 1 .. n /\ r = u - g + (r - (u - g))
        BY <1>3, <3>1, <4>1, <4>2
      <4> QED BY <1>8, <1>9, <2>2, <4>3
    <3> QED BY <3>2, <3>3
  <2> QED BY <1>2, <2>1, <2>2 DEF NothingVanishes
<1> QED BY <1>10, <1>11, <1>12, <1>13, <1>14, <1>15 DEF DrainParts, DrainInv

------------------------------------------------------------------------------
\* Together.

LEMMA DrainStep == DrainParts /\ [Next]_vars => DrainParts'
<1> SUFFICES ASSUME DrainParts, [Next]_vars PROVE DrainParts'
  OBVIOUS
<1>1. CASE PiocStore
  BY <1>1, PiocStoreStep
<1>2. CASE PiocPublish
  BY <1>2, PiocPublishStep
<1>3. CASE IsrEnter
  BY <1>3, IsrEnterStep
<1>4. CASE IsrCopy
  BY <1>4, IsrCopyStep
<1>5. CASE IsrExit
  BY <1>5, IsrExitStep
<1>6. ASSUME NEW n \in 1 .. RamCap, ServiceTakes(n) PROVE DrainParts'
  BY <1>6, ServiceTakesStep
<1>7. CASE Stop
  BY <1>7, StopStep
<1>8. CASE Begin
  BY <1>8, BeginStep
<1>9. CASE UNCHANGED vars
  BY <1>9, DrainStutter
<1> QED BY <1>1, <1>2, <1>3, <1>4, <1>5, <1>6, <1>7, <1>8, <1>9 DEF Next

\* The physical cursor of drainPioc() names the register of the record after the
\* last one drained, and sniffTail_ counts it modulo the width of HEAD, through
\* overruns, drains into a full RAM ring and restarts; the RAM ring stays within
\* its capacity and in the order of capture.
THEOREM DrainInvariant == Spec => []DrainInv
<1>1. Init => DrainParts
  BY DrainInit
<1>2. DrainParts /\ [Next]_vars => DrainParts'
  BY DrainStep
<1>3. DrainParts => DrainInv
  BY DEF DrainParts
<1> QED BY <1>1, <1>2, <1>3, PTL DEF Spec

\* A record the drain has passed is in the RAM ring, was received by the main
\* loop, or is counted: in ramDrop_ one by one, or in ovfPioc_ as an overrun.
THEOREM NothingLostUncounted == Spec => []NothingVanishes
<1>1. Init => DrainParts
  BY DrainInit
<1>2. DrainParts /\ [Next]_vars => DrainParts'
  BY DrainStep
<1>3. DrainParts => NothingVanishes
  BY DEF DrainParts
<1> QED BY <1>1, <1>2, <1>3, PTL DEF Spec

\* service() receives the records in the order of capture, none twice, as long as
\* no slot was overwritten under a running drain.
THEOREM OrderOfCapture == Spec => CaptureOrder
<1>1. Init => DrainParts
  BY DrainInit
<1>2. DrainParts /\ [Next]_vars => DrainParts'
  BY DrainStep
<1>3. DrainParts /\ [Next]_vars
        => [lastTaken' # lastTaken /\ ~clobbered => lastTaken' > lastTaken]_vars
  <2> SUFFICES ASSUME DrainParts, Next, lastTaken' # lastTaken, ~clobbered
               PROVE  lastTaken' > lastTaken
    OBVIOUS
  <2>1. PICK n \in 1 .. RamCap : ServiceTakes(n)
    BY DEF Next, PiocStore, PiocPublish, IsrEnter, IsrCopy, IsrExit, Stop, Begin
  <2>2. n <= Len(ram) /\ lastTaken' = ram[n]
    BY <2>1 DEF ServiceTakes
  <2>3. TypeOK /\ RamInOrder
    BY DEF DrainParts, DrainInv
  <2>4. n \in DOMAIN ram /\ n \in 1 .. Len(ram)
    BY <2>2, <2>3, DrainTypes, Widths
  <2>5. ram[n] \in 0 .. MaxRec
    BY <2>3, <2>4, DrainTypes, ElementOfSeq
  <2>6. ram[n] \in Int /\ lastTaken \in Int
    BY <2>3, <2>5, DrainTypes, Widths
  <2>7. lastTaken < ram[n]
    BY <2>3, <2>4 DEF RamInOrder
  <2> QED BY <2>2, <2>6, <2>7
<1> QED BY <1>1, <1>2, <1>3, PTL DEF Spec, CaptureOrder
------------------------------------------------------------------------------
\* A drain that is never late.

\* While less than a FIFO is waiting, the eMCU's pointer stands on none of the
\* records between the two cursors.
LEMMA PointerIsFree ==
  ASSUME TypeOK, made - cursor < Slots, NEW r \in Int, cursor < r, r <= made
  PROVE  Cell(r) # Pointer
<1>1. made \in Int /\ cursor \in Int /\ Slots \in Int /\ 0 < Slots /\ made + 1 \in Int
  BY DrainTypes, Widths
<1>2. r # made + 1 /\ r - (made + 1) < Slots /\ (made + 1) - r < Slots
  BY <1>1
<1>3. Cell(r) # Cell(made + 1)
  BY <1>1, <1>2, CellsDiffer
<1> QED BY <1>3, PointerCell

\* ... so a drain that starts or runs has none of its slots under the pointer.
LEMMA NothingUnderPointer ==
  ASSUME TypeOK, made - cursor < Slots,
         NEW call, call.upto \in Int, call.gap \in Int, call.copy \in Int, Len(call.got) \in Nat,
         call.upto <= made, call.gap <= call.upto - cursor, call.copy <= call.gap,
         call.first = (call.upto - call.gap - base) % Slots
  PROVE  Pointer \notin Uncopied(call)
<1> DEFINE u == call.upto
           g == call.gap
<1> SUFFICES ASSUME NEW k \in Len(call.got) .. call.copy - 1
             PROVE  (call.first + k) % Slots # Pointer
  BY DEF Uncopied
<1>1. u \in Int /\ g \in Int /\ cursor \in Int /\ made \in Int
  BY DrainTypes
<1>2. u <= made /\ g <= u - cursor /\ call.first = (u - g - base) % Slots
  OBVIOUS
<1>3. k \in Int /\ 0 <= k /\ k < g
  OBVIOUS
<1> HIDE DEF u, g
<1>4. (((u - g - base) % Slots) + k) % Slots = Cell(u - g + k + 1)
  BY <1>1, <1>3, CellAlong, ZenonT(30)
<1>5. u - g + k + 1 \in Int /\ cursor < u - g + k + 1 /\ u - g + k + 1 <= made
  BY <1>1, <1>2, <1>3
<1> QED BY <1>2, <1>4, <1>5, PointerIsFree

LEMMA StaysWhole ==
  ASSUME Late = 0, DrainParts, ~clobbered, [Next]_vars
  PROVE  ~clobbered'
<1>0. TypeOK /\ CursorsAgree /\ RegistersHold /\ CallInStep
  BY DEF DrainParts, DrainInv
<1>1. CASE PiocStore
  <2>1. made - cursor < Slots + 0 /\ clobbered' = (clobbered \/ Pointer \in Uncopied(isr))
    BY <1>1 DEF PiocStore
  <2>2. made - cursor < Slots
    BY <2>1, Widths
  <2>3. CASE isr.pc # "copy"
    BY <2>1, <2>3 DEF Uncopied
  <2>4. CASE isr.pc = "copy"
    <3>1. /\ isr.upto \in Int /\ isr.gap \in Int /\ isr.raw \in Int /\ isr.copy \in Int
          /\ Len(isr.got) \in Nat
      BY <1>0, <2>4, CallTypes
    <3>2. /\ isr.raw = isr.upto - cursor /\ isr.gap = Lesser(isr.raw, Slots) /\ isr.upto <= made
          /\ isr.copy <= isr.gap /\ isr.first = (isr.upto - isr.gap - base) % Slots
      BY <1>0, <2>4 DEF CallInStep
    <3>3. isr.gap <= isr.raw
      BY <3>1, <3>2, Widths DEF Lesser
    <3>4. Pointer \notin Uncopied(isr)
      BY <1>0, <2>2, <3>1, <3>2, <3>3, NothingUnderPointer
    <3> QED BY <2>1, <3>4
  <2> QED BY <2>3, <2>4
<1>2. CASE IsrEnter
  <2>1. /\ isr' \in Calls /\ isr'.gap = Lesser(made - cursor, Slots) /\ isr'.got = <<>>
        /\ isr'.first = (made - isr'.gap - base) % Slots /\ isr'.upto = made
        /\ isr'.copy <= isr'.gap
        /\ clobbered' = (clobbered \/ (storing /\ Pointer \in Uncopied(isr')))
    BY <1>0, <1>2, CallBegins
  <2>2. CASE ~storing
    BY <2>1, <2>2
  <2>3. CASE storing
    <3>1. /\ made \in Int /\ cursor \in Int /\ cursor <= made /\ Slots \in Int
          /\ isr'.gap \in Int /\ isr'.copy \in Int
      BY <1>0, <2>1, DrainTypes, Widths DEF RegistersHold, Calls
    <3>2. made - cursor < Slots
      <4>1. Top - cursor <= Slots + 0 /\ Top = made + 1
        BY <1>0, <1>2, <2>3 DEF RegistersHold, IsrEnter, Top
      <4> QED BY <3>1, <4>1
    <3>3. made <= made /\ isr'.gap <= made - cursor
      BY <2>1, <3>1 DEF Lesser
    <3>4. Len(isr'.got) \in Nat
      BY <2>1, EmptySeq
    <3>5. Pointer \notin Uncopied(isr')
      BY <1>0, <2>1, <3>1, <3>2, <3>3, <3>4, NothingUnderPointer
    <3> QED BY <2>1, <3>5
  <2> QED BY <2>2, <2>3
<1>3. CASE UNCHANGED clobbered
  BY <1>3
<1> QED BY <1>1, <1>2, <1>3 DEF Next, vars, PiocPublish, IsrCopy, IsrExit, ServiceTakes, Stop, Begin

\* pioc/README.md says that the reader never reads the slot being written.  That
\* is so while the PIOC is never more than a whole FIFO ahead of the drain.
THEOREM NoTornReadInTime ==
  ASSUME Late = 0
  PROVE  Spec => []NoTornRead
<1> DEFINE Whole == DrainParts /\ ~clobbered
<1>1. Init => Whole
  BY DrainInit DEF Init
<1>2. Whole /\ [Next]_vars => Whole'
  BY DrainStep, StaysWhole
<1>3. Whole => NoTornRead
  <2> SUFFICES ASSUME Whole, isr.pc = "copy", NEW i \in DOMAIN isr.got
               PROVE  isr.got[i] = isr.upto - isr.gap + i
    BY DEF NoTornRead
  <2>1. TypeOK /\ CopyExact
    BY DEF DrainParts, DrainInv
  <2>2. i \in 1 .. Len(isr.got)
    BY <2>1, CallTypes
  <2> QED BY <2>1, <2>2 DEF CopyExact
<1> QED BY <1>1, <1>2, <1>3, PTL DEF Spec
=============================================================================
