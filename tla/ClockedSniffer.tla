--------------------------- MODULE ClockedSniffer ---------------------------
(***************************************************************************)
(* The clocked capture path: the sampler in the PIOC                        *)
(* (pioc/clocked_sniffer.ASM) packs bits into bytes and publishes them in a *)
(* FIFO of data registers; ClockedSniffer::service() cuts the bytes into    *)
(* burst records and stages them in its RAM ring for USB.                   *)
(*                                                                          *)
(* There is no interrupt: the sampler runs concurrently with every step of  *)
(* service().  It cannot be parked, so a partial byte is recovered by       *)
(* reading its accumulator and restarting it.                               *)
(*                                                                          *)
(* Bits are numbered in the order of sampling; a chunk of a record is the   *)
(* number of its first bit and how many bits it has (a whole byte, or the   *)
(* flushed partial).                                                        *)
(***************************************************************************)
EXTENDS Integers, Sequences

CONSTANTS
  ByteBits,   \* bits in a byte (8)
  Slots,      \* RING_SLOTS (16)
  HeadW,      \* values of the HEAD register (256)
  Late,       \* how many bytes beyond Slots the sampler may be ahead of the drain
  BurstMax,   \* BURST_MAX: bytes in a record (768)
  Overhead,   \* bytes a record takes beside its payload
  ModeLen,    \* bytes of the [MODE clocked ...] block
  RamCap,     \* RING_SZ (2048)
  MaxBits,    \* bound of a model: bits on the bus
  MaxStops    \* bound of a model: mode switches

ASSUME ClockedSnifferAssumption ==
  /\ {ByteBits, Slots, HeadW, BurstMax, Overhead, ModeLen, RamCap, MaxBits} \subseteq Nat \ {0}
  /\ {Late, MaxStops} \subseteq Nat
  /\ HeadW % Slots = 0 /\ Slots + Late < HeadW
  /\ Overhead + BurstMax <= RamCap /\ 1 + ModeLen <= RamCap

VARIABLES
  bit,         \* bits sampled so far
  accN,        \* valid bits in ACC
  head, slot,  \* HEAD, and the first bit of the byte each data register holds
  tail,        \* sniffTail_
  pc,          \* where the main loop stands
  h,           \* service()'s snapshot of HEAD
  kbits, kfirst, \* service()'s snapshot of ACC: valid bits, number of the first
  open, buf,   \* burstOpen_, burstBuf_ up to burstN_
  needTerminal,\* burstNeedTerminal_
  ovfPioc, ovfRam, \* the counters are above zero
  watched,     \* partialSeenBits_ is above zero
  sniffOld, partialOld, aged, \* more than 3 ms since sniffLastMs_ and partialSeenMs_, 50 ms
                              \* since burstT0_
  got,         \* service(): a byte was drained
  ramUsed,     \* bytes in the RAM ring
  \* history
  rec,         \* the last record staged
  lastBit,     \* the last bit staged, or flagged as lost by an empty record
  moved,       \* bits have been sampled since service() read HEAD
  long,        \* the call began with all drained and the bus silent beyond both timeouts
  settled,     \* ... and ended undisturbed
  excused,     \* the sampler has overtaken a running drain, or been restarted while it ran
  stops

sampler == <<bit, accN, head, slot>>
snapshots == <<h, kbits, kfirst, got, long>>
burst == <<open, buf>>
clock == <<sniffOld, partialOld>>
output == <<ramUsed, rec, lastBit, needTerminal, ovfPioc, ovfRam>>
vars == <<sampler, tail, pc, snapshots, burst, output, watched, clock, aged, moved, settled,
          excused, stops>>

Ahead == (head - tail) % HeadW
Passed == bit - accN - ByteBits * Ahead   \* the last bit the drain has passed
Last(c) == c.first + c.n - 1
NoRec == [continued |-> FALSE, flagged |-> FALSE, gap |-> "none"]

Init ==
  /\ bit = 0 /\ accN = 0 /\ head = 0 /\ slot = [s \in 0 .. Slots - 1 |-> 0]
  /\ tail = 0 /\ pc = "idle" /\ h = 0 /\ kbits = 0 /\ kfirst = 0 /\ got = FALSE /\ long = FALSE
  /\ open = FALSE /\ buf = <<>> /\ needTerminal = FALSE
  /\ ovfPioc = FALSE /\ ovfRam = FALSE
  /\ watched = FALSE /\ sniffOld = FALSE /\ partialOld = FALSE /\ aged = FALSE
  /\ ramUsed = 1 + ModeLen             \* begin(): a boundary and the mode
  /\ rec = NoRec /\ lastBit = 0
  /\ moved = FALSE /\ settled = FALSE /\ excused = FALSE /\ stops = 0

------------------------------------------------------------------------------
\* The sampler: one bit; the eighth completes a byte, which is stored and
\* published.

Draining == pc = "drain" /\ tail # h

Sample ==
  /\ pc # "off" /\ bit < MaxBits
  /\ bit' = bit + 1
  /\ IF accN + 1 < ByteBits
     THEN accN' = accN + 1 /\ UNCHANGED <<head, slot, excused>>
     ELSE /\ Ahead < Slots + Late
          /\ accN' = 0
          /\ slot' = [slot EXCEPT ![head % Slots] = bit + 2 - ByteBits]
          /\ head' = (head + 1) % HeadW
          /\ excused' = (excused \/ (Draining /\ Ahead >= Slots))
  /\ moved' = (pc \notin {"idle", "loading"}) /\ settled' = FALSE
  /\ UNCHANGED <<tail, pc, snapshots, burst, output, watched, clock, aged, stops>>

------------------------------------------------------------------------------
\* The clock of the main loop.

\* The bus is silent for 3 ms.
Pause ==
  /\ pc = "idle"
  /\ sniffOld' = TRUE /\ partialOld' = watched
  /\ UNCHANGED <<sampler, tail, pc, snapshots, burst, output, watched, aged, moved, settled,
                 excused, stops>>

\* partialSeenMs_ ages under traffic too, if no call happens to find ACC empty.
PartialAges ==
  /\ pc = "idle" /\ watched /\ ~partialOld
  /\ partialOld' = TRUE
  /\ UNCHANGED <<sampler, tail, pc, snapshots, burst, output, watched, sniffOld, aged, moved,
                 settled, excused, stops>>

\* 50 ms since the burst was opened: micros() is read at every use.
Age ==
  /\ open /\ ~aged
  /\ aged' = TRUE
  /\ UNCHANGED <<sampler, tail, pc, snapshots, burst, output, watched, clock, moved, settled,
                 excused, stops>>

------------------------------------------------------------------------------
\* emitRecord().

\* What a listener misses when chunks follow bit number prev.
Gap(chunks, prev) ==
  LET before(k) == IF k = 1 THEN prev ELSE Last(chunks[k - 1]) IN
  CASE \E k \in DOMAIN chunks : chunks[k].first <= before(k)    -> "disorder"
    [] \E k \in DOMAIN chunks : k > 1 /\ chunks[k].first > before(k) + 1 -> "inside"
    [] chunks # <<>> /\ chunks[1].first > prev + 1 -> "before"
    [] OTHER -> "none"

\* Mutated form: the flags are cleared although the record was dropped.
DropForgetting == ovfRam' = FALSE /\ ovfPioc' = FALSE

Drop == ovfRam' = TRUE /\ UNCHANGED ovfPioc

KeepTerminal == UNCHANGED needTerminal

\* The record is staged whole or dropped; the flags are cleared only on delivery.
Emit(chunks, continued) ==
  LET size == Overhead + Len(chunks) IN
  /\ open' = FALSE /\ buf' = <<>> /\ aged' = FALSE
  /\ IF ramUsed + size <= RamCap
     THEN /\ ramUsed' = ramUsed + size
          /\ rec' = [continued |-> continued, flagged |-> ovfPioc \/ ovfRam,
                     gap |-> Gap(chunks, lastBit)]
          /\ lastBit' = IF chunks # <<>> THEN Last(chunks[Len(chunks)])
                        ELSE IF ovfPioc \/ ovfRam THEN Passed ELSE lastBit
          /\ ovfPioc' = FALSE /\ ovfRam' = FALSE
          /\ needTerminal' = continued
     ELSE /\ Drop /\ KeepTerminal
          /\ UNCHANGED <<ramUsed, rec, lastBit>>

------------------------------------------------------------------------------
\* service().

\* The heartbeat, if it is due and fits; then HEAD is read once.
ServiceBegin ==
  /\ pc = "idle"
  /\ ramUsed' \in {ramUsed} \cup {u \in {ramUsed + ModeLen} : u <= RamCap}
  /\ h' = head
  /\ ovfPioc' = (ovfPioc \/ Ahead > Slots)
  /\ tail' = IF Ahead > Slots THEN (head - Slots) % HeadW ELSE tail
  /\ got' = FALSE
  /\ pc' = "drain"
  /\ moved' = FALSE
  /\ long' = (sniffOld /\ tail = head /\ (accN = 0 \/ (watched /\ partialOld)))
  /\ UNCHANGED <<sampler, kbits, kfirst, burst, rec, lastBit, needTerminal, ovfRam, watched,
                 clock, aged, settled, excused, stops>>

Full(b) == Len(b) >= BurstMax

\* One byte; a full buffer is a record that the next byte continues.
DrainByte ==
  LET grown == Append(buf, [first |-> slot[tail % Slots], n |-> ByteBits]) IN
  /\ Draining
  /\ tail' = (tail + 1) % HeadW
  /\ got' = TRUE
  /\ IF Full(grown)
     THEN Emit(grown, TRUE)
     ELSE open' = TRUE /\ buf' = grown /\ UNCHANGED <<aged, output>>
  /\ UNCHANGED <<sampler, pc, h, kbits, kfirst, long, watched, clock, moved, settled, excused,
                 stops>>

\* ACC is read: its sentinel says how many bits are valid.
ReadAcc ==
  /\ pc = "drain" /\ tail = h
  /\ kbits' = accN /\ kfirst' = bit - accN + 1
  /\ sniffOld' = (sniffOld /\ ~got)
  /\ watched' = (accN > 0)
  /\ partialOld' = (partialOld /\ watched /\ accN > 0)
  /\ pc' = "finalize"
  /\ UNCHANGED <<sampler, tail, h, got, long, burst, output, aged, moved, settled, excused, stops>>

\* Mutated form: a partial byte is flushed only with an open burst.
PartialNeverAlone == FALSE

PartialOnlyIdle == kbits > 0 /\ ~open /\ ~needTerminal /\ partialOld

Idle == (open \/ needTerminal) /\ sniffOld
Partial == IF kbits > 0 THEN <<[first |-> kfirst, n |-> kbits]>> ELSE <<>>

\* The bus is idle: the record is closed, with the partial byte or - to close a
\* chain - empty.
FinalizeIdle ==
  /\ pc = "finalize" /\ (Idle \/ PartialOnlyIdle)
  /\ Emit(buf \o Partial, FALSE)
  /\ pc' = IF kbits > 0 THEN "restart" ELSE "ship"
  /\ excused' = (excused \/ (kbits > 0 /\ moved))
  /\ UNCHANGED <<sampler, tail, snapshots, watched, clock, moved, settled, stops>>

\* Continuous traffic: the record is bounded in time.
FinalizeAged ==
  /\ pc = "finalize" /\ ~(Idle \/ PartialOnlyIdle) /\ open /\ aged
  /\ Emit(buf, FALSE)
  /\ pc' = "ship"
  /\ UNCHANGED <<sampler, tail, snapshots, watched, clock, moved, settled, excused, stops>>

FinalizeNothing ==
  /\ pc = "finalize" /\ ~(Idle \/ PartialOnlyIdle) /\ ~(open /\ aged)
  /\ pc' = "ship"
  /\ UNCHANGED <<sampler, tail, snapshots, burst, output, watched, clock, aged, moved, settled,
                 excused, stops>>

\* Mutated form: ACC is not reseeded.
RestartAccKept == UNCHANGED accN

RestartAcc == accN' = 0

\* restartPioc(): the flushed bits must not come again.
Restart ==
  /\ pc = "restart"
  /\ RestartAcc
  /\ head' = 0 /\ tail' = 0
  /\ watched' = FALSE
  /\ excused' = (excused \/ moved)
  /\ pc' = "ship"
  /\ UNCHANGED <<bit, slot, snapshots, burst, output, clock, aged, moved, settled, stops>>

\* Stage 2: what the transmit ring takes leaves the RAM ring.
Ship ==
  /\ pc = "ship"
  /\ ramUsed' \in 0 .. ramUsed
  /\ pc' = "idle"
  /\ settled' = (settled \/ (long /\ ~moved))
  /\ h' = 0 /\ kbits' = 0 /\ kfirst' = 0 /\ got' = FALSE /\ long' = FALSE /\ moved' = FALSE
  /\ UNCHANGED <<sampler, tail, burst, rec, lastBit, needTerminal, ovfPioc, ovfRam, watched,
                 clock, aged, excused, stops>>

Service ==
  \/ ServiceBegin \/ DrainByte \/ ReadAcc
  \/ FinalizeIdle \/ FinalizeAged \/ FinalizeNothing
  \/ Restart \/ Ship

------------------------------------------------------------------------------
\* Mode switch.

Stop ==
  /\ pc = "idle" /\ stops < MaxStops
  /\ pc' = "off" /\ stops' = stops + 1
  /\ ramUsed' = 0
  /\ open' = FALSE /\ buf' = <<>> /\ needTerminal' = FALSE /\ watched' = FALSE
  /\ aged' = FALSE /\ settled' = FALSE
  /\ UNCHANGED <<sampler, tail, snapshots, rec, lastBit, ovfPioc, ovfRam, clock, moved, excused>>

\* begin(): the blob is loaded and runs for a millisecond before HEAD is read.
LoadBlob ==
  /\ pc = "off"
  /\ pc' = "loading"
  /\ accN' = 0 /\ head' = 0
  /\ UNCHANGED <<bit, slot, tail, snapshots, burst, output, watched, clock, aged, moved, settled,
                 excused, stops>>

Begin ==
  /\ pc = "loading"
  /\ pc' = "idle"
  /\ tail' = head
  /\ sniffOld' = FALSE /\ partialOld' = FALSE
  /\ ovfPioc' = FALSE /\ ovfRam' = FALSE
  /\ ramUsed' = 1 + ModeLen
  /\ rec' = NoRec /\ lastBit' = bit - accN
  /\ UNCHANGED <<sampler, snapshots, burst, needTerminal, watched, aged, moved, settled, excused,
                 stops>>

Next == Sample \/ Pause \/ PartialAges \/ Age \/ Service \/ Stop \/ LoadBlob \/ Begin

Spec == Init /\ [][Next]_vars

\* The main loop never stops, the bus falls silent in the end (MaxBits), and the
\* host reads on: again and again a call empties the RAM ring.
ShipAll == Ship /\ ramUsed' = 0
FairSpec ==
  /\ Spec
  /\ WF_vars(Service) /\ WF_vars(LoadBlob \/ Begin)
  /\ SF_vars(Pause) /\ SF_vars(ShipAll)

------------------------------------------------------------------------------
Chunks == [first : Nat, n : Nat]
Records == [continued : BOOLEAN, flagged : BOOLEAN, gap : {"none", "before", "inside", "disorder"}]

\* Types; in particular the RAM ring and the burst buffer are never overfilled.
TypeOK ==
  /\ bit \in 0 .. MaxBits /\ lastBit \in 0 .. MaxBits
  /\ accN \in 0 .. ByteBits - 1 /\ accN <= bit
  /\ kbits \in 0 .. ByteBits - 1 /\ kfirst \in 0 .. MaxBits + 1
  /\ {head, tail, h} \subseteq 0 .. HeadW - 1
  /\ slot \in [0 .. Slots - 1 -> 0 .. MaxBits]
  /\ pc \in {"idle", "drain", "finalize", "restart", "ship", "off", "loading"}
  /\ buf \in Seq(Chunks) /\ Len(buf) < BurstMax /\ (~open => buf = <<>>)
  /\ ramUsed \in 0 .. RamCap
  /\ rec \in Records
  /\ {open, needTerminal, ovfPioc, ovfRam, watched, sniffOld, partialOld, aged, got, moved, long,
      settled, excused} \subseteq BOOLEAN

Running == pc \notin {"off", "loading"}
Flagged == ovfPioc \/ ovfRam

\* The registers hold the last bytes before ACC, and no byte is waiting of
\* before the sampler was last started.
SlotsHold ==
  Running =>
    /\ Passed >= 0 /\ Ahead <= Slots + Late
    /\ \A d \in 1 .. Ahead :
         d <= Slots => slot[(head - d) % Slots] = bit - accN - ByteBits * d + 1

\* A running call stands between its snapshots and the sampler; between two modes
\* nothing is left of the last one.
CallInStep ==
  /\ ~Running => ~open /\ ~settled
  /\ pc = "drain" => (h - tail) % HeadW <= Ahead /\ (Draining /\ ~excused => Ahead <= Slots)
  /\ pc \in {"drain", "finalize"} /\ ~moved => h = head
  /\ pc = "finalize" =>
       /\ tail = h /\ 1 <= kfirst /\ kfirst + kbits - 1 <= bit
       /\ ~moved => kbits = accN /\ kfirst = bit - accN + 1

\* Chunks that follow bit number prev, in order and without a gap.
Ordered(chunks, prev) ==
  \A k \in DOMAIN chunks : chunks[k].first > (IF k = 1 THEN prev ELSE Last(chunks[k - 1]))
Seamless(chunks, prev) ==
  \A k \in DOMAIN chunks : chunks[k].first = (IF k = 1 THEN prev ELSE Last(chunks[k - 1])) + 1

\* What is staged, what the burst holds and what waits in the registers follow
\* one another bit for bit, or an overflow flag is up.
BitsInStep ==
  /\ \A k \in DOMAIN buf : 1 <= buf[k].n /\ Last(buf[k]) <= bit
  /\ Running /\ ~excused =>
       /\ Ordered(buf, lastBit) /\ (Seamless(buf, lastBit) \/ Flagged)
       /\ IF pc = "restart" THEN buf = <<>> /\ (~moved => lastBit = bit \/ (lastBit < bit /\ Flagged))
          ELSE IF buf = <<>> THEN lastBit = Passed \/ (lastBit < Passed /\ Flagged)
          ELSE LET end == Last(buf[Len(buf)]) IN
               lastBit < end /\ (end = Passed \/ (end < Passed /\ Draining /\ ovfPioc))

\* Every record follows the one before it bit for bit, or says by its overflow
\* flags that something is missing.  Excused are a sampler that overtook a
\* running drain and one that ran while it was restarted.
RecordsHonest ==
  ~excused => rec.gap # "disorder" /\ (rec.gap # "none" => rec.flagged)

\* A burst closed for the pause it stands before.
Closed == accN = 0 /\ ~open /\ (rec.continued => ovfRam)

\* What a call that begins after a long silence, and meets no new bit, does
\* step by step; and that what it leaves stays so as long as the silence lasts.
SilenceKept ==
  /\ Running /\ rec.continued => needTerminal
  /\ settled => ~moved /\ (Running => Closed /\ tail = head)
  /\ long /\ ~moved =>
       /\ pc = "drain" => /\ tail = h /\ ~got /\ sniffOld
                          /\ accN = 0 \/ (watched /\ partialOld)
       /\ pc = "finalize" => sniffOld /\ (accN = 0 \/ partialOld)
       /\ pc = "restart" => ~open /\ (rec.continued => ovfRam)
       /\ pc = "ship" => Closed /\ tail = head

\* Types, honest records, and what they rest on.
ClockedInv ==
  TypeOK /\ SlotsHold /\ CallInStep /\ BitsInStep /\ RecordsHonest /\ SilenceKept

\* "Overflow is a loss seam before the flagged record": what is missing is missing
\* in front of it, and its payload can be decoded as one run of bits.
LossBeforeRecord == ~excused => rec.gap # "inside"

\* A pause between bursts separates them: "a mid-byte stop ... NEVER bleeds 1..7
\* bits into the next burst", the record is closed, and so is a chain of
\* continued records, unless its last one was dropped, which is flagged.
PauseSeparates ==
  settled /\ pc = "idle" => accN = 0 /\ ~open /\ (rec.continued => ovfRam)

\* A chain of continued records comes to its end; and once the bus is silent for
\* good, every bit has been staged for the host or is about to be flagged as lost.
LastBitsDelivered ==
  /\ rec.continued ~> ~rec.continued
  /\ <>[](lastBit = bit \/ ovfRam \/ excused)
==============================================================================
