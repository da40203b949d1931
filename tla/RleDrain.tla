------------------------------ MODULE RleDrain ------------------------------
(***************************************************************************)
(* The hot half of the rle capture path: the run counter in the PIOC        *)
(* (pioc/rle_sniffer.ASM) fills a small FIFO of data registers, and         *)
(* drainPioc() moves it to the RAM ring from the 50 kHz TIM3 interrupt.     *)
(*                                                                          *)
(* The eMCU runs concurrently with everything and stores a record in two    *)
(* steps, the slot and then HEAD.  The interrupt reads HEAD once and then   *)
(* the slots one by one.  It preempts the main loop, which appears here     *)
(* only as the consumer of the RAM ring.                                    *)
(*                                                                          *)
(* A record is its number in the order of production.                       *)
(***************************************************************************)
EXTENDS Integers, Sequences, FiniteSets

CONSTANTS
  Slots,      \* RING_SLOTS: physical slots of the FIFO (30)
  HeadW,      \* values of the HEAD register (256), no multiple of Slots
  Late,       \* how many records too many the PIOC may store before a late drain
  RamCap,     \* RING_MASK: usable bytes of the RAM ring (2047)
  MaxRec,     \* bound of a model: records produced
  MaxSwitch   \* bound of a model: times the capture is stopped

ASSUME RleDrainAssumption ==
  /\ {Slots, HeadW, RamCap, MaxRec} \subseteq Nat \ {0}
  /\ {Late, MaxSwitch} \subseteq Nat
  /\ Slots + Late + 1 < HeadW   \* a drain is never a whole turn of HEAD late

VARIABLES
  made,        \* records published since the start of the model
  base,        \* records published before the PIOC was last started
  slot,        \* the data registers: number of the record each one holds
  storing,     \* a record is in its slot and HEAD not incremented yet
  on,          \* TIM3 runs and g_drainTarget is set
  isr,         \* the running drainPioc() call
  sniffTail,   \* sniffTail_: logical cursor, as wide as HEAD
  sniffSlot,   \* sniffSlot_: physical cursor
  ovfPioc,     \* ovfPioc_
  ram,         \* the RAM ring
  ramDrop,     \* ramDrop_
  \* history
  cursor,      \* number of the last record the drain has passed
  dropped,     \* records skipped because the RAM ring was full
  overrun,     \* records skipped because the PIOC was a whole FIFO ahead
  clobbered,   \* a running drain has found a slot overwritten that it still had to copy
  lastTaken,   \* number of the last record the main loop received
  switches

piocVars == <<made, base, slot, storing>>
cursors == <<sniffTail, sniffSlot, cursor>>
counters == <<ovfPioc, ramDrop, dropped, overrun>>
vars == <<piocVars, on, isr, cursors, counters, ram, clobbered, lastTaken, switches>>

Lesser(a, b) == IF a <= b THEN a ELSE b
NoIsr == [pc |-> "off"]

Init ==
  /\ made = 0 /\ base = 0 /\ slot = [s \in 0 .. Slots - 1 |-> 0] /\ storing = FALSE
  /\ on = TRUE /\ isr = NoIsr
  /\ sniffTail = 0 /\ sniffSlot = 0 /\ cursor = 0
  /\ ovfPioc = 0 /\ ramDrop = 0 /\ dropped = {} /\ overrun = {}
  /\ ram = <<>> /\ clobbered = FALSE /\ lastTaken = 0 /\ switches = 0

------------------------------------------------------------------------------
\* PIOC.  The eMCU never looks at the reader: only Late bounds how far ahead of
\* the drain it gets.

\* The slots the running drain still has to copy.
Uncopied(call) ==
  IF call.pc = "copy" THEN {(call.first + k) % Slots : k \in Len(call.got) .. call.copy - 1} ELSE {}

Head8 == (made - base) % HeadW
Pointer == (made - base) % Slots

\* MOVA SFR_INDIR_PORT2: the run count goes to the slot the pointer names.
PiocStore ==
  /\ on /\ ~storing /\ made < MaxRec
  /\ made - cursor < Slots + Late
  /\ slot' = [slot EXCEPT ![Pointer] = made + 1]
  /\ storing' = TRUE
  /\ clobbered' = (clobbered \/ Pointer \in Uncopied(isr))
  /\ UNCHANGED <<made, base, on, isr, cursors, counters, ram, lastTaken, switches>>

\* INC HEAD, and the pointer wraps after the last register.
PiocPublish ==
  /\ storing
  /\ made' = made + 1
  /\ storing' = FALSE
  /\ UNCHANGED <<base, slot, on, isr, cursors, counters, ram, clobbered, lastTaken, switches>>

------------------------------------------------------------------------------
\* TIM3 interrupt: drainPioc().

RamSpace == RamCap - Len(ram)

\* Mutated form: the physical cursor is derived from the logical one.
FirstSlotFromTail(raw) ==
  IF raw > Slots THEN (sniffTail + raw) % Slots ELSE sniffTail % Slots

\* Mutated form: after an overrun the drain starts where it would have without.
FirstSlotUnskipped(raw) == sniffSlot

\* After an overrun the oldest retained slot is the one the PIOC writes next.
FirstSlot(raw) == IF raw > Slots THEN (sniffSlot + raw) % Slots ELSE sniffSlot

CountOverrun(raw) == IF raw > Slots THEN ovfPioc + 1 ELSE ovfPioc

IsrEnter ==
  /\ on /\ isr.pc = "off"
  /\ LET raw == (Head8 - sniffTail) % HeadW
         gap == Lesser(raw, Slots)
     IN /\ isr' = [pc |-> "copy", head |-> Head8, raw |-> raw, gap |-> gap,
                   first |-> FirstSlot(raw), copy |-> Lesser(gap, RamSpace),
                   got |-> <<>>, upto |-> made]
        /\ ovfPioc' = CountOverrun(raw)
        /\ overrun' = overrun \cup (cursor + 1 .. made - gap)
  /\ clobbered' = (clobbered \/ (storing /\ Pointer \in Uncopied(isr')))
  /\ UNCHANGED <<piocVars, on, cursors, ramDrop, dropped, ram, lastTaken, switches>>

IsrCopy ==
  /\ isr.pc = "copy" /\ Len(isr.got) < isr.copy
  /\ isr' = [isr EXCEPT !.got = Append(@, slot[(isr.first + Len(@)) % Slots])]
  /\ UNCHANGED <<piocVars, on, cursors, counters, ram, clobbered, lastTaken, switches>>

\* Both cursors pass the whole gap, copied or not.
PassGap ==
  /\ sniffSlot' = IF isr.raw > Slots THEN isr.first ELSE (isr.first + isr.raw) % Slots
  /\ sniffTail' = isr.head
  /\ cursor' = isr.upto

\* What did not fit the RAM ring is counted: each such byte is a capture loss.
IsrExit ==
  /\ isr.pc = "copy" /\ Len(isr.got) = isr.copy
  /\ PassGap
  /\ ram' = ram \o isr.got
  /\ ramDrop' = ramDrop + isr.gap - isr.copy
  /\ dropped' = dropped \cup (isr.upto - isr.gap + isr.copy + 1 .. isr.upto)
  /\ isr' = NoIsr
  /\ UNCHANGED <<piocVars, on, ovfPioc, overrun, clobbered, lastTaken, switches>>

------------------------------------------------------------------------------
\* Main loop, while the interrupt does not run.

\* service() consumes n bytes from the RAM ring.
ServiceTakes(n) ==
  /\ isr.pc = "off" /\ n <= Len(ram)
  /\ ram' = SubSeq(ram, n + 1, Len(ram))
  /\ lastTaken' = ram[n]
  /\ UNCHANGED <<piocVars, on, isr, cursors, counters, clobbered, switches>>

\* stop(): timer and target off, PIOC halted wherever it is, RAM ring flushed.
Stop ==
  /\ isr.pc = "off" /\ on /\ switches < MaxSwitch
  /\ on' = FALSE /\ ram' = <<>>
  /\ made' = IF storing THEN made + 1 ELSE made
  /\ storing' = FALSE
  /\ switches' = switches + 1
  /\ UNCHANGED <<base, slot, isr, cursors, counters, clobbered, lastTaken>>

\* Mutated form: the physical cursor survives a restart.
RestartTail == sniffTail' = 0 /\ sniffSlot' = sniffSlot

RestartCursors == sniffTail' = 0 /\ sniffSlot' = 0

\* begin(): the blob restarts at HEAD 0 and slot 0 - its registers keep what
\* they held - and the cursors and counters with it.
Begin ==
  /\ ~on
  /\ on' = TRUE
  /\ base' = made /\ cursor' = made
  /\ RestartCursors
  /\ ovfPioc' = 0 /\ ramDrop' = 0 /\ dropped' = {} /\ overrun' = {}
  /\ UNCHANGED <<made, slot, storing, isr, ram, clobbered, lastTaken, switches>>

Next ==
  \/ PiocStore \/ PiocPublish
  \/ IsrEnter \/ IsrCopy \/ IsrExit
  \/ \E n \in 1 .. RamCap : ServiceTakes(n)
  \/ Stop \/ Begin

Spec == Init /\ [][Next]_vars

------------------------------------------------------------------------------
Calls == [pc : {"copy"}, head : 0 .. HeadW - 1, raw : 0 .. HeadW - 1, gap : 0 .. Slots,
          first : 0 .. Slots - 1, copy : 0 .. Slots, got : Seq(0 .. MaxRec), upto : 0 .. MaxRec]

\* Types; in particular the RAM ring is never overfilled.
TypeOK ==
  /\ {made, base, cursor, lastTaken} \subseteq 0 .. MaxRec
  /\ slot \in [0 .. Slots - 1 -> 0 .. MaxRec]
  /\ storing \in BOOLEAN /\ on \in BOOLEAN /\ clobbered \in BOOLEAN
  /\ sniffTail \in 0 .. HeadW - 1 /\ sniffSlot \in 0 .. Slots - 1
  /\ {ovfPioc, ramDrop} \subseteq Nat
  /\ dropped \subseteq 1 .. MaxRec /\ overrun \subseteq 1 .. MaxRec
  /\ ram \in Seq(0 .. MaxRec) /\ Len(ram) <= RamCap
  /\ isr = NoIsr \/ isr \in Calls

\* drainPioc()'s physical cursor stays in step with the eMCU's pointer, which
\* wraps at Slots while HEAD wraps at a power of two that Slots does not divide
\* ("never derive a slot with a mask or modulo"), through overruns, drains into
\* a full RAM ring, and restarts.
CursorsAgree ==
  on =>
    /\ sniffSlot = (cursor - base) % Slots
    /\ sniffTail = (cursor - base) % HeadW

\* The last record in a register, published or not, and the register of record r.
Top == IF storing THEN made + 1 ELSE made
Cell(r) == (r - 1 - base) % Slots

\* The registers hold the last records, and the drain is not too late.
RegistersHold ==
  /\ base <= cursor /\ cursor <= made /\ (storing => on /\ made < MaxRec)
  /\ on => /\ Top - cursor <= Slots + Late
           /\ \A r \in base + 1 .. Top : r > Top - Slots => slot[Cell(r)] = r

\* A running drain stands between cursor and made, and what it skips is noted.
CallInStep ==
  isr.pc = "copy" =>
    /\ on /\ cursor <= isr.upto /\ isr.upto <= made
    /\ isr.head = (isr.upto - base) % HeadW
    /\ isr.raw = isr.upto - cursor /\ isr.gap = Lesser(isr.raw, Slots)
    /\ isr.first = (isr.upto - isr.gap - base) % Slots
    /\ Len(isr.got) <= isr.copy /\ isr.copy <= isr.gap /\ isr.copy <= RamCap - Len(ram)
    /\ cursor + 1 .. isr.upto - isr.gap \subseteq overrun

\* Unless a slot was overwritten under it, a drain copies the records it claims to ...
CopyExact ==
  isr.pc = "copy" /\ ~clobbered =>
    /\ \A k \in 1 .. Len(isr.got) : isr.got[k] = isr.upto - isr.gap + k
    /\ \A k \in Len(isr.got) .. isr.copy - 1 :
         slot[(isr.first + k) % Slots] = isr.upto - isr.gap + k + 1

\* ... and the RAM ring holds them in order.
RamInOrder ==
  ~clobbered =>
    /\ lastTaken <= cursor
    /\ \A k \in DOMAIN ram : lastTaken < ram[k] /\ ram[k] <= cursor
    /\ \A j, k \in DOMAIN ram : j < k => ram[j] < ram[k]

\* Types, both cursors in step with the PIOC, and what the drain finds and leaves.
DrainInv == TypeOK /\ CursorsAgree /\ RegistersHold /\ CallInStep /\ CopyExact /\ RamInOrder

\* What the interrupt passed without copying is accounted for exactly: the drops
\* one by one in ramDrop_, an overrun at least once in ovfPioc_.
LossesCounted ==
  /\ ramDrop = Cardinality(dropped) /\ \A r \in dropped : r <= cursor
  /\ overrun # {} => ovfPioc > 0

\* As long as the PIOC has not overwritten a slot under a running drain (which a
\* late one risks), the bytes reach the main loop in the order of capture, none twice.
CaptureOrder == [][lastTaken' # lastTaken /\ ~clobbered => lastTaken' > lastTaken]_vars

\* ... and the ones missing are exactly those that are counted.
Uncounted == {r \in base + 1 .. cursor : r \notin dropped /\ r \notin overrun}
NothingVanishes ==
  /\ LossesCounted
  /\ on /\ ~clobbered =>
       \A r \in Uncounted : r <= lastTaken \/ \E i \in DOMAIN ram : ram[i] = r

\* pioc/README.md and the clocked blob's header claim that the reader never
\* reads the slot being written: what a finished drain copied is what the PIOC
\* had published in that place.
NoTornRead ==
  isr.pc = "copy" =>
    \A i \in DOMAIN isr.got : isr.got[i] = isr.upto - isr.gap + i
==============================================================================
