----------------------------- MODULE RleService -----------------------------
(***************************************************************************)
(* The cold half of the rle capture path: RleSniffer::service() squelches   *)
(* the RAM ring into the USB transmit ring, marks losses, separates frames  *)
(* and repeats the mode while the bus is quiet.                             *)
(*                                                                          *)
(* RleDrain shows what the TIM3 interrupt hands over; here it is one step,  *)
(* possible between any two steps of the main loop.  Of a record only its   *)
(* number and its kind matter: "run" ends a run of one level (below 128),   *)
(* "cap" continues a longer one.  After MaxRec records the bus stays idle   *)
(* for ever: an endless run of caps that share the number MaxRec + 1.       *)
(*                                                                          *)
(* Records are lost in two ways.  A full RAM ring is counted in ramDrop_,   *)
(* which service() compares with its watermark.  An interrupt that comes    *)
(* too late for the PIOC FIFO passes over records and counts that in        *)
(* ovfPioc_, which service() never looks at.                                *)
(*                                                                          *)
(* The transmit ring is a fill level: what it carries is summarised by the  *)
(* last record written and what has been written since (Ring shows that     *)
(* it is a FIFO).                                                           *)
(***************************************************************************)
EXTENDS Integers, Sequences

CONSTANTS
  RamCap,      \* RING_MASK: bytes the RAM ring holds (2047)
  TxCap,       \* capacity of the transmit ring (512)
  Burst,       \* bytes drained per call at most (192)
  PumpEvery,   \* PUMP_EVERY: bytes between two looks at the endpoint (16)
  CapIdle,     \* CAP_IDLE_K: consecutive caps that mean idle (150)
  ModeLen,     \* bytes of the [MODE rle ...] block with its leading 0xFF
  MaxRec,      \* bound of a model: records before the bus goes quiet
  MaxDrop,     \* bound of a model: drops of an interrupt that finds the ring full
  MaxOverrun,  \* bound of a model: interrupts that come too late for the FIFO
  MaxSkip,     \* bound of a model: records such an interrupt passes over
  MaxSwitch    \* bound of a model: times the capture is stopped

ASSUME RleServiceAssumption ==
  /\ {RamCap, TxCap, Burst, PumpEvery, CapIdle, ModeLen, MaxRec} \subseteq Nat \ {0}
  /\ {MaxDrop, MaxOverrun, MaxSkip, MaxSwitch} \subseteq Nat
  /\ ModeLen <= TxCap

VARIABLES
  on,          \* the capture runs
  made,        \* records the interrupt has delivered
  ram,         \* the RAM ring from tail_ to head_
  ramDrop,     \* ramDrop_
  ovfPioc,     \* ovfPioc_
  pc,          \* service(): where it stands
  n, i, cap,   \* service(): bytes to drain, drained, contiguous transmit room
  out,         \* service(): bytes written in place and not committed
  saw,         \* service(): sawActivity
  capRun, capPiped,     \* the squelch
  lossSeen,    \* lossSeen_
  sniffActive, \* sniffActive_
  lapsed,      \* more than 3 ms have passed since sniffLastMs_
  hbDue,       \* modeHbMs_ has been reached
  txUsed,      \* bytes waiting in the transmit ring
  \* history
  lost,        \* records the interrupt passed over or found no room for
  lastOut,     \* number of the last record written to the host
  cut,         \* a 0xFF has been written since
  untold,      \* how records have been lost since the last 0xFD
  switches

drainVars == <<n, i, cap, out>>
timeVars == <<lapsed, hbDue>>
inVars == <<made, ram, ramDrop, ovfPioc, lost>>
outVars == <<txUsed, lastOut, cut>>
vars == <<on, inVars, pc, drainVars, saw, capRun, capPiped, lossSeen, sniffActive, timeVars,
          outVars, untold, switches>>

Lesser(a, b) == IF a <= b THEN a ELSE b
Free == TxCap - txUsed

Init ==
  /\ on = TRUE /\ made = 0 /\ ram = <<>> /\ ramDrop = 0 /\ ovfPioc = 0 /\ lost = {}
  /\ pc = "idle" /\ n = 0 /\ i = 0 /\ cap = 0 /\ out = 0 /\ saw = FALSE
  /\ capRun = 0 /\ capPiped = FALSE /\ lossSeen = 0 /\ sniffActive = FALSE
  /\ lapsed = FALSE /\ hbDue = FALSE
  /\ txUsed = ModeLen                       \* begin() has announced the mode
  /\ lastOut = 0 /\ cut = TRUE /\ untold = {} /\ switches = 0

------------------------------------------------------------------------------
\* TIM3 interrupt, clock and host.

\* drainPioc() for one record.  A late interrupt (skip > 0) passes over the
\* oldest ones: an overrun of the PIOC FIFO, counted in ovfPioc_ only.  The record
\* is copied if the RAM ring has room, else counted in ramDrop_.
Feed(kind, skip) ==
  LET r == Lesser(made + skip + 1, MaxRec + 1)
      passed == made + 1 .. r - 1
      how == IF skip > 0 THEN {"overrun"} ELSE {}
  IN
  /\ on /\ (r > MaxRec => kind = "cap")
  /\ made' = r
  /\ \/ skip = 0 /\ UNCHANGED ovfPioc
     \/ skip > 0 /\ ovfPioc < MaxOverrun /\ ovfPioc' = ovfPioc + 1
  /\ \/ /\ Len(ram) < RamCap
        /\ ram' = Append(ram, [id |-> r, kind |-> kind])
        /\ lost' = lost \cup passed /\ untold' = untold \cup how
        /\ UNCHANGED ramDrop
     \/ /\ Len(ram) = RamCap /\ ramDrop < MaxDrop
        /\ ramDrop' = ramDrop + 1
        /\ lost' = lost \cup passed \cup {r} /\ untold' = untold \cup how \cup {"drop"}
        /\ UNCHANGED ram
  /\ UNCHANGED <<on, pc, drainVars, saw, capRun, capPiped, lossSeen, sniffActive, timeVars,
                 outVars, switches>>

\* 3 ms without activity.  nowMs is read once per loop, before service().
Lapse ==
  /\ pc = "idle" /\ ~lapsed
  /\ lapsed' = TRUE
  /\ UNCHANGED <<on, inVars, pc, drainVars, saw, capRun, capPiped, lossSeen, sniffActive, hbDue,
                 outVars, untold, switches>>

\* A second since the last heartbeat.
HeartbeatDue ==
  /\ pc = "idle" /\ ~hbDue
  /\ hbDue' = TRUE
  /\ UNCHANGED <<on, inVars, pc, drainVars, saw, capRun, capPiped, lossSeen, sniffActive, lapsed,
                 outVars, untold, switches>>

\* The endpoint takes bytes: usb.tick() between calls, pump() inside the drain.
TxDrain(k) ==
  /\ pc = "idle" \/ (pc = "drain" /\ i % PumpEvery = 0)
  /\ k <= txUsed
  /\ txUsed' = txUsed - k
  /\ UNCHANGED <<on, inVars, pc, drainVars, saw, capRun, capPiped, lossSeen, sniffActive, timeVars,
                 lastOut, cut, untold, switches>>

------------------------------------------------------------------------------
\* service(): the drain.

Budget == Lesser(Free, Burst)

\* txReserve() returns the room up to the end of the backing array.
ServiceBegin ==
  /\ on /\ pc = "idle"
  /\ LET count == Lesser(Len(ram), Budget) IN
     \/ /\ count > 0
        /\ \E room \in 1 .. Budget : cap' = room
        /\ pc' = "drain" /\ n' = count
     \/ /\ count = 0
        /\ pc' = "loss"
        /\ UNCHANGED <<n, cap>>
  /\ saw' = FALSE
  /\ UNCHANGED <<on, inVars, i, out, capRun, capPiped, lossSeen, sniffActive, timeVars,
                 outVars, untold, switches>>

Draining == pc = "drain" /\ i < n /\ out < cap
Byte == ram[i + 1]

Eat == i' = i + 1 /\ UNCHANGED <<out, lastOut, cut>>
Pass == i' = i + 1 /\ out' = out + 1 /\ lastOut' = Byte.id /\ cut' = FALSE

\* Mutated form: the squelch starts without writing its boundary.
SquelchSilently == i' = i + 1 /\ UNCHANGED <<out, lastOut, cut>>

SquelchStarts == i' = i + 1 /\ out' = out + 1 /\ cut' = TRUE /\ UNCHANGED lastOut

\* b >= 128
DrainCap ==
  /\ Draining /\ Byte.kind = "cap"
  /\ \/ /\ capPiped
        /\ Eat
        /\ UNCHANGED <<capRun, capPiped, sniffActive, saw>>
     \/ /\ ~capPiped /\ capRun + 1 >= CapIdle
        /\ SquelchStarts
        /\ capRun' = capRun + 1 /\ capPiped' = TRUE /\ sniffActive' = FALSE /\ saw' = FALSE
     \/ /\ ~capPiped /\ capRun + 1 < CapIdle
        /\ Pass
        /\ capRun' = capRun + 1 /\ saw' = TRUE
        /\ UNCHANGED <<capPiped, sniffActive>>
  /\ UNCHANGED <<on, inVars, pc, n, cap, lossSeen, timeVars, txUsed, untold, switches>>

\* b < 128: the first one after an idle boundary is the tail of the idle run.
DrainRun ==
  /\ Draining /\ Byte.kind = "run"
  /\ \/ capPiped /\ Eat
     \/ ~capPiped /\ Pass
  /\ capRun' = 0 /\ capPiped' = FALSE /\ saw' = TRUE
  /\ UNCHANGED <<on, inVars, pc, n, cap, lossSeen, sniffActive, timeVars, txUsed, untold, switches>>

\* tail_ = t + i, txCommit(outl)
DrainEnd ==
  /\ pc = "drain" /\ (i = n \/ out = cap)
  /\ ram' = SubSeq(ram, i + 1, Len(ram))
  /\ txUsed' = txUsed + out
  /\ pc' = "loss" /\ n' = 0 /\ i' = 0 /\ cap' = 0 /\ out' = 0
  /\ UNCHANGED <<on, made, ramDrop, ovfPioc, lost, saw, capRun, capPiped, lossSeen, sniffActive,
                 timeVars, lastOut, cut, untold, switches>>

------------------------------------------------------------------------------
\* service(): loss marker, frame separator, heartbeat.

\* Mutated form: the watermark moves although the marker was not written.
WatermarkEager(written) == lossSeen' = ramDrop

Watermark(written) == lossSeen' = IF written THEN ramDrop ELSE lossSeen

MarkLoss ==
  /\ pc = "loss"
  /\ LET written == ramDrop # lossSeen /\ Free > 0
     IN /\ txUsed' = IF written THEN txUsed + 1 ELSE txUsed
        /\ untold' = IF written THEN {} ELSE untold
        /\ IF ramDrop # lossSeen THEN Watermark(written) ELSE UNCHANGED lossSeen
  /\ pc' = "activity"
  /\ UNCHANGED <<on, inVars, drainVars, saw, capRun, capPiped, sniffActive, timeVars, lastOut,
                 cut, switches>>

Busy == saw \/ Len(ram) > 0

\* ramCount is read once: what is drained later finds sniffLastMs_ restarted.
NoteActivity ==
  /\ pc = "activity"
  /\ pc' = "separator"
  /\ sniffActive' = (sniffActive \/ Busy)
  /\ lapsed' = (lapsed /\ ~Busy)
  /\ UNCHANGED <<on, inVars, drainVars, saw, capRun, capPiped, lossSeen, hbDue, outVars, untold,
                 switches>>

\* Mutated form: the separator is taken as written even if it found no room.
WriteBoundaryOnce ==
  /\ sniffActive' = FALSE
  /\ IF Free > 0 THEN txUsed' = txUsed + 1 /\ cut' = TRUE ELSE UNCHANGED <<txUsed, cut>>

\* emitBoundary(), retried by the next call when it found no room.
WriteBoundary ==
  IF Free > 0 THEN txUsed' = txUsed + 1 /\ cut' = TRUE /\ sniffActive' = FALSE
              ELSE UNCHANGED <<txUsed, cut, sniffActive>>

Separate ==
  /\ pc = "separator"
  /\ pc' = "heartbeat"
  /\ IF sniffActive /\ lapsed THEN WriteBoundary ELSE UNCHANGED <<txUsed, cut, sniffActive>>
  /\ UNCHANGED <<on, inVars, drainVars, saw, capRun, capPiped, lossSeen, timeVars, lastOut, untold,
                 switches>>

\* emitModeMarker(): the whole block or nothing, and the timer restarts.
Heartbeat ==
  /\ pc = "heartbeat"
  /\ pc' = "idle"
  /\ IF hbDue /\ ~sniffActive
     THEN /\ hbDue' = FALSE
          /\ IF ModeLen <= Free THEN txUsed' = txUsed + ModeLen /\ cut' = TRUE
                                ELSE UNCHANGED <<txUsed, cut>>
     ELSE UNCHANGED <<hbDue, txUsed, cut>>
  /\ UNCHANGED <<on, inVars, drainVars, saw, capRun, capPiped, lossSeen, sniffActive, lapsed,
                 lastOut, untold, switches>>

Service ==
  \/ ServiceBegin \/ DrainCap \/ DrainRun \/ DrainEnd
  \/ MarkLoss \/ NoteActivity \/ Separate \/ Heartbeat

------------------------------------------------------------------------------
\* Mode switch: stop() flushes the RAM ring.
Stop ==
  /\ on /\ pc = "idle" /\ switches < MaxSwitch
  /\ on' = FALSE /\ switches' = switches + 1
  /\ ram' = <<>> /\ sniffActive' = FALSE /\ capRun' = 0 /\ capPiped' = FALSE
  /\ UNCHANGED <<made, ramDrop, ovfPioc, lost, pc, drainVars, saw, lossSeen, timeVars, outVars,
                 untold>>

\* The seam FF FD FF, here written whole (ModeSwitch has its bounded wait), then
\* begin(), which announces the mode if it finds room.
Begin ==
  /\ ~on /\ Free >= 3
  /\ on' = TRUE
  /\ ramDrop' = 0 /\ ovfPioc' = 0 /\ lossSeen' = 0 /\ capRun' = 0 /\ capPiped' = FALSE
  /\ sniffActive' = FALSE /\ lapsed' = FALSE /\ hbDue' = FALSE
  /\ txUsed' = IF txUsed + 3 + ModeLen <= TxCap THEN txUsed + 3 + ModeLen ELSE txUsed + 3
  /\ cut' = TRUE /\ untold' = {}
  /\ UNCHANGED <<made, ram, lost, pc, drainVars, saw, lastOut, switches>>

HostReads == \E k \in 1 .. TxCap : TxDrain(k)

Next ==
  \/ \E kind \in {"run", "cap"}, skip \in 0 .. MaxSkip : Feed(kind, skip)
  \/ Lapse \/ HeartbeatDue \/ HostReads
  \/ Service \/ Stop \/ Begin

\* The main loop never stops calling service(), time passes, the bus ends in an
\* endless idle run, and the host reads on.  HostReads alternates with the
\* steps of the loop (usb.tick() before every service()), so it is enabled
\* again and again rather than continuously.
Fairness ==
  /\ WF_vars(Service) /\ WF_vars(Begin)
  /\ SF_vars(Lapse) /\ SF_vars(HeartbeatDue) /\ SF_vars(HostReads)
  /\ WF_vars(Feed("cap", 0))

Spec == Init /\ [][Next]_vars
FairSpec == Spec /\ Fairness

------------------------------------------------------------------------------
Records == [id : 1 .. MaxRec + 1, kind : {"run", "cap"}]

\* Types; in particular neither ring is overfilled, the bytes written in place
\* and not committed yet included.
TypeOK ==
  /\ made \in 0 .. MaxRec + 1 /\ lastOut \in 0 .. MaxRec + 1
  /\ ram \in Seq(Records) /\ Len(ram) <= RamCap
  /\ pc \in {"idle", "drain", "loss", "activity", "separator", "heartbeat"}
  /\ ramDrop \in Nat /\ ovfPioc \in Nat /\ lossSeen \in 0 .. ramDrop
  /\ {n, cap} \subseteq Nat
  /\ i \in 0 .. n /\ n <= Len(ram) /\ out \in 0 .. cap
  /\ txUsed \in 0 .. TxCap /\ txUsed + cap <= TxCap
  /\ capRun \in Nat /\ (capPiped => capRun >= CapIdle)
  /\ {on, saw, capPiped, sniffActive, lapsed, hbDue, cut} \subseteq BOOLEAN
  /\ untold \subseteq {"drop", "overrun"}

\* The stream the host decodes is the capture in order.  Between two data bytes
\* nothing is missing except what the squelch ate, and then a 0xFF stands
\* between them, or what the interrupt lost.
NothingMissingInFrame ==
  [][lastOut' # lastOut /\ lastOut > 0 =>
       /\ lastOut' > lastOut
       /\ cut \/ \A r \in lastOut + 1 .. lastOut' - 1 : r \in lost]_vars

\* The heartbeat cannot tear a frame: when it is written, the last data byte is
\* behind a boundary ("safe: !sniffActive_ => no frame in flight, the last
\* boundary was already written").
HeartbeatBetweenFrames == [][on /\ hbDue /\ ~hbDue' /\ on' => cut]_vars

\* A loss marker that found no room is not forgotten: as long as the host has
\* not been told of a drop, the watermark lags.  Nothing of the kind holds for
\* an overrun of the PIOC FIFO.
DropNeverForgotten == on /\ "drop" \in untold => lossSeen # ramDrop

\* Between two drains nothing is half done, and a stopped capture has no call.
CallInStep ==
  /\ pc # "drain" => n = 0 /\ i = 0 /\ cap = 0 /\ out = 0
  /\ ~on => pc = "idle"

\* The RAM ring holds records in the order of capture, what is still to drain of
\* it after what was written, and all that follow any of them but the lost.
RamComplete ==
  /\ lastOut <= made
  /\ \A k \in DOMAIN ram : ram[k].id <= made /\ (k > i => lastOut <= ram[k].id)
  /\ \A j, k \in DOMAIN ram : j < k => ram[j].id <= ram[k].id
  /\ \A k \in DOMAIN ram : \A r \in ram[k].id + 1 .. made :
       r \in lost \/ \E j \in DOMAIN ram : ram[j].id = r

\* As long as no 0xFF follows the last data byte, nothing after it has been eaten
\* by the squelch, and the frame it belongs to is known to be in flight.
FrameInFlight ==
  /\ capPiped => cut
  /\ on /\ ~cut =>
       /\ lastOut > 0 => \A r \in lastOut + 1 .. made :
                            r \in lost \/ \E j \in DOMAIN ram : j > i /\ ram[j].id = r
       /\ sniffActive \/ (saw /\ pc \in {"drain", "loss", "activity"})

\* Types, a watermark that lags behind every drop not told, and what a drain
\* finds and leaves of the frame in flight.
ServiceInv == TypeOK /\ DropNeverForgotten /\ CallInStep /\ RamComplete /\ FrameInFlight

\* "If the PIOC->RAM ring overflowed since last call ... emit one 0xFD": the host
\* is eventually told of what a full RAM ring cost.
DropEventuallyMarked == "drop" \in untold ~> "drop" \notin untold

\* "A capture must never lose data silently", however it was lost.  The code tells
\* the host of drops only: an overrun of the PIOC FIFO yields no 0xFD.
LossEventuallyMarked == untold # {} ~> untold = {}

\* "The 0xFD ... so the host never silently decodes across missing bytes": when
\* a data byte is written and records before it were lost since the last one, a
\* marker (or a boundary) stands between the two.
LossMarkedInPlace ==
  [][lastOut' # lastOut /\ lastOut > 0 /\ ~cut =>
       \A r \in lastOut + 1 .. lastOut' - 1 : r \notin lost]_vars

\* Once the bus is idle for good, the last frame is closed for good.
LastFrameClosed == <>[](made > MaxRec => cut)

\* The heartbeat confirms the mode on a quiet bus, about once a second.
HeartbeatOnQuietBus == hbDue ~> ~hbDue
==============================================================================
