# A TLA+ model of ch32-tapioca

ch32-tapioca turns a CH32X035 into a two-wire bus sniffer (or an MDIO master)
on USB. A small co-processor, the PIOC, samples the pins; the RISC-V core moves
what it finds to the host over a USB CDC serial port. This directory holds
TLA+ models of the firmware's moving parts and of the page that talks to it, TLC runs
over small instances, and TLAPS proofs about the ring buffer on which all of
it rests, both captures, the USB bulk path and control endpoint, the codecs and the page's end of the
clocked stream, the mode switch, the MDIO master and its bridge, and the clocks. Paths below are
those of the repository.

    tlasany M.tla                         parse
    tlc -workers 2 -config X.cfg M        check one run
    tlapm FoundationProofs.tla            check the proofs about the ring, the clocks and the LED
    tlapm RleDrainProofs.tla              ... about the rle drain
    tlapm RleServiceProofs.tla            ... about the rle service
    tlapm ClockedProofs.tla               ... about the clocked capture
    tlapm LinkProofs.tla                  ... about the USB bulk path and the stream it carries
    tlapm MdioProofs.tla                  ... about the MDIO master and its bridge
    tlapm ControlProofs.tla               ... about the mode switch and the control endpoint
    tlapm Remainders.tla                  ... and the arithmetic they share

`PROJECT.json` lists runs, mutated forms, the source lines of every definition,
hazards, findings and theorems.

## 1. The system

### Components

| component | source | state | operations |
|---|---|---|---|
| ring | `src/util/ring.hpp` | `buf_`, `head_`, `tail_` | push, pushAll, pop, in-place reserve/commit, peek/consume, clear |
| rle capture, hot half | `pioc/rle_sniffer.ASM`, `RleSniffer::drainPioc` | data registers, HEAD; `sniffTail_`, `sniffSlot_`, RAM ring, `ramDrop_`, `ovfPioc_` | store and publish a run, TIM3 drain, begin, stop |
| rle capture, cold half | `RleSniffer::service` and its helpers | squelch (`capRun_`, `capPiped_`), `lossSeen_`, `sniffActive_`, deadlines | service, boundary, heartbeat, begin, stop |
| clocked capture | `pioc/clocked_sniffer.ASM`, `ClockedSniffer` | ACC, HEAD, data registers; burst buffer, flags, two timers, RAM ring | sample, service (drain, finalise, restart, ship), begin, stop |
| USB CDC | `src/usb/usb_cdc.cpp` | tx and rx rings, endpoint responses, `ep3Busy_`, `ep2Nak_`, `partialPending_`, DTR | tick, pump, write/reserve/commit, read, control requests, bus reset |
| MDIO master | `pioc/mdio_master.ASM`, `Mdio::Master` | request, step of the MMD sequence, mailbox (CMD, GO, STATUS, result) | submit, tick, the blob's frame |
| MDIO bridge | `Mdio::UsbBridge`, `src/main_mdio.cpp` | line buffer, `discardLine_`, response slot, PRINT cursor | tick: session, response, print, commands |
| mode switch | `src/main_sniffer.cpp`, `mode_command.hpp`, `app/web-sniffer/index.html` | `g_mode`, line buffer; the page's shown, confirmed and pending mode | poll, switch with seam, `[MODE]` markers; flip, confirm, follow, revert |
| USB control endpoint | `src/usb/usb_cdc.cpp`, `usb_descriptors.hpp` | current request, what is left of it, toggles and answers of EP0, address, configuration, line coding | setup, in, out, bus reset |
| wire codecs and page | `cobs.hpp`, `record_framer.hpp`, `app/test/*.js`, page | none on the device; the page's leftover bytes, joiner and bit stream | frame, demultiplex, join |
| time base | `src/hal/time.cpp` | millisecond count, TIM2 counter | micros, roll-over interrupt |
| LED blinker | `src/util/led_blinker.cpp` | queue, phase, deadline | blink, tick |
| MDIO decoder of the host | `app/test/mdio_codec.js`, page | registers 13 and 14 of each PHY seen | find frames, fold MMD accesses |
| board | `src/common` | – | bring-up; printf redirection |
| host tools | `scripts/`, `app/mdioctl` | – | offline decoders, command line clients |

### How they interact

The PIOC runs beside the core and shares only data registers with it: no lock,
no interrupt towards the core. The rle data registers are emptied by the TIM3
interrupt every 20 us, which preempts the main loop; the clocked ones by the main loop
itself. The two capture datapaths, the bridge and `printf` all write
to the one transmit ring of `UsbCdc`. The USB engine's interrupt flags are *polled*, by
`tick()` between the turns of the main loop and by `pump()` in the middle of a
datapath's in-place write. `printf` is redirected to the transmit ring and
calls `tick()` while it waits, so USB events also happen inside the bridge. The host is a
third actor: it can stop reading, open the port again, reset the bus, or
send a line in pieces.

### What is hard about it

* *Interleaving without locks*: the eMCU against the drain, the interrupt
  against `service()`, the blob against the driver, the USB engine against
  tick/pump.
* *Everything can be full*: a write to the transmit ring may take nothing; each
  caller has its own way to retry or give up.
* *Two clocks of the same thing*: an 8-bit HEAD and a pointer that wraps at
  30; a loss counter and the last value reported; a timestamp of a
  partial byte and the byte.
* *Silence*: the last bits, the last fragment, the last boundary must leave although
  nothing follows to push them out.
* *Agreement over an unreliable control channel*: the page learns the
  device's mode only from what passes in the data stream.
* *Cut anywhere*: the host finds records, brackets and loss markers in chunks
  that respect no boundary; a control transfer can lose a handshake at any packet.
* *Clocks that wrap*: of a counter that rolls over while it is read, and of
  deadlines compared modulo 2^32.

### What makes each component correct

| component | correctness |
|---|---|
| ring | it is a bounded FIFO, whatever either side read last and wherever the indices wrap |
| rle drain | runs arrive in order, none twice, and every missing one is counted |
| rle service | nothing is missing inside a frame without a separator; a drop of the RAM ring is marked; the last frame is closed; a heartbeat does not cut a frame |
| clocked | a record holds consecutive bits or is flagged; a pause separates bursts; chains end; the last bits leave |
| USB CDC | the host gets exactly the bytes written; no byte it sent is lost; nothing written stays behind |
| MDIO master | a request acts as one atomic access; it is always answered; a timeout means a stuck blob |
| bridge | one line sent is one command executed; each is answered as often as promised |
| control endpoint | device and host agree on the address; a read returns the data asked for; what is acknowledged has been done; the device gets configured |
| codecs and page | what is decoded is what was sent; the bits of two records meet if, and only if, they met on the bus |
| time base | a time stamp lies inside its call |
| LED blinker | blinks are shown as long as asked, across the wrap of the clock |
| mode switch | data of two modes never touch; a confirmation is never an old marker; page and device agree in the end |

## 2. The modules

Each names the fields of the code where it can; history variables are
declared under a comment `history`. Bytes, runs and bits are numbered in the
order they come into being, so that "in order", "none twice" and "none
missing" can be said; payloads and formatting are left out.

**`BoundedFifo`** is what a ring promises: a queue of at most `Capacity`
items; a put appends all it is given, a take removes from the front.

**`Ring`** (`ring.hpp`) splits `push`, `pop` and the in-place operations at
every access to shared memory: read the other's index (`Push`, `PushAll`, `Reserve`, `Open`, `Pop`,
`Peek`, `Clear`), move items one by one (`WriteItem`, `ReadItem`), publish one's own
index (`Publish`, `Release`). Producer and consumer each have a program counter and
may preempt each other anywhere. Indices live in `0 .. W-1` and wrap.
`UnreadItemsIntact` and its companions say which slot holds what; `FifoSpec` is
`BoundedFifo` with the published items as the queue.

**`RleDrain`** composes the eMCU's two-step store (`PiocStore`,
`PiocPublish`), the interrupt (`IsrEnter`, one `IsrCopy` per record,
`IsrExit`) and the mode switch. `isr` is the interrupt's stack frame. The main
loop appears as `ServiceTakes`. `Top` and `Cell(r)` are the last record in a register
and the register of record `r`; the parts of `DrainInv` are written with them.

**`RleService`** takes that interrupt as one action, `Feed`, for one record at a time: a late
interrupt passes over `skip` older ones and counts that in `ovfPioc`, one that finds the RAM ring full counts
the record in `ramDrop`. `lost` is the history of both, `untold` says which kinds of loss have had no
0xFD since. The module models
`service()` as the sequence `ServiceBegin`, `DrainCap`/`DrainRun`,
`DrainEnd`, `MarkLoss`, `NoteActivity`, `Separate`, `Heartbeat`, any of which
can meet a full transmit ring. That ring is a fill level: what it carries is
summarised by the last record written and what stands behind it (`cut`).

**`UsbCdc`** models the polled dispatch. `event` is the one transfer the engine
remembers until it is handled (while it does, it answers nothing), `pc` says
whether the main loop is between calls, in the middle of `tick()`, or in a
fill, where only `pump()` may run. The host sends, receives, drops
handshakes, halts endpoints and resets the bus.

**`MdioRequest`** is the abstract master: a request is submitted, its access
takes effect on a register atomically, it is answered with what was read, or
given up. **`MdioMaster`** has the driver's state machine (`TickStart` ...
`TickDone`), the three-store handshake `WriteFrame`, `ClearStatus`,
`RingDoorbell`, the blob's own steps (`BlobTakes`, `BlobRuns`, `BlobStores`,
`BlobPublishes`), and a PHY whose MMD registers are reached through REGCR and
ADDAR. It implements `MdioRequest` with the PHY's registers
as the refinement mapping. `MasterInv` at its end is the inductive invariant that
the proofs use.

**`MdioBridge`** follows one turn of `main_mdio.cpp`: USB, master, session,
response, print, commands. A word stands for a token of the command line.
`toPrint` holds the lines `printf` still has to deliver; while it does,
`PacketInside` and `OpensInside` may happen. The master is reduced to
`MdioRequest`'s answers. Every byte carries the line and the place it was sent in (`Stamp`): `NextPlace`
is the place of the byte that is read next, `Whole` says that the bytes executed are those of one line, `Due` counts
the answers among the lines `printf` holds.

**`ClockedSniffer`** has the sampler (`Sample`) concurrent with
every step of `service()`: drain byte by byte, read ACC and HEAD, finalise
(`FinalizeIdle`, `FinalizeAged`, `FinalizeNothing`), restart the PIOC, ship.
A record's fate is the history `rec`: continued, flagged, and what it misses.
`Passed` is the last bit the drain has passed; `BitsInStep` lines up with it what is staged
(`lastBit`), what the burst holds and what waits in the registers.

**`ModeSwitch`** composes page, link, main loop and the two datapaths, which
are reduced to the symbols they write: `rle` writes to the transmit ring
directly, `clocked` through its RAM ring. The page parses the symbols as
`sniffMeta` does. `ui` is the mode it shows, `view` the one it decodes; the user chooses a protocol with `Flip`, or with `Select` when
the choice leads to no request because one is pending (both are `setProtocol()`). `ModeInv` is a type invariant and four parts. `Ahead` is what the host will read next: the transmit ring, what
is missing of the seam, and a piece of data of the mode to come; `AheadApart` says that data of
different modes in it are a seam apart, `BlocksInOrder` and `RequestsInOrder` follow the mode along blocks,
device, line and link.

**`UsbControl`** models EP0: SETUP, IN and OUT transactions, each handled when
it is polled (`HandleSetup`, `HandleIn`, `HandleOut`, `BusReset`), with the two
halves' answers and the IN half's toggle; the data buffer `ep0` and its length are
separate, as in the controller. The host follows USB's control transfers:
`Choose` a request, `SendSetup`, the data stage, the status stage. Each
transaction's handshake is delivered or lost; whoever misses one repeats.
`GiveUp` (by STALL, timer or abort) leaves the device where it stands, and the next
SETUP must put that right. `setup` is the packet that waits for `handleSetup()`, which may be older than the
request the host has in mind (`asked`). `StagesAgree` says, stage by stage (`DataInWell` ... `StatusInWell`),
where the two ends stand; `ControlInv` is the inductive invariant.

**`Cobs`** is the coder: groups, codes, the two keyings. **`MdioHost`** puts it
into a stream: `Stage` and `Refuse` are the two outcomes of `emitRecord()`,
`Switch` is a turn away from clocked capture and back, which clears the RAM ring
behind a prefix that was already sent. `Feed` is `mdioFeed()` of one chunk; `PieceBefore`,
`Understood`, `Results`, `Stitch` and `Digest` are the steps of its pipeline. Every byte on the link carries, as history, the
number of its segment and its place in it, so that what the page understands can be compared with what was sent. The header
of a record is its type, its flags and the two bytes of its length; the three times in it, eight bytes
nothing here depends on, are left out.
`MdioHost` is bytes, `ClockedSniffer` bits: `rec` of the one and the flags of
the other meet in `MayEmit`.

**`TimeBase`** splits `micros()` at its reads (`Call`, `ReadCounter`, `Check`,
`ReadAgain`) and lets the counter count and roll over in between.
**`LedBlinker`** extends it with `tick()`, one action per phase, and
the commands other code queues.

**`Remainders`** holds lemmas about `%` and `\div` by a modulus that is a parameter: what
the proofs know of cursors, register numbers and clocks that wrap. The modules
`...Proofs` each extend the module of their component; four serve more than one: `LinkProofs` has `UsbCdc`, `Cobs` and `MdioHost`, `MdioProofs` `MdioMaster` and `MdioBridge`,
`ControlProofs` `ModeSwitch` and `UsbControl`, `FoundationProofs` `Ring`, `TimeBase` and `LedBlinker`.

The composition is by interfaces, not by one product: `RleService.Feed`
stands for what `RleDrain` hands over, drops and overruns included (a slot copied torn, possible for a late drain only, aside); the transmit ring of `RleService` and `ModeSwitch` is
the FIFO that `Ring` implements, `MdioBridge` assumes of the master what
`MdioMaster` guarantees (`EveryRequestAnswered`). `LedBlinker` takes its queue for a FIFO. It is a
`Ring` of ten (`led_blinker.hpp:11,60`), and ten does not divide 2^32: it is the FIFO of `Ring`
until its indices wrap, after 2^32 blinks, and what happens then is outside both the runs and the proof (section 4).

## 3. The runs

Every property of a passing run has a mutated form of the code under which TLC finds
it violated; the mutated definition stands next to the real one (`Mutated form`
comments).

| run | configuration | distinct states | properties |
|---|---|---|---|
| `ring` | `Ring.cfg` | 149,480 | `TypeOK`, `StaleReadsAreConservative`, `InPlaceBlocksFit`, `UnreadItemsIntact`, `FifoSpec` |
| `rle_drain` | `RleDrain.cfg` | 1,056,169 | `DrainInv`, `NothingVanishes`, `CaptureOrder` |
| `rle_service` | `RleService.cfg` | 403,112 | `ServiceInv`, `NothingMissingInFrame`, `HeartbeatBetweenFrames`, `DropEventuallyMarked`, `LastFrameClosed` |
| `usb_cdc` | `UsbCdc.cfg` | 573,362 | `UsbInv`, `HostStreamExact`, `EverythingSent` |
| `usb_control` | `UsbControl.cfg` | 308,191 | `ControlInv`, `ReadsExact`, `EnumerationCompletes` |
| `mdio_master` | `MdioMaster.cfg` | 80,232 | `TypeOK`, `FrameStable`, `TimeoutMeansStuck`, `EveryRequestAnswered`, `RequestSpec` |
| `mdio_bridge` | `MdioBridge.cfg` | 173,835 | `CommandsWhole`, `BridgeInv`, `PrintsEveryRegister`, `EverythingAnswered` |
| `clocked_sniffer` | `ClockedSniffer.cfg` | 726,553 | `ClockedInv`, `PauseSeparates`, `LastBitsDelivered` |
| `mdio_host` | `MdioHost.cfg` | 660,654 | `StreamInv`, `BurstsStitched`, `CobsExact` |
| `mode_switch` | `ModeSwitch.cfg` | 498,994 | `ModeInv`, `SeamSeparates`, `ConfirmedMeansSwitched`, `EventuallyAgree` |
| `led_time` | `LedBlinker.cfg` | 1,445,472 | `LedInv`, `BlinksAsAsked` |
| `mode_noise` | `ModeNoise.cfg` | (violated) | `NoiseNeverSwitches` |

A property whose name ends in `Inv` is the type invariant together with the state invariants
it serves. `DrainInv`, `ServiceInv`, `UsbInv`, `ControlInv`, `BridgeInv`, `ClockedInv`, `ModeInv` and `LedInv` are the inductive ones of
section 4, so these runs check the invariants themselves that the proofs use.

What they show, and why the bounds are enough:

* **ring** — a push that started with an old tail and a pop that started with
  an old head are still safe, items stay where they are until they
  are released, and the whole is a FIFO. `Capacity = 4`, `W = 8` and ten
  items: both the array and the indices wrap within the bound, and every block length from one
  to five is tried.
* **rle_drain** — the drain survives being overtaken, running into a full RAM ring, and a
  restart in the middle of a store. Three slots, HEAD modulo 8 (not a
  multiple of three, as 256 is not one of 30), eleven records: HEAD wraps, the
  pointer wraps at a different time, and the drain comes up to `Late = 2` records too late. When the PIOC overwrites a
  slot that a running drain has yet to copy (`clobbered`, possible only for
  a late drain), order and completeness are not claimed.
* **rle_service** — rings of two and three bytes are full at every write
  point; `CapIdle = 2` consecutive CAP records start the squelch. Three records before the bus goes idle, one drop, one
  overrun that passes over one record, and one
  mode switch are enough for a cut, a frame after it, and a
  loss of either kind on either side.
* **usb_cdc** — packets of two bytes, a three-byte transmit ring and a
  two-byte receive ring: full packets, fragments and throttling all occur within four
  bytes each way, with one lost handshake, one reset and one control request
  anywhere between.
* **usb_control** — packets of three bytes and a configuration descriptor of four: a read of 0, of 1, of exactly
  one packet, of two, and of more than there is. Two lost handshakes, so that
  both sides can miss one in the same transfer; one transfer given up, one reset at any point, two requests
  after the enumeration. The line coding is two bytes of two values, which is enough to see
  a half-written or stale one.
* **mdio_master** — two requests, so that the second meets what the first left in the
  mailbox; one direct register, two MMD devices with two registers each, so that a wrong
  step would reach a different one. The blob may die at any moment.
* **mdio_bridge** — six words are three lines or one over-long line and a
  command; packets of one word cut a line anywhere; two registers per PRINT
  leave a turn between them; one more client opens the port.
* **clocked_sniffer** — bytes of two bits, two data registers, records of two
  bytes, seven bits: a partial byte, a full record, a continued one and an
  overrun fit in, and the RAM ring refuses a record.
* **mdio_host** — bytes of eight values keep all the special ones apart (0xFF,
  0xFE, 0xFD, 0, '[') and make a group full at five bytes, which a record
  of two payload bytes exceeds (the other keying's group, full at six, is left to the proof). Payloads are drawn from a printable byte and the
  delimiter 0xFF itself. Chunks of one byte and of all there is, joined in any order, cut the stream
  anywhere; ten bytes of room refuse a second record; one mode
  switch clears the ring behind any prefix.
* **led_time** — a millisecond of three microseconds and clocks of eight values: the
  counter, the millisecond count and the result of `micros()` all wrap while it runs. Commands are 0, a blink
  of two, of four (half the clock, the most a signed difference can tell), and on for good; `tick()` comes up to three milliseconds late.
* **mode_switch** — three choices of the user (so a late confirmation of the first flip can
  meet the third), one word of noise, two pieces of data, and rings of four
  symbols, which the seam (three) or the first marker (four) all but fills.

Deadlock is checked except in `RleDrain`, `MdioHost` and `MdioMaster`, where all bounded inputs may be used up and nothing else is
due.

### Fairness

The firmware is a loop that never blocks, so its own steps are weakly fair.
Where an action is enabled only at one point of the loop it is strongly fair,
for the same reason: the loop comes by again and again. Time passes
(`Lapse`, `HeartbeatDue`, `Hold`, `Expire`, `Pause`, `Revert`). The PIOC runs freely; in
`MdioMaster` it may die, and fairness of `Blob` does not prevent that. The host is
assumed to keep reading in the liveness properties only; the safety
properties hold for one that stops. The strong fairness of `ShipAll` and of the
`Service...(TRUE)` actions in `ModeSwitch` says that the loop again and again
finds the host has made room, resp. that a heartbeat is due again and again.
In `UsbControl` the
main loop polls and the host goes on with what it has begun, including to give up on what is
stuck and to reset a device that does not answer; this is what hosts do, and
`EnumerationCompletes` needs no more. No fairness is assumed of users, noise, losses, resets or opened ports.

### Where code and documentation disagree

The run `mode_noise` ends in a violation: the model follows the code, the
property (`NoiseNeverSwitches`) follows the text. The tail of an over-long line is
executed as a line of its own, against `main_sniffer.cpp:96` ("drop, resync on next newline") and
`docs/sniffer-usb-wire-api.md:243`.

Further formulas stand in the modules and are checked by no run. They state, without the
excuse the checked property makes, what the code does not provide:

* `RleService!LossEventuallyMarked`: "A capture must never lose data silently"
  (`rle_sniffer.cpp:377-382`). An interrupt that comes too late for the PIOC FIFO passes over
  records and increments `ovfPioc_` (lines 146-157); `service()` compares `ramDrop_` only (lines 384-385), so
  no 0xFD is ever written for them, and the host decodes across the gap. With `MaxRec = 2`, `MaxOverrun = 1`, `MaxDrop = 0` and
  `MaxSwitch = 0` TLC ends in a loop in which no marker comes. The claim holds for what a full RAM ring drops:
  `DropEventuallyMarked`.
* `RleService!LossMarkedInPlace`: the 0xFD is written where the
  loss is *noticed*, after the drain of that call, not where runs are missing;
  `docs/sniffer-usb-wire-api.md:115` says "bytes were dropped here". That a
  marker does come for a drop of the RAM ring is `DropEventuallyMarked`, which holds.
* `RleService!HeartbeatOnQuietBus`: a silent bus keeps producing CAP
  records; one found in the ring after the drain restarts the 3 ms of silence the
  heartbeat waits for. The comment at `rle_sniffer.cpp:410-412` promises the
  heartbeat "on a quiet bus". The model assumes no relation between the period of the
  loop and that of the records; on the device the two decide how often it happens.
* `ClockedSniffer!LossBeforeRecord`: bytes overwritten while a
  record is being collected leave a hole in the middle of a flagged record;
  `app/test/mdio_codec_test.js:127` has the host assume it lies before the
  record.
* `MdioHost!StitchesExactly`: the page applies all resets of a chunk before it
  decodes the first of its records (`index.html:1622-1631`), so a loss marker that shares a chunk with
  records around it does not separate them.
* `RleDrain!NoTornRead`: a late drain copies a slot the PIOC is overwriting. For a drain
  that is never late it is a theorem (`NoTornReadInTime`).
* `UsbCdc!NoPermanentStall`: clearing the halt of a busy EP3 stops it for good.
* `MdioMaster!NoStaleResult`: fails with `LateBlob = TRUE` only.
* `ModeSwitch!EventuallyDecodes`: "the protocol selector drives the device mode" (`index.html:1868`). A protocol chosen while an
  earlier choice waits for its confirmation changes the decoder and sends nothing (`setProtocol()`, lines
  1855 and 1871), and the confirmation does not bring the decoder back: choose MDIO and, before the answer, CAN. With `MaxFlips = 2`,
  `MaxData = 0` and `MaxNoise = 0` TLC finds it. `EventuallyAgree`, which
  holds, is about the mode the page shows, not about its decoder.
* `MdioBridge!SessionsNeverMix`: a client that opens the port while an answer is printed.

Two observations without a text to disagree with. If the host's acknowledgement of the last packet of a control read is
lost, the OUT half of EP0 stays at NAK and the transfer ends by the host's timer
(`StuckOnlyByLoss` says that nothing else leads there). And the rest of a record that a mode switch cut off is taken
for a loss marker if its one byte is 0xFD (`Faithful`), which does no harm: the
seam behind it is one.

## 4. What is proved

### The ring

`FoundationProofs` proves about `Ring`, for every capacity, every index width and any
number of items:

| theorem | says |
|---|---|
| `RingInvariant` | `RingInv` is an invariant |
| `RingTypeOK` | type correctness |
| `NeverOverflowsOrUnderflows` | an index read earlier errs on the safe side |
| `NothingOverwritten` | an unread item's slot is never written |
| `InPlaceInsideArray` | zero-copy blocks end inside the array and do not overlap unread items |
| `RingImplementsFifo` | `Spec => FifoSpec`, the refinement of `BoundedFifo` |

**Assumptions.** `RingAssumption` (in `Ring`): the capacity is positive and at most half the
number of index values. The theorems add `W % Capacity = 0`. In the code `W` is 2^32,
so this is the restriction to powers of two which `index()`'s
fast path (`ring.hpp:116-126`) favours without requiring it; for other capacities the slot of the next item
jumps when the indices wrap, and the theorem would be false. Every byte ring of the firmware has
a power of two; the queue of `LedBlinker`, a `Ring` of ten, is outside the theorems.

**Argument.** None of the safety properties is inductive alone. That a push
does not overwrite an unread item needs that the index it read at its start can only
have become *smaller* than the truth (`StaleReadsAreConservative`); that the
new items are there when published needs that those written so far stay
(`UnpublishedItemsIntact`); that a release is right needs that
the consumer has read in order (`ConsumerReadsInOrder`). `RingInv` is their
conjunction with `TypeOK` and `SizeIsExact`. The lemmas first settle the modular
arithmetic (`IndexUnique`, `SlotAcrossWrap`, `SlotAtDiffers`: positions less than
a capacity apart lie in different slots, also across the wrap), then restate every cursor as an
offset from the tail (`Offsets`), and then treat one action each
(`ClaimStep` ...). The refinement maps `Publish` to a put of the block written,
`Release` to a take, `Clear` to a discard and every other step to a
stutter.

### The MDIO master

`MdioProofs` proves about `MdioMaster`, for every set of registers, MMD
devices and values, and any number of requests:

| theorem | says |
|---|---|
| `MasterInvariant` | `MasterInv` is an invariant |
| `MasterTypeOK` | type correctness; the mailbox is pending exactly while a request is active |
| `FrameNeverTorn` | `FrameStable`: the frame registers stay put under a running blob |
| `NoResultLost` | `TimeoutMeansStuck`: only a dead blob is answered by a timeout |
| `MasterImplementsRequest` | `Spec => RequestSpec`, the refinement of `MdioRequest` |

**Assumptions.** `MdioMasterAssumption` (in `MdioMaster`): there are a device, a
register and a value, and REGCR and ADDAR are not among the registers read directly.
Every theorem assumes `~LateBlob`: the blob may die between any two steps,
but one that is stuck does not go on after the 5 ms. With a late blob the next request
would meet the previous one's result, and the theorems would be false; the driver
relies on a transaction taking some 60 us.

**Argument.** `MasterInv` strengthens the three safety properties by four parts.
`HandshakeInOrder` says who owns the mailbox: GO is up, or the blob is at work, or
STATUS tells the result of *this* frame, and never two of them; it is why a new frame finds the blob
waiting or dead. `StepsInOrder` ties the frame to the step and the step to the kind of
request. `PhyPrepared` says what REGCR and ADDAR hold before each
step of an MMD access, hence which register the data frame reaches. `AccessOnce`
says that the access runs in the final step only, once, and that its outcome is what
the result registers and STATUS report. Each action has a lemma that it keeps `MasterInv`.
In the refinement the blob's run of the final frame is `Perform`
(`RefAccess`, which rests on `DirectWrite` and `IndirectWrite`: one register changes
and no other), the poll that finds its STATUS is `Answer`, the timeout is
`GiveUp`, and the frames before the last are stutters (`RefPrepare`).

### The MDIO bridge

`MdioProofs` proves about `MdioBridge`, for every line length, packet size and number of registers in
a print, and any number of commands and clients:

| theorem | says |
|---|---|
| `BridgeInvariant` | `BridgeInv` is an invariant; with `OneAnswerPerCommand` in it, no command is swallowed and none answered twice |
| `CommandsStayWhole` | `CommandsWhole`: what is executed is one line of one client |
| `PrintComplete` | `BridgeSpec => PrintsEveryRegister` |

**Assumptions.** `MdioBridgeAssumption`: sizes are positive and the line buffer holds the two words of a
command. A client that opens the port inside `printf` is excused by `CommandsWhole` itself
(`SessionsNeverMix` would be false, see the end of section 3).

**Argument.** `CommandsWhole` is a statement about a line's history that its last byte decides. `RxAsSent` says
that `rx_` has no gap: every byte is followed by the one the host sent next (`Stamped`, `PacketFollows`,
`ByteRead`). `LineAsSent` says that the line buffer is the beginning of the line which goes on in `rx_`, unless the line is to be dropped
to its end (`discardLine_`, why an over-long line must not be forgotten at once) or is another client's, which the
next turn clears before it reads a byte. `OneAnswerPerCommand` counts the answers in three places
and no step may move one without counting it there: the lines with `printf`, the request with the master, the registers
the print has not asked for. `PrintInStep` says that a register on its way, at the
master or at `printf`, is the next to be printed.

### The clocks and the LED

`FoundationProofs` proves about `TimeBase` and `LedBlinker`, for every period, every width of
the clocks and every set of commands:

| theorem | says |
|---|---|
| `LedInvariant` | `LedInv` is an invariant |
| `TimestampsExact` | `MicrosExact`: `micros()` returns a time inside its call |
| `BlinksLast` | `LedSpec => BlinksAsAsked`: no blink is cut short, none lasts longer than `tick()` is late |

**Assumptions.** `TimeBaseAssumption`: one turn of the millisecond count is a whole number
of turns of `micros()` (1000 * 2^32 and 2^32), and a call takes less than a
millisecond. `LedAssumption`: the times asked for are at most half the clock, or "for ever"; `tick()` is called
at least that often.

**Argument.** `CallTracked` says how old what `micros()` holds is: before a roll-over the counter tells
the time since the call, after it the counter plus a period does, and the two cannot be mixed because
the counter that was read early is used only if `millis` has not moved, and a second
roll-over would take longer than the call. `AtCarry` is the step from one
millisecond to the next, also from the last to zero. `DeadlineTracked` says that
the deadline is now plus what is left of the phase, modulo the clock; `ExpiredMeans` then
says that the sign of the difference is right as long as both what is left and what it is late are below half the
clock. The lemmas about remainders, for a modulus that is a parameter, come first.

### The rle drain

`RleDrainProofs` proves about `RleDrain`, for every number of registers, every width of
HEAD, every RAM ring and any number of records and mode switches:

| theorem | says |
|---|---|
| `DrainInvariant` | `DrainInv` is an invariant: both cursors name the same record, the RAM ring is in order |
| `NothingLostUncounted` | `NothingVanishes`: what the drain has passed is there, was received, or is counted |
| `OrderOfCapture` | `Spec => CaptureOrder` |
| `NoTornReadInTime` | if `Late = 0`, no slot is overwritten while it is copied |

**Assumptions.** `RleDrainAssumption`: sizes are positive and the drain is never a whole
turn of HEAD late. Nothing relates `HeadW` to `Slots`: 256 is not a multiple of 30. `Late = 0` is assumed
by the last theorem only: `pioc/README.md` claims it without the
condition, and for a late drain it is false (section 3).

**Argument.** `CursorsAgree` says which record both cursors stand for, but not that a drain
leaves it so: that needs that the distance it computes from two 8-bit values is the true one
(`RegistersHold` bounds it below a turn), and that a running call stands between `cursor`
and `made` while the PIOC goes on (`CallInStep`). Order needs the registers'
contents as well (`RegistersHold`, `CopyExact`: records less than `Slots` apart
lie in different registers), and that what is in the RAM ring is sorted and behind what was taken
(`RamInOrder`). `NothingVanishes` carries the exact account (`ramDrop` is the number of
dropped records) and that a record skipped by a running drain is one of the overrun. `clobbered`, the
history that a slot was overwritten under a running drain, weakens only `CopyExact` and what follows from it; cursors
and counters agree in any case.

### The rle service

`RleServiceProofs` proves about `RleService`, for rings of every size, every length of
the squelch, and any number of records, drops, overruns and restarts:

| theorem | says |
|---|---|
| `ServiceInvariant` | `ServiceInv` is an invariant; with `DropNeverForgotten` in it, the watermark lags behind every drop the host has not been told of |
| `FramesWhole` | `Spec => NothingMissingInFrame` |
| `HeartbeatOutsideFrames` | `Spec => HeartbeatBetweenFrames` |

**Assumptions.** `RleServiceAssumption`: sizes are positive and a mode block fits an empty
transmit ring.

**Argument.** That nothing is missing inside a frame is a statement about two data bytes that may be many calls
apart, with full rings, a squelch and a heartbeat between them. `FrameInFlight` carries it: while no 0xFF follows the
last data byte (`~cut`), every record made since is still in the RAM ring or was lost by the
interrupt (dropped or passed over, `lost`), and `sniffActive_`, or the drain that will set it, remembers that a boundary is owed.
`RamComplete` says that the RAM ring has no holes but the lost, also while a drain has written some of its
records and not yet consumed them. The squelch may eat a record only behind a separator
(`capPiped => cut`), which is the line of the code where an order of two statements matters. `DropNeverForgotten` speaks of drops only: of
an overrun the watermark knows nothing (`LossEventuallyMarked`, section 3).

### The USB bulk path

`LinkProofs` proves about `UsbCdc`, for every packet and ring size:

| theorem | says |
|---|---|
| `UsbInvariant` | `UsbInv` is an invariant |
| `InputComplete` | `NoInputLost`: every acknowledged byte is read, in order |
| `OutputExact` | `Spec => HostStreamExact` |

**Assumptions.** `UsbCdcAssumption`: either ring holds a packet. `NoInputLost` is stated for
hosts that clear no halt of EP2: the request opens EP2 without looking at
the ring (hazard list). The other theorems hold for hosts that do.

**Argument.** `RoomBeforeAck` is the reason for `NoInputLost`: ACK is set only with room for a packet, and while the
packet waits to be handled nobody else fills the ring. For the output, `StreamInStep` defines
what the host lacks as the outstanding packet followed by `tx_`. Whether a packet is
outstanding is said by the two toggles, not by `ep3Busy_`, because a lost handshake leaves the host with the data and the
device without the news. A halt that was cleared can desynchronise them: then EP3 is busy with
nothing to send (`Stalled`), and the host receives nothing more rather than something wrong.

### The clocked stream

`LinkProofs` proves about `Cobs` and `MdioHost`, for every number of byte values, every payload, every capacity, every way of
cutting the stream and any number of records, markers and mode switches:

| theorem | says |
|---|---|
| `CobsRoundTrip` | for byte sequences of every length and both keyings: `Decode` undoes `Encode`, no delimiter is left, the bound holds |
| `HostInvariant` | `HostInv` is an invariant |
| `StreamIsExact` | `StreamInv`: segments come out as they were sent, in order, none twice, none missing that arrived whole |
| `BurstsMeetAsOnTheBus` | `BurstsStitched`: bits meet in the decoder exactly if they met on the bus |
| `FramesAreExact` | `CobsExact`, of whatever was framed last |

**Assumptions.** `MdioHostAssumption` (in `MdioHost`): the special bytes are different and none is printable, and the length of a burst
fits its two bytes (`MaxData < Bytes * Bytes`; 65536 in the code). `CobsRoundTrip` assumes of a keying that the full code is below
the delimiter, or the delimiter 0 (`Keying`), which both have. `BurstsStitched` itself excuses, with `glued`, a loss marker that
comes in one chunk with records before it: `mdioFeed()` applies the resets of a chunk before its first record.

**Argument.** The coder runs from group to group, so the round trip is an induction over the place where the
rest of the input begins. The library states induction for an operator, which the provers cannot instantiate; here it is stated
for a set of numbers (`FromTheEnd`, from the least element of its complement), and so are the recursions of the page
(`Results`, `Stitched`), which go up from the first byte or record.

`StreamExact` is about what the page has understood, and `HostInv` says how the rest of the stream will be. `Strand` describes
the bytes between the device's last segment and the page's last boundary: each is the next of its segment,
or the first of the following, or, where the RAM ring was cleared, the boundary of a seam (`NextTo`, `Leads`); and every segment that was not
torn has its end there (`Covered`). `Told` joins that to what was understood so far: nothing between them is missing but
what was torn (`Reports`, `CarriesOn`). A chunk moves the border between the two, piece by piece (`ToldMore`), and a piece between two
boundaries is a whole segment, which decodes to itself, or the beginning of a torn one, of which the decoder makes
nothing, or a loss if all that is left of it is 0xFD: a COBS block cut short
is malformed, a bracket cut short lacks its end.

For `StitchesExactly`, `Marked` says on the device's side which records' bits met the previous ones on the bus: those that bear no
flag and before which neither a seam nor a partial byte came (`Broken`). That needs `restarted` to be the
same fact about the future record, until one is refused and the flag says it instead. On the page's side `StitchOk` says that joiner and stream
hold the last record unless its successors cannot join it. The two meet because whatever a switch tears away, it leaves
a seam in its place: `unifiedSwitchTo()` writes it to the transmit ring, behind what was already there.

### The clocked capture

`ClockedProofs` proves about `ClockedSniffer`, for every number of bits in a byte, every
number of registers, every lateness, every buffer and RAM ring, and any number of bits and restarts:

| theorem | says |
|---|---|
| `ClockedInvariant` | `ClockedInv` is an invariant; with `RecordsHonest` in it, every record follows its predecessor bit for bit or is flagged |
| `PausesSeparateBursts` | `PauseSeparates`: after a pause no bit of the past is left in burst or accumulator |

**Assumptions.** `ClockedSnifferAssumption`: `Slots` divides `HeadW` (16 and 256; the code masks
HEAD to get the slot), the sampler is less than a turn of HEAD ahead, and a full record fits an empty RAM ring.

**Argument.** `SlotsHold` says which bits the registers hold, counted backwards from HEAD; the slot of a HEAD
that has wrapped is the right one because of the divisibility (`SlotOfHead`), and a byte the sampler stores does not touch those less than
`Slots` behind (`SlotsDiffer`). `CallInStep` ties the snapshots of HEAD and ACC to the sampler for as long as no bit has been
sampled (`~moved`). `BitsInStep` is the core: what is staged, what the burst holds and what waits follow
one another bit for bit, or a flag is up, and after an overrun the drain has not yet reached its end.
Dropping a record sets the flag (`EmitInStep`), so the account stays true. A drain overtaken while it runs and a sampler that runs
while it is restarted are excused: their bits are lost without a flag, which the code accepts. `PauseSeparates` is about a
whole call: `SilenceKept` follows it through drain, snapshot, finalisation and restart.

### The mode switch

`ControlProofs` proves about `ModeSwitch`, for every line length, every size of the two rings and any number
of choices, words of noise and pieces of data:

| theorem | says |
|---|---|
| `ModeInvariant` | `ModeInv` is an invariant |
| `SeamsSeparate` | `Spec => SeamSeparates`: the host reads a lone 0xFD between data of the two modes |
| `ConfirmationsTrue` | `Spec => ConfirmedMeansSwitched`: no old marker is taken for the answer |

**Assumptions.** `ModeSwitchAssumption`: sizes are positive and either ring has room for a marker block with the byte that
closes what was open before it. A seam given up half written (`torn`) is excused by `SeamSeparates` itself.

**Argument.** `SeamSeparates` is about what the host has just read, and nothing it has read is decided there: it was when
the device wrote. So `AheadApart` speaks of everything still on its way, the transmit ring, the missing rest of a
seam and the data that comes next, with the state of the host's parser in front. Every action of the device appends to `Ahead`
or moves the boundary between what is written and what is missing (`SeamBegun` covers a seam the host has
read the first half of); a read takes the first symbol off (`HostReadsAhead`). `StagedInMode` is needed
because the clocked datapath's blocks and records reach the stream late. For
`ConfirmedMeansSwitched` the mode is followed along everything that carries it: the block the page
reads, those in the ring, `mode`, the seam's target, the line and the link. Relative to what the page believes, the mode turns
at most once along that path (`OneTurn`, `BlocksInOrder`, `RequestsInOrder`), because the page
sends a request only when it believes the opposite and then waits (another decoder chosen meanwhile, `Select`, is no
request); so a block that announces the mode it has asked
for has nothing but that mode behind it. `PageInStep` is the page's own part, the lock with the target.

### The control endpoint

`ControlProofs` proves about `UsbControl`, for every packet size, every descriptor length, every set of lengths a host may ask for,
and any number of lost handshakes, transfers given up and resets:

| theorem | says |
|---|---|
| `EndsAgree` | `ControlInv` is an invariant: `AddressAgrees`, `AcknowledgedMeansDone`, `StuckOnlyByLoss` |
| `ReadsAreExact` | `ReadsExact`: a read has the beginning of what was asked for, and all of it in the end |

**Assumptions.** `UsbControlAssumption`: lengths are positive, a packet has more than two bytes, and the line coding fits one
(7 and 64 in the code; `handleEp0Out()` takes it from a single packet).

**Argument.** The inductive part is `Stages`, the type invariant with `StagesAgree`; the three named consequences follow
from it (`StagesMean`). In the data stage of a read (`DataInWell`) the toggles say whether the host has
already got the packet that lies in the buffer: then what has been read includes it, a full packet, and more is to come. The
new SETUP is the place where all else is forgotten: `BeginsWell` says that a packet not yet handled is the host's, with
both toggles at DATA1, wherever the previous transfer was left. `StatusInWell` ties the offered status packet to the effect of the request.
`AddressWell` says that the device has the host's address or is about to take it, unless the handshake was lost
(`doubt`) or a reset waits.

### What is only model-checked

Every safety property of the passing runs is the consequence of a theorem. What stays with TLC is
liveness, since it rests on fairness and ENABLED: `DropEventuallyMarked`, `LastFrameClosed`, `EverythingSent`,
`LastBitsDelivered`, `EveryRequestAnswered`, `EverythingAnswered`, `EnumerationCompletes`, `EventuallyAgree`.

## 5. What is not modelled

* The host's decoders: the MDIO frame search and MMD folding (`mdio_codec.js`, `mdio_decode.py`), and the CAN and
  DMX decoders of recorded runs. They are sequential functions of data that `MdioHost` and
  `RleService` show to be delivered; the first is in the plan, the others are numeric heuristics over waveforms.
* `GET_LINE_CODING` with a length other than 7 (`usb_cdc.cpp` does not clamp it; hosts ask for
  7), remote wakeup (the configuration does not offer it), suspend.
* A host that repeats an OUT packet whose ACK it missed: EP2 does not test `TOG_OK`
  (`usb_cdc.cpp:590`), and whether the controller raises its interrupt for a repeated packet is not visible in `src/`.
* An answer line that `printf` cuts off because the host does not read (`board.cpp:58`), and a client that takes an
  earlier session's answer for its own (`app/mdioctl/mdioctl:87`): text only, no state.
* `DIAG` builds, the tick test, bench scripts: not part of the product. (A `DIAG` build resets
  `ramDrop_` under `service()`'s watermark, `rle_sniffer.cpp:444`, and so may mark a loss there was not or miss one.)
* Board bring-up, register writes without state; the SDK, the PIOC assembler and its include file.
* Outside `TimeBase` and `LedBlinker`, times are not numbers but "has elapsed / has not": what depends on the ratio
  of two durations (whether a drain can be late at all, whether a heartbeat
  starves for long) is left open, and the models allow both.
* A drain that is more than a whole turn of the 8-bit HEAD late is excluded by an assumption
  (`RleDrainAssumption`, `ClockedSnifferAssumption`); it would lose 256 entries unnoticed. So is a
  ring whose capacity does not divide the index range (section 4), and a `micros()` call or a masked interrupt of
  a millisecond or more (`TimeBaseAssumption`, and `Count`'s guard).

## 6. Plan

Done in this order, the most important behaviour first: the ring and its FIFO;
rle drain; rle service; USB bulk path; MDIO master and its abstract request;
bridge; clocked capture; mode switch; the proofs about the ring and the MDIO master.

Then the USB control endpoint, the wire codecs with the page, the time base and the LED blinker with their proofs.
Then the proofs about the USB bulk path, the rle drain, the rle service, the clocked capture and the MDIO bridge, for which their
invariants were made inductive.

Then the proofs about the mode switch and the control endpoint, and those about the codecs and the stream.

Next: `MdioDecode`, preamble search and MMD folding, composed with the frames
`MdioMaster` sends.
