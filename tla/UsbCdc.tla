-------------------------------- MODULE UsbCdc --------------------------------
(***************************************************************************)
(* The bulk half of the CDC device (src/usb/usb_cdc.cpp): the transmit and  *)
(* receive rings, the two bulk endpoints, and the polled dispatch of the    *)
(* USB engine's events by tick() and pump().                                *)
(*                                                                          *)
(* The engine runs concurrently.  It answers the host while no completed    *)
(* transfer waits to be handled (INT_BUSY) and remembers at most one        *)
(* completed transfer, beside a bus reset.  A handshake to the host's IN    *)
(* token may be lost on the wire; the data toggle then makes the host drop  *)
(* the repetition.  The host starts no transfer between a bus reset and its *)
(* handling (USB grants the device 10 ms to recover; tick() takes 200 us).  *)
(*                                                                          *)
(* Bytes of either direction are numbered in the order they are sent.       *)
(***************************************************************************)
EXTENDS Integers, Sequences, FiniteSets

CONSTANTS
  Packet,       \* usb_desc::kPacket (64)
  TxCap, RxCap, \* kTxCapacity (512), kRxCapacity (1024)
  Requests,     \* control requests the host makes use of
  MaxOut, MaxIn,\* bounds of a model: bytes from the host, bytes to the host
  MaxRequests,  \* bound of a model: control requests
  MaxLost,      \* bound of a model: handshakes lost
  MaxResets     \* bound of a model: bus resets

AllRequests == {"dtrOn", "dtrOff", "haltIn", "haltOut", "clearHaltIn", "clearHaltOut"}

ASSUME UsbCdcAssumption ==
  /\ {Packet, TxCap, RxCap} \subseteq Nat \ {0}
  /\ Packet <= TxCap /\ Packet <= RxCap
  /\ Requests \subseteq AllRequests
  /\ {MaxOut, MaxIn, MaxRequests, MaxLost, MaxResets} \subseteq Nat

VARIABLES
  tx, rx,        \* tx_, rx_
  ep3, ep2,      \* the endpoints' buffers (a received packet until it is handled)
  ep3Res, ep2Res,\* what the engine answers: "ACK", "NAK" or "STALL"
  ep3Busy,       \* ep3Busy_
  ep2Nak,        \* ep2Nak_
  ep3Tog,        \* USBFS_UEP_T_TOG of the IN endpoint
  partial,       \* partialPending_: "none", "held", or "due" once 1 ms has passed
  event,         \* UIF_TRANSFER with INT_ST: the completed transfer not handled yet
  busRst,        \* UIF_BUS_RST
  dtr,           \* dtr_
  sessionStarted,\* sessionStarted_
  pc,            \* the main loop: "loop", "send" in the middle of tick(), or "fill"
  room,          \* bytes reserved by txReserve()
  \* host and history
  hostTog,       \* toggle the host expects
  written,       \* bytes the firmware has handed over
  got,           \* the last one the host accepted
  sent,          \* bytes the host has sent
  consumed,      \* the last one the firmware has read or discarded
  asked,         \* control requests the host has made, each one once
  lost, resets

txVars == <<tx, ep3, ep3Res, ep3Busy, ep3Tog, partial>>
rxVars == <<rx, ep2, ep2Res, ep2Nak>>
session == <<dtr, sessionStarted>>
loopVars == <<pc, room>>
flags == <<event, busRst>>
hostVars == <<hostTog, written, got, sent, consumed>>
bounds == <<asked, lost, resets>>
vars == <<txVars, rxVars, session, loopVars, flags, hostVars, bounds>>

Lesser(a, b) == IF a <= b THEN a ELSE b
Drop(s, n) == SubSeq(s, n + 1, Len(s))

TxFree == TxCap - Len(tx)

Fresh(from, n) == [k \in 1 .. n |-> from + k]   \* the n bytes after number from

Init ==
  /\ tx = <<>> /\ ep3 = <<>> /\ ep3Res = "NAK" /\ ep3Busy = FALSE /\ ep3Tog = 0
  /\ partial = "none"
  /\ rx = <<>> /\ ep2 = <<>> /\ ep2Res = "ACK" /\ ep2Nak = FALSE
  /\ dtr = FALSE /\ sessionStarted = FALSE
  /\ pc = "loop" /\ room = 0
  /\ event = "none" /\ busRst = FALSE
  /\ hostTog = 0 /\ written = 0 /\ got = 0 /\ sent = 0 /\ consumed = 0
  /\ asked = {} /\ lost = 0 /\ resets = 0

------------------------------------------------------------------------------
\* The USB engine and the host.

Responsive == event = "none" /\ ~busRst

\* An IN token on EP3 finds a packet.
HostIn ==
  /\ Responsive /\ ep3Res = "ACK"
  /\ IF ep3Tog = hostTog
     THEN got' = ep3[Len(ep3)] /\ hostTog' = 1 - hostTog
     ELSE UNCHANGED <<got, hostTog>>
  /\ \/ event' = "in3" /\ UNCHANGED lost
     \/ lost < MaxLost /\ lost' = lost + 1 /\ UNCHANGED event
  /\ UNCHANGED <<txVars, rxVars, session, loopVars, busRst, written, sent, consumed,
                 asked, resets>>

\* An OUT packet of n bytes is taken by EP2.
HostOut(n) ==
  /\ Responsive /\ ep2Res = "ACK"
  /\ sent + n <= MaxOut
  /\ ep2' = Fresh(sent, n)
  /\ sent' = sent + n
  /\ event' = "out2"
  /\ UNCHANGED <<txVars, rx, ep2Res, ep2Nak, session, loopVars, busRst, hostTog, written, got,
                 consumed, bounds>>

\* A control request; clearing a halt resets the host's toggle too.
HostSetup(req) ==
  /\ Responsive /\ req \notin asked /\ Cardinality(asked) < MaxRequests
  /\ event' = req
  /\ asked' = asked \cup {req}
  /\ hostTog' = IF req = "clearHaltIn" THEN 0 ELSE hostTog
  /\ UNCHANGED <<txVars, rxVars, session, loopVars, busRst, written, got, sent, consumed,
                 lost, resets>>

HostResets ==
  /\ ~busRst /\ resets < MaxResets
  /\ busRst' = TRUE /\ resets' = resets + 1
  /\ UNCHANGED <<txVars, rxVars, session, loopVars, event, hostVars, asked, lost>>

------------------------------------------------------------------------------
\* onIrq(), its cases.  Each leaves the flag it handled cleared.

OnIn3 ==
  /\ event = "in3"
  /\ ep3Tog' = 1 - ep3Tog /\ ep3Res' = "NAK" /\ ep3Busy' = FALSE
  /\ UNCHANGED <<tx, ep3, partial, rxVars, session, hostVars>>

\* Mutated form: throttled only when the ring is full.
MustThrottleLate(free) == free = 0

MustThrottle(free) == free < Packet

OnOut2 ==
  /\ event = "out2"
  /\ rx' = rx \o SubSeq(ep2, 1, Lesser(Len(ep2), RxCap - Len(rx)))
  /\ ep2' = <<>>
  /\ IF MustThrottle(RxCap - Len(rx')) THEN ep2Res' = "NAK" /\ ep2Nak' = TRUE
                                       ELSE UNCHANGED <<ep2Res, ep2Nak>>
  /\ UNCHANGED <<txVars, session, hostVars>>

\* SET_CONTROL_LINE_STATE: a rising DTR starts a session with an empty rx_.
OnDtr ==
  /\ event \in {"dtrOn", "dtrOff"}
  /\ dtr' = (event = "dtrOn")
  /\ IF dtr' /\ ~dtr
     THEN rx' = <<>> /\ consumed' = consumed + Len(rx) /\ sessionStarted' = TRUE
     ELSE UNCHANGED <<rx, consumed, sessionStarted>>
  /\ UNCHANGED <<txVars, ep2, ep2Res, ep2Nak, hostTog, written, got, sent>>

\* SET_FEATURE and CLEAR_FEATURE (ENDPOINT_HALT).
OnHalt ==
  /\ \/ event = "haltIn" /\ ep3Res' = "STALL" /\ UNCHANGED <<ep3Tog, ep2Res>>
     \/ event = "haltOut" /\ ep2Res' = "STALL" /\ UNCHANGED <<ep3Tog, ep3Res>>
     \/ event = "clearHaltIn" /\ ep3Res' = "NAK" /\ ep3Tog' = 0 /\ UNCHANGED ep2Res
     \/ event = "clearHaltOut" /\ ep2Res' = "ACK" /\ UNCHANGED <<ep3Tog, ep3Res>>
  /\ UNCHANGED <<tx, ep3, ep3Busy, partial, rx, ep2, ep2Nak, session, hostVars>>

OnTransfer == (OnIn3 \/ OnOut2 \/ OnDtr \/ OnHalt) /\ event' = "none" /\ UNCHANGED busRst

\* busReset() and endpointInit().  The host's pipes start afresh.
BusReset ==
  /\ tx' = <<>> /\ ep3' = <<>> /\ ep3Res' = "NAK" /\ ep3Busy' = FALSE /\ ep3Tog' = 0
  /\ partial' = "none"
  /\ rx' = <<>> /\ ep2Res' = "ACK" /\ ep2Nak' = FALSE /\ UNCHANGED ep2
  /\ dtr' = FALSE /\ sessionStarted' = TRUE
  /\ hostTog' = 0 /\ got' = written /\ consumed' = consumed + Len(rx)
  /\ busRst' = FALSE
  /\ UNCHANGED <<event, written, sent>>

\* Transfer before bus reset: one of them per call.
Dispatch == IF event # "none" THEN OnTransfer ELSE BusReset

------------------------------------------------------------------------------
\* The main loop: tick(), the engine's events first.

TickIrq ==
  /\ pc = "loop"
  /\ IF Responsive THEN UNCHANGED <<txVars, rxVars, session, flags, hostVars>> ELSE Dispatch
  /\ pc' = "send"
  /\ UNCHANGED <<room, bounds>>

Reopen ==
  /\ UNCHANGED <<rx, ep2>>
  /\ IF ep2Nak /\ RxCap - Len(rx) >= Packet THEN ep2Res' = "ACK" /\ ep2Nak' = FALSE
                                            ELSE UNCHANGED <<ep2Res, ep2Nak>>

\* armEp3FromTx()
Arm(n) ==
  /\ ep3' = SubSeq(tx, 1, n) /\ tx' = Drop(tx, n)
  /\ ep3Res' = "ACK" /\ ep3Busy' = TRUE
  /\ UNCHANGED ep3Tog

\* Mutated form: a packet is armed without waiting for the one in flight.
MayArmAnyTime == TRUE

MayArm == ~ep3Busy

\* Mutated form: a fragment is never flushed.
HeldLongEnoughNever == FALSE

HeldLongEnough == partial = "due"

\* Full packets at once, a fragment after it has been held for 1 ms.
Send ==
  \/ MayArm /\ Len(tx) >= Packet /\ Arm(Packet) /\ partial' = "none"
  \/ /\ MayArm /\ Len(tx) \in 1 .. Packet - 1
     /\ IF HeldLongEnough THEN Arm(Len(tx)) /\ partial' = "none"
        ELSE partial' = "held" /\ UNCHANGED <<tx, ep3, ep3Res, ep3Busy, ep3Tog>>
  \/ MayArm /\ tx = <<>> /\ partial' = "none" /\ UNCHANGED <<tx, ep3, ep3Res, ep3Busy, ep3Tog>>
  \/ ~MayArm /\ UNCHANGED txVars

TickSend ==
  /\ pc = "send"
  /\ Reopen /\ Send
  /\ pc' = "loop"
  /\ UNCHANGED <<session, room, flags, hostVars, bounds>>

\* A millisecond since partialSinceMs_.
Hold ==
  /\ pc = "loop" /\ partial = "held"
  /\ partial' = "due"
  /\ UNCHANGED <<tx, ep3, ep3Res, ep3Busy, ep3Tog, rxVars, session, loopVars, flags, hostVars, bounds>>

\* The main loop: users of the rings.

\* write(): as much as fits.
Write(n) ==
  /\ pc = "loop"
  /\ LET k == Lesser(n, TxFree) IN
     /\ k > 0 /\ written + k <= MaxIn
     /\ tx' = tx \o Fresh(written, k)
     /\ written' = written + k
  /\ UNCHANGED <<ep3, ep3Res, ep3Busy, ep3Tog, partial, rxVars, session, loopVars, flags,
                 hostTog, got, sent, consumed, bounds>>

\* txReserve() .. txCommit(n), with pump() called in between.  The contiguous
\* room may be less than TxFree; then fewer bytes are committed.
Reserve ==
  /\ pc = "loop" /\ TxFree > 0
  /\ pc' = "fill" /\ room' = TxFree
  /\ UNCHANGED <<txVars, rxVars, session, flags, hostVars, bounds>>

Commit(n) ==
  /\ pc = "fill" /\ n <= room /\ written + n <= MaxIn
  /\ tx' = tx \o Fresh(written, n)
  /\ written' = written + n
  /\ pc' = "loop" /\ room' = 0
  /\ UNCHANGED <<ep3, ep3Res, ep3Busy, ep3Tog, partial, rxVars, session, flags,
                 hostTog, got, sent, consumed, bounds>>

\* pump(): the fast path re-arms a full packet, any other transfer takes onIrq().
PumpIn3 ==
  /\ pc = "fill" /\ event = "in3"
  /\ ep3Tog' = 1 - ep3Tog
  /\ IF Len(tx) >= Packet
     THEN /\ ep3' = SubSeq(tx, 1, Packet) /\ tx' = Drop(tx, Packet)
          /\ ep3Res' = "ACK" /\ ep3Busy' = TRUE /\ partial' = "none"
     ELSE ep3Res' = "NAK" /\ ep3Busy' = FALSE /\ UNCHANGED <<tx, ep3, partial>>
  /\ event' = "none"
  /\ UNCHANGED <<rxVars, session, loopVars, busRst, hostVars, bounds>>

PumpOther ==
  /\ pc = "fill" /\ event \notin {"none", "in3"}
  /\ Dispatch
  /\ UNCHANGED <<loopVars, bounds>>

\* read(): its users take one byte at a time.
Read(n) ==
  /\ pc = "loop" /\ n <= Len(rx)
  /\ rx' = Drop(rx, n)
  /\ consumed' = consumed + n
  /\ UNCHANGED <<txVars, ep2, ep2Res, ep2Nak, session, loopVars, flags, hostTog, written, got,
                 sent, bounds>>

\* sessionStarted(): consumed on read.
TakeSessionStarted ==
  /\ pc = "loop" /\ sessionStarted
  /\ sessionStarted' = FALSE
  /\ UNCHANGED <<txVars, rxVars, dtr, loopVars, flags, hostVars, bounds>>

Tick == TickIrq \/ TickSend
Pump == PumpIn3 \/ PumpOther
EndOfFill == \E n \in 0 .. TxCap : Commit(n)

Next ==
  \/ HostIn \/ HostResets
  \/ \E n \in 1 .. Packet : HostOut(n)
  \/ \E req \in Requests : HostSetup(req)
  \/ Tick \/ Hold \/ Pump \/ EndOfFill
  \/ \E n \in 1 .. TxCap : Write(n)
  \/ Reserve
  \/ Read(1)
  \/ TakeSessionStarted

Spec == Init /\ [][Next]_vars

\* The main loop turns, a fill ends, time passes, the host polls EP3 again and
\* again and does not lose handshakes for ever (MaxLost).
Fairness ==
  /\ SF_vars(TickIrq) /\ WF_vars(TickSend)
  /\ WF_vars(EndOfFill) /\ SF_vars(Hold) /\ SF_vars(HostIn)

FairSpec == Spec /\ Fairness

------------------------------------------------------------------------------
Answers == {"ACK", "NAK", "STALL"}

\* Types; in particular neither ring is overfilled, reserved room included.
TypeOK ==
  /\ tx \in Seq(1 .. MaxIn) /\ Len(tx) + room <= TxCap
  /\ rx \in Seq(1 .. MaxOut) /\ Len(rx) <= RxCap
  /\ ep3 \in Seq(1 .. MaxIn) /\ Len(ep3) <= Packet
  /\ ep2 \in Seq(1 .. MaxOut) /\ Len(ep2) <= Packet
  /\ written \in 0 .. MaxIn /\ sent \in 0 .. MaxOut /\ {got, consumed, room} \subseteq Nat
  /\ ep3Res \in Answers /\ ep2Res \in Answers
  /\ {ep3Tog, hostTog} \subseteq {0, 1}
  /\ partial \in {"none", "held", "due"}
  /\ event \in AllRequests \cup {"none", "in3", "out2"}
  /\ {ep3Busy, ep2Nak, busRst, dtr, sessionStarted} \subseteq BOOLEAN
  /\ pc \in {"loop", "send", "fill"} /\ (pc # "fill" => room = 0)

Follows(s, from) == \A k \in DOMAIN s : s[k] = from + k   \* the bytes after number from

\* Within one bus session the host receives every byte once and in order,
\* whichever of tick() and pump() armed the packet, and even if handshakes are
\* lost and packets repeated.  The room txReserve() handed out stays valid until
\* txCommit(): pump() handles transfers, and never a bus reset, which would clear
\* the ring underneath.
HostStreamExact ==
  /\ [][got' # got /\ ~(busRst /\ ~busRst') =>
          Len(ep3) > 0 /\ Follows(ep3, got)]_vars
  /\ [][pc = "fill" /\ pc' = "fill" /\ busRst => busRst']_vars

\* No byte the host was allowed to send is lost: what EP2 accepted always fits
\* the ring, as long as the host does not clear a halt of EP2 ("Throttle the host if we can't guarantee room for the next packet").
NoInputLost ==
  "clearHaltOut" \notin asked =>
  /\ consumed + Len(rx) + Len(ep2) = sent
  /\ Follows(rx, consumed)

\* Why no input is lost: EP2 answers ACK only while a whole packet fits, and what
\* it holds comes next.
RoomBeforeAck ==
  /\ event # "out2" => ep2 = <<>>
  /\ "clearHaltOut" \notin asked =>
       /\ event # "clearHaltOut"
       /\ event = "out2" => Len(rx) + Len(ep2) <= RxCap
       /\ event # "out2" /\ ep2Res = "ACK" => Len(rx) + Packet <= RxCap
       /\ Follows(ep2, consumed + Len(rx))

\* Clearing the halt of a busy EP3 leaves it busy with nothing to send.
Stalled == ep3Busy /\ ep3Res # "ACK"

\* The packet in EP3 has not been accepted by the host.
Outstanding == ep3Busy /\ ep3Tog = hostTog
InFlight == IF Outstanding THEN ep3 ELSE <<>>

\* Why the stream is exact: what the host lacks is the outstanding packet and then
\* tx_, and the toggles tell whether there is one.
StreamInStep ==
  /\ ep3Res = "ACK" => ep3Busy /\ ep3 # <<>>
  /\ event = "in3" => ep3Res = "ACK"
  /\ event = "clearHaltIn" => hostTog = 0
  /\ event # "clearHaltIn" =>
       /\ ~ep3Busy => ep3Tog = hostTog
       /\ event = "in3" => ep3Tog # hostTog
  /\ Stalled \/ (ep3Busy /\ event = "clearHaltIn") \/
       /\ Follows(InFlight, got)
       /\ Follows(tx, got + Len(InFlight))
       /\ written = got + Len(InFlight) + Len(tx)

\* Types, no input lost and the output in step.
UsbInv == TypeOK /\ NoInputLost /\ RoomBeforeAck /\ StreamInStep

\* Everything written reaches the host ("a final log fragment could [otherwise]
\* wait forever"), unless the host has halted EP3 or cleared a halt there.
EverythingSent ==
  <>[](asked \cap {"haltIn", "clearHaltIn"} = {} => got = written)

\* "Even if one were missed, ep3Busy_ just stays set and the NEXT tick() re-arms
\* EP3: a single late packet, NOT a permanent stall."
NoPermanentStall == <>[](ep3Res # "STALL" => got = written)
==============================================================================
