------------------------------ MODULE UsbControl ------------------------------
(***************************************************************************)
(* The control endpoint of the CDC device (src/usb/usb_cdc.cpp,             *)
(* usb_descriptors.hpp): SETUP, IN and OUT transactions on EP0, handled one *)
(* by one when the main loop polls them, under a host that enumerates the   *)
(* device and then asks for more.                                           *)
(*                                                                          *)
(* A handshake may be lost in either direction.  The side that misses it    *)
(* repeats the packet; a repeated IN packet carries a toggle the host drops,*)
(* a repeated SETUP or OUT packet is handled again.  The host may give a    *)
(* transfer up at any point, begin another, or reset the bus.  Endpoint     *)
(* halts and DTR are part of UsbCdc.                                        *)
(***************************************************************************)
EXTENDS Integers, Sequences

CONSTANTS
  Ep0Size,       \* kEp0Size (64)
  DeviceLen,     \* deviceLen() (18)
  ConfigLen,     \* configLen() (67)
  Lengths,       \* wLength of the reads a host makes
  Fields,        \* values of a byte of the line coding
  LineLen,       \* size of lcWire_ (7)
  Extra,         \* requests made once the device is enumerated
  MaxExtra, MaxLost, MaxAborts, MaxResets   \* bounds of a model

Descriptors == {"getDevice", "getConfig"}
Reads == Descriptors \cup {"getConfiguration", "getStatus", "getLineCoding", "badDescriptor"}
Class == {"getLineCoding", "setLineCoding", "sendBreak"}
Refused == {"badDescriptor", "vendor"}
Codings == [1 .. LineLen -> Fields]
DefaultCoding == CHOOSE c \in Codings : TRUE   \* 115200 8N1

ASSUME UsbControlAssumption ==
  /\ {Ep0Size, DeviceLen, ConfigLen, LineLen} \subseteq Nat \ {0} /\ LineLen <= Ep0Size
  /\ Ep0Size > 2
  /\ Lengths \subseteq Nat
  /\ Fields \subseteq Nat /\ Fields # {}
  /\ {MaxExtra, MaxLost, MaxAborts, MaxResets} \subseteq Nat

VARIABLES
  addr,          \* DEV_ADDR
  devAddr,       \* devAddr_
  config,        \* devConfig_
  enumerated,    \* enumerated_
  lcWire,        \* lcWire_, and lc_, which is decoded from it at once
  req,           \* setupReqType_, setupReqCode_, setupValue_
  left,          \* setupLen_
  rest,          \* what descr_ points at
  ep0, txLen,    \* the data buffer and UEP0_TX_LEN
  tRes, tTog,    \* answer and toggle of the IN half
  rRes,          \* answer of the OUT half (its toggle is always DATA1)
  event,         \* the transaction not handled yet: "none", "setup", "in0", "out0"
  setup,         \* the SETUP packet last received
  busRst,        \* UIF_BUS_RST
  \* host
  hAddr,         \* the address it talks to
  asked,         \* the current request, its SETUP packet
  stage,         \* where the transfer stands
  hTog,          \* toggle it expects
  got,           \* bytes read so far
  todo,          \* next request of the enumeration
  extras, lost, aborts, resets,   \* history: counts
  lostHere,      \* history: a handshake of this transfer was lost
  doubt          \* history: ... that of SET_ADDRESS's status stage, since the last reset

settings == <<addr, devAddr, config, enumerated, lcWire>>
transfer == <<req, left, rest>>
endpoint == <<ep0, txLen, tRes, tTog, rRes>>
flags == <<event, setup, busRst>>
deviceVars == <<settings, transfer, endpoint>>
hostVars == <<hAddr, asked, stage, hTog, got, todo>>
history == <<extras, lost, aborts, resets, lostHere, doubt>>
controlVars == <<deviceVars, flags, hostVars, history>>

Lesser(a, b) == IF a <= b THEN a ELSE b
Drop(s, n) == SubSeq(s, n + 1, Len(s))

Junk == 0    \* a byte of memory behind the data
\* memcpy of n bytes from s, whatever s holds
Copy(s, n) == [i \in 1 .. n |-> IF i <= Len(s) THEN s[i] ELSE Junk]

Setup(name, len, value) == [name |-> name, len |-> len, value |-> value]

\* The requests of a given name a host may make; wLength of a control write is that of its data.
Setups(name) ==
  CASE name = "setLineCoding" -> {Setup(name, LineLen, c) : c \in Codings}
    [] name = "getLineCoding" -> {Setup(name, LineLen, <<>>)}
    [] name \in Reads \ {"getLineCoding"} -> {Setup(name, n, <<>>) : n \in Lengths}
    [] name = "setAddress" -> {Setup(name, 0, <<1>>)}
    [] name = "setConfiguration" -> {Setup(name, 0, <<1>>)}
    [] OTHER -> {Setup(name, 0, <<>>)}

Enumeration == <<"getDevice", "setAddress", "getConfig", "setConfiguration">>

ControlInit ==
  /\ addr = 0 /\ devAddr = 0 /\ config = 0 /\ enumerated = FALSE
  /\ lcWire = DefaultCoding
  /\ req = "none" /\ left = 0 /\ rest = <<>>
  /\ ep0 = <<>> /\ txLen = 0 /\ tRes = "NAK" /\ tTog = 0 /\ rRes = "ACK"
  /\ event = "none" /\ setup = Setup("none", 0, <<>>) /\ busRst = FALSE
  /\ hAddr = 0 /\ asked = Setup("none", 0, <<>>) /\ stage = "idle" /\ hTog = 1 /\ got = <<>>
  /\ todo = 1
  /\ extras = 0 /\ lost = 0 /\ aborts = 0 /\ resets = 0 /\ lostHere = FALSE /\ doubt = FALSE

------------------------------------------------------------------------------
\* The device.  onIrq() handles the transaction; the engine answers nothing before.

DeviceBytes == [i \in 1 .. DeviceLen |-> 10 + i]
ConfigBytes == [i \in 1 .. ConfigLen |-> 20 + i]

\* What a read returns.
Answer(name) ==
  CASE name = "getDevice" -> DeviceBytes
    [] name = "getConfig" -> ConfigBytes
    [] name = "getConfiguration" -> <<config>>
    [] name = "getStatus" -> <<0, 0>>
    [] name = "getLineCoding" -> lcWire
    [] OTHER -> <<>>

\* Mutated form: the host's wLength is taken as it is.
LengthUnclamped(s) == s.len

\* setupLen_ after the switch: standard reads never exceed their data.
LengthOf(s) ==
  IF s.name \in Reads \ Class THEN Lesser(s.len, Len(Answer(s.name))) ELSE s.len

\* Mutated form: the address is changed by the SETUP packet.
ApplySetupAddressAtOnce(s) ==
  /\ devAddr' = IF s.name = "setAddress" THEN s.value[1] ELSE devAddr
  /\ addr' = IF s.name = "setAddress" THEN s.value[1] ELSE addr
  /\ IF s.name = "setConfiguration" THEN config' = s.value[1] /\ enumerated' = TRUE
                                    ELSE UNCHANGED <<config, enumerated>>

\* What the SETUP packet alone changes.
ApplySetup(s) ==
  /\ devAddr' = IF s.name = "setAddress" THEN s.value[1] ELSE devAddr
  /\ IF s.name = "setConfiguration" THEN config' = s.value[1] /\ enumerated' = TRUE
                                    ELSE UNCHANGED <<config, enumerated>>
  /\ UNCHANGED addr

\* handleSetup(): a refusal on both halves, the first packet of a read, the
\* status packet of a request without data, or room for the data of a write.
HandleSetup ==
  LET s == setup
      n == Lesser(LengthOf(s), Ep0Size)
      total == LengthOf(s)
  IN
  /\ event = "setup"
  /\ req' = s.name
  /\ ApplySetup(s) /\ UNCHANGED lcWire
  /\ tTog' = 1
  /\ \/ /\ s.name \in Refused
        /\ tRes' = "STALL" /\ rRes' = "STALL" /\ left' = total /\ rest' = <<>>
        /\ UNCHANGED <<ep0, txLen>>
     \/ /\ s.name \in Reads \ Refused
        /\ ep0' = Copy(Answer(s.name), n) /\ txLen' = n
        /\ left' = total - n
        /\ rest' = Drop(Answer(s.name), n)
        /\ tRes' = "ACK" /\ rRes' = "NAK"
     \/ /\ s.name \notin Reads \cup Refused /\ total = 0
        /\ txLen' = 0 /\ tRes' = "ACK" /\ rRes' = "NAK"
        /\ left' = 0 /\ rest' = <<>> /\ UNCHANGED ep0
     \/ /\ s.name \notin Reads \cup Refused /\ total > 0
        /\ rRes' = "ACK" /\ tRes' = "NAK"
        /\ left' = total /\ rest' = <<>> /\ UNCHANGED <<ep0, txLen>>

\* Mutated form: the next packet of a read keeps its toggle.
NextPacketSameToggle ==
  LET n == Lesser(left, Ep0Size) IN
  /\ ep0' = Copy(rest, n) /\ txLen' = n /\ left' = left - n /\ rest' = Drop(rest, n)
  /\ UNCHANGED tTog

\* The next packet of a descriptor, empty if nothing is left.
NextPacket ==
  LET n == Lesser(left, Ep0Size) IN
  /\ ep0' = Copy(rest, n) /\ txLen' = n /\ left' = left - n /\ rest' = Drop(rest, n)
  /\ tTog' = 1 - tTog

StatusOutOpens == left = 0

\* handleEp0In()
HandleIn ==
  /\ event = "in0"
  /\ rRes' = IF StatusOutOpens THEN "ACK" ELSE rRes
  /\ IF req \in Descriptors THEN NextPacket ELSE UNCHANGED <<ep0, txLen, left, rest, tTog>>
  /\ addr' = IF req = "setAddress" THEN devAddr ELSE addr
  /\ UNCHANGED <<devAddr, config, enumerated, lcWire, req, tRes>>

\* handleEp0Out(); its toggle is right (TOG_OK) in every OUT packet of this host.
HandleOut ==
  /\ event = "out0"
  /\ lcWire' = IF req = "setLineCoding" THEN Copy(ep0, LineLen) ELSE lcWire
  /\ left' = IF req \in Class THEN 0 ELSE left
  /\ IF left' = 0 THEN txLen' = 0 /\ tRes' = "ACK" /\ tTog' = 1
                  ELSE UNCHANGED <<txLen, tRes, tTog>>
  /\ UNCHANGED <<addr, devAddr, config, enumerated, req, rest, ep0, rRes>>

HandleTransfer == (HandleSetup \/ HandleIn \/ HandleOut) /\ event' = "none" /\ UNCHANGED <<setup, busRst>>

\* busReset(), endpointInit()
BusReset ==
  /\ addr' = 0 /\ devAddr' = 0 /\ config' = 0 /\ enumerated' = FALSE /\ UNCHANGED lcWire
  /\ tRes' = "NAK" /\ tTog' = 0 /\ rRes' = "ACK"
  /\ busRst' = FALSE
  /\ UNCHANGED <<transfer, ep0, txLen, event, setup>>

Poll ==
  /\ event # "none" \/ busRst
  /\ IF event # "none" THEN HandleTransfer ELSE BusReset
  /\ UNCHANGED <<hostVars, history>>

------------------------------------------------------------------------------
\* The host.

Responsive == event = "none" /\ ~busRst
Heard == Responsive /\ addr = hAddr

Enumerated == todo > Len(Enumeration)

\* A request of the enumeration, or another one once that is done.
Choose(s) ==
  /\ stage = "idle"
  /\ IF Enumerated THEN s.name \in Extra /\ extras < MaxExtra /\ extras' = extras + 1
                   ELSE s.name = Enumeration[todo] /\ UNCHANGED extras
  /\ asked' = s /\ stage' = "setup" /\ got' = <<>> /\ hTog' = 1 /\ lostHere' = FALSE
  /\ UNCHANGED <<deviceVars, flags, hAddr, todo, lost, aborts, resets, doubt>>

Names == {Enumeration[i] : i \in 1 .. Len(Enumeration)} \cup Extra
ChooseAny == \E name \in Names : \E s \in Setups(name) : Choose(s)

\* The handshake of this transaction arrives, or is lost.
Delivered == UNCHANGED <<lost, lostHere, doubt>>
Lost == /\ lost < MaxLost /\ lost' = lost + 1 /\ lostHere' = TRUE
        /\ doubt' = (doubt \/ (stage = "statusIn" /\ asked.name = "setAddress"))

FirstStage(s) == IF s.len = 0 THEN "statusIn" ELSE IF s.name \in Reads THEN "dataIn" ELSE "dataOut"

SendSetup ==
  /\ stage = "setup" /\ Heard
  /\ event' = "setup" /\ setup' = asked
  /\ \/ Delivered /\ stage' = FirstStage(asked)
     \/ Lost /\ UNCHANGED stage
  /\ UNCHANGED <<deviceVars, busRst, hAddr, asked, hTog, got, todo, extras, aborts, resets>>

\* The request has been carried out, as far as the host can see.
Complete ==
  /\ stage' = "idle"
  /\ hAddr' = IF asked.name = "setAddress" THEN asked.value[1] ELSE hAddr
  /\ todo' = IF Enumerated THEN todo ELSE todo + 1

InStages == {"dataIn", "statusIn"}
OutStages == {"dataOut", "statusOut"}

TakePacket ==
  LET packet == SubSeq(ep0, 1, txLen) IN
  /\ got' = got \o packet /\ hTog' = 1 - hTog
  /\ IF stage = "statusIn" THEN Complete
     ELSE /\ stage' = IF txLen < Ep0Size \/ Len(got') >= asked.len THEN "statusOut" ELSE stage
          /\ UNCHANGED <<hAddr, todo>>

\* An IN token finds a packet; a repeated one is acknowledged and dropped.
HostIn ==
  /\ stage \in InStages /\ Heard /\ tRes = "ACK"
  /\ IF tTog = hTog THEN TakePacket ELSE UNCHANGED <<hAddr, stage, hTog, got, todo>>
  /\ \/ Delivered /\ event' = "in0"
     \/ Lost /\ UNCHANGED event
  /\ UNCHANGED <<deviceVars, setup, busRst, asked, extras, aborts, resets>>

\* The data of a write, or the empty packet that ends a read.
HostOut ==
  /\ stage \in OutStages /\ Heard /\ rRes = "ACK"
  /\ ep0' = IF stage = "dataOut" THEN asked.value ELSE ep0
  /\ event' = "out0"
  /\ \/ /\ Delivered
        /\ IF stage = "statusOut" THEN Complete ELSE stage' = "statusIn" /\ UNCHANGED <<hAddr, todo>>
     \/ Lost /\ UNCHANGED <<hAddr, stage, todo>>
  /\ UNCHANGED <<settings, transfer, txLen, tRes, tTog, rRes, setup, busRst, asked, hTog, got,
                 extras, aborts, resets>>

\* What the stage the host is in would be answered.
Reply == IF stage \in InStages THEN tRes ELSE IF stage \in OutStages THEN rRes ELSE "ACK"

GiveUp ==
  /\ stage' = "idle"
  /\ UNCHANGED <<deviceVars, flags, hAddr, asked, hTog, got, todo, extras, lost, resets,
                 lostHere, doubt>>

\* STALL ends the transfer.
TakeRefusal == Heard /\ Reply = "STALL" /\ GiveUp /\ UNCHANGED aborts

\* NAK although the device has nothing left to handle: it waits for the host
\* as the host waits for it, until the host's timer runs out.
Stuck == Heard /\ Reply = "NAK"

TimeOut == Stuck /\ GiveUp /\ UNCHANGED aborts

\* The program that made the request goes away.
Abort == stage # "idle" /\ aborts < MaxAborts /\ aborts' = aborts + 1 /\ GiveUp

\* Nobody answers at the address the host uses: the host resets the port.
Silent == Responsive /\ addr # hAddr

Reset ==
  /\ ~busRst
  /\ busRst' = TRUE
  /\ stage' = "idle" /\ hAddr' = 0 /\ todo' = 1 /\ doubt' = FALSE
  /\ UNCHANGED <<deviceVars, event, setup, asked, hTog, got, extras, lost, aborts, lostHere>>

ResetSilent == Silent /\ Reset /\ UNCHANGED resets
ResetAnyTime == resets < MaxResets /\ resets' = resets + 1 /\ Reset

Finished == stage = "idle" /\ Enumerated /\ Responsive /\ extras = MaxExtra /\ UNCHANGED controlVars

HostSteps == ChooseAny \/ SendSetup \/ HostIn \/ HostOut \/ TakeRefusal \/ TimeOut \/ ResetSilent

ControlNext == Poll \/ HostSteps \/ Abort \/ ResetAnyTime \/ Finished

ControlSpec == ControlInit /\ [][ControlNext]_controlVars

\* The main loop polls; the host goes on with what it has begun.
ControlFairSpec == ControlSpec /\ WF_controlVars(Poll) /\ WF_controlVars(HostSteps)

------------------------------------------------------------------------------
ControlTypeOK ==
  /\ {addr, devAddr, config, hAddr} \subseteq {0, 1}
  /\ enumerated \in BOOLEAN /\ busRst \in BOOLEAN
  /\ lcWire \in Codings
  /\ Len(ep0) <= Ep0Size /\ txLen \in 0 .. Ep0Size /\ left \in Nat
  /\ {tRes, rRes} \subseteq {"ACK", "NAK", "STALL"} /\ {tTog, hTog} \subseteq {0, 1}
  /\ event \in {"none", "setup", "in0", "out0"}
  /\ stage \in {"idle", "setup"} \cup InStages \cup OutStages
  /\ todo \in 1 .. Len(Enumeration) + 1

\* The address changes in the status stage of SET_ADDRESS, neither before (the
\* host still uses the old one) nor after; so the two sides part only if the
\* handshake of that very stage is lost.  A bus reset that comes while the
\* stage waits to be handled leaves the device at address 0.
AddressAgrees == Silent => doubt

\* When the device offers its status packet, the request has taken effect.
AcknowledgedMeansDone ==
  Heard /\ stage = "statusIn" /\ tRes = "ACK" =>
    /\ asked.name = "setLineCoding" => lcWire = asked.value
    /\ asked.name = "setConfiguration" => config = asked.value[1] /\ enumerated

\* A read returns the bytes asked for, in order and none twice, at any time;
\* when the host goes to the status stage it has all of them, as many as it
\* asked for or as there are.  (Of the line coding, hosts read LineLen bytes.)
Beginning(s, whole) == \E n \in 0 .. Len(whole) : s = SubSeq(whole, 1, n)
ReadsExact ==
  /\ stage \in {"dataIn", "statusOut"} => Beginning(got, Answer(asked.name))
  /\ stage = "statusOut" => Len(got) = Lesser(asked.len, Len(Answer(asked.name)))

\* A transfer gets stuck, to be cut off by the host's timer, only if one of its
\* handshakes was lost.
StuckOnlyByLoss == Stuck => lostHere

\* Where the two ends of EP0 stand, from one stage to the next.
Fits(s) ==
  /\ s.len \in Nat
  /\ s.name \in {"setLineCoding", "getLineCoding"} => s.len = LineLen
  /\ s.name = "setLineCoding" => s.value \in Codings
  /\ s.name \in {"setAddress", "setConfiguration"} => s.value = <<1>>
  /\ s.name \notin Reads \cup {"setLineCoding"} => s.len = 0

Moving == stage \in InStages \cup OutStages
Received == Moving /\ event # "setup"

\* The SETUP packet is new, or the device has acted on it.
BeginsWell ==
  /\ Fits(asked) /\ Fits(setup)
  /\ busRst => stage \in {"idle", "setup"} /\ hAddr = 0
  /\ stage = "setup" \/ (Moving /\ event = "setup") => got = <<>> /\ hTog = 1
  /\ Moving /\ event = "setup" => setup = asked /\ stage = FirstStage(asked)
  /\ Received => req = asked.name
  /\ event = "out0" /\ req = "setLineCoding" => ep0 \in Codings

\* What has been read, and the packet that is next.
DataInWell ==
  LET whole == Answer(asked.name)
      from == LengthOf(asked) - left - txLen    \* bytes in the packets before
  IN
  Received /\ stage = "dataIn" =>
    /\ asked.name \in Reads /\ event \in {"none", "in0"}
    /\ asked.name \in Refused => tRes = "STALL" /\ got = <<>>
    /\ asked.name \notin Refused =>
         /\ tRes = "ACK"
         /\ from >= 0 /\ txLen = Lesser(left + txLen, Ep0Size)
         /\ ep0 = SubSeq(whole, from + 1, from + txLen)
         /\ rest = Drop(whole, from + txLen)
         /\ tTog = hTog => event = "none" /\ got = SubSeq(whole, 1, from)
         /\ tTog # hTog => /\ got = SubSeq(whole, 1, from + txLen)
                          /\ txLen = Ep0Size /\ from + txLen < asked.len

StatusOutWell ==
  Received /\ stage = "statusOut" =>
    /\ asked.name \in Reads \ Refused /\ left = 0
    /\ got = SubSeq(Answer(asked.name), 1, LengthOf(asked))
    /\ lostHere \/ event = "in0" \/ rRes = "ACK"

DataOutWell ==
  Received /\ stage = "dataOut" =>
    /\ asked.name = "setLineCoding" /\ event \in {"none", "out0"}
    /\ rRes = "ACK" /\ hTog = 1
    /\ event = "out0" => ep0 = asked.value

StatusInWell ==
  Received /\ stage = "statusIn" =>
    /\ hTog = 1
    /\ event \in {"none", "out0"}
    /\ event = "out0" => asked.name = "setLineCoding" /\ ep0 = asked.value
    /\ event = "none" =>
         /\ tRes \in {"ACK", "STALL"}
         /\ tRes = "ACK" =>
              /\ tTog = 1
              /\ asked.name = "setLineCoding" => lcWire = asked.value
              /\ asked.name = "setConfiguration" => config = asked.value[1] /\ enumerated
              /\ asked.name = "setAddress" => devAddr = asked.value[1]

\* The device has the host's address, or will take it with the status packet.
AddressWell ==
  doubt \/ busRst \/ hAddr = IF event = "in0" /\ req = "setAddress" THEN devAddr ELSE addr

StagesAgree == BeginsWell /\ DataInWell /\ StatusOutWell /\ DataOutWell /\ StatusInWell /\ AddressWell

\* Types, and the two ends of EP0 agree on where they are.
ControlInv ==
  ControlTypeOK /\ StagesAgree /\ AddressAgrees /\ AcknowledgedMeansDone /\ StuckOnlyByLoss

\* Whatever was lost, given up or reset meanwhile: in the end the device is
\* configured and answers at the host's address.
EnumerationCompletes == <>[](Enumerated /\ enumerated /\ addr = hAddr)
==============================================================================
