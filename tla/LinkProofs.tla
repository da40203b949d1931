----------------------------- MODULE LinkProofs -----------------------------
(***************************************************************************)
(* Proofs about the link.                                                    *)
(*                                                                          *)
(* The datapath (UsbCdc): for every packet size, every capacity of the rings *)
(* that takes a packet, every set of control requests and any number of     *)
(* bytes, lost handshakes and bus resets.                                   *)
(*                                                                          *)
(* The stream it carries (Cobs, MdioHost): for every size of a byte, every   *)
(* payload, every capacity and every way of cutting the stream.             *)
(***************************************************************************)
EXTENDS UsbCdc, MdioHost, Remainders, SequenceTheorems, FiniteSetTheorems, WellFoundedInduction, TLAPS

------------------------------------------------------------------------------
\* Sequences of consecutive bytes.

\* What write() and the host produce.
LEMMA FreshBytes ==
  ASSUME NEW from \in Nat, NEW n \in Nat, NEW m \in Nat, from + n <= m
  PROVE  /\ Fresh(from, n) \in Seq(1 .. m)
         /\ Len(Fresh(from, n)) = n
         /\ Follows(Fresh(from, n), from)
BY DEF Fresh, Follows

LEMMA Appended ==
  ASSUME NEW S, NEW s \in Seq(S), NEW t \in Seq(S)
  PROVE  s \o t \in Seq(S) /\ Len(s \o t) = Len(s) + Len(t)
BY ConcatProperties

\* Two runs of bytes, one after the other.
LEMMA FollowsAppended ==
  ASSUME NEW s \in Seq(Nat), NEW t \in Seq(Nat), NEW from \in Nat,
         Follows(s, from), Follows(t, from + Len(s))
  PROVE  Follows(s \o t, from)
<1>1. DOMAIN (s \o t) = 1 .. Len(s) + Len(t)
  BY ConcatProperties, LenProperties
<1> SUFFICES ASSUME NEW k \in 1 .. Len(s) + Len(t) PROVE (s \o t)[k] = from + k
  BY <1>1 DEF Follows
<1>2. (s \o t)[k] = IF k <= Len(s) THEN s[k] ELSE t[k - Len(s)]
  BY ConcatProperties
<1>3. CASE k <= Len(s)
  BY <1>2, <1>3, LenProperties DEF Follows
<1>4. CASE ~(k <= Len(s))
  <2>1. k - Len(s) \in DOMAIN t /\ Len(s) \in Nat
    BY <1>4, LenProperties
  <2> QED BY <1>2, <1>4, <2>1 DEF Follows
<1> QED BY <1>3, <1>4

\* The first n bytes, which a packet takes ...
LEMMA Beginning ==
  ASSUME NEW S, NEW s \in Seq(S), NEW n \in 0 .. Len(s)
  PROVE  /\ SubSeq(s, 1, n) \in Seq(S)
         /\ Len(SubSeq(s, 1, n)) = n
         /\ \A k \in 1 .. n : SubSeq(s, 1, n)[k] = s[k]
<1>1. Len(s) \in Nat /\ \A k \in 1 .. n : s[k] \in S
  BY LenProperties
<1>2. \A k \in 1 .. n - 1 + 1 : SubSeq(s, 1, n)[k] = s[1 + k - 1]
  BY <1>1, SubSeqProperties
<1>3. \A k \in 1 .. n : 1 + k - 1 = k /\ k \in 1 .. n - 1 + 1
  BY <1>1
<1>4. SubSeq(s, 1, n) \in Seq(S) /\ Len(SubSeq(s, 1, n)) = IF 1 <= n THEN n - 1 + 1 ELSE 0
  BY <1>1, SubSeqProperties
<1> QED BY <1>1, <1>2, <1>3, <1>4

\* ... and what it leaves.
LEMMA Rest ==
  ASSUME NEW S, NEW s \in Seq(S), NEW n \in 0 .. Len(s)
  PROVE  /\ Drop(s, n) \in Seq(S)
         /\ Len(Drop(s, n)) = Len(s) - n
         /\ \A k \in 1 .. Len(s) - n : Drop(s, n)[k] = s[n + k]
<1>1. Len(s) \in Nat /\ n + 1 \in Int /\ Len(s) \in Int /\ \A k \in n + 1 .. Len(s) : s[k] \in S
  BY LenProperties
<1>2. /\ Drop(s, n) \in Seq(S)
      /\ Len(Drop(s, n)) = IF n + 1 <= Len(s) THEN Len(s) - (n + 1) + 1 ELSE 0
      /\ \A k \in 1 .. Len(s) - (n + 1) + 1 : Drop(s, n)[k] = s[n + 1 + k - 1]
  BY <1>1, SubSeqProperties DEF Drop
<1>3. \A k \in 1 .. Len(s) - n : n + 1 + k - 1 = n + k /\ k \in 1 .. Len(s) - (n + 1) + 1
  BY <1>1
<1> QED BY <1>1, <1>2, <1>3

LEMMA FollowsFront ==
  ASSUME NEW s \in Seq(Nat), NEW n \in 0 .. Len(s), NEW from \in Nat, Follows(s, from)
  PROVE  Follows(SubSeq(s, 1, n), from) /\ Follows(Drop(s, n), from + n)
<1>1. DOMAIN s = 1 .. Len(s) /\ Len(s) \in Nat
  BY LenProperties
<1>2. /\ DOMAIN SubSeq(s, 1, n) = 1 .. n
      /\ \A k \in 1 .. n : SubSeq(s, 1, n)[k] = s[k]
  BY Beginning, LenProperties
<1>3. /\ DOMAIN Drop(s, n) = 1 .. Len(s) - n
      /\ \A k \in 1 .. Len(s) - n : Drop(s, n)[k] = s[n + k]
  <2>1. /\ Drop(s, n) \in Seq(Nat) /\ Len(Drop(s, n)) = Len(s) - n
        /\ \A k \in 1 .. Len(s) - n : Drop(s, n)[k] = s[n + k]
    BY Rest, Zenon
  <2>2. DOMAIN Drop(s, n) = 1 .. Len(Drop(s, n))
    BY <2>1, LenProperties, Zenon
  <2> QED BY <2>1, <2>2, Zenon
<1>4. Follows(SubSeq(s, 1, n), from)
  BY <1>1, <1>2 DEF Follows
<1>5. \A k \in 1 .. Len(s) - n : n + k \in DOMAIN s /\ from + (n + k) = from + n + k
  BY <1>1
<1>6. Follows(Drop(s, n), from + n)
  BY <1>1, <1>3, <1>5 DEF Follows
<1> QED BY <1>4, <1>6

LEMMA FollowsEmpty == \A from : Follows(<<>>, from)
BY DEF Follows

------------------------------------------------------------------------------
\* What steps that leave a direction alone do to it.

LEMMA Sizes ==
  /\ Packet \in Nat \ {0} /\ TxCap \in Nat \ {0} /\ RxCap \in Nat \ {0}
  /\ Packet <= TxCap /\ Packet <= RxCap
  /\ Requests \subseteq AllRequests
  /\ MaxOut \in Nat /\ MaxIn \in Nat
BY UsbCdcAssumption

\* No input lost, and why.
Input == NoInputLost /\ RoomBeforeAck

outVars == <<tx, ep3, ep3Res, ep3Busy, ep3Tog, hostTog, got, written>>
inVars == <<rx, ep2, ep2Res, sent, consumed>>

LEMMA OutputKept ==
  ASSUME StreamInStep, UNCHANGED outVars,
         event' = event \/ (event # "in3" /\ event \notin {"clearHaltIn"}
                            /\ event' \notin {"in3", "clearHaltIn"})
  PROVE  StreamInStep'
BY DEF StreamInStep, outVars, Stalled, InFlight, Outstanding, Follows

LEMMA InputKept ==
  ASSUME Input, UNCHANGED inVars, asked \subseteq asked',
         event' = event \/ (event # "out2" /\ event' # "out2"),
         event' = "clearHaltOut" => "clearHaltOut" \in asked'
  PROVE  Input'
BY DEF Input, NoInputLost, RoomBeforeAck, inVars, Follows

LEMMA InputAsked ==
  ASSUME Input
  PROVE  event = "clearHaltOut" => "clearHaltOut" \in asked
BY DEF Input, RoomBeforeAck

------------------------------------------------------------------------------
\* The initial state.
LEMMA UsbInit == Init => UsbInv
<1> SUFFICES ASSUME Init PROVE UsbInv
  OBVIOUS
<1>1. TypeOK
  <2>1. <<>> \in Seq(1 .. MaxIn) /\ <<>> \in Seq(1 .. MaxOut) /\ Len(<<>>) = 0
    BY EmptySeq
  <2>2. {ep3Busy, ep2Nak, busRst, dtr, sessionStarted} \subseteq BOOLEAN
    BY DEF Init
  <2>3. Len(tx) + room <= TxCap /\ Len(rx) <= RxCap /\ Len(ep3) <= Packet /\ Len(ep2) <= Packet
    BY <2>1, Sizes DEF Init
  <2> QED BY <2>1, <2>2, <2>3, Sizes DEF Init, TypeOK, Answers
<1>2. NoInputLost /\ RoomBeforeAck
  BY Sizes, FollowsEmpty DEF Init, NoInputLost, RoomBeforeAck
<1>3. StreamInStep
  BY FollowsEmpty DEF Init, StreamInStep, Stalled, InFlight, Outstanding
<1> QED BY <1>1, <1>2, <1>3 DEF UsbInv

------------------------------------------------------------------------------
\* The engine and the host.

LEMMA HostInStep ==
  ASSUME UsbInv, HostIn
  PROVE  UsbInv'
<1>0. /\ ep3Res = "ACK" /\ ep3Busy /\ event = "none"
      /\ event' \in {"none", "in3"}
      /\ UNCHANGED <<txVars, rxVars, session, loopVars, busRst, written, sent, consumed, asked>>
  BY DEF HostIn, Responsive, UsbInv, StreamInStep
<1>1. /\ ep3 \in Seq(1 .. MaxIn) /\ ep3 # <<>> /\ Len(ep3) \in Nat \ {0}
      /\ Len(ep3) \in DOMAIN ep3 /\ ep3[Len(ep3)] \in 1 .. MaxIn
  <2>1. ep3 \in Seq(1 .. MaxIn) /\ ep3 # <<>>
    BY <1>0 DEF UsbInv, StreamInStep, TypeOK
  <2>2. Len(ep3) \in Nat \ {0} /\ DOMAIN ep3 = 1 .. Len(ep3)
    BY <2>1, EmptySeq, LenProperties
  <2>3. Len(ep3) \in 1 .. Len(ep3)
    BY <2>2
  <2>4. ep3[Len(ep3)] \in 1 .. MaxIn
    BY <2>1, <2>3, ElementOfSeq
  <2> QED BY <2>1, <2>2, <2>3, <2>4
<1>2. Input'
  <2>1. UNCHANGED inVars /\ asked \subseteq asked'
    BY <1>0 DEF inVars, rxVars
  <2> QED BY <1>0, <2>1, InputKept DEF UsbInv, Input
<1>3. CASE ep3Tog = hostTog
  <2>1. got' = ep3[Len(ep3)] /\ hostTog' = 1 - hostTog
    BY <1>3 DEF HostIn
  <2>2. ep3Tog' # hostTog'
    BY <1>0, <1>3, <2>1 DEF UsbInv, TypeOK, txVars
  <2>3. TypeOK'
    BY <1>0, <1>1, <2>1 DEF UsbInv, TypeOK, txVars, rxVars, session, loopVars
  <2>4. got' = got + Len(ep3) /\ Follows(tx, got + Len(ep3)) /\ written = got + Len(ep3) + Len(tx)
    BY <1>0, <1>1, <1>3, <2>1 DEF UsbInv, StreamInStep, Stalled, InFlight, Outstanding, Follows
  <2>5. InFlight' = <<>>
    BY <2>2 DEF InFlight, Outstanding
  <2>6. /\ Follows(InFlight', got') /\ Follows(tx', got' + Len(InFlight'))
        /\ written' = got' + Len(InFlight') + Len(tx')
    <3>1. got' \in Nat /\ got' + 0 = got' /\ Len(InFlight') = 0
      BY <1>1, <2>1, <2>5
    <3> QED BY <1>0, <2>4, <2>5, <3>1, FollowsEmpty DEF txVars
  <2>7. StreamInStep'
    BY <1>0, <2>2, <2>6 DEF UsbInv, StreamInStep, txVars
  <2> QED BY <1>2, <2>3, <2>7 DEF UsbInv, Input
<1>4. CASE ep3Tog # hostTog
  <2>1. UNCHANGED <<got, hostTog>>
    BY <1>4 DEF HostIn
  <2>2. TypeOK'
    BY <1>0, <2>1 DEF UsbInv, TypeOK, txVars, rxVars, session, loopVars
  <2>3. InFlight' = InFlight
    BY <1>0, <2>1 DEF InFlight, Outstanding, txVars
  <2>4. StreamInStep'
    BY <1>0, <1>4, <2>1, <2>3 DEF UsbInv, StreamInStep, txVars, Stalled
  <2> QED BY <1>2, <2>2, <2>4 DEF UsbInv, Input
<1> QED BY <1>3, <1>4

LEMMA HostOutStep ==
  ASSUME UsbInv, NEW n \in 1 .. Packet, HostOut(n)
  PROVE  UsbInv'
<1>0. /\ event = "none" /\ event' = "out2" /\ ep2Res = "ACK" /\ sent + n <= MaxOut
      /\ ep2' = Fresh(sent, n) /\ sent' = sent + n
      /\ UNCHANGED <<txVars, rx, ep2Res, ep2Nak, session, loopVars, busRst, hostTog, written, got,
                     consumed, bounds>>
  BY DEF HostOut, Responsive
<1>1. /\ ep2' \in Seq(1 .. MaxOut) /\ Len(ep2') = n /\ Follows(ep2', sent)
      /\ sent \in Nat /\ n \in Nat /\ n <= Packet
  BY <1>0, FreshBytes, Sizes, SMTT(20) DEF UsbInv, TypeOK
<1>2. TypeOK'
  <2>1. sent' \in 0 .. MaxOut
    BY <1>0, <1>1, Sizes
  <2> QED BY <1>0, <1>1, <2>1 DEF UsbInv, TypeOK, txVars, session, loopVars
<1>3. StreamInStep'
  <2>1. UNCHANGED outVars
    BY <1>0 DEF outVars, txVars
  <2> QED BY <1>0, <2>1, OutputKept DEF UsbInv
<1>4. ASSUME "clearHaltOut" \notin asked
      PROVE  /\ consumed + Len(rx) = sent /\ Follows(rx, consumed)
             /\ Len(rx) + Packet <= RxCap
  BY <1>0, <1>4, EmptySeq DEF UsbInv, NoInputLost, RoomBeforeAck, TypeOK
<1>5. NoInputLost' /\ RoomBeforeAck'
  <2>1. UNCHANGED <<rx, consumed, asked, ep2Res>> /\ Len(rx) \in Nat /\ consumed \in Nat
    BY <1>0 DEF bounds, UsbInv, TypeOK
  <2>2. NoInputLost'
    BY <1>0, <1>1, <1>4, <2>1 DEF NoInputLost, Follows
  <2>3. RoomBeforeAck'
    BY <1>0, <1>1, <1>4, <2>1, Sizes DEF RoomBeforeAck
  <2> QED BY <2>2, <2>3
<1> QED BY <1>2, <1>3, <1>5 DEF UsbInv

LEMMA HostSetupStep ==
  ASSUME UsbInv, NEW req \in Requests, HostSetup(req)
  PROVE  UsbInv'
<1>0. /\ event = "none" /\ event' = req /\ asked' = asked \cup {req}
      /\ hostTog' = (IF req = "clearHaltIn" THEN 0 ELSE hostTog)
      /\ UNCHANGED <<txVars, rxVars, session, loopVars, busRst, written, got, sent, consumed>>
  BY DEF HostSetup, Responsive
<1>1. req \in AllRequests /\ req # "none" /\ req # "in3" /\ req # "out2"
  BY Sizes DEF AllRequests
<1>2. TypeOK'
  BY <1>0, <1>1 DEF UsbInv, TypeOK, txVars, rxVars, session, loopVars
<1>3. Input'
  <2>1. UNCHANGED inVars
    BY <1>0 DEF inVars, rxVars
  <2> QED BY <1>0, <1>1, <2>1, InputKept DEF UsbInv, Input
<1>4. StreamInStep'
  <2>1. CASE req # "clearHaltIn"
    <3>1. UNCHANGED outVars
      BY <1>0, <2>1 DEF outVars, txVars
    <3> QED BY <1>0, <1>1, <2>1, <3>1, OutputKept DEF UsbInv
  <2>2. CASE req = "clearHaltIn"
    <3>1. ep3Res = "ACK" => ep3Busy /\ ep3 # <<>>
      BY DEF UsbInv, StreamInStep
    <3>2. ASSUME ~ep3Busy
          PROVE  /\ Follows(InFlight', got') /\ Follows(tx', got' + Len(InFlight'))
                 /\ written' = got' + Len(InFlight') + Len(tx')
      <4>1. InFlight = <<>> /\ InFlight' = <<>>
        BY <1>0, <3>2 DEF InFlight, Outstanding, txVars
      <4> QED BY <1>0, <3>2, <4>1 DEF UsbInv, StreamInStep, Stalled, txVars
    <3> QED BY <1>0, <2>2, <3>1, <3>2 DEF StreamInStep, txVars, Stalled
  <2> QED BY <2>1, <2>2
<1> QED BY <1>2, <1>3, <1>4 DEF UsbInv, Input

LEMMA HostResetsStep ==
  ASSUME UsbInv, HostResets
  PROVE  UsbInv'
<1>0. /\ UNCHANGED <<txVars, rxVars, session, loopVars, event, hostVars, asked>>
      /\ busRst' = TRUE
  BY DEF HostResets
<1>1. TypeOK'
  BY <1>0 DEF UsbInv, TypeOK, txVars, rxVars, session, loopVars, hostVars
<1>2. UNCHANGED outVars /\ UNCHANGED inVars
  BY <1>0 DEF outVars, inVars, txVars, rxVars, hostVars
<1> QED BY <1>0, <1>1, <1>2, OutputKept, InputKept, InputAsked DEF UsbInv, Input

------------------------------------------------------------------------------
\* onIrq(), from tick() and from pump().

\* What the callers do to the other variables.
Called ==
  /\ UNCHANGED <<room, bounds>>
  /\ pc' \in {"loop", "send", "fill"} /\ (pc' # "fill" => room = 0)

\* A completed packet makes the endpoint free, and both toggles agree again.
LEMMA OnIn3Step ==
  ASSUME UsbInv, Called, OnIn3, event' = "none", UNCHANGED busRst
  PROVE  UsbInv'
<1>0. /\ event = "in3" /\ ep3Tog' = 1 - ep3Tog /\ ep3Res' = "NAK" /\ ~ep3Busy'
      /\ ep3Busy' = FALSE
      /\ UNCHANGED <<tx, ep3, partial, rxVars, session, hostVars>>
  BY DEF OnIn3
<1>1. ep3Tog' \in {0, 1} /\ ep3Tog' = hostTog /\ ep3Tog # hostTog
  BY <1>0 DEF UsbInv, TypeOK, StreamInStep
<1>2. TypeOK'
  BY <1>0, <1>1 DEF UsbInv, TypeOK, Answers, rxVars, session, hostVars, Called
<1>3. Input'
  <2>1. UNCHANGED <<inVars, asked>>
    BY <1>0 DEF inVars, rxVars, hostVars, Called, bounds
  <2> QED BY <1>0, <2>1, InputKept DEF UsbInv, Input
<1>4. InFlight = <<>> /\ InFlight' = <<>>
  BY <1>0, <1>1 DEF InFlight, Outstanding
<1>5. StreamInStep'
  BY <1>0, <1>1, <1>4 DEF UsbInv, StreamInStep, Stalled, hostVars
<1> QED BY <1>2, <1>3, <1>5 DEF UsbInv, Input

\* A received packet fits, and EP2 is throttled unless another one does too.
LEMMA OnOut2Step ==
  ASSUME UsbInv, Called, OnOut2, event' = "none", UNCHANGED busRst
  PROVE  UsbInv'
<1> DEFINE k == Lesser(Len(ep2), RxCap - Len(rx))
<1>0. /\ event = "out2" /\ rx' = rx \o SubSeq(ep2, 1, k) /\ ep2' = <<>>
      /\ IF MustThrottle(RxCap - Len(rx')) THEN ep2Res' = "NAK" /\ ep2Nak' = TRUE
                                           ELSE UNCHANGED <<ep2Res, ep2Nak>>
      /\ UNCHANGED <<txVars, session, hostVars>>
  BY DEF OnOut2
<1>1. /\ rx \in Seq(1 .. MaxOut) /\ ep2 \in Seq(1 .. MaxOut) /\ Len(rx) <= RxCap
      /\ Len(rx) \in Nat /\ Len(ep2) \in Nat /\ consumed \in Nat
  BY DEF UsbInv, TypeOK
<1>2. k \in 0 .. Len(ep2) /\ Len(rx) + k <= RxCap
      /\ (Len(rx) + Len(ep2) <= RxCap => k = Len(ep2))
  BY <1>1, Sizes DEF Lesser
<1> HIDE DEF k
<1>3. /\ SubSeq(ep2, 1, k) \in Seq(1 .. MaxOut) /\ Len(SubSeq(ep2, 1, k)) = k
      /\ rx' \in Seq(1 .. MaxOut) /\ Len(rx') = Len(rx) + k
  <2>1. SubSeq(ep2, 1, k) \in Seq(1 .. MaxOut) /\ Len(SubSeq(ep2, 1, k)) = k
    BY <1>1, <1>2, Beginning
  <2> QED BY <1>0, <1>1, <2>1, Appended
<1>4. ep2' \in Seq(1 .. MaxOut) /\ Len(ep2') = 0
  BY <1>0, EmptySeq
<1>5. TypeOK'
  <2>1. ep2Res' \in Answers /\ ep2Nak' \in BOOLEAN
    BY <1>0 DEF UsbInv, TypeOK, Answers
  <2> QED BY <1>0, <1>2, <1>3, <1>4, <2>1, Sizes DEF UsbInv, TypeOK, txVars, session, hostVars, Called
<1>6. StreamInStep'
  <2>1. UNCHANGED outVars
    BY <1>0 DEF outVars, txVars, hostVars
  <2> QED BY <1>0, <2>1, OutputKept DEF UsbInv
<1>7. ASSUME "clearHaltOut" \notin asked
      PROVE  /\ consumed + Len(rx') = sent /\ Follows(rx', consumed)
             /\ ep2Res' = "ACK" => Len(rx') + Packet <= RxCap
  <2>1. /\ Len(rx) + Len(ep2) <= RxCap /\ Follows(rx, consumed) /\ Follows(ep2, consumed + Len(rx))
        /\ consumed + Len(rx) + Len(ep2) = sent
    BY <1>0, <1>7 DEF UsbInv, NoInputLost, RoomBeforeAck
  <2>2. rx' = rx \o ep2
    BY <1>0, <1>1, <1>2, <2>1, SubSeqFull
  <2>3. rx \in Seq(Nat) /\ ep2 \in Seq(Nat)
    BY <1>1, SeqMonotonic, Sizes
  <2>4. Follows(rx', consumed)
    BY <1>1, <2>1, <2>2, <2>3, FollowsAppended
  <2>5. ep2Res' = "ACK" => Len(rx') + Packet <= RxCap
    BY <1>0, <1>1, <1>2, <1>3, Sizes DEF MustThrottle
  <2>6. consumed + Len(rx') = sent
    <3>1. k = Len(ep2) /\ Len(rx') = Len(rx) + k
      BY <1>2, <1>3, <2>1
    <3> QED BY <1>1, <2>1, <3>1
  <2> QED BY <2>4, <2>5, <2>6
<1>8. NoInputLost' /\ RoomBeforeAck'
  <2>1. UNCHANGED <<consumed, sent, asked>> /\ Len(rx') \in Nat
    BY <1>0, <1>1, <1>2, <1>3 DEF hostVars, Called, bounds
  <2>2. NoInputLost'
    BY <1>1, <1>4, <1>7, <2>1 DEF NoInputLost
  <2>3. RoomBeforeAck'
    BY <1>0, <1>4, <1>7, <2>1, FollowsEmpty DEF RoomBeforeAck
  <2> QED BY <2>2, <2>3
<1> QED BY <1>5, <1>6, <1>8 DEF UsbInv

\* Opening the port throws away what has been received.
LEMMA OnDtrStep ==
  ASSUME UsbInv, Called, OnDtr, event' = "none", UNCHANGED busRst
  PROVE  UsbInv'
<1>0. /\ event \in {"dtrOn", "dtrOff"}
      /\ dtr' \in BOOLEAN /\ sessionStarted' \in BOOLEAN
      /\ \/ rx' = <<>> /\ consumed' = consumed + Len(rx)
         \/ UNCHANGED <<rx, consumed>>
      /\ UNCHANGED <<txVars, ep2, ep2Res, ep2Nak, hostTog, written, got, sent>>
  BY DEF OnDtr, UsbInv, TypeOK
<1>1. /\ Len(rx) \in Nat /\ consumed \in Nat /\ ep2 = <<>> /\ Len(ep2) = 0
      /\ rx \in Seq(1 .. MaxOut) /\ Len(<<>>) = 0 /\ <<>> \in Seq(1 .. MaxOut)
  BY <1>0, EmptySeq DEF UsbInv, TypeOK, RoomBeforeAck
<1>2. rx' \in Seq(1 .. MaxOut) /\ Len(rx') <= Len(rx) /\ consumed' \in Nat
      /\ Len(rx') \in Nat /\ consumed' + Len(rx') = consumed + Len(rx)
  <2>1. CASE rx' = <<>> /\ consumed' = consumed + Len(rx)
    <3>1. Len(rx') = 0 /\ rx' \in Seq(1 .. MaxOut)
      BY <1>1, <2>1
    <3> QED BY <1>1, <2>1, <3>1
  <2>2. CASE UNCHANGED <<rx, consumed>>
    BY <1>1, <2>2
  <2> QED BY <1>0, <2>1, <2>2
<1>3. TypeOK'
  <2>1. Len(rx') <= RxCap
    BY <1>1, <1>2, Sizes DEF UsbInv, TypeOK
  <2> QED BY <1>0, <1>2, <2>1 DEF UsbInv, TypeOK, txVars, Called
<1>4. StreamInStep'
  <2>1. UNCHANGED outVars
    BY <1>0 DEF outVars, txVars
  <2> QED BY <1>0, <2>1, OutputKept DEF UsbInv
<1>5. asked' = asked
  BY DEF Called, bounds
<1>6. NoInputLost'
  BY <1>0, <1>1, <1>2, <1>5, FollowsEmpty DEF UsbInv, NoInputLost, Follows
<1>7. RoomBeforeAck'
  <2>1. "clearHaltOut" \notin asked => (ep2Res = "ACK" => Len(rx') + Packet <= RxCap)
    BY <1>0, <1>1, <1>2, Sizes DEF UsbInv, RoomBeforeAck
  <2> QED BY <1>0, <1>1, <1>5, <2>1, FollowsEmpty DEF RoomBeforeAck
<1> QED BY <1>3, <1>4, <1>6, <1>7 DEF UsbInv

\* Halts: a busy EP3 that is halted is Stalled from then on.
LEMMA OnHaltStep ==
  ASSUME UsbInv, Called, OnHalt, event' = "none", UNCHANGED busRst
  PROVE  UsbInv'
<1>0. /\ event \in {"haltIn", "haltOut", "clearHaltIn", "clearHaltOut"}
      /\ UNCHANGED <<tx, ep3, ep3Busy, partial, rx, ep2, ep2Nak, session, hostVars>>
      /\ asked' = asked
  BY DEF OnHalt, Called, bounds
<1>1. /\ ep3Res' \in Answers /\ ep2Res' \in Answers /\ ep3Tog' \in {0, 1}
      /\ ep2Res' = "ACK" => ep2Res = "ACK" \/ event = "clearHaltOut"
      /\ event \in {"haltIn", "clearHaltIn"} => ep3Res' # "ACK"
      /\ event \in {"haltOut", "clearHaltOut"} => UNCHANGED <<ep3Res, ep3Tog>>
      /\ ep3Tog' = IF event = "clearHaltIn" THEN 0 ELSE ep3Tog
  BY DEF OnHalt, UsbInv, TypeOK, Answers
<1>2. TypeOK'
  BY <1>0, <1>1 DEF UsbInv, TypeOK, session, hostVars, Called
<1>3. NoInputLost'
  BY <1>0 DEF UsbInv, NoInputLost, Follows, hostVars
<1>4. RoomBeforeAck'
  BY <1>0, <1>1 DEF UsbInv, RoomBeforeAck, Follows, hostVars
<1>5. StreamInStep'
  <2>1. CASE event \in {"haltOut", "clearHaltOut"}
    <3>1. UNCHANGED outVars
      BY <1>0, <1>1, <2>1 DEF outVars, hostVars
    <3> QED BY <1>0, <2>1, <3>1, OutputKept DEF UsbInv
  <2>2. CASE event \in {"haltIn", "clearHaltIn"} /\ ep3Busy
    BY <1>0, <1>1, <2>2 DEF StreamInStep, Stalled
  <2>3. CASE event \in {"haltIn", "clearHaltIn"} /\ ~ep3Busy
    <3>1. ep3Tog' = hostTog'
      BY <1>0, <1>1, <2>3 DEF UsbInv, StreamInStep, hostVars
    <3>2. InFlight = <<>> /\ InFlight' = <<>>
      BY <1>0, <2>3 DEF InFlight, Outstanding
    <3>3. /\ Follows(InFlight', got') /\ Follows(tx', got' + Len(InFlight'))
          /\ written' = got' + Len(InFlight') + Len(tx')
      BY <1>0, <2>3, <3>2 DEF UsbInv, StreamInStep, Stalled, hostVars
    <3> QED BY <1>0, <1>1, <2>3, <3>1, <3>3 DEF StreamInStep
  <2> QED BY <1>0, <2>1, <2>2, <2>3
<1> QED BY <1>2, <1>3, <1>4, <1>5 DEF UsbInv

LEMMA OnTransferStep ==
  ASSUME UsbInv, Called, OnTransfer
  PROVE  UsbInv'
BY OnIn3Step, OnOut2Step, OnDtrStep, OnHaltStep DEF OnTransfer

\* A bus reset: both directions start afresh.
LEMMA BusResetStep ==
  ASSUME UsbInv, Called, event = "none", BusReset
  PROVE  UsbInv'
<1>0. /\ tx' = <<>> /\ ep3' = <<>> /\ ep3Res' = "NAK" /\ ep3Busy' = FALSE /\ ep3Tog' = 0
      /\ partial' = "none" /\ rx' = <<>> /\ ep2Res' = "ACK" /\ ep2Nak' = FALSE /\ ep2' = ep2
      /\ dtr' = FALSE /\ sessionStarted' = TRUE /\ busRst' = FALSE
      /\ hostTog' = 0 /\ got' = written /\ consumed' = consumed + Len(rx)
      /\ event' = "none" /\ written' = written /\ sent' = sent
  BY DEF BusReset
<1>1. /\ <<>> \in Seq(1 .. MaxIn) /\ <<>> \in Seq(1 .. MaxOut) /\ Len(<<>>) = 0
      /\ ep2 = <<>> /\ Len(rx) \in Nat /\ consumed \in Nat /\ written \in Nat
  BY EmptySeq DEF UsbInv, TypeOK, RoomBeforeAck
<1>2. TypeOK'
  <2>1. Len(tx') + room' <= TxCap /\ Len(rx') <= RxCap /\ Len(ep3') <= Packet
    BY <1>0, <1>1, Sizes DEF Called, UsbInv, TypeOK
  <2>2. {ep3Busy', ep2Nak', busRst', dtr', sessionStarted'} \subseteq BOOLEAN
    BY <1>0
  <2>3. {got', consumed'} \subseteq Nat /\ {ep3Tog', hostTog'} \subseteq {0, 1}
    BY <1>0, <1>1
  <2> QED BY <1>0, <1>1, <2>1, <2>2, <2>3 DEF UsbInv, TypeOK, Answers, Called
<1>3. NoInputLost'
  BY <1>0, <1>1, FollowsEmpty DEF UsbInv, NoInputLost, Called, bounds
<1>4. RoomBeforeAck'
  BY <1>0, <1>1, Sizes, FollowsEmpty DEF RoomBeforeAck
<1>5. StreamInStep'
  <2>1. InFlight' = <<>>
    BY <1>0 DEF InFlight, Outstanding
  <2> QED BY <1>0, <1>1, <2>1, FollowsEmpty DEF StreamInStep
<1> QED BY <1>2, <1>3, <1>4, <1>5 DEF UsbInv

LEMMA DispatchStep ==
  ASSUME UsbInv, Called, Dispatch
  PROVE  UsbInv'
BY OnTransferStep, BusResetStep DEF Dispatch

------------------------------------------------------------------------------
\* The main loop.

\* A packet of n bytes is armed while none is outstanding.
LEMMA Armed ==
  ASSUME UsbInv, NEW n \in 1 .. Packet, n <= Len(tx),
         Follows(tx, got), written = got + Len(tx),
         ep3' = SubSeq(tx, 1, n), tx' = Drop(tx, n), ep3Res' = "ACK", ep3Busy' = TRUE,
         ep3Tog' \in {0, 1}, event' # "in3",
         event' # "clearHaltIn" => ep3Tog' = hostTog, event' = "clearHaltIn" => hostTog = 0,
         UNCHANGED <<hostTog, got, written>>
  PROVE  /\ tx' \in Seq(1 .. MaxIn) /\ Len(tx') <= Len(tx) /\ Len(tx') \in Nat
         /\ ep3' \in Seq(1 .. MaxIn) /\ Len(ep3') <= Packet
         /\ StreamInStep'
<1>1. /\ tx \in Seq(1 .. MaxIn) /\ tx \in Seq(Nat) /\ Len(tx) \in Nat /\ n \in 0 .. Len(tx)
      /\ got \in Nat /\ n \in Nat
  BY SeqMonotonic, LenProperties, Sizes, SMTT(20) DEF UsbInv, TypeOK
<1>2. ep3' \in Seq(1 .. MaxIn) /\ Len(ep3') = n
  BY <1>1, Beginning
<1>3. tx' \in Seq(1 .. MaxIn) /\ Len(tx') = Len(tx) - n
  BY <1>1, Rest
<1>4. Follows(ep3', got) /\ Follows(tx', got + n)
  BY <1>1, FollowsFront
<1>5. ep3' # <<>>
  BY <1>2
<1>6. ASSUME event' = "clearHaltIn" PROVE StreamInStep'
  BY <1>5, <1>6 DEF StreamInStep
<1>7. ASSUME event' # "clearHaltIn" PROVE StreamInStep'
  <2>1. InFlight' = ep3'
    BY <1>7 DEF InFlight, Outstanding
  <2>2. written' = got' + Len(InFlight') + Len(tx')
    BY <1>1, <1>2, <1>3, <2>1
  <2> QED BY <1>2, <1>4, <1>5, <1>7, <2>1, <2>2 DEF StreamInStep
<1> QED BY <1>1, <1>2, <1>3, <1>6, <1>7

\* While nothing is armed, tx_ is all the host lacks.
LEMMA NothingArmed ==
  ASSUME UsbInv, ~ep3Busy
  PROVE  /\ event # "in3" /\ Follows(tx, got) /\ written = got + Len(tx)
         /\ event # "clearHaltIn" => ep3Tog = hostTog
         /\ event = "clearHaltIn" => hostTog = 0
<1>1. got \in Nat /\ InFlight = <<>> /\ Len(<<>>) = 0 /\ got + 0 = got
  BY DEF UsbInv, TypeOK, InFlight, Outstanding
<1> QED BY <1>1 DEF UsbInv, StreamInStep, Stalled

LEMMA TickIrqStep ==
  ASSUME UsbInv, TickIrq
  PROVE  UsbInv'
<1>0. pc' = "send" /\ room = 0 /\ UNCHANGED <<room, bounds>>
  BY DEF TickIrq, UsbInv, TypeOK
<1>1. Called
  BY <1>0 DEF Called
<1>2. CASE Responsive
  <2>1. UNCHANGED <<txVars, rxVars, session, flags, hostVars, asked>>
    BY <1>0, <1>2 DEF TickIrq, bounds
  <2>2. TypeOK'
    BY <1>0, <2>1 DEF UsbInv, TypeOK, txVars, rxVars, session, flags, hostVars
  <2>3. UNCHANGED outVars /\ UNCHANGED inVars /\ UNCHANGED event
    BY <2>1 DEF outVars, inVars, txVars, rxVars, hostVars, flags
  <2> QED BY <2>1, <2>2, <2>3, OutputKept, InputKept, InputAsked DEF UsbInv, Input
<1>3. CASE ~Responsive
  BY <1>1, <1>3, DispatchStep DEF TickIrq
<1> QED BY <1>2, <1>3

\* EP2 is reopened only with room for a packet.
LEMMA ReopenStep ==
  ASSUME UsbInv, Reopen, UNCHANGED <<event, sent, consumed, asked>>
  PROVE  Input' /\ ep2Res' \in Answers /\ ep2Nak' \in BOOLEAN
<1>1. ep2Res' \in Answers /\ ep2Nak' \in BOOLEAN /\ UNCHANGED <<rx, ep2>>
  BY DEF Reopen, UsbInv, TypeOK, Answers
<1>2. NoInputLost'
  BY <1>1 DEF UsbInv, NoInputLost, Follows
<1>3. ep2Res' = "ACK" => ep2Res = "ACK" \/ Len(rx) + Packet <= RxCap
  BY Sizes DEF Reopen, UsbInv, TypeOK
<1>4. RoomBeforeAck'
  BY <1>1, <1>3 DEF UsbInv, RoomBeforeAck, Follows
<1> QED BY <1>1, <1>2, <1>4 DEF Input

LEMMA TickSendStep ==
  ASSUME UsbInv, TickSend
  PROVE  UsbInv'
<1>0. /\ Reopen /\ Send /\ pc = "send" /\ pc' = "loop" /\ room = 0
      /\ UNCHANGED <<session, room, flags, hostVars, bounds>>
  BY DEF TickSend, UsbInv, TypeOK
<1>1. /\ Input' /\ ep2Res' \in Answers /\ ep2Nak' \in BOOLEAN
      /\ UNCHANGED <<rx, ep2>>
  BY <1>0, ReopenStep DEF flags, hostVars, bounds, Reopen
<1>2. ASSUME /\ tx' \in Seq(1 .. MaxIn) /\ Len(tx') <= Len(tx) /\ Len(tx') \in Nat
             /\ ep3' \in Seq(1 .. MaxIn) /\ Len(ep3') <= Packet
             /\ ep3Res' \in Answers /\ ep3Busy' \in BOOLEAN /\ ep3Tog' = ep3Tog
             /\ partial' \in {"none", "held", "due"}
      PROVE  TypeOK'
  <2>1. Len(tx') + room' <= TxCap
    BY <1>0, <1>2, Sizes DEF UsbInv, TypeOK
  <2> QED BY <1>0, <1>1, <1>2, <2>1 DEF UsbInv, TypeOK, session, flags, hostVars
<1>3. /\ tx \in Seq(1 .. MaxIn) /\ Len(tx) \in Nat /\ ep3 \in Seq(1 .. MaxIn)
      /\ Len(ep3) <= Packet /\ ep3Res \in Answers /\ ep3Busy \in BOOLEAN
      /\ ep3Tog \in {0, 1} /\ partial \in {"none", "held", "due"}
  BY DEF UsbInv, TypeOK
<1>4. ASSUME NEW n \in 1 .. Packet, n <= Len(tx), ~ep3Busy, Arm(n), partial' = "none"
      PROVE  UsbInv'
  <2>1. /\ ep3' = SubSeq(tx, 1, n) /\ tx' = Drop(tx, n) /\ ep3Res' = "ACK" /\ ep3Busy' = TRUE
        /\ ep3Tog' = ep3Tog /\ event' = event /\ UNCHANGED <<hostTog, got, written>>
    BY <1>0, <1>4 DEF Arm, flags, hostVars
  <2>2. /\ tx' \in Seq(1 .. MaxIn) /\ Len(tx') <= Len(tx) /\ Len(tx') \in Nat
        /\ ep3' \in Seq(1 .. MaxIn) /\ Len(ep3') <= Packet
        /\ StreamInStep'
    BY <1>3, <1>4, <2>1, NothingArmed, Armed
  <2> QED BY <1>1, <1>2, <1>4, <2>1, <2>2 DEF UsbInv, Input, Answers
<1>5. ASSUME UNCHANGED <<tx, ep3, ep3Res, ep3Busy, ep3Tog>>, partial' \in {"none", "held", "due"}
      PROVE  UsbInv'
  <2>1. UNCHANGED outVars /\ UNCHANGED event
    BY <1>0, <1>5 DEF outVars, hostVars, flags
  <2> QED BY <1>1, <1>2, <1>3, <1>5, <2>1, OutputKept DEF UsbInv, Input
<1>6. CASE MayArm /\ Len(tx) >= Packet /\ Arm(Packet) /\ partial' = "none"
  BY <1>4, <1>6, Sizes DEF MayArm
<1>7. CASE MayArm /\ Len(tx) \in 1 .. Packet - 1 /\ Arm(Len(tx)) /\ partial' = "none"
  BY <1>3, <1>4, <1>7, Sizes DEF MayArm
<1>8. \/ MayArm /\ Len(tx) >= Packet /\ Arm(Packet) /\ partial' = "none"
      \/ MayArm /\ Len(tx) \in 1 .. Packet - 1 /\ Arm(Len(tx)) /\ partial' = "none"
      \/ UNCHANGED <<tx, ep3, ep3Res, ep3Busy, ep3Tog>> /\ partial' \in {"none", "held", "due"}
  BY <1>0, <1>3 DEF Send, txVars
<1> QED BY <1>5, <1>6, <1>7, <1>8

LEMMA HoldStep ==
  ASSUME UsbInv, Hold
  PROVE  UsbInv'
<1>0. /\ partial' = "due"
      /\ UNCHANGED <<tx, ep3, ep3Res, ep3Busy, ep3Tog, rxVars, session, loopVars, flags, hostVars, bounds>>
  BY DEF Hold
<1>1. TypeOK'
  BY <1>0 DEF UsbInv, TypeOK, rxVars, session, loopVars, flags, hostVars
<1>2. UNCHANGED outVars /\ UNCHANGED inVars /\ UNCHANGED <<event, asked>>
  BY <1>0 DEF outVars, inVars, rxVars, hostVars, flags, bounds
<1> QED BY <1>1, <1>2, OutputKept, InputKept, InputAsked DEF UsbInv, Input

\* The fast path of pump(): completion and the next packet in one.
LEMMA PumpIn3Step ==
  ASSUME UsbInv, PumpIn3
  PROVE  UsbInv'
<1>0. /\ event = "in3" /\ ep3Tog' = 1 - ep3Tog /\ event' = "none"
      /\ UNCHANGED <<rxVars, session, loopVars, busRst, hostVars, bounds>>
  BY DEF PumpIn3
<1>1. /\ ep3Tog' \in {0, 1} /\ ep3Tog' = hostTog /\ ep3Tog # hostTog /\ ~Stalled
      /\ got \in Nat /\ Len(tx) \in Nat /\ tx \in Seq(1 .. MaxIn)
  BY <1>0, SMTT(20) DEF UsbInv, TypeOK, StreamInStep, Stalled
<1>2. Follows(tx, got) /\ written = got + Len(tx)
  <2>1. InFlight = <<>> /\ Len(<<>>) = 0 /\ got + 0 = got
    BY <1>1 DEF InFlight, Outstanding
  <2> QED BY <1>0, <1>1, <2>1 DEF UsbInv, StreamInStep
<1>3. Input'
  <2>1. UNCHANGED <<inVars, asked>>
    BY <1>0 DEF inVars, rxVars, hostVars, bounds
  <2> QED BY <1>0, <2>1, InputKept DEF UsbInv, Input
<1>4. CASE Len(tx) >= Packet
  <2>1. /\ ep3' = SubSeq(tx, 1, Packet) /\ tx' = Drop(tx, Packet)
        /\ ep3Res' = "ACK" /\ ep3Busy' = TRUE /\ partial' = "none"
    BY <1>4 DEF PumpIn3
  <2>2. /\ tx' \in Seq(1 .. MaxIn) /\ Len(tx') <= Len(tx) /\ Len(tx') \in Nat
        /\ ep3' \in Seq(1 .. MaxIn) /\ Len(ep3') <= Packet
        /\ StreamInStep'
    <3>1. Packet \in 1 .. Packet /\ Packet <= Len(tx) /\ UNCHANGED <<hostTog, got, written>>
      BY <1>0, <1>1, <1>4, Sizes DEF hostVars
    <3> QED BY <1>0, <1>1, <1>2, <2>1, <3>1, Armed
  <2>3. Len(tx') + room' <= TxCap
    BY <1>0, <1>1, <2>2, Sizes, SMTT(20) DEF UsbInv, TypeOK, loopVars
  <2>4. TypeOK'
    BY <1>0, <1>1, <2>1, <2>2, <2>3 DEF UsbInv, TypeOK, Answers, rxVars, session, loopVars, hostVars
  <2> QED BY <1>3, <2>2, <2>4 DEF UsbInv, Input
<1>5. CASE ~(Len(tx) >= Packet)
  <2>1. ep3Res' = "NAK" /\ ep3Busy' = FALSE /\ UNCHANGED <<tx, ep3, partial>>
    BY <1>5 DEF PumpIn3
  <2>2. TypeOK'
    BY <1>0, <1>1, <2>1 DEF UsbInv, TypeOK, Answers, rxVars, session, loopVars, hostVars
  <2>3. InFlight' = <<>> /\ Len(<<>>) = 0 /\ got + 0 = got
    BY <1>1, <2>1 DEF InFlight, Outstanding
  <2>4. StreamInStep'
    BY <1>0, <1>1, <1>2, <2>1, <2>3, FollowsEmpty DEF StreamInStep, hostVars
  <2> QED BY <1>3, <2>2, <2>4 DEF UsbInv, Input
<1> QED BY <1>4, <1>5

LEMMA PumpOtherStep ==
  ASSUME UsbInv, PumpOther
  PROVE  UsbInv'
<1>1. Called
  BY DEF PumpOther, Called, loopVars, UsbInv, TypeOK
<1> QED BY <1>1, DispatchStep DEF PumpOther

------------------------------------------------------------------------------
\* The users of the rings.

\* Bytes handed over are the next ones the host lacks.
LEMMA Handed ==
  ASSUME UsbInv, NEW n \in Nat, written + n <= MaxIn,
         tx' = tx \o Fresh(written, n), written' = written + n,
         UNCHANGED <<ep3, ep3Res, ep3Busy, ep3Tog, event, hostTog, got>>
  PROVE  /\ tx' \in Seq(1 .. MaxIn) /\ Len(tx') = Len(tx) + n
         /\ StreamInStep'
<1>1. /\ tx \in Seq(1 .. MaxIn) /\ tx \in Seq(Nat) /\ written \in Nat /\ got \in Nat
      /\ Len(tx) \in Nat
  BY SeqMonotonic, Sizes, SMTT(20) DEF UsbInv, TypeOK
<1>2. /\ Fresh(written, n) \in Seq(1 .. MaxIn) /\ Len(Fresh(written, n)) = n
      /\ Follows(Fresh(written, n), written)
  BY <1>1, FreshBytes, Sizes
<1>3. tx' \in Seq(1 .. MaxIn) /\ Len(tx') = Len(tx) + n
  BY <1>1, <1>2, Appended
<1>4. InFlight' = InFlight /\ Stalled' = Stalled
  BY DEF InFlight, Outstanding, Stalled
<1>5. ASSUME ~(Stalled \/ (ep3Busy /\ event = "clearHaltIn"))
      PROVE  /\ Follows(tx', got + Len(InFlight))
             /\ written' = got + Len(InFlight) + Len(tx')
  <2>1. /\ Follows(tx, got + Len(InFlight)) /\ written = got + Len(InFlight) + Len(tx)
        /\ Len(InFlight) \in Nat
    BY <1>5 DEF UsbInv, StreamInStep, TypeOK, InFlight
  <2>2. Fresh(written, n) \in Seq(Nat) /\ got + Len(InFlight) \in Nat
    BY <1>1, <1>2, <2>1, SeqMonotonic, Sizes
  <2>3. Follows(tx', got + Len(InFlight))
    BY <1>1, <1>2, <2>1, <2>2, FollowsAppended
  <2> QED BY <1>1, <1>3, <2>1, <2>3
<1>6. StreamInStep'
  BY <1>4, <1>5 DEF UsbInv, StreamInStep
<1> QED BY <1>3, <1>6

LEMMA WriteStep ==
  ASSUME UsbInv, NEW n \in 1 .. TxCap, Write(n)
  PROVE  UsbInv'
<1> DEFINE k == Lesser(n, TxFree)
<1>0. /\ k > 0 /\ written + k <= MaxIn /\ tx' = tx \o Fresh(written, k) /\ written' = written + k
      /\ pc = "loop"
      /\ UNCHANGED <<ep3, ep3Res, ep3Busy, ep3Tog, partial, rxVars, session, loopVars, flags,
                     hostTog, got, sent, consumed, bounds>>
  BY DEF Write
<1>1. k \in Nat /\ Len(tx) + k <= TxCap /\ room = 0
  BY <1>0, Sizes DEF Lesser, TxFree, UsbInv, TypeOK
<1> HIDE DEF k
<1>2. /\ tx' \in Seq(1 .. MaxIn) /\ Len(tx') = Len(tx) + k
      /\ StreamInStep'
  BY <1>0, <1>1, Handed DEF flags
<1>3. TypeOK'
  <2>0. Len(tx) \in Nat /\ written \in Nat /\ room \in Nat /\ Len(tx) + room <= TxCap
    BY DEF UsbInv, TypeOK
  <2>1. Len(tx') + room' <= TxCap /\ written' \in 0 .. MaxIn
    <3>1. written + k \in 0 .. MaxIn /\ room' = 0
      BY <1>0, <1>1, <2>0, Sizes DEF loopVars
    <3> QED BY <1>0, <1>1, <1>2, <2>0, <3>1, Sizes
  <2> QED BY <1>0, <1>2, <2>1 DEF UsbInv, TypeOK, rxVars, session, loopVars, flags
<1>4. UNCHANGED <<inVars, event, asked>>
  BY <1>0 DEF inVars, rxVars, flags, bounds
<1> QED BY <1>2, <1>3, <1>4, InputKept, InputAsked DEF UsbInv, Input

LEMMA CommitStep ==
  ASSUME UsbInv, NEW n \in 0 .. TxCap, Commit(n)
  PROVE  UsbInv'
<1>0. /\ n <= room /\ written + n <= MaxIn /\ tx' = tx \o Fresh(written, n)
      /\ written' = written + n /\ pc' = "loop" /\ room' = 0
      /\ UNCHANGED <<ep3, ep3Res, ep3Busy, ep3Tog, partial, rxVars, session, flags,
                     hostTog, got, sent, consumed, bounds>>
  BY DEF Commit
<1>1. n \in Nat
  BY Sizes
<1>2. /\ tx' \in Seq(1 .. MaxIn) /\ Len(tx') = Len(tx) + n
      /\ StreamInStep'
  BY <1>0, <1>1, Handed DEF flags
<1>3. TypeOK'
  <2>0. Len(tx) \in Nat /\ written \in Nat /\ room \in Nat /\ Len(tx) + room <= TxCap
    BY DEF UsbInv, TypeOK
  <2>1. Len(tx') + room' <= TxCap /\ written' \in 0 .. MaxIn
    <3>1. written + n \in 0 .. MaxIn /\ room' = 0
      BY <1>0, <1>1, <2>0, Sizes
    <3> QED BY <1>0, <1>1, <1>2, <2>0, <3>1, Sizes
  <2> QED BY <1>0, <1>2, <2>1 DEF UsbInv, TypeOK, rxVars, session, flags
<1>4. UNCHANGED <<inVars, event, asked>>
  BY <1>0 DEF inVars, rxVars, flags, bounds
<1> QED BY <1>2, <1>3, <1>4, InputKept, InputAsked DEF UsbInv, Input

LEMMA ReserveStep ==
  ASSUME UsbInv, Reserve
  PROVE  UsbInv'
<1>0. /\ pc' = "fill" /\ room' = TxFree /\ TxFree > 0
      /\ UNCHANGED <<txVars, rxVars, session, flags, hostVars, bounds>>
  BY DEF Reserve
<1>1. Len(tx) + TxFree = TxCap /\ TxFree \in Nat
  BY <1>0, Sizes DEF TxFree, UsbInv, TypeOK
<1>2. TypeOK'
  BY <1>0, <1>1, Sizes DEF UsbInv, TypeOK, txVars, rxVars, session, flags, hostVars
<1>3. UNCHANGED outVars /\ UNCHANGED inVars /\ UNCHANGED <<event, asked>>
  BY <1>0 DEF outVars, inVars, txVars, rxVars, hostVars, flags, bounds
<1> QED BY <1>2, <1>3, OutputKept, InputKept, InputAsked DEF UsbInv, Input

LEMMA ReadStep ==
  ASSUME UsbInv, Read(1)
  PROVE  UsbInv'
<1>0. /\ 1 <= Len(rx) /\ rx' = Drop(rx, 1) /\ consumed' = consumed + 1
      /\ UNCHANGED <<txVars, ep2, ep2Res, ep2Nak, session, loopVars, flags, hostTog, written, got,
                     sent, bounds>>
  BY DEF Read
<1>1. /\ rx \in Seq(1 .. MaxOut) /\ rx \in Seq(Nat) /\ Len(rx) \in Nat /\ Len(rx) <= RxCap
      /\ consumed \in Nat /\ 1 \in 0 .. Len(rx) /\ Len(ep2) \in Nat
  BY <1>0, SeqMonotonic, LenProperties, Sizes, SMTT(20) DEF UsbInv, TypeOK
<1>2. rx' \in Seq(1 .. MaxOut) /\ Len(rx') = Len(rx) - 1
  BY <1>0, <1>1, Rest
<1>3. TypeOK'
  <2>1. Len(rx') <= RxCap /\ consumed' \in Nat
    BY <1>0, <1>1, <1>2, Sizes
  <2> QED BY <1>0, <1>2, <2>1 DEF UsbInv, TypeOK, txVars, session, loopVars, flags
<1>4. StreamInStep'
  <2>1. UNCHANGED outVars /\ UNCHANGED event
    BY <1>0 DEF outVars, txVars, flags
  <2> QED BY <2>1, OutputKept DEF UsbInv
<1>5. consumed' + Len(rx') = consumed + Len(rx)
  BY <1>0, <1>1, <1>2
<1>6. NoInputLost'
  <2>1. Follows(rx, consumed) => Follows(rx', consumed')
    BY <1>0, <1>1, FollowsFront
  <2>2. UNCHANGED <<ep2, sent, asked>>
    BY <1>0 DEF bounds
  <2> QED BY <1>5, <2>1, <2>2 DEF UsbInv, NoInputLost
<1>7. RoomBeforeAck'
  <2>1. UNCHANGED <<event, asked>>
    BY <1>0 DEF flags, bounds
  <2>2. Len(rx') <= Len(rx) /\ Len(rx') \in Nat
    BY <1>0, <1>1, <1>2
  <2>3. "clearHaltOut" \notin asked =>
          /\ event = "out2" => Len(rx') + Len(ep2) <= RxCap
          /\ event # "out2" /\ ep2Res = "ACK" => Len(rx') + Packet <= RxCap
    BY <1>1, <2>2, Sizes DEF UsbInv, RoomBeforeAck
  <2> QED BY <1>0, <1>5, <2>1, <2>3 DEF UsbInv, RoomBeforeAck
<1> QED BY <1>3, <1>4, <1>6, <1>7 DEF UsbInv

LEMMA TakeSessionStartedStep ==
  ASSUME UsbInv, TakeSessionStarted
  PROVE  UsbInv'
<1>0. /\ sessionStarted' = FALSE
      /\ UNCHANGED <<txVars, rxVars, dtr, loopVars, flags, hostVars, bounds>>
  BY DEF TakeSessionStarted
<1>1. TypeOK'
  BY <1>0 DEF UsbInv, TypeOK, txVars, rxVars, loopVars, flags, hostVars
<1>2. UNCHANGED outVars /\ UNCHANGED inVars /\ UNCHANGED <<event, asked>>
  BY <1>0 DEF outVars, inVars, txVars, rxVars, hostVars, flags, bounds
<1> QED BY <1>1, <1>2, OutputKept, InputKept, InputAsked DEF UsbInv, Input

LEMMA UsbStutter ==
  ASSUME UsbInv, UNCHANGED vars
  PROVE  UsbInv'
<1>0. UNCHANGED <<txVars, rxVars, session, loopVars, flags, hostVars, bounds>>
  BY DEF vars
<1>1. TypeOK'
  BY <1>0 DEF UsbInv, TypeOK, txVars, rxVars, session, loopVars, flags, hostVars
<1>2. UNCHANGED outVars /\ UNCHANGED inVars /\ UNCHANGED <<event, asked>>
  BY <1>0 DEF outVars, inVars, txVars, rxVars, hostVars, flags, bounds
<1> QED BY <1>1, <1>2, OutputKept, InputKept, InputAsked DEF UsbInv, Input

LEMMA UsbStep == UsbInv /\ [Next]_vars => UsbInv'
<1> SUFFICES ASSUME UsbInv, [Next]_vars PROVE UsbInv'
  OBVIOUS
<1>1. CASE Tick
  BY <1>1, TickIrqStep, TickSendStep DEF Tick
<1>2. CASE Pump
  BY <1>2, PumpIn3Step, PumpOtherStep DEF Pump
<1>3. CASE EndOfFill
  BY <1>3, CommitStep DEF EndOfFill
<1>4. CASE UNCHANGED vars
  BY <1>4, UsbStutter
<1> QED BY <1>1, <1>2, <1>3, <1>4, HostInStep, HostResetsStep, HostOutStep, HostSetupStep,
           HoldStep, WriteStep, ReserveStep, ReadStep, TakeSessionStartedStep DEF Next

------------------------------------------------------------------------------
\* Theorems.

\* The invariant of the datapath: both rings hold what they can, EP2 answers ACK
\* only with room for a packet, and packet, tx_ and the two toggles together say
\* what the host lacks.
THEOREM UsbInvariant == Spec => []UsbInv
BY UsbInit, UsbStep, PTL DEF Spec

\* The firmware reads every byte EP2 accepted, in order ("Throttle the host if we
\* can't guarantee room for the next packet"), as long as no halt of EP2 is cleared.
THEOREM InputComplete == Spec => []NoInputLost
<1>1. UsbInv => NoInputLost
  BY DEF UsbInv
<1> QED BY <1>1, UsbInvariant, PTL

\* The host receives every byte of a bus session once and in order, under lost
\* handshakes and halts; and no bus reset clears the ring under a fill.
THEOREM OutputExact == Spec => HostStreamExact
<1>1. UsbInv /\ [Next]_vars =>
        [got' # got /\ ~(busRst /\ ~busRst') => Len(ep3) > 0 /\ Follows(ep3, got)]_vars
  <2> SUFFICES ASSUME UsbInv, Next, got' # got, ~(busRst /\ ~busRst')
               PROVE  Len(ep3) > 0 /\ Follows(ep3, got)
    BY DEF vars, hostVars
  <2>1. CASE HostIn
    <3>1. /\ ep3Res = "ACK" /\ event = "none" /\ ep3Tog = hostTog
      BY <2>1 DEF HostIn, Responsive
    <3>2. InFlight = ep3 /\ ~Stalled /\ ep3 # <<>> /\ ep3 \in Seq(1 .. MaxIn)
      BY <3>1 DEF UsbInv, StreamInStep, TypeOK, InFlight, Outstanding, Stalled
    <3>3. Len(ep3) > 0
      BY <3>2, EmptySeq
    <3> QED BY <3>1, <3>2, <3>3 DEF UsbInv, StreamInStep
  <2>2. ASSUME Dispatch, ~Responsive PROVE FALSE
    <3>1. CASE OnTransfer
      BY <3>1 DEF OnTransfer, OnIn3, OnOut2, OnDtr, OnHalt, hostVars
    <3>2. CASE event = "none" /\ BusReset
      BY <2>2, <3>2 DEF BusReset, Responsive
    <3> QED BY <2>2, <3>1, <3>2 DEF Dispatch
  <2>3. CASE TickIrq
    BY <2>2, <2>3 DEF TickIrq, Responsive, hostVars
  <2>4. CASE Pump
    BY <2>2, <2>4 DEF Pump, PumpIn3, PumpOther, Responsive, hostVars
  <2>5. CASE TickSend
    BY <2>5 DEF TickSend, hostVars
  <2>6. CASE EndOfFill
    BY <2>6 DEF EndOfFill, Commit
  <2>7. CASE \E n \in 1 .. Packet : HostOut(n)
    BY <2>7 DEF HostOut
  <2>8. CASE \E req \in Requests : HostSetup(req)
    BY <2>8 DEF HostSetup
  <2>9. CASE \E n \in 1 .. TxCap : Write(n)
    BY <2>9 DEF Write
  <2>10. CASE HostResets \/ Hold \/ Reserve \/ Read(1) \/ TakeSessionStarted
    BY <2>10 DEF HostResets, Hold, Reserve, Read, TakeSessionStarted, hostVars
  <2> QED BY <2>1, <2>3, <2>4, <2>5, <2>6, <2>7, <2>8, <2>9, <2>10 DEF Next, Tick
<1>2. UsbInv /\ [Next]_vars => [pc = "fill" /\ pc' = "fill" /\ busRst => busRst']_vars
  <2> SUFFICES ASSUME Next, pc = "fill", pc' = "fill", busRst PROVE busRst'
    BY DEF vars, flags
  <2>1. CASE Pump
    BY <2>1 DEF Pump, PumpIn3, PumpOther, Dispatch, OnTransfer
  <2>2. CASE Tick
    BY <2>2 DEF Tick, TickIrq, TickSend
  <2>3. CASE EndOfFill
    BY <2>3 DEF EndOfFill, Commit
  <2>4. CASE HostIn \/ HostResets \/ (\E n \in 1 .. Packet : HostOut(n))
             \/ (\E req \in Requests : HostSetup(req))
    BY <2>4 DEF HostIn, HostResets, HostOut, HostSetup
  <2>5. CASE Hold \/ (\E n \in 1 .. TxCap : Write(n)) \/ Reserve \/ Read(1) \/ TakeSessionStarted
    BY <2>5 DEF Hold, Write, Reserve, Read, TakeSessionStarted, flags
  <2> QED BY <2>1, <2>2, <2>3, <2>4, <2>5 DEF Next
<1> QED BY <1>1, <1>2, UsbInit, UsbStep, PTL DEF Spec, HostStreamExact

------------------------------------------------------------------------------

\* Induction over sets of numbers.

Below == OpToRel(<, Nat)

LEMMA BelowPairs == ASSUME NEW x \in Nat, NEW y \in Nat, y < x PROVE <<y, x>> \in Below
BY DEF Below, OpToRel

LEMMA BelowWellFounded == IsWellFoundedOn(Below, Nat)
BY NatLessThanWellFounded DEF Below

\* A set of numbers has a least one.
LEMMA Least ==
  ASSUME NEW T \in SUBSET Nat, T # {}
  PROVE  \E x \in T : \A y \in T : x <= y
<1>1. PICK x \in T : \A y \in T : <<y, x>> \notin Below
  BY BelowWellFounded, WFMin
<1>2. \A y \in T : ~(y < x)
  BY <1>1, BelowPairs
<1>3. \A y \in T : x <= y
  BY <1>2
<1> QED BY <1>3

\* What holds of every place behind which it holds everywhere holds everywhere.
LEMMA FromTheEnd ==
  ASSUME NEW S, NEW m \in Nat,
         \A i \in 1 .. m : (\A k \in i + 1 .. m : k \in S) => i \in S
  PROVE  \A i \in 1 .. m : i \in S
<1> DEFINE T == {n \in 0 .. m : m - n >= 1 /\ m - n \notin S}
<1> SUFFICES ASSUME NEW i \in 1 .. m, i \notin S PROVE FALSE
  OBVIOUS
<1>1. T \in SUBSET Nat
  OBVIOUS
<1>2. m - i \in T
  <2>1. m - i \in 0 .. m /\ m - (m - i) = i
    OBVIOUS
  <2> QED BY <2>1
<1>3. PICK n \in T : \A y \in T : n <= y
  BY <1>1, <1>2, Least
<1>4. n \in 0 .. m /\ m - n \in 1 .. m /\ m - n \notin S
  BY <1>3
<1>5. ASSUME NEW k \in (m - n) + 1 .. m PROVE k \in S
  <2>1. m - k \in 0 .. m /\ m - (m - k) = k /\ k >= 1 /\ ~(n <= m - k)
    BY <1>4
  <2>2. m - k \notin T
    BY <1>3, <2>1
  <2> QED BY <2>1, <2>2
<1> QED BY <1>4, <1>5

------------------------------------------------------------------------------
\* Groups.

\* The full code is not a delimiter, and no group can be confused with one.
Keying(key) ==
  /\ key.delim \in Nat /\ key.full \in Nat /\ key.full > 1
  /\ key.delim = 0 \/ key.full < key.delim

LEMMA GroupEnds ==
  ASSUME NEW s \in Seq(Nat), NEW key, Keying(key), NEW i \in 1 .. Len(s) + 1
  PROVE  LET j == GroupEnd(s, i, key) IN
         /\ j \in i .. Len(s) + 1
         /\ j > Len(s) \/ s[j] = key.delim \/ FullGroup(j - i, key)
         /\ \A k \in i .. j - 1 : s[k] # key.delim
         /\ (j - i) + 1 <= key.full
<1>0. Len(s) \in Nat /\ key.full \in Nat /\ key.full > 1
  BY LenProperties DEF Keying
<1> DEFINE Ends(j) == j > Len(s) \/ s[j] = key.delim \/ FullGroup(j - i, key)
           Goes(k) == s[k] # key.delim /\ ~FullGroup(k - i, key)
           T == {j \in i .. Len(s) + 1 : Ends(j)}
           g == GroupEnd(s, i, key)
<1>1. PICK j \in T : \A y \in T : j <= y
  <2>1. Len(s) + 1 \in T /\ T \in SUBSET Nat
    BY <1>0
  <2> HIDE DEF T
  <2> QED BY <2>1, Least
<1>2. \A k \in i .. j - 1 : Goes(k)
  <2> SUFFICES ASSUME NEW k \in i .. j - 1 PROVE Goes(k)
    OBVIOUS
  <2>1. k \in i .. Len(s) + 1 /\ ~(j <= k)
    BY <1>0, <1>1
  <2>2. k \notin T
    BY <1>1, <2>1
  <2> QED BY <2>1, <2>2
<1>3. \E x \in i .. Len(s) + 1 : Ends(x) /\ \A k \in i .. x - 1 : Goes(k)
  BY <1>1, <1>2
<1>4. g \in i .. Len(s) + 1 /\ Ends(g) /\ \A k \in i .. g - 1 : Goes(k)
  BY <1>3 DEF GroupEnd
<1>5. (g - i) + 1 <= key.full
  <2> SUFFICES ASSUME (g - i) + 1 > key.full PROVE FALSE
    BY <1>0, <1>4
  <2> DEFINE full == key.full
             k == i + full - 1
  <2>1. g \in Int /\ i \in Int /\ full \in Nat /\ full > 1 /\ (g - i) + 1 > full
    BY <1>0, <1>4
  <2> HIDE DEF g, full
  <2>2. k \in i .. g - 1 /\ (k - i) + 1 = full
    BY <2>1
  <2>3. ~FullGroup(k - i, key)
    BY <1>4, <2>2
  <2> QED BY <2>2, <2>3 DEF FullGroup, full
<1> QED BY <1>4, <1>5

------------------------------------------------------------------------------
\* Both recursions are functions: a place depends only on places behind it.

EncodeStep(s, key, from, i) ==
  LET j == GroupEnd(s, i, key) IN
  Group(SubSeq(s, i, j - 1)) \o (IF FullGroup(j - i, key) THEN from[j]
                                 ELSE IF j <= Len(s) THEN from[j + 1] ELSE <<>>)

Encodes(from, s, key) == from = [i \in 1 .. Len(s) + 1 |-> EncodeStep(s, key, from, i)]

LEMMA EncodeLooksAhead ==
  ASSUME NEW s \in Seq(Nat), NEW key, Keying(key), NEW i \in 1 .. Len(s) + 1,
         NEW f, NEW g, \A k \in i + 1 .. Len(s) + 1 : f[k] = g[k]
  PROVE  EncodeStep(s, key, f, i) = EncodeStep(s, key, g, i)
<1> DEFINE j == GroupEnd(s, i, key)
<1>0. Len(s) \in Nat /\ key.full \in Nat /\ key.full > 1
  BY LenProperties DEF Keying
<1>1. j \in i .. Len(s) + 1
  BY GroupEnds
<1>2. FullGroup(j - i, key) => j \in i + 1 .. Len(s) + 1
  BY <1>0, <1>1 DEF FullGroup
<1>3. j <= Len(s) => j + 1 \in i + 1 .. Len(s) + 1
  BY <1>0, <1>1
<1> QED BY <1>2, <1>3 DEF EncodeStep

LEMMA EncodeIs ==
  ASSUME NEW s \in Seq(Nat), NEW key, Keying(key)
  PROVE  \E f : Encodes(f, s, key) /\ Encode(s, key) = f[1]
<1> DEFINE m == Len(s) + 1
           S == {i \in 1 .. m : \E f : f = [k \in i .. m |-> EncodeStep(s, key, f, k)]}
<1>0. Len(s) \in Nat /\ m \in Nat /\ m >= 1
  BY LenProperties
<1>1. ASSUME NEW i \in 1 .. m, \A k \in i + 1 .. m : k \in S
      PROVE  i \in S
  <2>1. PICK g : i < m => g = [k \in i + 1 .. m |-> EncodeStep(s, key, g, k)]
    <3>1. i < m => i + 1 \in i + 1 .. m
      BY <1>0
    <3> QED BY <1>1, <3>1
  <2> DEFINE f == [k \in i .. m |-> IF k = i THEN EncodeStep(s, key, g, i) ELSE g[k]]
  <2>2. \A k \in i + 1 .. m : f[k] = g[k]
    BY <1>0
  <2>3. ASSUME NEW k \in i .. m PROVE f[k] = EncodeStep(s, key, f, k)
    <3>1. EncodeStep(s, key, f, k) = EncodeStep(s, key, g, k)
      <4>1. \A x \in k + 1 .. m : f[x] = g[x]
        BY <1>0, <2>2
      <4>2. k \in 1 .. Len(s) + 1
        BY <1>0
      <4> HIDE DEF f
      <4> QED BY <4>1, <4>2, EncodeLooksAhead
    <3>2. CASE k = i
      <4>1. f[k] = EncodeStep(s, key, g, i)
        BY <1>0, <3>2
      <4> QED BY <3>1, <3>2, <4>1
    <3>3. CASE k # i
      <4>1. k \in i + 1 .. m /\ i < m
        BY <1>0, <3>3
      <4>2. g[k] = EncodeStep(s, key, g, k)
        BY <2>1, <4>1
      <4> QED BY <2>2, <3>1, <4>1, <4>2
    <3> QED BY <3>2, <3>3
  <2>4. f = [k \in i .. m |-> f[k]]
    OBVIOUS
  <2> HIDE DEF f
  <2>5. f = [k \in i .. m |-> EncodeStep(s, key, f, k)]
    BY <2>3, <2>4
  <2> QED BY <2>5
<1>2. 1 \in S
  <2> HIDE DEF S, m
  <2>1. \A i \in 1 .. m : i \in S
    BY <1>0, <1>1, FromTheEnd
  <2> QED BY <1>0, <2>1
<1>3. PICK g : g = [i \in 1 .. Len(s) + 1 |-> EncodeStep(s, key, g, i)]
  BY <1>2
<1> DEFINE c == CHOOSE f : f = [i \in 1 .. Len(s) + 1 |-> EncodeStep(s, key, f, i)]
<1>4. Encode(s, key) = c[1]
  BY DEF Encode, EncodeStep
<1>5. c = [i \in 1 .. Len(s) + 1 |-> EncodeStep(s, key, c, i)]
  BY <1>3
<1> QED BY <1>4, <1>5 DEF Encodes

\* What a group costs.
LEMMA QuotientGrows ==
  ASSUME NEW m \in Nat \ {0}, NEW x \in Nat, NEW y \in Nat, x <= y
  PROVE  x \div m <= y \div m
<1> DEFINE p == x \div m
           q == y \div m
           r == x % m
           t == y % m
<1>1. /\ p \in Int /\ r \in 0 .. m - 1 /\ x = m * p + r
      /\ q \in Int /\ t \in 0 .. m - 1 /\ y = m * q + t
  BY Divides
<1> HIDE DEF p, q, r, t
<1> SUFFICES ASSUME p > q PROVE FALSE
  BY <1>1 DEF p, q
<1>2. m * (p - q) >= m
  BY <1>1, OneMultiple
<1>3. m * (p - q) = m * p - m * q
  BY <1>1
<1> QED BY <1>1, <1>2, <1>3

LEMMA QuotientStep ==
  ASSUME NEW m \in Nat \ {0}, NEW x \in Nat
  PROVE  (x + m) \div m = x \div m + 1
<1> DEFINE p == x \div m
           y == x + m
           q == y \div m
           r == x % m
           t == y % m
<1>0. x \in Int /\ y \in Int
  OBVIOUS
<1> HIDE DEF y
<1>1. /\ p \in Int /\ r \in 0 .. m - 1 /\ x = m * p + r
      /\ q \in Int /\ t \in 0 .. m - 1 /\ y = m * q + t
  BY <1>0, Divides
<1> HIDE DEF p, q, r, t
<1>2. m * (p + 1) = m * p + m
  BY <1>1
<1>3. p + 1 \in Int /\ m * (p + 1) + r = m * q + t
  BY <1>1, <1>2 DEF y
<1>4. ~(p + 1 > q) /\ ~(q > p + 1)
  BY <1>1, <1>3, QuotientBound
<1> QED BY <1>1, <1>4 DEF p, q, y

\* Parts of sequences.
LEMMA Piece ==
  ASSUME NEW s \in Seq(Nat), NEW a \in Int, NEW b \in Int, a >= 1, b <= Len(s)
  PROVE  /\ SubSeq(s, a, b) \in Seq(Nat)
         /\ Len(SubSeq(s, a, b)) = IF a <= b THEN b - a + 1 ELSE 0
         /\ \A k \in 1 .. b - a + 1 : SubSeq(s, a, b)[k] = s[a + k - 1]
<1>1. Len(s) \in Nat
  BY LenProperties
<1>2. \A k \in a .. b : k \in 1 .. Len(s)
  BY <1>1
<1>3. \A k \in a .. b : s[k] \in Nat
  BY <1>2, ElementOfSeq
<1> QED BY <1>3, SubSeqProperties

LEMMA Cut ==
  ASSUME NEW s \in Seq(Nat), NEW i \in 1 .. Len(s) + 1, NEW j \in i .. Len(s) + 1
  PROVE  /\ SubSeq(s, i, j - 1) \in Seq(Nat) /\ Len(SubSeq(s, i, j - 1)) = j - i
         /\ \A k \in 1 .. j - i : SubSeq(s, i, j - 1)[k] = s[i + k - 1]
         /\ SubSeq(s, j, Len(s)) \in Seq(Nat)
         /\ SubSeq(s, i, Len(s)) = SubSeq(s, i, j - 1) \o SubSeq(s, j, Len(s))
<1>0. Len(s) \in Nat /\ \A k \in 1 .. Len(s) : s[k] \in Nat
  BY LenProperties, ElementOfSeq
<1> DEFINE a == i
           b == j - 1
           g == SubSeq(s, a, b)
<1>a. a \in Int /\ b \in Int /\ a <= b + 1 /\ b - a + 1 = j - i /\ a >= 1 /\ b <= Len(s)
  BY <1>0
<1>3. /\ g \in Seq(Nat) /\ Len(g) = IF a <= b THEN b - a + 1 ELSE 0
      /\ \A k \in 1 .. b - a + 1 : g[k] = s[a + k - 1]
  <2> HIDE DEF a, b
  <2> QED BY <1>a, Piece
<1>4. SubSeq(s, j, Len(s)) \in Seq(Nat)
  <2>1. j \in Int /\ Len(s) \in Int /\ j >= 1 /\ Len(s) <= Len(s)
    BY <1>0
  <2> QED BY <2>1, Piece
<1>5. SubSeq(s, i, Len(s)) = SubSeq(s, i, j - 1) \o SubSeq(s, j, Len(s))
  <2> DEFINE k == j - 1
  <2>1. i \in 1 .. Len(s) + 1 /\ k \in i - 1 .. Len(s) /\ Len(s) \in k .. Len(s) /\ k + 1 = j
    BY <1>0
  <2> HIDE DEF k
  <2>2. SubSeq(s, i, k) \o SubSeq(s, k + 1, Len(s)) = SubSeq(s, i, Len(s))
    BY <2>1, ConcatAdjacentSubSeq
  <2> QED BY <2>1, <2>2 DEF k
<1>6. Len(g) = j - i
  BY <1>a, <1>3
<1> QED BY <1>a, <1>3, <1>4, <1>5, <1>6

\* What e reads from p on.
Reads(e, p, u) == SubSeq(e, p, Len(e)) = u

\* A suffix of e that consists of a code, that many bytes less one, and more.
LEMMA SuffixParts ==
  ASSUME NEW e \in Seq(Nat), NEW p \in 1 .. Len(e) + 1,
         NEW g \in Seq(Nat), NEW t \in Seq(Nat),
         Reads(e, p, Group(g) \o t),
         NEW c \in Nat, Len(g) = c - 1
  PROVE  /\ p <= Len(e) /\ e[p] = c /\ p + c <= Len(e) + 1
         /\ p + c <= Len(e) <=> t # <<>>
         /\ SubSeq(e, p + 1, (p + c) - 1) = g
         /\ Reads(e, p + c, t)
<1> DEFINE m == Len(e)
           u == SubSeq(e, p, m)
           h == <<c>>
<1>0. m \in Nat /\ Len(g) \in Nat /\ Len(t) \in Nat /\ c \in Nat /\ c >= 1 /\ p \in Int /\ p >= 1 /\ p <= m + 1 /\ c = Len(g) + 1 /\ Len(g) = c - 1
  BY LenProperties
<1>1. h \in Seq(Nat) /\ Len(h) = 1 /\ h[1] = c
  BY <1>0
<1>2. /\ h \o g \in Seq(Nat) /\ Len(h \o g) = c
      /\ \A k \in 1 .. c : (h \o g)[k] = IF k <= 1 THEN h[k] ELSE g[k - 1]
  <2> HIDE DEF h
  <2>1. Len(h) + Len(g) = c
    BY <1>0, <1>1
  <2>2. /\ h \o g \in Seq(Nat) /\ Len(h \o g) = Len(h) + Len(g)
        /\ \A k \in 1 .. Len(h) + Len(g) : (h \o g)[k] = IF k <= Len(h) THEN h[k] ELSE g[k - Len(h)]
    BY <1>1, ConcatProperties
  <2> QED BY <1>1, <2>1, <2>2
<1>3. u = (h \o g) \o t
  BY SMTT(20) DEF Group, Reads
<1> DEFINE v == h \o g
<1>4. /\ Len(u) = c + Len(t)
      /\ \A k \in 1 .. c + Len(t) : u[k] = IF k <= c THEN v[k] ELSE t[k - c]
  <2> HIDE DEF v, u, h, m
  <2>1. v \in Seq(Nat) /\ Len(v) = c /\ u = v \o t
    BY <1>2, <1>3 DEF v
  <2>2. /\ Len(v \o t) = Len(v) + Len(t)
        /\ \A k \in 1 .. Len(v) + Len(t) : (v \o t)[k] = IF k <= Len(v) THEN v[k] ELSE t[k - Len(v)]
    BY <2>1, ConcatProperties
  <2> QED BY <2>1, <2>2
<1>5. /\ Len(u) = IF p <= m THEN m - p + 1 ELSE 0
      /\ \A k \in 1 .. m - p + 1 : u[k] = e[p + k - 1]
  <2>1. p \in Int /\ m \in Int /\ p >= 1 /\ m <= Len(e)
    BY <1>0
  <2> HIDE DEF m
  <2> QED BY <2>1, Piece
<1> HIDE DEF u, h, v
<1>6. p <= m /\ m - p + 1 = c + Len(t)
  <2> DEFINE n == Len(t)
             l == Len(u)
  <2>1. /\ n \in Nat /\ m \in Nat /\ p \in Int /\ c \in Nat /\ c >= 1
        /\ l = c + n /\ l = IF p <= m THEN m - p + 1 ELSE 0
    BY <1>0, <1>4, <1>5
  <2> HIDE DEF n, l
  <2>2. p <= m /\ m - p + 1 = c + n
    BY <2>1
  <2> QED BY <2>2 DEF n
<1> HIDE DEF m
<1>7. e[p] = c
  <2>1. 1 \in 1 .. m - p + 1 /\ p + 1 - 1 = p /\ 1 \in 1 .. c + Len(t) /\ 1 \in 1 .. c /\ 1 <= c /\ 1 <= 1
    BY <1>0, <1>6
  <2>2. u[1] = e[p] /\ u[1] = v[1]
    BY <1>4, <1>5, <2>1
  <2>3. v[1] = h[1]
    BY <1>2, <2>1 DEF v
  <2> QED BY <1>1, <2>2, <2>3
<1>8. p + c <= m <=> t # <<>>
  <2>1. t # <<>> <=> Len(t) # 0
    BY EmptySeq
  <2> QED BY <1>0, <1>6, <2>1
<1>9. ASSUME NEW k \in 1 .. Len(g) PROVE e[(p + 1) + k - 1] = g[k]
  <2>1. /\ k + 1 \in 1 .. c /\ k + 1 \in 1 .. c + Len(t) /\ k + 1 \in 1 .. m - p + 1 /\ ~(k + 1 <= 1)
        /\ p + (k + 1) - 1 = (p + 1) + k - 1 /\ (k + 1) - 1 = k /\ k + 1 <= c
    BY <1>0, <1>6
  <2>2. u[k + 1] = v[k + 1] /\ u[k + 1] = e[(p + 1) + k - 1]
    BY <1>4, <1>5, <2>1
  <2>3. v[k + 1] = g[k]
    BY <1>2, <2>1 DEF v
  <2> QED BY <2>2, <2>3
<1>10. ASSUME NEW k \in 1 .. Len(t) PROVE e[(p + c) + k - 1] = t[k]
  <2>1. /\ k + c \in 1 .. c + Len(t) /\ k + c \in 1 .. m - p + 1 /\ ~(k + c <= c)
        /\ p + (k + c) - 1 = (p + c) + k - 1 /\ (k + c) - c = k
    BY <1>0, <1>6
  <2>2. u[k + c] = t[k] /\ u[k + c] = e[(p + c) + k - 1]
    BY <1>4, <1>5, <2>1
  <2> QED BY <2>2
<1>11. SubSeq(e, p + 1, (p + c) - 1) = g
  <2> DEFINE a == p + 1
             b == p + c - 1
             w == SubSeq(e, a, b)
  <2>1. a \in Int /\ b \in Int /\ b - a + 1 = Len(g) /\ a >= 1 /\ b <= m /\ (a <= b \/ Len(g) = 0)
    BY <1>0, <1>6
  <2>3. w \in Seq(Nat) /\ Len(w) = (IF a <= b THEN b - a + 1 ELSE 0) /\ \A k \in 1 .. b - a + 1 : w[k] = e[a + k - 1]
    <3>1. a \in Int /\ b \in Int /\ a >= 1 /\ b <= Len(e)
      BY <2>1 DEF m
    <3>2. e \in Seq(Nat)
      OBVIOUS
    <3> HIDE DEF a, b
    <3> QED BY ONLY <3>1, <3>2, Piece
  <2>4. Len(w) = Len(g)
    <3> HIDE DEF a, b, w
    <3> QED BY <1>0, <2>1, <2>3
  <2>5. \A k \in 1 .. Len(g) : w[k] = g[k]
    BY <1>9, <2>1, <2>3
  <2> HIDE DEF w
  <2>6. w = g
    BY <2>3, <2>4, <2>5, SeqEqual
  <2> QED BY <2>6 DEF w
<1>12. SubSeq(e, p + c, m) = t
  <2> DEFINE a == p + c
             w == SubSeq(e, a, m)
  <2>1. a \in Int /\ m \in Int /\ m - a + 1 = Len(t) /\ a >= 1 /\ (a <= m \/ Len(t) = 0)
    <3> DEFINE n == Len(t)
    <3>1. n \in Nat /\ m - p + 1 = c + n /\ m \in Nat /\ p \in Int /\ p >= 1 /\ c \in Nat
      BY <1>0, <1>6
    <3> HIDE DEF n
    <3>2. a \in Int /\ m \in Int /\ m - a + 1 = n /\ a >= 1 /\ (a <= m \/ n = 0)
      BY <3>1
    <3> QED BY <3>2 DEF n
  <2>3. w \in Seq(Nat) /\ Len(w) = (IF a <= m THEN m - a + 1 ELSE 0) /\ \A k \in 1 .. m - a + 1 : w[k] = e[a + k - 1]
    <3>1. a \in Int /\ m \in Int /\ a >= 1 /\ m <= Len(e)
      BY <1>0, <2>1 DEF m
    <3>2. e \in Seq(Nat)
      OBVIOUS
    <3> HIDE DEF a
    <3> QED BY ONLY <3>1, <3>2, Piece
  <2>4. Len(w) = Len(t)
    <3> HIDE DEF a, w
    <3> QED BY <1>0, <2>1, <2>3
  <2>5. \A k \in 1 .. Len(t) : w[k] = t[k]
    BY <1>10, <2>1, <2>3
  <2> HIDE DEF w
  <2>6. w = t
    BY <2>3, <2>4, <2>5, SeqEqual
  <2> QED BY <2>6 DEF w
<1>13. p + c <= m + 1
  BY <1>0, <1>6
<1> QED BY <1>6, <1>7, <1>8, <1>11, <1>12, <1>13 DEF m, Reads

DecodeStep(s, key, from, i) ==
  IF i > Len(s) THEN {<<>>}
  ELSE IF s[i] \in {0, key.delim} \/ i + s[i] > Len(s) + 1 THEN {}
  ELSE LET next == i + s[i]
           delim == IF DelimiterAfter(s[i], next <= Len(s), key) THEN <<key.delim>> ELSE <<>>
       IN {SubSeq(s, i + 1, next - 1) \o delim \o tail : tail \in from[next]}

\* ... and of a code that is well formed.
Joined(g, delim, tails) == {g \o delim \o tail : tail \in tails}
DecodeFrom(s, key, from, i, c) ==
  Joined(SubSeq(s, i + 1, (i + c) - 1),
         IF DelimiterAfter(c, i + c <= Len(s), key) THEN <<key.delim>> ELSE <<>>,
         from[i + c])

Decodes(from, s, key) == from = [i \in 1 .. Len(s) + 1 |-> DecodeStep(s, key, from, i)]

LEMMA DecodeByCode ==
  ASSUME NEW s, NEW key, NEW from, NEW i
  PROVE  DecodeStep(s, key, from, i) =
           IF i > Len(s) THEN {<<>>}
           ELSE IF s[i] \in {0, key.delim} \/ i + s[i] > Len(s) + 1 THEN {}
           ELSE DecodeFrom(s, key, from, i, s[i])
<1>1. (LET next == i + s[i]
           delim == IF DelimiterAfter(s[i], next <= Len(s), key) THEN <<key.delim>> ELSE <<>>
       IN {SubSeq(s, i + 1, next - 1) \o delim \o tail : tail \in from[next]})
      = DecodeFrom(s, key, from, i, s[i])
  BY DEF DecodeFrom, Joined
<1> QED BY <1>1 DEF DecodeStep

LEMMA DecodeLooksAhead ==
  ASSUME NEW s \in Seq(Nat), NEW key, NEW i \in 1 .. Len(s) + 1,
         NEW f, NEW g, \A k \in i + 1 .. Len(s) + 1 : f[k] = g[k]
  PROVE  DecodeStep(s, key, f, i) = DecodeStep(s, key, g, i)
<1>0. Len(s) \in Nat
  BY LenProperties
<1>1. CASE i > Len(s) \/ s[i] \in {0, key.delim} \/ i + s[i] > Len(s) + 1
  BY <1>1, DecodeByCode
<1>2. CASE ~(i > Len(s) \/ s[i] \in {0, key.delim} \/ i + s[i] > Len(s) + 1)
  <2> DEFINE c == s[i]
  <2>1. i \in 1 .. Len(s) /\ c # 0 /\ i + c <= Len(s) + 1
    <3>1. i \in 1 .. Len(s)
      BY <1>0, <1>2
    <3>2. c \in Nat
      BY <3>1, ElementOfSeq
    <3> QED BY <1>0, <1>2, <3>1, <3>2
  <2>2. c \in Nat
    BY <2>1, ElementOfSeq
  <2> HIDE DEF c
  <2>3. i + c \in i + 1 .. Len(s) + 1
    BY <1>0, <2>1, <2>2
  <2>4. f[i + c] = g[i + c]
    BY <2>3
  <2>5. DecodeFrom(s, key, f, i, c) = DecodeFrom(s, key, g, i, c)
    BY <2>4 DEF DecodeFrom
  <2> QED BY <1>2, <2>5, DecodeByCode DEF c
<1> QED BY <1>1, <1>2

LEMMA DecodeIs ==
  ASSUME NEW s \in Seq(Nat), NEW key
  PROVE  \E f : Decodes(f, s, key) /\ Decode(s, key) = f[1]
<1> DEFINE m == Len(s) + 1
           S == {i \in 1 .. m : \E f : f = [k \in i .. m |-> DecodeStep(s, key, f, k)]}
<1>0. Len(s) \in Nat /\ m \in Nat /\ m >= 1
  BY LenProperties
<1>1. ASSUME NEW i \in 1 .. m, \A k \in i + 1 .. m : k \in S
      PROVE  i \in S
  <2>1. PICK g : i < m => g = [k \in i + 1 .. m |-> DecodeStep(s, key, g, k)]
    <3>1. i < m => i + 1 \in i + 1 .. m
      BY <1>0
    <3> QED BY <1>1, <3>1
  <2> DEFINE f == [k \in i .. m |-> IF k = i THEN DecodeStep(s, key, g, i) ELSE g[k]]
  <2>2. \A k \in i + 1 .. m : f[k] = g[k]
    BY <1>0
  <2>3. ASSUME NEW k \in i .. m PROVE f[k] = DecodeStep(s, key, f, k)
    <3>1. DecodeStep(s, key, f, k) = DecodeStep(s, key, g, k)
      <4>1. \A x \in k + 1 .. m : f[x] = g[x]
        BY <1>0, <2>2
      <4>2. k \in 1 .. Len(s) + 1
        BY <1>0
      <4> HIDE DEF f
      <4> QED BY <4>1, <4>2, DecodeLooksAhead
    <3>2. CASE k = i
      <4>1. f[k] = DecodeStep(s, key, g, i)
        BY <1>0, <3>2
      <4> QED BY <3>1, <3>2, <4>1
    <3>3. CASE k # i
      <4>1. k \in i + 1 .. m /\ i < m
        BY <1>0, <3>3
      <4>2. g[k] = DecodeStep(s, key, g, k)
        BY <2>1, <4>1
      <4> QED BY <2>2, <3>1, <4>1, <4>2
    <3> QED BY <3>2, <3>3
  <2>4. f = [k \in i .. m |-> f[k]]
    OBVIOUS
  <2> HIDE DEF f
  <2>5. f = [k \in i .. m |-> DecodeStep(s, key, f, k)]
    BY <2>3, <2>4
  <2> QED BY <2>5
<1>2. 1 \in S
  <2> HIDE DEF S, m
  <2>1. \A i \in 1 .. m : i \in S
    BY <1>0, <1>1, FromTheEnd
  <2> QED BY <1>0, <2>1
<1>3. PICK g : g = [i \in 1 .. Len(s) + 1 |-> DecodeStep(s, key, g, i)]
  BY <1>2
<1> DEFINE c == CHOOSE f : f = [i \in 1 .. Len(s) + 1 |-> DecodeStep(s, key, f, i)]
<1>4. Decode(s, key) = c[1]
  BY DEF Decode, DecodeStep
<1>5. c = [i \in 1 .. Len(s) + 1 |-> DecodeStep(s, key, c, i)]
  BY <1>3
<1> QED BY <1>4, <1>5 DEF Decodes
------------------------------------------------------------------------------
\* What is encoded.

\* The encoding of s from i on.
Coded(e, s, key, i) ==
  LET r == Len(s) + 1 - i IN
  /\ e \in Seq(Nat) /\ Len(e) >= 1 /\ Len(e) <= MaxEncoded(r, key)
  /\ \A k \in 1 .. Len(e) : e[k] # key.delim

\* A group, and what follows it.
WhatIsLeft(s, key, from, j, full) ==
  IF full THEN from[j] ELSE IF j <= Len(s) THEN from[j + 1] ELSE <<>>

LEMMA GroupCoded ==
  ASSUME NEW key, Keying(key), NEW g \in Seq(Nat), Len(g) < key.full,
         \A k \in 1 .. Len(g) : g[k] # key.delim,
         NEW t \in Seq(Nat), \A k \in 1 .. Len(t) : t[k] # key.delim
  PROVE  /\ Group(g) \o t \in Seq(Nat) /\ Len(Group(g) \o t) = Len(g) + 1 + Len(t)
         /\ \A k \in 1 .. Len(Group(g) \o t) : (Group(g) \o t)[k] # key.delim
<1> DEFINE c == Len(g) + 1
           h == <<c>>
           v == h \o g
           d == key.delim
<1>0. Len(g) \in Nat /\ Len(t) \in Nat /\ c \in Nat /\ c >= 1
  BY LenProperties
<1>1. h \in Seq(Nat) /\ Len(h) = 1 /\ h[1] = c
  BY <1>0
<1>2. c # d
  BY <1>0 DEF Keying
<1> HIDE DEF h, c, d
<1>3. v \in Seq(Nat) /\ Len(v) = c
  <2>1. Len(h) + Len(g) = c
    BY <1>0, <1>1 DEF c
  <2> QED BY <1>1, <2>1, ConcatProperties
<1>4. ASSUME NEW k \in 1 .. c PROVE v[k] # d
  <2>1. k \in 1 .. Len(h) + Len(g)
    BY <1>0, <1>1 DEF c
  <2>2. v[k] = IF k <= Len(h) THEN h[k] ELSE g[k - Len(h)]
    BY <1>1, <2>1, ConcatProperties
  <2>3. CASE k = 1
    BY <1>1, <1>2, <2>2, <2>3
  <2>4. CASE k # 1
    <3>1. k - 1 \in 1 .. Len(g) /\ ~(k <= 1)
      BY <1>0, <2>4 DEF c
    <3> QED BY <1>1, <2>2, <3>1 DEF d
  <2> QED BY <2>3, <2>4
<1> HIDE DEF v
<1>5. v \o t \in Seq(Nat) /\ Len(v \o t) = c + Len(t)
  BY <1>3, ConcatProperties
<1>6. ASSUME NEW k \in 1 .. c + Len(t) PROVE (v \o t)[k] # d
  <2>1. (v \o t)[k] = IF k <= c THEN v[k] ELSE t[k - c]
    BY <1>3, ConcatProperties
  <2>2. CASE k <= c
    <3>1. k \in 1 .. c
      BY <1>0, <2>2
    <3> QED BY <1>4, <2>1, <2>2, <3>1
  <2>3. CASE ~(k <= c)
    <3>1. k - c \in 1 .. Len(t)
      BY <1>0, <2>3
    <3> QED BY <2>1, <2>3, <3>1 DEF d
  <2> QED BY <2>2, <2>3
<1>7. Group(g) \o t = v \o t
  BY DEF Group, v, h, c
<1> QED BY <1>5, <1>6, <1>7 DEF c, d

LEMMA EncodeTypes ==
  ASSUME NEW s \in Seq(Nat), NEW key, Keying(key),
         NEW enc, Encodes(enc, s, key)
  PROVE  \A i \in 1 .. Len(s) + 1 : Coded(enc[i], s, key, i)
<1> DEFINE m == Len(s) + 1
           S == {i \in 1 .. m : Coded(enc[i], s, key, i)}
<1>0. Len(s) \in Nat /\ m \in Nat
  BY LenProperties
<1>1. ASSUME NEW i \in 1 .. m, \A k \in i + 1 .. m : k \in S
      PROVE  i \in S
  <2> DEFINE j == GroupEnd(s, i, key)
             g == SubSeq(s, i, j - 1)
             full == FullGroup(j - i, key)
             t == WhatIsLeft(s, key, enc, j, full)
             f == key.full - 1
             r == m - i
  <2>1. /\ j \in i .. m /\ (j > Len(s) \/ s[j] = key.delim \/ full)
        /\ \A k \in i .. j - 1 : s[k] # key.delim
        /\ (j - i) + 1 <= key.full
    BY GroupEnds
  <2>2. /\ g \in Seq(Nat) /\ Len(g) = j - i
        /\ \A k \in 1 .. j - i : g[k] = s[i + k - 1]
    BY <2>1, Cut
  <2>3. enc[i] = Group(g) \o t
    <3>1. enc[i] = EncodeStep(s, key, enc, i)
      BY DEF Encodes
    <3> QED BY <3>1 DEF EncodeStep, WhatIsLeft
  <2>4. f \in Nat \ {0} /\ r \in Nat /\ (full => j = i + f)
    <3> DEFINE n == key.full
    <3>1. n \in Nat /\ n > 1
      BY DEF Keying
    <3>2. full => (j - i) + 1 = n
      BY DEF FullGroup
    <3>3. j \in Int /\ i \in Int /\ m - i \in Nat
      BY <1>0, <2>1
    <3> HIDE DEF n, j, full, m
    <3>4. n - 1 \in Nat \ {0} /\ m - i \in Nat /\ (full => j = i + (n - 1))
      BY <3>1, <3>2, <3>3
    <3> QED BY <3>4 DEF n
  <2>q. ASSUME NEW x \in Nat PROVE x \div f \in Nat
    <3> HIDE DEF f
    <3> QED BY <2>4
  <2> HIDE DEF j, g, full
  <2>5. \A k \in 1 .. Len(g) : g[k] # key.delim
    <3>1. ASSUME NEW k \in 1 .. Len(g) PROVE i + k - 1 \in i .. j - 1
      BY <1>0, <2>1, <2>2
    <3> QED BY <2>1, <2>2, <3>1
  <2>6. /\ t \in Seq(Nat) /\ \A k \in 1 .. Len(t) : t[k] # key.delim
        /\ Len(t) + (j - i) + 1 <= r + r \div f + 1
    <3>1. CASE full
      <4>0. t = enc[j]
        BY <3>1 DEF WhatIsLeft
      <4>1. t = enc[j] /\ j \in i + 1 .. m /\ m - j \in Nat /\ (m - j) + f = r /\ j - i = f
        <5>1. f \in Nat \ {0} /\ j = i + f
          BY <2>4, <3>1
        <5> HIDE DEF f, m, t
        <5>2. j \in i + 1 .. m /\ m - j \in Nat /\ (m - j) + f = m - i /\ j - i = f
          BY <1>0, <2>1, <5>1
        <5> QED BY <4>0, <5>2
      <4>2. Coded(enc[j], s, key, j)
        BY <1>1, <4>1
      <4>3. r \div f = (m - j) \div f + 1
        <5> DEFINE x == m - j
        <5>1. x \in Nat /\ x + f = r
          BY <4>1
        <5> HIDE DEF x, f, r
        <5> QED BY <2>4, <5>1, QuotientStep DEF x
      <4>4. Len(t) <= (m - j) + (m - j) \div f + 1 /\ Len(t) \in Nat
        BY <4>1, <4>2, LenProperties, SMTT(20) DEF Coded, MaxEncoded
      <4>5. (m - j) \div f \in Int
        BY <2>q, <4>1
      <4> HIDE DEF f, r, m
      <4>6. Len(t) + (j - i) + 1 <= r + r \div f + 1
        <5> DEFINE q == (m - j) \div f
        <5>1. q \in Int /\ r \div f = q + 1 /\ Len(t) <= (m - j) + q + 1
          BY <4>3, <4>4, <4>5
        <5> HIDE DEF q
        <5>2. (m - j) + (j - i) = r /\ m - j \in Int /\ j - i \in Int /\ r \in Int /\ Len(t) \in Int
          BY <1>0, <2>1, <2>4, <4>1, <4>4
        <5>3. Len(t) + (j - i) <= ((m - j) + q + 1) + (j - i)
          BY ONLY <5>1, <5>2
        <5>4. ((m - j) + q + 1) + (j - i) = r + (q + 1)
          BY ONLY <5>1, <5>2
        <5>5. Len(t) + (j - i) + 1 <= r + (q + 1) + 1
          BY ONLY <5>1, <5>2, <5>3, <5>4
        <5>6. r \div f = q + 1
          BY <5>1
        <5>7. r + r \div f + 1 = r + (q + 1) + 1
          BY ONLY <5>6, Zenon
        <5> QED BY ONLY <5>5, <5>7, Zenon
      <4> QED BY <4>1, <4>2, <4>6 DEF Coded
    <3>2. CASE ~full /\ j <= Len(s)
      <4>0. t = enc[j + 1]
        BY <3>2 DEF WhatIsLeft
      <4>1. /\ t = enc[j + 1] /\ j + 1 \in i + 1 .. m /\ m - (j + 1) \in Nat
            /\ m - (j + 1) <= r /\ (m - (j + 1)) + (j - i) + 1 = r
        <5>1. /\ j + 1 \in i + 1 .. m /\ m - (j + 1) \in Nat
              /\ m - (j + 1) <= r /\ (m - (j + 1)) + (j - i) + 1 = r
          <6>1. j \in Int /\ i \in Int /\ m \in Int /\ i <= j /\ j + 1 <= m
            <7> HIDE DEF f, r, t
            <7> QED BY <1>0, <2>1, <3>2
          <6> HIDE DEF m, f, t
          <6> QED BY ONLY <6>1
        <5> HIDE DEF t
        <5> QED BY <4>0, <5>1
      <4>2. Coded(enc[j + 1], s, key, j + 1)
        BY <1>1, <4>1
      <4> DEFINE x == m - (j + 1)
      <4>3. x \div f <= r \div f
        <5> HIDE DEF x, f, r
        <5> QED BY <2>4, <4>1, QuotientGrows DEF x
      <4>4. Len(t) <= x + x \div f + 1 /\ Len(t) \in Nat
        BY <4>1, <4>2, LenProperties DEF Coded, MaxEncoded
      <4>5. x \div f \in Int /\ r \div f \in Int
        BY <2>4, <2>q, <4>1
      <4>6. Len(t) + (j - i) + 1 <= r + r \div f + 1
        <5> DEFINE q == x \div f
                   p == r \div f
        <5> HIDE DEF f, r, m
        <5>1. q \in Int /\ p \in Int /\ q <= p /\ Len(t) <= x + q + 1
          BY <4>3, <4>4, <4>5
        <5> HIDE DEF q, p
        <5>2. Len(t) + (j - i) + 1 <= r + p + 1
          BY <1>0, <2>1, <2>4, <4>1, <4>4, <5>1
        <5> QED BY <5>2 DEF p
      <4> QED BY <4>1, <4>2, <4>6 DEF Coded
    <3>3. CASE ~full /\ j > Len(s)
      <4>1. t = <<>> /\ j - i = r
        BY <1>0, <2>1, <3>3 DEF WhatIsLeft
      <4>2. t \in Seq(Nat) /\ Len(t) = 0
        BY <4>1, EmptySeq
      <4>3. r \div f \in Nat
        BY <2>4, <2>q
      <4>5. Len(t) + (j - i) + 1 <= r + r \div f + 1
        <5> DEFINE p == r \div f
        <5> HIDE DEF r, f
        <5>1. p \in Int /\ p >= 0
          BY <4>3
        <5> HIDE DEF p
        <5>2. Len(t) + (j - i) + 1 <= r + p + 1
          BY <2>4, <4>1, <4>2, <5>1
        <5> QED BY <5>2 DEF p
      <4>6. \A k \in 1 .. Len(t) : FALSE
        BY <4>2
      <4> QED BY <4>2, <4>5, <4>6
    <3> QED BY <1>0, <2>1, <3>1, <3>2, <3>3
  <2>7. Len(g) < key.full
    BY <1>0, <2>1, <2>2 DEF Keying
  <2> HIDE DEF t
  <2>8. /\ enc[i] \in Seq(Nat) /\ Len(enc[i]) = Len(g) + 1 + Len(t)
        /\ \A k \in 1 .. Len(enc[i]) : enc[i][k] # key.delim
    <3>1. g \in Seq(Nat) /\ t \in Seq(Nat) /\ \A k \in 1 .. Len(t) : t[k] # key.delim
      BY <2>2, <2>6
    <3>2. /\ Group(g) \o t \in Seq(Nat) /\ Len(Group(g) \o t) = Len(g) + 1 + Len(t)
          /\ \A k \in 1 .. Len(Group(g) \o t) : (Group(g) \o t)[k] # key.delim
      BY <2>5, <2>7, <3>1, GroupCoded
    <3> QED BY <2>3, <3>2
  <2>9. Len(g) \in Nat /\ Len(t) \in Nat
    BY <2>2, <2>6, LenProperties
  <2>10. Len(enc[i]) >= 1 /\ Len(enc[i]) <= r + r \div f + 1
    <3> DEFINE p == r \div f
    <3>1. p \in Int
      BY <2>4, <2>q
    <3>2. Len(t) + (j - i) + 1 <= r + p + 1
      BY <2>6
    <3> HIDE DEF p, r, f
    <3>3. Len(enc[i]) >= 1 /\ Len(enc[i]) <= r + p + 1
      BY <1>0, <2>1, <2>2, <2>4, <2>8, <2>9, <3>1, <3>2
    <3> QED BY <3>3 DEF p
  <2> QED BY <2>8, <2>10 DEF Coded, MaxEncoded
<1>2. \A i \in 1 .. m : i \in S
  <2> HIDE DEF S, m
  <2> QED BY <1>0, <1>1, FromTheEnd
<1> QED BY <1>2

LEMMA Associates ==
  ASSUME NEW s \in Seq(Nat), NEW t \in Seq(Nat), NEW u \in Seq(Nat)
  PROVE  (s \o t) \o u = s \o (t \o u)
BY ConcatAssociative, SMTT(30)

\* A group, the delimiter behind it if one stood there, and any of the tails.
Continued(g, key, c, t, tails) ==
  Joined(g, IF c # key.full /\ t # <<>> THEN <<key.delim>> ELSE <<>>, tails)

LEMMA DecodeGroup ==
  ASSUME NEW e \in Seq(Nat), NEW key, Keying(key), NEW p \in 1 .. Len(e) + 1,
         NEW g \in Seq(Nat), NEW c \in Nat, Len(g) = c - 1, c <= key.full, NEW t \in Seq(Nat),
         Reads(e, p, Group(g) \o t), NEW dec
  PROVE  DecodeStep(e, key, dec, p) = Continued(g, key, c, t, dec[p + c])
<1> DEFINE d == IF c # key.full /\ t # <<>> THEN <<key.delim>> ELSE <<>>
<1>0. Len(e) \in Nat /\ Len(g) \in Nat /\ c >= 1 /\ key.full \in Nat
  BY LenProperties DEF Keying
<1>1. /\ p <= Len(e) /\ e[p] = c /\ p + c <= Len(e) + 1
      /\ p + c <= Len(e) <=> t # <<>>
      /\ SubSeq(e, p + 1, (p + c) - 1) = g
  BY SuffixParts
<1>2. c # 0 /\ c # key.delim
  BY <1>0 DEF Keying
<1>3. ~(p > Len(e)) /\ ~(e[p] \in {0, key.delim} \/ p + e[p] > Len(e) + 1)
  <2> DEFINE n == Len(e)
  <2>1. n \in Nat /\ p \in Int /\ p <= n /\ p + c <= n + 1
    BY <1>0, <1>1
  <2> HIDE DEF n
  <2>2. ~(p > n) /\ ~(p + c > n + 1)
    BY <2>1
  <2> QED BY <1>1, <1>2, <2>2 DEF n
<1>4. DecodeStep(e, key, dec, p) = DecodeFrom(e, key, dec, p, c)
  <2>1. e[p] = c
    BY <1>1
  <2>2. DecodeStep(e, key, dec, p) = DecodeFrom(e, key, dec, p, e[p])
    BY <1>3, DecodeByCode, Zenon
  <2> QED BY <2>1, <2>2, Zenon
<1>5. (IF DelimiterAfter(c, p + c <= Len(e), key) THEN <<key.delim>> ELSE <<>>) = d
  BY <1>1 DEF DelimiterAfter
<1> HIDE DEF d
<1>6. DecodeFrom(e, key, dec, p, c) = Joined(g, d, dec[p + c])
  <2>1. SubSeq(e, p + 1, (p + c) - 1) = g
    BY <1>1
  <2> QED BY <1>5, <2>1, Zenon DEF DecodeFrom
<1> QED BY <1>4, <1>6 DEF d, Continued

\* Encoded from i on and decoded from p on.
LEMMA DecodesBack ==
  ASSUME NEW s \in Seq(Nat), NEW key, Keying(key),
         NEW enc, Encodes(enc, s, key),
         NEW e \in Seq(Nat),
         NEW dec, Decodes(dec, e, key)
  PROVE  \A i \in 1 .. Len(s) + 1 : \A p \in 1 .. Len(e) + 1 :
           Reads(e, p, enc[i]) => dec[p] = {SubSeq(s, i, Len(s))}
<1> DEFINE m == Len(s) + 1
           S == {i \in 1 .. m : \A p \in 1 .. Len(e) + 1 :
                   Reads(e, p, enc[i]) => dec[p] = {SubSeq(s, i, Len(s))}}
<1>0. Len(s) \in Nat /\ m \in Nat /\ Len(e) \in Nat
  BY LenProperties
<1>1. ASSUME NEW i \in 1 .. m, \A k \in i + 1 .. m : k \in S
      PROVE  i \in S
  <2> SUFFICES ASSUME NEW p \in 1 .. Len(e) + 1, Reads(e, p, enc[i])
               PROVE  dec[p] = {SubSeq(s, i, Len(s))}
    OBVIOUS
  <2> DEFINE j == GroupEnd(s, i, key)
             g == SubSeq(s, i, j - 1)
             c == (j - i) + 1
             full == FullGroup(j - i, key)
             t == WhatIsLeft(s, key, enc, j, full)
             q == p + c
             d == IF c # key.full /\ t # <<>> THEN <<key.delim>> ELSE <<>>
  <2>1. /\ j \in i .. m /\ (j > Len(s) \/ s[j] = key.delim \/ full)
        /\ c <= key.full
    BY GroupEnds
  <2>2. /\ g \in Seq(Nat) /\ Len(g) = j - i
        /\ SubSeq(s, i, Len(s)) = g \o SubSeq(s, j, Len(s)) /\ SubSeq(s, j, Len(s)) \in Seq(Nat)
    BY <2>1, Cut
  <2>3. enc[i] = Group(g) \o t
    <3>1. enc[i] = EncodeStep(s, key, enc, i)
      BY DEF Encodes
    <3> QED BY <3>1 DEF EncodeStep, WhatIsLeft
  <2>k. key.delim \in Nat /\ <<key.delim>> \in Seq(Nat) /\ key.full \in Nat /\ key.full > 1
    BY DEF Keying
  <2>4. full <=> c = key.full
    BY DEF FullGroup
  <2> HIDE DEF j, g, full
  <2>c. c \in Nat /\ Len(g) = c - 1 /\ j \in Int /\ i \in Int
    BY <1>0, <2>1, <2>2
  <2>5. /\ full => j \in i + 1 .. m
        /\ ~full /\ j <= Len(s) => j + 1 \in i + 1 .. m /\ s[j] = key.delim
    <3>1. full => j \in i + 1 .. m
      BY <1>0, <2>1, <2>4, <2>k
    <3>2. ~full /\ j <= Len(s) => j + 1 \in i + 1 .. m
      BY <1>0, <2>1
    <3>3. ~full /\ j <= Len(s) => s[j] = key.delim
      BY <1>0, <2>1
    <3> QED BY <3>1, <3>2, <3>3
  <2>6. \A k \in i + 1 .. m : enc[k] \in Seq(Nat) /\ enc[k] # <<>>
    <3> SUFFICES ASSUME NEW k \in i + 1 .. m PROVE enc[k] \in Seq(Nat) /\ enc[k] # <<>>
      OBVIOUS
    <3>1. k \in 1 .. Len(s) + 1
      BY <1>0
    <3>2. Coded(enc[k], s, key, k)
      BY <3>1, EncodeTypes
    <3> QED BY <3>2, EmptySeq DEF Coded
  <2>t. /\ full => t = enc[j]
        /\ ~full /\ j <= Len(s) => t = enc[j + 1]
        /\ ~full /\ ~(j <= Len(s)) => t = <<>>
    BY DEF WhatIsLeft
  <2> HIDE DEF t
  <2>7. t \in Seq(Nat) /\ (t = <<>> <=> ~full /\ ~(j <= Len(s)))
    <3>1. CASE full
      BY <2>5, <2>6, <2>t, <3>1
    <3>2. CASE ~full /\ j <= Len(s)
      BY <2>5, <2>6, <2>t, <3>2
    <3>3. CASE ~full /\ ~(j <= Len(s))
      BY <2>t, <3>3, EmptySeq
    <3> QED BY <3>1, <3>2, <3>3
  <2>8. Reads(e, p, Group(g) \o t)
    BY <2>3
  <2> HIDE DEF c
  <2>9. /\ q \in 1 .. Len(e) + 1 /\ (q <= Len(e) <=> t # <<>>)
        /\ Reads(e, q, t)
    <3>1. /\ p <= Len(e) /\ p + c <= Len(e) + 1
          /\ p + c <= Len(e) <=> t # <<>>
          /\ Reads(e, p + c, t)
      BY <2>2, <2>c, <2>7, <2>8, SuffixParts
    <3>3. p + c \in 1 .. Len(e) + 1
      BY <1>0, <2>c, <3>1
    <3> QED BY <3>1, <3>3
  <2>10. ASSUME NEW z, dec[q] = {z} PROVE dec[p] = {g \o d \o z}
    <3>1. dec[p] = DecodeStep(e, key, dec, p)
      BY DEF Decodes
    <3>2. DecodeStep(e, key, dec, p) = {g \o d \o x : x \in dec[q]}
      <4>1. g \in Seq(Nat) /\ t \in Seq(Nat)
        BY <2>2, <2>7
      <4>2. DecodeStep(e, key, dec, p) = Continued(g, key, c, t, dec[p + c])
        BY <2>1, <2>c, <2>8, <4>1, DecodeGroup
      <4> QED BY <4>2 DEF Continued, Joined
    <3> HIDE DEF d, q
    <3> QED BY <2>10, <3>1, <3>2
  <2> HIDE DEF q, d
  <2>11. CASE full
    <3>1. t = enc[j] /\ j \in S
      BY <1>1, <2>5, <2>t, <2>11
    <3>2. dec[q] = {SubSeq(s, j, Len(s))}
      BY <2>9, <3>1
    <3>3. d = <<>>
      BY <2>4, <2>11 DEF d
    <3>4. g \o d \o SubSeq(s, j, Len(s)) = SubSeq(s, i, Len(s))
      BY <2>2, <3>3, ConcatEmptySeq
    <3> QED BY <2>10, <3>2, <3>4
  <2>12. CASE ~full /\ j <= Len(s)
    <3>1. t = enc[j + 1] /\ j + 1 \in S /\ s[j] = key.delim
      BY <1>1, <2>5, <2>t, <2>12
    <3>2. dec[q] = {SubSeq(s, j + 1, Len(s))}
      BY <2>9, <3>1
    <3>3. d = <<key.delim>>
      <4>1. t # <<>>
        BY <1>0, <2>1, <2>7, <2>12
      <4> QED BY <2>4, <2>12, <4>1 DEF d
    <3>4. SubSeq(s, j, Len(s)) = <<key.delim>> \o SubSeq(s, j + 1, Len(s))
      <4>1. j \in 1 .. Len(s) /\ Len(s) \in j .. Len(s)
        BY <1>0, <2>1, <2>12
      <4> QED BY <3>1, <4>1, SubSeqRecursiveFirst
    <3>5. SubSeq(s, j + 1, Len(s)) \in Seq(Nat)
      <4>1. j + 1 \in Int /\ Len(s) \in Int /\ j + 1 >= 1 /\ Len(s) <= Len(s)
        BY <1>0, <2>1
      <4> HIDE DEF S
      <4> QED BY <4>1, Piece
    <3>6. g \o d \o SubSeq(s, j + 1, Len(s)) = SubSeq(s, i, Len(s))
      <4> DEFINE y == SubSeq(s, j + 1, Len(s))
                 h == <<key.delim>>
      <4>1. \A u \in Seq(Nat) : \A v \in Seq(Nat) : (g \o u) \o v = g \o (u \o v)
        <5>1. g \in Seq(Nat)
          BY <2>2
        <5> QED BY <5>1, Associates
      <4>2. h \in Seq(Nat) /\ y \in Seq(Nat)
        BY <2>k, <3>5
      <4>3. d = h /\ SubSeq(s, j, Len(s)) = h \o y
        BY <3>3, <3>4
      <4> HIDE DEF h, y, d
      <4>4. (g \o d) \o y = g \o SubSeq(s, j, Len(s))
        <5> DEFINE v == SubSeq(s, j, Len(s))
        <5>1. (g \o h) \o y = g \o (h \o y)
          BY <4>1, <4>2, Zenon
        <5>2. d = h /\ v = h \o y
          BY <4>3
        <5> HIDE DEF v
        <5>3. (g \o d) \o y = g \o v
          BY ONLY <5>1, <5>2, Zenon
        <5> QED BY <5>3 DEF v
      <4>5. g \o SubSeq(s, j, Len(s)) = SubSeq(s, i, Len(s))
        BY <2>2
      <4> QED BY <4>4, <4>5 DEF y
    <3> QED BY <2>10, <3>2, <3>6
  <2>13. CASE ~full /\ ~(j <= Len(s))
    <3>1. t = <<>> /\ ~(q <= Len(e))
      BY <2>7, <2>9, <2>13
    <3>2. dec[q] = {<<>>}
      <4>1. dec[q] = DecodeStep(e, key, dec, q) /\ q > Len(e)
        <5>1. q > Len(e)
          BY <1>0, <2>9, <3>1
        <5>2. q \in 1 .. Len(e) + 1
          BY <2>9
        <5> QED BY <5>1, <5>2 DEF Decodes
      <4> QED BY <4>1 DEF DecodeStep
    <3>3. d = <<>>
      BY <3>1 DEF d
    <3>4. SubSeq(s, j, Len(s)) = <<>>
      BY <1>0, <2>1, <2>13, SubSeqEmpty
    <3>5. g \o d \o <<>> = SubSeq(s, i, Len(s))
      BY <2>2, <3>3, <3>4, ConcatEmptySeq
    <3> QED BY <2>10, <3>2, <3>5
  <2> QED BY <1>0, <2>1, <2>11, <2>12, <2>13
<1>2. \A i \in 1 .. m : i \in S
  <2> HIDE DEF S, m
  <2> QED BY <1>0, <1>1, FromTheEnd
<1> QED BY <1>2

\* The decoder returns what was encoded, the delimiter does not occur, and the output
\* is no longer than its bound.
RoundTrip(s, key) ==
  LET e == Encode(s, key) IN
  /\ Decode(e, key) = {s}
  /\ \A i \in DOMAIN e : e[i] # key.delim
  /\ Len(e) <= MaxEncoded(Len(s), key)

\* encode() and ffEncode() are undone by decode() and ffDecode(), for byte sequences
\* of every length and in every keying; no delimiter is left in what they write, and it
\* fits maxEncoded() and ffMaxEncoded().
THEOREM CobsRoundTrip ==
  ASSUME NEW s \in Seq(Nat), NEW key, Keying(key)
  PROVE  RoundTrip(s, key)
<1> DEFINE e == Encode(s, key)
<1>0. Len(s) \in Nat /\ 1 \in 1 .. Len(s) + 1
  BY LenProperties
<1>1. PICK enc : Encodes(enc, s, key) /\ e = enc[1]
  BY EncodeIs
<1> HIDE DEF e
<1>2. Coded(e, s, key, 1)
  BY <1>0, <1>1, EncodeTypes
<1>3. e \in Seq(Nat) /\ Len(e) \in Nat /\ 1 \in 1 .. Len(e) + 1
  BY <1>2, LenProperties DEF Coded
<1>4. PICK dec : Decodes(dec, e, key) /\ Decode(e, key) = dec[1]
  BY <1>3, DecodeIs
<1>5. SubSeq(e, 1, Len(e)) = enc[1] /\ SubSeq(s, 1, Len(s)) = s
  BY <1>1, <1>3, SubSeqFull
<1>6. dec[1] = {SubSeq(s, 1, Len(s))}
  <2>1. Reads(e, 1, enc[1])
    BY <1>5 DEF Reads
  <2>2. \A i \in 1 .. Len(s) + 1 : \A p \in 1 .. Len(e) + 1 :
          Reads(e, p, enc[i]) => dec[p] = {SubSeq(s, i, Len(s))}
    BY <1>1, <1>3, <1>4, DecodesBack
  <2> QED BY <1>0, <1>3, <2>1, <2>2
<1>7. Decode(e, key) = {s}
  BY <1>4, <1>5, <1>6
<1>8. \A i \in DOMAIN e : e[i] # key.delim
  <2>1. DOMAIN e = 1 .. Len(e)
    BY <1>3, LenProperties
  <2> QED BY <1>2, <2>1 DEF Coded
<1>9. Len(e) <= MaxEncoded(Len(s), key)
  <2>1. Len(s) + 1 - 1 = Len(s)
    BY <1>0
  <2> QED BY <1>2, <2>1 DEF Coded
<1> QED BY <1>7, <1>8, <1>9 DEF RoundTrip, e

\* d is what s holds from i on, as far as d goes.
Copies(d, s, i) ==
  /\ d \in Seq(Nat) /\ i + Len(d) <= Len(s) + 1
  /\ \A k \in 1 .. Len(d) : d[k] = s[(i + k) - 1]

LEMMA CopiesJoin ==
  ASSUME NEW s \in Seq(Nat), NEW i \in Nat, NEW j \in Nat, NEW g, NEW z,
         Copies(g, s, i), Len(g) = j - i, Copies(z, s, j)
  PROVE  Copies(g \o z, s, i)
<1> DEFINE m == Len(s)
           n == Len(z)
           c == Len(g)
<1>1. g \in Seq(Nat) /\ z \in Seq(Nat)
  BY DEF Copies
<1>2. m \in Nat /\ n \in Nat /\ c \in Nat /\ c = j - i /\ j + n <= m + 1
  BY <1>1, LenProperties DEF Copies
<1>3. /\ g \o z \in Seq(Nat) /\ Len(g \o z) = c + n
      /\ \A k \in 1 .. c + n : (g \o z)[k] = IF k <= c THEN g[k] ELSE z[k - c]
  BY <1>1, ConcatProperties
<1>4. ASSUME NEW k \in 1 .. c + n PROVE (g \o z)[k] = s[(i + k) - 1]
  <2>1. CASE k <= c
    <3>1. k \in 1 .. c
      BY <1>2, <2>1
    <3> QED BY <1>3, <2>1, <3>1 DEF Copies
  <2>2. CASE ~(k <= c)
    <3>1. k - c \in 1 .. n /\ (j + (k - c)) - 1 = (i + k) - 1
      <4> HIDE DEF c, n, m
      <4> QED BY <1>2, <2>2
    <3> QED BY <1>3, <2>2, <3>1 DEF Copies
  <2> QED BY <2>1, <2>2
<1>5. i + (c + n) <= m + 1
  <2> HIDE DEF c, n, m
  <2> QED BY <1>2
<1> QED BY <1>2, <1>3, <1>4, <1>5 DEF Copies

\* The beginning of an encoding decodes, if at all, to a beginning of what was
\* encoded.
LEMMA PrefixDecodes ==
  ASSUME NEW s \in Seq(Nat), NEW key, Keying(key),
         NEW enc, Encodes(enc, s, key),
         NEW e \in Seq(Nat),
         NEW w \in Seq(Nat), Len(w) <= Len(e), \A k \in 1 .. Len(w) : w[k] = e[k],
         NEW dec, Decodes(dec, w, key)
  PROVE  \A i \in 1 .. Len(s) + 1 : \A p \in 1 .. Len(w) + 1 :
           Reads(e, p, enc[i]) => \A d \in dec[p] : Copies(d, s, i)
<1> DEFINE m == Len(s) + 1
           l == Len(w)
           S == {i \in 1 .. m : \A p \in 1 .. l + 1 :
                   Reads(e, p, enc[i]) => \A d \in dec[p] : Copies(d, s, i)}
<1>0. Len(s) \in Nat /\ m \in Nat /\ Len(e) \in Nat /\ l \in Nat /\ l <= Len(e)
  BY LenProperties
<1>e. dec[l + 1] = {<<>>}
  <2>1. l + 1 \in 1 .. l + 1 /\ l + 1 > l
    BY <1>0
  <2>2. dec[l + 1] = DecodeStep(w, key, dec, l + 1)
    BY <2>1 DEF Decodes
  <2> QED BY <2>1, <2>2 DEF DecodeStep
<1>1. ASSUME NEW i \in 1 .. m, \A k \in i + 1 .. m : k \in S
      PROVE  i \in S
  <2> SUFFICES ASSUME NEW p \in 1 .. l + 1, Reads(e, p, enc[i]), NEW x \in dec[p]
               PROVE  Copies(x, s, i)
    OBVIOUS
  <2> DEFINE j == GroupEnd(s, i, key)
             g == SubSeq(s, i, j - 1)
             c == (j - i) + 1
             full == FullGroup(j - i, key)
             t == WhatIsLeft(s, key, enc, j, full)
             q == p + c
             d == IF DelimiterAfter(c, q <= l, key) THEN <<key.delim>> ELSE <<>>
  <2>1. /\ j \in i .. m /\ (j > Len(s) \/ s[j] = key.delim \/ full)
        /\ c <= key.full
    BY GroupEnds
  <2>2. /\ g \in Seq(Nat) /\ Len(g) = j - i
        /\ \A k \in 1 .. j - i : g[k] = s[i + k - 1]
    BY <2>1, Cut
  <2>3. enc[i] = Group(g) \o t
    <3>1. enc[i] = EncodeStep(s, key, enc, i)
      BY DEF Encodes
    <3> QED BY <3>1 DEF EncodeStep, WhatIsLeft
  <2>k. key.delim \in Nat /\ <<key.delim>> \in Seq(Nat) /\ key.full \in Nat /\ key.full > 1
    BY DEF Keying
  <2>4. full <=> c = key.full
    BY DEF FullGroup
  <2> HIDE DEF j, g, full
  <2>c. c \in Nat /\ Len(g) = c - 1 /\ j \in Int /\ i \in Int
    BY <1>0, <2>1, <2>2
  <2>g. Copies(g, s, i) /\ i \in Nat /\ j \in Nat
    <3>1. i + Len(g) <= Len(s) + 1 /\ i \in Nat /\ j \in Nat
      BY <1>0, <2>1, <2>2
    <3>2. \A k \in 1 .. Len(g) : g[k] = s[(i + k) - 1]
      <4> SUFFICES ASSUME NEW k \in 1 .. Len(g) PROVE g[k] = s[(i + k) - 1]
        OBVIOUS
      <4>1. k \in 1 .. j - i /\ i + k - 1 = (i + k) - 1
        BY <2>2, <2>c
      <4> QED BY <2>2, <4>1
    <3> QED BY <2>2, <3>1, <3>2 DEF Copies
  <2>5. /\ full => j \in i + 1 .. m
        /\ ~full /\ j <= Len(s) => j + 1 \in i + 1 .. m /\ s[j] = key.delim
    <3>1. full => j \in i + 1 .. m
      BY <1>0, <2>1, <2>4, <2>k
    <3>2. ~full /\ j <= Len(s) => j + 1 \in i + 1 .. m
      BY <1>0, <2>1
    <3>3. ~full /\ j <= Len(s) => s[j] = key.delim
      BY <1>0, <2>1
    <3> QED BY <3>1, <3>2, <3>3
  <2>6. \A k \in i + 1 .. m : enc[k] \in Seq(Nat)
    <3> SUFFICES ASSUME NEW k \in i + 1 .. m PROVE enc[k] \in Seq(Nat)
      OBVIOUS
    <3>1. k \in 1 .. Len(s) + 1
      BY <1>0
    <3>2. Coded(enc[k], s, key, k)
      BY <3>1, EncodeTypes
    <3> QED BY <3>2 DEF Coded
  <2>t. /\ full => t = enc[j]
        /\ ~full /\ j <= Len(s) => t = enc[j + 1]
        /\ ~full /\ ~(j <= Len(s)) => t = <<>>
    BY DEF WhatIsLeft
  <2> HIDE DEF t
  <2>7. t \in Seq(Nat) /\ (~full /\ ~(j <= Len(s)) => t = <<>>)
    <3>1. CASE full
      BY <2>5, <2>6, <2>t, <3>1
    <3>2. CASE ~full /\ j <= Len(s)
      BY <2>5, <2>6, <2>t, <3>2
    <3>3. CASE ~full /\ ~(j <= Len(s))
      BY <2>t, <3>3, EmptySeq
    <3> QED BY <3>1, <3>2, <3>3
  <2>8. Reads(e, p, Group(g) \o t)
    BY <2>3
  <2> HIDE DEF c
  <2>9. /\ p <= Len(e) /\ e[p] = c /\ q <= Len(e) + 1 /\ (q <= Len(e) <=> t # <<>>)
        /\ SubSeq(e, p + 1, q - 1) = g
        /\ Reads(e, q, t)
    <3>1. p \in 1 .. Len(e) + 1
      BY <1>0
    <3>2. /\ p <= Len(e) /\ e[p] = c /\ p + c <= Len(e) + 1
          /\ p + c <= Len(e) <=> t # <<>>
          /\ SubSeq(e, p + 1, (p + c) - 1) = g
          /\ Reads(e, p + c, t)
      BY <2>2, <2>c, <2>7, <2>8, <3>1, SuffixParts
    <3> QED BY <3>2
  <2>n. q \in Nat /\ q > p /\ p \in Nat
    BY <2>c, <2>2, LenProperties
  <2> HIDE DEF q
  <2>10. CASE p = l + 1
    <3>1. x = <<>>
      BY <1>e, <2>10
    <3>2. x \in Seq(Nat) /\ Len(x) = 0
      BY <3>1, EmptySeq
    <3> QED BY <1>0, <2>g, <3>2 DEF Copies
  <2>11. CASE p # l + 1
    <3>0. p \in 1 .. l
      <4> HIDE DEF l
      <4> QED BY <1>0, <2>11
    <3>1. p \in 1 .. l /\ w[p] = c
      BY <2>9, <3>0
    <3>2. x \in DecodeStep(w, key, dec, p)
      BY DEF Decodes
    <3>3. DecodeStep(w, key, dec, p) =
            IF p > l THEN {<<>>}
            ELSE IF w[p] \in {0, key.delim} \/ p + w[p] > l + 1 THEN {}
            ELSE DecodeFrom(w, key, dec, p, w[p])
      BY DecodeByCode
    <3>4. ~(p > l)
      BY <1>0, <3>1
    <3>5. q <= l + 1 /\ x \in DecodeFrom(w, key, dec, p, c)
      <4>1. ~(w[p] \in {0, key.delim} \/ p + w[p] > l + 1)
        BY <3>2, <3>3, <3>4
      <4>2. x \in DecodeFrom(w, key, dec, p, c)
        BY <3>1, <3>2, <3>3, <3>4, <4>1
      <4>3. ~(q > l + 1)
        BY <3>1, <4>1 DEF q
      <4> QED BY <1>0, <2>n, <4>2, <4>3
    <3>6. SubSeq(w, p + 1, q - 1) = g
      <4> DEFINE a == p + 1
                 b == q - 1
      <4>1. a \in Int /\ b \in Int /\ a >= 1 /\ b <= Len(w) /\ b <= Len(e)
        BY <1>0, <2>n, <3>5
      <4> HIDE DEF a, b
      <4>2. /\ SubSeq(w, a, b) \in Seq(Nat)
            /\ Len(SubSeq(w, a, b)) = IF a <= b THEN b - a + 1 ELSE 0
            /\ \A k \in 1 .. b - a + 1 : SubSeq(w, a, b)[k] = w[a + k - 1]
        <5>1. a \in Int /\ b \in Int /\ a >= 1 /\ b <= Len(w) /\ w \in Seq(Nat)
          BY <4>1
        <5> QED BY ONLY <5>1, Piece
      <4>3. /\ SubSeq(e, a, b) \in Seq(Nat)
            /\ Len(SubSeq(e, a, b)) = IF a <= b THEN b - a + 1 ELSE 0
            /\ \A k \in 1 .. b - a + 1 : SubSeq(e, a, b)[k] = e[a + k - 1]
        BY <4>1, Piece, SMTT(20)
      <4>4. \A k \in 1 .. b - a + 1 : w[a + k - 1] = e[a + k - 1]
        <5> SUFFICES ASSUME NEW k \in 1 .. b - a + 1 PROVE w[a + k - 1] = e[a + k - 1]
          OBVIOUS
        <5>1. a + k - 1 \in 1 .. l
          BY <1>0, <4>1
        <5> QED BY <5>1
      <4>5. \A k \in 1 .. Len(SubSeq(w, a, b)) : k \in 1 .. b - a + 1
        BY <4>1, <4>2
      <4>6. SubSeq(w, a, b) = SubSeq(e, a, b)
        <5> DEFINE u == SubSeq(w, a, b)
                   v == SubSeq(e, a, b)
        <5>1. u \in Seq(Nat) /\ v \in Seq(Nat) /\ Len(u) = Len(v)
          BY <4>2, <4>3
        <5>2. \A k \in 1 .. Len(u) : u[k] = v[k]
          BY <4>2, <4>3, <4>4, <4>5
        <5> HIDE DEF u, v
        <5>3. u = v
          BY ONLY <5>1, <5>2, SeqEqual
        <5> QED BY <5>3 DEF u, v
      <4> QED BY <2>9, <4>6 DEF a, b
    <3>7. PICK z \in dec[q] : x = (g \o d) \o z
      <4>1. DecodeFrom(w, key, dec, p, c) = Joined(g, d, dec[q])
        BY <3>6 DEF DecodeFrom, q
      <4> HIDE DEF d
      <4>2. x \in Joined(g, d, dec[q])
        BY <3>5, <4>1
      <4> QED BY <4>2 DEF Joined
    <3>8. CASE q = l + 1
      <4>1. z = <<>> /\ d = <<>>
        BY <1>0, <1>e, <3>7, <3>8 DEF DelimiterAfter
      <4>2. x = g
        BY <2>2, <3>7, <4>1, ConcatEmptySeq
      <4> QED BY <2>g, <4>2
    <3>9. CASE q # l + 1
      <4>0. q <= l /\ q \in 1 .. l + 1 /\ q <= Len(e)
        <5> HIDE DEF l
        <5> QED BY <1>0, <2>n, <3>5, <3>9
      <4>1. q <= l /\ q \in 1 .. l + 1 /\ t # <<>>
        BY <2>9, <4>0
      <4>2. CASE full
        <5>1. t = enc[j] /\ j \in S
          BY <1>1, <2>5, <2>t, <4>2
        <5>2. Copies(z, s, j)
          BY <2>9, <4>1, <5>1
        <5>3. d = <<>>
          BY <2>4, <4>2 DEF DelimiterAfter
        <5>4. x = g \o z
          BY <2>2, <3>7, <5>3, ConcatEmptySeq
        <5> QED BY <2>2, <2>g, <5>2, <5>4, CopiesJoin
      <4>3. CASE ~full
        <5>1. j <= Len(s)
          BY <2>7, <4>1, <4>3
        <5>2. t = enc[j + 1] /\ j + 1 \in S /\ s[j] = key.delim
          BY <1>1, <2>5, <2>t, <4>3, <5>1
        <5>3. Copies(z, s, j + 1)
          BY <2>9, <4>1, <5>2
        <5>4. d = <<key.delim>>
          BY <2>4, <4>1, <4>3 DEF DelimiterAfter
        <5> HIDE DEF d
        <5>5. Copies(d, s, j) /\ Len(d) = 1
          <6>1. d \in Seq(Nat) /\ Len(d) = 1 /\ d[1] = key.delim
            BY <2>k, <5>4
          <6>2. \A k \in 1 .. 1 : d[k] = s[(j + k) - 1]
            BY <2>g, <5>2, <6>1
          <6> QED BY <1>0, <2>g, <5>1, <6>1, <6>2 DEF Copies
        <5>6. Copies(g \o d, s, i) /\ Len(g \o d) = (j - i) + 1
          <6>1. Copies(g \o d, s, i)
            BY <2>2, <2>g, <5>5, CopiesJoin
          <6>2. Len(g \o d) = Len(g) + Len(d)
            BY <2>2, <5>4, <2>k, ConcatProperties
          <6> QED BY <2>2, <5>5, <6>1, <6>2
        <5>7. Len(g \o d) = (j + 1) - i /\ j + 1 \in Nat
          BY <2>g, <5>6
        <5>8. Copies((g \o d) \o z, s, i)
          BY <2>g, <5>3, <5>6, <5>7, CopiesJoin
        <5> QED BY <3>7, <5>8
      <4> QED BY <4>2, <4>3
    <3> QED BY <3>8, <3>9
  <2> QED BY <2>10, <2>11
<1>2. \A i \in 1 .. m : i \in S
  <2> HIDE DEF S, m
  <2> QED BY <1>0, <1>1, FromTheEnd
<1> QED BY <1>2

LEMMA CutShort ==
  ASSUME NEW s \in Seq(Nat), NEW key, Keying(key), NEW w \in Seq(Nat),
         Len(w) <= Len(Encode(s, key)), \A k \in 1 .. Len(w) : w[k] = Encode(s, key)[k],
         NEW d \in Decode(w, key)
  PROVE  Copies(d, s, 1)
<1> DEFINE e == Encode(s, key)
<1>0. Len(s) \in Nat /\ Len(w) \in Nat /\ 1 \in 1 .. Len(s) + 1 /\ 1 \in 1 .. Len(w) + 1
  BY LenProperties
<1>p. Len(w) <= Len(e) /\ \A k \in 1 .. Len(w) : w[k] = e[k]
  OBVIOUS
<1>1. PICK enc : Encodes(enc, s, key) /\ e = enc[1]
  BY EncodeIs
<1> HIDE DEF e
<1>2. Coded(e, s, key, 1)
  BY <1>0, <1>1, EncodeTypes
<1>3. e \in Seq(Nat)
  BY <1>2 DEF Coded
<1>4. PICK dec : Decodes(dec, w, key) /\ Decode(w, key) = dec[1]
  BY DecodeIs
<1>5. Reads(e, 1, enc[1])
  BY <1>1, <1>3, SubSeqFull DEF Reads
<1>6. \A i \in 1 .. Len(s) + 1 : \A p \in 1 .. Len(w) + 1 :
        Reads(e, p, enc[i]) => \A x \in dec[p] : Copies(x, s, i)
  <2>1. s \in Seq(Nat) /\ Keying(key) /\ w \in Seq(Nat)
    OBVIOUS
  <2> QED BY ONLY <1>1, <1>3, <1>4, <1>p, <2>1, PrefixDecodes
<1> QED BY <1>0, <1>4, <1>5, <1>6

\* No byte of an encoding is larger than those of the input and the code "full".
LEMMA EncodeStays ==
  ASSUME NEW n \in Nat, NEW s \in Seq(0 .. n), NEW key, Keying(key), key.full <= n
  PROVE  Encode(s, key) \in Seq(0 .. n)
<1> DEFINE m == Len(s) + 1
           B == 0 .. n
<1>0. Len(s) \in Nat /\ m \in Nat /\ s \in Seq(Nat)
  <2>1. 0 .. n \subseteq Nat
    OBVIOUS
  <2> QED BY <2>1, LenProperties, SeqMonotonic
<1>1. PICK enc : Encodes(enc, s, key) /\ Encode(s, key) = enc[1]
  BY <1>0, EncodeIs
<1> DEFINE S == {i \in 1 .. m : enc[i] \in Seq(B)}
<1>2. ASSUME NEW i \in 1 .. m, \A k \in i + 1 .. m : k \in S
      PROVE  i \in S
  <2> DEFINE j == GroupEnd(s, i, key)
             g == SubSeq(s, i, j - 1)
             full == FullGroup(j - i, key)
             t == WhatIsLeft(s, key, enc, j, full)
             h == <<Len(g) + 1>>
  <2>1. j \in i .. m /\ (j - i) + 1 <= key.full
    BY <1>0, GroupEnds
  <2>2. g \in Seq(B) /\ Len(g) = j - i
    <3>1. \A k \in i .. j - 1 : s[k] \in B
      <4> SUFFICES ASSUME NEW k \in i .. j - 1 PROVE s[k] \in B
        OBVIOUS
      <4>1. k \in 1 .. Len(s)
        BY <1>0, <2>1
      <4> QED BY <4>1, ElementOfSeq
    <3>2. i \in Int /\ j - 1 \in Int
      BY <2>1
    <3>3. g \in Seq(B)
      <4> HIDE DEF B, j
      <4> QED BY <3>1, <3>2, SubSeqProperties
    <3>4. Len(g) = j - i
      BY <1>0, <2>1, Cut
    <3> QED BY <3>3, <3>4
  <2>3. enc[i] = (h \o g) \o t
    <3>1. enc[i] = EncodeStep(s, key, enc, i)
      BY <1>1 DEF Encodes
    <3> QED BY <3>1 DEF EncodeStep, WhatIsLeft, Group
  <2>4. full => j \in i + 1 .. m
    <3>1. key.full > 1 /\ key.full \in Nat
      BY DEF Keying
    <3> QED BY <1>0, <2>1, <3>1 DEF FullGroup
  <2>5. t \in Seq(B)
    <3>1. CASE full
      BY <1>2, <2>4, <3>1 DEF WhatIsLeft
    <3>2. CASE ~full /\ j <= Len(s)
      <4>1. j + 1 \in i + 1 .. m
        BY <1>0, <2>1, <3>2
      <4> QED BY <1>2, <3>2, <4>1 DEF WhatIsLeft
    <3>3. CASE ~full /\ ~(j <= Len(s))
      BY <3>3, EmptySeq DEF WhatIsLeft
    <3> QED BY <3>1, <3>2, <3>3
  <2>6. h \in Seq(B)
    <3>1. Len(g) + 1 \in B
      <4>1. key.full \in Nat
        BY DEF Keying
      <4> DEFINE f == key.full
                 l == Len(g)
      <4>2. f \in Nat /\ f <= n /\ l = j - i /\ j \in i .. m /\ (j - i) + 1 <= f /\ i \in Nat /\ m \in Nat
        BY <1>0, <2>1, <2>2, <4>1, SMTT(20)
      <4> HIDE DEF f, l, j, m
      <4>3. l + 1 \in 0 .. n
        BY <4>2
      <4> QED BY <4>3 DEF l
    <3> DEFINE c == Len(g) + 1
    <3> HIDE DEF c, B
    <3>2. c \in B
      BY <3>1 DEF c
    <3>3. <<c>> \in Seq(B)
      BY <3>2
    <3> QED BY <3>3 DEF c
  <2> HIDE DEF h, g, t, B
  <2>7. (h \o g) \o t \in Seq(B)
    BY <2>2, <2>5, <2>6, ConcatProperties
  <2> QED BY <2>3, <2>7
<1>3. \A i \in 1 .. m : i \in S
  <2> HIDE DEF S, m
  <2> QED BY <1>0, <1>2, FromTheEnd
<1> QED BY <1>0, <1>1, <1>3

\* An encoding starts with its first code and the first byte of the input, unless
\* that is a delimiter.
LEMMA EncodeHead ==
  ASSUME NEW s \in Seq(Nat), NEW key, Keying(key), Len(s) >= 1, s[1] # key.delim
  PROVE  Len(Encode(s, key)) >= 2 /\ Encode(s, key)[2] = s[1]
<1> DEFINE j == GroupEnd(s, 1, key)
           g == SubSeq(s, 1, j - 1)
           h == <<Len(g) + 1>>
           full == FullGroup(j - 1, key)
<1>0. Len(s) \in Nat /\ 1 \in 1 .. Len(s) + 1
  BY LenProperties
<1>1. PICK enc : Encodes(enc, s, key) /\ Encode(s, key) = enc[1]
  BY EncodeIs
<1> DEFINE t == WhatIsLeft(s, key, enc, j, full)
<1>2. /\ j \in 1 .. Len(s) + 1
      /\ j > Len(s) \/ s[j] = key.delim \/ full
  BY <1>0, GroupEnds
<1>3. j # 1
  <2>1. key.full > 1 /\ key.full \in Nat
    BY DEF Keying
  <2>2. ASSUME j = 1 PROVE ~full
    BY <2>1, <2>2 DEF FullGroup
  <2> QED BY <1>0, <1>2, <2>2
<1>4. g \in Seq(Nat) /\ Len(g) = j - 1 /\ g[1] = s[1]
  <2>1. /\ g \in Seq(Nat) /\ Len(g) = j - 1
        /\ \A k \in 1 .. j - 1 : g[k] = s[1 + k - 1]
    BY <1>0, <1>2, Cut
  <2>2. 1 \in 1 .. j - 1
    BY <1>0, <1>2, <1>3
  <2> QED BY <2>1, <2>2
<1>5. enc[1] = (h \o g) \o t
  <2>1. enc[1] = EncodeStep(s, key, enc, 1)
    BY <1>0, <1>1 DEF Encodes
  <2> QED BY <2>1 DEF EncodeStep, WhatIsLeft, Group
<1>6. t \in Seq(Nat)
  <2>1. \A k \in 1 .. Len(s) + 1 : enc[k] \in Seq(Nat)
    BY <1>1, EncodeTypes DEF Coded
  <2>2. j <= Len(s) => j + 1 \in 1 .. Len(s) + 1
    BY <1>0, <1>2
  <2> QED BY <1>2, <2>1, <2>2, EmptySeq DEF WhatIsLeft
<1>7. h \in Seq(Nat) /\ Len(h) = 1
  BY <1>4, LenProperties
<1> HIDE DEF h, g, t
<1>8. /\ h \o g \in Seq(Nat) /\ Len(h \o g) = j /\ (h \o g)[2] = s[1]
  <2>1. /\ h \o g \in Seq(Nat) /\ Len(h \o g) = Len(h) + Len(g)
        /\ \A k \in 1 .. Len(h) + Len(g) : (h \o g)[k] = IF k <= Len(h) THEN h[k] ELSE g[k - Len(h)]
    BY <1>4, <1>7, ConcatProperties
  <2>2. 2 \in 1 .. Len(h) + Len(g) /\ Len(h) + Len(g) = j /\ ~(2 <= Len(h)) /\ 2 - Len(h) = 1
    BY <1>0, <1>2, <1>3, <1>4, <1>7
  <2> QED BY <1>4, <2>1, <2>2
<1> DEFINE v == h \o g
<1> HIDE DEF v
<1>9. /\ Len(v \o t) = j + Len(t)
      /\ \A k \in 1 .. j + Len(t) : (v \o t)[k] = IF k <= j THEN v[k] ELSE t[k - j]
  <2>1. v \in Seq(Nat) /\ Len(v) = j
    BY <1>8 DEF v
  <2>2. /\ Len(v \o t) = Len(v) + Len(t)
        /\ \A k \in 1 .. Len(v) + Len(t) : (v \o t)[k] = IF k <= Len(v) THEN v[k] ELSE t[k - Len(v)]
    BY <1>6, <2>1, ConcatProperties
  <2> HIDE DEF j
  <2> QED BY <2>1, <2>2
<1>10. Len(t) \in Nat
  BY <1>6, LenProperties
<1>11. 2 \in 1 .. j + Len(t) /\ 2 <= j
  BY <1>0, <1>2, <1>3, <1>10
<1>12. Len(v \o t) >= 2 /\ (v \o t)[2] = s[1]
  BY <1>8, <1>9, <1>10, <1>11 DEF v
<1> QED BY <1>1, <1>5, <1>12 DEF v

\* What the bytes are worth.

Byte == 0 .. FF

LEMMA Values ==
  /\ FF \in Nat /\ FE \in Nat /\ FD \in Nat
  /\ FE = FF - 1 /\ FD = FF - 2 /\ FF > 4 /\ Bytes = FF + 1 /\ Bytes \in Nat \ {0}
  /\ Bracket \in 2 .. FD - 1 /\ Bracket \in Printable /\ 1 \notin Printable
  /\ Data \subseteq Byte /\ MaxData \in Nat
  /\ FfKey.delim = FF /\ FfKey.full = FE
  /\ Keying(FfKey) /\ Keying(ZeroKey)
<1>1. /\ FF \in Nat /\ FE \in Nat /\ FD \in Nat
      /\ FE = FF - 1 /\ FD = FF - 2 /\ FF > 4 /\ Bytes = FF + 1 /\ Bytes \in Nat \ {0}
  BY MdioHostAssumption DEF FF, FE, FD
<1>2. Bracket \in 2 .. FD - 1 /\ Bracket \in Printable /\ 1 \notin Printable
  BY <1>1, MdioHostAssumption
<1>3. FfKey.delim = FF /\ FfKey.full = FE /\ ZeroKey.delim = 0 /\ ZeroKey.full = FF
  BY DEF FfKey, ZeroKey
<1>4. Keying(FfKey) /\ Keying(ZeroKey)
  BY <1>1, <1>3 DEF Keying
<1> QED BY <1>1, <1>2, <1>3, <1>4, MdioHostAssumption DEF Byte

\* What emitRecord() writes in front of a payload.
Header(f, n) == <<TypeMdio, FlagByte(f), n % Bytes, n \div Bytes>>

MayFlag(f) == f \in Flags /\ ~(f.continued /\ f.partial)

LEMMA FlagValues ==
  ASSUME NEW f, MayFlag(f), NEW x, x = FlagByte(f)
  PROVE  /\ x \in 0 .. 5
         /\ x % 2 = 1 <=> f.ovf
         /\ (x \div 2) % 2 = 1 <=> f.continued
         /\ x \div 4 = 1 <=> f.partial
<1>1. f.ovf \in BOOLEAN /\ f.continued \in BOOLEAN /\ f.partial \in BOOLEAN
  BY DEF MayFlag, Flags
<1>2. /\ ~f.ovf /\ ~f.continued /\ ~f.partial => x = 0
      /\ f.ovf /\ ~f.continued /\ ~f.partial => x = 1
      /\ ~f.ovf /\ f.continued /\ ~f.partial => x = 2
      /\ f.ovf /\ f.continued /\ ~f.partial => x = 3
      /\ ~f.ovf /\ ~f.continued /\ f.partial => x = 4
      /\ f.ovf /\ ~f.continued /\ f.partial => x = 5
  BY <1>1 DEF FlagByte
<1>3. ~(f.continued /\ f.partial)
  BY DEF MayFlag
<1> QED BY <1>1, <1>2, <1>3

LEMMA RawFacts ==
  ASSUME NEW f, MayFlag(f), NEW p \in Payloads
  PROVE  /\ Raw(f, p) \in Seq(Byte) /\ Raw(f, p) \in Seq(Nat)
         /\ Len(Raw(f, p)) \in Nat
         /\ Len(Raw(f, p)) - HeaderLen = Raw(f, p)[3] + Bytes * Raw(f, p)[4]
         /\ Len(Raw(f, p)) >= HeaderLen
         /\ Raw(f, p)[1] = 1 /\ Raw(f, p)[2] = FlagByte(f)
<1> DEFINE n == Len(p)
           h == Header(f, n)
           r == n % Bytes
           q == n \div Bytes
<1>1. p \in Seq(Byte) /\ n \in Nat /\ n <= MaxData
  <2>1. PICK m \in 0 .. MaxData : p \in [1 .. m -> Data]
    BY DEF Payloads, BoundedSeq, SeqOf
  <2>2. m \in Nat /\ p \in [1 .. m -> Byte]
    BY <2>1, Values
  <2>3. p \in Seq(Byte) /\ Len(p) = m
    BY <2>2
  <2> QED BY <2>1, <2>3, Values
<1>2. r \in Byte /\ q \in Byte /\ n = r + Bytes * q
  <2>1. /\ q \in Int /\ r \in 0 .. Bytes - 1 /\ n = Bytes * q + r
    <3> HIDE DEF n
    <3>1. n \in Int /\ Bytes \in Nat \ {0}
      BY <1>1, Values
    <3> QED BY ONLY <3>1, Divides
  <2> HIDE DEF q, r
  <2>2. Bytes * q \in Int
    BY <2>1, Values
  <2>3. q < Bytes
    <3> SUFFICES ASSUME q >= Bytes PROVE FALSE
      BY <2>1, Values
    <3>1. Bytes * q >= Bytes * Bytes
      <4>1. Bytes * (q - Bytes) >= 0
        BY <2>1, Values
      <4>2. Bytes * (q - Bytes) = Bytes * q - Bytes * Bytes
        BY <2>1, Values
      <4>3. Bytes * Bytes \in Int
        BY Values
      <4> QED BY <2>2, <4>1, <4>2, <4>3
    <3>2. n < Bytes * Bytes
      BY <1>1, MdioHostAssumption
    <3> QED BY <1>1, <2>1, <2>2, <3>1, <3>2, Values
  <2>4. q >= 0
    <3> SUFFICES ASSUME q <= 0 - 1 PROVE FALSE
      BY <2>1
    <3>1. Bytes * (0 - 1 - q) >= 0
      BY <2>1, Values
    <3>2. Bytes * (0 - 1 - q) = (0 - Bytes) - Bytes * q
      BY <2>1, Values
    <3> QED BY <1>1, <2>1, <2>2, <3>1, <3>2, Values
  <2> QED BY <2>1, <2>2, <2>3, <2>4, Values DEF Byte
<1>3. FlagByte(f) \in Byte /\ 1 \in Byte
  <2>1. FlagByte(f) \in 0 .. 5
    BY FlagValues
  <2>2. FF >= 5 /\ FF \in Nat
    BY Values
  <2> QED BY <2>1, <2>2 DEF Byte
<1>4. h = <<1, FlagByte(f), r, q>>
  BY DEF Header, TypeMdio
<1> DEFINE x == FlagByte(f)
<1> HIDE DEF r, q, x, h
<1>5. h \in Seq(Byte) /\ Len(h) = 4 /\ h[1] = 1 /\ h[2] = x /\ h[3] = r /\ h[4] = q
  BY <1>2, <1>3, <1>4 DEF x
<1> HIDE DEF n
<1>6. Raw(f, p) = h \o p
  BY DEF Raw, Header, h, n
<1>7. /\ h \o p \in Seq(Byte) /\ Len(h \o p) = 4 + n
      /\ \A i \in 1 .. 4 + n : (h \o p)[i] = IF i <= 4 THEN h[i] ELSE p[i - 4]
  <2>1. /\ h \o p \in Seq(Byte) /\ Len(h \o p) = Len(h) + Len(p)
        /\ \A i \in 1 .. Len(h) + Len(p) : (h \o p)[i] = IF i <= Len(h) THEN h[i] ELSE p[i - Len(h)]
    BY <1>1, <1>5, ConcatProperties
  <2> QED BY <1>5, <2>1 DEF n
<1>8. \A i \in 1 .. 4 : (h \o p)[i] = h[i]
  BY <1>1, <1>7
<1>9. h \o p \in Seq(Nat)
  <2>1. Byte \subseteq Nat
    BY Values DEF Byte
  <2> QED BY <1>7, <2>1, SeqMonotonic
<1>10. Len(h \o p) \in Nat /\ Len(h \o p) >= HeaderLen
       /\ Len(h \o p) - HeaderLen = n
  BY <1>1, <1>7 DEF HeaderLen
<1>11. (h \o p)[1] = 1 /\ (h \o p)[2] = x /\ (h \o p)[3] = r /\ (h \o p)[4] = q
  <2>1. 1 \in 1 .. 4 /\ 2 \in 1 .. 4 /\ 3 \in 1 .. 4 /\ 4 \in 1 .. 4
    OBVIOUS
  <2> QED BY <1>5, <1>8, <2>1
<1> QED BY <1>2, <1>6, <1>7, <1>9, <1>10, <1>11 DEF x

SegmentType == [kind : {"record", "loss", "meta"}, raw : Seq(Byte), joins : BOOLEAN, torn : BOOLEAN]

WellFormed(g) ==
  /\ g \in SegmentType
  /\ IsBurst(g) => \E f : MayFlag(f) /\ \E p \in Payloads : g.raw = Raw(f, p)
  /\ ~IsBurst(g) => g.raw = <<>>

\* A segment on the link, without the boundary behind it.
Content(g) ==
  IF IsBurst(g) THEN Encode(g.raw, FfKey) ELSE IF IsLoss(g) THEN <<FD>> ELSE <<FE, Bracket, FE>>

\* What the model says of a record's payload.
LEMMA RecordRaw ==
  ASSUME NEW g, WellFormed(g), IsBurst(g)
  PROVE  /\ g.raw \in Seq(Byte) /\ g.raw \in Seq(Nat) /\ Len(g.raw) \in Nat /\ Len(g.raw) >= HeaderLen
         /\ Len(g.raw) - HeaderLen = g.raw[3] + Bytes * g.raw[4]
         /\ g.raw[1] = 1 /\ IsRecord(g.raw)
<1>1. PICK f, p : MayFlag(f) /\ p \in Payloads /\ g.raw = Raw(f, p)
  BY DEF WellFormed
<1>2. /\ g.raw \in Seq(Byte) /\ g.raw \in Seq(Nat) /\ Len(g.raw) \in Nat /\ Len(g.raw) >= HeaderLen
      /\ Len(g.raw) - HeaderLen = g.raw[3] + Bytes * g.raw[4]
      /\ g.raw[1] = 1
  BY <1>1, RawFacts
<1> DEFINE x == Len(g.raw) - HeaderLen
           y == g.raw[3] + Bytes * g.raw[4]
<1>3. x = y /\ x \in Int
  BY <1>2 DEF HeaderLen
<1> HIDE DEF x, y
<1>4. x >= y
  BY <1>3
<1>5. IsRecord(g.raw)
  BY <1>2, <1>4 DEF IsRecord, TypeMdio, x, y
<1> QED BY <1>2, <1>5

LEMMA ContentFacts ==
  ASSUME NEW g, WellFormed(g)
  PROVE  /\ Content(g) \in Seq(Byte) /\ Len(Content(g)) \in Nat /\ Len(Content(g)) >= 1
         /\ \A i \in 1 .. Len(Content(g)) : Content(g)[i] \in Byte /\ Content(g)[i] # FF
         /\ IsBurst(g) => /\ Decode(Content(g), FfKey) = {g.raw}
                          /\ Len(Content(g)) >= 2 /\ Content(g)[2] = 1
<1> DEFINE c == Content(g)
<1>1. CASE IsBurst(g)
  <2> DEFINE s == g.raw
  <2>1. s \in Seq(Byte) /\ s \in Seq(Nat) /\ Len(s) >= 1 /\ s[1] = 1
    BY <1>1, RecordRaw DEF HeaderLen
  <2>2. c = Encode(s, FfKey)
    BY <1>1 DEF Content
  <2> HIDE DEF c, s
  <2>3. s[1] # FfKey.delim
    BY <2>1, Values
  <2>4. c \in Seq(Byte)
    <3>1. s \in Seq(0 .. FF) /\ FF \in Nat /\ FfKey.full <= FF
      BY <2>1, Values DEF Byte
    <3> QED BY <2>2, <3>1, Values, EncodeStays DEF Byte
  <2>5. RoundTrip(s, FfKey)
    BY <2>1, Values, CobsRoundTrip
  <2>6. Decode(c, FfKey) = {s} /\ \A i \in DOMAIN c : c[i] # FF
    BY <2>2, <2>5, Values DEF RoundTrip
  <2>7. Len(c) >= 2 /\ c[2] = 1
    BY <2>1, <2>2, <2>3, Values, EncodeHead
  <2>8. Len(c) \in Nat /\ DOMAIN c = 1 .. Len(c)
    BY <2>4, LenProperties
  <2>9. \A i \in 1 .. Len(c) : c[i] \in Byte
    BY <2>4, ElementOfSeq
  <2>10. Len(c) >= 1
    BY <2>7, <2>8
  <2> QED BY <2>4, <2>6, <2>7, <2>8, <2>9, <2>10 DEF c, s
<1>2. CASE ~IsBurst(g) /\ IsLoss(g)
  <2>1. c = <<FD>>
    BY <1>2 DEF Content
  <2>2. FD \in Byte /\ FD # FF
    BY Values DEF Byte
  <2> HIDE DEF c
  <2>3. c \in Seq(Byte) /\ Len(c) = 1 /\ c[1] = FD
    BY <2>1, <2>2
  <2> QED BY <1>2, <2>2, <2>3 DEF c
<1>3. CASE ~IsBurst(g) /\ ~IsLoss(g)
  <2>1. c = <<FE, Bracket, FE>>
    BY <1>3 DEF Content
  <2>2. FE \in Byte /\ FE # FF /\ Bracket \in Byte /\ Bracket # FF
    BY Values DEF Byte
  <2> HIDE DEF c
  <2>3. c \in Seq(Byte) /\ Len(c) = 3 /\ c[1] = FE /\ c[2] = Bracket /\ c[3] = FE
    BY <2>1, <2>2
  <2> QED BY <1>3, <2>2, <2>3 DEF c
<1> QED BY <1>1, <1>2, <1>3

\* With the boundary.
Size(g) == Len(Content(g)) + 1

\* A frame is its content and a boundary.
LEMMA FrameFacts ==
  ASSUME NEW g, WellFormed(g)
  PROVE  /\ Size(g) \in Nat /\ Size(g) >= 2
         /\ Frame(g) \in Seq(Byte) /\ Len(Frame(g)) = Size(g) /\ DOMAIN Frame(g) = 1 .. Size(g)
         /\ \A i \in 1 .. Size(g) :
              /\ Frame(g)[i] \in Byte
              /\ i = Size(g) => Frame(g)[i] = FF
              /\ i < Size(g) => Frame(g)[i] # FF /\ Frame(g)[i] = Content(g)[i] /\ i \in 1 .. Len(Content(g))
<1> DEFINE c == Content(g)
           n == Len(c)
<1>1. c \in Seq(Byte) /\ n \in Nat /\ n >= 1 /\ FF \in Byte /\ \A i \in 1 .. n : c[i] # FF
  BY ContentFacts, Values DEF Byte
<1>2. Frame(g) = Append(c, FF)
  <2>1. CASE IsBurst(g)
    BY <2>1 DEF Frame, FrameRecord, Content
  <2>2. CASE ~IsBurst(g) /\ IsLoss(g)
    BY <2>2 DEF Frame, FrameLoss, Content
  <2>3. CASE ~IsBurst(g) /\ ~IsLoss(g)
    BY <2>3 DEF Frame, FrameMeta, Content
  <2> QED BY <2>1, <2>2, <2>3
<1> HIDE DEF c
<1>3. /\ Append(c, FF) \in Seq(Byte) /\ Len(Append(c, FF)) = n + 1
      /\ \A i \in 1 .. n : Append(c, FF)[i] = c[i]
      /\ Append(c, FF)[n + 1] = FF
  BY <1>1, AppendProperties
<1>4. DOMAIN Append(c, FF) = 1 .. n + 1
  BY <1>3, LenProperties
<1>5. Size(g) = n + 1
  BY DEF Size, c
<1> HIDE DEF n
<1>6. ASSUME NEW i \in 1 .. n + 1
      PROVE  /\ Append(c, FF)[i] \in Byte
             /\ i = n + 1 => Append(c, FF)[i] = FF
             /\ i < n + 1 => Append(c, FF)[i] # FF /\ Append(c, FF)[i] = c[i] /\ i \in 1 .. n
  <2>1. Append(c, FF)[i] \in Byte
    BY <1>3, ElementOfSeq
  <2>2. i < n + 1 => i \in 1 .. n
    BY <1>1
  <2> QED BY <1>1, <1>3, <2>1, <2>2
<1> QED BY <1>1, <1>2, <1>3, <1>4, <1>5, <1>6 DEF n, c

\* What the page makes of a segment, or of the beginning of one.

WireByte == [b : Byte, of : Nat, at : Nat]

Heard(k, kind, raw) == [of |-> k, kind |-> kind, raw |-> raw]

\* The first n bytes of segment k, whose content is c.
Says(p, k, c, n) ==
  /\ p \in Seq(WireByte) /\ Len(p) = n /\ n \in 1 .. Len(c)
  /\ \A i \in 1 .. n : p[i].b = c[i] /\ p[i].of = k

LEMMA LooksLike ==
  ASSUME NEW p, NEW k, NEW c \in Seq(Byte), NEW n, Says(p, k, c, n)
  PROVE  /\ Looks(p) \in Seq(Byte) /\ Looks(p) \in Seq(Nat) /\ Len(Looks(p)) = n /\ n \in Nat /\ n >= 1
         /\ n <= Len(c)
         /\ Looks(p) # <<>> /\ \A i \in 1 .. n : Looks(p)[i] = c[i]
         /\ p[1].of = k
<1> DEFINE w == Looks(p)
<1>1. DOMAIN p = 1 .. n /\ n \in Nat /\ n >= 1 /\ n <= Len(c)
  BY LenProperties DEF Says
<1>2. \A i \in 1 .. n : p[i].b = c[i] /\ c[i] \in Byte
  BY <1>1, LenProperties, ElementOfSeq DEF Says
<1>3. w = [i \in 1 .. n |-> p[i].b]
  BY <1>1 DEF Looks
<1>4. w \in [1 .. n -> Byte]
  BY <1>2, <1>3
<1> HIDE DEF w
<1>5. w \in Seq(Byte) /\ Len(w) = n
  BY <1>1, <1>4
<1>6. \A i \in 1 .. n : w[i] = c[i]
  BY <1>2, <1>3
<1>7. w # <<>>
  BY <1>1, <1>5, EmptySeq
<1>8. w \in Seq(Nat)
  <2>1. Byte \subseteq Nat
    BY Values DEF Byte
  <2> QED BY <1>5, <2>1, SeqMonotonic
<1>9. p[1].of = k
  BY <1>1 DEF Says
<1> QED BY <1>1, <1>5, <1>6, <1>7, <1>8, <1>9 DEF w

\* A beginning that decodes to a record decodes to the whole of it.
LEMMA RecordWhole ==
  ASSUME NEW g, WellFormed(g), IsBurst(g), NEW d, Copies(d, g.raw, 1), IsRecord(d)
  PROVE  d = g.raw
<1> DEFINE r == g.raw
           n == Len(d)
           m == Len(r)
           x == r[3] + Bytes * r[4]
<1>1. r \in Seq(Nat) /\ m \in Nat /\ m >= 4 /\ m - 4 = x
  BY RecordRaw DEF HeaderLen
<1>2. d \in Seq(Nat) /\ n \in Nat /\ n <= m /\ \A k \in 1 .. n : d[k] = r[(1 + k) - 1]
  BY <1>1, LenProperties DEF Copies
<1>3. n >= 4 /\ n - 4 >= d[3] + Bytes * d[4]
  BY DEF IsRecord, HeaderLen
<1> HIDE DEF r, n, m
<1>4. \A k \in 1 .. n : d[k] = r[k]
  <2> SUFFICES ASSUME NEW k \in 1 .. n PROVE d[k] = r[k]
    OBVIOUS
  <2>1. (1 + k) - 1 = k
    OBVIOUS
  <2> QED BY <1>2, <2>1
<1>5. d[3] = r[3] /\ d[4] = r[4]
  <2>1. 3 \in 1 .. n /\ 4 \in 1 .. n
    BY <1>2, <1>3
  <2> QED BY <1>4, <2>1
<1>6. n - 4 >= x
  BY <1>3, <1>5
<1> HIDE DEF x
<1>7. n = m
  BY <1>1, <1>2, <1>6
<1> QED BY <1>1, <1>2, <1>4, <1>7, SeqEqual DEF r, n, m

\* Decoding what is too short for its first code.
LEMMA NothingDecoded ==
  ASSUME NEW w \in Seq(Nat), Len(w) \in 1 .. 2, w[1] = FE
  PROVE  Decode(w, FfKey) = {}
<1>1. PICK dec : Decodes(dec, w, FfKey) /\ Decode(w, FfKey) = dec[1]
  BY DecodeIs
<1>2. dec[1] = DecodeStep(w, FfKey, dec, 1)
  <2>1. 1 \in 1 .. Len(w) + 1
    OBVIOUS
  <2> QED BY <1>1, <2>1 DEF Decodes
<1>3. ~(1 > Len(w)) /\ 1 + w[1] > Len(w) + 1
  <2> DEFINE n == Len(w)
  <2>1. n \in 1 .. 2 /\ FE \in Nat /\ FE > 3
    BY Values
  <2> HIDE DEF n
  <2>2. ~(1 > n) /\ 1 + FE > n + 1
    BY <2>1
  <2> QED BY <2>2 DEF n
<1> QED BY <1>1, <1>2, <1>3 DEF DecodeStep

LEMMA UnderstoodWhole ==
  ASSUME NEW g, WellFormed(g), NEW k, NEW p, Says(p, k, Content(g), Len(Content(g)))
  PROVE  Understood(p) = {Heard(k, g.kind, g.raw)}
<1> DEFINE w == Looks(p)
           c == Content(g)
<1>1. /\ w \in Seq(Byte) /\ Len(w) = Len(c) /\ w # <<>> /\ \A i \in 1 .. Len(w) : w[i] = c[i]
      /\ p[1].of = k /\ c \in Seq(Byte) /\ Len(c) \in Nat
  BY ContentFacts, LooksLike
<1> HIDE DEF w, c
<1>2. w = c
  BY <1>1, SeqEqual
<1>3. \A kind, raw : Result(p, kind, raw) = Heard(k, kind, raw)
  BY <1>1 DEF Result, Heard
<1>4. CASE IsBurst(g)
  <2>1. Decode(c, FfKey) = {g.raw} /\ Len(c) >= 2 /\ c[2] = 1 /\ IsRecord(g.raw)
    BY <1>4, ContentFacts, RecordRaw DEF c
  <2>2. c # <<FD>>
    BY <2>1
  <2>3. ~IsMeta(c)
    BY <2>1, Values DEF IsMeta
  <2>4. Understood(p) = {Result(p, "record", d) : d \in {d \in Decode(c, FfKey) : IsRecord(d)}}
    BY <1>1, <1>2, <2>2, <2>3 DEF Understood, w
  <2>5. {d \in Decode(c, FfKey) : IsRecord(d)} = {g.raw}
    BY <2>1
  <2>6. Understood(p) = {Result(p, "record", g.raw)}
    BY <2>4, <2>5
  <2> QED BY <1>3, <1>4, <2>6 DEF IsBurst
<1>5. CASE ~IsBurst(g) /\ IsLoss(g)
  <2>1. c = <<FD>> /\ g.raw = <<>>
    BY <1>5 DEF Content, WellFormed, c
  <2>2. Understood(p) = {Result(p, "loss", <<>>)}
    BY <1>1, <1>2, <2>1 DEF Understood, w
  <2> QED BY <1>3, <1>5, <2>1, <2>2 DEF IsLoss
<1>6. CASE ~IsBurst(g) /\ ~IsLoss(g)
  <2>1. c = <<FE, Bracket, FE>> /\ g.raw = <<>> /\ g.kind = "meta"
    BY <1>6 DEF Content, WellFormed, c, SegmentType, IsBurst, IsLoss
  <2>2. Len(c) = 3 /\ c[1] = FE /\ c[2] = Bracket /\ c[3] = FE
    BY <2>1
  <2>3. c # <<FD>> /\ IsMeta(c)
    <3>1. \A i \in 2 .. Len(c) - 1 : i = 2
      BY <2>2
    <3> QED BY <2>2, <3>1, Values DEF IsMeta
  <2>4. Understood(p) = {Result(p, "meta", <<>>)}
    BY <1>1, <1>2, <2>3 DEF Understood, w
  <2> QED BY <1>3, <2>1, <2>4
<1> QED BY <1>4, <1>5, <1>6

LEMMA UnderstoodPart ==
  ASSUME NEW g, WellFormed(g), NEW k, NEW n, NEW p, Says(p, k, Content(g), n)
  PROVE  \/ Understood(p) = {}
         \/ Understood(p) = {Heard(k, g.kind, g.raw)}
         \/ Understood(p) = {Heard(k, "loss", <<>>)}
<1> DEFINE w == Looks(p)
           c == Content(g)
           m == Len(c)
<1>1. /\ w \in Seq(Nat) /\ Len(w) = n /\ w # <<>> /\ \A i \in 1 .. n : w[i] = c[i]
      /\ p[1].of = k /\ c \in Seq(Byte) /\ m \in Nat /\ n \in Nat /\ n >= 1 /\ n <= m
  BY ContentFacts, LooksLike
<1>2. CASE n = m
  BY <1>2, UnderstoodWhole
<1>3. CASE n # m /\ IsBurst(g)
  <2>1. c = Encode(g.raw, FfKey) /\ m >= 2 /\ c[2] = 1 /\ g.raw \in Seq(Nat)
    BY <1>3, ContentFacts, RecordRaw DEF Content
  <2>2. CASE w = <<FD>>
    BY <1>1, <2>2 DEF Understood, Result, Heard
  <2>3. CASE w # <<FD>>
    <3>1. ~IsMeta(w)
      <4> SUFFICES ASSUME IsMeta(w) PROVE FALSE
        OBVIOUS
      <4>1. n >= 3 /\ w[2] = Bracket
        BY <1>1 DEF IsMeta
      <4>2. w[2] = 1
        <5>1. 2 \in 1 .. n
          BY <1>1, <4>1
        <5> QED BY <1>1, <2>1, <5>1
      <4> QED BY <4>1, <4>2, Values
    <3>2. ASSUME NEW d \in Decode(w, FfKey), IsRecord(d) PROVE d = g.raw
      <4>1. Copies(d, g.raw, 1)
        <5>1. Len(w) <= Len(Encode(g.raw, FfKey)) /\ \A i \in 1 .. Len(w) : w[i] = Encode(g.raw, FfKey)[i]
          BY <1>1, <2>1
        <5> QED BY <1>1, <2>1, <5>1, Values, CutShort
      <4> QED BY <1>3, <3>2, <4>1, RecordWhole
    <3> DEFINE D == {d \in Decode(w, FfKey) : IsRecord(d)}
    <3>3. D = {} \/ D = {g.raw}
      BY <3>2
    <3>4. Understood(p) = {Result(p, "record", d) : d \in D}
      BY <1>1, <2>3, <3>1 DEF Understood
    <3> HIDE DEF D
    <3>5. Understood(p) = {} \/ Understood(p) = {Result(p, "record", g.raw)}
      BY <3>3, <3>4
    <3> QED BY <1>1, <1>3, <3>5 DEF IsBurst, Result, Heard
  <2> QED BY <2>2, <2>3
<1>4. CASE n # m /\ ~IsBurst(g) /\ IsLoss(g)
  <2>1. c = <<FD>>
    BY <1>4 DEF Content
  <2>2. m = 1
    BY <2>1
  <2> HIDE DEF m
  <2> QED BY <1>1, <1>4, <2>2
<1>5. CASE n # m /\ ~IsBurst(g) /\ ~IsLoss(g)
  <2>1. c = <<FE, Bracket, FE>>
    BY <1>5 DEF Content
  <2>2. m = 3 /\ c[1] = FE
    BY <2>1
  <2> HIDE DEF m
  <2>3. n \in 1 .. 2
    BY <1>1, <1>5, <2>2
  <2>4. w[1] = FE
    BY <1>1, <2>2, <2>3
  <2>5. Decode(w, FfKey) = {}
    BY <1>1, <2>3, <2>4, NothingDecoded
  <2>6. w # <<FD>> /\ ~IsMeta(w)
    <3>1. w # <<FD>>
      BY <2>4, Values
    <3> QED BY <1>1, <2>3, <3>1 DEF IsMeta
  <2>7. Understood(p) = {Result(p, "record", d) : d \in {d \in Decode(w, FfKey) : IsRecord(d)}}
    BY <1>1, <2>6 DEF Understood
  <2> QED BY <2>5, <2>7
<1> QED BY <1>2, <1>3, <1>4, <1>5

\* Parts of sequences.

LEMMA BehindFacts ==
  ASSUME NEW S, NEW s \in Seq(S), NEW n \in 0 .. Len(s)
  PROVE  /\ Behind(s, n) \in Seq(S) /\ Len(Behind(s, n)) = Len(s) - n
         /\ \A i \in 1 .. Len(s) - n : Behind(s, n)[i] = s[n + i]
<1> DEFINE m == Len(s)
           u == SubSeq(s, n + 1, m)
<1>1. m \in Nat /\ n \in Int
  BY LenProperties
<1>2. \A i \in n + 1 .. m : s[i] \in S
  BY <1>1, ElementOfSeq
<1>3. /\ u \in Seq(S)
      /\ Len(u) = IF n + 1 <= m THEN m - (n + 1) + 1 ELSE 0
      /\ \A i \in 1 .. m - (n + 1) + 1 : u[i] = s[(n + 1) + i - 1]
  <2>1. n + 1 \in Int /\ m \in Int
    BY <1>1
  <2> HIDE DEF m
  <2> QED BY <1>2, <2>1, SubSeqProperties
<1> HIDE DEF m, u
<1>4. Len(u) = m - n
  BY <1>1, <1>3 DEF m
<1>5. \A i \in 1 .. m - n : u[i] = s[n + i]
  <2> SUFFICES ASSUME NEW i \in 1 .. m - n PROVE u[i] = s[n + i]
    OBVIOUS
  <2>1. i \in 1 .. m - (n + 1) + 1 /\ (n + 1) + i - 1 = n + i
    BY <1>1
  <2> QED BY <1>3, <2>1
<1> QED BY <1>3, <1>4, <1>5 DEF Behind, u, m

LEMMA BehindBehind ==
  ASSUME NEW S, NEW s \in Seq(S), NEW a \in 0 .. Len(s), NEW b \in 0 .. Len(s) - a
  PROVE  Behind(Behind(s, a), b) = Behind(s, a + b)
<1> DEFINE m == Len(s)
           t == Behind(s, a)
           u == Behind(t, b)
           v == Behind(s, a + b)
<1>0. m \in Nat /\ a \in Int /\ b \in Int /\ a + b \in 0 .. m
  BY LenProperties
<1>1. t \in Seq(S) /\ Len(t) = m - a /\ \A i \in 1 .. m - a : t[i] = s[a + i]
  BY BehindFacts
<1>2. v \in Seq(S) /\ Len(v) = m - (a + b) /\ \A i \in 1 .. m - (a + b) : v[i] = s[(a + b) + i]
  BY <1>0, BehindFacts
<1> HIDE DEF t
<1>3. u \in Seq(S) /\ Len(u) = Len(t) - b /\ \A i \in 1 .. Len(t) - b : u[i] = t[b + i]
  <2>1. t \in Seq(S) /\ b \in 0 .. Len(t)
    BY <1>1
  <2> QED BY <2>1, BehindFacts
<1> HIDE DEF u, v, m
<1>4. Len(u) = Len(v)
  BY <1>0, <1>1, <1>2, <1>3
<1>5. ASSUME NEW i \in 1 .. Len(u) PROVE u[i] = v[i]
  <2>1. i \in 1 .. Len(t) - b /\ b + i \in 1 .. m - a /\ i \in 1 .. m - (a + b) /\ a + (b + i) = (a + b) + i
    BY <1>0, <1>1, <1>3, SMTT(20) DEF m
  <2> QED BY <1>1, <1>2, <1>3, <2>1
<1> QED BY <1>2, <1>3, <1>4, <1>5, SeqEqual DEF u, v, t

LEMMA BehindConcat ==
  ASSUME NEW S, NEW s \in Seq(S), NEW t \in Seq(S), NEW n \in 0 .. Len(s)
  PROVE  Behind(s \o t, n) = Behind(s, n) \o t
<1> DEFINE m == Len(s)
           l == Len(t)
           st == s \o t
           u == Behind(st, n)
           b == Behind(s, n)
           v == b \o t
<1>0. m \in Nat /\ l \in Nat /\ n \in Int
  BY LenProperties
<1>1. /\ st \in Seq(S) /\ Len(st) = m + l
      /\ \A i \in 1 .. m + l : st[i] = IF i <= m THEN s[i] ELSE t[i - m]
  BY ConcatProperties
<1>2. b \in Seq(S) /\ Len(b) = m - n /\ \A i \in 1 .. m - n : b[i] = s[n + i]
  BY BehindFacts
<1> HIDE DEF st, b
<1>3. /\ u \in Seq(S) /\ Len(u) = Len(st) - n /\ \A i \in 1 .. Len(st) - n : u[i] = st[n + i]
  <2>1. n \in 0 .. Len(st)
    BY <1>0, <1>1
  <2> QED BY <1>1, <2>1, BehindFacts
<1>4. /\ v \in Seq(S) /\ Len(v) = Len(b) + l
      /\ \A i \in 1 .. Len(b) + l : v[i] = IF i <= Len(b) THEN b[i] ELSE t[i - Len(b)]
  BY <1>2, ConcatProperties
<1> HIDE DEF u, v, m, l
<1>5. Len(u) = Len(v)
  BY <1>0, <1>1, <1>2, <1>3, <1>4
<1>6. ASSUME NEW i \in 1 .. Len(u) PROVE u[i] = v[i]
  <2>1. /\ i \in 1 .. Len(st) - n /\ n + i \in 1 .. m + l /\ i \in 1 .. Len(b) + l
        /\ n + i <= m <=> i <= Len(b)
        /\ (n + i) - m = i - Len(b)
    BY <1>0, <1>1, <1>2, <1>3 DEF m
  <2>2. u[i] = IF i <= Len(b) THEN s[n + i] ELSE t[i - Len(b)]
    BY <1>1, <1>3, <2>1
  <2>3. i <= Len(b) => i \in 1 .. m - n
    BY <1>0, <1>2, <2>1
  <2> QED BY <1>2, <1>4, <2>1, <2>2, <2>3
<1> QED BY <1>3, <1>4, <1>5, <1>6, SeqEqual DEF u, v, st, b

\* A beginning of a sequence.
LEMMA FrontFacts ==
  ASSUME NEW S, NEW s \in Seq(S), NEW n \in 0 .. Len(s)
  PROVE  /\ SubSeq(s, 1, n) \in Seq(S) /\ Len(SubSeq(s, 1, n)) = n
         /\ \A i \in 1 .. n : SubSeq(s, 1, n)[i] = s[i]
         /\ SubSeq(s, 1, n) \o Behind(s, n) = s
<1> DEFINE m == Len(s)
           u == SubSeq(s, 1, n)
<1>1. m \in Nat /\ n \in Int /\ n >= 0 /\ n <= m
  BY LenProperties
<1>2. \A i \in 1 .. n : s[i] \in S
  BY <1>1, ElementOfSeq
<1>3. /\ u \in Seq(S)
      /\ Len(u) = IF 1 <= n THEN n - 1 + 1 ELSE 0
      /\ \A i \in 1 .. n - 1 + 1 : u[i] = s[1 + i - 1]
  <2>1. 1 \in Int /\ n \in Int
    BY <1>1
  <2> QED BY <1>2, <2>1, SubSeqProperties
<1> HIDE DEF u
<1>4. Len(u) = n
  BY <1>1, <1>3
<1>5. \A i \in 1 .. n : u[i] = s[i]
  <2> SUFFICES ASSUME NEW i \in 1 .. n PROVE u[i] = s[i]
    OBVIOUS
  <2>1. i \in 1 .. n - 1 + 1 /\ 1 + i - 1 = i
    BY <1>1
  <2> QED BY <1>3, <2>1
<1>6. u \o Behind(s, n) = s
  <2>1. 1 \in 1 .. Len(s) + 1 /\ n \in 1 - 1 .. Len(s) /\ Len(s) \in n .. Len(s)
    BY <1>1
  <2>2. SubSeq(s, 1, n) \o SubSeq(s, n + 1, Len(s)) = SubSeq(s, 1, Len(s))
    BY <2>1, ConcatAdjacentSubSeq
  <2> QED BY <2>2, SubSeqFull DEF u, Behind
<1> QED BY <1>3, <1>4, <1>5, <1>6 DEF u

\* What is on its way: the bytes of the segments, one after the other.

Segments(sg) == sg \in Seq(SegmentType) /\ \A k \in 1 .. Len(sg) : WellFormed(sg[k])

\* The boundary that ends its segment.
Ends(sg, x) == x.at = Size(sg[x.of])

Placed(sg, x) ==
  /\ x \in WireByte /\ x.of \in 1 .. Len(sg) /\ x.at \in 0 .. Size(sg[x.of])
  /\ x.b = IF x.at = 0 THEN FF ELSE Frame(sg[x.of])[x.at]

Precedes(x, y) == x.of < y.of \/ (x.of = y.of /\ x.at < y.at)

\* y is the next byte of the segment, or the first of the next one, or the boundary in
\* front of a later one, what is missing in between having been torn; then a seam
\* says so.
Leads(sg, x, y) ==
  /\ y.of > x.of /\ y.at = 0
  /\ Ends(sg, x) \/ sg[x.of].torn
  /\ \A k \in x.of + 1 .. y.of - 1 : sg[k].torn
  /\ (Ends(sg, x) /\ y.of = x.of + 1) \/ IsLoss(sg[y.of])

NextTo(sg, x, y) ==
  \/ y.of = x.of /\ y.at = x.at + 1
  \/ y.of = x.of + 1 /\ y.at = 1 /\ Ends(sg, x)
  \/ Leads(sg, x, y)

EndIn(sg, c, k) == \E i \in 1 .. Len(c) : c[i].of = k /\ Ends(sg, c[i])

Laid(sg, c) == \A i \in 1 .. Len(c) : Placed(sg, c[i])
Linked(sg, c) == \A i \in 1 .. Len(c) - 1 : NextTo(sg, c[i], c[i + 1])
Ordered(c) == \A i \in 1 .. Len(c) : \A j \in 1 .. Len(c) : i < j => Precedes(c[i], c[j])
Covered(sg, c) == \A k \in 1 .. Len(sg) : c # <<>> /\ k >= c[1].of /\ ~sg[k].torn => EndIn(sg, c, k)

Strand(sg, c) ==
  c \in Seq(WireByte) /\ Laid(sg, c) /\ Linked(sg, c) /\ Ordered(c) /\ Covered(sg, c)

LEMMA PlacedFacts ==
  ASSUME NEW sg, Segments(sg), NEW x, Placed(sg, x)
  PROVE  /\ WellFormed(sg[x.of]) /\ x.of \in Nat /\ x.at \in Nat
         /\ Size(sg[x.of]) \in Nat /\ Size(sg[x.of]) >= 2 /\ x.at <= Size(sg[x.of])
         /\ x.b = FF <=> x.at = 0 \/ Ends(sg, x)
         /\ x.b # FF => x.at \in 1 .. Len(Content(sg[x.of])) /\ x.b = Content(sg[x.of])[x.at]
<1> DEFINE g == sg[x.of]
           m == Size(g)
           i == x.at
<1>1. WellFormed(g) /\ x.of \in Nat /\ i \in 0 .. m /\ x.b = IF i = 0 THEN FF ELSE Frame(g)[i]
  BY DEF Placed, Segments, WireByte
<1>2. m \in Nat /\ m >= 2
  BY <1>1, FrameFacts
<1>3. /\ \A j \in 1 .. m :
           /\ j = m => Frame(g)[j] = FF
           /\ j < m => Frame(g)[j] # FF /\ Frame(g)[j] = Content(g)[j] /\ j \in 1 .. Len(Content(g))
  BY <1>1, FrameFacts
<1> HIDE DEF m, g
<1>4. CASE i = 0
  BY <1>1, <1>2, <1>4 DEF Ends, m, g
<1>5. CASE i # 0
  <2>1. i \in 1 .. m /\ (i = m \/ i < m)
    BY <1>1, <1>2, <1>5
  <2>2. i = m <=> Ends(sg, x)
    BY DEF Ends, m, g
  <2>3. x.b = Frame(g)[i]
    BY <1>1, <1>5
  <2>4. i = m => x.b = FF
    BY <1>3, <2>1, <2>3
  <2>5. i < m => x.b # FF /\ x.b = Content(g)[i] /\ i \in 1 .. Len(Content(g))
    BY <1>3, <2>1, <2>3
  <2> QED BY <1>1, <1>2, <1>5, <2>1, <2>2, <2>4, <2>5 DEF m, g
<1> QED BY <1>4, <1>5

\* The end of a segment comes before whatever does not precede the segment.
LEMMA EndFirst ==
  ASSUME NEW sg, Segments(sg), NEW c, Strand(sg, c), NEW i \in 1 .. Len(c), NEW j \in 1 .. Len(c),
         c[i].of >= c[j].of, Ends(sg, c[i])
  PROVE  j <= i
<1> DEFINE x == c[i]
           y == c[j]
<1>1. Placed(sg, x) /\ Placed(sg, y)
  BY DEF Strand, Laid
<1>2. i < j => Precedes(x, y)
  BY DEF Strand, Ordered
<1>3. /\ x.of \in Nat /\ y.of \in Nat /\ x.at = Size(sg[x.of]) /\ y.at <= Size(sg[y.of])
      /\ x.at \in Nat /\ y.at \in Nat /\ x.of >= y.of
  BY <1>1, PlacedFacts DEF Ends
<1> HIDE DEF x, y
<1>4. ~Precedes(x, y)
  BY <1>3 DEF Precedes
<1>5. Len(c) \in Nat
  BY LenProperties DEF Strand
<1> QED BY <1>2, <1>4, <1>5

LEMMA StrandBehind ==
  ASSUME NEW sg, Segments(sg), NEW c, Strand(sg, c), NEW n \in 0 .. Len(c)
  PROVE  Strand(sg, Behind(c, n))
<1> DEFINE d == Behind(c, n)
           m == Len(c)
<1>0. c \in Seq(WireByte) /\ m \in Nat /\ n \in Nat /\ n <= m
  BY LenProperties DEF Strand
<1>1. d \in Seq(WireByte) /\ Len(d) = m - n /\ \A i \in 1 .. m - n : d[i] = c[n + i]
  BY <1>0, BehindFacts
<1> HIDE DEF d
<1>2. Laid(sg, d)
  <2> SUFFICES ASSUME NEW i \in 1 .. m - n PROVE Placed(sg, d[i])
    BY <1>1 DEF Laid
  <2>1. n + i \in 1 .. m
    BY <1>0
  <2> QED BY <1>1, <2>1 DEF Strand, Laid
<1>3. Linked(sg, d)
  <2> SUFFICES ASSUME NEW i \in 1 .. (m - n) - 1 PROVE NextTo(sg, d[i], d[i + 1])
    BY <1>1 DEF Linked
  <2>1. n + i \in 1 .. m - 1 /\ i \in 1 .. m - n /\ i + 1 \in 1 .. m - n /\ n + (i + 1) = (n + i) + 1
    BY <1>0
  <2>2. d[i] = c[n + i] /\ d[i + 1] = c[(n + i) + 1]
    <3> HIDE DEF m
    <3>1. d[i] = c[n + i]
      BY <1>1, <2>1
    <3>2. d[i + 1] = c[n + (i + 1)]
      BY <1>1, <2>1
    <3> QED BY <2>1, <3>1, <3>2
  <2> QED BY <2>1, <2>2 DEF Strand, Linked
<1>4. Ordered(d)
  <2> SUFFICES ASSUME NEW i \in 1 .. m - n, NEW j \in 1 .. m - n, i < j PROVE Precedes(d[i], d[j])
    BY <1>1 DEF Ordered
  <2>1. n + i \in 1 .. m /\ n + j \in 1 .. m /\ n + i < n + j
    BY <1>0
  <2>2. d[i] = c[n + i] /\ d[j] = c[n + j]
    BY <1>1
  <2> QED BY <2>1, <2>2 DEF Strand, Ordered
<1>5. Covered(sg, d)
  <2> SUFFICES ASSUME NEW k \in 1 .. Len(sg), d # <<>>, k >= d[1].of, ~sg[k].torn PROVE EndIn(sg, d, k)
    BY DEF Covered
  <2>1. n < m /\ d[1] = c[n + 1] /\ n + 1 \in 1 .. m
    <3>1. Len(d) # 0
      BY <1>1, EmptySeq
    <3>2. n < m
      BY <1>0, <1>1, <3>1
    <3>3. 1 \in 1 .. m - n /\ n + 1 \in 1 .. m
      BY <1>0, <3>2
    <3> QED BY <1>1, <3>2, <3>3
  <2>2. c # <<>> /\ c[1].of \in Nat /\ c[1].of <= c[n + 1].of /\ c[n + 1].of \in Nat /\ k >= c[n + 1].of
    <3>1. c # <<>> /\ 1 \in 1 .. m
      BY <1>0, <2>1, EmptySeq
    <3>2. c[1].of \in Nat /\ c[n + 1].of \in Nat
      BY <2>1, <3>1, PlacedFacts DEF Strand, Laid
    <3>3. n + 1 = 1 \/ Precedes(c[1], c[n + 1])
      <4>1. n + 1 = 1 \/ 1 < n + 1
        BY <1>0
      <4> QED BY <2>1, <3>1, <4>1 DEF Strand, Ordered
    <3> QED BY <2>1, <3>1, <3>2, <3>3 DEF Precedes
  <2>3. PICK i \in 1 .. m : c[i].of = k /\ Ends(sg, c[i])
    <3>1. k >= c[1].of
      BY <2>2
    <3> QED BY <2>2, <3>1 DEF Strand, Covered, EndIn
  <2>4. n + 1 <= i
    BY <2>1, <2>2, <2>3, EndFirst
  <2>5. i - n \in 1 .. m - n /\ d[i - n] = c[i]
    <3>1. i - n \in 1 .. m - n /\ n + (i - n) = i
      BY <1>0, <2>4
    <3> QED BY <1>1, <3>1
  <2> QED BY <1>1, <2>3, <2>5 DEF EndIn
<1> QED BY <1>1, <1>2, <1>3, <1>4, <1>5 DEF Strand, d

\* What holds of every place before which it holds everywhere holds everywhere.
LEMMA FromTheStart ==
  ASSUME NEW S, NEW m \in Nat,
         \A i \in 1 .. m : (\A k \in 1 .. i - 1 : k \in S) => i \in S
  PROVE  \A i \in 1 .. m : i \in S
<1> DEFINE T == {i \in 1 .. m : i \notin S}
<1> SUFFICES ASSUME NEW i \in 1 .. m, i \notin S PROVE FALSE
  OBVIOUS
<1>1. T \in SUBSET Nat /\ i \in T
  OBVIOUS
<1>2. PICK n \in T : \A y \in T : n <= y
  <2> HIDE DEF T
  <2> QED BY <1>1, Least
<1>3. \A k \in 1 .. n - 1 : k \in S
  <2> SUFFICES ASSUME NEW k \in 1 .. n - 1, k \notin S PROVE FALSE
    OBVIOUS
  <2>1. k \in 1 .. m /\ ~(n <= k)
    BY <1>2
  <2> QED BY <1>2, <2>1
<1> QED BY <1>2, <1>3

\* Without a boundary, bytes on the link are of one segment.
LEMMA SameSegment ==
  ASSUME NEW sg, Segments(sg), NEW c, Strand(sg, c),
         NEW n \in 0 .. Len(c), \A i \in 1 .. n : c[i].b # FF
  PROVE  \A i \in 1 .. n : c[i].of = c[1].of /\ c[i].at = c[1].at + (i - 1)
<1> DEFINE S == {i \in 1 .. n : c[i].of = c[1].of /\ c[i].at = c[1].at + (i - 1)}
<1>0. Len(c) \in Nat /\ n \in Nat /\ n <= Len(c)
  BY LenProperties DEF Strand
<1>1. ASSUME NEW i \in 1 .. n, \A k \in 1 .. i - 1 : k \in S PROVE i \in S
  <2> DEFINE x == c[i - 1]
             y == c[i]
  <2>1. CASE i = 1
    <3>1. c[1].at \in Nat
      <4>1. 1 \in 1 .. Len(c)
        BY <1>0, <2>1
      <4> QED BY <4>1, PlacedFacts DEF Strand, Laid
    <3> QED BY <2>1, <3>1
  <2>2. CASE i # 1
    <3>1. i - 1 \in 1 .. n /\ i - 1 \in S /\ i - 1 \in 1 .. Len(c) - 1 /\ (i - 1) + 1 = i
          /\ i - 1 \in 1 .. Len(c) /\ i \in 1 .. Len(c) /\ 1 \in 1 .. Len(c)
      BY <1>0, <1>1, <2>2
    <3>2. NextTo(sg, x, y)
      BY <3>1 DEF Strand, Linked
    <3>3. Placed(sg, x) /\ Placed(sg, y) /\ x.b # FF /\ y.b # FF /\ Placed(sg, c[1])
      BY <3>1 DEF Strand, Laid
    <3>4. ~Ends(sg, x) /\ y.at # 0
      BY <3>3, PlacedFacts
    <3>5. y.of = x.of /\ y.at = x.at + 1
      BY <3>2, <3>4 DEF NextTo, Leads
    <3>6. x.of = c[1].of /\ x.at = c[1].at + ((i - 1) - 1) /\ c[1].at \in Nat
      BY <3>1, <3>3, PlacedFacts
    <3> HIDE DEF x, y
    <3>7. y.of = c[1].of /\ y.at = c[1].at + (i - 1)
      BY <3>5, <3>6
    <3> QED BY <3>7 DEF y
  <2> QED BY <2>1, <2>2
<1>2. \A i \in 1 .. n : i \in S
  <2> HIDE DEF S
  <2> QED BY <1>0, <1>1, FromTheStart
<1> QED BY <1>2

AtStart(c) == c # <<>> => c[1].at \in {0, 1}

\* j is the first boundary of c.
FirstBoundary(c, j) ==
  /\ j \in 1 .. Len(c) /\ c[j].b = FF /\ \A i \in 1 .. j - 1 : c[i].b # FF

\* ... and c starts with it, or with a whole segment, or with what is left of a torn one.
LEMMA PieceEnds ==
  ASSUME NEW sg, Segments(sg), NEW c, Strand(sg, c), AtStart(c), NEW j, FirstBoundary(c, j)
  PROVE  LET k == c[1].of
             g == sg[k]
             p == SubSeq(c, 1, j - 1)
         IN
         /\ k \in 1 .. Len(sg) /\ WellFormed(g) /\ j \in 1 .. Len(c)
         /\ \/ j = 1 /\ c[j].at = 0 /\ p = <<>>
            \/ /\ Says(p, k, Content(g), Len(Content(g)))
               /\ c[j].of = k /\ Ends(sg, c[j])
            \/ /\ Says(p, k, Content(g), j - 1)
               /\ g.torn /\ c[j].of > k /\ c[j].at = 0 /\ IsLoss(sg[c[j].of])
<1> DEFINE k == c[1].of
           g == sg[k]
           p == SubSeq(c, 1, j - 1)
           n == j - 1
<1>0. /\ c \in Seq(WireByte) /\ Len(c) \in Nat /\ j \in 1 .. Len(c) /\ 1 \in 1 .. Len(c)
      /\ n \in Nat /\ n \in 0 .. Len(c) /\ c[j].b = FF /\ \A i \in 1 .. n : c[i].b # FF
      /\ n + 1 = j
  BY LenProperties DEF Strand, FirstBoundary
<1>1. Placed(sg, c[1]) /\ Placed(sg, c[j]) /\ k \in 1 .. Len(sg) /\ WellFormed(g)
  BY <1>0, PlacedFacts DEF Strand, Laid, Placed
<1>2. p \in Seq(WireByte) /\ Len(p) = n /\ \A i \in 1 .. n : p[i] = c[i]
  BY <1>0, FrontFacts
<1>3. c[1].at \in {0, 1}
  <2>1. c # <<>>
    BY <1>0, EmptySeq
  <2> QED BY <2>1 DEF AtStart
<1>4. Size(g) \in Nat /\ Size(g) >= 2 /\ Size(g) = Len(Content(g)) + 1 /\ Len(Content(g)) \in Nat
  BY <1>1, FrameFacts, ContentFacts DEF Size
<1>5. CASE j = 1
  <2>1. c[1].at = 0
    <3>1. c[1].at = 0 \/ Ends(sg, c[1])
      BY <1>0, <1>1, <1>5, PlacedFacts
    <3> QED BY <1>3, <1>4, <3>1 DEF Ends
  <2>2. p = <<>>
    BY <1>5, SubSeqEmpty
  <2> QED BY <1>0, <1>1, <1>5, <2>1, <2>2
<1>6. CASE j # 1
  <2> DEFINE x == c[n]
             y == c[j]
  <2>0. n \in 1 .. n /\ 1 \in 1 .. n /\ n \in 1 .. Len(c) /\ n \in 1 .. Len(c) - 1
    BY <1>0, <1>6
  <2>1. c[1].at = 1
    <3>1. c[1].b # FF
      BY <1>0, <2>0
    <3> QED BY <1>1, <1>3, <3>1, PlacedFacts
  <2>2. \A i \in 1 .. n : c[i].of = k /\ c[i].at = i
    <3>0. n \in 0 .. Len(c) /\ \A i \in 1 .. n : c[i].b # FF
      BY <1>0
    <3>1. \A i \in 1 .. n : c[i].of = k /\ c[i].at = 1 + (i - 1)
      <4> HIDE DEF n
      <4>1. \A i \in 1 .. n : c[i].of = c[1].of /\ c[i].at = c[1].at + (i - 1)
        BY <3>0, SameSegment
      <4> QED BY <2>1, <4>1
    <3>2. \A i \in 1 .. n : 1 + (i - 1) = i
      OBVIOUS
    <3> QED BY <3>1, <3>2
  <2>3. \A i \in 1 .. n : i \in 1 .. Len(Content(g)) /\ c[i].b = Content(g)[i]
    <3> SUFFICES ASSUME NEW i \in 1 .. n PROVE i \in 1 .. Len(Content(g)) /\ c[i].b = Content(g)[i]
      OBVIOUS
    <3>1. i \in 1 .. Len(c)
      BY <1>0
    <3>2. Placed(sg, c[i]) /\ c[i].b # FF /\ c[i].of = k /\ c[i].at = i
      BY <1>0, <2>2, <3>1 DEF Strand, Laid
    <3> QED BY <3>2, PlacedFacts
  <2>4. Says(p, k, Content(g), n)
    <3>1. n \in 1 .. Len(Content(g))
      BY <2>0, <2>3
    <3> QED BY <1>2, <2>2, <2>3, <3>1 DEF Says
  <2>5. x.of = k /\ x.at = n /\ ~Ends(sg, x)
    <3>1. x.of = k /\ x.at = n
      BY <2>0, <2>2
    <3>2. Placed(sg, x) /\ x.b # FF
      BY <1>0, <2>0 DEF Strand, Laid
    <3> QED BY <3>1, <3>2, PlacedFacts
  <2>6. NextTo(sg, x, y)
    BY <1>0, <2>0 DEF Strand, Linked
  <2>7. y.at = 0 \/ Ends(sg, y)
    BY <1>0, <1>1, PlacedFacts
  <2>8. CASE y.of = x.of /\ y.at = x.at + 1
    <3>1. y.of = k /\ y.at = j /\ Ends(sg, y)
      BY <1>0, <2>5, <2>7, <2>8
    <3>2. j = Size(g)
      BY <3>1 DEF Ends
    <3> DEFINE m == Len(Content(g))
    <3>3. n = m
      <4> HIDE DEF m, g
      <4>1. j = m + 1 /\ m \in Nat /\ n + 1 = j /\ n \in Nat
        BY <1>0, <1>4, <3>2 DEF m
      <4> HIDE DEF n
      <4> QED BY <4>1
    <3> QED BY <1>0, <1>1, <2>4, <3>1, <3>3
  <2>9. CASE Leads(sg, x, y)
    <3>1. y.of > k /\ y.at = 0 /\ g.torn /\ IsLoss(sg[y.of])
      BY <2>5, <2>9 DEF Leads
    <3> QED BY <1>0, <1>1, <2>4, <3>1
  <2> QED BY <2>5, <2>6, <2>8, <2>9 DEF NextTo
<1> QED BY <1>5, <1>6

Near(sg, a, b) == b = a + 1 \/ IsLoss(sg[b])

\* What stands behind a boundary.
LEMMA AfterBoundary ==
  ASSUME NEW sg, Segments(sg), NEW c, Strand(sg, c), NEW j \in 1 .. Len(c) - 1, c[j].b = FF
  PROVE  LET x == c[j]
             y == c[j + 1]
         IN
         /\ y.at \in {0, 1}
         /\ x.at = 0 => y.of = x.of \/ (y.of > x.of /\ IsLoss(sg[y.of]))
         /\ Ends(sg, x) => y.of > x.of /\ Near(sg, x.of, y.of)
<1> DEFINE x == c[j]
           y == c[j + 1]
<1>0. Len(c) \in Nat /\ j \in 1 .. Len(c) /\ j + 1 \in 1 .. Len(c)
  BY LenProperties DEF Strand
<1>1. Placed(sg, x) /\ Placed(sg, y) /\ NextTo(sg, x, y)
  BY <1>0 DEF Strand, Laid, Linked
<1>2. /\ x.at = 0 \/ Ends(sg, x)
      /\ x.of \in Nat /\ y.of \in Nat /\ Size(sg[x.of]) \in Nat /\ Size(sg[x.of]) >= 2
      /\ y.at <= Size(sg[y.of]) /\ x.at \in Nat /\ y.at \in Nat
  BY <1>1, PlacedFacts
<1>3. ~(x.at = 0 /\ Ends(sg, x))
  BY <1>2 DEF Ends
<1> HIDE DEF x, y
<1>4. CASE y.of = x.of /\ y.at = x.at + 1
  <2>1. ~Ends(sg, x)
    BY <1>2, <1>4 DEF Ends
  <2>2. x.at = 0 /\ y.at = 1
    BY <1>2, <1>4, <2>1
  <2> QED BY <1>4, <2>1, <2>2 DEF x, y
<1>5. CASE y.of = x.of + 1 /\ y.at = 1 /\ Ends(sg, x)
  <2>1. y.of > x.of /\ Near(sg, x.of, y.of)
    BY <1>2, <1>5 DEF Near
  <2> QED BY <1>3, <1>5, <2>1 DEF x, y
<1>6. CASE Leads(sg, x, y)
  <2>1. y.of > x.of /\ y.at = 0 /\ Near(sg, x.of, y.of)
    BY <1>6 DEF Leads, Near
  <2>2. ~Ends(sg, x) => IsLoss(sg[y.of])
    BY <1>6 DEF Leads
  <2> QED BY <1>3, <2>1, <2>2 DEF x, y
<1> QED BY <1>1, <1>4, <1>5, <1>6 DEF NextTo

\* What the page has understood, and what is still to come.

Entry == [of : Nat, kind : {"record", "loss", "meta"}, raw : Seq(Byte)]

FaithfulTo(sg, r) ==
  LET framed == sg[r.of] IN
  \/ r.kind = framed.kind /\ r.raw = framed.raw
  \/ framed.torn /\ r.kind = "loss"

\* Segment b comes next: the one behind r, which was understood for what it is, or a seam.
Succeeds(sg, r, b) == IsLoss(sg[b]) \/ (b = r.of + 1 /\ r.kind = sg[r.of].kind)

Reported(q, k) == \E i \in 1 .. Len(q) : q[i].of = k

Known(sg, q) == \A i \in 1 .. Len(q) : q[i] \in Entry /\ q[i].of \in 1 .. Len(sg) /\ FaithfulTo(sg, q[i])
Rising(q) == \A i \in 1 .. Len(q) : \A j \in 1 .. Len(q) : i < j => q[i].of < q[j].of
Ahead(q, c) == \A i \in 1 .. Len(q) : c # <<>> => q[i].of < c[1].of
Reports(sg, from, q, c) ==
  \A k \in 1 .. Len(sg) : k >= from /\ ~sg[k].torn => Reported(q, k) \/ (c # <<>> /\ k >= c[1].of)
Adjacent(sg, q) == \A i \in 1 .. Len(q) - 1 : Succeeds(sg, q[i], q[i + 1].of)
CarriesOn(sg, q, c) ==
  q # <<>> => IF c = <<>> THEN q[Len(q)].of = Len(sg) ELSE Succeeds(sg, q[Len(q)], c[1].of)

Told(sg, from, q, c) ==
  /\ q \in Seq(Entry)
  /\ Known(sg, q) /\ Rising(q) /\ Ahead(q, c) /\ Reports(sg, from, q, c)
  /\ Adjacent(sg, q) /\ CarriesOn(sg, q, c)

\* One more segment understood.
LEMMA ToldMore ==
  ASSUME NEW sg, Segments(sg), NEW from, NEW q, NEW c, NEW d, Told(sg, from, q, c), c # <<>>,
         NEW r \in Entry, r.of = c[1].of, r.of \in 1 .. Len(sg), FaithfulTo(sg, r),
         d # <<>> => d[1].of \in 1 .. Len(sg) /\ d[1].of > r.of /\ Succeeds(sg, r, d[1].of),
         d = <<>> => r.of = Len(sg),
         \A k \in 1 .. Len(sg) : k > r.of /\ ~sg[k].torn => d # <<>> /\ k >= d[1].of
  PROVE  Told(sg, from, Append(q, r), d)
<1> DEFINE t == Append(q, r)
           n == Len(q)
<1>0. Len(sg) \in Nat
  BY LenProperties DEF Segments
<1>1. q \in Seq(Entry) /\ n \in Nat
  BY LenProperties DEF Told
<1>2. /\ t \in Seq(Entry) /\ Len(t) = n + 1 /\ t[n + 1] = r /\ \A i \in 1 .. n : t[i] = q[i]
  BY <1>1, AppendProperties
<1> HIDE DEF t
<1>3. \A i \in 1 .. n : q[i].of < r.of /\ q[i] \in Entry /\ q[i].of \in 1 .. Len(sg) /\ FaithfulTo(sg, q[i])
  BY DEF Told, Ahead, Known
<1>4. Known(sg, t)
  <2> SUFFICES ASSUME NEW i \in 1 .. n + 1 PROVE t[i] \in Entry /\ t[i].of \in 1 .. Len(sg) /\ FaithfulTo(sg, t[i])
    BY <1>2 DEF Known
  <2>1. i = n + 1 \/ i \in 1 .. n
    BY <1>1
  <2> QED BY <1>2, <1>3, <2>1
<1>5. Rising(t)
  <2> SUFFICES ASSUME NEW i \in 1 .. n + 1, NEW j \in 1 .. n + 1, i < j PROVE t[i].of < t[j].of
    BY <1>2 DEF Rising
  <2>1. i \in 1 .. n /\ (j = n + 1 \/ j \in 1 .. n)
    BY <1>1
  <2>2. CASE j = n + 1
    BY <1>2, <1>3, <2>1, <2>2
  <2>3. CASE j \in 1 .. n
    BY <1>2, <2>1, <2>3 DEF Told, Rising
  <2> QED BY <2>1, <2>2, <2>3
<1>6. Ahead(t, d)
  <2> SUFFICES ASSUME NEW i \in 1 .. n + 1, d # <<>> PROVE t[i].of < d[1].of
    BY <1>2 DEF Ahead
  <2>1. t[i].of \in Nat /\ t[i].of <= r.of
    <3>1. i = n + 1 \/ i \in 1 .. n
      BY <1>1
    <3> QED BY <1>0, <1>2, <1>3, <3>1
  <2> QED BY <1>0, <2>1
<1>7. Reports(sg, from, t, d)
  <2> SUFFICES ASSUME NEW k \in 1 .. Len(sg), k >= from, ~sg[k].torn
               PROVE Reported(t, k) \/ (d # <<>> /\ k >= d[1].of)
    BY DEF Reports
  <2>1. CASE k > r.of
    BY <2>1
  <2>2. CASE k = r.of
    <3>1. n + 1 \in 1 .. Len(t)
      BY <1>1, <1>2
    <3> QED BY <1>2, <2>2, <3>1 DEF Reported
  <2>3. CASE k < r.of
    <3>1. PICK i \in 1 .. n : q[i].of = k
      <4>1. ~(k >= c[1].of)
        BY <1>0, <2>3
      <4> QED BY <4>1 DEF Told, Reports, Reported
    <3>2. i \in 1 .. Len(t)
      BY <1>1, <1>2
    <3> QED BY <1>2, <3>1, <3>2 DEF Reported
  <2> QED BY <1>0, <2>1, <2>2, <2>3
<1>8. Adjacent(sg, t)
  <2> SUFFICES ASSUME NEW i \in 1 .. n PROVE Succeeds(sg, t[i], t[i + 1].of)
    BY <1>1, <1>2 DEF Adjacent
  <2>1. CASE i = n
    <3>1. q # <<>>
      BY <1>1, EmptySeq
    <3>2. Succeeds(sg, q[n], r.of)
      BY <3>1 DEF Told, CarriesOn
    <3> QED BY <1>2, <2>1, <3>2
  <2>2. CASE i # n
    <3>1. i \in 1 .. n - 1 /\ i + 1 \in 1 .. n
      BY <1>1, <2>2
    <3> QED BY <1>2, <3>1 DEF Told, Adjacent
  <2> QED BY <2>1, <2>2
<1>9. CarriesOn(sg, t, d)
  BY <1>2 DEF CarriesOn
<1> QED BY <1>2, <1>4, <1>5, <1>6, <1>7, <1>8, <1>9 DEF Told, t

\* Nothing understood: a boundary, or what is left of a torn segment.
LEMMA ToldOn ==
  ASSUME NEW sg, Segments(sg), NEW from, NEW q, NEW c, NEW d, Told(sg, from, q, c), c # <<>>, d # <<>>,
         c[1].of \in 1 .. Len(sg), d[1].of \in 1 .. Len(sg),
         d[1].of = c[1].of \/ (d[1].of > c[1].of /\ IsLoss(sg[d[1].of])),
         \A k \in 1 .. Len(sg) : k >= c[1].of /\ ~sg[k].torn => k >= d[1].of
  PROVE  Told(sg, from, q, d)
<1>0. Len(sg) \in Nat
  BY LenProperties DEF Segments
<1>1. Ahead(q, d)
  <2> SUFFICES ASSUME NEW i \in 1 .. Len(q) PROVE q[i].of < d[1].of
    BY DEF Ahead
  <2>1. q[i].of < c[1].of /\ q[i].of \in Nat
    BY <1>0 DEF Told, Ahead, Known
  <2> QED BY <1>0, <2>1
<1>2. Reports(sg, from, q, d)
  BY DEF Told, Reports
<1>3. CarriesOn(sg, q, d)
  BY DEF Told, CarriesOn, Succeeds
<1> QED BY <1>1, <1>2, <1>3 DEF Told

LEMMA One == ASSUME NEW x PROVE SetToSeq({x}) = <<x>>
<1>1. Cardinality({x}) = 1
  BY FS_Singleton
<1> DEFINE P(f) == f \in [1 .. 1 -> {x}] /\ IsInjective(f)
<1>2. <<x>> \in [1 .. 1 -> {x}] /\ IsInjective(<<x>>)
  BY DEF IsInjective
<1>3. \A f \in [1 .. 1 -> {x}] : f = <<x>>
  OBVIOUS
<1>4. SetToSeq({x}) = CHOOSE f \in [1 .. 1 -> {x}] : IsInjective(f)
  BY <1>1 DEF SetToSeq
<1> QED BY <1>2, <1>3, <1>4
LEMMA None == SetToSeq({}) = <<>>
<1>1. Cardinality({}) = 0
  BY FS_EmptySet
<1>2. <<>> \in [1 .. 0 -> {}] /\ IsInjective(<<>>)
  BY DEF IsInjective
<1>3. \A f \in [1 .. 0 -> {}] : f = <<>>
  OBVIOUS
<1>4. SetToSeq({}) = CHOOSE f \in [1 .. 0 -> {}] : IsInjective(f)
  BY <1>1 DEF SetToSeq
<1> QED BY <1>2, <1>3, <1>4

\* No untorn segment is passed over at a boundary.
LEMMA NothingSkipped ==
  ASSUME NEW sg, Segments(sg), NEW c, Strand(sg, c), NEW j, FirstBoundary(c, j),
         NEW k \in 1 .. Len(sg), k >= c[1].of, ~sg[k].torn
  PROVE  \/ j < Len(c) /\ k >= c[j + 1].of
         \/ c[j].of = k /\ Ends(sg, c[j])
<1>0. /\ Len(c) \in Nat /\ j \in 1 .. Len(c) /\ \A i \in 1 .. j - 1 : c[i].b # FF
      /\ c # <<>>
  BY LenProperties, EmptySeq DEF Strand, FirstBoundary
<1>1. PICK i \in 1 .. Len(c) : c[i].of = k /\ Ends(sg, c[i])
  BY <1>0 DEF Strand, Covered, EndIn
<1>2. Placed(sg, c[i]) /\ c[i].b = FF
  BY <1>1, PlacedFacts DEF Strand, Laid
<1>3. i >= j
  BY <1>0, <1>2
<1>4. CASE i = j
  BY <1>1, <1>4
<1>5. CASE i # j
  <2>1. j + 1 \in 1 .. Len(c) /\ (i = j + 1 \/ j + 1 < i)
    BY <1>0, <1>3, <1>5
  <2>2. i = j + 1 \/ Precedes(c[j + 1], c[i])
    BY <2>1 DEF Strand, Ordered
  <2>3. Placed(sg, c[j + 1]) /\ c[j + 1].of \in Nat /\ c[i].of \in Nat
    BY <1>2, <2>1, PlacedFacts DEF Strand, Laid
  <2>4. k >= c[j + 1].of
    BY <1>1, <2>2, <2>3 DEF Precedes
  <2> QED BY <1>0, <2>1, <2>4
<1> QED BY <1>4, <1>5

LEMMA TellStep ==
  ASSUME NEW sg, Segments(sg), Len(sg) >= 1, ~sg[Len(sg)].torn,
         NEW c, Strand(sg, c), AtStart(c), NEW j, FirstBoundary(c, j),
         NEW from, NEW q, Told(sg, from, q, c)
  PROVE  LET d == Behind(c, j)
             t == SetToSeq(Understood(SubSeq(c, 1, j - 1)))
         IN  Strand(sg, d) /\ AtStart(d) /\ Told(sg, from, q \o t, d) /\ t \in Seq(Entry)
<1> DEFINE d == Behind(c, j)
           p == SubSeq(c, 1, j - 1)
           t == SetToSeq(Understood(p))
           k == c[1].of
           g == sg[k]
           y == c[j + 1]
           n == Len(sg)
           m == Len(c)
<1>0. /\ c \in Seq(WireByte) /\ m \in Nat /\ j \in 1 .. m /\ j \in 0 .. m /\ c[j].b = FF /\ c # <<>>
      /\ n \in Nat /\ n \in 1 .. n /\ q \in Seq(Entry) /\ j \in Nat
  BY LenProperties, EmptySeq DEF Strand, FirstBoundary, Segments, Told
<1>1. Strand(sg, d)
  BY <1>0, StrandBehind
<1>2. /\ d # <<>> <=> j < m
      /\ j < m => d[1] = y
  <2>1. d \in Seq(WireByte) /\ Len(d) = m - j /\ \A i \in 1 .. m - j : d[i] = c[j + i]
    BY <1>0, BehindFacts
  <2> HIDE DEF d, m
  <2>2. j < m => d[1] = c[j + 1]
    BY <1>0, <2>1
  <2>3. d = <<>> <=> Len(d) = 0
    BY <2>1, EmptySeq
  <2> QED BY <1>0, <2>1, <2>2, <2>3
<1>3. /\ k \in 1 .. n /\ WellFormed(g)
      /\ \/ j = 1 /\ c[j].at = 0 /\ p = <<>>
         \/ /\ Says(p, k, Content(g), Len(Content(g)))
            /\ c[j].of = k /\ Ends(sg, c[j])
         \/ /\ Says(p, k, Content(g), j - 1)
            /\ g.torn /\ c[j].of > k /\ c[j].at = 0 /\ IsLoss(sg[c[j].of])
  BY PieceEnds
<1>4. j < m => /\ y.at \in {0, 1} /\ y.of \in 1 .. n
               /\ c[j].at = 0 => y.of = c[j].of \/ (y.of > c[j].of /\ IsLoss(sg[y.of]))
               /\ Ends(sg, c[j]) => y.of > c[j].of /\ Near(sg, c[j].of, y.of)
  <2> SUFFICES ASSUME j < m
               PROVE  /\ y.at \in {0, 1} /\ y.of \in 1 .. n
                      /\ c[j].at = 0 => y.of = c[j].of \/ (y.of > c[j].of /\ IsLoss(sg[y.of]))
                      /\ Ends(sg, c[j]) => y.of > c[j].of /\ Near(sg, c[j].of, y.of)
    OBVIOUS
  <2>1. j \in 1 .. m - 1 /\ j + 1 \in 1 .. m
    BY <1>0
  <2>2. y.of \in 1 .. n
    BY <2>1 DEF Strand, Laid, Placed
  <2> QED BY <1>0, <2>1, <2>2, AfterBoundary
<1>5. \A l \in 1 .. n : l >= k /\ ~sg[l].torn => (j < m /\ l >= y.of) \/ (c[j].of = l /\ Ends(sg, c[j]))
  BY NothingSkipped
<1>6. ~sg[n].torn /\ n >= k
  BY <1>0, <1>3
<1>7. c[j].at = 0 => ~Ends(sg, c[j])
  <2>1. Placed(sg, c[j])
    BY <1>0 DEF Strand, Laid
  <2> QED BY <2>1, PlacedFacts DEF Ends
<1>8. AtStart(d)
  BY <1>2, <1>4 DEF AtStart
<1>9. ASSUME NEW x \in Entry, t = <<x>> PROVE q \o t = Append(q, x)
  BY <1>0, <1>9, AppendIsConcat
<1>10. Understood(p) = {} => q \o t = q
  BY <1>0, None, ConcatEmptySeq
<1>11. \A r : Understood(p) = {r} => t = <<r>>
  BY One
<1>12. Heard(k, g.kind, g.raw) \in Entry /\ Heard(k, "loss", <<>>) \in Entry
  <2>1. g.kind \in {"record", "loss", "meta"} /\ g.raw \in Seq(Byte)
    BY <1>3 DEF WellFormed, SegmentType
  <2> QED BY <1>0, <1>3, <2>1 DEF Heard, Entry
<1>13. ASSUME NEW r \in Entry, r.of = k, FaithfulTo(sg, r), Understood(p) = {r},
              j < m => y.of > k /\ Succeeds(sg, r, y.of),
              j = m => k = n,
              \A l \in 1 .. n : l > k /\ ~sg[l].torn => j < m /\ l >= y.of
       PROVE  Told(sg, from, q \o t, d) /\ t \in Seq(Entry)
  <2>1. q \o t = Append(q, r)
    BY <1>9, <1>11, <1>13
  <2>2. d # <<>> => d[1].of \in 1 .. Len(sg) /\ d[1].of > r.of /\ Succeeds(sg, r, d[1].of)
    BY <1>2, <1>4, <1>13
  <2>3. d = <<>> => r.of = Len(sg)
    BY <1>0, <1>2, <1>13
  <2>4. \A l \in 1 .. Len(sg) : l > r.of /\ ~sg[l].torn => d # <<>> /\ l >= d[1].of
    BY <1>2, <1>13
  <2> HIDE DEF d
  <2>5. Told(sg, from, Append(q, r), d)
    BY <1>0, <1>3, <1>13, <2>2, <2>3, <2>4, ToldMore
  <2>6. t \in Seq(Entry)
    <3>1. t = <<r>>
      BY <1>11, <1>13
    <3> HIDE DEF t
    <3>2. <<r>> \in Seq(Entry)
      BY <1>13
    <3> QED BY <3>1, <3>2
  <2> QED BY <2>1, <2>5, <2>6
<1>14. ASSUME Understood(p) = {}, j < m, y.of = k \/ (y.of > k /\ IsLoss(sg[y.of])),
              \A l \in 1 .. n : l >= k /\ ~sg[l].torn => l >= y.of
       PROVE  Told(sg, from, q \o t, d) /\ t \in Seq(Entry)
  <2> HIDE DEF d
  <2>1. Told(sg, from, q, d)
    BY <1>0, <1>2, <1>3, <1>4, <1>14, ToldOn
  <2>2. t = <<>>
    BY <1>14, None
  <2>3. q \o t = q
    BY <1>10, <1>14
  <2> HIDE DEF t
  <2>4. t \in Seq(Entry)
    BY <2>2
  <2> QED BY <2>1, <2>3, <2>4
<1> HIDE DEF d, t
<1>15. CASE j = 1 /\ c[j].at = 0 /\ p = <<>>
  <2>1. Understood(p) = {}
    <3>1. Looks(<<>>) = <<>>
      BY DEF Looks
    <3> QED BY <1>15, <3>1 DEF Understood
  <2>2. j < m
    BY <1>0, <1>5, <1>6, <1>7, <1>15
  <2>3. \A l \in 1 .. n : l >= k /\ ~sg[l].torn => l >= y.of
    BY <1>5, <1>7, <1>15
  <2>4. y.of = k \/ (y.of > k /\ IsLoss(sg[y.of]))
    BY <1>4, <1>15, <2>2
  <2>5. Told(sg, from, q \o t, d) /\ t \in Seq(Entry)
    BY <1>14, <2>1, <2>2, <2>3, <2>4
  <2> QED BY <1>1, <1>8, <2>5 DEF d, t
<1>16. CASE Says(p, k, Content(g), Len(Content(g))) /\ c[j].of = k /\ Ends(sg, c[j])
  <2> DEFINE r == Heard(k, g.kind, g.raw)
  <2>1. Understood(p) = {r}
    BY <1>3, <1>16, UnderstoodWhole
  <2>2. r.of = k /\ r.kind = g.kind /\ r.raw = g.raw
    BY DEF Heard
  <2>3. FaithfulTo(sg, r) /\ r \in Entry
    BY <1>12, <2>2 DEF FaithfulTo
  <2>4. j < m => y.of > k /\ Succeeds(sg, r, y.of)
    BY <1>4, <1>16, <2>2 DEF Near, Succeeds
  <2>5. \A l \in 1 .. n : l > k /\ ~sg[l].torn => j < m /\ l >= y.of
    <3> SUFFICES ASSUME NEW l \in 1 .. n, l > k, ~sg[l].torn PROVE j < m /\ l >= y.of
      OBVIOUS
    <3>1. l >= k /\ l # k
      BY <1>3
    <3> QED BY <1>0, <1>5, <1>16, <3>1
  <2>6. j = m => k = n
    BY <1>0, <1>5, <1>6, <1>16
  <2> HIDE DEF r
  <2>7. Told(sg, from, q \o t, d) /\ t \in Seq(Entry)
    BY <1>13, <2>1, <2>2, <2>3, <2>4, <2>5, <2>6
  <2> QED BY <1>1, <1>8, <2>7 DEF d, t
<1>17. CASE Says(p, k, Content(g), j - 1) /\ g.torn /\ c[j].of > k /\ c[j].at = 0 /\ IsLoss(sg[c[j].of])
  <2>0. c[j].of \in 1 .. n
    BY <1>0 DEF Strand, Laid, Placed
  <2>1. j < m
    BY <1>0, <1>5, <1>6, <1>7, <1>17
  <2>2. y.of > k /\ IsLoss(sg[y.of])
    <3>1. y.of \in 1 .. n /\ (y.of = c[j].of \/ (y.of > c[j].of /\ IsLoss(sg[y.of])))
      BY <1>4, <1>17, <2>1
    <3>2. IsLoss(sg[y.of])
      BY <1>17, <3>1
    <3>3. y.of > k
      BY <1>0, <1>3, <1>17, <2>0, <3>1
    <3> QED BY <3>2, <3>3
  <2>3. \A l \in 1 .. n : l >= k /\ ~sg[l].torn => l >= y.of
    BY <1>5, <1>7, <1>17
  <2>4. ASSUME NEW kind, NEW raw, Understood(p) = {Heard(k, kind, raw)}, Heard(k, kind, raw) \in Entry,
               FaithfulTo(sg, Heard(k, kind, raw))
        PROVE  Told(sg, from, q \o t, d) /\ t \in Seq(Entry) /\ t \in Seq(Entry)
    <3> DEFINE r == Heard(k, kind, raw)
    <3>1. r.of = k
      BY DEF Heard
    <3>2. \A l \in 1 .. n : l > k /\ ~sg[l].torn => j < m /\ l >= y.of
      BY <1>0, <1>3, <2>1, <2>3, SMTT(20)
    <3>3. j # m
      BY <1>0, <2>1
    <3>4. r \in Entry /\ FaithfulTo(sg, r) /\ Understood(p) = {r}
      BY <2>4
    <3>5. Succeeds(sg, r, y.of)
      BY <2>2 DEF Succeeds
    <3> HIDE DEF r
    <3> QED BY <1>13, <2>2, <3>1, <3>2, <3>3, <3>4, <3>5
  <2>5. FaithfulTo(sg, Heard(k, g.kind, g.raw)) /\ FaithfulTo(sg, Heard(k, "loss", <<>>))
    BY <1>17 DEF FaithfulTo, Heard
  <2>6. Understood(p) = {} => Told(sg, from, q \o t, d) /\ t \in Seq(Entry)
    BY <1>14, <2>1, <2>2, <2>3
  <2>7. Understood(p) = {Heard(k, g.kind, g.raw)} => Told(sg, from, q \o t, d) /\ t \in Seq(Entry)
    BY <1>12, <2>4, <2>5
  <2>8. Understood(p) = {Heard(k, "loss", <<>>)} => Told(sg, from, q \o t, d) /\ t \in Seq(Entry)
    BY <1>12, <2>4, <2>5
  <2>9. Understood(p) = {} \/ Understood(p) = {Heard(k, g.kind, g.raw)} \/ Understood(p) = {Heard(k, "loss", <<>>)}
    BY <1>3, <1>17, UnderstoodPart
  <2>10. Told(sg, from, q \o t, d) /\ t \in Seq(Entry)
    BY <2>6, <2>7, <2>8, <2>9
  <2> QED BY <1>1, <1>8, <2>10 DEF d, t
<1> QED BY <1>3, <1>15, <1>16, <1>17

\* The boundaries the page looks for.

LEMMA FirstBoundaryIs ==
  ASSUME NEW c \in Seq(WireByte)
  PROVE  LET j == SelectInSeq(c, IsBoundary) IN
         \/ j = 0 /\ \A i \in 1 .. Len(c) : c[i].b # FF
         \/ FirstBoundary(c, j)
<1> DEFINE I == {i \in 1 .. Len(c) : IsBoundary(c[i])}
           j == SelectInSeq(c, IsBoundary)
<1>0. Len(c) \in Nat
  BY LenProperties
<1>1. j = IF I # {} THEN Min(I) ELSE 0
  BY DEF SelectInSeq
<1>2. I \in SUBSET Nat
  OBVIOUS
<1>3. CASE I = {}
  BY <1>1, <1>3 DEF IsBoundary
<1>4. CASE I # {}
  <2>1. \E x \in I : \A y \in I : x <= y
    <3> HIDE DEF I
    <3> QED BY <1>2, <1>4, Least
  <2>2. j \in I /\ \A y \in I : j <= y
    <3> HIDE DEF I, j
    <3> QED BY <1>1, <1>4, <2>1 DEF Min
  <2>3. ASSUME NEW i \in 1 .. j - 1 PROVE c[i].b # FF
    <3>1. j \in 1 .. Len(c) /\ ~(j <= i)
      BY <1>0, <2>2
    <3>2. i \in 1 .. Len(c)
      <4> HIDE DEF j
      <4> QED BY <1>0, <3>1
    <3>3. i \notin I
      BY <2>2, <3>1
    <3> QED BY <3>2, <3>3 DEF IsBoundary
  <2>4. j \in 1 .. Len(c) /\ c[j].b = FF
    BY <2>2 DEF IsBoundary
  <2> QED BY <2>3, <2>4 DEF FirstBoundary
<1> QED BY <1>3, <1>4

LEMMA LastBoundaryIs ==
  ASSUME NEW c, NEW n \in Nat
  PROVE  /\ LastBoundary(c, n) \in 0 .. n
         /\ LastBoundary(c, n) > 0 => c[LastBoundary(c, n)].b = FF
         /\ \A i \in LastBoundary(c, n) + 1 .. n : c[i].b # FF
<1> DEFINE I == {i \in 1 .. n : IsBoundary(c[i])}
           j == LastBoundary(c, n)
<1>1. j = IF I # {} THEN Max(I) ELSE 0
  BY DEF LastBoundary, SelectLastInSubSeq
<1>2. CASE I = {}
  BY <1>1, <1>2 DEF IsBoundary
<1>3. CASE I # {}
  <2> DEFINE T == {n - i : i \in I}
  <2>1. \E x \in I : \A y \in I : x >= y
    <3>1. T \in SUBSET Nat /\ T # {}
      BY <1>3
    <3>2. PICK x \in T : \A y \in T : x <= y
      <4> HIDE DEF T
      <4> QED BY <3>1, Least
    <3>3. PICK i \in I : x = n - i
      BY <3>2
    <3>4. \A k \in I : n - i <= n - k
      BY <3>2, <3>3
    <3>5. \A k \in I : i >= k
      BY <3>4
    <3> QED BY <3>5
  <2>2. j \in I /\ \A y \in I : j >= y
    <3> HIDE DEF I, j
    <3> QED BY <1>1, <1>3, <2>1 DEF Max
  <2>3. ASSUME NEW i \in j + 1 .. n PROVE c[i].b # FF
    <3>1. i \in 1 .. n /\ i \notin I
      BY <2>2
    <3> QED BY <3>1 DEF IsBoundary
  <2> QED BY <2>2, <2>3 DEF IsBoundary
<1> QED BY <1>2, <1>3

\* The boundary a byte is.
LEMMA BoundaryHere ==
  ASSUME NEW c, NEW n \in Nat, n >= 1
  PROVE  LastBoundary(c, n) = IF c[n].b = FF THEN n ELSE LastBoundary(c, n - 1)
<1> DEFINE i == LastBoundary(c, n)
           k == LastBoundary(c, n - 1)
<1>1. /\ i \in 0 .. n
      /\ i > 0 => c[i].b = FF
      /\ \A x \in i + 1 .. n : c[x].b # FF
  BY LastBoundaryIs
<1>2. /\ k \in 0 .. n - 1
      /\ k > 0 => c[k].b = FF
      /\ \A x \in k + 1 .. n - 1 : c[x].b # FF
  <2>1. n - 1 \in Nat
    OBVIOUS
  <2> QED BY <2>1, LastBoundaryIs
<1> HIDE DEF i, k
<1>3. c[n].b = FF => i = n
  BY <1>1
<1>4. c[n].b # FF => i = k
  <2> SUFFICES ASSUME c[n].b # FF PROVE i = k
    OBVIOUS
  <2>1. i # n
    BY <1>1
  <2>2. ~(i < k)
    BY <1>1, <1>2
  <2>3. ~(k < i)
    BY <1>1, <1>2, <2>1
  <2> QED BY <1>1, <1>2, <2>2, <2>3
<1> QED BY <1>3, <1>4 DEF i, k

\* What the page finds in a chunk.
AtByte(c, i) == IF IsBoundary(c[i]) THEN SetToSeq(Understood(PieceBefore(c, i))) ELSE <<>>

Finds(up, c) == \A i \in 0 .. Len(c) : up[i] = IF i = 0 THEN <<>> ELSE up[i - 1] \o AtByte(c, i)

LEMMA ResultsAre ==
  ASSUME NEW c \in Seq(WireByte)
  PROVE  \E up : Finds(up, c) /\ Results(c) = up[Len(c)]
<1> DEFINE m == Len(c)
           Step(f, i) == IF i = 0 THEN <<>> ELSE f[i - 1] \o AtByte(c, i)
           S == {i \in 1 .. m + 1 : \E f : f = [k \in 0 .. i - 1 |-> Step(f, k)]}
<1>0. m \in Nat
  BY LenProperties
<1>1. ASSUME NEW i \in 1 .. m + 1, \A k \in 1 .. i - 1 : k \in S
      PROVE  i \in S
  <2>1. PICK g : i > 1 => g = [k \in 0 .. (i - 1) - 1 |-> Step(g, k)]
    <3>1. i > 1 => i - 1 \in 1 .. i - 1
      OBVIOUS
    <3> QED BY <1>1, <3>1
  <2> DEFINE f == [k \in 0 .. i - 1 |-> IF k = i - 1 THEN Step(g, k) ELSE g[k]]
  <2>2. \A k \in 0 .. (i - 1) - 1 : f[k] = g[k]
    OBVIOUS
  <2>3. ASSUME NEW k \in 0 .. i - 1 PROVE f[k] = Step(f, k)
    <3>1. Step(f, k) = Step(g, k)
      <4>1. k # 0 => k - 1 \in 0 .. (i - 1) - 1
        OBVIOUS
      <4> HIDE DEF f
      <4> QED BY <2>2, <4>1
    <3>2. CASE k = i - 1
      <4>1. f[k] = Step(g, k)
        BY <3>2
      <4> QED BY <3>1, <4>1
    <3>3. CASE k # i - 1
      <4>1. k \in 0 .. (i - 1) - 1 /\ i > 1
        BY <3>3
      <4>2. g[k] = Step(g, k)
        <5> HIDE DEF Step
        <5> QED BY <2>1, <4>1
      <4> HIDE DEF f, Step
      <4> QED BY <2>2, <3>1, <4>1, <4>2
    <3> QED BY <3>2, <3>3
  <2>4. f = [k \in 0 .. i - 1 |-> f[k]]
    OBVIOUS
  <2> HIDE DEF f
  <2>5. f = [k \in 0 .. i - 1 |-> Step(f, k)]
    BY <2>3, <2>4
  <2> QED BY <2>5
<1>2. m + 1 \in S
  <2> HIDE DEF S, m
  <2>0. m + 1 \in Nat
    BY <1>0
  <2>1. \A i \in 1 .. m + 1 : i \in S
    BY <1>1, <2>0, FromTheStart
  <2> QED BY <1>0, <2>1
<1>3. PICK g : g = [i \in 0 .. m |-> Step(g, i)]
  <2>1. (m + 1) - 1 = m
    BY <1>0
  <2> QED BY <1>2, <2>1
<1> DEFINE u == CHOOSE f : f = [i \in 0 .. m |-> Step(f, i)]
<1>4. Results(c) = u[m]
  BY DEF Results, AtByte
<1>5. u = [i \in 0 .. m |-> Step(u, i)]
  <2> HIDE DEF Step
  <2> QED BY <1>3
<1> HIDE DEF u
<1>6. Finds(u, c)
  BY <1>5 DEF Finds
<1> QED BY <1>4, <1>6

\* A chunk, as part of what is on its way.
LEMMA PieceIs ==
  ASSUME NEW S, NEW b \in Seq(S), NEW r \in Seq(S), NEW k \in 1 .. Len(b), NEW l \in 0 .. k - 1
  PROVE  LET c == Behind(b \o r, l) IN
         /\ k - l \in 1 .. Len(c)
         /\ \A i \in 1 .. k - l : c[i] = b[l + i]
         /\ SubSeq(c, 1, (k - l) - 1) = SubSeq(b, l + 1, k - 1)
<1> DEFINE a == b \o r
           c == Behind(a, l)
           j == k - l
           m == Len(b)
           p == SubSeq(c, 1, j - 1)
           t == SubSeq(b, l + 1, k - 1)
<1>0. m \in Nat /\ Len(r) \in Nat /\ k \in 1 .. m /\ l \in Nat /\ j \in Nat /\ j >= 1
  BY LenProperties
<1>1. /\ a \in Seq(S) /\ Len(a) = m + Len(r)
      /\ \A i \in 1 .. m + Len(r) : a[i] = IF i <= m THEN b[i] ELSE r[i - m]
  BY ConcatProperties
<1> HIDE DEF a
<1>2. c \in Seq(S) /\ Len(c) = Len(a) - l /\ \A i \in 1 .. Len(a) - l : c[i] = a[l + i]
  <2>1. l \in 0 .. Len(a)
    BY <1>0, <1>1
  <2> QED BY <1>1, <2>1, BehindFacts
<1> HIDE DEF c
<1>3. \A i \in 1 .. j : c[i] = b[l + i]
  <2> SUFFICES ASSUME NEW i \in 1 .. j PROVE c[i] = b[l + i]
    OBVIOUS
  <2>1. i \in 1 .. Len(a) - l /\ l + i \in 1 .. m + Len(r) /\ l + i <= m
    BY <1>0, <1>1
  <2> QED BY <1>1, <1>2, <2>1
<1>4. j \in 1 .. Len(c)
  BY <1>0, <1>1, <1>2
<1>5. /\ p \in Seq(S) /\ Len(p) = j - 1 /\ \A i \in 1 .. j - 1 : p[i] = c[i]
  <2>1. j - 1 \in 0 .. Len(c)
    BY <1>4
  <2> HIDE DEF j
  <2> QED BY <1>2, <2>1, FrontFacts
<1>6. /\ t \in Seq(S)
      /\ Len(t) = IF l + 1 <= k - 1 THEN (k - 1) - (l + 1) + 1 ELSE 0
      /\ \A i \in 1 .. (k - 1) - (l + 1) + 1 : t[i] = b[(l + 1) + i - 1]
  <2> DEFINE x == l + 1
             y == k - 1
  <2>1. x \in Int /\ y \in Int /\ \A i \in x .. y : b[i] \in S
    <3>1. \A i \in x .. y : i \in 1 .. m
      BY <1>0
    <3> QED BY <1>0, <3>1, ElementOfSeq
  <2> HIDE DEF x, y
  <2>2. /\ SubSeq(b, x, y) \in Seq(S)
        /\ Len(SubSeq(b, x, y)) = IF x <= y THEN y - x + 1 ELSE 0
        /\ \A i \in 1 .. y - x + 1 : SubSeq(b, x, y)[i] = b[x + i - 1]
    BY <2>1, SubSeqProperties
  <2> QED BY <2>2 DEF x, y
<1> HIDE DEF p, t
<1>7. Len(t) = j - 1
  BY <1>0, <1>6
<1>8. \A i \in 1 .. Len(p) : p[i] = t[i]
  <2> SUFFICES ASSUME NEW i \in 1 .. j - 1 PROVE p[i] = t[i]
    BY <1>5
  <2>1. i \in 1 .. j /\ i \in 1 .. (k - 1) - (l + 1) + 1 /\ (l + 1) + i - 1 = l + i
    BY <1>0
  <2> QED BY <1>3, <1>5, <1>6, <2>1
<1>9. p = t
  BY <1>5, <1>6, <1>7, <1>8, SeqEqual
<1> QED BY <1>3, <1>4, <1>9 DEF a, c, p, t

LEMMA BehindNone ==
  ASSUME NEW S, NEW c \in Seq(S)
  PROVE  Behind(c, 0) = c
<1>1. SubSeq(c, 1, Len(c)) = c
  BY SubSeqFull
<1> QED BY <1>1 DEF Behind

LEMMA DigestTells ==
  ASSUME NEW sg, Segments(sg), Len(sg) >= 1, ~sg[Len(sg)].torn,
         NEW b \in Seq(WireByte), NEW rest \in Seq(WireByte), Strand(sg, b \o rest), AtStart(b \o rest),
         NEW from, NEW q, Told(sg, from, q, b \o rest)
  PROVE  LET n == LastBoundary(b, Len(b))
             d == Behind(b, n) \o rest
         IN
         /\ Strand(sg, d) /\ AtStart(d) /\ Told(sg, from, q \o Results(b), d)
         /\ Results(b) \in Seq(Entry)
         /\ Behind(b, n) \in Seq(WireByte) /\ \A i \in 1 .. Len(Behind(b, n)) : Behind(b, n)[i].b # FF
<1> DEFINE a == b \o rest
           m == Len(b)
           L(i) == LastBoundary(b, i)
<1>0. m \in Nat /\ Len(rest) \in Nat /\ a \in Seq(WireByte) /\ Len(a) = m + Len(rest) /\ q \in Seq(Entry)
  BY LenProperties, ConcatProperties DEF Told
<1>1. PICK up : Finds(up, b) /\ Results(b) = up[m]
  BY ResultsAre
<1> DEFINE Good(i) == /\ up[i] \in Seq(Entry)
                      /\ Strand(sg, Behind(a, L(i))) /\ AtStart(Behind(a, L(i)))
                      /\ Told(sg, from, q \o up[i], Behind(a, L(i)))
           S == {i \in 1 .. m + 1 : Good(i - 1)}
<1>2. \A i \in 0 .. m : L(i) \in 0 .. i /\ \A x \in L(i) + 1 .. i : b[x].b # FF
  BY LastBoundaryIs
<1>3. Good(0)
  <2>1. up[0] = <<>>
    BY <1>0, <1>1 DEF Finds
  <2>2. L(0) = 0
    <3>1. L(0) \in 0 .. 0
      BY <1>0, <1>2
    <3> HIDE DEF L
    <3> QED BY <3>1
  <2>3. Behind(a, L(0)) = a
    BY <1>0, <2>2, BehindNone
  <2>4. q \o up[0] = q
    BY <1>0, <2>1, ConcatEmptySeq
  <2>5. up[0] \in Seq(Entry)
    BY <2>1
  <2> HIDE DEF L
  <2> QED BY <2>3, <2>4, <2>5
<1>4. ASSUME NEW k \in 1 .. m, Good(k - 1) PROVE Good(k)
  <2> DEFINE l == L(k - 1)
             c == Behind(a, l)
             t == SetToSeq(Understood(PieceBefore(b, k)))
  <2>0. k \in Nat /\ k >= 1 /\ k <= m /\ k - 1 \in 0 .. m /\ k \in 0 .. m /\ k # 0
    BY <1>0
  <2>1. l \in 0 .. k - 1 /\ \A x \in l + 1 .. k - 1 : b[x].b # FF
    BY <1>2, <2>0
  <2>2. L(k) = IF b[k].b = FF THEN k ELSE l
    BY <2>0, BoundaryHere
  <2>3. up[k] = up[k - 1] \o AtByte(b, k)
    BY <1>1, <2>0 DEF Finds
  <2>4. CASE b[k].b # FF
    <3>1. AtByte(b, k) = <<>> /\ L(k) = l
      BY <2>2, <2>4 DEF AtByte, IsBoundary
    <3> HIDE DEF L, l
    <3>2. up[k] = up[k - 1]
      <4>1. up[k - 1] \in Seq(Entry)
        BY <1>4
      <4> QED BY <2>3, <3>1, <4>1, ConcatEmptySeq
    <3> QED BY <1>4, <3>1, <3>2 DEF l
  <2>5. CASE b[k].b = FF
    <3>1. AtByte(b, k) = t /\ L(k) = k
      BY <2>2, <2>5 DEF AtByte, IsBoundary
    <3> DEFINE j == k - l
               w == up[k - 1]
    <3>2. Strand(sg, c) /\ AtStart(c) /\ Told(sg, from, q \o w, c) /\ w \in Seq(Entry)
      BY <1>4
    <3> HIDE DEF L, l
    <3>3. /\ j \in 1 .. Len(c) /\ \A i \in 1 .. j : c[i] = b[l + i]
          /\ SubSeq(c, 1, j - 1) = PieceBefore(b, k)
      <4>1. PieceBefore(b, k) = SubSeq(b, l + 1, k - 1)
        BY DEF PieceBefore, l, L
      <4> QED BY <2>0, <2>1, <4>1, PieceIs
    <3>4. FirstBoundary(c, j)
      <4>1. c[j].b = FF
        <5>1. j \in 1 .. j /\ l + j = k
          BY <2>0, <2>1
        <5> QED BY <2>5, <3>3, <5>1
      <4>2. ASSUME NEW i \in 1 .. j - 1 PROVE c[i].b # FF
        <5>1. i \in 1 .. j /\ l + i \in l + 1 .. k - 1
          BY <2>0, <2>1
        <5> QED BY <2>1, <3>3, <5>1
      <4> QED BY <3>3, <4>1, <4>2 DEF FirstBoundary
    <3>5. /\ Strand(sg, Behind(c, j)) /\ AtStart(Behind(c, j)) /\ t \in Seq(Entry)
          /\ Told(sg, from, (q \o w) \o t, Behind(c, j))
      <4> HIDE DEF c, j, w
      <4> QED BY <3>2, <3>3, <3>4, TellStep
    <3>6. Behind(c, j) = Behind(a, k)
      <4>1. l \in 0 .. Len(a) /\ j \in 0 .. Len(a) - l /\ l + j = k
        BY <1>0, <2>0, <2>1
      <4> HIDE DEF j, a
      <4> QED BY <1>0, <4>1, BehindBehind
    <3>7. (q \o w) \o t = q \o up[k]
      <4> HIDE DEF t, w
      <4>1. (q \o w) \o t = q \o (w \o t)
        <5>1. q \in Seq(Entry) /\ w \in Seq(Entry) /\ t \in Seq(Entry)
          BY <1>0, <3>2, <3>5
        <5> QED BY ONLY <5>1, ConcatAssociative, SMTT(30)
      <4> QED BY <2>3, <3>1, <4>1 DEF w
    <3>8. up[k] \in Seq(Entry)
      <4> HIDE DEF t, w
      <4>1. w \o t \in Seq(Entry)
        BY <3>2, <3>5, ConcatProperties
      <4> QED BY <2>3, <3>1, <4>1 DEF w
    <3> HIDE DEF c, t, w, j
    <3> QED BY <3>1, <3>5, <3>6, <3>7, <3>8
  <2> QED BY <2>4, <2>5
<1> HIDE DEF Good
<1>5. ASSUME NEW i \in 1 .. m + 1, \A k \in 1 .. i - 1 : k \in S PROVE i \in S
  <2>1. CASE i = 1
    BY <1>3, <2>1
  <2>2. CASE i # 1
    <3>1. i - 1 \in 1 .. m /\ i - 1 \in 1 .. i - 1
      BY <1>0, <2>2
    <3>2. Good((i - 1) - 1)
      BY <1>5, <3>1
    <3> QED BY <1>4, <3>1, <3>2
  <2> QED BY <2>1, <2>2
<1>6. Good(m)
  <2>1. m + 1 \in Nat /\ m + 1 \in 1 .. m + 1 /\ (m + 1) - 1 = m
    BY <1>0
  <2>2. \A i \in 1 .. m + 1 : i \in S
    <3> HIDE DEF S, m
    <3> QED BY <1>5, <2>1, FromTheStart
  <2> QED BY <2>1, <2>2
<1> DEFINE n == L(m)
           d == Behind(b, n)
<1>7. n \in 0 .. m /\ \A x \in n + 1 .. m : b[x].b # FF
  BY <1>0, <1>2
<1> HIDE DEF L
<1>8. Behind(a, n) = d \o rest
  <2> HIDE DEF n
  <2> QED BY <1>7, BehindConcat
<1>9. d \in Seq(WireByte) /\ \A i \in 1 .. Len(d) : d[i].b # FF
  <2> HIDE DEF n
  <2>1. d \in Seq(WireByte) /\ Len(d) = m - n /\ \A i \in 1 .. m - n : d[i] = b[n + i]
    BY <1>7, BehindFacts
  <2> HIDE DEF d
  <2>2. ASSUME NEW i \in 1 .. Len(d) PROVE d[i].b # FF
    <3>1. i \in 1 .. m - n /\ n + i \in n + 1 .. m
      BY <1>0, <1>7, <2>1
    <3> QED BY <1>7, <2>1, <3>1
  <2> QED BY <2>1, <2>2
<1>10. /\ up[m] \in Seq(Entry) /\ Strand(sg, Behind(a, n)) /\ AtStart(Behind(a, n))
       /\ Told(sg, from, q \o up[m], Behind(a, n))
  BY <1>6 DEF Good
<1> HIDE DEF a
<1> QED BY <1>1, <1>8, <1>9, <1>10 DEF n, L

\* The RAM ring is cleared: what was on its way is cut, segments are torn.

Tear(sg, gone) == [k \in 1 .. Len(sg) |-> IF k \in gone THEN [sg[k] EXCEPT !.torn = TRUE] ELSE sg[k]]

Same(g, h) == g.kind = h.kind /\ g.raw = h.raw

LEMMA SameFrame ==
  ASSUME NEW g, NEW h, Same(g, h)
  PROVE  /\ Frame(g) = Frame(h) /\ Content(g) = Content(h) /\ Size(g) = Size(h)
         /\ IsLoss(g) <=> IsLoss(h)
         /\ IsBurst(g) <=> IsBurst(h)
<1>1. Content(g) = Content(h)
  BY DEF Same, Content, IsBurst, IsLoss
<1>2. Frame(g) = Frame(h)
  BY DEF Same, Frame, IsBurst, IsLoss
<1> QED BY <1>1, <1>2 DEF Same, Size, IsLoss, IsBurst

\* One history after another: segments have been torn, but are what they were.
Worn(sg, sh) ==
  /\ Len(sh) = Len(sg)
  /\ \A k \in 1 .. Len(sg) : Same(sg[k], sh[k]) /\ (sg[k].torn => sh[k].torn)

LEMMA TearFacts ==
  ASSUME NEW sg, Segments(sg), NEW gone
  PROVE  /\ Segments(Tear(sg, gone)) /\ Worn(sg, Tear(sg, gone))
         /\ \A k \in 1 .. Len(sg) : Tear(sg, gone)[k].torn <=> k \in gone \/ sg[k].torn
         /\ \A k \in 1 .. Len(sg) : Tear(sg, gone)[k].joins = sg[k].joins
<1> DEFINE sh == Tear(sg, gone)
           n == Len(sg)
<1>0. sg \in Seq(SegmentType) /\ n \in Nat /\ \A k \in 1 .. n : WellFormed(sg[k]) /\ sg[k] \in SegmentType
  BY LenProperties DEF Segments, WellFormed
<1>1. ASSUME NEW k \in 1 .. n
      PROVE  /\ sh[k] \in SegmentType /\ Same(sg[k], sh[k]) /\ WellFormed(sh[k])
             /\ sh[k].torn <=> k \in gone \/ sg[k].torn
             /\ sh[k].joins = sg[k].joins
  <2>1. sh[k] = IF k \in gone THEN [sg[k] EXCEPT !.torn = TRUE] ELSE sg[k]
    BY DEF Tear
  <2> DEFINE g == sg[k]
             h == sh[k]
  <2>2. g \in SegmentType /\ g.torn \in BOOLEAN
    BY <1>0 DEF SegmentType
  <2>3. h \in SegmentType /\ g.kind = h.kind /\ g.raw = h.raw /\ (h.torn <=> k \in gone \/ g.torn) /\ h.joins = g.joins
    <3> HIDE DEF g, h
    <3>1. h = IF k \in gone THEN [g EXCEPT !.torn = TRUE] ELSE g
      BY <2>1 DEF g, h
    <3> QED BY <2>2, <3>1 DEF SegmentType
  <2>4. Same(g, h)
    BY <2>3 DEF Same
  <2>5. WellFormed(h)
    <3>1. WellFormed(g) /\ (IsBurst(h) <=> IsBurst(g)) /\ g.raw = h.raw
      BY <1>0, <2>3, <2>4, SameFrame
    <3> HIDE DEF g, h
    <3> QED BY <2>3, <3>1 DEF WellFormed
  <2> QED BY <2>3, <2>4, <2>5
<1>2. sh = [k \in 1 .. n |-> sh[k]]
  BY DEF Tear
<1> HIDE DEF sh
<1>3. sh \in Seq(SegmentType) /\ Len(sh) = n
  BY <1>0, <1>1, <1>2
<1>4. sg[1] = sg[1]
  OBVIOUS
<1>5. \A k \in 1 .. n : sg[k].torn => sh[k].torn
  BY <1>1
<1> HIDE DEF n
<1> QED BY <1>1, <1>3, <1>5 DEF Segments, Worn, sh, n

LEMMA CutStrand ==
  ASSUME NEW sg, Segments(sg), NEW c, Strand(sg, c), NEW w \in 0 .. Len(c), NEW gone,
         \A i \in w + 1 .. Len(c) : c[i].of \in gone
  PROVE  Strand(Tear(sg, gone), SubSeq(c, 1, w))
<1> DEFINE sh == Tear(sg, gone)
           d == SubSeq(c, 1, w)
           n == Len(sg)
<1>0. c \in Seq(WireByte) /\ Len(c) \in Nat /\ w \in Nat /\ w <= Len(c) /\ n \in Nat
  BY LenProperties DEF Strand, Segments
<1>1. d \in Seq(WireByte) /\ Len(d) = w /\ \A i \in 1 .. w : d[i] = c[i]
  BY <1>0, FrontFacts
<1>2. /\ Segments(sh) /\ Len(sh) = n
      /\ \A k \in 1 .. n : Same(sg[k], sh[k]) /\ (sg[k].torn => sh[k].torn) /\ (~sh[k].torn => k \notin gone /\ ~sg[k].torn)
  BY TearFacts DEF Worn
<1> HIDE DEF sh, d
<1>3. \A i \in 1 .. Len(c) : /\ Placed(sg, c[i]) /\ Placed(sh, c[i])
                             /\ Ends(sg, c[i]) <=> Ends(sh, c[i])
  <2> SUFFICES ASSUME NEW i \in 1 .. Len(c)
               PROVE  Placed(sg, c[i]) /\ Placed(sh, c[i]) /\ (Ends(sg, c[i]) <=> Ends(sh, c[i]))
    OBVIOUS
  <2>1. Placed(sg, c[i])
    BY DEF Strand, Laid
  <2>2. Frame(sg[c[i].of]) = Frame(sh[c[i].of]) /\ Size(sg[c[i].of]) = Size(sh[c[i].of])
    <3>1. c[i].of \in 1 .. n
      BY <2>1 DEF Placed
    <3> QED BY <1>2, <3>1, SameFrame
  <2> QED BY <1>2, <2>1, <2>2 DEF Placed, Ends
<1>4. Laid(sh, d)
  <2> SUFFICES ASSUME NEW i \in 1 .. w PROVE Placed(sh, d[i])
    BY <1>1 DEF Laid
  <2>1. i \in 1 .. Len(c)
    BY <1>0
  <2> QED BY <1>1, <1>3, <2>1
<1>5. Linked(sh, d)
  <2> SUFFICES ASSUME NEW i \in 1 .. w - 1 PROVE NextTo(sh, d[i], d[i + 1])
    BY <1>1 DEF Linked
  <2> DEFINE x == c[i]
             y == c[i + 1]
  <2>1. i \in 1 .. Len(c) - 1 /\ i \in 1 .. w /\ i + 1 \in 1 .. w /\ i \in 1 .. Len(c) /\ i + 1 \in 1 .. Len(c)
    BY <1>0
  <2>2. d[i] = x /\ d[i + 1] = y
    BY <1>1, <2>1
  <2>3. NextTo(sg, x, y) /\ (Ends(sg, x) <=> Ends(sh, x)) /\ x.of \in 1 .. n /\ y.of \in 1 .. n
    BY <1>3, <2>1 DEF Strand, Linked, Placed
  <2>4. IsLoss(sg[y.of]) => IsLoss(sh[y.of])
    <3>1. Same(sg[y.of], sh[y.of])
      BY <1>2, <2>3
    <3> QED BY <3>1, SameFrame
  <2>5. Leads(sg, x, y) => Leads(sh, x, y)
    <3> SUFFICES ASSUME Leads(sg, x, y) PROVE Leads(sh, x, y)
      OBVIOUS
    <3>1. \A k \in x.of + 1 .. y.of - 1 : sh[k].torn
      <4> SUFFICES ASSUME NEW k \in x.of + 1 .. y.of - 1 PROVE sh[k].torn
        OBVIOUS
      <4>1. sg[k].torn
        BY DEF Leads
      <4>2. k \in 1 .. n
        <5> HIDE DEF x, y
        <5> QED BY <1>0, <2>3
      <4> QED BY <1>2, <4>1, <4>2
    <3>2. sg[x.of].torn => sh[x.of].torn
      BY <1>2, <2>3
    <3> QED BY <2>3, <2>4, <3>1, <3>2 DEF Leads
  <2>6. NextTo(sh, x, y)
    <3> HIDE DEF x, y
    <3> QED BY <2>3, <2>5 DEF NextTo
  <2> QED BY <2>2, <2>6
<1>6. Ordered(d)
  <2> SUFFICES ASSUME NEW i \in 1 .. w, NEW j \in 1 .. w, i < j PROVE Precedes(d[i], d[j])
    BY <1>1 DEF Ordered
  <2>1. i \in 1 .. Len(c) /\ j \in 1 .. Len(c)
    BY <1>0
  <2>2. d[i] = c[i] /\ d[j] = c[j]
    BY <1>1
  <2> QED BY <2>1, <2>2 DEF Strand, Ordered
<1>7. Covered(sh, d)
  <2> SUFFICES ASSUME NEW k \in 1 .. n, d # <<>>, k >= d[1].of, ~sh[k].torn PROVE EndIn(sh, d, k)
    BY <1>2 DEF Covered
  <2>1. w >= 1 /\ d[1] = c[1] /\ c # <<>>
    <3>1. Len(d) # 0
      BY <1>1, EmptySeq
    <3>2. w >= 1
      BY <1>0, <1>1, <3>1
    <3>3. 1 \in 1 .. w /\ Len(c) # 0
      BY <1>0, <3>2
    <3> QED BY <1>1, <3>2, <3>3
  <2>2. k \notin gone /\ ~sg[k].torn /\ k >= c[1].of
    BY <1>2, <2>1
  <2>3. PICK i \in 1 .. Len(c) : c[i].of = k /\ Ends(sg, c[i])
    BY <2>1, <2>2 DEF Strand, Covered, EndIn
  <2>4. i \in 1 .. w
    <3>1. ~(i \in w + 1 .. Len(c))
      BY <2>2, <2>3
    <3> QED BY <1>0, <3>1
  <2> QED BY <1>1, <1>3, <2>3, <2>4 DEF EndIn
<1> QED BY <1>1, <1>4, <1>5, <1>6, <1>7 DEF Strand, sh, d

\* The last byte on its way.
LEMMA LastByte ==
  ASSUME NEW sg, Segments(sg), NEW c, Strand(sg, c), c # <<>>
  PROVE  LET x == c[Len(c)] IN
         /\ Len(c) \in 1 .. Len(c) /\ x.of \in 1 .. Len(sg)
         /\ Ends(sg, x) \/ sg[x.of].torn
         /\ \A k \in x.of + 1 .. Len(sg) : sg[k].torn
<1> DEFINE m == Len(c)
           x == c[m]
           n == Len(sg)
<1>0. c \in Seq(WireByte) /\ m \in Nat /\ m # 0 /\ m \in 1 .. m /\ 1 \in 1 .. m /\ n \in Nat
  BY LenProperties, EmptySeq DEF Strand, Segments
<1>1. x.of \in 1 .. n /\ c[1].of \in 1 .. n /\ c[1].of <= x.of
  <2>1. Placed(sg, x) /\ Placed(sg, c[1])
    BY <1>0 DEF Strand, Laid
  <2>2. m = 1 \/ Precedes(c[1], x)
    <3>1. m = 1 \/ 1 < m
      BY <1>0
    <3> QED BY <1>0, <3>1 DEF Strand, Ordered
  <2> QED BY <2>1, <2>2, <1>0 DEF Placed, Precedes
<1>2. ASSUME NEW k \in 1 .. n, k >= x.of, ~sg[k].torn PROVE k = x.of /\ Ends(sg, x)
  <2>1. k >= c[1].of
    BY <1>1, <1>2
  <2>2. PICK i \in 1 .. m : c[i].of = k /\ Ends(sg, c[i])
    BY <2>1, <1>2 DEF Strand, Covered, EndIn
  <2>3. m <= i
    BY <1>0, <1>2, <2>2, EndFirst
  <2>4. i = m
    BY <1>0, <2>3
  <2> QED BY <2>2, <2>4
<1>3. Ends(sg, x) \/ sg[x.of].torn
  BY <1>1, <1>2
<1>4. ASSUME NEW k \in x.of + 1 .. n PROVE sg[k].torn
  <2>1. k \in 1 .. n /\ k >= x.of /\ k # x.of
    BY <1>0, <1>1
  <2> QED BY <1>2, <2>1
<1> QED BY <1>0, <1>1, <1>3, <1>4

\* One more segment is framed.

\* The bytes of segment k, from its place z on.
Bears(e, g, k, z) ==
  /\ e \in Seq(WireByte) /\ z \in {0, 1} /\ Len(e) = (Size(g) + 1) - z
  /\ \A i \in 1 .. Len(e) :
       /\ e[i].of = k /\ e[i].at = (z + i) - 1
       /\ e[i].b = IF e[i].at = 0 THEN FF ELSE Frame(g)[e[i].at]

LEMMA SentBears ==
  ASSUME NEW g, WellFormed(g), NEW k \in Nat
  PROVE  Bears(Sent(g, k), g, k, 1)
<1> DEFINE m == Size(g)
           e == Sent(g, k)
<1>0. m \in Nat /\ m >= 2 /\ DOMAIN Frame(g) = 1 .. m /\ \A i \in 1 .. m : Frame(g)[i] \in Byte
  BY FrameFacts
<1>1. e = [i \in 1 .. m |-> [b |-> Frame(g)[i], of |-> k, at |-> i]]
  BY <1>0 DEF Sent
<1>2. \A i \in 1 .. m : [b |-> Frame(g)[i], of |-> k, at |-> i] \in WireByte
  BY <1>0 DEF WireByte
<1>3. e \in [1 .. m -> WireByte]
  BY <1>1, <1>2
<1>4. \A i \in 1 .. m : e[i].of = k /\ e[i].at = i /\ e[i].b = Frame(g)[i]
  BY <1>1
<1> HIDE DEF e, m
<1>5. e \in Seq(WireByte) /\ Len(e) = m
  BY <1>0, <1>3
<1>6. (m + 1) - 1 = m /\ \A i \in 1 .. m : (1 + i) - 1 = i /\ i # 0
  BY <1>0
<1> QED BY <1>4, <1>5, <1>6 DEF Bears, e, m

LEMMA BoundaryBears ==
  ASSUME NEW g, WellFormed(g), NEW k \in Nat
  PROVE  Boundary(k) \in Seq(WireByte) /\ Bears(Boundary(k) \o Sent(g, k), g, k, 0)
<1> DEFINE m == Size(g)
           s == Sent(g, k)
           o == Boundary(k)
           e == o \o s
           x == [b |-> FF, of |-> k, at |-> 0]
<1>0. m \in Nat /\ m >= 2
  BY FrameFacts
<1>1. /\ s \in Seq(WireByte) /\ Len(s) = (m + 1) - 1
      /\ \A i \in 1 .. Len(s) : s[i].of = k /\ s[i].at = (1 + i) - 1
                                /\ s[i].b = IF s[i].at = 0 THEN FF ELSE Frame(g)[s[i].at]
  BY SentBears DEF Bears
<1>2. x \in WireByte
  BY Values DEF WireByte, Byte
<1>3. x.of = k /\ x.at = 0 /\ x.b = FF
  OBVIOUS
<1>4. o = <<x>>
  BY DEF Boundary
<1> HIDE DEF x
<1>5. o \in Seq(WireByte) /\ Len(o) = 1 /\ o[1] = x
  BY <1>2, <1>4
<1> HIDE DEF o, s, m
<1>6. /\ e \in Seq(WireByte) /\ Len(e) = 1 + Len(s)
      /\ \A i \in 1 .. 1 + Len(s) : e[i] = IF i <= 1 THEN o[i] ELSE s[i - 1]
  <2>1. /\ e \in Seq(WireByte) /\ Len(e) = Len(o) + Len(s)
        /\ \A i \in 1 .. Len(o) + Len(s) : e[i] = IF i <= Len(o) THEN o[i] ELSE s[i - Len(o)]
    BY <1>1, <1>5, ConcatProperties
  <2> HIDE DEF e
  <2> QED BY <1>5, <2>1
<1> HIDE DEF e
<1>7. Len(e) = (m + 1) - 0
  BY <1>0, <1>1, <1>6
<1>8. ASSUME NEW i \in 1 .. Len(e)
      PROVE  e[i].of = k /\ e[i].at = (0 + i) - 1 /\ e[i].b = IF e[i].at = 0 THEN FF ELSE Frame(g)[e[i].at]
  <2>1. CASE i = 1
    BY <1>0, <1>1, <1>3, <1>5, <1>6, <2>1
  <2>2. CASE i # 1
    <3>1. i \in 1 .. 1 + Len(s) /\ ~(i <= 1) /\ i - 1 \in 1 .. Len(s) /\ (1 + (i - 1)) - 1 = (0 + i) - 1
      BY <1>0, <1>1, <1>6, <2>2
    <3>2. e[i] = s[i - 1]
      BY <1>6, <3>1
    <3> QED BY <1>1, <3>1, <3>2
  <2> QED BY <2>1, <2>2
<1> QED BY <1>5, <1>6, <1>7, <1>8 DEF Bears, e, o, s, m

LEMMA ExtendStrand ==
  ASSUME NEW sg, Segments(sg), NEW c, Strand(sg, c), NEW g, WellFormed(g), NEW z,
         NEW e, Bears(e, g, Len(sg) + 1, z),
         c # <<>> => IF z = 0 THEN IsLoss(g) \/ ~sg[Len(sg)].torn ELSE ~sg[Len(sg)].torn
  PROVE  /\ Segments(Append(sg, g)) /\ Strand(Append(sg, g), c \o e)
         /\ c \o e # <<>>
         /\ (c \o e)[1].of = IF c = <<>> THEN Len(sg) + 1 ELSE c[1].of
<1> DEFINE sh == Append(sg, g)
           d == c \o e
           n == Len(sg)
           m == Len(c)
           l == Len(e)
           k == n + 1
<1>0. sg \in Seq(SegmentType) /\ n \in Nat /\ c \in Seq(WireByte) /\ m \in Nat /\ k \in Nat
  BY LenProperties DEF Segments, Strand
<1>1. g \in SegmentType /\ Size(g) \in Nat /\ Size(g) >= 2
  BY FrameFacts DEF WellFormed
<1>2. sh \in Seq(SegmentType) /\ Len(sh) = k /\ sh[k] = g /\ \A i \in 1 .. n : sh[i] = sg[i]
  BY <1>0, <1>1, AppendProperties
<1>3. Segments(sh)
  <2> SUFFICES ASSUME NEW i \in 1 .. k PROVE WellFormed(sh[i])
    BY <1>2 DEF Segments
  <2>1. i = k \/ i \in 1 .. n
    BY <1>0
  <2> QED BY <1>2, <2>1 DEF Segments
<1>4. /\ e \in Seq(WireByte) /\ z \in {0, 1} /\ l = (Size(g) + 1) - z /\ l \in Nat /\ l >= 2
      /\ \A i \in 1 .. l :
           /\ e[i].of = k /\ e[i].at = (z + i) - 1
           /\ e[i].b = IF e[i].at = 0 THEN FF ELSE Frame(g)[e[i].at]
  BY <1>1 DEF Bears
<1>5. /\ d \in Seq(WireByte) /\ Len(d) = m + l
      /\ \A i \in 1 .. m + l : d[i] = IF i <= m THEN c[i] ELSE e[i - m]
  BY <1>0, <1>4, ConcatProperties
<1>6. \A i \in 1 .. m : i \in 1 .. m + l /\ d[i] = c[i]
  BY <1>0, <1>4, <1>5
<1>7. \A i \in m + 1 .. m + l : i - m \in 1 .. l /\ d[i] = e[i - m] /\ d[i].of = k /\ d[i].at = (z + (i - m)) - 1
  <2> SUFFICES ASSUME NEW i \in m + 1 .. m + l
               PROVE  i - m \in 1 .. l /\ d[i] = e[i - m] /\ d[i].of = k /\ d[i].at = (z + (i - m)) - 1
    OBVIOUS
  <2>1. i - m \in 1 .. l /\ i \in 1 .. m + l /\ ~(i <= m)
    BY <1>0, <1>4
  <2>2. d[i] = e[i - m]
    BY <1>5, <2>1
  <2> QED BY <1>4, <2>1, <2>2
<1>8. \A i \in 1 .. m : Placed(sg, c[i]) /\ c[i].of \in 1 .. n /\ sh[c[i].of] = sg[c[i].of]
  BY <1>2 DEF Strand, Laid, Placed
<1>9. \A i \in 1 .. m + l : i \in 1 .. m \/ i \in m + 1 .. m + l
  BY <1>0, <1>4
<1> DEFINE x == c[m]
           y == d[m + 1]
<1>10. c # <<>> => /\ m \in 1 .. m /\ x.of \in 1 .. n
                   /\ Ends(sg, x) \/ sg[x.of].torn
                   /\ \A i \in x.of + 1 .. n : sg[i].torn
  BY LastByte
<1>11. y.of = k /\ y.at = z /\ m + 1 \in m + 1 .. m + l
  <2>1. m + 1 \in m + 1 .. m + l /\ (z + ((m + 1) - m)) - 1 = z
    BY <1>0, <1>4
  <2> QED BY <1>7, <2>1
<1>12. c # <<>> => NextTo(sh, x, y)
  <2> SUFFICES ASSUME c # <<>> PROVE NextTo(sh, x, y)
    OBVIOUS
  <2>1. ~sg[n].torn => x.of = n /\ Ends(sg, x)
    <3> HIDE DEF x
    <3> QED BY <1>0, <1>10
  <2>2. sh[x.of] = sg[x.of] /\ (Ends(sh, x) <=> Ends(sg, x)) /\ sh[y.of] = g
    <3>1. sh[x.of] = sg[x.of]
      BY <1>8, <1>10
    <3> QED BY <1>2, <1>11, <3>1 DEF Ends
  <2>3. CASE z = 1
    <3>1. y.of = x.of + 1 /\ y.at = 1 /\ Ends(sh, x)
      BY <1>11, <2>1, <2>2, <2>3
    <3> QED BY <3>1 DEF NextTo
  <2>4. CASE z = 0
    <3>1. y.of > x.of /\ y.at = 0
      BY <1>0, <1>10, <1>11, <2>4
    <3>2. Ends(sh, x) \/ sh[x.of].torn
      BY <1>10, <2>2
    <3>3. \A i \in x.of + 1 .. y.of - 1 : sh[i].torn
      <4> SUFFICES ASSUME NEW i \in x.of + 1 .. y.of - 1 PROVE sh[i].torn
        OBVIOUS
      <4>1. i \in x.of + 1 .. n /\ i \in 1 .. n
        <5>1. y.of - 1 = n
          BY <1>0, <1>11
        <5>2. x.of \in 1 .. n
          BY <1>10
        <5> HIDE DEF x, y
        <5> QED BY <1>0, <5>1, <5>2
      <4> QED BY <1>2, <1>10, <4>1
    <3>4. (Ends(sh, x) /\ y.of = x.of + 1) \/ IsLoss(sh[y.of])
      BY <1>11, <2>1, <2>2, <2>4
    <3>5. Leads(sh, x, y)
      BY <3>1, <3>2, <3>3, <3>4 DEF Leads
    <3> QED BY <3>5 DEF NextTo
  <2> QED BY <1>4, <2>3, <2>4
<1> HIDE DEF d, sh, x, y
<1>13. Laid(sh, d)
  <2> SUFFICES ASSUME NEW i \in 1 .. m + l PROVE Placed(sh, d[i])
    BY <1>5 DEF Laid
  <2>1. d[i] \in WireByte
    BY <1>5, ElementOfSeq
  <2>2. CASE i \in 1 .. m
    <3>1. d[i] = c[i] /\ Placed(sg, c[i]) /\ sh[c[i].of] = sg[c[i].of] /\ c[i].of \in 1 .. n
      BY <1>6, <1>8, <2>2
    <3> QED BY <1>0, <1>2, <3>1 DEF Placed
  <2>3. CASE i \in m + 1 .. m + l
    <3>1. i - m \in 1 .. l /\ d[i] = e[i - m] /\ d[i].of = k /\ d[i].at = (z + (i - m)) - 1
      BY <1>7, <2>3
    <3>2. d[i].b = IF d[i].at = 0 THEN FF ELSE Frame(g)[d[i].at]
      BY <1>4, <3>1
    <3>3. d[i].at \in 0 .. Size(g)
      BY <1>1, <1>4, <3>1, SMTT(20)
    <3>4. d[i].of \in 1 .. Len(sh) /\ sh[d[i].of] = g
      BY <1>0, <1>2, <3>1
    <3> QED BY <2>1, <3>2, <3>3, <3>4 DEF Placed
  <2> QED BY <1>9, <2>2, <2>3
<1>14. Linked(sh, d)
  <2> SUFFICES ASSUME NEW i \in 1 .. (m + l) - 1 PROVE NextTo(sh, d[i], d[i + 1])
    BY <1>5 DEF Linked
  <2>1. CASE i < m
    <3>1. i \in 1 .. m - 1 /\ i \in 1 .. m /\ i + 1 \in 1 .. m
      BY <1>0, <2>1
    <3>2. d[i] = c[i] /\ d[i + 1] = c[i + 1] /\ NextTo(sg, c[i], c[i + 1])
      BY <1>6, <3>1 DEF Strand, Linked
    <3> DEFINE u == c[i]
               v == c[i + 1]
    <3>3. NextTo(sg, u, v) /\ u.of \in 1 .. n /\ v.of \in 1 .. n /\ sh[u.of] = sg[u.of] /\ sh[v.of] = sg[v.of]
      BY <1>8, <3>1, <3>2
    <3> HIDE DEF u, v
    <3>4. Ends(sh, u) <=> Ends(sg, u)
      BY <3>3 DEF Ends
    <3>5. \A a \in u.of + 1 .. v.of - 1 : sh[a] = sg[a]
      <4> SUFFICES ASSUME NEW a \in u.of + 1 .. v.of - 1 PROVE sh[a] = sg[a]
        OBVIOUS
      <4>1. a \in 1 .. n
        BY <1>0, <3>3
      <4> QED BY <1>2, <4>1
    <3>6. NextTo(sh, u, v)
      BY <3>3, <3>4, <3>5 DEF NextTo, Leads
    <3> QED BY <3>2, <3>6 DEF u, v
  <2>2. CASE i = m
    <3>1. c # <<>> /\ d[i] = c[m] /\ i + 1 = m + 1
      <4>1. m \in 1 .. m /\ m # 0
        BY <1>0, <2>2
      <4> QED BY <1>0, <1>6, <2>2, <4>1, EmptySeq
    <3> QED BY <1>12, <2>2, <3>1 DEF x, y
  <2>3. CASE i > m
    <3>1. i \in m + 1 .. m + l /\ i + 1 \in m + 1 .. m + l
      BY <1>0, <1>4, <2>3
    <3>2. /\ d[i].of = k /\ d[i].at = (z + (i - m)) - 1
          /\ d[i + 1].of = k /\ d[i + 1].at = (z + ((i + 1) - m)) - 1
      BY <1>7, <3>1
    <3>3. (z + ((i + 1) - m)) - 1 = ((z + (i - m)) - 1) + 1
      BY <1>0, <1>4
    <3> QED BY <3>2, <3>3 DEF NextTo
  <2> QED BY <1>0, <1>4, <2>1, <2>2, <2>3
<1>15. Ordered(d)
  <2> SUFFICES ASSUME NEW i \in 1 .. m + l, NEW j \in 1 .. m + l, i < j PROVE Precedes(d[i], d[j])
    BY <1>5 DEF Ordered
  <2>1. CASE j \in 1 .. m
    <3>1. i \in 1 .. m
      BY <1>0, <2>1
    <3> QED BY <1>6, <2>1, <3>1 DEF Strand, Ordered
  <2>2. CASE i \in 1 .. m /\ j \in m + 1 .. m + l
    <3>1. d[i].of \in 1 .. n /\ d[j].of = k
      BY <1>6, <1>7, <1>8, <2>2
    <3> QED BY <1>0, <3>1 DEF Precedes
  <2>3. CASE i \in m + 1 .. m + l /\ j \in m + 1 .. m + l
    <3>1. /\ d[i].of = k /\ d[i].at = (z + (i - m)) - 1
          /\ d[j].of = k /\ d[j].at = (z + (j - m)) - 1
      BY <1>7, <2>3
    <3>2. (z + (i - m)) - 1 < (z + (j - m)) - 1
      BY <1>0, <1>4
    <3> QED BY <3>1, <3>2 DEF Precedes
  <2> QED BY <1>0, <1>9, <2>1, <2>2, <2>3
<1>16. d # <<>> /\ d[1].of = IF c = <<>> THEN k ELSE c[1].of
  <2>1. Len(d) # 0
    BY <1>0, <1>4, <1>5
  <2>2. CASE c = <<>>
    <3>1. m = 0
      BY <1>0, <2>2, EmptySeq
    <3>2. 1 \in m + 1 .. m + l
      BY <1>0, <1>4, <3>1
    <3> QED BY <1>5, <1>7, <2>1, <2>2, <3>2, EmptySeq
  <2>3. CASE c # <<>>
    <3>1. 1 \in 1 .. m
      BY <1>0, <2>3, EmptySeq
    <3> QED BY <1>5, <1>6, <2>1, <2>3, <3>1, EmptySeq
  <2> QED BY <2>2, <2>3
<1>17. Covered(sh, d)
  <2> SUFFICES ASSUME NEW a \in 1 .. k, a >= d[1].of, ~sh[a].torn PROVE EndIn(sh, d, a)
    BY <1>2 DEF Covered
  <2>1. CASE a = k
    <3> DEFINE j == m + l
    <3>1. j \in m + 1 .. m + l /\ j \in 1 .. m + l /\ (z + (j - m)) - 1 = Size(g)
      <4> DEFINE u == Size(g)
      <4>1. u \in Nat /\ l = (u + 1) - z /\ z \in {0, 1} /\ l \in Nat /\ l >= 2
        BY <1>1, <1>4
      <4> HIDE DEF u, m, l
      <4>2. (m + l) - m = l /\ (z + l) - 1 = u
        BY <1>0, <4>1
      <4>3. m + l \in m + 1 .. m + l /\ m + l \in 1 .. m + l
        BY <1>0, <4>1
      <4> QED BY <4>2, <4>3 DEF u
    <3>2. d[j].of = k /\ d[j].at = Size(g)
      <4> HIDE DEF j
      <4> QED BY <1>7, <3>1
    <3>3. Ends(sh, d[j])
      BY <1>2, <3>2 DEF Ends
    <3> QED BY <1>5, <2>1, <3>1, <3>2, <3>3 DEF EndIn
  <2>2. CASE a # k
    <3>1. a \in 1 .. n /\ sh[a] = sg[a]
      BY <1>0, <1>2, <2>2
    <3>2. c # <<>> /\ a >= c[1].of
      BY <1>0, <1>16, <3>1
    <3>3. PICK i \in 1 .. m : c[i].of = a /\ Ends(sg, c[i])
      BY <3>1, <3>2 DEF Strand, Covered, EndIn
    <3>4. i \in 1 .. Len(d) /\ d[i] = c[i] /\ Ends(sh, d[i])
      BY <1>5, <1>6, <3>1, <3>3 DEF Ends
    <3> QED BY <3>3, <3>4 DEF EndIn
  <2> QED BY <2>1, <2>2
<1> QED BY <1>3, <1>5, <1>13, <1>14, <1>15, <1>16, <1>17 DEF Strand, d, sh

\* What the page has understood stays true while the device goes on.

ToldSoFar(sg, from, q, c) ==
  /\ q \in Seq(Entry)
  /\ Known(sg, q) /\ Rising(q) /\ Ahead(q, c) /\ Reports(sg, from, q, c)
  /\ Adjacent(sg, q) /\ (c # <<>> => CarriesOn(sg, q, c))

LEMMA ToldExtends ==
  ASSUME NEW sg, Segments(sg), NEW c, NEW d, NEW g, NEW from, NEW q, ToldSoFar(sg, from, q, c),
         Segments(Append(sg, g)), g \in SegmentType,
         c # <<>> => c[1].of \in 1 .. Len(sg),
         c = <<>> /\ q # <<>> => \/ q[Len(q)].of = Len(sg) /\ q[Len(q)].kind = sg[Len(sg)].kind
                              \/ IsLoss(g),
         d # <<>>, d[1].of = IF c = <<>> THEN Len(sg) + 1 ELSE c[1].of
  PROVE  Told(Append(sg, g), from, q, d)
<1> DEFINE sh == Append(sg, g)
           n == Len(sg)
           m == Len(q)
<1>0. sg \in Seq(SegmentType) /\ n \in Nat /\ q \in Seq(Entry) /\ m \in Nat
  BY LenProperties DEF Segments, ToldSoFar
<1>1. Len(sh) = n + 1 /\ sh[n + 1] = g /\ \A i \in 1 .. n : sh[i] = sg[i]
  BY <1>0, AppendProperties
<1> HIDE DEF sh
<1>2. \A i \in 1 .. m : q[i] \in Entry /\ q[i].of \in 1 .. n /\ sh[q[i].of] = sg[q[i].of] /\ FaithfulTo(sg, q[i])
  BY <1>1 DEF ToldSoFar, Known
<1>3. Known(sh, q)
  <2> SUFFICES ASSUME NEW i \in 1 .. m PROVE q[i] \in Entry /\ q[i].of \in 1 .. n + 1 /\ FaithfulTo(sh, q[i])
    BY <1>1 DEF Known
  <2>1. q[i].of \in 1 .. n + 1
    BY <1>0, <1>2
  <2> QED BY <1>2, <2>1 DEF FaithfulTo
<1>4. Ahead(q, d)
  <2> SUFFICES ASSUME NEW i \in 1 .. m PROVE q[i].of < d[1].of
    BY DEF Ahead
  <2>1. CASE c = <<>>
    BY <1>0, <1>2, <2>1
  <2>2. CASE c # <<>>
    BY <2>2 DEF ToldSoFar, Ahead
  <2> QED BY <2>1, <2>2
<1>5. Reports(sh, from, q, d)
  <2> SUFFICES ASSUME NEW k \in 1 .. n + 1, k >= from, ~sh[k].torn PROVE Reported(q, k) \/ k >= d[1].of
    BY <1>1 DEF Reports
  <2>1. CASE k = n + 1
    BY <1>0, <2>1
  <2>2. CASE k # n + 1
    <3>1. k \in 1 .. n /\ ~sg[k].torn
      BY <1>0, <1>1, <2>2
    <3>2. Reported(q, k) \/ (c # <<>> /\ k >= c[1].of)
      BY <3>1 DEF ToldSoFar, Reports
    <3> QED BY <3>2
  <2> QED BY <2>1, <2>2
<1>6. Adjacent(sh, q)
  <2> SUFFICES ASSUME NEW i \in 1 .. m - 1 PROVE Succeeds(sh, q[i], q[i + 1].of)
    BY DEF Adjacent
  <2>1. i + 1 \in 1 .. m
    BY <1>0
  <2>2. Succeeds(sg, q[i], q[i + 1].of)
    BY DEF ToldSoFar, Adjacent
  <2> QED BY <1>2, <2>1, <2>2 DEF Succeeds
<1>7. CarriesOn(sh, q, d)
  <2> SUFFICES ASSUME q # <<>> PROVE Succeeds(sh, q[m], d[1].of)
    BY DEF CarriesOn
  <2>1. m \in 1 .. m
    BY <1>0, EmptySeq
  <2>2. CASE c = <<>>
    <3>1. d[1].of = n + 1
      BY <2>2
    <3>2. q[m].of = n => sh[n] = sg[n]
      BY <1>2, <2>1
    <3> QED BY <1>1, <2>2, <3>1, <3>2 DEF Succeeds
  <2>3. CASE c # <<>>
    <3>1. Succeeds(sg, q[m], c[1].of)
      BY <2>3 DEF ToldSoFar, CarriesOn
    <3>2. d[1].of = c[1].of /\ sh[c[1].of] = sg[c[1].of]
      BY <1>1, <2>3
    <3>3. sh[q[m].of] = sg[q[m].of]
      BY <1>2, <2>1
    <3> QED BY <3>1, <3>2, <3>3 DEF Succeeds
  <2> QED BY <2>2, <2>3
<1> QED BY <1>0, <1>3, <1>4, <1>5, <1>6, <1>7 DEF Told, ToldSoFar, sh

LEMMA CutTold ==
  ASSUME NEW sg, Segments(sg), NEW c, Strand(sg, c), NEW w \in 0 .. Len(c), NEW gone,
         \A i \in w + 1 .. Len(c) : c[i].of \in gone,
         NEW from, NEW q, Told(sg, from, q, c)
  PROVE  ToldSoFar(Tear(sg, gone), from, q, SubSeq(c, 1, w))
<1> DEFINE sh == Tear(sg, gone)
           d == SubSeq(c, 1, w)
           n == Len(sg)
           m == Len(q)
<1>0. /\ c \in Seq(WireByte) /\ Len(c) \in Nat /\ w \in Nat /\ w <= Len(c) /\ n \in Nat
      /\ q \in Seq(Entry) /\ m \in Nat
  BY LenProperties DEF Strand, Segments, Told
<1>1. d \in Seq(WireByte) /\ Len(d) = w /\ \A i \in 1 .. w : d[i] = c[i]
  BY <1>0, FrontFacts
<1>2. /\ Len(sh) = n
      /\ \A k \in 1 .. n : /\ Same(sg[k], sh[k]) /\ (sg[k].torn => sh[k].torn)
                           /\ (~sh[k].torn => k \notin gone /\ ~sg[k].torn)
  BY TearFacts DEF Worn
<1> HIDE DEF sh, d
<1>3. d # <<>> => c # <<>> /\ d[1] = c[1]
  <2> SUFFICES ASSUME d # <<>> PROVE c # <<>> /\ d[1] = c[1]
    OBVIOUS
  <2>1. w # 0
    BY <1>1, EmptySeq
  <2>2. 1 \in 1 .. w /\ Len(c) # 0
    BY <1>0, <2>1
  <2> QED BY <1>1, <2>2
<1>4. \A i \in 1 .. n : IsLoss(sg[i]) => IsLoss(sh[i])
  BY <1>2, SameFrame
<1>5. \A i \in 1 .. m : q[i] \in Entry /\ q[i].of \in 1 .. n /\ FaithfulTo(sg, q[i])
  BY DEF Told, Known
<1>6. Known(sh, q)
  <2> SUFFICES ASSUME NEW i \in 1 .. m PROVE FaithfulTo(sh, q[i])
    BY <1>2, <1>5 DEF Known
  <2>1. Same(sg[q[i].of], sh[q[i].of]) /\ (sg[q[i].of].torn => sh[q[i].of].torn)
    BY <1>2, <1>5
  <2> QED BY <1>5, <2>1 DEF FaithfulTo, Same
<1>7. Ahead(q, d)
  BY <1>3 DEF Told, Ahead
<1>8. Reports(sh, from, q, d)
  <2> SUFFICES ASSUME NEW k \in 1 .. n, k >= from, ~sh[k].torn, ~Reported(q, k)
               PROVE d # <<>> /\ k >= d[1].of
    BY <1>2 DEF Reports
  <2>1. k \notin gone /\ ~sg[k].torn
    BY <1>2
  <2>2. c # <<>> /\ k >= c[1].of
    BY <2>1 DEF Told, Reports
  <2>3. PICK i \in 1 .. Len(c) : c[i].of = k /\ Ends(sg, c[i])
    BY <2>1, <2>2 DEF Strand, Covered, EndIn
  <2>4. ~(i \in w + 1 .. Len(c))
    BY <2>1, <2>3
  <2>5. w # 0
    BY <1>0, <2>4
  <2>6. d # <<>>
    BY <1>1, <2>5
  <2> QED BY <1>3, <2>2, <2>6
<1>9. Adjacent(sh, q)
  <2> SUFFICES ASSUME NEW i \in 1 .. m - 1 PROVE Succeeds(sh, q[i], q[i + 1].of)
    BY DEF Adjacent
  <2>1. i + 1 \in 1 .. m
    BY <1>0
  <2>2. Succeeds(sg, q[i], q[i + 1].of)
    BY DEF Told, Adjacent
  <2>3. i \in 1 .. m /\ q[i].of \in 1 .. n /\ Same(sg[q[i].of], sh[q[i].of])
    BY <1>0, <1>2, <1>5
  <2> QED BY <1>4, <1>5, <2>1, <2>2, <2>3 DEF Succeeds, Same
<1>10. d # <<>> => CarriesOn(sh, q, d)
  <2> SUFFICES ASSUME d # <<>>, q # <<>> PROVE Succeeds(sh, q[m], d[1].of)
    BY DEF CarriesOn
  <2>1. Succeeds(sg, q[m], c[1].of) /\ d[1] = c[1]
    BY <1>3 DEF Told, CarriesOn
  <2>2. c[1].of \in 1 .. n
    <3>1. 1 \in 1 .. Len(c)
      BY <1>0, <1>3, EmptySeq
    <3> QED BY <3>1 DEF Strand, Laid, Placed
  <2>3. m \in 1 .. m /\ Same(sg[q[m].of], sh[q[m].of])
    <3>1. m \in 1 .. m
      BY <1>0, EmptySeq
    <3> QED BY <1>2, <1>5, <3>1
  <2> QED BY <1>4, <2>1, <2>2, <2>3 DEF Succeeds, Same
<1> QED BY <1>0, <1>6, <1>7, <1>8, <1>9, <1>10 DEF Told, ToldSoFar, sh, d

------------------------------------------------------------------------------
\* The link and the page.

PageSoFar(sg, s, f, lo, wi, q) ==
  /\ lo \in Seq(WireByte) /\ wi \in Seq(WireByte) /\ Strand(sg, lo \o wi)
  /\ \A i \in 1 .. Len(lo) : lo[i].b # FF
  /\ f \in 0 .. Len(sg) + 1
  /\ s => f > 0 /\ AtStart(lo \o wi) /\ ToldSoFar(sg, f, q, lo \o wi)
  /\ ~s => q = <<>> /\ IF f = 0 THEN lo = <<>> ELSE lo # <<>> /\ lo[1].of + 1 = f

PageOk(sg, s, f, lo, wi, q) ==
  PageSoFar(sg, s, f, lo, wi, q) /\ (s => Told(sg, f, q, lo \o wi))

LEMMA PageExtends ==
  ASSUME NEW sg, Segments(sg), NEW s, NEW f, NEW lo, NEW wi, NEW q, PageSoFar(sg, s, f, lo, wi, q),
         NEW g, WellFormed(g), NEW z, NEW e, Bears(e, g, Len(sg) + 1, z),
         \/ ~sg[Len(sg)].torn /\ PageOk(sg, s, f, lo, wi, q)
         \/ IsLoss(g) /\ z = 0
  PROVE  Segments(Append(sg, g)) /\ PageOk(Append(sg, g), s, f, lo, wi \o e, q)
<1> DEFINE c == lo \o wi
           d == c \o e
           sh == Append(sg, g)
           n == Len(sg)
<1>0. /\ lo \in Seq(WireByte) /\ wi \in Seq(WireByte) /\ e \in Seq(WireByte) /\ Strand(sg, c) /\ n \in Nat
      /\ sg \in Seq(SegmentType) /\ g \in SegmentType /\ z \in {0, 1}
  BY LenProperties DEF PageSoFar, Bears, Segments, WellFormed
<1>1. d = lo \o (wi \o e) /\ wi \o e \in Seq(WireByte)
  <2>1. lo \in Seq(WireByte) /\ wi \in Seq(WireByte) /\ e \in Seq(WireByte)
    BY <1>0
  <2>2. d = lo \o (wi \o e)
    BY ONLY <2>1, ConcatAssociative, SMTT(30)
  <2> QED BY <2>1, <2>2, ConcatProperties
<1>2. c \in Seq(WireByte)
  BY <1>0, ConcatProperties
<1> HIDE DEF c, d
<1>3. /\ Segments(sh) /\ Strand(sh, d) /\ d # <<>>
      /\ d[1].of = IF c = <<>> THEN n + 1 ELSE c[1].of
  <2>1. c # <<>> => IF z = 0 THEN IsLoss(g) \/ ~sg[n].torn ELSE ~sg[n].torn
    OBVIOUS
  <2> QED BY <1>0, <2>1, ExtendStrand DEF d
<1>4. Len(sh) = n + 1
  BY <1>0, AppendProperties
<1>5. AtStart(c) => AtStart(d)
  <2> SUFFICES ASSUME AtStart(c) PROVE d[1].at \in {0, 1}
    BY DEF AtStart
  <2>1. /\ Len(d) = Len(c) + Len(e)
        /\ \A i \in 1 .. Len(c) + Len(e) : d[i] = IF i <= Len(c) THEN c[i] ELSE e[i - Len(c)]
    BY <1>0, <1>2, ConcatProperties DEF d
  <2>2. Len(c) \in Nat /\ Len(e) \in Nat /\ Len(e) >= 2
    <3>1. Size(g) \in Nat /\ Size(g) >= 2 /\ Len(e) = (Size(g) + 1) - z
      BY FrameFacts DEF Bears
    <3> QED BY <1>0, <1>2, <3>1, LenProperties
  <2>3. CASE c = <<>>
    <3>1. Len(c) = 0
      BY <2>3, EmptySeq
    <3>2. 1 \in 1 .. Len(e) /\ (z + 1) - 1 = z /\ d[1] = e[1]
      <4> HIDE DEF d
      <4>1. 1 \in 1 .. Len(e) /\ (z + 1) - 1 = z
        BY <1>0, <2>2
      <4>2. 1 \in 1 .. Len(c) + Len(e) /\ ~(1 <= Len(c)) /\ 1 - Len(c) = 1
        BY <2>2, <3>1
      <4> QED BY <2>1, <4>1, <4>2
    <3>3. e[1].at = z
      BY <3>2 DEF Bears
    <3> QED BY <1>0, <3>2, <3>3
  <2>4. CASE c # <<>>
    <3>1. Len(c) # 0
      BY <1>2, <2>4, EmptySeq
    <3>2. d[1] = c[1]
      <4> HIDE DEF d
      <4> QED BY <2>1, <2>2, <3>1
    <3> QED BY <2>4, <3>2 DEF AtStart
  <2> QED BY <2>3, <2>4
<1>6. s => f > 0 /\ AtStart(d) /\ Told(sh, f, q, d)
  <2> SUFFICES ASSUME s PROVE f > 0 /\ AtStart(d) /\ Told(sh, f, q, d)
    OBVIOUS
  <2>1. f > 0 /\ AtStart(c) /\ ToldSoFar(sg, f, q, c)
    BY DEF PageSoFar, c
  <2>2. c # <<>> => c[1].of \in 1 .. n
    <3>1. c # <<>> => 1 \in 1 .. Len(c)
      BY <1>2, EmptySeq, LenProperties
    <3> QED BY <1>0, <3>1 DEF Strand, Laid, Placed
  <2>3. c = <<>> /\ q # <<>> => (q[Len(q)].of = n /\ q[Len(q)].kind = sg[n].kind) \/ IsLoss(g)
    <3> SUFFICES ASSUME c = <<>>, q # <<>>, ~IsLoss(g)
                 PROVE  q[Len(q)].of = n /\ q[Len(q)].kind = sg[n].kind
      OBVIOUS
    <3>1. Told(sg, f, q, c) /\ ~sg[n].torn
      BY DEF PageOk, c
    <3>2. q[Len(q)].of = n
      BY <3>1 DEF Told, CarriesOn
    <3>3. Len(q) \in 1 .. Len(q)
      BY <3>1, EmptySeq, LenProperties DEF Told
    <3>4. FaithfulTo(sg, q[Len(q)])
      BY <3>1, <3>3 DEF Told, Known
    <3> QED BY <3>1, <3>2, <3>4 DEF FaithfulTo
  <2>4. Told(sh, f, q, d)
    BY <1>0, <1>3, <2>1, <2>2, <2>3, ToldExtends
  <2> QED BY <1>5, <2>1, <2>4
<1>7. s => ToldSoFar(sh, f, q, d)
  BY <1>6 DEF Told, ToldSoFar
<1>8. f \in 0 .. (n + 1) + 1
  BY <1>0 DEF PageSoFar
<1> QED BY <1>0, <1>1, <1>3, <1>4, <1>6, <1>7, <1>8 DEF PageOk, PageSoFar, c

LEMMA FrontOfConcat ==
  ASSUME NEW S, NEW a \in Seq(S), NEW b \in Seq(S), NEW n \in 0 .. Len(b)
  PROVE  /\ Len(a) + n \in 0 .. Len(a \o b)
         /\ SubSeq(a \o b, 1, Len(a) + n) = a \o SubSeq(b, 1, n)
         /\ SubSeq(b, 1, n) \in Seq(S)
         /\ \A i \in (Len(a) + n) + 1 .. Len(a \o b) : i - Len(a) \in n + 1 .. Len(b) /\ (a \o b)[i] = b[i - Len(a)]
<1> DEFINE c == a \o b
           m == Len(a)
           w == m + n
           u == SubSeq(c, 1, w)
           t == SubSeq(b, 1, n)
           v == a \o t
<1>0. m \in Nat /\ Len(b) \in Nat /\ n \in Nat /\ n <= Len(b)
  BY LenProperties
<1>1. /\ c \in Seq(S) /\ Len(c) = m + Len(b)
      /\ \A i \in 1 .. m + Len(b) : c[i] = IF i <= m THEN a[i] ELSE b[i - m]
  BY ConcatProperties
<1>2. w \in 0 .. Len(c)
  BY <1>0, <1>1
<1> HIDE DEF c
<1>3. u \in Seq(S) /\ Len(u) = w /\ \A i \in 1 .. w : u[i] = c[i]
  <2> HIDE DEF w
  <2> QED BY <1>1, <1>2, FrontFacts
<1>4. t \in Seq(S) /\ Len(t) = n /\ \A i \in 1 .. n : t[i] = b[i]
  BY FrontFacts
<1> HIDE DEF t, u
<1>5. /\ v \in Seq(S) /\ Len(v) = m + Len(t)
      /\ \A i \in 1 .. m + Len(t) : v[i] = IF i <= m THEN a[i] ELSE t[i - m]
  BY <1>4, ConcatProperties
<1> HIDE DEF v
<1>6. ASSUME NEW i \in 1 .. Len(u) PROVE u[i] = v[i]
  <2>1. i \in 1 .. w /\ i \in 1 .. m + Len(b) /\ i \in 1 .. m + Len(t)
    BY <1>0, <1>3, <1>4
  <2>2. CASE i <= m
    BY <1>1, <1>3, <1>5, <2>1, <2>2
  <2>3. CASE ~(i <= m)
    <3>1. i - m \in 1 .. n
      BY <1>0, <2>1, <2>3
    <3> QED BY <1>1, <1>3, <1>4, <1>5, <2>1, <2>3, <3>1
  <2> QED BY <2>2, <2>3
<1>7. u = v
  BY <1>3, <1>4, <1>5, <1>6, SeqEqual
<1>8. ASSUME NEW i \in w + 1 .. Len(c) PROVE i - m \in n + 1 .. Len(b) /\ c[i] = b[i - m]
  <2>1. i \in 1 .. m + Len(b) /\ ~(i <= m) /\ i - m \in n + 1 .. Len(b)
    BY <1>0, <1>1
  <2> QED BY <1>1, <2>1
<1> QED BY <1>2, <1>4, <1>7, <1>8 DEF c, u, t, v

LEMMA PageCut ==
  ASSUME NEW sg, Segments(sg), NEW s, NEW f, NEW lo, NEW wi, NEW q, PageOk(sg, s, f, lo, wi, q),
         NEW kept \in 0 .. Len(wi), NEW gone, \A i \in kept + 1 .. Len(wi) : wi[i].of \in gone
  PROVE  PageSoFar(Tear(sg, gone), s, f, lo, SubSeq(wi, 1, kept), q)
<1> DEFINE c == lo \o wi
           w == Len(lo) + kept
           v == SubSeq(wi, 1, kept)
           d == lo \o v
           sh == Tear(sg, gone)
<1>1. lo \in Seq(WireByte) /\ wi \in Seq(WireByte) /\ Strand(sg, c) /\ c \in Seq(WireByte)
  BY ConcatProperties DEF PageOk, PageSoFar
<1>2. /\ w \in 0 .. Len(c) /\ d = SubSeq(c, 1, w) /\ v \in Seq(WireByte)
      /\ \A i \in w + 1 .. Len(c) : i - Len(lo) \in kept + 1 .. Len(wi) /\ c[i] = wi[i - Len(lo)]
  BY <1>1, FrontOfConcat
<1> HIDE DEF c, w, v, d
<1>3. \A i \in w + 1 .. Len(c) : c[i].of \in gone
  BY <1>2
<1>4. Strand(sh, d)
  BY <1>1, <1>2, <1>3, CutStrand
<1>5. ASSUME s PROVE f > 0 /\ AtStart(d) /\ ToldSoFar(sh, f, q, d)
  <2>1. f > 0 /\ AtStart(c) /\ Told(sg, f, q, c)
    BY <1>5 DEF PageOk, PageSoFar, c
  <2>2. ToldSoFar(sh, f, q, d)
    BY <1>1, <1>2, <1>3, <2>1, CutTold
  <2>3. AtStart(d)
    <3> SUFFICES ASSUME d # <<>> PROVE d[1].at \in {0, 1}
      BY DEF AtStart
    <3>1. Len(d) = w /\ (\A i \in 1 .. w : d[i] = c[i]) /\ w \in Nat /\ Len(c) \in Nat /\ w <= Len(c) /\ d \in Seq(WireByte)
      BY <1>1, <1>2, FrontFacts, LenProperties
    <3>2. 1 \in 1 .. w /\ Len(c) # 0
      BY <3>1, EmptySeq
    <3>3. c # <<>> /\ d[1] = c[1]
      BY <3>1, <3>2
    <3> QED BY <2>1, <3>3 DEF AtStart
  <2> QED BY <2>1, <2>2, <2>3
<1>6. Len(sh) = Len(sg)
  BY TearFacts DEF Worn
<1> QED BY <1>1, <1>2, <1>4, <1>5, <1>6 DEF PageOk, PageSoFar, d, v

LEMMA Markers ==
  /\ WellFormed(Loss) /\ WellFormed(Meta) /\ Loss \in SegmentType /\ Meta \in SegmentType
  /\ IsLoss(Loss) /\ ~Loss.torn /\ ~Meta.torn
  /\ ~IsLoss(Meta) /\ ~IsBurst(Loss) /\ ~IsBurst(Meta)
<1>1. Loss = [kind |-> "loss", raw |-> <<>>, joins |-> FALSE, torn |-> FALSE]
  BY DEF Loss, Segment
<1>2. Meta = [kind |-> "meta", raw |-> <<>>, joins |-> FALSE, torn |-> FALSE]
  BY DEF Meta, Segment
<1>3. Loss \in SegmentType /\ Meta \in SegmentType
  BY <1>1, <1>2 DEF SegmentType
<1>4. IsLoss(Loss) /\ ~IsLoss(Meta) /\ ~IsBurst(Loss) /\ ~IsBurst(Meta)
  BY <1>1, <1>2 DEF IsLoss, IsBurst
<1> QED BY <1>1, <1>2, <1>3, <1>4 DEF WellFormed

LEMMA PageSwitches ==
  ASSUME NEW sg, Segments(sg), NEW s, NEW f, NEW lo, NEW wi, NEW q, PageOk(sg, s, f, lo, wi, q),
         NEW kept \in 0 .. Len(wi), NEW gone, \A i \in kept + 1 .. Len(wi) : wi[i].of \in gone
  PROVE  LET n == Len(sg)
             sh == Tear(sg, gone) \o <<Loss, Meta>>
         IN
         /\ Segments(sh) /\ Len(sh) = n + 2 /\ sh[n + 2] = Meta /\ sh[n + 1] = Loss
         /\ \A k \in 1 .. n : sh[k] = Tear(sg, gone)[k]
         /\ PageOk(sh, s, f, lo, (SubSeq(wi, 1, kept) \o Seam(n + 1)) \o Opening(n + 2), q)
<1> DEFINE n == Len(sg)
           st == Tear(sg, gone)
           sl == Append(st, Loss)
           sm == Append(sl, Meta)
           w0 == SubSeq(wi, 1, kept)
           w1 == w0 \o Seam(n + 1)
           w2 == w1 \o Opening(n + 2)
<1>0. n \in Nat /\ n + 1 \in Nat /\ n + 2 \in Nat /\ (n + 1) + 1 = n + 2
  BY LenProperties DEF Segments
<1>1. Segments(st) /\ Len(st) = n /\ st \in Seq(SegmentType)
  BY TearFacts DEF Worn, Segments
<1>2. PageSoFar(st, s, f, lo, w0, q)
  BY PageCut
<1> HIDE DEF st, w0
<1>3. Bears(Seam(n + 1), Loss, n + 1, 0) /\ Bears(Opening(n + 2), Meta, n + 2, 0)
  BY <1>0, BoundaryBears, Markers DEF Seam, Opening
<1>4. /\ sl \in Seq(SegmentType) /\ Len(sl) = n + 1 /\ sl[n + 1] = Loss /\ \A k \in 1 .. n : sl[k] = st[k]
  BY <1>0, <1>1, Markers, AppendProperties
<1>5. Segments(sl) /\ PageOk(sl, s, f, lo, w1, q)
  BY <1>1, <1>2, <1>3, Markers, PageExtends
<1> HIDE DEF sl, w1
<1>6. /\ sm \in Seq(SegmentType) /\ Len(sm) = (n + 1) + 1 /\ sm[(n + 1) + 1] = Meta /\ \A k \in 1 .. n + 1 : sm[k] = sl[k]
  BY <1>0, <1>4, Markers, AppendProperties
<1>7. Segments(sm) /\ PageOk(sm, s, f, lo, w2, q)
  <2>1. ~sl[Len(sl)].torn
    BY <1>4, Markers
  <2>2. PageSoFar(sl, s, f, lo, w1, q)
    BY <1>5 DEF PageOk
  <2>3. Bears(Opening(n + 2), Meta, Len(sl) + 1, 0)
    BY <1>0, <1>3, <1>4
  <2> QED BY <1>5, <2>1, <2>2, <2>3, Markers, PageExtends
<1> HIDE DEF sm, w2
<1>8. sm = st \o <<Loss, Meta>>
  <2> DEFINE t == <<Loss, Meta>>
             u == st \o t
  <2>1. t \in Seq(SegmentType) /\ Len(t) = 2 /\ t[1] = Loss /\ t[2] = Meta
    BY Markers
  <2> HIDE DEF t
  <2>2. /\ u \in Seq(SegmentType) /\ Len(u) = Len(st) + Len(t)
        /\ \A i \in 1 .. Len(st) + Len(t) : u[i] = IF i <= Len(st) THEN st[i] ELSE t[i - Len(st)]
    <3>1. st \in Seq(SegmentType) /\ t \in Seq(SegmentType)
      BY <1>1, <2>1
    <3> QED BY ONLY <3>1, ConcatProperties
  <2> HIDE DEF u
  <2>3. Len(u) = Len(sm)
    BY <1>0, <1>1, <1>6, <2>1, <2>2
  <2>4. ASSUME NEW i \in 1 .. Len(sm) PROVE sm[i] = u[i]
    <3>1. i \in 1 .. n \/ i = n + 1 \/ i = n + 2
      BY <1>0, <1>6
    <3>2. CASE i \in 1 .. n
      <4>1. i \in 1 .. n + 1 /\ i \in 1 .. Len(st) + Len(t) /\ i <= Len(st)
        BY <1>0, <1>1, <2>1, <3>2
      <4> QED BY <1>4, <1>6, <2>2, <3>2, <4>1
    <3>3. CASE i = n + 1
      <4>1. i \in 1 .. n + 1 /\ i \in 1 .. Len(st) + Len(t) /\ ~(i <= Len(st)) /\ i - Len(st) = 1
        BY <1>0, <1>1, <2>1, <3>3
      <4> QED BY <1>4, <1>6, <2>1, <2>2, <3>3, <4>1
    <3>4. CASE i = n + 2
      <4>1. i \in 1 .. Len(st) + Len(t) /\ ~(i <= Len(st)) /\ i - Len(st) = 2
        BY <1>0, <1>1, <2>1, <3>4
      <4> QED BY <1>0, <1>6, <2>1, <2>2, <3>4, <4>1
    <3> QED BY <3>1, <3>2, <3>3, <3>4
  <2>5. sm = u
    BY <1>6, <2>2, <2>3, <2>4, SeqEqual
  <2> QED BY <2>5 DEF u, t
<1>9. sm[n + 1] = Loss /\ \A k \in 1 .. n : sm[k] = st[k]
  <2>1. n + 1 \in 1 .. n + 1 /\ \A k \in 1 .. n : k \in 1 .. n + 1
    BY <1>0
  <2> QED BY <1>4, <1>6, <2>1
<1> QED BY <1>0, <1>6, <1>7, <1>8, <1>9 DEF st, w2, w1, w0

\* The page joins in the middle of something, and drops it.
LEMMA FirstPiece ==
  ASSUME NEW sg, Segments(sg), NEW c, Strand(sg, c), NEW j, FirstBoundary(c, j)
  PROVE  /\ Strand(sg, Behind(c, j)) /\ AtStart(Behind(c, j))
         /\ c[1].of \in 1 .. Len(sg)
         /\ Told(sg, c[1].of + 1, <<>>, Behind(c, j))
<1> DEFINE d == Behind(c, j)
           m == Len(c)
           n == Len(sg)
<1>0. /\ c \in Seq(WireByte) /\ m \in Nat /\ j \in 1 .. m /\ j \in 0 .. m /\ c[j].b = FF /\ n \in Nat
      /\ 1 \in 1 .. m /\ \A i \in 1 .. j - 1 : c[i].b # FF
  BY LenProperties DEF Strand, FirstBoundary, Segments
<1>1. Strand(sg, d)
  BY <1>0, StrandBehind
<1>2. /\ d # <<>> <=> j < m
      /\ j < m => d[1] = c[j + 1]
  <2>1. d \in Seq(WireByte) /\ Len(d) = m - j /\ \A i \in 1 .. m - j : d[i] = c[j + i]
    BY <1>0, BehindFacts
  <2> HIDE DEF d, m
  <2>2. j < m => d[1] = c[j + 1]
    <3>1. j < m => 1 \in 1 .. m - j
      BY <1>0
    <3> QED BY <2>1, <3>1
  <2>3. d = <<>> <=> Len(d) = 0
    BY <2>1, EmptySeq
  <2> QED BY <1>0, <2>1, <2>2, <2>3
<1>3. AtStart(d)
  <2>1. j < m => c[j + 1].at \in {0, 1}
    <3>1. j < m => j \in 1 .. m - 1
      BY <1>0
    <3> QED BY <1>0, <3>1, AfterBoundary
  <2> HIDE DEF d
  <2> QED BY <1>2, <2>1 DEF AtStart
<1>4. c[1].of \in 1 .. n
  BY <1>0 DEF Strand, Laid, Placed
<1>5. Ends(sg, c[j]) => c[j].of = c[1].of
  <2> SUFFICES ASSUME Ends(sg, c[j]), j # 1 PROVE c[j].of = c[1].of
    OBVIOUS
  <2> DEFINE i == j - 1
             x == c[i]
             y == c[j]
  <2>1. i \in 0 .. m /\ i \in 1 .. i /\ i \in 1 .. m - 1 /\ i + 1 = j /\ i \in 1 .. m
    BY <1>0
  <2>2. x.of = c[1].of
    <3> HIDE DEF i
    <3>1. \A k \in 1 .. i : c[k].b # FF
      BY <1>0 DEF i
    <3> QED BY <2>1, <3>1, SameSegment
  <2>3. NextTo(sg, x, y) /\ Placed(sg, x) /\ Placed(sg, y) /\ x.b # FF
    BY <1>0, <2>1 DEF Strand, Linked, Laid
  <2>4. ~Ends(sg, x) /\ y.at # 0
    <3>1. ~Ends(sg, x)
      BY <2>3, PlacedFacts
    <3>2. Size(sg[y.of]) >= 2 /\ y.at = Size(sg[y.of]) /\ Size(sg[y.of]) \in Nat
      BY <2>3, PlacedFacts DEF Ends
    <3>3. y.at # 0
      <4> HIDE DEF y
      <4> QED BY <3>2
    <3> QED BY <3>1, <3>3
  <2> QED BY <2>2, <2>3, <2>4 DEF NextTo, Leads
<1>6. Reports(sg, c[1].of + 1, <<>>, d)
  <2> SUFFICES ASSUME NEW k \in 1 .. n, k >= c[1].of + 1, ~sg[k].torn PROVE d # <<>> /\ k >= d[1].of
    BY DEF Reports
  <2>1. k >= c[1].of /\ k # c[1].of
    BY <1>4
  <2>2. j < m /\ k >= c[j + 1].of
    BY <1>5, <2>1, NothingSkipped
  <2> QED BY <1>2, <2>2
<1> HIDE DEF d
<1>7. <<>> \in Seq(Entry) /\ Len(<<>>) = 0
  OBVIOUS
<1>8. Told(sg, c[1].of + 1, <<>>, d)
  BY <1>6, <1>7 DEF Told, Known, Rising, Ahead, Adjacent, CarriesOn
<1> QED BY <1>1, <1>3, <1>4, <1>8 DEF d

LEMMA PageFeeds ==
  ASSUME NEW sg, Segments(sg), Len(sg) >= 1, ~sg[Len(sg)].torn,
         NEW s \in BOOLEAN, NEW f, NEW lo, NEW wi, NEW q, PageOk(sg, s, f, lo, wi, q), NEW n \in 1 .. Len(wi)
  PROVE  LET buf == lo \o SubSeq(wi, 1, n)
             rest == Behind(wi, n)
             ff == IF f = 0 THEN wi[1].of + 1 ELSE f
             j == SelectInSeq(buf, IsBoundary)
             more == Behind(buf, j)
         IN
         /\ s => /\ Results(buf) \in Seq(Entry)
                 /\ PageOk(sg, TRUE, ff, Behind(buf, LastBoundary(buf, Len(buf))), rest, q \o Results(buf))
         /\ ~s /\ j > 0 => /\ Results(more) \in Seq(Entry)
                           /\ PageOk(sg, TRUE, ff, Behind(more, LastBoundary(more, Len(more))), rest, q \o Results(more))
         /\ ~s /\ ~(j > 0) => PageOk(sg, FALSE, ff, buf, rest, q)
<1> DEFINE head == SubSeq(wi, 1, n)
           buf == lo \o head
           rest == Behind(wi, n)
           ff == IF f = 0 THEN wi[1].of + 1 ELSE f
           c == lo \o wi
           j == SelectInSeq(buf, IsBoundary)
           more == Behind(buf, j)
           m == Len(sg)
<1>0. /\ lo \in Seq(WireByte) /\ wi \in Seq(WireByte) /\ Strand(sg, c) /\ m \in Nat /\ n \in 0 .. Len(wi) /\ n >= 1
      /\ f \in 0 .. m + 1 /\ Len(wi) \in Nat /\ Len(lo) \in Nat /\ c \in Seq(WireByte) /\ n \in Nat
  <2>1. lo \in Seq(WireByte) /\ wi \in Seq(WireByte) /\ Strand(sg, c) /\ f \in 0 .. m + 1
    BY DEF PageOk, PageSoFar
  <2>2. m \in Nat /\ Len(wi) \in Nat /\ Len(lo) \in Nat /\ c \in Seq(WireByte)
    BY <2>1, LenProperties, ConcatProperties DEF Segments
  <2> QED BY <2>1, <2>2
<1>1. /\ head \in Seq(WireByte) /\ Len(head) = n /\ head[1] = wi[1] /\ head \o rest = wi
      /\ rest \in Seq(WireByte)
  <2>1. 1 \in 1 .. n
    BY <1>0
  <2> QED BY <1>0, <2>1, FrontFacts, BehindFacts
<1> HIDE DEF head, rest
<1>2. buf \in Seq(WireByte) /\ Len(buf) \in Nat /\ Len(buf) >= 1
      /\ buf[1] = IF lo = <<>> THEN wi[1] ELSE lo[1]
  <2>1. /\ buf \in Seq(WireByte) /\ Len(buf) = Len(lo) + Len(head)
        /\ \A i \in 1 .. Len(lo) + Len(head) : buf[i] = IF i <= Len(lo) THEN lo[i] ELSE head[i - Len(lo)]
    <3>1. lo \in Seq(WireByte) /\ head \in Seq(WireByte)
      BY <1>1 DEF PageOk, PageSoFar
    <3> QED BY ONLY <3>1, ConcatProperties
  <2> HIDE DEF buf
  <2>2. lo = <<>> <=> Len(lo) = 0
    BY <1>0, EmptySeq
  <2>3. buf[1] = IF Len(lo) = 0 THEN head[1] ELSE lo[1]
    <3>1. 1 \in 1 .. Len(lo) + Len(head)
      BY <1>0, <1>1
    <3> QED BY <1>0, <2>1, <3>1
  <2> QED BY <1>0, <1>1, <2>1, <2>2, <2>3
<1>3. buf \o rest = c
  <2>1. lo \in Seq(WireByte) /\ head \in Seq(WireByte) /\ rest \in Seq(WireByte)
    BY <1>0, <1>1
  <2>2. (lo \o head) \o rest = lo \o (head \o rest)
    BY ONLY <2>1, ConcatAssociative, SMTT(30)
  <2> QED BY <1>1, <2>2
<1> HIDE DEF c, buf
<1>4. c[1] = buf[1] /\ c # <<>> /\ \A i \in 1 .. Len(buf) : i \in 1 .. Len(c) /\ c[i] = buf[i]
  <2>1. /\ buf \o rest \in Seq(WireByte) /\ Len(buf \o rest) = Len(buf) + Len(rest)
        /\ \A i \in 1 .. Len(buf) + Len(rest) : (buf \o rest)[i] = IF i <= Len(buf) THEN buf[i] ELSE rest[i - Len(buf)]
    BY <1>1, <1>2, ConcatProperties
  <2>2. Len(rest) \in Nat
    BY <1>1, LenProperties
  <2>3. \A i \in 1 .. Len(buf) : i \in 1 .. Len(c) /\ c[i] = buf[i]
    <3> SUFFICES ASSUME NEW i \in 1 .. Len(buf) PROVE i \in 1 .. Len(c) /\ c[i] = buf[i]
      OBVIOUS
    <3>1. i \in 1 .. Len(buf) + Len(rest) /\ i <= Len(buf)
      BY <1>2, <2>2
    <3> QED BY <1>3, <2>1, <3>1
  <2>4. 1 \in 1 .. Len(buf)
    BY <1>2
  <2> QED BY <2>3, <2>4, <1>0, EmptySeq
<1>5. c[1].of \in 1 .. m
  <2>1. 1 \in 1 .. Len(c)
    BY <1>2, <1>4
  <2> QED BY <1>0, <2>1 DEF Strand, Laid, Placed
<1>6. ff \in 0 .. m + 1 /\ ff > 0 /\ (f > 0 => ff = f)
  <2>1. f = 0 => lo = <<>>
    BY DEF PageOk, PageSoFar
  <2>2. f = 0 => wi[1].of = c[1].of
    BY <1>2, <1>4, <2>1
  <2> HIDE DEF m, c
  <2>3. CASE f = 0
    <3>1. ff = c[1].of + 1 /\ ~(f > 0)
      BY <2>2, <2>3
    <3> HIDE DEF ff
    <3> QED BY <1>0, <1>5, <3>1, SMTT(20)
  <2>4. CASE f # 0
    <3>1. ff = f
      BY <2>4
    <3> HIDE DEF ff
    <3> QED BY <1>0, <2>4, <3>1
  <2> QED BY <2>3, <2>4
<1>7. ~s => ff = c[1].of + 1
  <2>1. ~s => IF f = 0 THEN lo = <<>> ELSE lo # <<>> /\ lo[1].of + 1 = f
    BY DEF PageOk, PageSoFar
  <2> QED BY <1>2, <1>4, <2>1
<1> HIDE DEF ff
<1>8. ASSUME NEW b \in Seq(WireByte), NEW p, Strand(sg, b \o rest), AtStart(b \o rest),
             Told(sg, ff, p, b \o rest)
      PROVE  /\ Results(b) \in Seq(Entry)
             /\ PageOk(sg, TRUE, ff, Behind(b, LastBoundary(b, Len(b))), rest, p \o Results(b))
  <2> DEFINE t == Behind(b, LastBoundary(b, Len(b)))
             r == Results(b)
  <2>1. /\ Strand(sg, t \o rest) /\ AtStart(t \o rest) /\ Told(sg, ff, p \o r, t \o rest)
        /\ r \in Seq(Entry) /\ t \in Seq(WireByte) /\ \A i \in 1 .. Len(t) : t[i].b # FF
    BY <1>1, <1>8, DigestTells
  <2> HIDE DEF t, r
  <2>2. ToldSoFar(sg, ff, p \o r, t \o rest)
    BY <2>1 DEF Told, ToldSoFar
  <2>3. PageSoFar(sg, TRUE, ff, t, rest, p \o r)
    BY <1>1, <1>6, <2>1, <2>2 DEF PageSoFar
  <2> QED BY <2>1, <2>3 DEF PageOk, t, r
<1>9. ASSUME s PROVE Strand(sg, buf \o rest) /\ AtStart(buf \o rest) /\ Told(sg, ff, q, buf \o rest)
  <2>1. f > 0 /\ AtStart(c) /\ Told(sg, f, q, c)
    BY <1>9 DEF PageOk, PageSoFar, c
  <2> QED BY <1>0, <1>3, <1>6, <2>1
<1>10. \/ j = 0 /\ \A i \in 1 .. Len(buf) : buf[i].b # FF
       \/ FirstBoundary(buf, j)
  BY <1>2, FirstBoundaryIs
<1>11. ASSUME ~s, j > 0
       PROVE  /\ more \in Seq(WireByte) /\ Strand(sg, more \o rest) /\ AtStart(more \o rest)
              /\ Told(sg, ff, q, more \o rest)
  <2>1. FirstBoundary(buf, j)
    BY <1>10, <1>11
  <2>2. j \in 1 .. Len(buf) /\ j \in 0 .. Len(buf)
    BY <1>2, <2>1 DEF FirstBoundary
  <2> HIDE DEF j
  <2>3. FirstBoundary(c, j)
    <3>1. \A i \in 1 .. j - 1 : i \in 1 .. Len(buf)
      BY <1>2, <2>2
    <3> QED BY <1>4, <2>1, <2>2, <3>1 DEF FirstBoundary
  <2>4. more \in Seq(WireByte)
    BY <1>2, <2>2, BehindFacts
  <2>5. Behind(c, j) = more \o rest
    BY <1>1, <1>2, <1>3, <2>2, BehindConcat
  <2>6. q = <<>>
    BY <1>11 DEF PageOk, PageSoFar
  <2> HIDE DEF more
  <2> QED BY <1>0, <1>7, <1>11, <2>3, <2>4, <2>5, <2>6, FirstPiece
<1>12. ASSUME ~s, ~(j > 0) PROVE PageOk(sg, FALSE, ff, buf, rest, q)
  <2>1. \A i \in 1 .. Len(buf) : buf[i].b # FF
    <3>1. ~FirstBoundary(buf, j)
      BY <1>2, <1>12 DEF FirstBoundary
    <3> QED BY <1>10, <3>1
  <2>2. q = <<>>
    BY <1>12 DEF PageOk, PageSoFar
  <2>3. buf # <<>>
    BY <1>2, EmptySeq
  <2>4. buf[1].of + 1 = ff
    BY <1>4, <1>7, <1>12
  <2> HIDE DEF j
  <2> QED BY <1>0, <1>1, <1>2, <1>3, <1>6, <2>1, <2>2, <2>3, <2>4 DEF PageOk, PageSoFar
<1>13. s => /\ Results(buf) \in Seq(Entry)
            /\ PageOk(sg, TRUE, ff, Behind(buf, LastBoundary(buf, Len(buf))), rest, q \o Results(buf))
  BY <1>2, <1>8, <1>9
<1>14. ~s /\ j > 0 => /\ Results(more) \in Seq(Entry)
                      /\ PageOk(sg, TRUE, ff, Behind(more, LastBoundary(more, Len(more))), rest, q \o Results(more))
  <2> HIDE DEF more, j
  <2> QED BY <1>8, <1>11
<1> QED BY <1>12, <1>13, <1>14 DEF buf, head, rest, ff

\* Bits strung together.

StitchType(n) == [joiner : Seq(1 .. n), stream : 0 .. n, joined : SUBSET ((1 .. n) \X (1 .. n))]

BitsOf(s) == IF s.joiner = <<>> THEN s.stream ELSE Last(s.joiner)

Step(s, r) == IF IsBurst(r) THEN Stitch(s, r) ELSE s

Strings(up, before, results) ==
  \A i \in 0 .. Len(results) : up[i] = IF i = 0 THEN {before} ELSE {Step(s, results[i]) : s \in up[i - 1]}

LEMMA StitchedIs ==
  ASSUME NEW before, NEW results \in Seq(Entry)
  PROVE  \E up : Strings(up, before, results) /\ Stitched(before, results) = up[Len(results)]
<1> DEFINE m == Len(results)
           Turn(f, i) == IF i = 0 THEN {before} ELSE {Step(s, results[i]) : s \in f[i - 1]}
           S == {i \in 1 .. m + 1 : \E f : f = [k \in 0 .. i - 1 |-> Turn(f, k)]}
<1>0. m \in Nat
  BY LenProperties
<1>1. ASSUME NEW i \in 1 .. m + 1, \A k \in 1 .. i - 1 : k \in S
      PROVE  i \in S
  <2>1. PICK g : i > 1 => g = [k \in 0 .. (i - 1) - 1 |-> Turn(g, k)]
    <3>1. i > 1 => i - 1 \in 1 .. i - 1
      OBVIOUS
    <3> QED BY <1>1, <3>1
  <2> DEFINE f == [k \in 0 .. i - 1 |-> IF k = i - 1 THEN Turn(g, k) ELSE g[k]]
  <2>2. \A k \in 0 .. (i - 1) - 1 : f[k] = g[k]
    OBVIOUS
  <2>3. ASSUME NEW k \in 0 .. i - 1 PROVE f[k] = Turn(f, k)
    <3>1. Turn(f, k) = Turn(g, k)
      <4>1. k # 0 => k - 1 \in 0 .. (i - 1) - 1
        OBVIOUS
      <4> HIDE DEF f
      <4> QED BY <2>2, <4>1
    <3>2. CASE k = i - 1
      <4>1. f[k] = Turn(g, k)
        BY <3>2
      <4> QED BY <3>1, <4>1
    <3>3. CASE k # i - 1
      <4>1. k \in 0 .. (i - 1) - 1 /\ i > 1
        BY <3>3
      <4>2. g[k] = Turn(g, k)
        <5> HIDE DEF Turn
        <5> QED BY <2>1, <4>1
      <4> HIDE DEF f, Turn
      <4> QED BY <2>2, <3>1, <4>1, <4>2
    <3> QED BY <3>2, <3>3
  <2>4. f = [k \in 0 .. i - 1 |-> f[k]]
    OBVIOUS
  <2> HIDE DEF f
  <2>5. f = [k \in 0 .. i - 1 |-> Turn(f, k)]
    BY <2>3, <2>4
  <2> QED BY <2>5
<1>2. m + 1 \in S
  <2> HIDE DEF S, m
  <2>0. m + 1 \in Nat
    BY <1>0
  <2>1. \A i \in 1 .. m + 1 : i \in S
    BY <1>1, <2>0, FromTheStart
  <2> QED BY <1>0, <2>1
<1>3. PICK g : g = [i \in 0 .. m |-> Turn(g, i)]
  <2>1. (m + 1) - 1 = m
    BY <1>0
  <2> QED BY <1>2, <2>1
<1> DEFINE u == CHOOSE f : f = [i \in 0 .. m |-> Turn(f, i)]
<1>4. Stitched(before, results) = u[m]
  BY DEF Stitched, Step
<1>5. u = [i \in 0 .. m |-> Turn(u, i)]
  <2> HIDE DEF Turn
  <2> QED BY <1>3
<1> HIDE DEF u
<1>6. Strings(u, before, results)
  BY <1>5 DEF Strings
<1> QED BY <1>4, <1>6

\* One record.
LEMMA StitchFacts ==
  ASSUME NEW n \in Nat, NEW s \in StitchType(n), NEW r, r.of \in 1 .. n
  PROVE  /\ Stitch(s, r) \in StitchType(n)
         /\ ~(FlagsOf(r.raw).continued /\ FlagsOf(r.raw).partial) =>
              BitsOf(Stitch(s, r)) = IF FlagsOf(r.raw).partial THEN 0 ELSE r.of
         /\ Stitch(s, r).joined = IF FlagsOf(r.raw).ovf \/ BitsOf(s) = 0 THEN s.joined
                                  ELSE s.joined \cup {<<BitsOf(s), r.of>>}
<1> DEFINE f == FlagsOf(r.raw)
           t == BeforeRecord(s, f)
           b == IF t.joiner = <<>> THEN t.stream ELSE Last(t.joiner)
           o == Stitch(s, r)
<1>0. <<>> \in Seq(1 .. n)
  OBVIOUS
<1>1. f.ovf \in BOOLEAN /\ f.continued \in BOOLEAN /\ f.partial \in BOOLEAN
  BY DEF FlagsOf
<1>2. o = [joiner |-> IF f.continued THEN Append(t.joiner, r.of) ELSE <<>>,
           stream |-> IF f.continued THEN t.stream ELSE IF f.partial THEN 0 ELSE r.of,
           joined |-> IF b = 0 THEN t.joined ELSE t.joined \cup {<<b, r.of>>}]
  BY DEF Stitch
<1> HIDE DEF f, o
<1>3. s.joiner \in Seq(1 .. n) /\ s.stream \in 0 .. n /\ s.joined \in SUBSET ((1 .. n) \X (1 .. n))
  BY DEF StitchType
<1>4. t.joiner = (IF f.ovf THEN <<>> ELSE s.joiner) /\ t.stream = (IF f.ovf THEN 0 ELSE s.stream) /\ t.joined = s.joined
  BY DEF BeforeRecord, StitchType
<1> HIDE DEF t
<1>5. t.joiner \in Seq(1 .. n) /\ t.stream \in 0 .. n
  <2>1. t.joiner \in Seq(1 .. n)
    <3> HIDE DEF t
    <3>1. t.joiner = <<>> \/ t.joiner = s.joiner
      BY <1>4
    <3> QED BY <1>0, <1>3, <3>1
  <2>2. t.stream = 0 \/ t.stream = s.stream
    BY <1>4
  <2> QED BY <1>3, <2>1, <2>2
<1>6. b = IF f.ovf THEN 0 ELSE BitsOf(s)
  BY <1>1, <1>4 DEF BitsOf
<1>7. b \in 0 .. n
  <2>1. ASSUME t.joiner # <<>> PROVE Last(t.joiner) \in 1 .. n
    <3>1. Len(t.joiner) \in 1 .. Len(t.joiner)
      BY <1>5, <2>1, EmptySeq, LenProperties
    <3> QED BY <1>5, <3>1, ElementOfSeq DEF Last
  <2> QED BY <1>5, <2>1
<1> HIDE DEF b
<1> DEFINE a == Append(t.joiner, r.of)
<1>8. a \in Seq(1 .. n) /\ a # <<>> /\ Last(a) = r.of
  <2>1. /\ a \in Seq(1 .. n) /\ Len(a) = Len(t.joiner) + 1 /\ a[Len(t.joiner) + 1] = r.of /\ Len(t.joiner) \in Nat
    BY <1>5, AppendProperties, LenProperties
  <2> HIDE DEF a
  <2>2. Len(a) # 0
    BY <2>1
  <2> QED BY <2>1, <2>2, EmptySeq DEF Last
<1> HIDE DEF a
<1>9. /\ o.joiner = IF f.continued THEN a ELSE <<>>
      /\ o.stream = IF f.continued THEN t.stream ELSE IF f.partial THEN 0 ELSE r.of
      /\ o.joined = IF b = 0 THEN s.joined ELSE s.joined \cup {<<b, r.of>>}
  BY <1>2, <1>4 DEF a
<1>10. o \in StitchType(n)
  <2>1. o.joiner \in Seq(1 .. n)
    BY <1>0, <1>8, <1>9
  <2>2. o.stream \in 0 .. n
    BY <1>5, <1>9
  <2>3. o.joined \in SUBSET ((1 .. n) \X (1 .. n))
    BY <1>3, <1>7, <1>9
  <2>4. o = [joiner |-> o.joiner, stream |-> o.stream, joined |-> o.joined]
    BY <1>2, <1>9, <1>4 DEF a
  <2> QED BY <2>1, <2>2, <2>3, <2>4 DEF StitchType
<1>11. ~(f.continued /\ f.partial) => BitsOf(o) = IF f.partial THEN 0 ELSE r.of
  BY <1>1, <1>8, <1>9 DEF BitsOf
<1> QED BY <1>1, <1>6, <1>9, <1>10, <1>11 DEF f, o

------------------------------------------------------------------------------
\* The bus.

Partial(g) == IsBurst(g) /\ FlagsOf(g.raw).partial

\* What comes behind segment e did not follow, on the bus, the last burst up to there.
Broken(sg, e) ==
  \E l \in 1 .. e : (IsLoss(sg[l]) \/ Partial(sg[l])) /\ \A m \in l + 1 .. e : ~IsBurst(sg[m])

LEMMA BrokenStep ==
  ASSUME NEW sg, NEW e \in Nat
  PROVE  Broken(sg, e + 1) <=> IF IsBurst(sg[e + 1]) THEN Partial(sg[e + 1])
                               ELSE IsLoss(sg[e + 1]) \/ Broken(sg, e)
<1>1. ASSUME NEW l \in 1 .. e + 1, IsLoss(sg[l]) \/ Partial(sg[l]), \A m \in l + 1 .. e + 1 : ~IsBurst(sg[m])
      PROVE  IF IsBurst(sg[e + 1]) THEN Partial(sg[e + 1]) ELSE IsLoss(sg[e + 1]) \/ Broken(sg, e)
  <2>1. CASE l = e + 1
    BY <1>1, <2>1 DEF IsBurst, IsLoss, Partial
  <2>2. CASE l # e + 1
    <3>1. l \in 1 .. e /\ e + 1 \in l + 1 .. e + 1 /\ \A m \in l + 1 .. e : m \in l + 1 .. e + 1
      BY <2>2
    <3>2. ~IsBurst(sg[e + 1]) /\ \A m \in l + 1 .. e : ~IsBurst(sg[m])
      BY <1>1, <3>1
    <3> QED BY <1>1, <3>1, <3>2 DEF Broken
  <2> QED BY <2>1, <2>2
<1>2. ASSUME IsLoss(sg[e + 1]) \/ Partial(sg[e + 1])
      PROVE  Broken(sg, e + 1)
  <2>1. e + 1 \in 1 .. e + 1 /\ \A m \in (e + 1) + 1 .. e + 1 : FALSE
    OBVIOUS
  <2> QED BY <1>2, <2>1 DEF Broken
<1>3. ASSUME Broken(sg, e), ~IsBurst(sg[e + 1])
      PROVE  Broken(sg, e + 1)
  <2>1. PICK l \in 1 .. e : (IsLoss(sg[l]) \/ Partial(sg[l])) /\ \A m \in l + 1 .. e : ~IsBurst(sg[m])
    BY <1>3 DEF Broken
  <2>2. l \in 1 .. e + 1 /\ \A m \in l + 1 .. e + 1 : m \in l + 1 .. e \/ m = e + 1
    OBVIOUS
  <2>3. \A m \in l + 1 .. e + 1 : ~IsBurst(sg[m])
    BY <1>3, <2>1, <2>2
  <2> QED BY <2>1, <2>2, <2>3 DEF Broken
<1> QED BY <1>1, <1>2, <1>3 DEF Broken

\* Segments are marked with whether their bits met those before.
Marked(sg) ==
  \A k \in 1 .. Len(sg) :
    IsBurst(sg[k]) => (sg[k].joins <=> ~FlagsOf(sg[k].raw).ovf /\ ~Broken(sg, k - 1))

LEMMA BurstFlags ==
  ASSUME NEW g, WellFormed(g), IsBurst(g)
  PROVE  ~(FlagsOf(g.raw).continued /\ FlagsOf(g.raw).partial)
<1>1. PICK f, p : MayFlag(f) /\ p \in Payloads /\ g.raw = Raw(f, p)
  BY DEF WellFormed
<1>2. g.raw[2] = FlagByte(f)
  BY <1>1, RawFacts
<1>3. FlagsOf(g.raw).continued = f.continued /\ FlagsOf(g.raw).partial = f.partial
  <2> DEFINE x == FlagByte(f)
  <2>1. ((x \div 2) % 2 = 1 <=> f.continued) /\ (x \div 4 = 1 <=> f.partial)
    BY <1>1, FlagValues
  <2>2. f.continued \in BOOLEAN /\ f.partial \in BOOLEAN
    BY <1>1 DEF MayFlag, Flags
  <2> HIDE DEF x
  <2> QED BY <1>2, <2>1, <2>2 DEF FlagsOf, x
<1> QED BY <1>1, <1>3 DEF MayFlag

\* What has been understood, and the bits strung together so far.

BehindBurst(Q, x, y) ==
  x < y /\ IsBurst(Q[x]) /\ IsBurst(Q[y]) /\ \A z \in x + 1 .. y - 1 : ~IsBurst(Q[z])

Pairs(Q, t) == {p \in (1 .. t) \X (1 .. t) : BehindBurst(Q, p[1], p[2])}

Met(sg, Q, t) ==
  {<<Q[p[1]].of, Q[p[2]].of>> : p \in {p \in Pairs(Q, t) : sg[Q[p[2]].of].joins}}

LastBurst(Q, t, x) == x \in 1 .. t /\ IsBurst(Q[x]) /\ \A z \in x + 1 .. t : ~IsBurst(Q[z])

NoBurst(Q, t) == \A x \in 1 .. t : ~IsBurst(Q[x])

LEMMA PairsStep ==
  ASSUME NEW Q, NEW t \in Nat, NEW p
  PROVE  p \in Pairs(Q, t + 1) <=>
           \/ p \in Pairs(Q, t)
           \/ /\ p \in (1 .. t + 1) \X (1 .. t + 1)
              /\ IsBurst(Q[t + 1]) /\ LastBurst(Q, t, p[1]) /\ p[2] = t + 1
<1>1. ASSUME p \in Pairs(Q, t + 1), p \notin Pairs(Q, t)
      PROVE  /\ p \in (1 .. t + 1) \X (1 .. t + 1)
             /\ IsBurst(Q[t + 1]) /\ LastBurst(Q, t, p[1]) /\ p[2] = t + 1
  <2>1. /\ p[1] \in 1 .. t + 1 /\ p[2] \in 1 .. t + 1 /\ p[1] < p[2] /\ p = <<p[1], p[2]>>
        /\ p \in (1 .. t + 1) \X (1 .. t + 1) /\ BehindBurst(Q, p[1], p[2])
    BY <1>1 DEF Pairs, BehindBurst
  <2>2. p[1] \in 1 .. t
    BY <2>1
  <2>3. p[2] = t + 1
    <3> SUFFICES ASSUME p[2] # t + 1 PROVE FALSE
      OBVIOUS
    <3>1. p[2] \in 1 .. t
      BY <2>1
    <3>2. p \in (1 .. t) \X (1 .. t)
      BY <2>1, <2>2, <3>1
    <3> QED BY <1>1, <2>1, <3>2 DEF Pairs
  <2>4. \A z \in p[1] + 1 .. t : ~IsBurst(Q[z])
    <3>1. (t + 1) - 1 = t
      OBVIOUS
    <3> QED BY <2>1, <2>3, <3>1 DEF BehindBurst
  <2> QED BY <2>1, <2>2, <2>3, <2>4 DEF BehindBurst, LastBurst
<1>2. ASSUME p \in Pairs(Q, t) PROVE p \in Pairs(Q, t + 1)
  <2>1. 1 .. t \subseteq 1 .. t + 1
    OBVIOUS
  <2>2. p \in (1 .. t) \X (1 .. t) /\ BehindBurst(Q, p[1], p[2])
    BY <1>2 DEF Pairs
  <2>3. p \in (1 .. t + 1) \X (1 .. t + 1)
    BY <2>1, <2>2
  <2> QED BY <2>2, <2>3 DEF Pairs
<1>3. ASSUME p \in (1 .. t + 1) \X (1 .. t + 1), IsBurst(Q[t + 1]), LastBurst(Q, t, p[1]), p[2] = t + 1
      PROVE  p \in Pairs(Q, t + 1)
  <2>1. p[1] \in 1 .. t /\ p[1] < p[2] /\ p[2] - 1 = t
    BY <1>3 DEF LastBurst
  <2> QED BY <1>3, <2>1 DEF Pairs, BehindBurst, LastBurst
<1> QED BY <1>1, <1>2, <1>3

\* A record no bits of which meet bits before.
LEMMA MetSame ==
  ASSUME NEW sg, NEW Q, NEW t \in Nat,
         NoBurst(Q, t) \/ ~IsBurst(Q[t + 1]) \/ ~sg[Q[t + 1].of].joins
  PROVE  Met(sg, Q, t + 1) = Met(sg, Q, t)
<1>1. ASSUME NEW p PROVE (p \in Pairs(Q, t + 1) /\ sg[Q[p[2]].of].joins) <=> (p \in Pairs(Q, t) /\ sg[Q[p[2]].of].joins)
  <2>1. ASSUME IsBurst(Q[t + 1]), LastBurst(Q, t, p[1]), p[2] = t + 1 PROVE ~sg[Q[p[2]].of].joins
    BY <2>1 DEF LastBurst, NoBurst
  <2> QED BY <2>1, PairsStep
<1>2. {p \in Pairs(Q, t + 1) : sg[Q[p[2]].of].joins} = {p \in Pairs(Q, t) : sg[Q[p[2]].of].joins}
  BY <1>1
<1> QED BY <1>2 DEF Met

\* A record the bits of which follow those of the one before.
LEMMA MetMore ==
  ASSUME NEW sg, NEW Q, NEW t \in Nat, NEW x, LastBurst(Q, t, x), IsBurst(Q[t + 1]), sg[Q[t + 1].of].joins
  PROVE  Met(sg, Q, t + 1) = Met(sg, Q, t) \cup {<<Q[x].of, Q[t + 1].of>>}
<1> DEFINE A == {p \in Pairs(Q, t) : sg[Q[p[2]].of].joins}
           B == {p \in Pairs(Q, t + 1) : sg[Q[p[2]].of].joins}
           w == <<x, t + 1>>
<1>1. w \in (1 .. t + 1) \X (1 .. t + 1) /\ w[1] = x /\ w[2] = t + 1 /\ x \in 1 .. t
  BY DEF LastBurst
<1>2. ASSUME NEW p PROVE p \in B <=> p \in A \/ p = w
  <2>1. p = w => p \in B
    <3> HIDE DEF w
    <3> QED BY <1>1, PairsStep
  <2>2. p \in A => p \in B
    BY PairsStep
  <2>3. ASSUME p \in B, p \notin A PROVE p = w
    <3>1. p \in (1 .. t + 1) \X (1 .. t + 1) /\ LastBurst(Q, t, p[1]) /\ p[2] = t + 1
      BY <2>3, PairsStep
    <3>2. p[1] = x
      <4>1. p[1] \in 1 .. t /\ x \in 1 .. t /\ ~(p[1] < x) /\ ~(x < p[1])
        BY <3>1 DEF LastBurst
      <4> QED BY <4>1
    <3> QED BY <3>1, <3>2
  <2> QED BY <2>1, <2>2, <2>3
<1>3. B = A \cup {w}
  BY <1>2
<1> HIDE DEF A, B, w
<1>4. {<<Q[p[1]].of, Q[p[2]].of>> : p \in A \cup {w}} = {<<Q[p[1]].of, Q[p[2]].of>> : p \in A} \cup {<<Q[w[1]].of, Q[w[2]].of>>}
  OBVIOUS
<1> QED BY <1>1, <1>3, <1>4 DEF Met, A, B

Exact(sg, r) == r.kind = sg[r.of].kind

\* After the first t of what has been understood; a loss may have been acted upon already.
StitchOk(sg, Q, t, s, pending) ==
  /\ BitsOf(s) # 0 => /\ t >= 1 /\ ~Broken(sg, Q[t].of) /\ Exact(sg, Q[t])
                      /\ \E x : LastBurst(Q, t, x) /\ Q[x].of = BitsOf(s)
  /\ BitsOf(s) = 0 => \/ NoBurst(Q, t) \/ pending
                      \/ t >= 1 /\ (Broken(sg, Q[t].of) \/ ~Exact(sg, Q[t]))
  /\ s.joined = Met(sg, Q, t)

Learnt(sg, Q) == Q \in Seq(Entry) /\ Known(sg, Q) /\ Adjacent(sg, Q)

\* From one to the next.
LEMMA Onward ==
  ASSUME NEW sg, Segments(sg), NEW Q, Learnt(sg, Q), NEW t \in Nat, t + 1 <= Len(Q)
  PROVE  /\ Q[t + 1].of \in 1 .. Len(sg) /\ Q[t + 1].of \in Nat
         /\ FaithfulTo(sg, Q[t + 1]) /\ Q[t + 1] \in Entry
         /\ Q[t + 1].kind # "loss" => Exact(sg, Q[t + 1]) /\ ~IsLoss(sg[Q[t + 1].of])
         /\ IsBurst(Q[t + 1]) => IsBurst(sg[Q[t + 1].of]) /\ Q[t + 1].raw = sg[Q[t + 1].of].raw
         /\ t >= 1 => Q[t].of \in Nat /\ Succeeds(sg, Q[t], Q[t + 1].of)
<1> DEFINE r == Q[t + 1]
<1>0. Len(Q) \in Nat /\ Len(sg) \in Nat /\ t + 1 \in 1 .. Len(Q)
  BY LenProperties DEF Learnt, Segments
<1>1. r.of \in 1 .. Len(sg) /\ FaithfulTo(sg, r) /\ r \in Entry
  BY <1>0 DEF Learnt, Known
<1>2. t >= 1 => Q[t].of \in Nat /\ Succeeds(sg, Q[t], r.of)
  <2> SUFFICES ASSUME t >= 1 PROVE Q[t].of \in Nat /\ Succeeds(sg, Q[t], r.of)
    OBVIOUS
  <2>1. t \in 1 .. Len(Q) - 1 /\ t \in 1 .. Len(Q)
    BY <1>0
  <2>2. Q[t].of \in 1 .. Len(sg)
    BY <2>1 DEF Learnt, Known
  <2> QED BY <2>1, <2>2 DEF Learnt, Adjacent
<1> HIDE DEF r
<1>3. r.kind # "loss" => Exact(sg, r) /\ ~IsLoss(sg[r.of])
  BY <1>1 DEF FaithfulTo, Exact, IsLoss
<1>4. IsBurst(r) => IsBurst(sg[r.of]) /\ r.raw = sg[r.of].raw
  BY <1>1 DEF FaithfulTo, IsBurst
<1> QED BY <1>0, <1>1, <1>2, <1>3, <1>4 DEF r

LEMMA BurstOk ==
  ASSUME NEW sg, Segments(sg), Marked(sg), NEW Q, Learnt(sg, Q), NEW t \in Nat, t + 1 <= Len(Q),
         NEW s \in StitchType(Len(sg)), StitchOk(sg, Q, t, s, FALSE), IsBurst(Q[t + 1])
  PROVE  StitchOk(sg, Q, t + 1, Stitch(s, Q[t + 1]), FALSE)
<1> DEFINE r == Q[t + 1]
           e == r.of
           f == FlagsOf(r.raw)
           o == Stitch(s, r)
<1>0. Len(sg) \in Nat
  BY LenProperties DEF Segments
<1>1. /\ e \in 1 .. Len(sg) /\ e \in Nat /\ Exact(sg, r) /\ ~IsLoss(sg[e])
      /\ IsBurst(sg[e]) /\ r.raw = sg[e].raw
      /\ t >= 1 => Q[t].of \in Nat /\ Succeeds(sg, Q[t], e)
  <2>1. r.kind # "loss"
    BY DEF IsBurst
  <2>2. /\ Q[t + 1].of \in 1 .. Len(sg) /\ Q[t + 1].of \in Nat
        /\ Q[t + 1].kind # "loss" => Exact(sg, Q[t + 1]) /\ ~IsLoss(sg[Q[t + 1].of])
        /\ IsBurst(Q[t + 1]) => IsBurst(sg[Q[t + 1].of]) /\ Q[t + 1].raw = sg[Q[t + 1].of].raw
        /\ t >= 1 => Q[t].of \in Nat /\ Succeeds(sg, Q[t], Q[t + 1].of)
    BY Onward
  <2> QED BY <2>1, <2>2
<1>2. t >= 1 => e = Q[t].of + 1 /\ Exact(sg, Q[t])
  BY <1>1 DEF Succeeds, Exact
<1>3. ~(f.continued /\ f.partial) /\ f.ovf \in BOOLEAN
  <2>1. WellFormed(sg[e])
    BY <1>1 DEF Segments
  <2>2. ~(FlagsOf(sg[e].raw).continued /\ FlagsOf(sg[e].raw).partial)
    BY <1>1, <2>1, BurstFlags
  <2> QED BY <1>1, <2>2 DEF FlagsOf
<1>4. /\ BitsOf(o) = IF f.partial THEN 0 ELSE e
      /\ o.joined = IF f.ovf \/ BitsOf(s) = 0 THEN s.joined ELSE s.joined \cup {<<BitsOf(s), e>>}
  BY <1>0, <1>1, <1>3, StitchFacts
<1>5. sg[e].joins <=> ~f.ovf /\ ~Broken(sg, e - 1)
  BY <1>1 DEF Marked
<1>6. Broken(sg, e) <=> f.partial
  <2>1. e - 1 \in Nat /\ (e - 1) + 1 = e
    BY <1>1
  <2>2. Broken(sg, e) <=> Partial(sg[e])
    BY <1>1, <2>1, BrokenStep
  <2> QED BY <1>1, <2>2 DEF Partial
<1>7. LastBurst(Q, t + 1, t + 1)
  <2>1. t + 1 \in 1 .. t + 1 /\ \A z \in (t + 1) + 1 .. t + 1 : FALSE
    OBVIOUS
  <2> QED BY <2>1 DEF LastBurst
<1>8. t >= 1 => e - 1 = Q[t].of
  BY <1>1, <1>2
<1>9. o.joined = Met(sg, Q, t + 1)
  <2>1. s.joined = Met(sg, Q, t)
    BY DEF StitchOk
  <2>2. CASE f.ovf
    <3>1. ~sg[r.of].joins
      BY <1>5, <2>2
    <3> QED BY <1>4, <2>1, <2>2, <3>1, MetSame
  <2>3. CASE ~f.ovf /\ BitsOf(s) = 0
    <3>1. NoBurst(Q, t) \/ (t >= 1 /\ Broken(sg, Q[t].of))
      BY <1>2, <2>3 DEF StitchOk
    <3>2. NoBurst(Q, t) \/ ~sg[r.of].joins
      BY <1>5, <1>8, <3>1
    <3> QED BY <1>4, <2>1, <2>3, <3>2, MetSame
  <2>4. CASE ~f.ovf /\ BitsOf(s) # 0
    <3>1. PICK x : LastBurst(Q, t, x) /\ Q[x].of = BitsOf(s)
      BY <2>4 DEF StitchOk
    <3>2. sg[r.of].joins
      BY <1>5, <1>8, <2>4 DEF StitchOk
    <3> HIDE DEF o, f
    <3>3. Met(sg, Q, t + 1) = Met(sg, Q, t) \cup {<<Q[x].of, Q[t + 1].of>>}
      <4>1. t \in Nat /\ IsBurst(Q[t + 1]) /\ sg[Q[t + 1].of].joins
        BY <3>2
      <4>2. LastBurst(Q, t, x)
        BY <3>1
      <4> QED BY <4>1, <4>2, MetMore
    <3> QED BY <1>4, <2>1, <2>4, <3>1, <3>3
  <2> QED BY <1>3, <2>2, <2>3, <2>4
<1>10. e # 0 /\ t + 1 >= 1
  BY <1>1
<1> HIDE DEF o, f
<1>11. BitsOf(o) # 0 => /\ t + 1 >= 1 /\ ~Broken(sg, Q[t + 1].of) /\ Exact(sg, Q[t + 1])
                        /\ \E x : LastBurst(Q, t + 1, x) /\ Q[x].of = BitsOf(o)
  BY <1>1, <1>4, <1>6, <1>7, <1>10
<1>12. BitsOf(o) = 0 => t + 1 >= 1 /\ Broken(sg, Q[t + 1].of)
  BY <1>4, <1>6, <1>10
<1> QED BY <1>9, <1>11, <1>12 DEF StitchOk, o

\* A marker, or a loss that has been acted upon.
LEMMA MarkerOk ==
  ASSUME NEW sg, Segments(sg), NEW Q, Learnt(sg, Q), NEW t \in Nat, t + 1 <= Len(Q),
         NEW s, NEW before, StitchOk(sg, Q, t, s, before), ~IsBurst(Q[t + 1]),
         IsLoss(Q[t + 1]) => BitsOf(s) = 0, NEW after, ~IsLoss(Q[t + 1]) /\ before => after
  PROVE  StitchOk(sg, Q, t + 1, s, after)
<1> DEFINE r == Q[t + 1]
           e == r.of
<1>1. /\ e \in Nat /\ e \in 1 .. Len(sg) /\ FaithfulTo(sg, r) /\ r \in Entry
      /\ r.kind # "loss" => Exact(sg, r) /\ ~IsLoss(sg[e])
      /\ t >= 1 => Q[t].of \in Nat /\ Succeeds(sg, Q[t], e)
  BY Onward
<1>2. s.joined = Met(sg, Q, t + 1)
  BY MetSame DEF StitchOk
<1>3. t + 1 >= 1 /\ e - 1 \in Nat /\ (e - 1) + 1 = e
  <2>1. Len(sg) \in Nat
    BY LenProperties DEF Segments
  <2> HIDE DEF e
  <2> QED BY <1>1, <2>1
<1>4. CASE IsLoss(r)
  <2>1. Broken(sg, e) \/ ~Exact(sg, r)
    <3> SUFFICES ASSUME Exact(sg, r) PROVE Broken(sg, e)
      OBVIOUS
    <3>1. IsLoss(sg[e]) /\ ~IsBurst(sg[e])
      BY <1>4 DEF Exact, IsLoss, IsBurst
    <3> QED BY <1>3, <3>1, BrokenStep
  <2> QED BY <1>2, <1>3, <1>4, <2>1 DEF StitchOk
<1>5. CASE ~IsLoss(r)
  <2>1. Exact(sg, r) /\ ~IsLoss(sg[e]) /\ ~IsBurst(sg[e])
    BY <1>1, <1>5 DEF IsLoss, IsBurst, Exact
  <2>2. Broken(sg, e) <=> Broken(sg, e - 1)
    BY <1>3, <2>1, BrokenStep
  <2>3. t >= 1 => e - 1 = Q[t].of /\ Exact(sg, Q[t])
    BY <1>1, <2>1 DEF Succeeds, Exact
  <2>4. NoBurst(Q, t) => NoBurst(Q, t + 1)
    <3>1. \A x \in 1 .. t + 1 : x \in 1 .. t \/ x = t + 1
      OBVIOUS
    <3> QED BY <3>1 DEF NoBurst
  <2>5. ASSUME NEW x, LastBurst(Q, t, x) PROVE LastBurst(Q, t + 1, x)
    <3>1. x \in 1 .. t + 1 /\ \A z \in x + 1 .. t + 1 : z \in x + 1 .. t \/ z = t + 1
      BY <2>5 DEF LastBurst
    <3> QED BY <2>5, <3>1 DEF LastBurst
  <2>6. ASSUME BitsOf(s) # 0
        PROVE  /\ t + 1 >= 1 /\ ~Broken(sg, e) /\ Exact(sg, r)
               /\ \E x : LastBurst(Q, t + 1, x) /\ Q[x].of = BitsOf(s)
    BY <1>3, <2>1, <2>2, <2>3, <2>5, <2>6 DEF StitchOk
  <2>7. ASSUME BitsOf(s) = 0
        PROVE  NoBurst(Q, t + 1) \/ after \/ Broken(sg, e)
    BY <1>5, <2>2, <2>3, <2>4, <2>7 DEF StitchOk
  <2> QED BY <1>2, <1>3, <2>6, <2>7 DEF StitchOk
<1> QED BY <1>4, <1>5

\* The records of a chunk: the losses among them have been acted upon before the first.

LossIn(R, i) == \E j \in i + 1 .. Len(R) : IsLoss(R[j])

Gluing(R) == \E i, j \in DOMAIN R : i < j /\ IsBurst(R[i]) /\ IsLoss(R[j])

LEMMA StitchedOk ==
  ASSUME NEW sg, Segments(sg), Marked(sg), NEW p \in Seq(Entry), NEW R \in Seq(Entry), Learnt(sg, p \o R),
         NEW s0 \in StitchType(Len(sg)), NEW clean,
         clean => /\ ~Gluing(R) /\ StitchOk(sg, p \o R, Len(p), s0, LossIn(R, 0))
                  /\ LossIn(R, 0) => BitsOf(s0) = 0
  PROVE  \E s \in StitchType(Len(sg)) :
           Stitched(s0, R) = {s} /\ (clean => StitchOk(sg, p \o R, Len(p \o R), s, FALSE))
<1> DEFINE Q == p \o R
           m == Len(R)
           l == Len(p)
           n == Len(sg)
<1>0. /\ m \in Nat /\ l \in Nat /\ n \in Nat /\ Q \in Seq(Entry) /\ Len(Q) = l + m
      /\ \A i \in 1 .. m : Q[l + i] = R[i]
  <2>1. m \in Nat /\ l \in Nat /\ n \in Nat
    BY LenProperties DEF Segments
  <2>2. /\ Q \in Seq(Entry) /\ Len(Q) = l + m
        /\ \A i \in 1 .. l + m : Q[i] = IF i <= l THEN p[i] ELSE R[i - l]
    BY ConcatProperties
  <2> HIDE DEF Q
  <2>3. ASSUME NEW i \in 1 .. m PROVE Q[l + i] = R[i]
    <3>1. l + i \in 1 .. l + m /\ ~(l + i <= l) /\ (l + i) - l = i
      BY <2>1
    <3> QED BY <2>2, <3>1
  <2> QED BY <2>1, <2>2, <2>3
<1>1. PICK up : Strings(up, s0, R) /\ Stitched(s0, R) = up[m]
  BY StitchedIs
<1> HIDE DEF Q
<1> DEFINE Right(i, s) ==
             /\ s \in StitchType(n) /\ up[i] = {s}
             /\ clean => /\ StitchOk(sg, Q, l + i, s, LossIn(R, i))
                         /\ (\A j \in 1 .. i : ~IsBurst(R[j])) => s = s0
           S == {i \in 1 .. m + 1 : \E s : Right(i - 1, s)}
<1>2. Right(0, s0)
  <2>1. up[0] = {s0}
    <3>1. 0 \in 0 .. Len(R)
      BY <1>0
    <3> QED BY <1>1, <3>1 DEF Strings
  <2>2. l + 0 = l
    BY <1>0
  <2> QED BY <2>1, <2>2 DEF Q
<1>3. ASSUME NEW i \in 1 .. m, NEW s, Right(i - 1, s) PROVE Right(i, Step(s, R[i]))
  <2> DEFINE t == l + (i - 1)
             r == R[i]
             o == Step(s, r)
  <2>0. i \in Nat /\ i >= 1 /\ i <= m /\ i \in 0 .. m /\ i # 0
    BY <1>0
  <2>1. s \in StitchType(n) /\ up[i - 1] = {s}
    BY <1>3
  <2>2. up[i] = {o}
    <3>1. up[i] = {Step(u, R[i]) : u \in up[i - 1]}
      BY <1>1, <2>0 DEF Strings
    <3> QED BY <2>1, <3>1
  <2>3. t \in Nat /\ t + 1 <= Len(Q) /\ t + 1 = l + i /\ Q[t + 1] = r /\ Learnt(sg, Q)
    BY <1>0, <2>0 DEF Q
  <2>4. r.of \in 1 .. n
    <3> HIDE DEF t
    <3> QED BY <2>3, Onward
  <2>5. o \in StitchType(n)
    BY <1>0, <2>1, <2>4, StitchFacts DEF Step
  <2>6. LossIn(R, i - 1) <=> IsLoss(r) \/ LossIn(R, i)
    <3>1. \A j : j \in (i - 1) + 1 .. m <=> j = i \/ j \in i + 1 .. m
      BY <1>0, <2>0
    <3> HIDE DEF m
    <3> QED BY <3>1 DEF LossIn, m
  <2>7. ASSUME clean
        PROVE  /\ StitchOk(sg, Q, l + i, o, LossIn(R, i))
               /\ (\A j \in 1 .. i : ~IsBurst(R[j])) => o = s0
    <3>1. /\ StitchOk(sg, Q, t, s, LossIn(R, i - 1)) /\ ~Gluing(R)
          /\ (\A j \in 1 .. i - 1 : ~IsBurst(R[j])) => s = s0
      BY <1>3, <2>7
    <3>2. DOMAIN R = 1 .. m
      BY LenProperties
    <3> HIDE DEF t
    <3>3. CASE IsBurst(r)
      <4>1. ~LossIn(R, i)
        <5> SUFFICES ASSUME NEW j \in i + 1 .. m, IsLoss(R[j]) PROVE FALSE
          BY DEF LossIn
        <5>1. j \in DOMAIN R /\ i \in DOMAIN R /\ i < j
          BY <1>0, <2>0, <3>2
        <5> QED BY <3>1, <3>3, <5>1 DEF Gluing
      <4>2. ~IsLoss(r)
        BY <3>3 DEF IsBurst, IsLoss
      <4>3. StitchOk(sg, Q, t, s, FALSE)
        BY <2>6, <3>1, <4>1, <4>2 DEF StitchOk
      <4>4. StitchOk(sg, Q, t + 1, Stitch(s, r), FALSE)
        BY <2>1, <2>3, <3>3, <4>3, BurstOk
      <4>5. StitchOk(sg, Q, l + i, o, LossIn(R, i))
        BY <2>3, <3>3, <4>4 DEF Step, StitchOk
      <4>6. i \in 1 .. i
        BY <2>0
      <4> QED BY <3>3, <4>5, <4>6
    <3>4. CASE ~IsBurst(r)
      <4>1. o = s
        BY <3>4 DEF Step
      <4>2. ASSUME IsLoss(r) PROVE BitsOf(s) = 0
        <5>1. \A j \in 1 .. i - 1 : ~IsBurst(R[j])
          <6> SUFFICES ASSUME NEW j \in 1 .. i - 1, IsBurst(R[j]) PROVE FALSE
            OBVIOUS
          <6>1. j \in DOMAIN R /\ i \in DOMAIN R /\ j < i
            BY <1>0, <2>0, <3>2
          <6> QED BY <3>1, <4>2, <6>1 DEF Gluing
        <5>2. LossIn(R, 0)
          <6>1. i \in 0 + 1 .. m
            BY <2>0
          <6> QED BY <4>2, <6>1 DEF LossIn
        <5> QED BY <2>7, <3>1, <5>1, <5>2
      <4>3. ~IsLoss(r) /\ LossIn(R, i - 1) => LossIn(R, i)
        BY <2>6
      <4> DEFINE before == LossIn(R, i - 1)
                 after == LossIn(R, i)
      <4>4. StitchOk(sg, Q, t, s, before) /\ (~IsLoss(r) /\ before => after)
        BY <3>1, <4>3
      <4> HIDE DEF before, after
      <4>5. StitchOk(sg, Q, t + 1, s, after)
        BY <2>3, <3>4, <4>2, <4>4, MarkerOk
      <4>6. \A j \in 1 .. i - 1 : j \in 1 .. i
        BY <2>0
      <4> QED BY <2>3, <3>1, <4>1, <4>5, <4>6 DEF after
    <3> QED BY <3>3, <3>4
  <2> HIDE DEF o
  <2> QED BY <2>2, <2>5, <2>7 DEF o
<1> HIDE DEF Right
<1>4. ASSUME NEW i \in 1 .. m + 1, \A k \in 1 .. i - 1 : k \in S PROVE i \in S
  <2>1. CASE i = 1
    BY <1>2, <2>1
  <2>2. CASE i # 1
    <3>1. i - 1 \in 1 .. m /\ i - 1 \in 1 .. i - 1
      BY <1>0, <2>2
    <3>2. PICK s : Right((i - 1) - 1, s)
      BY <1>4, <3>1
    <3> QED BY <1>3, <3>1, <3>2
  <2> QED BY <2>1, <2>2
<1>5. PICK s : Right(m, s)
  <2>1. m + 1 \in Nat /\ m + 1 \in 1 .. m + 1 /\ (m + 1) - 1 = m
    BY <1>0
  <2>2. \A i \in 1 .. m + 1 : i \in S
    <3> HIDE DEF S, m
    <3> QED BY <1>4, <2>1, FromTheStart
  <2> QED BY <2>1, <2>2
<1>6. ~LossIn(R, m)
  <2>1. \A j \in m + 1 .. m : FALSE
    BY <1>0
  <2> QED BY <2>1 DEF LossIn
<1>7. clean => StitchOk(sg, Q, l + m, s, FALSE)
  BY <1>5, <1>6 DEF Right, StitchOk
<1> QED BY <1>0, <1>1, <1>5, <1>7 DEF Right, Q

\* The device goes on: what has been strung together stays what it was.

Alike(g, h) == Same(g, h) /\ g.joins = h.joins

LEMMA BrokenSame ==
  ASSUME NEW sg, NEW sh, NEW e \in Nat, \A k \in 1 .. e : Same(sg[k], sh[k])
  PROVE  Broken(sg, e) <=> Broken(sh, e)
<1>1. \A k \in 1 .. e : /\ IsLoss(sg[k]) <=> IsLoss(sh[k])
                        /\ IsBurst(sg[k]) <=> IsBurst(sh[k])
                        /\ Partial(sg[k]) <=> Partial(sh[k])
  BY DEF Same, IsLoss, IsBurst, Partial
<1>2. \A l \in 1 .. e : \A m \in l + 1 .. e : m \in 1 .. e
  OBVIOUS
<1> QED BY <1>1, <1>2 DEF Broken

LEMMA MarkedSame ==
  ASSUME NEW sg, Segments(sg), Marked(sg), NEW sh, Len(sh) = Len(sg),
         \A k \in 1 .. Len(sg) : Alike(sg[k], sh[k])
  PROVE  Marked(sh) /\ \A e \in 0 .. Len(sg) : Broken(sg, e) <=> Broken(sh, e)
<1>0. Len(sg) \in Nat
  BY LenProperties DEF Segments
<1>1. ASSUME NEW e \in 0 .. Len(sg) PROVE Broken(sg, e) <=> Broken(sh, e)
  <2>1. e \in Nat /\ \A k \in 1 .. e : Same(sg[k], sh[k])
    BY <1>0 DEF Alike
  <2> QED BY <2>1, BrokenSame
<1>2. Marked(sh)
  <2> SUFFICES ASSUME NEW k \in 1 .. Len(sg), IsBurst(sh[k])
               PROVE  sh[k].joins <=> ~FlagsOf(sh[k].raw).ovf /\ ~Broken(sh, k - 1)
    BY DEF Marked
  <2>1. k - 1 \in 0 .. Len(sg)
    BY <1>0
  <2>2. Broken(sg, k - 1) <=> Broken(sh, k - 1)
    BY <1>1, <2>1
  <2>3. sg[k].joins = sh[k].joins /\ sg[k].raw = sh[k].raw /\ IsBurst(sg[k])
    BY DEF Alike, Same, IsBurst
  <2> QED BY <2>2, <2>3 DEF Marked
<1> QED BY <1>1, <1>2

LEMMA MarkedAppend ==
  ASSUME NEW sg, Segments(sg), Marked(sg), NEW g \in SegmentType,
         IsBurst(g) => (g.joins <=> ~FlagsOf(g.raw).ovf /\ ~Broken(sg, Len(sg)))
  PROVE  /\ Marked(Append(sg, g)) /\ Len(Append(sg, g)) = Len(sg) + 1
         /\ Append(sg, g)[Len(sg) + 1] = g
         /\ \A k \in 1 .. Len(sg) : Append(sg, g)[k] = sg[k] /\ Alike(sg[k], Append(sg, g)[k])
         /\ Broken(Append(sg, g), Len(sg) + 1) <=> IF IsBurst(g) THEN Partial(g) ELSE IsLoss(g) \/ Broken(sg, Len(sg))
<1> DEFINE n == Len(sg)
           sh == Append(sg, g)
<1>0. n \in Nat /\ sg \in Seq(SegmentType)
  BY LenProperties DEF Segments
<1>1. Len(sh) = n + 1 /\ sh[n + 1] = g /\ \A k \in 1 .. n : sh[k] = sg[k]
  BY <1>0, AppendProperties
<1> HIDE DEF sh
<1>2. ASSUME NEW e \in 0 .. n PROVE Broken(sg, e) <=> Broken(sh, e)
  <2>1. \A k \in 1 .. e : k \in 1 .. n
    BY <1>0
  <2>2. e \in Nat /\ \A k \in 1 .. e : Same(sg[k], sh[k])
    BY <1>0, <1>1, <2>1 DEF Same
  <2> QED BY <2>2, BrokenSame
<1>3. Broken(sh, n + 1) <=> IF IsBurst(g) THEN Partial(g) ELSE IsLoss(g) \/ Broken(sg, n)
  <2>1. n \in 0 .. n
    BY <1>0
  <2> QED BY <1>0, <1>1, <1>2, <2>1, BrokenStep
<1>4. Marked(sh)
  <2> SUFFICES ASSUME NEW k \in 1 .. n + 1, IsBurst(sh[k])
               PROVE  sh[k].joins <=> ~FlagsOf(sh[k].raw).ovf /\ ~Broken(sh, k - 1)
    BY <1>1 DEF Marked
  <2>1. k - 1 \in 0 .. n /\ (n + 1) - 1 = n
    BY <1>0
  <2>2. Broken(sg, k - 1) <=> Broken(sh, k - 1)
    BY <1>2, <2>1
  <2>3. CASE k = n + 1
    BY <1>1, <2>1, <2>2, <2>3
  <2>4. CASE k # n + 1
    <3>1. k \in 1 .. n
      BY <1>0, <2>4
    <3> QED BY <1>1, <2>2, <3>1 DEF Marked
  <2> QED BY <2>3, <2>4
<1>5. \A k \in 1 .. n : sh[k] = sg[k] /\ Alike(sg[k], sh[k])
  BY <1>1 DEF Alike, Same
<1> QED BY <1>1, <1>3, <1>4, <1>5 DEF sh

LEMMA StitchSame ==
  ASSUME NEW sg, Segments(sg), NEW sh, \A k \in 1 .. Len(sg) : Alike(sg[k], sh[k]),
         NEW q \in Seq(Entry), Known(sg, q), NEW s, StitchOk(sg, q, Len(q), s, FALSE)
  PROVE  StitchOk(sh, q, Len(q), s, FALSE)
<1> DEFINE t == Len(q)
<1>0. Len(sg) \in Nat /\ t \in Nat
  BY LenProperties DEF Segments
<1>1. \A i \in 1 .. t : q[i].of \in 1 .. Len(sg)
  BY DEF Known
<1>2. \A e \in 0 .. Len(sg) : Broken(sg, e) <=> Broken(sh, e)
  <2> SUFFICES ASSUME NEW e \in 0 .. Len(sg) PROVE Broken(sg, e) <=> Broken(sh, e)
    OBVIOUS
  <2>1. e \in Nat /\ \A k \in 1 .. e : Same(sg[k], sh[k])
    BY <1>0 DEF Alike
  <2> QED BY <2>1, BrokenSame
<1>3. t >= 1 => /\ Broken(sg, q[t].of) <=> Broken(sh, q[t].of)
                /\ Exact(sg, q[t]) <=> Exact(sh, q[t])
  <2> SUFFICES ASSUME t >= 1
               PROVE  /\ Broken(sg, q[t].of) <=> Broken(sh, q[t].of)
                      /\ Exact(sg, q[t]) <=> Exact(sh, q[t])
    OBVIOUS
  <2>1. q[t].of \in 1 .. Len(sg)
    BY <1>0, <1>1
  <2>2. q[t].of \in 0 .. Len(sg)
    <3> HIDE DEF t
    <3> QED BY <1>0, <2>1
  <2> QED BY <1>2, <2>1, <2>2 DEF Alike, Same, Exact
<1>4. Met(sh, q, t) = Met(sg, q, t)
  <2>1. \A p \in Pairs(q, t) : p[2] \in 1 .. t
    BY DEF Pairs
  <2>2. \A p \in Pairs(q, t) : sg[q[p[2]].of].joins = sh[q[p[2]].of].joins
    BY <1>1, <2>1 DEF Alike
  <2>3. {p \in Pairs(q, t) : sg[q[p[2]].of].joins} = {p \in Pairs(q, t) : sh[q[p[2]].of].joins}
    BY <2>2
  <2> QED BY <2>3 DEF Met
<1> HIDE DEF t
<1> QED BY <1>3, <1>4 DEF StitchOk, t

\* A beginning.
LEMMA StitchFront ==
  ASSUME NEW sg, NEW p \in Seq(Entry), NEW R \in Seq(Entry), NEW s, StitchOk(sg, p, Len(p), s, FALSE)
  PROVE  StitchOk(sg, p \o R, Len(p), s, FALSE)
<1> DEFINE Q == p \o R
           t == Len(p)
<1>0. t \in Nat /\ Len(R) \in Nat
  BY LenProperties
<1>1. \A i \in 1 .. t : Q[i] = p[i]
  <2>1. \A i \in 1 .. t + Len(R) : Q[i] = IF i <= t THEN p[i] ELSE R[i - t]
    BY ConcatProperties
  <2> HIDE DEF Q
  <2>2. \A i \in 1 .. t : i \in 1 .. t + Len(R) /\ i <= t
    BY <1>0
  <2> QED BY <2>1, <2>2
<1> HIDE DEF Q, t
<1>2. NoBurst(p, t) => NoBurst(Q, t)
  BY <1>1 DEF NoBurst
<1>3. t >= 1 => Q[t] = p[t]
  <2>1. t >= 1 => t \in 1 .. t
    BY <1>0
  <2> QED BY <1>1, <2>1
<1>4. ASSUME NEW x, LastBurst(p, t, x) PROVE LastBurst(Q, t, x) /\ Q[x] = p[x]
  <2>1. x \in 1 .. t /\ \A z \in x + 1 .. t : z \in 1 .. t
    BY <1>4 DEF LastBurst
  <2> QED BY <1>1, <1>4, <2>1 DEF LastBurst
<1>5. Met(sg, Q, t) = Met(sg, p, t)
  <2>1. ASSUME NEW x \in 1 .. t, NEW y \in 1 .. t PROVE BehindBurst(Q, x, y) <=> BehindBurst(p, x, y)
    <3>1. \A z \in x + 1 .. y - 1 : z \in 1 .. t
      BY <1>0
    <3> QED BY <1>1, <3>1 DEF BehindBurst
  <2>2. Pairs(Q, t) = Pairs(p, t)
    BY <2>1 DEF Pairs
  <2>3. \A w \in Pairs(p, t) : Q[w[1]] = p[w[1]] /\ Q[w[2]] = p[w[2]]
    BY <1>1 DEF Pairs
  <2>4. {w \in Pairs(Q, t) : sg[Q[w[2]].of].joins} = {w \in Pairs(p, t) : sg[p[w[2]].of].joins}
    BY <2>2, <2>3
  <2>5. \A w \in {w \in Pairs(p, t) : sg[p[w[2]].of].joins} : <<Q[w[1]].of, Q[w[2]].of>> = <<p[w[1]].of, p[w[2]].of>>
    BY <2>3
  <2> DEFINE A == {w \in Pairs(p, t) : sg[p[w[2]].of].joins}
  <2>6. Met(sg, Q, t) = {<<Q[w[1]].of, Q[w[2]].of>> : w \in A} /\ Met(sg, p, t) = {<<p[w[1]].of, p[w[2]].of>> : w \in A}
    BY <2>4 DEF Met
  <2> HIDE DEF A
  <2>7. \A w \in A : <<Q[w[1]].of, Q[w[2]].of>> = <<p[w[1]].of, p[w[2]].of>>
    BY <2>5 DEF A
  <2> QED BY <2>6, <2>7, SMTT(20)
<1>6. BitsOf(s) # 0 => /\ t >= 1 /\ ~Broken(sg, Q[t].of) /\ Exact(sg, Q[t])
                       /\ \E x : LastBurst(Q, t, x) /\ Q[x].of = BitsOf(s)
  BY <1>3, <1>4 DEF StitchOk, t
<1>7. BitsOf(s) = 0 => NoBurst(Q, t) \/ (t >= 1 /\ (Broken(sg, Q[t].of) \/ ~Exact(sg, Q[t])))
  BY <1>2, <1>3 DEF StitchOk, t
<1>8. s.joined = Met(sg, Q, t)
  BY <1>5 DEF StitchOk, t
<1>9. StitchOk(sg, Q, t, s, FALSE)
  BY <1>6, <1>7, <1>8 DEF StitchOk
<1> QED BY <1>9 DEF Q, t

LEMMA PageKnows ==
  ASSUME NEW sg, NEW s, NEW f, NEW lo, NEW wi, NEW q, PageOk(sg, s, f, lo, wi, q)
  PROVE  q \in Seq(Entry) /\ Known(sg, q) /\ Rising(q) /\ Adjacent(sg, q)
<1>1. CASE s
  BY <1>1 DEF PageOk, Told
<1>2. CASE ~s
  <2>1. q = <<>>
    BY <1>2 DEF PageOk, PageSoFar
  <2>2. Len(q) = 0 /\ q \in Seq(Entry)
    BY <2>1, EmptySeq
  <2> QED BY <2>2 DEF Known, Rising, Adjacent
<1> QED BY <1>1, <1>2

LEMMA MoreSegments ==
  ASSUME NEW n \in Nat, NEW m \in Nat, n <= m, NEW s \in StitchType(n)
  PROVE  s \in StitchType(m)
<1>1. s.joiner \in Seq(1 .. n) /\ 1 .. n \subseteq 1 .. m /\ 0 .. n \subseteq 0 .. m
  BY DEF StitchType
<1>2. s.joiner \in Seq(1 .. m)
  <2>1. Len(s.joiner) \in Nat /\ s.joiner = [i \in 1 .. Len(s.joiner) |-> s.joiner[i]]
    BY <1>1, LenProperties
  <2>2. \A i \in 1 .. Len(s.joiner) : s.joiner[i] \in 1 .. m
    BY <1>1, ElementOfSeq
  <2> QED BY <2>1, <2>2, IsASeq
<1>3. s.stream \in 0 .. m
  BY <1>1 DEF StitchType
<1>4. s.joined \in SUBSET ((1 .. m) \X (1 .. m))
  BY <1>1 DEF StitchType
<1>5. s = [joiner |-> s.joiner, stream |-> s.stream, joined |-> s.joined]
  BY DEF StitchType
<1> HIDE DEF StitchType
<1> QED BY <1>2, <1>3, <1>4, <1>5 DEF StitchType

\* The device sends one more segment.
LEMMA Grows ==
  ASSUME NEW sg, Segments(sg), Len(sg) >= 1, ~sg[Len(sg)].torn, Marked(sg),
         NEW s, NEW f, NEW lo, NEW wi, NEW q, PageOk(sg, s, f, lo, wi, q),
         NEW str \in StitchType(Len(sg)),
         NEW g, WellFormed(g), ~g.torn,
         IsBurst(g) => (g.joins <=> ~FlagsOf(g.raw).ovf /\ ~Broken(sg, Len(sg)))
  PROVE  LET sh == Append(sg, g) IN
         /\ Segments(sh) /\ Len(sh) >= 1 /\ ~sh[Len(sh)].torn /\ Marked(sh)
         /\ Broken(sh, Len(sh)) <=> IF IsBurst(g) THEN Partial(g) ELSE IsLoss(g) \/ Broken(sg, Len(sg))
         /\ PageOk(sh, s, f, lo, wi \o Sent(g, Len(sg) + 1), q)
         /\ str \in StitchType(Len(sh))
         /\ StitchOk(sg, q, Len(q), str, FALSE) => StitchOk(sh, q, Len(q), str, FALSE)
<1> DEFINE n == Len(sg)
           sh == Append(sg, g)
<1>0. n \in Nat /\ n + 1 \in Nat /\ n <= n + 1
  BY LenProperties DEF Segments
<1>1. g \in SegmentType
  BY DEF WellFormed
<1>2. /\ Marked(sh) /\ Len(sh) = n + 1 /\ sh[n + 1] = g
      /\ \A k \in 1 .. n : Alike(sg[k], sh[k])
      /\ Broken(sh, n + 1) <=> IF IsBurst(g) THEN Partial(g) ELSE IsLoss(g) \/ Broken(sg, n)
  BY <1>1, MarkedAppend
<1>3. Segments(sh) /\ PageOk(sh, s, f, lo, wi \o Sent(g, n + 1), q)
  <2>1. Bears(Sent(g, n + 1), g, n + 1, 1)
    BY <1>0, SentBears
  <2>2. PageSoFar(sg, s, f, lo, wi, q)
    BY DEF PageOk
  <2> QED BY <2>1, <2>2, PageExtends
<1>4. str \in StitchType(n + 1)
  BY <1>0, MoreSegments
<1>5. StitchOk(sg, q, Len(q), str, FALSE) => StitchOk(sh, q, Len(q), str, FALSE)
  <2>1. q \in Seq(Entry) /\ Known(sg, q)
    BY PageKnows
  <2> HIDE DEF sh
  <2> QED BY <1>2, <2>1, StitchSame
<1> HIDE DEF sh, n
<1>6. Len(sh) >= 1 /\ ~sh[Len(sh)].torn
  BY <1>0, <1>2
<1> QED BY <1>2, <1>3, <1>4, <1>5, <1>6 DEF sh, n

\* The RAM ring is cleared, and clocked capture begins again.
LEMMA SwitchesOver ==
  ASSUME NEW sg, Segments(sg), Marked(sg),
         NEW s, NEW f, NEW lo, NEW wi, NEW q, PageOk(sg, s, f, lo, wi, q),
         NEW str \in StitchType(Len(sg)),
         NEW kept \in 0 .. Len(wi), NEW gone, \A i \in kept + 1 .. Len(wi) : wi[i].of \in gone
  PROVE  LET n == Len(sg)
             sh == Tear(sg, gone) \o <<Loss, Meta>>
         IN
         /\ Segments(sh) /\ Len(sh) >= 1 /\ ~sh[Len(sh)].torn /\ Marked(sh) /\ Broken(sh, Len(sh))
         /\ PageOk(sh, s, f, lo, (SubSeq(wi, 1, kept) \o Seam(n + 1)) \o Opening(n + 2), q)
         /\ str \in StitchType(Len(sh))
         /\ StitchOk(sg, q, Len(q), str, FALSE) => StitchOk(sh, q, Len(q), str, FALSE)
<1> DEFINE n == Len(sg)
           te == Tear(sg, gone)
           sh == te \o <<Loss, Meta>>
<1>0. n \in Nat /\ n + 2 \in Nat /\ n <= n + 2
  BY LenProperties DEF Segments
<1>1. /\ Segments(sh) /\ Len(sh) = n + 2 /\ sh[n + 2] = Meta /\ sh[n + 1] = Loss
      /\ \A k \in 1 .. n : sh[k] = te[k]
      /\ PageOk(sh, s, f, lo, (SubSeq(wi, 1, kept) \o Seam(n + 1)) \o Opening(n + 2), q)
  BY PageSwitches
<1>2. \A k \in 1 .. n : Alike(sg[k], te[k])
  BY TearFacts DEF Worn, Alike
<1> HIDE DEF te, sh
<1>3. \A k \in 1 .. n : Alike(sg[k], sh[k])
  BY <1>1, <1>2
<1>4. Marked(sh)
  <2> SUFFICES ASSUME NEW k \in 1 .. n + 2, IsBurst(sh[k])
               PROVE  sh[k].joins <=> ~FlagsOf(sh[k].raw).ovf /\ ~Broken(sh, k - 1)
    BY <1>1 DEF Marked
  <2>1. k \in 1 .. n /\ k - 1 \in 0 .. n /\ \A l \in 1 .. k - 1 : l \in 1 .. n
    BY <1>0, <1>1, Markers
  <2>2. \A l \in 1 .. k - 1 : Same(sg[l], sh[l])
    BY <1>3, <2>1 DEF Alike
  <2>3. Broken(sg, k - 1) <=> Broken(sh, k - 1)
    BY <2>1, <2>2, BrokenSame
  <2>4. sg[k].joins = sh[k].joins /\ sg[k].raw = sh[k].raw /\ IsBurst(sg[k])
    BY <1>3, <2>1 DEF Alike, Same, IsBurst
  <2> QED BY <2>1, <2>3, <2>4 DEF Marked
<1>5. Broken(sh, n + 2)
  <2>1. IsLoss(sh[n + 1]) /\ ~IsBurst(sh[n + 2])
    BY <1>1, Markers
  <2>2. n + 1 \in 1 .. n + 2 /\ \A m \in (n + 1) + 1 .. n + 2 : m = n + 2
    BY <1>0
  <2> QED BY <2>1, <2>2 DEF Broken
<1>6. str \in StitchType(n + 2)
  BY <1>0, MoreSegments
<1>7. StitchOk(sg, q, Len(q), str, FALSE) => StitchOk(sh, q, Len(q), str, FALSE)
  <2>1. q \in Seq(Entry) /\ Known(sg, q)
    BY PageKnows
  <2> QED BY <1>3, <2>1, StitchSame
<1> HIDE DEF n
<1>8. Len(sh) >= 1 /\ ~sh[Len(sh)].torn
  BY <1>0, <1>1, Markers
<1> QED BY <1>1, <1>4, <1>5, <1>6, <1>7, <1>8 DEF sh, te, n

\* What the page has strung together.
Strung == [joiner |-> joiner, stream |-> stream, joined |-> joined]

Reset == [joiner |-> <<>>, stream |-> 0, joined |-> joined]

\* What mdioFeed() starts a chunk's records from.
LEMMA StartsFrom ==
  ASSUME Strung \in StitchType(Len(segs)), NEW p \in Seq(Entry), NEW R \in Seq(Entry), NEW clean,
         clean => StitchOk(segs, p, Len(p), Strung, FALSE), NEW s0,
         s0 = IF LossIn(R, 0) THEN Reset ELSE Strung
  PROVE  /\ s0 \in StitchType(Len(segs))
         /\ clean => /\ StitchOk(segs, p \o R, Len(p), s0, LossIn(R, 0))
                     /\ LossIn(R, 0) => BitsOf(s0) = 0
<1>1. clean => StitchOk(segs, p \o R, Len(p), Strung, FALSE)
  BY StitchFront
<1>2. CASE ~LossIn(R, 0)
  <2>1. s0 = Strung
    BY <1>2
  <2>2. LossIn(R, 0) = FALSE
    BY <1>2 DEF LossIn
  <2> QED BY <1>1, <1>2, <2>1, <2>2
<1>3. CASE LossIn(R, 0)
  <2>1. s0 = Reset
    BY <1>3
  <2>2. s0.joiner = <<>> /\ s0.stream = 0 /\ s0.joined = joined
    BY <2>1 DEF Reset
  <2>3. BitsOf(s0) = 0
    BY <2>2 DEF BitsOf
  <2>4. s0 \in StitchType(Len(segs))
    <3>1. joined \in SUBSET ((1 .. Len(segs)) \X (1 .. Len(segs))) /\ 0 \in 0 .. Len(segs)
      <4>1. Strung.joined \in SUBSET ((1 .. Len(segs)) \X (1 .. Len(segs))) /\ Strung.stream \in 0 .. Len(segs)
        BY DEF StitchType
      <4>2. Strung.joined = joined
        BY DEF Strung
      <4>3. 0 \in 0 .. Len(segs)
        BY <4>1
      <4> QED BY <4>1, <4>2, <4>3
    <3>2. <<>> \in Seq(1 .. Len(segs))
      OBVIOUS
    <3> QED BY <2>1, <3>1, <3>2 DEF Reset, StitchType
  <2>5. clean => joined = Met(segs, p \o R, Len(p))
    BY <1>1 DEF StitchOk, Strung
  <2> QED BY <1>3, <2>2, <2>3, <2>4, <2>5 DEF StitchOk
<1> QED BY <1>2, <1>3

\* mdioFeed() of what ends with the last boundary of buf.
LEMMA Digests ==
  ASSUME Segments(segs), Marked(segs), NEW buf, Results(buf) \in Seq(Entry), NEW ff, NEW rest,
         PageOk(segs, TRUE, ff, Behind(buf, LastBoundary(buf, Len(buf))), rest, parsed \o Results(buf)),
         parsed \in Seq(Entry), Strung \in StitchType(Len(segs)), glued \in BOOLEAN,
         ~glued => StitchOk(segs, parsed, Len(parsed), Strung, FALSE),
         Digest(buf)
  PROVE  /\ PageOk(segs, TRUE, ff, leftover', rest, parsed')
         /\ [joiner |-> joiner', stream |-> stream', joined |-> joined'] \in StitchType(Len(segs))
         /\ glued' \in BOOLEAN
         /\ ~glued' => StitchOk(segs, parsed', Len(parsed'),
                                [joiner |-> joiner', stream |-> stream', joined |-> joined'], FALSE)
<1> DEFINE R == Results(buf)
           s0 == IF LossIn(R, 0) THEN Reset ELSE Strung
           clean == ~glued'
<1>1. DOMAIN R = 1 .. Len(R)
  BY LenProperties
<1>2. (\E i \in DOMAIN R : IsLoss(R[i])) <=> LossIn(R, 0)
  BY <1>1 DEF LossIn
<1>3. [[joiner |-> <<>>, stream |-> 0, joined |-> joined] EXCEPT !.joiner = joiner, !.stream = stream] = Strung
  <2>1. [[joiner |-> <<>>, stream |-> 0, joined |-> joined] EXCEPT !.joiner = joiner]
          = [joiner |-> joiner, stream |-> 0, joined |-> joined]
    OBVIOUS
  <2>2. [[joiner |-> joiner, stream |-> 0, joined |-> joined] EXCEPT !.stream = stream]
          = [joiner |-> joiner, stream |-> stream, joined |-> joined]
    OBVIOUS
  <2> QED BY <2>1, <2>2 DEF Strung
<1>4. /\ \E after \in Stitched(s0, R) :
            joiner' = after.joiner /\ stream' = after.stream /\ joined' = after.joined
      /\ leftover' = KeptTail(Behind(buf, LastBoundary(buf, Len(buf))))
      /\ parsed' = parsed \o R
      /\ glued' = (glued \/ Gluing(R))
  BY <1>2, <1>3 DEF Digest, Reset, Gluing
<1> HIDE DEF R
<1>5. PageOk(segs, TRUE, ff, leftover', rest, parsed')
  BY <1>4 DEF KeptTail, R
<1>6. Learnt(segs, parsed \o R)
  BY PageKnows DEF Learnt, R
<1>7. R \in Seq(Entry)
  BY DEF R
<1>8. clean => ~glued /\ ~Gluing(R)
  BY <1>4
<1> HIDE DEF s0, clean
<1>9. /\ s0 \in StitchType(Len(segs))
      /\ clean => /\ StitchOk(segs, parsed \o R, Len(parsed), s0, LossIn(R, 0))
                  /\ LossIn(R, 0) => BitsOf(s0) = 0
  <2>1. s0 = IF LossIn(R, 0) THEN Reset ELSE Strung
    BY DEF s0
  <2> QED BY <1>7, <1>8, <2>1, StartsFrom
<1>10. PICK s \in StitchType(Len(segs)) :
         Stitched(s0, R) = {s} /\ (clean => StitchOk(segs, parsed \o R, Len(parsed \o R), s, FALSE))
  BY <1>6, <1>7, <1>8, <1>9, StitchedOk
<1>11. joiner' = s.joiner /\ stream' = s.stream /\ joined' = s.joined
  BY <1>4, <1>10
<1>12. s = [joiner |-> joiner', stream |-> stream', joined |-> joined']
  <2>1. s = [joiner |-> s.joiner, stream |-> s.stream, joined |-> s.joined]
    BY <1>10 DEF StitchType
  <2> QED BY <1>11, <2>1
<1>13. glued' \in BOOLEAN
  BY <1>4 DEF Gluing
<1>14. ~glued' => StitchOk(segs, parsed', Len(parsed'), s, FALSE)
  BY <1>4, <1>10 DEF clean
<1> QED BY <1>5, <1>10, <1>12, <1>13, <1>14

------------------------------------------------------------------------------
DeviceInv ==
  /\ Segments(segs) /\ Len(segs) >= 1 /\ ~segs[Len(segs)].torn /\ Marked(segs)
  /\ {chain, refused, restarted} \subseteq BOOLEAN
  /\ ~refused => (restarted <=> Broken(segs, Len(segs)))

PageInv ==
  /\ synced \in BOOLEAN /\ glued \in BOOLEAN
  /\ PageOk(segs, synced, first, leftover, wire, parsed)
  /\ Strung \in StitchType(Len(segs))
  /\ ~glued => StitchOk(segs, parsed, Len(parsed), Strung, FALSE)

HostInv == DeviceInv /\ PageInv

LEMMA HostInvInit == ASSUME HostInit PROVE HostInv
<1> USE DEF HostInit
<1>1. Segments(<<>>) /\ Strand(<<>>, <<>>) /\ Len(<<>>) = 0
  BY EmptySeq DEF Segments, Strand, Laid, Linked, Ordered, Covered
<1>2. WellFormed(Meta) /\ ~Meta.torn /\ ~IsLoss(Meta) /\ ~IsBurst(Meta) /\ Meta \in SegmentType
  BY Markers
<1>3. Opening(1) \in Seq(WireByte) /\ Bears(Opening(1), Meta, 1, 0)
  <2>1. 1 \in Nat
    OBVIOUS
  <2>2. Bears(Boundary(1) \o Sent(Meta, 1), Meta, 1, 0)
    BY <1>2, <2>1, BoundaryBears
  <2> QED BY <2>2 DEF Opening, Bears
<1>4. Append(<<>>, Meta) = <<Meta>> /\ <<>> \o Opening(1) = Opening(1)
  <2>1. <<>> \o Opening(1) = Opening(1)
    BY <1>3, ConcatEmptySeq
  <2> QED BY <2>1
<1>5. Segments(segs) /\ Strand(segs, wire) /\ Len(segs) = 1 /\ segs[1] = Meta
  <2>1. 0 + 1 = 1
    OBVIOUS
  <2>2. Bears(Opening(1), Meta, Len(<<>>) + 1, 0)
    BY <1>1, <1>3, <2>1
  <2>3. Segments(Append(<<>>, Meta)) /\ Strand(Append(<<>>, Meta), <<>> \o Opening(1))
    BY <1>1, <1>2, <2>2, ExtendStrand
  <2> QED BY <1>4, <2>3
<1>6. Marked(segs) /\ ~Broken(segs, 1)
  <2>1. \A k \in 1 .. 1 : ~IsBurst(segs[k]) /\ ~IsLoss(segs[k])
    BY <1>2, <1>5
  <2> QED BY <1>5, <2>1 DEF Marked, Broken, Partial
<1>7. DeviceInv
  <2>1. Len(segs) = 1 /\ Len(segs) >= 1 /\ ~segs[Len(segs)].torn
    BY <1>2, <1>5
  <2>2. (restarted <=> Broken(segs, Len(segs))) /\ {chain, refused, restarted} \subseteq BOOLEAN
    BY <1>6, <2>1
  <2> QED BY <1>5, <1>6, <2>1, <2>2 DEF DeviceInv
<1>8. PageOk(segs, synced, first, leftover, wire, parsed)
  <2>1. <<>> \in Seq(WireByte) /\ Len(<<>>) = 0
    OBVIOUS
  <2>2. 0 \in 0 .. Len(segs) + 1
    BY <1>5
  <2> QED BY <1>3, <1>4, <1>5, <2>1, <2>2 DEF PageOk, PageSoFar
<1>9. Strung \in StitchType(Len(segs))
  <2>1. <<>> \in Seq(1 .. 1)
    OBVIOUS
  <2> QED BY <1>5, <2>1 DEF Strung, StitchType
<1>10. StitchOk(segs, parsed, Len(parsed), Strung, FALSE)
  <2>1. BitsOf(Strung) = 0 /\ Strung.joined = {} /\ Len(parsed) = 0
    BY EmptySeq DEF BitsOf, Strung
  <2>2. NoBurst(parsed, 0) /\ Pairs(parsed, 0) = {}
    BY DEF NoBurst, Pairs
  <2>3. Met(segs, parsed, 0) = {}
    BY <2>2 DEF Met
  <2> QED BY <2>1, <2>2, <2>3 DEF StitchOk
<1> QED BY <1>7, <1>8, <1>9, <1>10 DEF HostInv, PageInv

\* emitRecord()'s segment.
LEMMA Staged ==
  ASSUME NEW f \in Flags, MayFlag(f), NEW p \in Payloads, NEW joins \in BOOLEAN
  PROVE  LET g == Segment("record", Raw(f, p), joins) IN
         /\ WellFormed(g) /\ IsBurst(g) /\ ~g.torn /\ g.joins = joins /\ g.raw = Raw(f, p)
         /\ FlagsOf(g.raw).ovf <=> f.ovf
         /\ Partial(g) <=> f.partial
<1> DEFINE g == Segment("record", Raw(f, p), joins)
<1>1. Raw(f, p) \in Seq(Byte) /\ Raw(f, p)[2] = FlagByte(f)
  BY RawFacts
<1>2. g.kind = "record" /\ g.raw = Raw(f, p) /\ g.joins = joins /\ g.torn = FALSE /\ IsBurst(g)
  BY DEF Segment, IsBurst
<1>3. WellFormed(g)
  <2>1. g \in SegmentType
    BY <1>1 DEF Segment, SegmentType
  <2> QED BY <1>2, <2>1 DEF WellFormed
<1>4. PICK x : x = FlagByte(f)
  OBVIOUS
<1>5. (x % 2 = 1 <=> f.ovf) /\ (x \div 4 = 1 <=> f.partial)
  BY <1>4, FlagValues
<1>6. g.raw[2] = x
  BY <1>1, <1>2, <1>4
<1>7. f.ovf \in BOOLEAN /\ f.partial \in BOOLEAN
  BY DEF Flags
<1> HIDE DEF g
<1>8. FlagsOf(g.raw).ovf = f.ovf /\ FlagsOf(g.raw).partial = f.partial
  BY <1>5, <1>6, <1>7 DEF FlagsOf
<1> QED BY <1>2, <1>3, <1>8 DEF Partial, g

LEMMA StageInv == ASSUME HostInv, NEW f \in Flags, NEW p \in Payloads, Stage(f, p) PROVE HostInv'
<1> DEFINE g == Segment("record", Raw(f, p), ~f.ovf /\ ~restarted)
<1>1. f.ovf \in BOOLEAN /\ f.partial \in BOOLEAN /\ f.continued \in BOOLEAN
  BY DEF Flags
<1>2. MayFlag(f) /\ (refused => f.ovf)
  BY DEF Stage, MayEmit, MayFlag
<1>3. /\ WellFormed(g) /\ IsBurst(g) /\ ~g.torn /\ (g.joins <=> ~f.ovf /\ ~restarted)
      /\ FlagsOf(g.raw).ovf <=> f.ovf
      /\ Partial(g) <=> f.partial
  <2>1. PICK joins \in BOOLEAN : joins = (~f.ovf /\ ~restarted)
    OBVIOUS
  <2>2. g = Segment("record", Raw(f, p), joins)
    BY <2>1
  <2> HIDE DEF g
  <2> QED BY <1>2, <2>1, <2>2, Staged
<1>4. /\ segs' = Append(segs, g) /\ wire' = wire \o Sent(g, Len(segs) + 1)
      /\ refused' = FALSE /\ chain' = f.continued /\ restarted' = f.partial
      /\ UNCHANGED page
  BY DEF Stage
<1> HIDE DEF g
<1>5. IsBurst(g) => (g.joins <=> ~FlagsOf(g.raw).ovf /\ ~Broken(segs, Len(segs)))
  BY <1>2, <1>3 DEF HostInv, DeviceInv
<1>6. /\ Segments(segs') /\ Len(segs') >= 1 /\ ~segs'[Len(segs')].torn /\ Marked(segs')
      /\ Broken(segs', Len(segs')) <=> Partial(g)
      /\ PageOk(segs', synced, first, leftover, wire', parsed)
      /\ Strung \in StitchType(Len(segs'))
      /\ StitchOk(segs, parsed, Len(parsed), Strung, FALSE) => StitchOk(segs', parsed, Len(parsed), Strung, FALSE)
  BY <1>3, <1>4, <1>5, Grows DEF HostInv, DeviceInv, PageInv
<1>7. DeviceInv'
  BY <1>1, <1>3, <1>4, <1>6 DEF DeviceInv
<1>8. PageInv'
  BY <1>4, <1>6 DEF HostInv, PageInv, page, Strung
<1> QED BY <1>7, <1>8 DEF HostInv

LEMMA RefuseInv == ASSUME HostInv, NEW f \in Flags, NEW p \in Payloads, Refuse(f, p) PROVE HostInv'
<1>1. refused' = TRUE /\ restarted' = (restarted \/ f.partial) /\ UNCHANGED <<chain, wire, page, segs>>
  BY DEF Refuse, RefusedNow
<1>2. f.partial \in BOOLEAN
  BY DEF Flags
<1>3. DeviceInv'
  BY <1>1, <1>2 DEF HostInv, DeviceInv
<1>4. PageInv'
  BY <1>1 DEF HostInv, PageInv, page, Strung
<1> QED BY <1>3, <1>4 DEF HostInv

LEMMA AnnounceInv == ASSUME HostInv, Announce PROVE HostInv'
<1>1. WellFormed(Meta) /\ ~Meta.torn /\ ~IsLoss(Meta) /\ ~IsBurst(Meta)
  BY Markers
<1>2. segs' = Append(segs, Meta) /\ wire' = wire \o Sent(Meta, Len(segs) + 1) /\ UNCHANGED <<device, page>>
  BY DEF Announce
<1>3. /\ Segments(segs') /\ Len(segs') >= 1 /\ ~segs'[Len(segs')].torn /\ Marked(segs')
      /\ Broken(segs', Len(segs')) <=> Broken(segs, Len(segs))
      /\ PageOk(segs', synced, first, leftover, wire', parsed)
      /\ Strung \in StitchType(Len(segs'))
      /\ StitchOk(segs, parsed, Len(parsed), Strung, FALSE) => StitchOk(segs', parsed, Len(parsed), Strung, FALSE)
  BY <1>1, <1>2, Grows DEF HostInv, DeviceInv, PageInv
<1>4. DeviceInv'
  BY <1>2, <1>3 DEF HostInv, DeviceInv, device
<1>5. PageInv'
  BY <1>2, <1>3 DEF HostInv, PageInv, page, Strung
<1> QED BY <1>4, <1>5 DEF HostInv

LEMMA SwitchInv == ASSUME HostInv, NEW kept \in 0 .. Len(wire), Switch(kept) PROVE HostInv'
<1> DEFINE gone == {wire[i].of : i \in kept + 1 .. Len(wire)}
<1>1. /\ wire' = (SubSeq(wire, 1, kept) \o Seam(Len(segs) + 1)) \o Opening(Len(segs) + 2)
      /\ segs' = Tear(segs, gone) \o <<Loss, Meta>>
      /\ chain' = FALSE /\ refused' = FALSE /\ restarted' = TRUE
      /\ UNCHANGED page
  BY DEF Switch, Tear
<1>2. \A i \in kept + 1 .. Len(wire) : wire[i].of \in gone
  OBVIOUS
<1> HIDE DEF gone
<1>3. /\ Segments(segs') /\ Len(segs') >= 1 /\ ~segs'[Len(segs')].torn /\ Marked(segs')
      /\ Broken(segs', Len(segs'))
      /\ PageOk(segs', synced, first, leftover, wire', parsed)
      /\ Strung \in StitchType(Len(segs'))
      /\ StitchOk(segs, parsed, Len(parsed), Strung, FALSE) => StitchOk(segs', parsed, Len(parsed), Strung, FALSE)
  BY <1>1, <1>2, SwitchesOver DEF HostInv, DeviceInv, PageInv
<1>4. DeviceInv'
  BY <1>1, <1>3 DEF DeviceInv
<1>5. PageInv'
  BY <1>1, <1>3 DEF HostInv, PageInv, page, Strung
<1> QED BY <1>4, <1>5 DEF HostInv

LEMMA FeedInv == ASSUME HostInv, NEW n, Feed(n) PROVE HostInv'
<1> DEFINE buf == leftover \o SubSeq(wire, 1, n)
           ff == IF first = 0 THEN wire[1].of + 1 ELSE first
           j == SelectInSeq(buf, IsBoundary)
           more == Behind(buf, j)
<1>1. /\ n \in 1 .. Len(wire) /\ wire' = Behind(wire, n) /\ first' = ff
      /\ UNCHANGED <<device, segs>>
      /\ IF synced THEN Digest(buf) /\ UNCHANGED synced
         ELSE IF j > 0 THEN Digest(more) /\ synced' = TRUE
         ELSE leftover' = buf /\ UNCHANGED <<synced, joiner, stream, joined, parsed, glued>>
  BY DEF Feed
<1>2. /\ synced \in BOOLEAN /\ glued \in BOOLEAN /\ PageOk(segs, synced, first, leftover, wire, parsed)
      /\ Strung \in StitchType(Len(segs))
      /\ ~glued => StitchOk(segs, parsed, Len(parsed), Strung, FALSE)
      /\ Segments(segs) /\ Len(segs) >= 1 /\ ~segs[Len(segs)].torn /\ Marked(segs)
  BY DEF HostInv, DeviceInv, PageInv
<1>3. parsed \in Seq(Entry)
  BY <1>2, PageKnows
<1>4. /\ synced =>
            /\ Results(buf) \in Seq(Entry)
            /\ PageOk(segs, TRUE, ff, Behind(buf, LastBoundary(buf, Len(buf))), wire', parsed \o Results(buf))
      /\ ~synced /\ j > 0 =>
            /\ Results(more) \in Seq(Entry)
            /\ PageOk(segs, TRUE, ff, Behind(more, LastBoundary(more, Len(more))), wire', parsed \o Results(more))
      /\ ~synced /\ ~(j > 0) => PageOk(segs, FALSE, ff, buf, wire', parsed)
  <2>1. n \in 1 .. Len(wire)
    BY <1>1
  <2>2. /\ synced =>
              /\ Results(buf) \in Seq(Entry)
              /\ PageOk(segs, TRUE, ff, Behind(buf, LastBoundary(buf, Len(buf))), Behind(wire, n), parsed \o Results(buf))
        /\ ~synced /\ j > 0 =>
              /\ Results(more) \in Seq(Entry)
              /\ PageOk(segs, TRUE, ff, Behind(more, LastBoundary(more, Len(more))), Behind(wire, n), parsed \o Results(more))
        /\ ~synced /\ ~(j > 0) => PageOk(segs, FALSE, ff, buf, Behind(wire, n), parsed)
    BY <1>2, <2>1, PageFeeds
  <2>3. wire' = Behind(wire, n)
    BY <1>1
  <2> HIDE DEF buf, ff, j, more
  <2> QED BY <2>2, <2>3
<1> HIDE DEF buf, ff, j, more
<1>5. DeviceInv'
  BY <1>1 DEF HostInv, DeviceInv, device
<1>6. CASE synced
  <2>1. Digest(buf) /\ synced' = synced
    BY <1>1, <1>6
  <2>2. /\ PageOk(segs, TRUE, ff, leftover', wire', parsed')
        /\ [joiner |-> joiner', stream |-> stream', joined |-> joined'] \in StitchType(Len(segs))
        /\ glued' \in BOOLEAN
        /\ ~glued' => StitchOk(segs, parsed', Len(parsed'),
                               [joiner |-> joiner', stream |-> stream', joined |-> joined'], FALSE)
    BY <1>2, <1>3, <1>4, <1>6, <2>1, Digests
  <2>3. synced' = TRUE
    BY <1>2, <1>6, <2>1
  <2>4. PageInv'
    BY <1>1, <2>2, <2>3 DEF PageInv, Strung
  <2> QED BY <1>5, <2>4 DEF HostInv
<1>7. CASE ~synced /\ j > 0
  <2>1. Digest(more) /\ synced' = TRUE
    BY <1>1, <1>7
  <2>2. /\ PageOk(segs, TRUE, ff, leftover', wire', parsed')
        /\ [joiner |-> joiner', stream |-> stream', joined |-> joined'] \in StitchType(Len(segs))
        /\ glued' \in BOOLEAN
        /\ ~glued' => StitchOk(segs, parsed', Len(parsed'),
                               [joiner |-> joiner', stream |-> stream', joined |-> joined'], FALSE)
    BY <1>2, <1>3, <1>4, <1>7, <2>1, Digests
  <2>3. PageInv'
    BY <1>1, <2>1, <2>2 DEF PageInv, Strung
  <2> QED BY <1>5, <2>3 DEF HostInv
<1>8. CASE ~synced /\ ~(j > 0)
  <2>1. leftover' = buf /\ UNCHANGED <<synced, joiner, stream, joined, parsed, glued>>
    BY <1>1, <1>8
  <2>2. synced = FALSE
    BY <1>2, <1>8
  <2>3. PageInv'
    BY <1>1, <1>2, <1>4, <1>8, <2>1, <2>2 DEF PageInv, Strung
  <2> QED BY <1>5, <2>3 DEF HostInv
<1> QED BY <1>6, <1>7, <1>8

LEMMA UnheardInv == ASSUME HostInv, NEW n, Unheard(n) PROVE HostInv'
<1>1. first = 0 /\ n \in 1 .. Len(wire) /\ wire' = Behind(wire, n) /\ UNCHANGED <<device, page, segs>>
  BY DEF Unheard
<1>2. PageOk(segs, synced, first, leftover, wire, parsed) /\ Segments(segs)
  BY DEF HostInv, DeviceInv, PageInv
<1>3. /\ ~synced /\ parsed = <<>> /\ leftover = <<>>
      /\ leftover \in Seq(WireByte) /\ wire \in Seq(WireByte) /\ Strand(segs, leftover \o wire)
      /\ \A i \in 1 .. Len(leftover) : leftover[i].b # FF
      /\ first \in 0 .. Len(segs) + 1
  BY <1>1, <1>2 DEF PageOk, PageSoFar
<1>4. <<>> \o wire = wire /\ n \in 0 .. Len(wire)
  <2>1. n \in 0 .. Len(wire)
    BY <1>1
  <2> QED BY <1>3, <2>1, ConcatEmptySeq
<1>5. Behind(wire, n) \in Seq(WireByte)
  BY <1>3, <1>4, BehindFacts
<1>6. Strand(segs, Behind(wire, n)) /\ leftover \o Behind(wire, n) = Behind(wire, n)
  BY <1>2, <1>3, <1>4, <1>5, StrandBehind, ConcatEmptySeq
<1>7. PageOk(segs, synced, first, leftover, Behind(wire, n), parsed)
  BY <1>1, <1>3, <1>5, <1>6 DEF PageOk, PageSoFar
<1>8. DeviceInv'
  BY <1>1 DEF HostInv, DeviceInv, device
<1>9. PageInv'
  BY <1>1, <1>7 DEF HostInv, PageInv, page, Strung
<1> QED BY <1>8, <1>9 DEF HostInv

LEMMA HostInvNext == ASSUME HostInv, [HostNext]_streamVars PROVE HostInv'
<1>1. ASSUME NEW f \in Flags, NEW p \in Payloads, Stage(f, p) PROVE HostInv'
  BY <1>1, StageInv
<1>2. ASSUME NEW f \in Flags, NEW p \in Payloads, Refuse(f, p) PROVE HostInv'
  BY <1>2, RefuseInv
<1>3. CASE Announce
  BY <1>3, AnnounceInv
<1>4. ASSUME NEW kept \in 0 .. Len(wire), Switch(kept) PROVE HostInv'
  BY <1>4, SwitchInv
<1>5. CASE Deliver
  BY <1>5, FeedInv DEF Deliver
<1>6. ASSUME NEW n \in 1 .. Len(wire), Unheard(n) PROVE HostInv'
  BY <1>6, UnheardInv
<1>7. CASE UNCHANGED streamVars
  <2>1. UNCHANGED <<device, wire, page, segs>>
    BY <1>7 DEF streamVars
  <2>2. DeviceInv'
    BY <2>1 DEF HostInv, DeviceInv, device
  <2>3. PageInv'
    BY <2>1 DEF HostInv, PageInv, page, Strung
  <2> QED BY <2>2, <2>3 DEF HostInv
<1> QED BY <1>1, <1>2, <1>3, <1>4, <1>5, <1>6, <1>7 DEF HostNext, Device

\* The invariant of emitRecord(), the seam of unifiedSwitchTo() and mdioFeed(): the bytes
\* on their way are a strand of the device's segments, what the page has understood and
\* what it will are those segments, and the bits it has strung together are those that
\* met on the bus.
THEOREM HostInvariant == HostSpec => []HostInv
<1>1. HostInit => HostInv
  BY HostInvInit
<1>2. HostInv /\ [HostNext]_streamVars => HostInv'
  BY HostInvNext
<1> QED BY <1>1, <1>2, PTL DEF HostSpec

LEMMA StreamFollows == HostInv => StreamInv
<1> SUFFICES ASSUME HostInv PROVE StreamInv
  OBVIOUS
<1> DEFINE c == leftover \o wire
           n == Len(segs)
           l == Len(leftover)
<1>1. /\ Segments(segs) /\ {chain, refused, restarted, synced, glued} \subseteq BOOLEAN
      /\ PageOk(segs, synced, first, leftover, wire, parsed)
      /\ Strung \in StitchType(n)
  BY DEF HostInv, DeviceInv, PageInv
<1>2. /\ leftover \in Seq(WireByte) /\ wire \in Seq(WireByte) /\ Strand(segs, c)
      /\ \A i \in 1 .. l : leftover[i].b # FF
      /\ first \in 0 .. n + 1
      /\ synced => Told(segs, first, parsed, c)
      /\ ~synced => parsed = <<>> /\ IF first = 0 THEN leftover = <<>> ELSE leftover # <<>> /\ leftover[1].of + 1 = first
  BY <1>1 DEF PageOk, PageSoFar
<1>3. parsed \in Seq(Entry) /\ Known(segs, parsed) /\ Rising(parsed)
  BY <1>1, PageKnows
<1>4. /\ l \in Nat /\ Len(wire) \in Nat /\ n \in Nat
      /\ DOMAIN wire = 1 .. Len(wire) /\ DOMAIN leftover = 1 .. l /\ DOMAIN segs = 1 .. n
      /\ DOMAIN parsed = 1 .. Len(parsed)
  BY <1>1, <1>2, <1>3, LenProperties DEF Segments
<1>5. Len(c) = l + Len(wire) /\ \A i \in 1 .. l + Len(wire) : c[i] = IF i <= l THEN leftover[i] ELSE wire[i - l]
  BY <1>2, ConcatProperties
<1> HIDE DEF c, l, n
<1>6. \A i \in 1 .. Len(c) : Placed(segs, c[i])
  BY <1>2 DEF Strand, Laid
<1>7. HostTypeOK
  <2>1. ASSUME NEW i \in 1 .. Len(wire) PROVE wire[i].b \in 0 .. FF /\ wire[i].of \in DOMAIN segs
    <3>1. l + i \in 1 .. l + Len(wire) /\ ~(l + i <= l) /\ (l + i) - l = i
      BY <1>4
    <3>2. c[l + i] = wire[i] /\ Placed(segs, c[l + i])
      BY <1>5, <1>6, <3>1
    <3> QED BY <1>4, <3>2 DEF Placed, WireByte, Byte, n
  <2>2. stream \in 0 .. n /\ joined \subseteq (1 .. n) \X (1 .. n)
    <3>1. Strung.stream \in 0 .. n /\ Strung.joined \in SUBSET ((1 .. n) \X (1 .. n))
      BY <1>1 DEF StitchType
    <3> QED BY <3>1 DEF Strung
  <2> QED BY <1>1, <1>2, <1>4, <2>1, <2>2 DEF HostTypeOK, n, l
<1>8. \A i \in DOMAIN parsed : Faithful(parsed[i])
  BY <1>3, <1>4 DEF Known, FaithfulTo, Faithful
<1>9. \A i, j \in DOMAIN parsed : i < j => parsed[i].of < parsed[j].of
  BY <1>3, <1>4 DEF Rising
<1>10. ASSUME NEW k \in Arrived PROVE k \in {parsed[i].of : i \in DOMAIN parsed}
  <2>1. /\ k \in 1 .. n /\ first > 0 /\ k >= first /\ ~segs[k].torn
        /\ \A i \in 1 .. Len(wire) : wire[i].of # k
    BY <1>4, <1>10 DEF Arrived
  <2>2. ASSUME c # <<>>, k >= c[1].of PROVE FALSE
    <3>1. PICK i \in 1 .. Len(c) : c[i].of = k /\ Ends(segs, c[i])
      BY <1>2, <2>1, <2>2 DEF Strand, Covered, EndIn, n
    <3>2. c[i].b = FF
      BY <1>1, <1>6, <3>1, PlacedFacts
    <3>3. ~(i <= l)
      BY <1>2, <1>4, <1>5, <3>1, <3>2
    <3>4. i - l \in 1 .. Len(wire) /\ i \in 1 .. l + Len(wire)
      BY <1>4, <1>5, <3>1, <3>3
    <3>5. c[i] = wire[i - l]
      BY <1>5, <3>3, <3>4
    <3> QED BY <2>1, <3>1, <3>4, <3>5
  <2>3. CASE synced
    <3>1. Reports(segs, first, parsed, c)
      BY <1>2, <2>3 DEF Told
    <3>2. Reported(parsed, k)
      BY <2>1, <2>2, <3>1 DEF Reports, n
    <3> QED BY <1>4, <3>2 DEF Reported
  <2>4. CASE ~synced
    <3>1. first # 0 /\ first \in Nat
      BY <1>2, <1>4, <2>1
    <3>2. leftover # <<>> /\ leftover[1].of + 1 = first
      BY <1>2, <2>4, <3>1
    <3>3. l >= 1
      BY <1>2, <3>2, EmptySeq DEF l
    <3>4. 1 \in 1 .. l + Len(wire) /\ 1 <= l /\ c # <<>>
      BY <1>4, <1>5, <3>3
    <3>5. c[1] = leftover[1] /\ Placed(segs, c[1])
      BY <1>5, <1>6, <3>4
    <3>6. c[1].of \in Nat
      BY <3>5 DEF Placed, WireByte
    <3> QED BY <1>4, <2>1, <2>2, <3>1, <3>2, <3>4, <3>5, <3>6
  <2> QED BY <2>3, <2>4
<1>11. Arrived \subseteq {parsed[i].of : i \in DOMAIN parsed}
  BY <1>10
<1>12. StreamExact
  BY <1>8, <1>9, <1>11 DEF StreamExact
<1> QED BY <1>7, <1>12 DEF StreamInv

LEMMA StitchingFollows == HostInv => BurstsStitched
<1> SUFFICES ASSUME HostInv, ~glued PROVE StitchesExactly
  BY DEF BurstsStitched
<1>1. PageOk(segs, synced, first, leftover, wire, parsed)
  BY DEF HostInv, PageInv
<1>2. StitchOk(segs, parsed, Len(parsed), Strung, FALSE)
  BY DEF HostInv, PageInv
<1>3. parsed \in Seq(Entry)
  BY <1>1, PageKnows
<1>4. DOMAIN parsed = 1 .. Len(parsed)
  BY <1>3, LenProperties
<1>5. joined = Met(segs, parsed, Len(parsed))
  BY <1>2 DEF StitchOk, Strung
<1>6. Pairs(parsed, Len(parsed)) = Neighbours
  BY <1>4 DEF Pairs, Neighbours, NextBurst, BehindBurst
<1> QED BY <1>5, <1>6 DEF Met, StitchesExactly

LEMMA CobsFollows == HostInv => CobsExact
<1> SUFFICES ASSUME HostInv, NEW key \in {FfKey, ZeroKey}
             PROVE  LET s == Last(segs).raw
                        e == Encode(s, key)
                    IN
                    /\ Decode(e, key) = {s}
                    /\ \A i \in DOMAIN e : e[i] # key.delim
                    /\ Len(e) <= MaxEncoded(Len(s), key)
  BY DEF CobsExact
<1>1. Segments(segs) /\ Len(segs) >= 1
  BY DEF HostInv, DeviceInv
<1>2. Last(segs).raw \in Seq(Byte)
  <2>1. Len(segs) \in 1 .. Len(segs)
    BY <1>1, LenProperties DEF Segments
  <2>2. segs[Len(segs)] \in SegmentType
    BY <1>1, <2>1 DEF Segments, WellFormed
  <2> QED BY <2>2 DEF Last, SegmentType
<1>3. Last(segs).raw \in Seq(Nat)
  <2>1. Byte \subseteq Nat
    BY Values DEF Byte
  <2> DEFINE s == Last(segs).raw
  <2>2. Len(s) \in Nat /\ s = [i \in 1 .. Len(s) |-> s[i]]
    BY <1>2, LenProperties
  <2>3. \A i \in 1 .. Len(s) : s[i] \in Nat
    BY <1>2, <2>1, ElementOfSeq
  <2> QED BY <2>2, <2>3, IsASeq
<1>4. Keying(key)
  BY Values
<1> QED BY <1>3, <1>4, CobsRoundTrip DEF RoundTrip

\* Wherever the link cuts the stream and wherever the page joins it, mdioFeed() and
\* demuxV2() get the segments of record_framer.hpp as they were sent, in order, none
\* twice, and none that arrived whole is missing.
THEOREM StreamIsExact == HostSpec => []StreamInv
BY HostInvariant, StreamFollows, PTL

\* BurstJoiner and BitStream let the bits of two records meet exactly when they met on
\* the bus, unless a loss marker has come in one chunk with records before it.
THEOREM BurstsMeetAsOnTheBus == HostSpec => []BurstsStitched
BY HostInvariant, StitchingFollows, PTL

\* Whatever record emitRecord() has framed, decoding returns it, no delimiter is left
\* inside, and the encoding fits the buffer it is given.
THEOREM FramesAreExact == HostSpec => []CobsExact
BY HostInvariant, CobsFollows, PTL
==============================================================================
