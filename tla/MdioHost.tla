------------------------------- MODULE MdioHost -------------------------------
(***************************************************************************)
(* The clocked stream from the record to the bits the decoder sees: the     *)
(* device frames its burst records (emitRecord() of clocked_sniffer.cpp,    *)
(* record_framer.hpp, cobs.hpp), the link cuts the bytes into chunks        *)
(* anywhere, the page finds the records again (mdioFeed() of                *)
(* app/web-sniffer/index.html; demuxV2, parseRecord, BurstJoiner and        *)
(* BitStream of app/test/mdio_codec.js) and strings their bits together.    *)
(*                                                                          *)
(* Records may be refused by a full RAM ring, bytes may be lost in the PIOC,*)
(* the page may join in the middle of the stream, and the device may be     *)
(* switched away from and back to clocked capture, which clears its RAM     *)
(* ring.  A byte on the link carries, for the properties only, the number   *)
(* of the segment it belongs to and its place in it.                        *)
(***************************************************************************)
EXTENDS Cobs, FiniteSets, SequencesExt

CONSTANTS
  Bytes,        \* values of a byte (256)
  Bracket,      \* '['
  Printable,    \* 0x20 .. 0x7E
  Data,         \* payload bytes a bus produces
  RingCap,      \* bytes that fit between emitRecord() and the host
  Chunks,       \* sizes of the pieces the link delivers, beside all there is
  MaxData,      \* bytes of a burst buffer (BURST_MAX)
  MaxEvents, MaxSeams   \* bounds of a model: bytes, records and markers; mode switches

FF == Bytes - 1
FE == Bytes - 2
FD == Bytes - 3
FfKey == [delim |-> FF, full |-> FE]
ZeroKey == [delim |-> 0, full |-> FF]

TypeMdio == 1
HeaderLen == 4    \* type, flags, n in two bytes; the times are left out

ASSUME MdioHostAssumption ==
  /\ Bytes \in Nat /\ Bytes > 5
  /\ Bracket \in Printable /\ Printable \subseteq 2 .. FD - 1
  /\ Data \subseteq 0 .. FF
  /\ Chunks \subseteq Nat
  /\ {RingCap, MaxData, MaxEvents, MaxSeams} \subseteq Nat
  /\ MaxData < Bytes * Bytes

VARIABLES
  \* device
  chain,        \* burstNeedTerminal_: the last record staged was continued
  refused,      \* ovfRam_ is above zero
  restarted,    \* the PIOC has been restarted since the last record
  wire,         \* RAM ring and transmit ring: bytes on their way
  \* page
  synced, leftover,   \* mdio._synced, mdio._leftover
  joiner,       \* records stitched so far by mdio._joiner
  stream,       \* the last record whose bits mdio._stream carries on, 0 after a reset
  joined,       \* history: pairs of records the bits of which have been strung together
  \* history
  segs,         \* what the device has sent, segment by segment
  first,        \* the first segment the page has to know
  parsed,       \* what the page has understood
  glued,        \* a loss marker has come in one chunk with records before it
  events

device == <<chain, refused, restarted>>
page == <<synced, leftover, joiner, stream, joined, first, parsed, glued>>
streamVars == <<device, wire, page, segs, events>>

Behind(s, n) == SubSeq(s, n + 1, Len(s))

------------------------------------------------------------------------------
\* The device.

\* bit 0 or 1: bytes were lost; bit 2: continued; bits 3 to 5: valid bits of the last byte.
Flags == [ovf : BOOLEAN, continued : BOOLEAN, partial : BOOLEAN]

FlagByte(f) == (IF f.ovf THEN 1 ELSE 0) + (IF f.continued THEN 2 ELSE 0) + (IF f.partial THEN 4 ELSE 0)

\* putHeader() and the payload
Raw(f, bytes) == <<TypeMdio, FlagByte(f), Len(bytes) % Bytes, Len(bytes) \div Bytes>> \o bytes

\* frameRecord(), frameMeta(), frameLoss()
FrameRecord(raw) == Append(Encode(raw, FfKey), FF)
FrameMeta == <<FE, Bracket, FE, FF>>
FrameLoss == <<FD, FF>>

Segment(kind, raw, joins) == [kind |-> kind, raw |-> raw, joins |-> joins, torn |-> FALSE]
Meta == Segment("meta", <<>>, FALSE)
Loss == Segment("loss", <<>>, FALSE)
IsLoss(r) == r.kind = "loss"
IsBurst(r) == r.kind = "record"

Frame(seg) ==
  IF IsBurst(seg) THEN FrameRecord(seg.raw) ELSE IF IsLoss(seg) THEN FrameLoss ELSE FrameMeta

\* The bytes of segment k; a boundary in front of it is at place 0.
Sent(seg, k) == [i \in DOMAIN Frame(seg) |-> [b |-> Frame(seg)[i], of |-> k, at |-> i]]
Boundary(k) == <<[b |-> FF, of |-> k, at |-> 0]>>

\* unifiedSwitchTo()'s seam
Seam(k) == Boundary(k) \o Sent(Loss, k)

\* Clocked capture has begun: begin()'s boundary and marker.
Opening(k) == Boundary(k) \o Sent(Meta, k)

HostInit ==
  /\ chain = FALSE /\ refused = FALSE /\ restarted = FALSE
  /\ wire = Opening(1) /\ segs = <<Meta>>
  /\ synced = FALSE /\ leftover = <<>> /\ joiner = <<>> /\ stream = 0
  /\ joined = {}
  /\ first = 0 /\ parsed = <<>> /\ glued = FALSE
  /\ events = 0

Spend(n) == events + n <= MaxEvents /\ events' = events + n

Payloads == BoundedSeq(Data, MaxData)

\* What emitRecord() may find: a full buffer is continued, a pause ends the burst,
\* with the bits of a partial byte in the last one (the PIOC is then restarted);
\* an empty record ends a chain.  Bytes may have been lost in the PIOC since the
\* last record; losses in the RAM ring are flagged until a record gets through.
MayEmit(f, payload) ==
  /\ refused => f.ovf
  /\ ~(f.continued /\ f.partial)
  /\ payload = <<>> => chain /\ ~f.continued /\ ~f.partial

Fits(bytes) == Len(wire) + Len(bytes) <= RingCap

\* emitRecord() with room in the RAM ring ...
Stage(f, payload) ==
  /\ MayEmit(f, payload) /\ Spend(Len(payload) + 1)
  /\ LET seg == Segment("record", Raw(f, payload), ~f.ovf /\ ~restarted) IN
     /\ Fits(Frame(seg)) /\ wire' = wire \o Sent(seg, Len(segs) + 1)
     /\ segs' = Append(segs, seg)
  /\ refused' = FALSE /\ chain' = f.continued /\ restarted' = f.partial
  /\ UNCHANGED page

\* Mutated form: a record the ring refused is not counted.
RefusedNowKept == refused

RefusedNow == TRUE

\* ... and without: the record is dropped.
Refuse(f, payload) ==
  /\ MayEmit(f, payload) /\ Spend(Len(payload) + 1)
  /\ ~Fits(FrameRecord(Raw(f, payload)))
  /\ refused' = RefusedNow /\ restarted' = (restarted \/ f.partial)
  /\ UNCHANGED <<chain, wire, page, segs>>

\* emitModeMarker()
Announce ==
  /\ Spend(1) /\ Fits(FrameMeta)
  /\ wire' = wire \o Sent(Meta, Len(segs) + 1)
  /\ segs' = Append(segs, Meta)
  /\ UNCHANGED <<device, page>>

\* Away and back to clocked capture: what the transmit ring held stays, the rest
\* of the RAM ring is gone; unifiedSwitchTo()'s seam, begin()'s boundary and marker.
Switch(kept) ==
  /\ Spend(1) /\ Len(SelectSeq(segs, IsLoss)) < MaxSeams
  /\ LET gone == {wire[i].of : i \in kept + 1 .. Len(wire)}
         n == Len(segs)
     IN
     /\ wire' = SubSeq(wire, 1, kept) \o Seam(n + 1) \o Opening(n + 2)
     /\ segs' = [k \in 1 .. n |-> IF k \in gone THEN [segs[k] EXCEPT !.torn = TRUE] ELSE segs[k]]
                  \o <<Loss, Meta>>
  /\ chain' = FALSE /\ refused' = FALSE /\ restarted' = TRUE
  /\ UNCHANGED page

------------------------------------------------------------------------------
\* The page.

\* demuxV2() of one segment, parseRecord() of what it decodes to.
Looks(bytes) == [i \in DOMAIN bytes |-> bytes[i].b]

\* metaText()
IsMeta(bytes) ==
  /\ Len(bytes) >= 3 /\ bytes[1] = FE /\ bytes[Len(bytes)] = FE
  /\ bytes[2] = Bracket
  /\ \A i \in 2 .. Len(bytes) - 1 : bytes[i] \in Printable

IsRecord(d) ==
  /\ Len(d) >= HeaderLen
  /\ d[1] = TypeMdio /\ Len(d) - HeaderLen >= d[3] + Bytes * d[4]

Result(seg, kind, raw) == [of |-> seg[1].of, kind |-> kind, raw |-> raw]

\* What one segment says, if it says anything.
Understood(seg) ==
  LET bytes == Looks(seg) IN
  IF bytes = <<>> THEN {}
  ELSE IF bytes = <<FD>> THEN {Result(seg, "loss", <<>>)}
  ELSE IF IsMeta(bytes) THEN {Result(seg, "meta", <<>>)}
  ELSE {Result(seg, "record", d) : d \in {d \in Decode(bytes, FfKey) : IsRecord(d)}}

IsBoundary(x) == x.b = FF

\* The last boundary among the first n bytes, or 0.
LastBoundary(bytes, n) == SelectLastInSubSeq(bytes, 1, n, IsBoundary)

\* What demuxV2() has gathered when it comes to byte i.
PieceBefore(bytes, i) == SubSeq(bytes, LastBoundary(bytes, i - 1) + 1, i - 1)

\* demuxV2(), recordsFromBinary(): what stands behind the last boundary waits.
Results(bytes) ==
  LET upTo[i \in 0 .. Len(bytes)] ==
        IF i = 0 THEN <<>>
        ELSE upTo[i - 1] \o (IF IsBoundary(bytes[i]) THEN SetToSeq(Understood(PieceBefore(bytes, i)))
                             ELSE <<>>)
  IN upTo[Len(bytes)]

FlagsOf(raw) ==
  [ovf |-> raw[2] % 2 = 1, continued |-> (raw[2] \div 2) % 2 = 1, partial |-> raw[2] \div 4 = 1]

\* A flagged record starts afresh.
BeforeRecord(s, f) == IF f.ovf THEN [s EXCEPT !.joiner = <<>>, !.stream = 0] ELSE s

\* One record through joiner and stream: its bits follow those of the record before.
Stitch(s, r) ==
  LET f == FlagsOf(r.raw)
      t == BeforeRecord(s, f)
      before == IF t.joiner = <<>> THEN t.stream ELSE Last(t.joiner)
  IN [joiner |-> IF f.continued THEN Append(t.joiner, r.of) ELSE <<>>,
      stream |-> IF f.continued THEN t.stream ELSE IF f.partial THEN 0 ELSE r.of,
      joined |-> IF before = 0 THEN t.joined ELSE t.joined \cup {<<before, r.of>>}]

\* Mutated form: what stands behind the last boundary is dropped.
KeptTailDropped(rest) == <<>>

KeptTail(rest) == rest

\* The records of a chunk, one after the other.
Stitched(before, results) ==
  LET upTo[i \in 0 .. Len(results)] ==
        IF i = 0 THEN {before}
        ELSE {IF IsBurst(results[i]) THEN Stitch(s, results[i]) ELSE s : s \in upTo[i - 1]}
  IN upTo[Len(results)]

\* mdioFeed() of what has arrived, up to the last boundary.
Digest(buf) ==
  \E results \in {Results(buf)} :
    LET reset == [joiner |-> <<>>, stream |-> 0, joined |-> joined]
        before == IF \E i \in DOMAIN results : IsLoss(results[i]) THEN reset
                  ELSE [reset EXCEPT !.joiner = joiner, !.stream = stream]
    IN
    /\ \E after \in Stitched(before, results) :
         joiner' = after.joiner /\ stream' = after.stream /\ joined' = after.joined
    /\ leftover' = KeptTail(Behind(buf, LastBoundary(buf, Len(buf))))
    /\ parsed' = parsed \o results
    /\ glued' = (glued \/ \E i, j \in DOMAIN results :
                            i < j /\ IsBurst(results[i]) /\ IsLoss(results[j]))

\* A chunk of n bytes.  Until the first boundary the page is in the middle of
\* something and drops it.
Feed(n) ==
  /\ n \in 1 .. Len(wire)
  /\ wire' = Behind(wire, n)
  /\ first' = IF first = 0 THEN wire[1].of + 1 ELSE first
  /\ \E buf \in {leftover \o SubSeq(wire, 1, n)} :
     LET boundary == SelectInSeq(buf, IsBoundary)
     IN IF synced THEN Digest(buf) /\ UNCHANGED synced
        ELSE IF boundary > 0 THEN Digest(Behind(buf, boundary)) /\ synced' = TRUE
        ELSE leftover' = buf /\ UNCHANGED <<synced, joiner, stream, joined, parsed, glued>>
  /\ UNCHANGED <<device, segs, events>>

\* The page does not listen yet.
Unheard(n) ==
  /\ first = 0 /\ n \in 1 .. Len(wire)
  /\ wire' = Behind(wire, n)
  /\ UNCHANGED <<device, page, segs, events>>

Deliver == \E n \in Chunks \cup {Len(wire)} : Feed(n)

Device ==
  \/ \E f \in Flags, payload \in Payloads : Stage(f, payload) \/ Refuse(f, payload)
  \/ Announce
  \/ \E kept \in 0 .. Len(wire) : Switch(kept)

HostNext ==
  \/ Device
  \/ Deliver
  \/ \E n \in 1 .. Len(wire) : Unheard(n)

HostSpec == HostInit /\ [][HostNext]_streamVars

------------------------------------------------------------------------------
HostTypeOK ==
  /\ {chain, refused, restarted, synced, glued} \subseteq BOOLEAN
  /\ \A i \in DOMAIN wire : wire[i].b \in 0 .. FF /\ wire[i].of \in DOMAIN segs
  /\ \A i \in DOMAIN leftover : synced => leftover[i].b # FF
  /\ stream \in 0 .. Len(segs) /\ joined \subseteq (DOMAIN segs) \X (DOMAIN segs)
  /\ first \in 0 .. Len(segs) + 1

\* Segments that have arrived in full, the page listening since before they began.
Arrived == {k \in DOMAIN segs : first > 0 /\ k >= first /\ ~segs[k].torn
                                /\ \A i \in DOMAIN wire : wire[i].of # k}

\* What the page understands is what the device sent, byte for byte; of a record
\* that was cut off when the RAM ring was cleared it makes at most a loss (if the
\* one byte left of it is 0xFD).
Faithful(r) ==
  LET sent == segs[r.of] IN
  \/ r.kind = sent.kind /\ r.raw = sent.raw
  \/ sent.torn /\ r.kind = "loss"

\* Wherever the link cuts the stream and wherever the page joins it: segments
\* come out as they were sent, in order, none twice, and none that arrived whole
\* is missing.
StreamExact ==
  /\ \A i \in DOMAIN parsed : Faithful(parsed[i])
  /\ \A i, j \in DOMAIN parsed : i < j => parsed[i].of < parsed[j].of
  /\ Arrived \subseteq {parsed[i].of : i \in DOMAIN parsed}

StreamInv == HostTypeOK /\ StreamExact

\* The records of the page that follow each other.
NextBurst(i, j) ==
  /\ i < j /\ IsBurst(parsed[i]) /\ IsBurst(parsed[j])
  /\ \A k \in i + 1 .. j - 1 : ~IsBurst(parsed[k])

Neighbours == {p \in (DOMAIN parsed) \X (DOMAIN parsed) : NextBurst(p[1], p[2])}

\* The bits of two records meet in the decoder if, and only if, they met on the
\* bus: a burst cut at BURST_MAX is whole again, and neither a lost record, nor
\* lost bytes, nor a restart of the PIOC, nor a mode switch is decoded across ...
StitchesExactly ==
  joined = {<<parsed[p[1]].of, parsed[p[2]].of>> :
              p \in {p \in Neighbours : segs[parsed[p[2]].of].joins}}

\* ... unless a 0xFD comes in one chunk with records before it: mdioFeed() applies
\* the resets of a chunk before it decodes the first of its records.
BurstsStitched == glued \/ StitchesExactly

\* What the device has just framed, in both keyings: the decoder returns what was
\* encoded, whatever it holds; no delimiter is left in it; and the output fits the
\* buffer the caller has.
CobsExact ==
  segs # <<>> =>
    LET s == Last(segs).raw IN
    \A key \in {FfKey, ZeroKey} :
      LET e == Encode(s, key) IN
      /\ Decode(e, key) = {s}
      /\ \A i \in DOMAIN e : e[i] # key.delim
      /\ Len(e) <= MaxEncoded(Len(s), key)
==============================================================================
