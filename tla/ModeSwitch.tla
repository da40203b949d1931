----------------------------- MODULE ModeSwitch -----------------------------
(***************************************************************************)
(* The runtime mode switch end to end: the page asks for a capture mode with *)
(* a "!mode" line, the main loop of the device accumulates and parses lines, *)
(* stops one datapath, writes the seam 0xFF 0xFD 0xFF and starts the other;  *)
(* the page believes what the [MODE ...] blocks in the stream tell it.       *)
(*                                                                          *)
(* The datapaths are reduced to what they put into the stream: run bytes of  *)
(* the rle one go straight to the transmit ring, records of the clocked one  *)
(* pass through its RAM ring, and each announces its mode in its own way.    *)
(*                                                                          *)
(* A line is a sequence of words: a mode stands for a well-formed "!mode m", *)
(* "noise" for anything else, "nl" for the end of the line.                  *)
(***************************************************************************)
EXTENDS Integers, Sequences

CONSTANTS
  LineMax,    \* words that fit g_cmdLine (24 characters)
  TxCap,      \* the transmit ring, in symbols of the stream (512 bytes)
  RamCap,     \* the RAM ring of the clocked datapath, in symbols
  MaxFlips,   \* bound of a model: choices of the user
  MaxData,    \* bound of a model: pieces of captured data
  MaxNoise    \* bound of a model: words that are no request

ASSUME ModeSwitchAssumption ==
  /\ {LineMax, TxCap, RamCap} \subseteq Nat \ {0}
  /\ {MaxFlips, MaxData, MaxNoise} \subseteq Nat
  /\ TxCap >= 4 /\ RamCap >= 4

Modes == {"rle", "clocked"}

\* Symbols of the stream.  A metadata block is torn when only one of its ends
\* makes it.
Sym(k, m) == [kind |-> k, mode |-> m]
Ff == Sym("ff", "-")
Fd == Sym("fd", "-")
Meta(m) == <<Sym("fe", m), Sym("end", "-"), Ff>>
Data(m) == Sym("data", m)
Symbols == {Ff, Fd, Sym("end", "-")} \cup {Sym(k, m) : k \in {"fe", "data"}, m \in Modes}

VARIABLES
  link,       \* words on the way to the device
  cmdLine,    \* g_cmdLine up to g_cmdLen
  mode,       \* g_mode
  pc,         \* where the main loop stands
  to, off,    \* unifiedSwitchTo(): its argument, bytes of the seam written
  active,     \* RleSniffer: sniffActive_, a frame is open
  staged,     \* ClockedSniffer: the RAM ring
  tx,         \* what the device has written and the host has not read
  ui, device, pending, target, \* modeS of the page
  view,       \* modeForProto(state.protocol): the mode the page decodes
  atStart, inMeta, \* metaSniff of the page; inMeta also holds what the block says
  \* history
  lastData,   \* mode of the last data the host read
  lone,       \* the segment the host is reading is 0xFD and nothing else so far
  cut,        \* such a segment has ended since that data
  torn,       \* a seam has been given up half written
  noisy,      \* noise has arrived since the last newline
  flips, data, noise

page == <<ui, device, pending, target, view>>
parser == <<atStart, inMeta, lastData, lone, cut>>
input == <<cmdLine, noisy>>
vars == <<link, input, mode, pc, to, off, active, staged, tx, page, parser, torn, flips, data,
          noise>>

\* The device starts in clocked mode, the page supposes rle.
Init ==
  /\ link = <<>> /\ cmdLine = <<>>
  /\ mode = "clocked" /\ pc = "service" /\ to = "clocked" /\ off = 0
  /\ active = FALSE /\ staged = <<Ff>> \o Meta("clocked") /\ tx = <<>>
  /\ ui = "rle" /\ device = "rle" /\ pending = FALSE /\ target = "rle" /\ view = "rle"
  /\ atStart = TRUE /\ inMeta = "-"
  /\ lastData = "-" /\ lone = FALSE /\ cut = FALSE /\ torn = FALSE /\ noisy = FALSE
  /\ flips = 0 /\ data = 0 /\ noise = 0

Room(s) == TxCap - Len(s)

------------------------------------------------------------------------------
\* The page.

\* setProtocol() with a protocol of the other mode, and modeFlip(): the page shows
\* the new mode at once, locks and asks for it.  The request is lost when the writer
\* is busy.  Of the rle mode there are two protocols, so that one can be chosen by
\* a page that decodes the other.
Flip(m) ==
  /\ ~pending /\ m # ui /\ flips < MaxFlips
  /\ view # m \/ m = "rle"
  /\ target' = m /\ ui' = m /\ pending' = TRUE /\ view' = m
  /\ \/ link' = link \o <<m, "nl">>
     \/ UNCHANGED link
  /\ flips' = flips + 1
  /\ UNCHANGED <<input, mode, pc, to, off, active, staged, tx, device, parser, torn, data, noise>>

\* setProtocol() while the page is locked, or back to the mode it shows: another
\* decoder, no request.
Select(m) ==
  /\ pending \/ m = ui
  /\ view # m /\ flips < MaxFlips
  /\ view' = m /\ flips' = flips + 1
  /\ UNCHANGED <<link, input, mode, pc, to, off, active, staged, tx, ui, device, pending, target,
                 parser, torn, data, noise>>

\* checkModeTimeout(), syncProtocolToMode().
Revert ==
  /\ pending
  /\ pending' = FALSE /\ ui' = device /\ view' = device
  /\ UNCHANGED <<link, input, mode, pc, to, off, active, staged, tx, device, target, parser,
                 torn, flips, data, noise>>

\* Mutated form: any announcement confirms the request.
ConfirmsAny(m) == TRUE

Confirms(m) == m = target

\* Mutated form: announcements matter only while a request is pending.
FollowNever(m) == UNCHANGED <<ui, view>>

Follow(m) == ui' = m /\ view' = IF m # ui THEN m ELSE view

\* onModeMarker(): a protocol of the mode is chosen only if the mode has changed.
OnModeMarker(m) ==
  /\ device' = m
  /\ IF pending
     THEN pending' = ~Confirms(m) /\ UNCHANGED <<ui, view>>
     ELSE Follow(m) /\ UNCHANGED pending
  /\ UNCHANGED target

\* sniffMeta(), symbol by symbol: only a block that leads its segment counts.
HostReads ==
  /\ tx # <<>> /\ tx' = Tail(tx)
  /\ LET s == Head(tx) IN
     /\ atStart' = (s.kind = "ff")
     /\ inMeta' = CASE s.kind = "fe" /\ atStart -> s.mode
                    [] s.kind = "data" -> inMeta
                    [] OTHER -> "-"
     /\ IF s.kind = "end" /\ inMeta # "-" THEN OnModeMarker(inMeta) ELSE UNCHANGED page
     /\ lone' = (s.kind = "fd" /\ atStart)
     /\ lastData' = IF s.kind = "data" THEN s.mode ELSE lastData
     /\ cut' = (s.kind # "data" /\ (cut \/ (s.kind = "ff" /\ lone)))
  /\ UNCHANGED <<link, input, mode, pc, to, off, active, staged, torn, flips, data, noise>>

\* Something else writes to the port.
Noise ==
  /\ noise < MaxNoise
  /\ noise' = noise + 1 /\ link' = Append(link, "noise")
  /\ UNCHANGED <<input, mode, pc, to, off, active, staged, tx, page, parser, torn, flips, data>>

------------------------------------------------------------------------------
\* One pass of the main loop: service() of the active datapath, then the input.

\* RleSniffer::service(): run bytes are copied as they come; a pause closes the
\* frame once its boundary fits; a block that is due follows only a closed frame,
\* preceded by a boundary of its own, and is skipped if it does not fit.
RleMarker(s) == IF Room(s) >= 4 THEN s \o <<Ff>> \o Meta("rle") ELSE s

RleData ==
  /\ data < MaxData /\ Room(tx) > 0
  /\ tx' = Append(tx, Data("rle")) /\ active' = TRUE
  /\ data' = data + 1
  /\ UNCHANGED staged

RleIdle(due) ==
  LET closes == active /\ Room(tx) > 0
      closed == IF closes THEN Append(tx, Ff) ELSE tx
  IN
  /\ active' = (active /\ ~closes)
  /\ tx' = IF due /\ ~active' THEN RleMarker(closed) ELSE closed
  /\ UNCHANGED <<staged, data>>

ServiceRle(due) ==
  /\ pc = "service" /\ mode = "rle"
  /\ RleData \/ RleIdle(due)
  /\ pc' = "poll"
  /\ UNCHANGED <<link, input, mode, to, off, page, parser, torn, flips, noise>>

\* ClockedSniffer::service(): a block that is due, then a record, each staged
\* whole or not at all; then whatever the transmit ring takes is shipped.
Staging(symbols, s) == IF Len(s) + Len(symbols) <= RamCap THEN s \o symbols ELSE s

ServiceClocked(due, record) ==
  LET beat == IF due THEN Staging(Meta("clocked"), staged) ELSE staged
      full == IF record THEN Staging(<<Data("clocked"), Ff>>, beat) ELSE beat
      most == IF Len(full) < Room(tx) THEN Len(full) ELSE Room(tx)
  IN
  /\ pc = "service" /\ mode = "clocked"
  /\ record => data < MaxData
  /\ data' = IF record THEN data + 1 ELSE data
  /\ \E n \in IF most = 0 THEN {0} ELSE 1 .. most :
       /\ tx' = tx \o SubSeq(full, 1, n)
       /\ staged' = SubSeq(full, n + 1, Len(full))
  /\ pc' = "poll"
  /\ UNCHANGED <<link, input, mode, to, off, active, page, parser, torn, flips, noise>>

------------------------------------------------------------------------------
\* unifiedPollCommand().

\* Mutated form: a line that is too long grows on.
FullNever(line) == FALSE

Full(line) == Len(line) >= LineMax

\* A character that does not fit empties the line and is lost with it.
PollWord ==
  /\ pc = "poll" /\ link # <<>> /\ Head(link) # "nl"
  /\ link' = Tail(link)
  /\ cmdLine' = IF Full(cmdLine) THEN <<>> ELSE Append(cmdLine, Head(link))
  /\ noisy' = (noisy \/ Head(link) = "noise")
  /\ UNCHANGED <<mode, pc, to, off, active, staged, tx, page, parser, torn, flips, data, noise>>

\* ModeCmd::parse(): "!mode m" and nothing else.
Valid(line) == Len(line) = 1 /\ line[1] \in Modes

Switches == Valid(cmdLine) /\ cmdLine[1] # mode

\* A line that asks for the other mode: the active datapath is stopped, which
\* empties its RAM ring.
PollSwitch ==
  /\ pc = "poll" /\ link # <<>> /\ Head(link) = "nl" /\ Switches
  /\ pc' = "seam" /\ to' = cmdLine[1] /\ off' = 0
  /\ staged' = <<>> /\ active' = FALSE
  /\ cmdLine' = <<>> /\ link' = Tail(link)
  /\ noisy' = FALSE
  /\ UNCHANGED <<mode, tx, page, parser, torn, flips, data, noise>>

PollIgnore ==
  /\ pc = "poll" /\ link # <<>> /\ Head(link) = "nl" /\ ~Switches
  /\ cmdLine' = <<>> /\ link' = Tail(link)
  /\ noisy' = FALSE
  /\ UNCHANGED <<mode, pc, to, off, active, staged, tx, page, parser, torn, flips, data, noise>>

PollDone ==
  /\ pc = "poll" /\ link = <<>>
  /\ pc' = "service"
  /\ UNCHANGED <<link, input, mode, to, off, active, staged, tx, page, parser, torn, flips, data,
                 noise>>

------------------------------------------------------------------------------
\* unifiedSwitchTo().

\* Mutated form: the seam has no boundary in front of the 0xFD.
SeamBare == <<Fd, Ff, Ff>>

Seam == <<Ff, Fd, Ff>>

\* As much of the seam as fits is written, again and again.
WriteSeam ==
  /\ pc = "seam" /\ off < Len(Seam) /\ Room(tx) > 0
  /\ LET n == IF Room(tx) < Len(Seam) - off THEN Room(tx) ELSE Len(Seam) - off IN
     /\ tx' = tx \o SubSeq(Seam, off + 1, off + n)
     /\ off' = off + n
  /\ UNCHANGED <<link, input, mode, pc, to, active, staged, page, parser, torn, flips, data, noise>>

\* The other datapath begins; the rle one announces itself only if that fits.
Begin ==
  /\ mode' = to
  /\ active' = FALSE
  /\ IF to = "rle"
     THEN tx' = RleMarker(tx) /\ UNCHANGED staged
     ELSE staged' = <<Ff>> \o Meta("clocked") /\ UNCHANGED tx
  /\ torn' = (torn \/ off < Len(Seam))
  /\ off' = 0 /\ pc' = "poll"
  /\ UNCHANGED <<link, input, to, page, parser, flips, data, noise>>

SeamDone == pc = "seam" /\ off = Len(Seam) /\ Begin

\* The host has not read for as long as the guard allows.
SeamGivenUp == pc = "seam" /\ off < Len(Seam) /\ Room(tx) = 0 /\ Begin

Device ==
  \/ \E due \in BOOLEAN : ServiceRle(due)
  \/ \E due, record \in BOOLEAN : ServiceClocked(due, record)
  \/ PollWord \/ PollSwitch \/ PollIgnore \/ PollDone
  \/ WriteSeam \/ SeamDone \/ SeamGivenUp

Next ==
  \/ \E m \in Modes : Flip(m) \/ Select(m)
  \/ Revert \/ HostReads \/ Noise
  \/ Device

Spec == Init /\ [][Next]_vars

\* The main loop and the page never stop, the host reads on, and a heartbeat is
\* due about once a second.
FairSpec ==
  /\ Spec
  /\ WF_vars(Device) /\ WF_vars(HostReads) /\ WF_vars(Revert)
  /\ SF_vars(ServiceRle(TRUE) /\ data' = data)
  /\ SF_vars(ServiceClocked(TRUE, FALSE))

------------------------------------------------------------------------------
\* Types; in particular no buffer is overfilled and the seam is not overrun.
TypeOK ==
  /\ link \in Seq(Modes \cup {"noise", "nl"})
  /\ cmdLine \in Seq(Modes \cup {"noise"}) /\ Len(cmdLine) <= LineMax
  /\ mode \in Modes /\ to \in Modes /\ ui \in Modes /\ device \in Modes
  /\ view \in Modes
  /\ pc \in {"service", "poll", "seam"} /\ off \in 0 .. 3
  /\ tx \in Seq(Symbols) /\ Len(tx) <= TxCap
  /\ staged \in Seq(Symbols) /\ Len(staged) <= RamCap
  /\ inMeta \in Modes \cup {"-"} /\ lastData \in Modes \cup {"-"}

\* What is still to come, as the host will read it: the transmit ring, what is
\* missing of a seam, and a piece of data of the mode the device is in or enters.
MissingSeam == IF pc = "seam" THEN SubSeq(Seam, off + 1, Len(Seam)) ELSE <<>>
Coming == IF pc = "seam" THEN to ELSE mode
Ahead == (tx \o MissingSeam) \o <<Data(Coming)>>

SeamAt(s, l) == s[l].kind = "ff" /\ s[l + 1].kind = "fd" /\ s[l + 2].kind = "ff"
SeamBetween(s, j, k) == \E l \in j + 1 .. k - 3 : SeamAt(s, l)

\* What the host remembers of the symbols it has read.
Parsed == [last |-> lastData, cut |-> cut, lone |-> lone, start |-> atStart]

\* The host has read the first symbols of a seam, and s goes on with the others.
SeamBegun(p, s, k) ==
  \/ p.lone /\ k > 1 /\ s[1].kind = "ff"
  \/ p.start /\ k > 2 /\ s[1].kind = "fd" /\ s[2].kind = "ff"

\* Data of different modes are a seam apart, in s and across what has been read.
Apart(p, s) ==
  /\ \A j, k \in DOMAIN s :
       j < k /\ s[j].kind = "data" /\ s[k].kind = "data" /\ s[j].mode # s[k].mode
       => SeamBetween(s, j, k)
  /\ \A k \in DOMAIN s :
       s[k].kind = "data" /\ p.last \notin {"-", s[k].mode}
       => p.cut \/ SeamBegun(p, s, k) \/ SeamBetween(s, 0, k)

AheadApart == torn \/ Apart(Parsed, Ahead)

\* The RAM ring holds what the clocked datapath has staged since it was begun.
Of(s, m) == \A k \in 1 .. Len(s) : s[k].mode \in {m, "-"}
StagedInMode == Of(staged, "clocked") /\ (staged # <<>> => mode = "clocked" /\ pc # "seam")

\* Between what the page believes and what it has asked for last, the mode changes
\* once at most: along the block it reads, the blocks it has not read, the mode
\* of the device, its line and the requests on the way.
Turns(m) == m \in Modes /\ m # device
Stays(words) == \A k \in 1 .. Len(words) : words[k] # device
OneTurn(words) == \A j, k \in 1 .. Len(words) : j < k /\ Turns(words[j]) => words[k] # device

Announces(s, k) == s[k].kind = "fe" /\ s[k].mode = device
Turned(s, k) == s[k].kind = "fe" /\ Turns(s[k].mode)

BlocksInOrder ==
  /\ Turns(inMeta) => Turns(mode) /\ \A k \in 1 .. Len(tx) : ~Announces(tx, k)
  /\ \A j, k \in 1 .. Len(tx) : j < k /\ Turned(tx, j) => ~Announces(tx, k)
  /\ \A k \in 1 .. Len(tx) : Turned(tx, k) => Turns(mode)

RequestsInOrder ==
  /\ Turns(mode) => Turns(Coming)
  /\ Turns(Coming) => Stays(cmdLine) /\ Stays(link)
  /\ OneTurn(cmdLine)
  /\ \A k \in 1 .. Len(cmdLine) : Turns(cmdLine[k]) => Stays(link)
  /\ OneTurn(link)

PageInStep ==
  /\ pending => ui = target /\ device # target
  /\ ~pending => ui = device
  /\ pc = "seam" => to # mode /\ cmdLine = <<>>

ModeInv == TypeOK /\ AheadApart /\ StagedInMode /\ BlocksInOrder /\ RequestsInOrder
           /\ PageInStep

\* "Leading 0xFF closes any partial segment ... so the 0xFD lands at a segment
\* boundary": between data of the two modes the host always reads a segment that is
\* a lone 0xFD, whatever was torn by the switch.  Excused is a seam that the host
\* itself let expire.
SeamSeparates ==
  [][lastData' # lastData /\ lastData # "-" => cut \/ torn]_vars

\* The page leaves its lock by a confirmation only if the device is in the mode that
\* was asked for; no announcement of an earlier capture that is still in the stream
\* is taken for the answer.
ConfirmedMeansSwitched ==
  [][pending /\ ~pending' /\ ui' = ui /\ device' = ui => mode = target]_vars

\* However requests are lost, late, timed out or repeated, and whatever the seam
\* loses, the mode the page shows and the device's agree in the end.
EventuallyAgree == <>[](~pending /\ ui = mode)

\* "The protocol selector drives the device mode: cross-mode sends !mode + reconciles":
\* the page ends up decoding the mode the device is in.  The code does not bring that
\* about: a protocol chosen while the page is locked stays, although the device follows
\* the request before it.
EventuallyDecodes == <>[](view = mode)

\* "A malformed line is ignored, so line noise can't trigger a reconfig": a line with
\* noise in it never switches the mode.
NoiseNeverSwitches == [][noisy => pc' # "seam" \/ pc = "seam"]_vars
==============================================================================
