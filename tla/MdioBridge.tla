----------------------------- MODULE MdioBridge -----------------------------
(***************************************************************************)
(* The ASCII command bridge of the MDIO master build: Mdio::UsbBridge       *)
(* (src/mdio/mdio_bridge.cpp) in the main loop of src/main_mdio.cpp, which  *)
(* calls usb.tick(), then g_mdio.tick(), then the bridge's tick().          *)
(*                                                                          *)
(* Everything runs on one thread, but printf() is not a leaf: it ends in    *)
(* __wrap__write(), which calls usb.tick() while it waits for room.  The    *)
(* USB events (a packet arrives, a new client raises DTR) therefore happen  *)
(* between two printed lines too, in the middle of the bridge's tick().     *)
(*                                                                          *)
(* A command line is two words, a verb and an argument; a byte stands for a *)
(* word or the newline and carries the line it was sent in and its place    *)
(* there.  The master is the request of MdioRequest, its accesses left out. *)
(***************************************************************************)
EXTENDS Naturals, Sequences, FiniteSets

CONSTANTS
  LineMax,     \* words line_ holds (48 bytes in the code)
  PrintRegs,   \* registers a print reads (32)
  PacketMax,   \* words in an OUT packet
  MaxWords,    \* bound of a model: words the hosts send
  MaxOpens     \* bound of a model: clients that open the port

ASSUME MdioBridgeAssumption ==
  /\ {LineMax, PrintRegs, PacketMax, MaxWords} \subseteq Nat \ {0}
  /\ LineMax >= 2 /\ MaxOpens \in Nat

VARIABLES
  rx,             \* rx_
  sessionStarted, \* sessionStarted_
  line,           \* line_ up to lineLen_
  discardLine,    \* discardLine_
  respStatus,     \* resp_.status
  pending,        \* pending_
  activeReq,      \* activeOp_, activePhy_, activeReg_: what the answer echoes
  printActive, printNextReg,
  stage,          \* main loop: "usb", "mdio", "session", "response", "commands"
  toPrint,        \* lines printf() has still to deliver before the loop goes on
  \* host and history
  sentWords, atLine, atPos, opens,
  printed,        \* registers the running print has answered
  owed,           \* lines the commands taken so far have still to be answered with
  torn,           \* a valid command was executed from something not sent as one line
  openedInside    \* DTR has risen inside printf()

hostVars == <<sentWords, atLine, atPos, opens>>
lineVars == <<line, discardLine>>
requestVars == <<respStatus, pending, activeReq>>
printVars == <<printActive, printNextReg, printed>>
bridgeVars == <<rx, sessionStarted, lineVars, requestVars, printVars, stage, toPrint, hostVars,
                owed, torn, openedInside>>

Verbs == {"!read", "!write", "!print"}
Words == Verbs \cup {"arg", "newline"}
NoReq == [op |-> "none", reg |-> 0]

BridgeInit ==
  /\ rx = <<>> /\ sessionStarted = FALSE /\ line = <<>> /\ discardLine = FALSE
  /\ respStatus = "Idle" /\ pending = FALSE /\ activeReq = NoReq
  /\ printActive = FALSE /\ printNextReg = 0 /\ printed = <<>>
  /\ stage = "usb" /\ toPrint = <<>>
  /\ sentWords = 0 /\ atLine = 1 /\ atPos = 0 /\ opens = 0
  /\ owed = 0 /\ torn = FALSE /\ openedInside = FALSE

------------------------------------------------------------------------------
\* What one usb.tick() may handle: a packet, a rising DTR, or nothing.

\* The words of a packet, numbered on from the host's place in its line: the
\* newlines before word k, and the words of its line up to word k.
Newlines(words, k) == {j \in 1 .. k - 1 : words[j] = "newline"}
SameLine(words, k) == {j \in 1 .. k : \A i \in j .. k - 1 : words[i] # "newline"}

Stamp(words) ==
  [k \in DOMAIN words |->
     [word |-> words[k],
      line |-> atLine + Cardinality(Newlines(words, k)),
      pos  |-> Cardinality(SameLine(words, k))
               + (IF Newlines(words, k) = {} THEN atPos ELSE 0)]]

PacketArrives ==
  \E n \in 1 .. PacketMax : \E words \in [1 .. n -> Words] :
    LET stamped == Stamp(words)
        last == stamped[n]
    IN /\ sentWords + n <= MaxWords
       /\ rx' = rx \o stamped
       /\ sentWords' = sentWords + n
       /\ atLine' = IF last.word = "newline" THEN last.line + 1 ELSE last.line
       /\ atPos' = IF last.word = "newline" THEN 0 ELSE last.pos
       /\ UNCHANGED <<sessionStarted, opens>>

ClientOpens ==
  /\ opens < MaxOpens
  /\ rx' = <<>> /\ sessionStarted' = TRUE
  /\ opens' = opens + 1 /\ atLine' = atLine + 1 /\ atPos' = 0
  /\ UNCHANGED sentWords

Nothing == UNCHANGED <<rx, sessionStarted, hostVars>>

\* What printf() is given: an answer, a refusal, a parse error.
Answer == [kind |-> "answer", reg |-> activeReq.reg]
Busy(reg) == [kind |-> "busy", reg |-> reg]
Invalid == [kind |-> "invalid", reg |-> 0]

Quiet == toPrint = <<>>   \* no printf() is running

UsbTick ==
  /\ stage = "usb" /\ Quiet
  /\ PacketArrives \/ ClientOpens \/ Nothing
  /\ stage' = "mdio"
  /\ UNCHANGED <<lineVars, requestVars, printVars, toPrint, owed, torn, openedInside>>

\* __wrap__write(): usb.tick() until the line is in the ring.
PacketInside ==
  /\ ~Quiet
  /\ PacketArrives
  /\ UNCHANGED <<lineVars, requestVars, printVars, stage, toPrint, owed, torn, openedInside>>

OpensInside ==
  /\ ~Quiet
  /\ ClientOpens
  /\ openedInside' = TRUE
  /\ UNCHANGED <<lineVars, requestVars, printVars, stage, toPrint, owed, torn>>

PrintLine ==
  /\ ~Quiet
  /\ toPrint' = Tail(toPrint)
  /\ owed' = IF Head(toPrint) = Invalid THEN owed ELSE owed - 1
  /\ printed' = IF printActive /\ Head(toPrint).kind = "answer"
                THEN Append(printed, Head(toPrint).reg) ELSE printed
  /\ UNCHANGED <<rx, sessionStarted, lineVars, requestVars, printActive, printNextReg, stage,
                 hostVars, torn, openedInside>>

------------------------------------------------------------------------------
\* g_mdio.tick(): the master is still at it, or answers.
MdioTick ==
  /\ stage = "mdio" /\ Quiet
  /\ respStatus' \in (IF respStatus = "Pending" THEN {"Pending", "Done", "NoResp", "Timeout"}
                       ELSE {respStatus})
  /\ stage' = "session"
  /\ UNCHANGED <<rx, sessionStarted, lineVars, pending, activeReq, printVars, toPrint,
                 hostVars, owed, torn, openedInside>>

\* The bridge's tick(): a new session forgets the line.
CheckSession ==
  /\ stage = "session" /\ Quiet
  /\ sessionStarted' = FALSE
  /\ IF sessionStarted THEN line' = <<>> /\ discardLine' = FALSE ELSE UNCHANGED lineVars
  /\ stage' = "response"
  /\ UNCHANGED <<rx, requestVars, printVars, toPrint, hostVars, owed, torn, openedInside>>

\* startRead() and startWrite(): the master takes one request at a time.
Start(r) ==
  IF respStatus # "Pending"
  THEN respStatus' = "Pending" /\ pending' = TRUE /\ activeReq' = r
  ELSE UNCHANGED requestVars

\* Mutated form: only a success is an answer.
AnsweredOk == respStatus = "Done"

Answered == respStatus # "Pending"

\* pollResponse(), first half: the answer is printed.
PollAnswer ==
  /\ stage = "response" /\ Quiet
  /\ IF pending /\ Answered
     THEN toPrint' = <<Answer>> /\ pending' = FALSE
     ELSE UNCHANGED <<toPrint, pending>>
  /\ stage' = "print"
  /\ UNCHANGED <<rx, sessionStarted, lineVars, respStatus, activeReq, printVars, hostVars,
                 owed, torn, openedInside>>

\* Mutated form: the last register is left out.
AllReadEarly == printNextReg >= PrintRegs - 1

AllRead == printNextReg >= PrintRegs

\* pollResponse(), second half: a print goes on with its next register.
PollPrint ==
  /\ stage = "print" /\ Quiet
  /\ IF printActive /\ ~pending
     THEN IF AllRead
          THEN printActive' = FALSE /\ UNCHANGED <<printNextReg, requestVars>>
          ELSE /\ Start([op |-> "!read", reg |-> printNextReg])
               /\ printNextReg' = IF respStatus # "Pending" THEN printNextReg + 1 ELSE printNextReg
               /\ UNCHANGED printActive
     ELSE UNCHANGED <<printActive, printNextReg, requestVars>>
  /\ stage' = "commands"
  /\ UNCHANGED <<rx, sessionStarted, lineVars, printed, toPrint, hostVars, owed, torn,
                 openedInside>>

------------------------------------------------------------------------------
\* pollCommand(), one byte.

Valid(l) == Len(l) = 2 /\ l[1].word \in Verbs /\ l[2].word = "arg"

\* Every byte of one line, from its first to its newline.
Whole(l, newline) ==
  /\ newline.pos = Len(l) + 1
  /\ \A k \in DOMAIN l : l[k].line = newline.line /\ l[k].pos = k

MoreBytes == stage = "commands" /\ Quiet /\ rx # <<>>

LineFull == Len(line) >= LineMax

\* Mutated form: an over-long line is forgotten, what follows of it is a new one.
ForgetLine == line' = <<>> /\ UNCHANGED discardLine

DropLine == line' = <<>> /\ discardLine' = TRUE

\* pushCommandByte(), not a newline: an over-long line is dropped to its end.
PushByte ==
  /\ MoreBytes /\ Head(rx).word # "newline"
  /\ rx' = Tail(rx)
  /\ IF discardLine THEN UNCHANGED lineVars
     ELSE IF LineFull THEN DropLine
     ELSE line' = Append(line, Head(rx)) /\ UNCHANGED discardLine
  /\ UNCHANGED <<sessionStarted, requestVars, printVars, stage, toPrint, hostVars, owed, torn,
                 openedInside>>

AtNewline == MoreBytes /\ Head(rx).word = "newline"

\* Nothing to do, an over-long line, or a line parse() rejects.
RejectLine ==
  /\ AtNewline /\ (discardLine \/ ~Valid(line))
  /\ rx' = Tail(rx)
  /\ line' = <<>> /\ discardLine' = FALSE
  /\ toPrint' = IF discardLine \/ line # <<>> THEN <<Invalid>> ELSE <<>>
  /\ UNCHANGED <<sessionStarted, requestVars, printVars, stage, hostVars, owed, torn, openedInside>>

\* Mutated form: only a print makes the bridge busy.
RefusedInPrint == printActive

\* The bridge's own check, then the master's (submit()).
Refused == printActive \/ pending \/ respStatus = "Pending"

\* The lines a command is answered with.
LinesFor(verb) == IF verb = "!print" THEN PrintRegs ELSE 1

TakeLine(verbs) ==
  /\ AtNewline /\ ~discardLine /\ Valid(line) /\ line[1].word \in verbs
  /\ rx' = Tail(rx)
  /\ line' = <<>>
  /\ owed' = owed + LinesFor(line[1].word)
  /\ torn' = (torn \/ ~Whole(line, Head(rx)))
  /\ UNCHANGED <<sessionStarted, discardLine, stage, hostVars, openedInside>>

Accept ==
  /\ TakeLine({"!read", "!write"}) /\ ~Refused
  /\ Start([op |-> line[1].word, reg |-> 0])
  /\ UNCHANGED <<printVars, toPrint>>

Refuse ==
  /\ TakeLine({"!read", "!write"}) /\ Refused
  /\ toPrint' = <<Busy(0)>>
  /\ UNCHANGED <<requestVars, printVars>>

AllBusy == [k \in 1 .. PrintRegs |-> Busy(k - 1)]

AcceptPrint ==
  /\ TakeLine({"!print"}) /\ ~Refused
  /\ Start([op |-> "!read", reg |-> 0])
  /\ printActive' = TRUE /\ printNextReg' = 1 /\ printed' = <<>>
  /\ UNCHANGED toPrint

RefusePrint ==
  /\ TakeLine({"!print"}) /\ Refused
  /\ toPrint' = AllBusy
  /\ UNCHANGED <<requestVars, printVars>>

NoMoreBytes ==
  /\ stage = "commands" /\ Quiet /\ rx = <<>>
  /\ stage' = "usb"
  /\ UNCHANGED <<rx, sessionStarted, lineVars, requestVars, printVars, toPrint, hostVars, owed,
                 torn, openedInside>>

Loop ==
  \/ UsbTick \/ MdioTick \/ CheckSession \/ PollAnswer \/ PollPrint
  \/ PushByte \/ RejectLine \/ Accept \/ Refuse \/ AcceptPrint \/ RefusePrint \/ NoMoreBytes
  \/ PrintLine

BridgeNext == Loop \/ PacketInside \/ OpensInside

BridgeSpec == BridgeInit /\ [][BridgeNext]_bridgeVars

MasterAnswers == MdioTick /\ respStatus' # "Pending"

\* The loop turns, and the master answers (MdioMaster: EveryRequestAnswered).
BridgeFairSpec == BridgeSpec /\ WF_bridgeVars(Loop) /\ SF_bridgeVars(MasterAnswers)

------------------------------------------------------------------------------
Bytes == [word : Words, line : Nat, pos : Nat]
Lines == [kind : {"answer", "busy", "invalid"}, reg : Nat]

\* Types; in particular the line never outgrows its buffer.
LineTypes ==
  /\ rx \in Seq(Bytes) /\ line \in Seq(Bytes)
  /\ Len(line) <= LineMax /\ (discardLine => line = <<>>)
  /\ sessionStarted \in BOOLEAN /\ discardLine \in BOOLEAN /\ openedInside \in BOOLEAN
  /\ sentWords \in Nat /\ atLine \in Nat /\ atPos \in Nat /\ opens \in Nat

AnswerTypes ==
  /\ toPrint \in Seq(Lines) /\ printed \in Seq(Nat)
  /\ pending \in BOOLEAN /\ printActive \in BOOLEAN
  /\ printNextReg \in 0 .. PrintRegs /\ owed \in Nat /\ activeReq.reg \in Nat

BridgeTypes ==
  /\ LineTypes /\ AnswerTypes
  /\ respStatus \in {"Idle", "Pending", "Done", "NoResp", "Timeout"}
  /\ stage \in {"usb", "mdio", "session", "response", "print", "commands"}
  /\ torn \in BOOLEAN

\* printf() is given one line, or the refusal of a print.
PrintfHolds ==
  /\ ~Quiet => stage \in {"print", "commands"}
  /\ Len(toPrint) <= 1 \/ \A k \in DOMAIN toPrint : toPrint[k].kind = "busy"

\* Where the host is; where the byte is that is read next, and the one after b.
HostPlace == [line |-> atLine, pos |-> atPos + 1]
Place(b) == [line |-> b.line, pos |-> b.pos]
NextPlace == IF rx = <<>> THEN HostPlace ELSE Place(rx[1])
After(b) == IF b.word = "newline" THEN [line |-> b.line + 1, pos |-> 1]
            ELSE [line |-> b.line, pos |-> b.pos + 1]

\* rx_ holds what the host sent, without a gap up to where the host is.
RxAsSent ==
  \A k \in DOMAIN rx : After(rx[k]) = IF k = Len(rx) THEN HostPlace ELSE Place(rx[k + 1])

\* The line buffer holds the beginning of the line that goes on in rx_, unless it
\* is to be dropped, or is another client's, which the next turn forgets.
LineAsSent ==
  ~openedInside =>
    /\ sessionStarted => stage \in {"mdio", "session"} /\ NextPlace.pos = 1
    /\ ~sessionStarted /\ ~discardLine =>
         /\ NextPlace.pos = Len(line) + 1
         /\ \A k \in DOMAIN line : line[k].line = NextPlace.line /\ line[k].pos = k

\* The register a print asks for, or has an answer for, is the next to be printed.
AnswerDue == ~Quiet /\ toPrint[1].kind = "answer"
PrintInStep ==
  printActive =>
    /\ \A k \in DOMAIN printed : printed[k] = k - 1
    /\ printNextReg = Len(printed) + (IF pending \/ AnswerDue THEN 1 ELSE 0)
    /\ pending => ~AnswerDue /\ activeReq.reg = Len(printed)
    /\ AnswerDue => toPrint[1].reg = Len(printed)

\* What is executed is what one client sent as one line: not the end of an
\* over-long line, not two clients' halves.  The exception is a client that
\* opens the port while the bridge is inside printf().
CommandsWhole == torn => openedInside

\* "A rising CDC DTR starts a new session and clears any unterminated line left
\* by the previous client": no command is made of two clients' bytes.
SessionsNeverMix == ~torn

\* The lines of printf()'s that answer a command.
Due(lines) == Cardinality({k \in DOMAIN lines : lines[k] # Invalid})

\* No command is swallowed and none is answered twice: the lines still owed are
\* those printf() holds, the one the master's answer gives, and the registers the
\* running print has not asked for.
OneAnswerPerCommand ==
  owed = Due(toPrint)
         + (IF pending THEN 1 ELSE 0)
         + (IF printActive THEN PrintRegs - printNextReg ELSE 0)

\* Types, one answer owed for every command, and what whole commands and complete
\* prints rest on.
BridgeInv ==
  BridgeTypes /\ PrintfHolds /\ OneAnswerPerCommand /\ RxAsSent /\ LineAsSent /\ PrintInStep

\* A print answers every register once and in order, whatever commands arrive
\* meanwhile.
PrintsEveryRegister ==
  [][printActive /\ ~printActive' =>
       printed = [k \in 1 .. PrintRegs |-> k - 1]]_bridgeVars

\* Every accepted request is answered, and a print ends.
EverythingAnswered ==
  /\ pending ~> ~pending
  /\ printActive ~> ~printActive
==============================================================================
