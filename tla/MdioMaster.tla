----------------------------- MODULE MdioMaster -----------------------------
(***************************************************************************)
(* The active MDIO master: Mdio::Master (src/mdio/mdio_master.cpp) on the   *)
(* main loop, the transaction blob (pioc/mdio_master.ASM) on the PIOC, and  *)
(* the PHY they talk to, which is external.                                 *)
(*                                                                          *)
(* Master and blob share data registers and run concurrently: the master    *)
(* writes the frame, clears STATUS and sets GO; the blob consumes GO, runs  *)
(* the frame, stores the result and publishes STATUS last.  An MMD access   *)
(* is four Clause-22 transactions through REGCR and ADDAR.                  *)
(*                                                                          *)
(* A transaction takes some 60 us, so the 5 ms timeout expires only when    *)
(* the blob is stuck: for ever (it died), or, if LateBlob, for a while.     *)
(***************************************************************************)
EXTENDS Naturals

CONSTANTS
  Regs,         \* Clause-22 registers read and written directly
  Mmds, MmdRegs,\* MMD devices, registers in each
  Vals,         \* register values
  NoVal,        \* no value (0 in the code)
  LateBlob,     \* the blob may be stuck and go on later
  MaxRequests   \* bound of a model: requests

ASSUME MdioMasterAssumption ==
  /\ LateBlob \in BOOLEAN /\ MaxRequests \in Nat
  /\ {} \notin {Mmds, MmdRegs, Vals} /\ NoVal \notin Vals
  /\ {"REGCR", "ADDAR"} \cap Regs = {}

VARIABLES
  active, started, step, \* active_, started_, step_
  request,      \* op_, phy_, mmd_, reg_ and val_
  wire,         \* wireRead_, wireReg_ and wireVal_: the current transaction
  resp,         \* the client's mailbox
  pc,           \* startTransaction(): registers written so far
  expired,      \* more than 5 ms have passed since startedMs_
  cmd, go, status, res, \* the shared data registers
  blob, frame,  \* the blob: where it stands, the frame it runs
  regcr, addar, c22, mmd,  \* the PHY
  performed, found,     \* history: the request's own access has run, and read this
  requests

masterVars == <<active, started, step, request, wire, resp>>
shared == <<cmd, go, status, res>>
blobVars == <<blob, frame>>
phy == <<regcr, addar, c22, mmd>>
history == <<performed, found, requests>>
vars == <<masterVars, pc, expired, shared, blobVars, phy, history>>

Direct == [kind : {"direct"}, reg : Regs]
Indirect == [kind : {"mmd"}, mmd : Mmds, reg : MmdRegs]
Targets == Direct \cup Indirect
Requests == [read : BOOLEAN, target : Targets, val : Vals, present : BOOLEAN]
Wire(r, g, v) == [read |-> r, reg |-> g, val |-> v]
NoWire == Wire(FALSE, "none", NoVal)

Reset == CHOOSE v \in Vals : TRUE   \* what the PHY's registers hold at first
FirstRequest == CHOOSE r \in Requests : TRUE

Init ==
  /\ active = FALSE /\ started = FALSE /\ step = "Start"
  /\ request = FirstRequest /\ wire = NoWire
  /\ resp = [status |-> "Idle", value |-> NoVal]
  /\ pc = "loop" /\ expired = FALSE
  /\ cmd = NoWire /\ go = FALSE /\ status = "busy" /\ res = NoVal
  /\ blob = "wait" /\ frame = NoWire
  /\ regcr = [mode |-> "addr", mmd |-> CHOOSE m \in Mmds : TRUE]
  /\ addar = CHOOSE r \in MmdRegs : TRUE
  /\ c22 = [r \in Regs |-> Reset] /\ mmd = [m \in Mmds |-> [r \in MmdRegs |-> Reset]]
  /\ performed = TRUE /\ found = NoVal /\ requests = 0

------------------------------------------------------------------------------
\* The master: submit().

\* Mutated form: a second request is taken while one is active.
AcceptingAlways == TRUE

Accepting == ~active

Submit(r) ==
  /\ pc = "loop" /\ Accepting /\ requests < MaxRequests
  /\ resp' = [status |-> "Pending", value |-> NoVal]
  /\ active' = TRUE /\ started' = FALSE /\ step' = "Start" /\ request' = r
  /\ wire' = Wire(TRUE, "none", NoVal)
  /\ performed' = FALSE /\ found' = NoVal /\ requests' = requests + 1
  /\ UNCHANGED <<pc, expired, shared, blobVars, phy>>

\* startNextTransaction(): the steps of a request and the frame of each.
Final == {"Done", "MmdData"}

\* Mutated form: the data mode is not selected before the data access.
NextStepShort(s) ==
  CASE s = "Start"       -> IF request.target.kind = "direct" THEN "Done" ELSE "MmdAddrMode"
    [] s = "MmdAddrMode" -> "MmdSetAddr"
    [] s = "MmdSetAddr"  -> "MmdData"
    [] OTHER             -> "Done"

NextStep(s) ==
  CASE s = "Start"       -> IF request.target.kind = "direct" THEN "Done" ELSE "MmdAddrMode"
    [] s = "MmdAddrMode" -> "MmdSetAddr"
    [] s = "MmdSetAddr"  -> "MmdDataMode"
    [] s = "MmdDataMode" -> "MmdData"
    [] OTHER             -> "Done"

WireOf(s) ==
  CASE s = "Done"        -> Wire(request.read, request.target.reg, request.val)
    [] s = "MmdAddrMode" -> Wire(FALSE, "REGCR", [mode |-> "addr", mmd |-> request.target.mmd])
    [] s = "MmdSetAddr"  -> Wire(FALSE, "ADDAR", request.target.reg)
    [] s = "MmdDataMode" -> Wire(FALSE, "REGCR", [mode |-> "data", mmd |-> request.target.mmd])
    [] s = "MmdData"     -> Wire(request.read, "ADDAR", request.val)

StartNext ==
  /\ step' = NextStep(step)
  /\ wire' = WireOf(NextStep(step))
  /\ started' = FALSE
  /\ pc' = "frame"

TickStart ==
  /\ pc = "loop" /\ active /\ ~started
  /\ StartNext
  /\ UNCHANGED <<active, request, resp, expired, shared, blobVars, phy, history>>

\* startTransaction(): the frame, then STATUS, then the doorbell.
WriteFrame ==
  /\ pc = "frame"
  /\ cmd' = wire
  /\ pc' = "status"
  /\ UNCHANGED <<masterVars, expired, go, status, res, blobVars, phy, history>>

\* Mutated forms: the doorbell rings first, STATUS is not cleared.
DoorbellFirst(k) ==
  IF k = 1 THEN go' = TRUE /\ UNCHANGED status ELSE status' = "busy" /\ UNCHANGED go
KeepStatus(k) ==
  IF k = 1 THEN UNCHANGED <<go, status>> ELSE go' = TRUE /\ UNCHANGED status

\* The two registers written after the frame: STATUS, then CTRL.
Doorbell(k) ==
  IF k = 1 THEN status' = "busy" /\ UNCHANGED go ELSE go' = TRUE /\ UNCHANGED status

ClearStatus ==
  /\ pc = "status"
  /\ Doorbell(1)
  /\ pc' = "doorbell"
  /\ UNCHANGED <<masterVars, expired, cmd, res, blobVars, phy, history>>

RingDoorbell ==
  /\ pc = "doorbell"
  /\ Doorbell(2)
  /\ started' = TRUE /\ expired' = FALSE
  /\ pc' = "loop"
  /\ UNCHANGED <<active, step, request, wire, resp, cmd, res, blobVars, phy, history>>

------------------------------------------------------------------------------
\* The master: tick() polls STATUS.

Finish(outcome, v) ==
  /\ resp' = [status |-> outcome, value |-> v]
  /\ active' = FALSE /\ started' = FALSE
  /\ UNCHANGED <<step, request, wire, pc>>

Polling == pc = "loop" /\ active /\ started

\* Mutated form: the timeout is never looked at.
NeverTimedOut == FALSE

TimedOut == expired

TickTimeout ==
  /\ Polling /\ status = "busy" /\ TimedOut
  /\ Finish("Timeout", NoVal)
  /\ UNCHANGED <<expired, shared, blobVars, phy, history>>

TickNoResp ==
  /\ Polling /\ status = "noresp"
  /\ Finish("NoResp", NoVal)
  /\ UNCHANGED <<expired, shared, blobVars, phy, history>>

\* completeTransaction(Done): the next transaction, or the answer.
TickDone ==
  /\ Polling /\ status = "ok"
  /\ IF step \in Final
     THEN Finish("Done", IF wire.read THEN res ELSE NoVal)
     ELSE StartNext /\ UNCHANGED <<active, request, resp>>
  /\ UNCHANGED <<expired, shared, blobVars, phy, history>>

\* 5 ms since startedMs_.
Expire ==
  /\ Polling /\ ~expired
  /\ LateBlob \/ blob = "dead" \/ (blob = "wait" /\ ~go)
  /\ expired' = TRUE
  /\ UNCHANGED <<masterVars, pc, shared, blobVars, phy, history>>

------------------------------------------------------------------------------
\* The blob.

\* WAIT_GO: the doorbell is consumed once, STATUS marks busy.
BlobTakes ==
  /\ blob = "wait" /\ go
  /\ go' = FALSE /\ status' = "busy"
  /\ blob' = "run"
  /\ UNCHANGED <<masterVars, pc, expired, cmd, res, frame, phy, history>>

\* The frame on the wire, and what the PHY does at its end.  A PHY that is not
\* there ignores it.
Ours == active /\ step \in Final /\ frame' = wire /\ ~performed

PhyWrites(f) ==
  \/ f.reg = "REGCR" /\ regcr' = f.val /\ UNCHANGED <<addar, c22, mmd>>
  \/ f.reg = "ADDAR" /\ regcr.mode = "addr" /\ addar' = f.val /\ UNCHANGED <<regcr, c22, mmd>>
  \/ /\ f.reg = "ADDAR" /\ regcr.mode = "data"
     /\ mmd' = [mmd EXCEPT ![regcr.mmd][addar] = f.val]
     /\ UNCHANGED <<regcr, addar, c22>>
  \/ f.reg \in Regs /\ c22' = [c22 EXCEPT ![f.reg] = f.val] /\ UNCHANGED <<regcr, addar, mmd>>

PhyReads(f) ==
  IF f.reg \in Regs THEN c22[f.reg]
  ELSE IF regcr.mode = "data" THEN mmd[regcr.mmd][addar] ELSE NoVal

BlobRuns ==
  /\ blob = "run"
  /\ frame' = cmd
  /\ IF ~cmd.read /\ request.present THEN PhyWrites(cmd) ELSE UNCHANGED phy
  /\ performed' = (performed \/ Ours)
  /\ found' = IF Ours /\ cmd.read /\ request.present THEN PhyReads(cmd) ELSE found
  /\ blob' = "result"
  /\ UNCHANGED <<masterVars, pc, expired, shared, requests>>

\* RES_H and RES_L: the sampled word.
BlobStores ==
  /\ blob = "result"
  /\ res' = IF frame.read THEN (IF request.present THEN PhyReads(frame) ELSE NoVal) ELSE res
  /\ blob' = "publish"
  /\ UNCHANGED <<masterVars, pc, expired, cmd, go, status, frame, phy, history>>

\* STATUS last, then WAIT_GO.
BlobPublishes ==
  /\ blob = "publish"
  /\ status' = IF frame.read /\ ~request.present THEN "noresp" ELSE "ok"
  /\ blob' = "wait" /\ frame' = NoWire
  /\ UNCHANGED <<masterVars, pc, expired, cmd, go, res, phy, history>>

BlobDies ==
  /\ blob # "dead" /\ ~LateBlob
  /\ blob' = "dead"
  /\ UNCHANGED <<masterVars, pc, expired, shared, frame, phy, history>>

Tick ==
  \/ TickStart \/ WriteFrame \/ ClearStatus \/ RingDoorbell
  \/ TickTimeout \/ TickNoResp \/ TickDone
Blob == BlobTakes \/ BlobRuns \/ BlobStores \/ BlobPublishes

Next == (\E r \in Requests : Submit(r)) \/ Tick \/ Expire \/ Blob \/ BlobDies

Spec == Init /\ [][Next]_vars

\* The main loop ticks for ever, time passes, the PIOC runs while it lives.
FairSpec == Spec /\ WF_vars(Tick) /\ WF_vars(Expire) /\ WF_vars(Blob)

------------------------------------------------------------------------------
Statuses == {"Idle", "Pending", "Done", "NoResp", "Timeout"}

\* Types; in particular the mailbox is pending exactly while a request is active.
TypeOK ==
  /\ active \in BOOLEAN /\ started \in BOOLEAN /\ go \in BOOLEAN /\ expired \in BOOLEAN
  /\ step \in {"Start", "MmdAddrMode", "MmdSetAddr", "MmdDataMode", "MmdData", "Done"}
  /\ request \in Requests
  /\ resp \in [status : Statuses, value : Vals \cup {NoVal}]
  /\ active <=> resp.status = "Pending"
  /\ pc \in {"loop", "frame", "status", "doorbell"} /\ (pc # "loop" => active /\ ~started)
  /\ status \in {"busy", "ok", "noresp"} /\ res \in Vals \cup {NoVal}
  /\ blob \in {"wait", "run", "result", "publish", "dead"}
  /\ addar \in MmdRegs /\ regcr \in [mode : {"addr", "data"}, mmd : Mmds]
  /\ c22 \in [Regs -> Vals] /\ mmd \in [Mmds -> [MmdRegs -> Vals]]
  /\ performed \in BOOLEAN /\ found \in Vals \cup {NoVal}

\* The frame registers do not change under a running blob, which reads them
\* byte by byte as it shifts the frame out.
FrameStable == blob \in {"run", "result", "publish"} => active /\ started /\ cmd = wire

\* The device-side timeout is the answer to a stuck blob and to nothing else: no
\* result is lost between the two processors.
TimeoutMeansStuck == resp.status = "Timeout" => blob = "dead"

\* "A stale prior result can't be mistaken for this one": a request is answered
\* only after its own access has run.
NoStaleResult == resp.status \in {"Done", "NoResp"} => performed

\* Every request is answered ("so the host is never left hanging").
EveryRequestAnswered == active ~> ~active

\* The master implements the abstract request: four transactions that share two
\* registers act as one access.
PhyRegs == [t \in Targets |-> IF t.kind = "direct" THEN c22[t.reg] ELSE mmd[t.mmd][t.reg]]
Request == INSTANCE MdioRequest WITH req <- request, regs <- PhyRegs
RequestSpec == Request!Spec

------------------------------------------------------------------------------
(* The inductive invariant behind the safety properties, for a blob that is  *)
(* never merely late (MdioMasterProofs).                                     *)

\* A transaction of the request has been chosen; its frame has run.
Issued == pc # "loop" \/ started
Ran == started /\ (blob \in {"result", "publish"} \/ status # "busy")

\* The steps belong to the kind of the request, and the wire to the step.
StepsInOrder ==
  /\ started => active
  /\ active /\ ~Issued => step = "Start"
  /\ Issued => step # "Start" /\ wire = WireOf(step)
  /\ active /\ step = "Done" => request.target.kind = "direct"
  /\ active /\ step \notin {"Start", "Done"} => request.target.kind = "mmd"

\* Who owns the mailbox: GO is up, the blob is at work, or the result is there.
HandshakeInOrder ==
  /\ pc \in {"status", "doorbell"} \/ started => cmd = wire
  /\ pc = "doorbell" => status = "busy"
  /\ ~started => blob = "dead" \/ (blob = "wait" /\ ~go)
  /\ blob = "wait" /\ started => (go <=> status = "busy")
  /\ blob \in {"run", "result", "publish"} => ~go /\ status = "busy"
  /\ blob \in {"result", "publish"} => frame = cmd
  /\ started /\ expired => blob = "dead" \/ (blob = "wait" /\ ~go)

\* The request's own access runs in its final step, once, and its outcome is what
\* the mailbox returns.
AccessOnce ==
  /\ active /\ performed => started /\ step \in Final
  /\ blob = "run" \/ (blob = "wait" /\ started /\ go) => ~performed
  /\ Ran /\ step \in Final => performed
  /\ active /\ (~performed \/ ~request.read \/ ~request.present) => found = NoVal
  /\ blob = "result" /\ step \in Final /\ request.read /\ request.present =>
       found = PhyReads(wire)
  /\ Ran /\ blob # "result" /\ step \in Final /\ request.read =>
       res = (IF request.present THEN found ELSE NoVal)
  /\ started /\ status = "noresp" => step \in Final /\ request.read /\ ~request.present
  /\ started /\ status = "ok" /\ step \in Final => ~request.read \/ request.present

\* What the steps before it have left in REGCR and ADDAR.
PhyPrepared ==
  active /\ request.present =>
    /\ step = "MmdSetAddr" \/ (step = "MmdAddrMode" /\ Ran) => regcr.mode = "addr"
    /\ step \in {"MmdDataMode", "MmdData"} \/ (step = "MmdSetAddr" /\ Ran) =>
         addar = request.target.reg
    /\ step = "MmdData" \/ (step = "MmdDataMode" /\ Ran) =>
         regcr.mode = "data" /\ regcr.mmd = request.target.mmd

MasterInv ==
  /\ TypeOK /\ FrameStable /\ TimeoutMeansStuck
  /\ StepsInOrder /\ HandshakeInOrder /\ AccessOnce /\ PhyPrepared
==============================================================================
