----------------------------- MODULE MdioProofs -----------------------------
(***************************************************************************)
(* Proofs about the MDIO board: the master (MdioMaster), for every set of   *)
(* registers, devices and values and any number of requests, and the ASCII  *)
(* bridge that feeds it (MdioBridge), for every size of its buffers and any *)
(* number of commands and clients.                                          *)
(*                                                                          *)
(* The master: the handshake between driver and blob, and that four         *)
(* transactions through shared registers act as one access.  The blob may   *)
(* die at any moment, but is never merely late.                             *)
(* The bridge: what it executes is what a client sent, and what it owes an  *)
(* answer for is answered.                                                  *)
(***************************************************************************)
EXTENDS MdioMaster, MdioBridge, SequenceTheorems, FiniteSetTheorems, TLAPS

------------------------------------------------------------------------------
\* The inductive invariant.

\* The driver starts idle, the blob waiting.
LEMMA MasterInvInit == Init => MasterInv
<1> SUFFICES ASSUME Init PROVE MasterInv
  OBVIOUS
<1>1. Targets # {}
  <2>1. PICK m \in Mmds, g \in MmdRegs : TRUE
    BY MdioMasterAssumption
  <2>2. [kind |-> "mmd", mmd |-> m, reg |-> g] \in Targets
    BY <2>1 DEF Targets, Indirect
  <2> QED BY <2>2
<1>2. /\ Reset \in Vals
      /\ (CHOOSE m \in Mmds : TRUE) \in Mmds /\ (CHOOSE r \in MmdRegs : TRUE) \in MmdRegs
  BY MdioMasterAssumption DEF Reset
<1>3. FirstRequest \in Requests
  <2>1. PICK t \in Targets : TRUE
    BY <1>1
  <2>2. [read |-> TRUE, target |-> t, val |-> Reset, present |-> TRUE] \in Requests
    BY <1>2 DEF Requests
  <2> QED BY <2>2 DEF FirstRequest
<1>4. TypeOK
  BY <1>2, <1>3 DEF Init, TypeOK, Statuses, NoWire, Wire
<1> QED
  BY <1>4 DEF Init, MasterInv, FrameStable, TimeoutMeansStuck, StepsInOrder, HandshakeInOrder,
              AccessOnce, PhyPrepared, Issued, Ran

\* A new request finds the blob waiting, or dead.
LEMMA SubmitKeeps ==
  ASSUME ~LateBlob, NEW r \in Requests, MasterInv, Submit(r)
  PROVE  MasterInv'
<1>1. TypeOK'
  BY DEF MasterInv, TypeOK, Statuses, Submit, shared, blobVars, phy
<1>2. FrameStable'
  BY DEF MasterInv, FrameStable, Submit, Accepting, blobVars
<1>3. TimeoutMeansStuck'
  BY DEF TimeoutMeansStuck, Submit
<1>4. StepsInOrder'
  BY DEF StepsInOrder, Issued, Submit
<1>5. HandshakeInOrder'
  BY DEF MasterInv, StepsInOrder, HandshakeInOrder, Submit, Accepting, Wire, shared,
         blobVars
<1>6. AccessOnce'
  BY DEF AccessOnce, Final, Submit
<1>7. PhyPrepared'
  BY DEF PhyPrepared, Submit
<1> QED BY <1>1, <1>2, <1>3, <1>4, <1>5, <1>6, <1>7 DEF MasterInv

\* The first transaction of a request is chosen.
LEMMA TickStartKeeps ==
  ASSUME ~LateBlob, MasterInv, TickStart
  PROVE  MasterInv'
<1>1. TypeOK'
  <2>1. active /\ started' = FALSE /\ pc' = "frame"
    BY DEF TickStart, StartNext
  <2>2. step' \in {"MmdAddrMode", "MmdSetAddr", "MmdDataMode", "MmdData", "Done"}
    BY DEF TickStart, StartNext, NextStep
  <2>3. /\ UNCHANGED <<active, request, resp, expired>>
        /\ UNCHANGED <<go, status, res, blob, regcr, addar, c22, mmd, performed, found>>
    BY DEF TickStart, shared, blobVars, phy, history
  <2>4. active' \in BOOLEAN /\ started' \in BOOLEAN /\ (active' <=> resp'.status = "Pending")
    BY <2>1, <2>3 DEF MasterInv, TypeOK
  <2> QED BY <2>1, <2>2, <2>3, <2>4 DEF MasterInv, TypeOK
<1>2. FrameStable'
  BY DEF MasterInv, FrameStable, TickStart, blobVars
<1>3. TimeoutMeansStuck'
  BY DEF MasterInv, TypeOK, TimeoutMeansStuck, TickStart
<1>4. StepsInOrder'
  BY DEF MasterInv, TypeOK, Targets, Direct, Indirect, Requests, StepsInOrder, Issued,
         TickStart, StartNext, NextStep, WireOf
<1>5. HandshakeInOrder'
  BY DEF MasterInv, HandshakeInOrder, TickStart, StartNext, Wire, shared, blobVars
<1>6. AccessOnce'
  BY DEF MasterInv, HandshakeInOrder, AccessOnce, Ran, TickStart, StartNext, Wire, blobVars,
         history
<1>7. PhyPrepared'
  BY DEF MasterInv, StepsInOrder, PhyPrepared, Issued, Ran, TickStart, StartNext, NextStep
<1> QED BY <1>1, <1>2, <1>3, <1>4, <1>5, <1>6, <1>7 DEF MasterInv

\* The frame is written while the blob waits for GO.
LEMMA WriteFrameKeeps ==
  ASSUME ~LateBlob, MasterInv, WriteFrame
  PROVE  MasterInv'
<1>1. TypeOK'
  BY DEF MasterInv, TypeOK, WriteFrame, masterVars, blobVars, phy, history
<1>2. FrameStable'
  BY DEF MasterInv, TypeOK, FrameStable, WriteFrame, blobVars
<1>3. TimeoutMeansStuck'
  BY DEF MasterInv, TypeOK, TimeoutMeansStuck, WriteFrame, masterVars
<1>4. StepsInOrder'
  BY DEF MasterInv, TypeOK, StepsInOrder, Issued, WriteFrame, Wire, WireOf, masterVars
<1>5. HandshakeInOrder'
  BY DEF MasterInv, HandshakeInOrder, WriteFrame, masterVars, blobVars
<1>6. AccessOnce'
  BY DEF MasterInv, AccessOnce, Ran, WriteFrame, PhyReads, masterVars, blobVars, phy,
         history
<1>7. PhyPrepared'
  BY DEF MasterInv, PhyPrepared, Ran, WriteFrame, masterVars, blobVars, phy
<1> QED BY <1>1, <1>2, <1>3, <1>4, <1>5, <1>6, <1>7 DEF MasterInv

\* STATUS is cleared before the doorbell, so that it can only tell of this frame.
LEMMA ClearStatusKeeps ==
  ASSUME ~LateBlob, MasterInv, ClearStatus
  PROVE  MasterInv'
<1>1. TypeOK'
  BY DEF MasterInv, TypeOK, ClearStatus, Doorbell, masterVars, blobVars, phy, history
<1>2. FrameStable'
  BY DEF MasterInv, FrameStable, ClearStatus, masterVars, blobVars
<1>3. TimeoutMeansStuck'
  BY DEF MasterInv, TimeoutMeansStuck, ClearStatus, masterVars, blobVars
<1>4. StepsInOrder'
  BY DEF MasterInv, TypeOK, StepsInOrder, Issued, ClearStatus, Wire, WireOf, masterVars
<1>5. HandshakeInOrder'
  BY DEF MasterInv, TypeOK, HandshakeInOrder, ClearStatus, Doorbell, masterVars, blobVars
<1>6. AccessOnce'
  BY DEF MasterInv, TypeOK, HandshakeInOrder, AccessOnce, Ran, ClearStatus, masterVars,
         blobVars, history
<1>7. PhyPrepared'
  BY DEF MasterInv, PhyPrepared, Ran, ClearStatus, Doorbell, masterVars, blobVars, phy
<1> QED BY <1>1, <1>2, <1>3, <1>4, <1>5, <1>6, <1>7 DEF MasterInv

\* From here on the mailbox belongs to the blob.
LEMMA RingDoorbellKeeps ==
  ASSUME ~LateBlob, MasterInv, RingDoorbell
  PROVE  MasterInv'
<1>1. TypeOK'
  <2>1. go' = TRUE /\ started' = TRUE /\ expired' = FALSE /\ pc' = "loop"
    BY DEF RingDoorbell, Doorbell
  <2>2. UNCHANGED <<active, step, request, resp, status, res, blob>>
    BY DEF RingDoorbell, Doorbell, blobVars
  <2>3. UNCHANGED <<regcr, addar, c22, mmd, performed, found>>
    BY DEF RingDoorbell, phy, history
  <2>4. go' \in BOOLEAN /\ started' \in BOOLEAN /\ expired' \in BOOLEAN
    BY <2>1
  <2>5. active' \in BOOLEAN /\ (active' <=> resp'.status = "Pending")
    BY <2>2 DEF MasterInv, TypeOK
  <2> QED BY <2>1, <2>2, <2>3, <2>4, <2>5 DEF MasterInv, TypeOK
<1>2. FrameStable'
  BY DEF MasterInv, TypeOK, FrameStable, HandshakeInOrder, RingDoorbell
<1>3. TimeoutMeansStuck'
  BY DEF MasterInv, TypeOK, TimeoutMeansStuck, RingDoorbell
<1>4. StepsInOrder'
  BY DEF MasterInv, TypeOK, StepsInOrder, Issued, RingDoorbell, Wire, WireOf
<1>5. HandshakeInOrder'
  BY DEF MasterInv, TypeOK, HandshakeInOrder, RingDoorbell, Doorbell, blobVars
<1>6. AccessOnce'
  BY DEF MasterInv, TypeOK, HandshakeInOrder, AccessOnce, Ran, RingDoorbell, Doorbell,
         blobVars, history
<1>7. PhyPrepared'
  BY DEF MasterInv, HandshakeInOrder, PhyPrepared, Ran, RingDoorbell, Doorbell, blobVars,
         phy
<1> QED BY <1>1, <1>2, <1>3, <1>4, <1>5, <1>6, <1>7 DEF MasterInv

\* A timeout is seen only while STATUS is busy: the blob is dead.
LEMMA TickTimeoutKeeps ==
  ASSUME ~LateBlob, MasterInv, TickTimeout
  PROVE  MasterInv'
<1>1. TypeOK'
  <2>1. active' = FALSE /\ started' = FALSE /\ pc' = "loop"
    BY DEF TickTimeout, Polling, Finish
  <2>2. resp' \in [status : Statuses, value : Vals \cup {NoVal}] /\ resp'.status # "Pending"
    BY DEF TickTimeout, Finish, Statuses
  <2>3. /\ UNCHANGED <<step, request, expired>>
        /\ UNCHANGED <<go, status, res, blob, regcr, addar, c22, mmd, performed, found>>
    BY DEF TickTimeout, Finish, shared, blobVars, phy, history
  <2>4. active' \in BOOLEAN /\ started' \in BOOLEAN /\ (active' <=> resp'.status = "Pending")
    BY <2>1, <2>2
  <2> QED BY <2>1, <2>2, <2>3, <2>4 DEF MasterInv, TypeOK
<1>2. FrameStable'
  BY DEF MasterInv, FrameStable, HandshakeInOrder, TickTimeout, TimedOut, blobVars
<1>3. TimeoutMeansStuck'
  BY DEF MasterInv, TimeoutMeansStuck, HandshakeInOrder, TickTimeout, Polling, TimedOut,
         blobVars
<1>4. StepsInOrder'
  BY DEF StepsInOrder, Issued, TickTimeout, Polling, Finish
<1>5. HandshakeInOrder'
  BY DEF MasterInv, HandshakeInOrder, TickTimeout, Polling, TimedOut, Finish, blobVars
<1>6. AccessOnce'
  BY DEF MasterInv, AccessOnce, Ran, TickTimeout, Finish, PhyReads, blobVars, phy, history
<1>7. PhyPrepared'
  BY DEF PhyPrepared, TickTimeout, Finish
<1> QED BY <1>1, <1>2, <1>3, <1>4, <1>5, <1>6, <1>7 DEF MasterInv

\* The final read met no PHY.
LEMMA TickNoRespKeeps ==
  ASSUME ~LateBlob, MasterInv, TickNoResp
  PROVE  MasterInv'
<1>1. TypeOK'
  <2>1. active' = FALSE /\ started' = FALSE /\ pc' = "loop"
    BY DEF TickNoResp, Polling, Finish
  <2>2. resp' \in [status : Statuses, value : Vals \cup {NoVal}] /\ resp'.status # "Pending"
    BY DEF TickNoResp, Finish, Statuses
  <2>3. /\ UNCHANGED <<step, request, expired>>
        /\ UNCHANGED <<go, status, res, blob, regcr, addar, c22, mmd, performed, found>>
    BY DEF TickNoResp, Finish, shared, blobVars, phy, history
  <2>4. active' \in BOOLEAN /\ started' \in BOOLEAN /\ (active' <=> resp'.status = "Pending")
    BY <2>1, <2>2
  <2> QED BY <2>1, <2>2, <2>3, <2>4 DEF MasterInv, TypeOK
<1>2. FrameStable'
  BY DEF MasterInv, FrameStable, HandshakeInOrder, TickNoResp, blobVars
<1>3. TimeoutMeansStuck'
  BY DEF TimeoutMeansStuck, TickNoResp, Finish
<1>4. StepsInOrder'
  BY DEF StepsInOrder, Issued, TickNoResp, Polling, Finish
<1>5. HandshakeInOrder'
  BY DEF MasterInv, TypeOK, HandshakeInOrder, TickNoResp, Finish, shared, blobVars
<1>6. AccessOnce'
  BY DEF MasterInv, AccessOnce, Ran, TickNoResp, Polling, Finish, blobVars
<1>7. PhyPrepared'
  BY DEF PhyPrepared, TickNoResp, Finish
<1> QED BY <1>1, <1>2, <1>3, <1>4, <1>5, <1>6, <1>7 DEF MasterInv

\* A transaction has ended: the next one is chosen, or the request is answered.
LEMMA TickDoneKeeps ==
  ASSUME ~LateBlob, MasterInv, TickDone
  PROVE  MasterInv'
<1>1. TypeOK'
  <2>1. CASE step \in Final
    <3> DEFINE v == IF wire.read THEN res ELSE NoVal
    <3>1. v \in Vals \cup {NoVal}
      BY DEF MasterInv, TypeOK
    <3>2. /\ resp' = [status |-> "Done", value |-> v] /\ active' = FALSE /\ started' = FALSE
          /\ UNCHANGED <<step, request, pc, expired, shared, blobVars, phy, history>>
      BY <2>1 DEF TickDone, Finish
    <3>3. pc = "loop"
      BY DEF TickDone, Polling
    <3> HIDE DEF v
    <3>4. resp' \in [status : Statuses, value : Vals \cup {NoVal}]
      BY <3>1, <3>2 DEF Statuses
    <3>5. UNCHANGED <<go, status, res, blob, performed, found>>
      BY <3>2 DEF shared, blobVars, history
    <3>6. UNCHANGED <<step, request, pc, expired, regcr, addar, c22, mmd>>
      BY <3>2 DEF phy
    <3>7. active' \in BOOLEAN /\ started' \in BOOLEAN /\ (active' <=> resp'.status = "Pending")
      BY <3>2
    <3> QED BY <3>3, <3>4, <3>5, <3>6, <3>7 DEF MasterInv, TypeOK
  <2>2. CASE step \notin Final
    <3>1. active /\ started' = FALSE /\ pc' = "frame"
      BY <2>2 DEF TickDone, Polling, StartNext
    <3>2. step' \in {"MmdAddrMode", "MmdSetAddr", "MmdDataMode", "MmdData", "Done"}
      BY <2>2 DEF TickDone, StartNext, NextStep
    <3>3. /\ UNCHANGED <<active, request, resp, expired>>
          /\ UNCHANGED <<go, status, res, blob, regcr, addar, c22, mmd, performed, found>>
      BY <2>2 DEF TickDone, shared, blobVars, phy, history
    <3>4. active' \in BOOLEAN /\ started' \in BOOLEAN /\ (active' <=> resp'.status = "Pending")
      BY <3>1, <3>3 DEF MasterInv, TypeOK
    <3> QED BY <3>1, <3>2, <3>3, <3>4 DEF MasterInv, TypeOK
  <2> QED BY <2>1, <2>2
<1>2. FrameStable'
  BY DEF MasterInv, FrameStable, HandshakeInOrder, TickDone, blobVars
<1>3. TimeoutMeansStuck'
  <2>1. CASE step \in Final
    BY <2>1 DEF TimeoutMeansStuck, TickDone, Finish
  <2>2. CASE step \notin Final
    BY <2>2 DEF MasterInv, TimeoutMeansStuck, TickDone, blobVars
  <2> QED BY <2>1, <2>2
<1>4. StepsInOrder'
  <2>1. CASE step \in Final
    BY <2>1 DEF StepsInOrder, Issued, TickDone, Polling, Finish
  <2>2. CASE step \notin Final
    <3>1. active /\ started /\ step \in {"MmdAddrMode", "MmdSetAddr", "MmdDataMode"}
      BY <2>2 DEF MasterInv, TypeOK, StepsInOrder, Issued, TickDone, Polling, Final
    <3>2. request.target.kind = "mmd"
      BY <3>1 DEF MasterInv, StepsInOrder
    <3>3. step' = NextStep(step) /\ wire' = WireOf(NextStep(step)) /\ request' = request
      BY <2>2 DEF TickDone, StartNext
    <3>4. wire' = WireOf(step)'
      BY <3>1, <3>3 DEF WireOf, NextStep
    <3>5. started' = FALSE /\ pc' = "frame" /\ step' \in {"MmdSetAddr", "MmdDataMode", "MmdData"}
      BY <2>2, <3>1, <3>3 DEF TickDone, StartNext, NextStep
    <3> QED BY <3>2, <3>3, <3>4, <3>5 DEF StepsInOrder, Issued
  <2> QED BY <2>1, <2>2
<1>5. HandshakeInOrder'
  <2>1. started /\ status # "busy"
    BY DEF TickDone, Polling
  <2>2. blob = "dead" \/ (blob = "wait" /\ ~go)
    BY <2>1 DEF MasterInv, TypeOK, HandshakeInOrder
  <2>3. ~started' /\ pc' \in {"loop", "frame"}
    BY DEF TickDone, Polling, Finish, StartNext
  <2>4. UNCHANGED <<go, blob>>
    BY DEF TickDone, shared, blobVars
  <2> QED BY <2>2, <2>3, <2>4 DEF HandshakeInOrder
<1>6. AccessOnce'
  <2>1. started /\ active /\ status = "ok"
    BY DEF MasterInv, StepsInOrder, TickDone, Polling
  <2>2. blob = "dead" \/ (blob = "wait" /\ ~go)
    BY <2>1 DEF MasterInv, TypeOK, HandshakeInOrder
  <2>3. ~started' /\ UNCHANGED <<go, blob, performed, found>>
    BY DEF TickDone, Finish, StartNext, shared, blobVars, history
  <2>4. CASE step \in Final
    <3>1. ~active'
      BY <2>4 DEF TickDone, Finish
    <3> QED BY <2>2, <2>3, <3>1 DEF AccessOnce, Ran
  <2>5. CASE step \notin Final
    <3>1. ~performed /\ found = NoVal
      BY <2>1, <2>5 DEF MasterInv, AccessOnce
    <3> QED BY <2>2, <2>3, <3>1 DEF AccessOnce, Ran
  <2> QED BY <2>4, <2>5
<1>7. PhyPrepared'
  BY DEF MasterInv, PhyPrepared, Ran, TickDone, StartNext, NextStep, Polling, Finish, phy
<1> QED BY <1>1, <1>2, <1>3, <1>4, <1>5, <1>6, <1>7 DEF MasterInv

\* Time runs out for a dead blob, or for a result that waits to be polled.
LEMMA ExpireKeeps ==
  ASSUME ~LateBlob, MasterInv, Expire
  PROVE  MasterInv'
<1>1. TypeOK'
  BY DEF MasterInv, TypeOK, Expire, masterVars, shared, blobVars, phy, history
<1>2. FrameStable'
  BY DEF FrameStable, Expire, blobVars
<1>3. TimeoutMeansStuck'
  BY DEF MasterInv, TimeoutMeansStuck, Expire, masterVars, blobVars
<1>4. StepsInOrder'
  BY DEF MasterInv, TypeOK, StepsInOrder, Issued, Expire, Wire, WireOf, masterVars
<1>5. HandshakeInOrder'
  BY DEF MasterInv, HandshakeInOrder, Expire, masterVars, shared, blobVars
<1>6. AccessOnce'
  BY DEF MasterInv, AccessOnce, Ran, Expire, masterVars, shared, blobVars, history
<1>7. PhyPrepared'
  BY DEF MasterInv, PhyPrepared, Ran, Expire, masterVars, shared, blobVars, phy
<1> QED BY <1>1, <1>2, <1>3, <1>4, <1>5, <1>6, <1>7 DEF MasterInv

\* The blob takes the doorbell.
LEMMA BlobTakesKeeps ==
  ASSUME ~LateBlob, MasterInv, BlobTakes
  PROVE  MasterInv'
<1>1. TypeOK'
  <2>1. go' = FALSE /\ status' = "busy" /\ blob' = "run"
    BY DEF BlobTakes
  <2>2. /\ UNCHANGED <<active, started, step, request, resp, pc, expired, res>>
        /\ UNCHANGED <<regcr, addar, c22, mmd, performed, found>>
    BY DEF BlobTakes, masterVars, phy, history
  <2>3. go' \in BOOLEAN /\ active' \in BOOLEAN /\ (active' <=> resp'.status = "Pending")
    BY <2>1, <2>2 DEF MasterInv, TypeOK
  <2> QED BY <2>1, <2>2, <2>3 DEF MasterInv, TypeOK
<1>2. FrameStable'
  BY DEF MasterInv, FrameStable, StepsInOrder, HandshakeInOrder, BlobTakes, masterVars
<1>3. TimeoutMeansStuck'
  BY DEF MasterInv, TimeoutMeansStuck, BlobTakes, masterVars
<1>4. StepsInOrder'
  BY DEF MasterInv, TypeOK, StepsInOrder, Issued, BlobTakes, Wire, WireOf, masterVars
<1>5. HandshakeInOrder'
  BY DEF MasterInv, HandshakeInOrder, BlobTakes, masterVars
<1>6. AccessOnce'
  BY DEF MasterInv, StepsInOrder, HandshakeInOrder, AccessOnce, Ran, BlobTakes, history
<1>7. PhyPrepared'
  BY DEF MasterInv, PhyPrepared, Ran, BlobTakes, masterVars, phy
<1> QED BY <1>1, <1>2, <1>3, <1>4, <1>5, <1>6, <1>7 DEF MasterInv

\* The frame runs: the access takes effect, or REGCR and ADDAR are prepared for it.
LEMMA BlobRunsKeeps ==
  ASSUME ~LateBlob, MasterInv, BlobRuns
  PROVE  MasterInv'
<1>1. TypeOK'
  <2>1. active /\ cmd = WireOf(step) /\ step # "Start"
    BY DEF MasterInv, FrameStable, StepsInOrder, Issued, BlobRuns
  <2>2. /\ regcr' \in [mode : {"addr", "data"}, mmd : Mmds] /\ addar' \in MmdRegs
        /\ c22' \in [Regs -> Vals] /\ mmd' \in [Mmds -> [MmdRegs -> Vals]]
    <3>1. CASE ~cmd.read /\ request.present
      <4>1. PhyWrites(cmd)
        BY <3>1 DEF BlobRuns
      <4>2. CASE step = "Done"
        BY <2>1, <4>1, <4>2, MdioMasterAssumption
        DEF MasterInv, TypeOK, StepsInOrder, Requests, Targets, Direct, Indirect, WireOf, Wire,
            PhyWrites
      <4>3. CASE step \in {"MmdAddrMode", "MmdDataMode"}
        BY <2>1, <4>1, <4>3, MdioMasterAssumption
        DEF MasterInv, TypeOK, StepsInOrder, Requests, Targets, Direct, Indirect, WireOf, Wire,
            PhyWrites
      <4>4. CASE step = "MmdSetAddr"
        <5>1. regcr.mode = "addr"
          BY <2>1, <3>1, <4>4 DEF MasterInv, PhyPrepared
        <5> QED
          BY <2>1, <4>1, <4>4, <5>1, MdioMasterAssumption
          DEF MasterInv, TypeOK, StepsInOrder, Requests, Targets, Direct, Indirect, WireOf, Wire,
              PhyWrites
      <4>5. CASE step = "MmdData"
        <5>1. regcr.mode = "data" /\ cmd.reg = "ADDAR" /\ cmd.val \in Vals
          BY <2>1, <3>1, <4>5 DEF MasterInv, TypeOK, PhyPrepared, Requests, WireOf, Wire
        <5>2. mmd' = [mmd EXCEPT ![regcr.mmd][addar] = cmd.val] /\ UNCHANGED <<regcr, addar, c22>>
          BY <4>1, <5>1, MdioMasterAssumption DEF PhyWrites
        <5> QED BY <5>1, <5>2 DEF MasterInv, TypeOK
      <4>6. step \in {"Done", "MmdAddrMode", "MmdDataMode", "MmdSetAddr", "MmdData"}
        BY <2>1 DEF MasterInv, TypeOK
      <4> QED BY <4>2, <4>3, <4>4, <4>5, <4>6
    <3>2. CASE ~(~cmd.read /\ request.present)
      BY <3>2 DEF MasterInv, TypeOK, BlobRuns, phy
    <3> QED BY <3>1, <3>2
  <2>3. found' \in Vals \cup {NoVal}
    <3>1. CASE Ours /\ cmd.read /\ request.present
      BY <3>1 DEF MasterInv, TypeOK, BlobRuns, PhyReads
    <3>2. CASE ~(Ours /\ cmd.read /\ request.present)
      BY <3>2 DEF MasterInv, TypeOK, BlobRuns
    <3> QED BY <3>1, <3>2
  <2>4. performed' \in BOOLEAN
    BY DEF MasterInv, TypeOK, BlobRuns, Ours
  <2> QED
    BY <2>2, <2>3, <2>4 DEF MasterInv, TypeOK, BlobRuns, masterVars, shared
<1>2. FrameStable'
  BY DEF MasterInv, FrameStable, BlobRuns, masterVars, shared
<1>3. TimeoutMeansStuck'
  BY DEF MasterInv, TimeoutMeansStuck, BlobRuns, masterVars
<1>4. StepsInOrder'
  BY DEF MasterInv, TypeOK, StepsInOrder, Issued, BlobRuns, Wire, WireOf, masterVars
<1>5. HandshakeInOrder'
  BY DEF MasterInv, HandshakeInOrder, BlobRuns, masterVars, shared
<1>6. AccessOnce'
  <2>1. started /\ active /\ cmd = wire /\ status = "busy" /\ ~go /\ ~performed
    BY DEF MasterInv, FrameStable, HandshakeInOrder, AccessOnce, BlobRuns
  <2>2. Ours <=> step \in Final
    BY <2>1 DEF Ours, BlobRuns
  <2>3. step \in Final => wire.read = request.read
    BY <2>1 DEF MasterInv, StepsInOrder, Issued, WireOf, Wire, Final
  <2>4. found = NoVal
    BY <2>1 DEF MasterInv, AccessOnce
  <2>5. /\ blob' = "result"
        /\ UNCHANGED <<started, active, step, request, wire, status, go, res>>
    BY DEF BlobRuns, masterVars, shared
  <2>6. CASE step \in Final
    <3>1. performed'
      BY <2>2, <2>6 DEF BlobRuns
    <3>2. request.read /\ request.present => found' = PhyReads(wire)'
      BY <2>1, <2>2, <2>3, <2>5, <2>6 DEF BlobRuns, PhyReads, phy
    <3>3. ~request.read \/ ~request.present => found' = NoVal
      BY <2>1, <2>2, <2>3, <2>4, <2>6 DEF BlobRuns
    <3> QED BY <2>1, <2>5, <2>6, <3>1, <3>2, <3>3 DEF AccessOnce, Final, Ran
  <2>7. CASE step \notin Final
    <3>1. ~performed' /\ found' = NoVal
      BY <2>1, <2>2, <2>4, <2>7 DEF BlobRuns
    <3> QED BY <2>1, <2>5, <2>7, <3>1 DEF AccessOnce, Ran
  <2> QED BY <2>6, <2>7
<1>7. PhyPrepared'
  <2> SUFFICES ASSUME active', request.present'
               PROVE  PhyPrepared'
    BY DEF PhyPrepared
  <2>1. started /\ active /\ cmd = WireOf(step) /\ request.present
    BY DEF MasterInv, FrameStable, StepsInOrder, Issued, HandshakeInOrder, BlobRuns, masterVars
  <2>2. UNCHANGED <<active, step, request>>
    BY DEF BlobRuns, masterVars
  <2>3. CASE step \in {"MmdAddrMode", "MmdSetAddr", "MmdDataMode"}
    <3>1. PhyWrites(cmd)
      BY <2>1, <2>3 DEF BlobRuns, WireOf, Wire
    <3>2. step = "MmdSetAddr" => regcr.mode = "addr"
      BY <2>1 DEF MasterInv, PhyPrepared
    <3>3. step = "MmdDataMode" => addar = request.target.reg
      BY <2>1 DEF MasterInv, PhyPrepared
    <3> QED
      BY <2>1, <2>2, <2>3, <3>1, <3>2, <3>3, MdioMasterAssumption
      DEF PhyPrepared, PhyWrites, WireOf, Wire
  <2>4. CASE step = "MmdData"
    <3>1. addar = request.target.reg /\ regcr.mode = "data" /\ regcr.mmd = request.target.mmd
      BY <2>1, <2>4 DEF MasterInv, PhyPrepared
    <3>2. UNCHANGED <<regcr, addar>>
      BY <2>1, <2>4, <3>1, MdioMasterAssumption DEF BlobRuns, PhyWrites, WireOf, Wire, phy
    <3> QED BY <2>2, <2>4, <3>1, <3>2 DEF PhyPrepared
  <2>5. CASE step \in {"Start", "Done"}
    BY <2>2, <2>5 DEF PhyPrepared
  <2> QED BY <2>3, <2>4, <2>5 DEF MasterInv, TypeOK
<1> QED BY <1>1, <1>2, <1>3, <1>4, <1>5, <1>6, <1>7 DEF MasterInv

\* The sampled word reaches the mailbox before STATUS does.
LEMMA BlobStoresKeeps ==
  ASSUME ~LateBlob, MasterInv, BlobStores
  PROVE  MasterInv'
<1>1. TypeOK'
  BY DEF MasterInv, TypeOK, BlobStores, PhyReads, masterVars, phy, history
<1>2. FrameStable'
  BY DEF MasterInv, FrameStable, BlobStores, masterVars
<1>3. TimeoutMeansStuck'
  BY DEF MasterInv, TimeoutMeansStuck, BlobStores, masterVars
<1>4. StepsInOrder'
  BY DEF MasterInv, TypeOK, StepsInOrder, Issued, BlobStores, Wire, WireOf, masterVars
<1>5. HandshakeInOrder'
  BY DEF MasterInv, HandshakeInOrder, BlobStores, masterVars
<1>6. AccessOnce'
  BY DEF MasterInv, StepsInOrder, HandshakeInOrder, AccessOnce, Ran, Final, BlobStores,
         Wire, WireOf, masterVars, history
<1>7. PhyPrepared'
  BY DEF MasterInv, PhyPrepared, Ran, BlobStores, masterVars, phy
<1> QED BY <1>1, <1>2, <1>3, <1>4, <1>5, <1>6, <1>7 DEF MasterInv

\* STATUS is published last.
LEMMA BlobPublishesKeeps ==
  ASSUME ~LateBlob, MasterInv, BlobPublishes
  PROVE  MasterInv'
<1>1. TypeOK'
  BY DEF MasterInv, TypeOK, BlobPublishes, masterVars, phy, history
<1>2. FrameStable'
  BY DEF FrameStable, BlobPublishes
<1>3. TimeoutMeansStuck'
  BY DEF MasterInv, TimeoutMeansStuck, BlobPublishes, masterVars
<1>4. StepsInOrder'
  BY DEF MasterInv, TypeOK, StepsInOrder, Issued, BlobPublishes, Wire, WireOf, masterVars
<1>5. HandshakeInOrder'
  BY DEF MasterInv, TypeOK, HandshakeInOrder, BlobPublishes, masterVars
<1>6. AccessOnce'
  BY DEF MasterInv, TypeOK, StepsInOrder, HandshakeInOrder, AccessOnce, Issued, Ran, Final,
         BlobPublishes, Wire, WireOf, masterVars, history
<1>7. PhyPrepared'
  BY DEF MasterInv, PhyPrepared, Ran, BlobPublishes, masterVars, phy
<1> QED BY <1>1, <1>2, <1>3, <1>4, <1>5, <1>6, <1>7 DEF MasterInv

\* A blob that dies leaves everything as it is.
LEMMA BlobDiesKeeps ==
  ASSUME ~LateBlob, MasterInv, BlobDies
  PROVE  MasterInv'
<1>1. TypeOK'
  BY DEF MasterInv, TypeOK, BlobDies, masterVars, shared, phy, history
<1>2. FrameStable'
  BY DEF FrameStable, BlobDies
<1>3. TimeoutMeansStuck'
  BY DEF TimeoutMeansStuck, BlobDies
<1>4. StepsInOrder'
  BY DEF MasterInv, TypeOK, StepsInOrder, Issued, BlobDies, Wire, WireOf, masterVars
<1>5. HandshakeInOrder'
  BY DEF MasterInv, HandshakeInOrder, BlobDies, masterVars, shared
<1>6. AccessOnce'
  BY DEF MasterInv, HandshakeInOrder, AccessOnce, Ran, BlobDies, masterVars, shared, history
<1>7. PhyPrepared'
  BY DEF MasterInv, PhyPrepared, Ran, BlobDies, masterVars, shared, phy
<1> QED BY <1>1, <1>2, <1>3, <1>4, <1>5, <1>6, <1>7 DEF MasterInv

\* A step that changes nothing.
LEMMA StutterKeeps ==
  ASSUME MasterInv, UNCHANGED vars
  PROVE  MasterInv'
<1>1. TypeOK'
  BY DEF MasterInv, TypeOK, vars, masterVars, shared, blobVars, phy, history
<1>2. FrameStable' /\ TimeoutMeansStuck' /\ StepsInOrder'
  BY DEF MasterInv, FrameStable, TimeoutMeansStuck, StepsInOrder, Issued, WireOf, vars,
         masterVars, shared, blobVars
<1>3. HandshakeInOrder' /\ AccessOnce' /\ PhyPrepared'
  BY DEF MasterInv, HandshakeInOrder, AccessOnce, PhyPrepared, Ran, PhyReads, vars,
         masterVars, shared, blobVars, phy, history
<1> QED BY <1>1, <1>2, <1>3 DEF MasterInv

\* Every step keeps the invariant.
LEMMA MasterInvStep ==
  ASSUME ~LateBlob, MasterInv, [Next]_vars
  PROVE  MasterInv'
BY SubmitKeeps, TickStartKeeps, WriteFrameKeeps, ClearStatusKeeps, RingDoorbellKeeps,
   TickTimeoutKeeps, TickNoRespKeeps, TickDoneKeeps, ExpireKeeps, BlobTakesKeeps,
   BlobRunsKeeps, BlobStoresKeeps, BlobPublishesKeeps, BlobDiesKeeps, StutterKeeps
DEF Next, Tick, Blob

\* The handshake, the steps of a request and the PHY's pointer registers fit
\* together in every reachable state.
THEOREM MasterInvariant ==
  ASSUME ~LateBlob
  PROVE  Spec => []MasterInv
<1>1. MasterInv /\ [Next]_vars => MasterInv'
  BY MasterInvStep
<1> QED BY <1>1, MasterInvInit, PTL DEF Spec

\* Types, in particular: the mailbox is pending exactly while a request is active.
THEOREM MasterTypeOK ==
  ASSUME ~LateBlob
  PROVE  Spec => []TypeOK
<1>1. MasterInv => TypeOK
  BY DEF MasterInv
<1> QED BY <1>1, MasterInvariant, PTL

\* The driver does not touch the frame registers under a running blob.
THEOREM FrameNeverTorn ==
  ASSUME ~LateBlob
  PROVE  Spec => []FrameStable
<1>1. MasterInv => FrameStable
  BY DEF MasterInv
<1> QED BY <1>1, MasterInvariant, PTL

\* No result is lost between the two processors: only a stuck blob times out.
THEOREM NoResultLost ==
  ASSUME ~LateBlob
  PROVE  Spec => []TimeoutMeansStuck
<1>1. MasterInv => TimeoutMeansStuck
  BY DEF MasterInv
<1> QED BY <1>1, MasterInvariant, PTL

------------------------------------------------------------------------------
\* The master implements MdioRequest.

\* The initial mailbox and registers are ones of MdioRequest.
LEMMA RefInit == Init => Request!Init
<1> SUFFICES ASSUME Init PROVE Request!Init
  OBVIOUS
<1>1. TypeOK
  BY MasterInvInit DEF MasterInv
<1>2. PhyRegs \in [Targets -> Vals]
  BY <1>1 DEF TypeOK, PhyRegs, Targets, Direct, Indirect
<1> QED
  BY <1>1, <1>2 DEF Init, Request!Init, TypeOK, Requests, Request!Requests

\* submit() is the abstract Submit.
LEMMA RefSubmit ==
  ASSUME NEW r \in Requests, MasterInv, Submit(r)
  PROVE  Request!Submit(r)
  BY DEF MasterInv, TypeOK, Submit, Accepting, Request!Submit, Request!Pending, PhyRegs, phy

\* Writing a Clause-22 register changes that register and no other.
LEMMA DirectWrite ==
  ASSUME NEW t \in Direct, NEW v, c22 \in [Regs -> Vals],
         UNCHANGED mmd, c22' = [c22 EXCEPT ![t.reg] = v]
  PROVE  PhyRegs' = [PhyRegs EXCEPT ![t] = v]
<1>1. \A s \in Direct : s.reg = t.reg => s = t
  BY DEF Direct
<1>2. t \in Targets /\ t.reg \in Regs /\ t.kind = "direct"
  BY DEF Targets, Direct
<1>3. \A s \in Targets : s \in Direct \/ s.kind # "direct"
  BY DEF Targets, Indirect
<1>4. \A s \in Direct : s.kind = "direct" /\ s.reg \in Regs
  BY DEF Direct
<1>5. \A s \in Targets : PhyRegs'[s] = [PhyRegs EXCEPT ![t] = v][s]
  BY <1>1, <1>2, <1>3, <1>4 DEF PhyRegs
<1> QED BY <1>5 DEF PhyRegs

\* Writing an MMD register changes that register and no other.
LEMMA IndirectWrite ==
  ASSUME NEW t \in Indirect, NEW v, mmd \in [Mmds -> [MmdRegs -> Vals]],
         UNCHANGED c22, mmd' = [mmd EXCEPT ![t.mmd][t.reg] = v]
  PROVE  PhyRegs' = [PhyRegs EXCEPT ![t] = v]
<1>1. \A s \in Indirect : s.mmd = t.mmd /\ s.reg = t.reg => s = t
  BY DEF Indirect
<1>2. t \in Targets /\ t.mmd \in Mmds /\ t.reg \in MmdRegs /\ t.kind = "mmd"
  BY DEF Targets, Indirect
<1>3. \A s \in Targets : s \in Indirect \/ s.kind = "direct"
  BY DEF Targets, Direct
<1>4. \A s \in Indirect : s.kind = "mmd" /\ s.mmd \in Mmds /\ s.reg \in MmdRegs
  BY DEF Indirect
<1>5. \A s \in Targets : PhyRegs'[s] = [PhyRegs EXCEPT ![t] = v][s]
  BY <1>1, <1>2, <1>3, <1>4 DEF PhyRegs
<1> QED BY <1>5 DEF PhyRegs

\* The final frame of a request is its access, direct or through REGCR and ADDAR.
LEMMA RefAccess ==
  ASSUME MasterInv, BlobRuns, step \in Final
  PROVE  Request!Perform
<1>1. started /\ active /\ cmd = wire /\ ~performed /\ found = NoVal
  BY DEF MasterInv, FrameStable, HandshakeInOrder, AccessOnce, BlobRuns
<1>2. wire = WireOf(step)
  BY <1>1 DEF MasterInv, StepsInOrder, Issued
<1>3. TypeOK /\ request.target \in Targets
  BY DEF MasterInv, TypeOK, Requests
<1>4. Ours
  BY <1>1 DEF BlobRuns, Ours
<1> DEFINE t == request.target
<1>5. Request!Pending
  BY <1>1, <1>3 DEF TypeOK, Request!Pending
<1>6. performed' /\ UNCHANGED <<resp, request>>
  BY <1>1, <1>4 DEF BlobRuns, masterVars
<1>7. CASE step = "Done"
  <2>1. t \in Direct
    BY <1>1, <1>3, <1>7 DEF MasterInv, StepsInOrder, Targets, Direct, Indirect
  <2>2. cmd = Wire(request.read, t.reg, request.val)
    BY <1>1, <1>2, <1>7 DEF WireOf
  <2>3. t.reg \in Regs /\ t.reg \notin {"REGCR", "ADDAR"}
    BY <2>1, MdioMasterAssumption DEF Direct
  <2>4. found' = IF request.read /\ request.present THEN PhyRegs[t] ELSE NoVal
    BY <1>1, <1>3, <1>4, <2>1, <2>2, <2>3 DEF BlobRuns, Wire, PhyReads, PhyRegs, Direct
  <2>5. CASE ~request.read /\ request.present
    <3>1. UNCHANGED mmd /\ c22' = [c22 EXCEPT ![t.reg] = request.val]
      BY <2>2, <2>3, <2>5 DEF BlobRuns, Wire, PhyWrites
    <3>2. PhyRegs' = [PhyRegs EXCEPT ![t] = request.val]
      BY <3>1, <2>1, <1>3, DirectWrite DEF TypeOK
    <3> QED BY <3>2, <2>4, <2>5, <1>1, <1>5, <1>6 DEF Request!Perform
  <2>6. CASE ~(~request.read /\ request.present)
    <3>1. UNCHANGED phy
      BY <2>2, <2>6 DEF BlobRuns, Wire
    <3> QED BY <3>1, <2>4, <2>6, <1>1, <1>5, <1>6 DEF Request!Perform, PhyRegs, phy
  <2> QED BY <2>5, <2>6
<1>8. CASE step = "MmdData"
  <2>1. t \in Indirect
    BY <1>1, <1>3, <1>8 DEF MasterInv, StepsInOrder, Targets, Direct, Indirect
  <2>2. cmd = Wire(request.read, "ADDAR", request.val)
    BY <1>1, <1>2, <1>8 DEF WireOf
  <2>3. request.present => regcr.mode = "data" /\ regcr.mmd = t.mmd /\ addar = t.reg
    BY <1>1, <1>8 DEF MasterInv, PhyPrepared
  <2>4. "ADDAR" \notin Regs
    BY MdioMasterAssumption
  <2>5. found' = IF request.read /\ request.present THEN PhyRegs[t] ELSE NoVal
    BY <1>1, <1>3, <1>4, <2>1, <2>2, <2>3, <2>4 DEF BlobRuns, Wire, PhyReads, PhyRegs, Indirect
  <2>6. CASE ~request.read /\ request.present
    <3>1. UNCHANGED c22 /\ mmd' = [mmd EXCEPT ![t.mmd][t.reg] = request.val]
      BY <2>2, <2>3, <2>4, <2>6 DEF BlobRuns, Wire, PhyWrites
    <3>2. PhyRegs' = [PhyRegs EXCEPT ![t] = request.val]
      BY <3>1, <2>1, <1>3, IndirectWrite DEF TypeOK
    <3> QED BY <3>2, <2>5, <2>6, <1>1, <1>5, <1>6 DEF Request!Perform
  <2>7. CASE ~(~request.read /\ request.present)
    <3>1. UNCHANGED phy
      BY <2>2, <2>7 DEF BlobRuns, Wire
    <3> QED BY <3>1, <2>5, <2>7, <1>1, <1>5, <1>6 DEF Request!Perform, PhyRegs, phy
  <2> QED BY <2>6, <2>7
<1> QED BY <1>7, <1>8 DEF Final

\* The frames before it are invisible: they touch REGCR and ADDAR only.
LEMMA RefPrepare ==
  ASSUME MasterInv, BlobRuns, step \notin Final
  PROVE  UNCHANGED Request!requestVars
<1>1. started /\ active /\ cmd = wire
  BY DEF MasterInv, FrameStable, BlobRuns
<1>2. wire = WireOf(step) /\ step \in {"MmdAddrMode", "MmdSetAddr", "MmdDataMode"}
  BY <1>1 DEF MasterInv, TypeOK, StepsInOrder, Issued, Final
<1>3. ~Ours /\ UNCHANGED <<resp, request, performed, found>>
  BY DEF BlobRuns, Ours, masterVars, MasterInv, TypeOK
<1>4. "REGCR" \notin Regs /\ "ADDAR" \notin Regs
  BY MdioMasterAssumption
<1>5. step = "MmdSetAddr" /\ request.present => regcr.mode = "addr"
  BY <1>1 DEF MasterInv, PhyPrepared
<1>6. cmd.reg = IF step = "MmdSetAddr" THEN "ADDAR" ELSE "REGCR"
  BY <1>1, <1>2 DEF WireOf, Wire
<1>7. UNCHANGED <<c22, mmd>>
  BY <1>4, <1>5, <1>6 DEF BlobRuns, PhyWrites, phy
<1> QED BY <1>3, <1>7 DEF Request!requestVars, PhyRegs

\* The end of the final transaction is the answer, with what the access has found.
LEMMA RefDone ==
  ASSUME MasterInv, TickDone, step \in Final
  PROVE  Request!Answer
<1>1. active /\ started /\ performed /\ status = "ok" /\ Ran
  BY DEF TickDone, Polling, MasterInv, AccessOnce, Ran
<1>2. wire.read = request.read
  BY <1>1 DEF MasterInv, StepsInOrder, Issued, WireOf, Wire, Final
<1>3. ~request.read \/ request.present
  BY <1>1 DEF MasterInv, AccessOnce
<1>4. blob # "result"
  BY <1>1 DEF MasterInv, HandshakeInOrder
<1>5. (IF wire.read THEN res ELSE NoVal) = found
  BY <1>1, <1>2, <1>3, <1>4 DEF MasterInv, AccessOnce
<1>6. resp' = [status |-> "Done", value |-> found]
  BY <1>5 DEF TickDone, Finish
<1>7. Request!Pending
  BY <1>1 DEF MasterInv, TypeOK, Request!Pending
<1> QED BY <1>1, <1>3, <1>6, <1>7 DEF TickDone, Finish, Request!Answer, PhyRegs, phy, history

\* A read that no PHY answered.
LEMMA RefNoResp ==
  ASSUME MasterInv, TickNoResp
  PROVE  Request!Answer
<1>1. active /\ started /\ status = "noresp" /\ Ran
  BY DEF TickNoResp, Polling, Ran
<1>2. performed /\ request.read /\ ~request.present
  BY <1>1 DEF MasterInv, AccessOnce
<1>3. Request!Pending
  BY <1>1 DEF MasterInv, TypeOK, Request!Pending
<1> QED BY <1>2, <1>3 DEF TickNoResp, Finish, Request!Answer, PhyRegs, phy, history

\* The device-side timeout.
LEMMA RefTimeout ==
  ASSUME MasterInv, TickTimeout
  PROVE  Request!GiveUp
  BY DEF MasterInv, TypeOK, TickTimeout, Polling, Finish, Request!GiveUp, Request!Pending,
         PhyRegs, phy, history

\* Every other step is invisible to the client.
LEMMA RefRest ==
  ASSUME \/ TickStart \/ WriteFrame \/ ClearStatus \/ RingDoorbell \/ Expire
         \/ BlobTakes \/ BlobStores \/ BlobPublishes \/ BlobDies
         \/ (TickDone /\ step \notin Final) \/ UNCHANGED vars
  PROVE  UNCHANGED Request!requestVars
  BY DEF TickStart, WriteFrame, ClearStatus, RingDoorbell, Expire, BlobTakes, BlobStores,
         BlobPublishes, BlobDies, TickDone, vars, masterVars, phy, history,
         Request!requestVars, PhyRegs

\* Every step is one of MdioRequest, or invisible in it.
LEMMA RefStep ==
  ASSUME MasterInv, [Next]_vars
  PROVE  [Request!Next]_(Request!requestVars)
<1>1. ASSUME NEW r \in Requests, Submit(r)
      PROVE  Request!Next
  BY <1>1, RefSubmit DEF Request!Next, Requests, Request!Requests
<1>2. CASE BlobRuns
  BY <1>2, RefAccess, RefPrepare DEF Request!Next
<1>3. CASE TickDone
  BY <1>3, RefDone, RefRest DEF Request!Next
<1>4. CASE TickNoResp \/ TickTimeout
  BY <1>4, RefNoResp, RefTimeout DEF Request!Next
<1> QED
  BY <1>1, <1>2, <1>3, <1>4, RefRest DEF Next, Tick, Blob

\* A request, direct or of four transactions, acts as one access of its register,
\* and its answer is what that access found.
THEOREM MasterImplementsRequest ==
  ASSUME ~LateBlob
  PROVE  Spec => RequestSpec
<1>1. MasterInv /\ [Next]_vars => [Request!Next]_(Request!requestVars)
  BY RefStep
<1> QED
  BY <1>1, MasterInvariant, RefInit, PTL DEF Spec, RequestSpec, Request!Spec

------------------------------------------------------------------------------
\* The bridge: the bytes of a packet.

\* Newlines and words of the line, from one word of a packet to the next.
LEMMA NextWord ==
  ASSUME NEW words, NEW k \in Nat \ {0}
  PROVE  /\ words[k] = "newline" =>
              /\ Newlines(words, k + 1) = Newlines(words, k) \cup {k}
              /\ SameLine(words, k + 1) = {k + 1}
         /\ words[k] # "newline" =>
              /\ Newlines(words, k + 1) = Newlines(words, k)
              /\ SameLine(words, k + 1) = SameLine(words, k) \cup {k + 1}
         /\ k \notin Newlines(words, k) /\ k + 1 \notin SameLine(words, k)
<1>1. 1 .. k + 1 - 1 = (1 .. k - 1) \cup {k} /\ 1 .. k + 1 = (1 .. k) \cup {k + 1}
  OBVIOUS
<1>2. k \notin 1 .. k - 1 /\ k + 1 \notin 1 .. k
  OBVIOUS
<1>3. \A j \in 1 .. k : j .. k + 1 - 1 = (j .. k - 1) \cup {k}
  OBVIOUS
<1>4. k + 1 .. k + 1 - 1 = {}
  OBVIOUS
<1>5. \A j \in 1 .. k : k \in j .. k + 1 - 1
  OBVIOUS
<1>6. ASSUME words[k] = "newline"
      PROVE  /\ Newlines(words, k + 1) = Newlines(words, k) \cup {k}
             /\ SameLine(words, k + 1) = {k + 1}
  <2>1. Newlines(words, k + 1) = Newlines(words, k) \cup {k}
    BY <1>1, <1>6 DEF Newlines
  <2>2. \A j \in 1 .. k : j \notin SameLine(words, k + 1)
    BY <1>5, <1>6 DEF SameLine
  <2>3. k + 1 \in SameLine(words, k + 1)
    BY <1>1, <1>4 DEF SameLine
  <2>4. SameLine(words, k + 1) \subseteq (1 .. k) \cup {k + 1}
    BY <1>1 DEF SameLine
  <2> QED BY <2>1, <2>2, <2>3, <2>4, Zenon
<1>7. ASSUME words[k] # "newline"
      PROVE  /\ Newlines(words, k + 1) = Newlines(words, k)
             /\ SameLine(words, k + 1) = SameLine(words, k) \cup {k + 1}
  <2>1. Newlines(words, k + 1) = Newlines(words, k)
    BY <1>1, <1>7 DEF Newlines
  <2>2. ASSUME NEW j \in 1 .. k
        PROVE  j \in SameLine(words, k + 1) <=> j \in SameLine(words, k)
    BY <1>1, <1>3, <1>7, <2>2 DEF SameLine
  <2>3. k + 1 \in SameLine(words, k + 1)
    BY <1>1, <1>4 DEF SameLine
  <2>4. /\ SameLine(words, k + 1) \subseteq (1 .. k) \cup {k + 1}
        /\ SameLine(words, k) \subseteq 1 .. k
    BY <1>1 DEF SameLine
  <2> QED BY <2>1, <2>2, <2>3, <2>4, Zenon
<1> QED BY <1>2, <1>6, <1>7, Zenon DEF Newlines, SameLine

\* Both are finite, and before the first word there is nothing.
LEMMA WordsFinite ==
  ASSUME NEW words, NEW k \in Nat \ {0}
  PROVE  /\ IsFiniteSet(Newlines(words, k)) /\ IsFiniteSet(SameLine(words, k))
         /\ Cardinality(Newlines(words, k)) \in Nat /\ Cardinality(SameLine(words, k)) \in Nat
<1>1. IsFiniteSet(1 .. k - 1) /\ IsFiniteSet(1 .. k)
  <2>1. k \in Int /\ k - 1 \in Int /\ 1 \in Int
    OBVIOUS
  <2> QED BY <2>1, FS_Interval, Zenon
<1>2. Newlines(words, k) \in SUBSET (1 .. k - 1) /\ SameLine(words, k) \in SUBSET (1 .. k)
  BY DEF Newlines, SameLine
<1>3. IsFiniteSet(Newlines(words, k)) /\ IsFiniteSet(SameLine(words, k))
  BY <1>1, <1>2, FS_Subset, Zenon
<1> QED BY <1>3, FS_CardinalityType, Zenon

LEMMA FirstWord ==
  ASSUME NEW words
  PROVE  Newlines(words, 1) = {} /\ SameLine(words, 1) = {1}
<1>1. 1 .. 1 - 1 = {} /\ 1 .. 1 = {1}
  OBVIOUS
<1> QED BY <1>1 DEF Newlines, SameLine

\* The stamped bytes follow each other from the host's place on.
LEMMA Stamped ==
  ASSUME BridgeTypes, NEW n \in Nat \ {0}, NEW words \in [1 .. n -> Words]
  PROVE  /\ Stamp(words) \in Seq(Bytes) /\ Len(Stamp(words)) = n
         /\ Place(Stamp(words)[1]) = HostPlace
         /\ \A k \in 1 .. n - 1 : After(Stamp(words)[k]) = Place(Stamp(words)[k + 1])
<1> DEFINE line_(k) == atLine + Cardinality(Newlines(words, k))
           pos_(k) == Cardinality(SameLine(words, k))
                      + (IF Newlines(words, k) = {} THEN atPos ELSE 0)
<1>0. atLine \in Nat /\ atPos \in Nat
  BY DEF BridgeTypes, LineTypes, AnswerTypes
<1>1. Stamp(words) = [k \in 1 .. n |-> [word |-> words[k], line |-> line_(k), pos |-> pos_(k)]]
  BY DEF Stamp
<1>2. \A k \in 1 .. n : line_(k) \in Nat /\ pos_(k) \in Nat
  <2> TAKE k \in 1 .. n
  <2>1. k \in Nat \ {0}
    OBVIOUS
  <2>2. Cardinality(Newlines(words, k)) \in Nat /\ Cardinality(SameLine(words, k)) \in Nat
    BY <2>1, WordsFinite, Zenon
  <2> QED BY <1>0, <2>2
<1>3. \A k \in Nat \ {0} :
        /\ words[k] = "newline" => line_(k + 1) = line_(k) + 1 /\ pos_(k + 1) = 1
        /\ words[k] # "newline" => line_(k + 1) = line_(k) /\ pos_(k + 1) = pos_(k) + 1
  <2> TAKE k \in Nat \ {0}
  <2> DEFINE nls == Newlines(words, k)
             here == SameLine(words, k)
  <2>1. /\ IsFiniteSet(nls) /\ IsFiniteSet(here)
        /\ Cardinality(nls) \in Nat /\ Cardinality(here) \in Nat
    BY WordsFinite, Zenon
  <2>2. CASE words[k] = "newline"
    <3>1. Newlines(words, k + 1) = nls \cup {k} /\ k \notin nls /\ SameLine(words, k + 1) = {k + 1}
      BY <2>2, NextWord, Zenon
    <3>2. Cardinality(nls \cup {k}) = Cardinality(nls) + 1 /\ Cardinality({k + 1}) = 1
      BY <2>1, <3>1, FS_AddElement, FS_Singleton, Zenon
    <3>3. Newlines(words, k + 1) # {}
      BY <3>1, Zenon
    <3>4. /\ line_(k + 1) = atLine + Cardinality(nls \cup {k})
          /\ pos_(k + 1) = Cardinality({k + 1}) + 0
      BY <3>1, <3>3, Zenon
    <3> QED BY <1>0, <2>1, <2>2, <3>2, <3>4
  <2>3. CASE words[k] # "newline"
    <3>1. /\ Newlines(words, k + 1) = nls /\ SameLine(words, k + 1) = here \cup {k + 1}
          /\ k + 1 \notin here
      BY <2>3, NextWord, Zenon
    <3>2. Cardinality(here \cup {k + 1}) = Cardinality(here) + 1
      BY <2>1, <3>1, FS_AddElement, Zenon
    <3> DEFINE old == IF nls = {} THEN atPos ELSE 0
    <3>3. line_(k + 1) = line_(k) /\ pos_(k + 1) = Cardinality(here \cup {k + 1}) + old
      BY <3>1, Zenon
    <3>4. old \in Nat /\ pos_(k) = Cardinality(here) + old
      BY <1>0
    <3> HIDE DEF old, line_, pos_, here
    <3> QED BY <2>1, <2>3, <3>2, <3>3, <3>4 DEF here
  <2> QED BY <2>2, <2>3, Zenon
<1>4. line_(1) = atLine /\ pos_(1) = atPos + 1
  <2>1. line_(1) = atLine + Cardinality({}) /\ pos_(1) = Cardinality({1}) + atPos
    BY FirstWord, Zenon
  <2>2. Cardinality({}) = 0 /\ Cardinality({1}) = 1
    BY FS_EmptySet, FS_Singleton, Zenon
  <2> QED BY <1>0, <2>1, <2>2
<1> HIDE DEF line_, pos_
<1>5. \A k \in 1 .. n : [word |-> words[k], line |-> line_(k), pos |-> pos_(k)] \in Bytes
  BY <1>2 DEF Bytes
<1>6. Stamp(words) \in [1 .. n -> Bytes]
  BY <1>1, <1>5, Zenon
<1>7. Stamp(words) \in Seq(Bytes) /\ Len(Stamp(words)) = n
  BY <1>6
<1>8. Place(Stamp(words)[1]) = HostPlace
  <2>1. 1 \in 1 .. n
    OBVIOUS
  <2> QED BY <1>1, <1>4, <2>1 DEF Place, HostPlace
<1>9. ASSUME NEW k \in 1 .. n - 1
      PROVE  After(Stamp(words)[k]) = Place(Stamp(words)[k + 1])
  <2>1. k \in 1 .. n /\ k + 1 \in 1 .. n /\ k \in Nat \ {0}
    OBVIOUS
  <2>2. /\ Stamp(words)[k] = [word |-> words[k], line |-> line_(k), pos |-> pos_(k)]
        /\ Stamp(words)[k + 1] = [word |-> words[k + 1], line |-> line_(k + 1), pos |-> pos_(k + 1)]
    BY <1>1, <2>1, Zenon
  <2> QED BY <1>3, <2>1, <2>2 DEF After, Place
<1> QED BY <1>7, <1>8, <1>9

------------------------------------------------------------------------------
\* What comes in, and what is read.

LEMMA BridgeSizes ==
  /\ LineMax \in Nat /\ PrintRegs \in Nat /\ PrintRegs >= 1 /\ PacketMax \in Nat /\ MaxWords \in Nat
  /\ LineMax >= 2 /\ MaxOpens \in Nat
BY MdioBridgeAssumption

\* A packet leaves no gap, and the byte that is read next the same.
LEMMA PacketFollows ==
  ASSUME BridgeTypes, RxAsSent, PacketArrives
  PROVE  /\ rx' \in Seq(Bytes) /\ atLine' \in Nat /\ atPos' \in Nat /\ sentWords' \in Nat
         /\ RxAsSent' /\ NextPlace' = NextPlace
<1>0. PICK n \in 1 .. PacketMax : \E words \in [1 .. n -> Words] :
        /\ rx' = rx \o Stamp(words) /\ sentWords' = sentWords + n
        /\ atLine' = (IF Stamp(words)[n].word = "newline" THEN Stamp(words)[n].line + 1
                      ELSE Stamp(words)[n].line)
        /\ atPos' = (IF Stamp(words)[n].word = "newline" THEN 0 ELSE Stamp(words)[n].pos)
  BY Zenon DEF PacketArrives
<1>1. PICK words \in [1 .. n -> Words] :
        /\ rx' = rx \o Stamp(words) /\ sentWords' = sentWords + n
        /\ atLine' = (IF Stamp(words)[n].word = "newline" THEN Stamp(words)[n].line + 1
                      ELSE Stamp(words)[n].line)
        /\ atPos' = (IF Stamp(words)[n].word = "newline" THEN 0 ELSE Stamp(words)[n].pos)
  BY <1>0, Zenon
<1> DEFINE st == Stamp(words)
           l == Len(rx)
<1>2. n \in Nat \ {0} /\ n \in Int /\ n \in 1 .. n /\ 1 \in 1 .. n
  BY BridgeSizes
<1>3. /\ st \in Seq(Bytes) /\ Len(st) = n /\ Place(st[1]) = HostPlace
      /\ \A k \in 1 .. n - 1 : After(st[k]) = Place(st[k + 1])
  BY <1>2, Stamped, Zenon
<1>4. /\ rx \in Seq(Bytes) /\ l \in Nat /\ DOMAIN rx = 1 .. l /\ sentWords \in Nat
      /\ (rx = <<>> <=> l = 0)
  BY EmptySeq DEF BridgeTypes, LineTypes, AnswerTypes
<1>5. st[n] \in Bytes
  BY <1>2, <1>3, ElementOfSeq
<1> HIDE DEF st
<1>6. /\ rx' \in Seq(Bytes) /\ Len(rx') = l + n /\ DOMAIN rx' = 1 .. l + n
      /\ \A i \in 1 .. l + n : rx'[i] = IF i <= l THEN rx[i] ELSE st[i - l]
  <2>1. rx' = rx \o st
    BY <1>1 DEF st
  <2>2. /\ rx' \in Seq(Bytes) /\ Len(rx') = l + n
        /\ \A i \in 1 .. l + n : rx'[i] = IF i <= l THEN rx[i] ELSE st[i - l]
    BY <1>3, <1>4, <2>1, ConcatProperties, SMTT(20)
  <2> QED BY <2>2, LenProperties
<1> HIDE DEF l
<1>7. \A i \in 1 .. l : i \in 1 .. l + n /\ rx'[i] = rx[i]
  <2> TAKE i \in 1 .. l
  <2>1. i \in 1 .. l + n /\ i <= l
    BY <1>2, <1>4
  <2> QED BY <1>6, <2>1
<1>8. \A j \in 1 .. n : l + j \in 1 .. l + n /\ rx'[l + j] = st[j]
  <2> TAKE j \in 1 .. n
  <2>1. l + j \in 1 .. l + n /\ ~(l + j <= l) /\ (l + j) - l = j
    BY <1>2, <1>4
  <2>2. rx'[l + j] = st[(l + j) - l]
    BY <1>6, <2>1
  <2> QED BY <2>1, <2>2
<1>9. HostPlace' = After(st[n]) /\ atLine' \in Nat /\ atPos' \in Nat /\ sentWords' \in Nat
  BY <1>1, <1>2, <1>4, <1>5, SMTT(20) DEF HostPlace, After, Bytes, st
<1>10. RxAsSent'
  <2> SUFFICES ASSUME NEW k \in 1 .. l + n
               PROVE  After(rx'[k]) = IF k = l + n THEN HostPlace' ELSE Place(rx'[k + 1])
    BY <1>6 DEF RxAsSent, After, Place
  <2>1. CASE k \in 1 .. l - 1
    <3>1. k \in 1 .. l /\ k # l /\ k + 1 \in 1 .. l /\ k # l + n
      BY <1>2, <1>4, <2>1
    <3>2. After(rx[k]) = Place(rx[k + 1])
      BY <1>4, <3>1 DEF RxAsSent, l
    <3> QED BY <1>7, <3>1, <3>2
  <2>2. CASE k = l
    <3>1. l \in 1 .. l /\ l # l + n
      BY <1>2, <1>4, <2>2
    <3>2. After(rx[l]) = HostPlace
      BY <1>4, <3>1 DEF RxAsSent, l
    <3>3. rx'[l] = rx[l] /\ rx'[l + 1] = st[1]
      BY <1>2, <1>7, <1>8, <3>1
    <3> QED BY <1>3, <2>2, <3>1, <3>2, <3>3
  <2>3. CASE k \notin 1 .. l
    <3> DEFINE j == k - l
    <3>1. j \in 1 .. n /\ k = l + j /\ (k = l + n <=> j = n) /\ j + 1 \in Int /\ k + 1 = l + (j + 1)
      BY <1>2, <1>4, <2>3
    <3>2. j # n => j \in 1 .. n - 1 /\ j + 1 \in 1 .. n
      BY <1>2, <3>1
    <3> HIDE DEF j
    <3>3. rx'[k] = st[j] /\ (j # n => rx'[k + 1] = st[j + 1])
      BY <1>8, <3>1, <3>2
    <3>4. j # n => After(st[j]) = Place(st[j + 1])
      BY <1>3, <3>2
    <3> QED BY <1>9, <3>1, <3>3, <3>4
  <2> QED BY <2>1, <2>2, <2>3, <1>4
<1>11. NextPlace' = NextPlace
  <2>1. rx' # <<>>
    BY <1>2, <1>4, <1>6
  <2>2. CASE rx = <<>>
    <3>1. rx'[1] = st[1]
      BY <1>2, <1>4, <1>8, <2>2
    <3> QED BY <1>3, <2>1, <2>2, <3>1 DEF NextPlace, Place
  <2>3. CASE rx # <<>>
    <3>1. rx'[1] = rx[1]
      BY <1>4, <1>7, <2>3
    <3> QED BY <2>1, <2>3, <3>1 DEF NextPlace, Place
  <2> QED BY <2>2, <2>3
<1> QED BY <1>6, <1>9, <1>10, <1>11

\* Reading a byte moves on to the one after it.
LEMMA ByteRead ==
  ASSUME BridgeTypes, RxAsSent, rx # <<>>, rx' = Tail(rx), UNCHANGED hostVars
  PROVE  /\ rx' \in Seq(Bytes) /\ Head(rx) \in Bytes /\ NextPlace = Place(Head(rx))
         /\ RxAsSent' /\ NextPlace' = After(Head(rx))
<1> DEFINE l == Len(rx)
<1>1. /\ rx \in Seq(Bytes) /\ l \in Nat /\ DOMAIN rx = 1 .. l /\ l >= 1 /\ Head(rx) = rx[1]
  <2>1. rx \in Seq(Bytes)
    BY DEF BridgeTypes, LineTypes, AnswerTypes
  <2> QED BY <2>1, EmptySeq, LenProperties
<1>2. /\ Head(rx) \in Bytes /\ rx' \in Seq(Bytes) /\ Len(rx') = l - 1
      /\ \A i \in 1 .. l - 1 : rx'[i] = rx[i + 1]
  BY <1>1, HeadTailProperties
<1>3. DOMAIN rx' = 1 .. l - 1 /\ (rx' = <<>> <=> l = 1)
  <2>1. DOMAIN rx' = 1 .. Len(rx')
    BY <1>2, LenProperties
  <2> QED BY <1>1, <1>2, <2>1, EmptySeq
<1>4. HostPlace' = HostPlace
  BY DEF hostVars, HostPlace
<1>5. \A k \in 1 .. l : After(rx[k]) = IF k = l THEN HostPlace ELSE Place(rx[k + 1])
  BY <1>1 DEF RxAsSent
<1> HIDE DEF l
<1>6. RxAsSent'
  <2> SUFFICES ASSUME NEW k \in 1 .. l - 1
               PROVE  After(rx'[k]) = IF k = l - 1 THEN HostPlace' ELSE Place(rx'[k + 1])
    <3>1. RxAsSent' <=> \A k \in DOMAIN rx' : After(rx'[k]) = IF k = Len(rx') THEN HostPlace'
                                                           ELSE Place(rx'[k + 1])
      BY DEF RxAsSent, After, Place
    <3> QED BY <1>2, <1>3, <3>1, Zenon
  <2>1. k + 1 \in 1 .. l /\ (k = l - 1 <=> k + 1 = l) /\ (k # l - 1 => k + 1 \in 1 .. l - 1)
    BY <1>1
  <2>2. rx'[k] = rx[k + 1] /\ (k # l - 1 => rx'[k + 1] = rx[k + 1 + 1])
    BY <1>2, <2>1
  <2>3. After(rx[k + 1]) = IF k + 1 = l THEN HostPlace ELSE Place(rx[k + 1 + 1])
    BY <1>5, <2>1
  <2> QED BY <1>4, <2>1, <2>2, <2>3, Zenon
<1>7. NextPlace' = After(Head(rx))
  <2>1. CASE l = 1
    BY <1>1, <1>3, <1>4, <1>5, <2>1 DEF NextPlace
  <2>2. CASE l # 1
    <3>1. 1 \in 1 .. l - 1 /\ 1 \in 1 .. l
      BY <1>1, <2>2
    <3>2. rx'[1] = rx[2] /\ After(rx[1]) = Place(rx[2])
      BY <1>2, <1>5, <2>2, <3>1
    <3> QED BY <1>1, <1>3, <2>2, <3>2 DEF NextPlace, Place
  <2> QED BY <2>1, <2>2
<1>8. NextPlace = Place(Head(rx))
  BY <1>1 DEF NextPlace
<1> QED BY <1>2, <1>6, <1>7, <1>8

\* A new client starts a line, and nothing is left of the old one's.
LEMMA ClientStarts ==
  ASSUME BridgeTypes, ClientOpens
  PROVE  /\ rx' \in Seq(Bytes)
         /\ atLine' \in Nat /\ atPos' \in Nat /\ sentWords' \in Nat /\ opens' \in Nat
         /\ RxAsSent' /\ NextPlace'.pos = 1 /\ sessionStarted' = TRUE
<1>1. /\ rx' = <<>> /\ sessionStarted' = TRUE /\ sentWords' = sentWords
      /\ opens' = opens + 1 /\ atLine' = atLine + 1 /\ atPos' = 0
  BY DEF ClientOpens
<1>2. atLine \in Nat /\ sentWords \in Nat /\ opens \in Nat
  BY DEF BridgeTypes, LineTypes, AnswerTypes
<1>3. DOMAIN rx' = {}
  BY <1>1
<1>4. RxAsSent'
  BY <1>3 DEF RxAsSent
<1>5. NextPlace'.pos = 1
  BY <1>1 DEF NextPlace, HostPlace
<1> QED BY <1>1, <1>2, <1>4, <1>5, EmptySeq

------------------------------------------------------------------------------
\* The lines printf() has, and those that answer a command.

LEMMA Counting ==
  ASSUME NEW lines \in Seq(Lines)
  PROVE  /\ lines = <<>> => Due(lines) = 0
         /\ Len(lines) = 1 => Due(lines) = (IF lines[1] = Invalid THEN 0 ELSE 1)
         /\ (\A k \in DOMAIN lines : lines[k].kind = "busy") => Due(lines) = Len(lines)
<1> DEFINE D == {k \in DOMAIN lines : lines[k] # Invalid}
<1>1. Len(lines) \in Nat /\ DOMAIN lines = 1 .. Len(lines)
  BY LenProperties
<1>2. ASSUME lines = <<>> PROVE Due(lines) = 0
  <2>1. D = {}
    BY <1>2
  <2> QED BY <2>1, FS_EmptySet, Zenon DEF Due
<1>3. ASSUME Len(lines) = 1 PROVE Due(lines) = (IF lines[1] = Invalid THEN 0 ELSE 1)
  <2>1. DOMAIN lines = {1}
    BY <1>1, <1>3
  <2>2. D = IF lines[1] = Invalid THEN {} ELSE {1}
    BY <2>1
  <2> QED BY <2>2, FS_EmptySet, FS_Singleton, Zenon DEF Due
<1>4. ASSUME \A k \in DOMAIN lines : lines[k].kind = "busy" PROVE Due(lines) = Len(lines)
  <2>1. \A k \in DOMAIN lines : lines[k] # Invalid
    BY <1>4 DEF Invalid
  <2>2. D = 1 .. Len(lines)
    BY <1>1, <2>1, Zenon
  <2>3. 1 \in Int /\ Len(lines) \in Int /\ Cardinality(1 .. Len(lines)) = Len(lines)
    BY <1>1, FS_Interval
  <2> QED BY <2>2, <2>3, Zenon DEF Due
<1> QED BY <1>2, <1>3, <1>4

\* One answer is owed for it: a line of printf()'s that is no parse error.
LEMMA OneLine ==
  ASSUME NEW l \in Lines
  PROVE  /\ <<l>> \in Seq(Lines) /\ Len(<<l>>) = 1 /\ <<l>> # <<>> /\ <<l>>[1] = l
         /\ Due(<<l>>) = (IF l = Invalid THEN 0 ELSE 1)
<1>1. <<l>> \in Seq(Lines) /\ Len(<<l>>) = 1 /\ <<l>> # <<>> /\ <<l>>[1] = l
  OBVIOUS
<1> QED BY <1>1, Counting, Zenon

LEMMA NoLine == <<>> \in Seq(Lines) /\ Due(<<>>) = 0
BY EmptySeq, Counting, Zenon

\* The lines still owed are a number of lines.
LEMMA OwedByParts ==
  ASSUME BridgeTypes
  PROVE  /\ (IF pending THEN 1 ELSE 0) \in Nat
         /\ (IF printActive THEN PrintRegs - printNextReg ELSE 0) \in Nat
<1>1. printNextReg \in 0 .. PrintRegs
  BY DEF BridgeTypes, LineTypes, AnswerTypes
<1> QED BY <1>1, BridgeSizes

------------------------------------------------------------------------------
\* The bridge's inductive invariant.

\* What a step does to the line depends on the bytes, the line and the session ...
LineSide == <<rx, sessionStarted, lineVars, hostVars, openedInside>>

LEMMA LineStill ==
  ASSUME BridgeInv, UNCHANGED LineSide,
         stage \in {"mdio", "session"} => stage' \in {"mdio", "session"}
  PROVE  LineTypes' /\ RxAsSent' /\ LineAsSent'
<1>1. UNCHANGED <<rx, sessionStarted, line, discardLine, atLine, atPos, openedInside>>
  BY DEF LineSide, lineVars, hostVars
<1>2. NextPlace' = NextPlace /\ HostPlace' = HostPlace
  BY <1>1 DEF NextPlace, HostPlace, Place
<1>3. RxAsSent /\ LineAsSent
  BY DEF BridgeInv
<1>4. RxAsSent'
  BY <1>1, <1>2, <1>3 DEF RxAsSent, After, Place
<1>5. LineAsSent'
  BY <1>1, <1>2, <1>3 DEF LineAsSent
<1>6. LineTypes'
  <2>1. LineTypes
    BY DEF BridgeInv, BridgeTypes
  <2> QED BY <1>1, <2>1 DEF LineSide, hostVars, LineTypes
<1> QED BY <1>4, <1>5, <1>6

\* ... and what it does to the answers on the master, the print and printf().
AnswerSide == <<pending, activeReq, printVars, toPrint, owed>>

LEMMA AnswersStill ==
  ASSUME BridgeInv, UNCHANGED AnswerSide, Quiet \/ stage' = stage
  PROVE  AnswerTypes' /\ PrintfHolds' /\ OneAnswerPerCommand' /\ PrintInStep'
<1>1. UNCHANGED <<pending, activeReq, printActive, printNextReg, printed, toPrint, owed>>
  BY DEF AnswerSide, printVars
<1>2. PrintfHolds /\ OneAnswerPerCommand /\ PrintInStep
  BY DEF BridgeInv
<1>3. PrintfHolds'
  BY <1>1, <1>2 DEF PrintfHolds, Quiet
<1>4. Due(toPrint') = Due(toPrint)
  BY <1>1
<1>5. OneAnswerPerCommand'
  BY <1>1, <1>2, <1>4 DEF OneAnswerPerCommand
<1>6. PrintInStep'
  BY <1>1, <1>2 DEF PrintInStep, AnswerDue, Quiet
<1>7. AnswerTypes'
  <2>1. AnswerTypes
    BY DEF BridgeInv, BridgeTypes
  <2> QED BY <1>1, <2>1 DEF AnswerTypes
<1> QED BY <1>3, <1>5, <1>6, <1>7

LEMMA BridgeInvInit == BridgeInit => BridgeInv
<1> SUFFICES ASSUME BridgeInit PROVE BridgeInv
  OBVIOUS
<1>1. BridgeTypes
  <2>1. <<>> \in Seq(Bytes) /\ <<>> \in Seq(Lines) /\ <<>> \in Seq(Nat) /\ Len(<<>>) = 0
    BY EmptySeq, Zenon
  <2>2. activeReq.reg = 0 /\ 0 \in 0 .. PrintRegs /\ 0 <= LineMax
    BY BridgeSizes DEF BridgeInit, NoReq
  <2>3. 0 \in Nat /\ 1 \in Nat
    OBVIOUS
  <2> QED BY <2>1, <2>2, <2>3, Zenon DEF BridgeInit, BridgeTypes, LineTypes, AnswerTypes
<1>2. PrintfHolds /\ PrintInStep
  BY DEF BridgeInit, PrintfHolds, PrintInStep, Quiet
<1>3. OneAnswerPerCommand
  BY NoLine DEF BridgeInit, OneAnswerPerCommand
<1>4. RxAsSent /\ LineAsSent
  BY DEF BridgeInit, RxAsSent, LineAsSent, NextPlace, HostPlace
<1> QED BY <1>1, <1>2, <1>3, <1>4 DEF BridgeInv

LEMMA Parts ==
  BridgeInv <=> /\ LineTypes /\ RxAsSent /\ LineAsSent
                /\ AnswerTypes /\ PrintfHolds /\ OneAnswerPerCommand /\ PrintInStep
                /\ respStatus \in {"Idle", "Pending", "Done", "NoResp", "Timeout"}
                /\ stage \in {"usb", "mdio", "session", "response", "print", "commands"}
                /\ torn \in BOOLEAN
BY Zenon DEF BridgeInv, BridgeTypes

\* A packet arrives: the line goes on where it did.
LEMMA PacketStep ==
  ASSUME BridgeInv, PacketArrives, UNCHANGED <<lineVars, openedInside>>,
         stage \in {"mdio", "session"} => stage' \in {"mdio", "session"}
  PROVE  LineTypes' /\ RxAsSent' /\ LineAsSent'
<1>1. BridgeTypes /\ RxAsSent /\ LineAsSent /\ LineTypes
  BY Zenon DEF BridgeInv, BridgeTypes
<1>2. /\ rx' \in Seq(Bytes) /\ atLine' \in Nat /\ atPos' \in Nat /\ sentWords' \in Nat
      /\ RxAsSent' /\ NextPlace' = NextPlace
  BY <1>1, PacketFollows, Zenon
<1>3. UNCHANGED <<sessionStarted, opens, line, discardLine, openedInside>>
  BY DEF PacketArrives, lineVars
<1>4. LineTypes'
  BY <1>1, <1>2, <1>3 DEF LineTypes
<1>5. LineAsSent'
  BY <1>1, <1>2, <1>3 DEF LineAsSent
<1> QED BY <1>2, <1>4, <1>5

\* A client opens the port: the next turn forgets the line, if it comes in time.
LEMMA ClientStep ==
  ASSUME BridgeInv, ClientOpens, UNCHANGED lineVars, openedInside' \in BOOLEAN,
         openedInside' \/ stage' = "mdio"
  PROVE  LineTypes' /\ RxAsSent' /\ LineAsSent'
<1>1. BridgeTypes /\ LineTypes
  BY Zenon DEF BridgeInv, BridgeTypes
<1>2. /\ rx' \in Seq(Bytes) /\ RxAsSent' /\ NextPlace'.pos = 1 /\ sessionStarted' = TRUE
      /\ atLine' \in Nat /\ atPos' \in Nat /\ sentWords' \in Nat /\ opens' \in Nat
  BY <1>1, ClientStarts, Zenon
<1>3. UNCHANGED <<line, discardLine>>
  BY DEF lineVars
<1>4. LineTypes'
  BY <1>1, <1>2, <1>3, Zenon DEF LineTypes
<1>5. LineAsSent'
  BY <1>2, Zenon DEF LineAsSent
<1> QED BY <1>2, <1>4, <1>5

LEMMA UsbTickKeeps == BridgeInv /\ UsbTick => BridgeInv'
<1> SUFFICES ASSUME BridgeInv, UsbTick PROVE BridgeInv'
  OBVIOUS
<1>1. /\ stage = "usb" /\ Quiet /\ stage' = "mdio" /\ (PacketArrives \/ ClientOpens \/ Nothing)
      /\ UNCHANGED <<lineVars, openedInside, respStatus, torn>> /\ UNCHANGED AnswerSide
  BY DEF UsbTick, AnswerSide, requestVars, printVars
<1>2. AnswerTypes' /\ PrintfHolds' /\ OneAnswerPerCommand' /\ PrintInStep'
  BY <1>1, AnswersStill, Zenon
<1>3. LineTypes' /\ RxAsSent' /\ LineAsSent'
  <2>1. CASE PacketArrives
    BY <1>1, <2>1, PacketStep
  <2>2. CASE ClientOpens
    <3>1. openedInside' \in BOOLEAN
      BY <1>1, Parts DEF LineTypes
    <3> QED BY <1>1, <2>2, <3>1, ClientStep
  <2>3. CASE Nothing
    <3>1. UNCHANGED LineSide
      BY <1>1, <2>3 DEF Nothing, LineSide, hostVars
    <3> QED BY <1>1, <3>1, LineStill
  <2> QED BY <1>1, <2>1, <2>2, <2>3
<1>4. /\ respStatus' \in {"Idle", "Pending", "Done", "NoResp", "Timeout"} /\ torn' \in BOOLEAN
      /\ stage' \in {"usb", "mdio", "session", "response", "print", "commands"}
  BY <1>1, Parts
<1> QED BY <1>2, <1>3, <1>4, Zenon DEF BridgeInv, BridgeTypes

LEMMA InsideKeeps == BridgeInv /\ (PacketInside \/ OpensInside) => BridgeInv'
<1> SUFFICES ASSUME BridgeInv, PacketInside \/ OpensInside PROVE BridgeInv'
  OBVIOUS
<1>1. /\ UNCHANGED <<lineVars, stage, respStatus, torn>> /\ UNCHANGED AnswerSide
      /\ (PacketArrives /\ openedInside' = openedInside) \/ (ClientOpens /\ openedInside' = TRUE)
  BY DEF PacketInside, OpensInside, AnswerSide, requestVars, printVars
<1>2. AnswerTypes' /\ PrintfHolds' /\ OneAnswerPerCommand' /\ PrintInStep'
  BY <1>1, AnswersStill
<1>3. LineTypes' /\ RxAsSent' /\ LineAsSent'
  <2>1. CASE PacketArrives /\ openedInside' = openedInside
    BY <1>1, <2>1, PacketStep
  <2>2. CASE ClientOpens /\ openedInside' = TRUE
    BY <1>1, <2>2, ClientStep
  <2> QED BY <1>1, <2>1, <2>2
<1>4. /\ respStatus' \in {"Idle", "Pending", "Done", "NoResp", "Timeout"} /\ torn' \in BOOLEAN
      /\ stage' \in {"usb", "mdio", "session", "response", "print", "commands"}
  BY <1>1, Parts
<1> QED BY <1>2, <1>3, <1>4, Zenon DEF BridgeInv, BridgeTypes

LEMMA MdioTickKeeps == BridgeInv /\ MdioTick => BridgeInv'
<1> SUFFICES ASSUME BridgeInv, MdioTick PROVE BridgeInv'
  OBVIOUS
<1>1. /\ stage = "mdio" /\ Quiet /\ stage' = "session"
      /\ UNCHANGED torn /\ UNCHANGED LineSide /\ UNCHANGED AnswerSide
  BY DEF MdioTick, LineSide, AnswerSide, printVars
<1>2. AnswerTypes' /\ PrintfHolds' /\ OneAnswerPerCommand' /\ PrintInStep'
  BY <1>1, AnswersStill
<1>3. LineTypes' /\ RxAsSent' /\ LineAsSent'
  BY <1>1, LineStill
<1>4. /\ respStatus' \in {"Idle", "Pending", "Done", "NoResp", "Timeout"} /\ torn' \in BOOLEAN
      /\ stage' \in {"usb", "mdio", "session", "response", "print", "commands"}
  BY <1>1, Parts DEF MdioTick
<1> QED BY <1>2, <1>3, <1>4, Zenon DEF BridgeInv, BridgeTypes

\* A new session forgets the line: the next byte is the first of the client's.
LEMMA CheckSessionKeeps == BridgeInv /\ CheckSession => BridgeInv'
<1> SUFFICES ASSUME BridgeInv, CheckSession PROVE BridgeInv'
  OBVIOUS
<1>0. /\ LineTypes /\ RxAsSent /\ LineAsSent
      /\ respStatus \in {"Idle", "Pending", "Done", "NoResp", "Timeout"} /\ torn \in BOOLEAN
  BY Parts
<1>1. /\ stage = "session" /\ Quiet /\ stage' = "response" /\ sessionStarted' = FALSE
      /\ IF sessionStarted THEN line' = <<>> /\ discardLine' = FALSE ELSE UNCHANGED lineVars
      /\ UNCHANGED <<rx, hostVars, openedInside, respStatus, torn>> /\ UNCHANGED AnswerSide
  BY DEF CheckSession, AnswerSide, requestVars, printVars
<1>2. AnswerTypes' /\ PrintfHolds' /\ OneAnswerPerCommand' /\ PrintInStep'
  BY <1>1, AnswersStill
<1>3. NextPlace' = NextPlace /\ HostPlace' = HostPlace
  BY <1>1 DEF NextPlace, HostPlace, Place, hostVars
<1>4. RxAsSent'
  BY <1>0, <1>1, <1>3 DEF RxAsSent, After, Place
<1>5. LineTypes' /\ LineAsSent'
  <2>1. CASE sessionStarted
    <3>1. line' = <<>> /\ discardLine' = FALSE /\ line' \in Seq(Bytes) /\ Len(line') = 0
          /\ DOMAIN line' = {}
      BY <1>1, <2>1
    <3>2. LineTypes'
      <4>1. Len(line') <= LineMax
        BY <3>1, BridgeSizes
      <4> QED BY <1>0, <1>1, <3>1, <4>1, Zenon DEF LineTypes, hostVars
    <3>3. LineAsSent'
      BY <1>0, <1>1, <1>3, <2>1, <3>1 DEF LineAsSent
    <3> QED BY <3>2, <3>3
  <2>2. CASE ~sessionStarted
    <3>1. UNCHANGED <<line, discardLine, sessionStarted>>
      BY <1>0, <1>1, <2>2 DEF lineVars, LineTypes
    <3>2. LineTypes'
      BY <1>0, <1>1, <3>1 DEF LineTypes, hostVars
    <3>3. LineAsSent'
      BY <1>0, <1>1, <1>3, <2>2, <3>1 DEF LineAsSent
    <3> QED BY <3>2, <3>3
  <2> QED BY <2>1, <2>2
<1>6. /\ respStatus' \in {"Idle", "Pending", "Done", "NoResp", "Timeout"} /\ torn' \in BOOLEAN
      /\ stage' \in {"usb", "mdio", "session", "response", "print", "commands"}
  BY <1>0, <1>1
<1> QED BY <1>2, <1>4, <1>5, <1>6, Zenon DEF BridgeInv, BridgeTypes

\* The master's answer is handed to printf(): no longer owed by the one, but by the other.
LEMMA PollAnswerKeeps == BridgeInv /\ PollAnswer => BridgeInv'
<1> SUFFICES ASSUME BridgeInv, PollAnswer PROVE BridgeInv'
  OBVIOUS
<1>0. /\ AnswerTypes /\ OneAnswerPerCommand /\ PrintInStep /\ BridgeTypes
      /\ respStatus \in {"Idle", "Pending", "Done", "NoResp", "Timeout"} /\ torn \in BOOLEAN
  BY Parts DEF BridgeInv
<1>1. /\ stage = "response" /\ toPrint = <<>> /\ stage' = "print"
      /\ IF pending /\ Answered THEN toPrint' = <<Answer>> /\ pending' = FALSE
         ELSE UNCHANGED <<toPrint, pending>>
      /\ UNCHANGED <<activeReq, printVars, owed, respStatus, torn>> /\ UNCHANGED LineSide
  BY DEF PollAnswer, LineSide, Quiet
<1>2. LineTypes' /\ RxAsSent' /\ LineAsSent'
  BY <1>1, LineStill
<1>3. AnswerTypes' /\ PrintfHolds' /\ OneAnswerPerCommand' /\ PrintInStep'
  <2>1. CASE pending /\ Answered
    <3>1. /\ Answer \in Lines /\ Answer # Invalid
          /\ Answer.kind = "answer" /\ Answer.reg = activeReq.reg
      BY <1>0 DEF Answer, Lines, Invalid, AnswerTypes
    <3>2. /\ toPrint' \in Seq(Lines) /\ Len(toPrint') = 1 /\ toPrint' # <<>> /\ toPrint'[1] = Answer
          /\ Due(toPrint') = 1 /\ Due(toPrint) = 0
      BY <1>1, <2>1, <3>1, OneLine, NoLine
    <3>3. UNCHANGED <<activeReq, printActive, printNextReg, printed, owed>> /\ pending' = FALSE
      BY <1>1, <2>1 DEF printVars
    <3>4. AnswerTypes'
      BY <1>0, <3>2, <3>3, Zenon DEF AnswerTypes
    <3>5. PrintfHolds'
      BY <1>1, <3>2 DEF PrintfHolds
    <3>6. OneAnswerPerCommand'
      BY <1>0, <2>1, <3>2, <3>3, OwedByParts DEF OneAnswerPerCommand
    <3>7. PrintInStep'
      <4>1. AnswerDue' /\ toPrint'[1].reg = activeReq.reg
        BY <3>1, <3>2 DEF AnswerDue, Quiet
      <4> QED BY <1>0, <2>1, <3>3, <4>1 DEF PrintInStep
    <3> QED BY <3>4, <3>5, <3>6, <3>7
  <2>2. CASE ~(pending /\ Answered)
    <3>1. UNCHANGED AnswerSide
      BY <1>1, <2>2 DEF AnswerSide
    <3> QED BY <1>1, <3>1, AnswersStill DEF Quiet
  <2> QED BY <2>1, <2>2
<1>4. /\ respStatus' \in {"Idle", "Pending", "Done", "NoResp", "Timeout"} /\ torn' \in BOOLEAN
      /\ stage' \in {"usb", "mdio", "session", "response", "print", "commands"}
  BY <1>0, <1>1
<1> QED BY <1>2, <1>3, <1>4, Zenon DEF BridgeInv, BridgeTypes

\* A print asks for its next register, or is done.
LEMMA PollPrintKeeps == BridgeInv /\ PollPrint => BridgeInv'
<1> SUFFICES ASSUME BridgeInv, PollPrint PROVE BridgeInv'
  OBVIOUS
<1>0. /\ AnswerTypes /\ OneAnswerPerCommand /\ PrintInStep /\ BridgeTypes
      /\ respStatus \in {"Idle", "Pending", "Done", "NoResp", "Timeout"} /\ torn \in BOOLEAN
  BY Parts DEF BridgeInv
<1>1. /\ stage = "print" /\ toPrint = <<>> /\ stage' = "commands"
      /\ UNCHANGED <<toPrint, printed, owed, torn>> /\ UNCHANGED LineSide
  BY DEF PollPrint, LineSide, Quiet
<1>2. LineTypes' /\ RxAsSent' /\ LineAsSent'
  BY <1>1, LineStill
<1> DEFINE req == [op |-> "!read", reg |-> printNextReg]
<1>3. printNextReg \in 0 .. PrintRegs /\ printNextReg \in Nat /\ req.reg = printNextReg
  BY <1>0, BridgeSizes DEF AnswerTypes
<1>4. PrintfHolds'
  BY <1>1, EmptySeq DEF PrintfHolds, Quiet
<1>5. ~AnswerDue /\ ~AnswerDue'
  BY <1>1 DEF AnswerDue, Quiet
<1>6. /\ AnswerTypes' /\ OneAnswerPerCommand' /\ PrintInStep'
      /\ respStatus' \in {"Idle", "Pending", "Done", "NoResp", "Timeout"}
  <2>1. CASE printActive /\ ~pending /\ AllRead
    <3>1. printActive' = FALSE /\ UNCHANGED <<printNextReg, respStatus, pending, activeReq>>
      BY <2>1 DEF PollPrint, requestVars
    <3>2. printNextReg = PrintRegs
      BY <1>3, <2>1, BridgeSizes DEF AllRead
    <3>3. Due(toPrint') = Due(toPrint) /\ PrintRegs - printNextReg = 0
      BY <1>1, <3>2, BridgeSizes
    <3>4. AnswerTypes'
      BY <1>0, <1>1, <3>1, Zenon DEF AnswerTypes
    <3>5. OneAnswerPerCommand'
      BY <1>0, <1>1, <2>1, <3>1, <3>3 DEF OneAnswerPerCommand
    <3>6. PrintInStep'
      BY <3>1 DEF PrintInStep
    <3> QED BY <1>0, <3>1, <3>4, <3>5, <3>6
  <2>2. CASE printActive /\ ~pending /\ ~AllRead /\ respStatus # "Pending"
    <3>1. /\ pending' = TRUE /\ activeReq' = req /\ respStatus' = "Pending"
          /\ printNextReg' = printNextReg + 1 /\ printActive' = printActive
      BY <2>2 DEF PollPrint, Start
    <3> HIDE DEF req
    <3>2. /\ printNextReg + 1 \in 0 .. PrintRegs
          /\ PrintRegs - printNextReg = 1 + (PrintRegs - (printNextReg + 1))
          /\ PrintRegs - (printNextReg + 1) \in Nat
      BY <1>3, <2>2, BridgeSizes DEF AllRead
    <3>3. Due(toPrint') = Due(toPrint) /\ Due(toPrint) = 0
      BY <1>1, NoLine
    <3>4. activeReq'.reg = printNextReg
      BY <1>3, <3>1
    <3>5. AnswerTypes'
      <4>1. activeReq'.reg \in Nat /\ printNextReg' \in 0 .. PrintRegs
        BY <1>3, <3>1, <3>2, <3>4
      <4> QED BY <1>0, <1>1, <3>1, <4>1, Zenon DEF AnswerTypes
    <3>6. OneAnswerPerCommand'
      BY <1>0, <1>1, <2>2, <3>1, <3>2, <3>3 DEF OneAnswerPerCommand
    <3>7. PrintInStep'
      <4>1. Len(printed) \in Nat /\ printNextReg = Len(printed)
        BY <1>0, <1>5, <2>2, LenProperties DEF PrintInStep, AnswerTypes
      <4> QED BY <1>0, <1>1, <1>5, <2>2, <3>1, <3>4, <4>1 DEF PrintInStep
    <3> QED BY <3>1, <3>5, <3>6, <3>7
  <2>3. CASE ~(printActive /\ ~pending) \/ (~AllRead /\ respStatus = "Pending")
    <3>1. UNCHANGED <<printActive, printNextReg, respStatus, pending, activeReq>>
      BY <2>3 DEF PollPrint, Start, requestVars
    <3>2. UNCHANGED AnswerSide
      BY <1>1, <3>1 DEF AnswerSide, printVars
    <3>3. Quiet
      BY <1>1 DEF Quiet
    <3> QED BY <1>0, <3>1, <3>2, <3>3, AnswersStill, Zenon
  <2> QED BY <2>1, <2>2, <2>3
<1>7. torn' \in BOOLEAN /\ stage' \in {"usb", "mdio", "session", "response", "print", "commands"}
  BY <1>0, <1>1
<1> QED BY <1>2, <1>4, <1>6, <1>7, Zenon DEF BridgeInv, BridgeTypes

\* One line less for printf(), and one less owed if it was an answer.
LEMMA PrintLineKeeps == BridgeInv /\ PrintLine => BridgeInv'
<1> SUFFICES ASSUME BridgeInv, PrintLine PROVE BridgeInv'
  OBVIOUS
<1>0. /\ AnswerTypes /\ PrintfHolds /\ OneAnswerPerCommand /\ PrintInStep /\ BridgeTypes
      /\ respStatus \in {"Idle", "Pending", "Done", "NoResp", "Timeout"} /\ torn \in BOOLEAN
      /\ stage \in {"usb", "mdio", "session", "response", "print", "commands"}
  BY Parts DEF BridgeInv
<1>1. /\ toPrint # <<>> /\ toPrint' = Tail(toPrint)
      /\ owed' = (IF Head(toPrint) = Invalid THEN owed ELSE owed - 1)
      /\ printed' = (IF printActive /\ Head(toPrint).kind = "answer"
                     THEN Append(printed, Head(toPrint).reg) ELSE printed)
      /\ UNCHANGED <<pending, activeReq, printActive, printNextReg, stage, respStatus, torn>>
      /\ UNCHANGED LineSide
  BY DEF PrintLine, LineSide, Quiet, requestVars
<1>2. LineTypes' /\ RxAsSent' /\ LineAsSent'
  BY <1>1, LineStill
<1> DEFINE l == Len(toPrint)
<1>3. /\ toPrint \in Seq(Lines) /\ l \in Nat /\ l >= 1 /\ DOMAIN toPrint = 1 .. l
      /\ Head(toPrint) = toPrint[1]
  <2>1. toPrint \in Seq(Lines)
    BY <1>0 DEF AnswerTypes
  <2> QED BY <1>1, <2>1, EmptySeq, LenProperties
<1>4. /\ toPrint' \in Seq(Lines) /\ Len(toPrint') = l - 1 /\ Head(toPrint) \in Lines
      /\ \A i \in 1 .. l - 1 : toPrint'[i] = toPrint[i + 1]
  BY <1>1, <1>3, HeadTailProperties
<1>5. DOMAIN toPrint' = 1 .. l - 1 /\ (toPrint' = <<>> <=> l = 1)
  BY <1>3, <1>4, EmptySeq, LenProperties
<1> HIDE DEF l
<1>6. l = 1 \/ \A k \in 1 .. l : toPrint[k].kind = "busy"
  BY <1>0, <1>3 DEF PrintfHolds, l
<1>7. (\A k \in 1 .. l : toPrint[k].kind = "busy")
        => \A k \in 1 .. l - 1 : toPrint'[k].kind = "busy"
  <2> SUFFICES ASSUME \A k \in 1 .. l : toPrint[k].kind = "busy", NEW k \in 1 .. l - 1
               PROVE  toPrint'[k].kind = "busy"
    OBVIOUS
  <2>1. k + 1 \in 1 .. l /\ toPrint'[k] = toPrint[k + 1]
    BY <1>3, <1>4
  <2> QED BY <2>1
<1>8. /\ Due(toPrint) = Due(toPrint') + (IF Head(toPrint) = Invalid THEN 0 ELSE 1)
      /\ Due(toPrint') \in Nat
  <2>1. CASE l = 1
    <3>1. Due(toPrint') = 0
      BY <1>5, <2>1, NoLine
    <3>2. Due(toPrint) = IF Head(toPrint) = Invalid THEN 0 ELSE 1
      BY <1>3, <2>1, Counting, Zenon DEF l
    <3> QED BY <3>1, <3>2
  <2>2. CASE \A k \in 1 .. l : toPrint[k].kind = "busy"
    <3>1. Due(toPrint) = l
      BY <1>3, <2>2, Counting, Zenon DEF l
    <3>2. Due(toPrint') = l - 1
      BY <1>4, <1>5, <1>7, <2>2, Counting
    <3>3. Head(toPrint) # Invalid
      BY <1>3, <2>2 DEF Invalid
    <3> QED BY <1>3, <3>1, <3>2, <3>3
  <2> QED BY <1>6, <2>1, <2>2
<1>9. OneAnswerPerCommand' /\ owed' \in Nat
  <2> DEFINE a == IF pending THEN 1 ELSE 0
             b == IF printActive THEN PrintRegs - printNextReg ELSE 0
             c == IF Head(toPrint) = Invalid THEN 0 ELSE 1
  <2>1. a \in Nat /\ b \in Nat /\ c \in Nat /\ a' = a /\ b' = b
    BY <1>0, <1>1, OwedByParts
  <2>2. owed = Due(toPrint) + a + b
    BY <1>0 DEF OneAnswerPerCommand
  <2>3. owed' = owed - c
    BY <1>0, <1>1 DEF AnswerTypes
  <2> HIDE DEF a, b, c
  <2>4. owed' = Due(toPrint') + a + b
    BY <1>8, <2>1, <2>2, <2>3 DEF c
  <2> QED BY <1>8, <2>1, <2>4 DEF OneAnswerPerCommand, a, b
<1>10. ~AnswerDue'
  <2>1. CASE l = 1
    BY <1>5, <2>1 DEF AnswerDue, Quiet
  <2>2. CASE l # 1
    BY <1>3, <1>6, <1>7, <2>2 DEF AnswerDue
  <2> QED BY <2>1, <2>2
<1>11. PrintfHolds'
  <2>1. Len(toPrint') <= 1 \/ \A k \in DOMAIN toPrint' : toPrint'[k].kind = "busy"
    BY <1>4, <1>5, <1>6, <1>7
  <2> QED BY <1>0, <1>1, <2>1 DEF PrintfHolds, Quiet
<1>12. /\ printed' \in Seq(Nat)
       /\ PrintInStep'
  <2>1. printed \in Seq(Nat) /\ Len(printed) \in Nat /\ DOMAIN printed = 1 .. Len(printed)
    BY <1>0, LenProperties DEF AnswerTypes
  <2>2. CASE printActive /\ Head(toPrint).kind = "answer"
    <3>1. AnswerDue /\ Head(toPrint).reg = toPrint[1].reg
      BY <1>1, <1>3, <2>2 DEF AnswerDue, Quiet
    <3>2. /\ ~pending /\ printNextReg = Len(printed) + 1 /\ Head(toPrint).reg = Len(printed)
          /\ \A k \in DOMAIN printed : printed[k] = k - 1
      BY <1>0, <2>2, <3>1 DEF PrintInStep
    <3>3. printed' = Append(printed, Len(printed))
      BY <1>1, <2>2, <3>2
    <3>4. /\ printed' \in Seq(Nat) /\ Len(printed') = Len(printed) + 1
          /\ \A k \in 1 .. Len(printed) : printed'[k] = printed[k]
          /\ printed'[Len(printed) + 1] = Len(printed)
      BY <2>1, <3>3, AppendProperties
    <3>5. DOMAIN printed' = 1 .. Len(printed) + 1
      BY <3>4, LenProperties
    <3> DEFINE m == Len(printed)
    <3>6. \A k \in DOMAIN printed' : printed'[k] = k - 1
      <4> TAKE k \in DOMAIN printed'
      <4>1. CASE k = m + 1
        <5>1. printed'[k] = m
          BY <3>4, <4>1, Zenon
        <5>2. k - 1 = m
          <6> HIDE DEF m
          <6>1. m \in Nat
            BY <2>1 DEF m
          <6> QED BY <4>1, <6>1
        <5> QED BY <5>1, <5>2, Zenon
      <4>2. CASE k # m + 1
        <5>1. k \in 1 .. m
          BY <2>1, <3>5, <4>2
        <5> QED BY <2>1, <3>2, <3>4, <5>1, Zenon
      <4> QED BY <4>1, <4>2, Zenon
    <3>7. printNextReg' = Len(printed') + 0 /\ ~pending'
      BY <1>1, <2>1, <3>2, <3>4
    <3> QED BY <1>10, <3>4, <3>6, <3>7 DEF PrintInStep
  <2>3. CASE ~(printActive /\ Head(toPrint).kind = "answer")
    <3>1. printed' = printed
      BY <1>1, <2>3
    <3>2. printActive => ~AnswerDue
      BY <1>3, <2>3 DEF AnswerDue
    <3> QED BY <1>0, <1>1, <1>10, <2>1, <3>1, <3>2 DEF PrintInStep
  <2> QED BY <2>2, <2>3
<1>13. AnswerTypes'
  BY <1>0, <1>1, <1>4, <1>9, <1>12, Zenon DEF AnswerTypes
<1>14. /\ respStatus' \in {"Idle", "Pending", "Done", "NoResp", "Timeout"} /\ torn' \in BOOLEAN
       /\ stage' \in {"usb", "mdio", "session", "response", "print", "commands"}
  BY <1>0, <1>1
<1> QED BY <1>2, <1>9, <1>11, <1>12, <1>13, <1>14, Zenon DEF BridgeInv, BridgeTypes

------------------------------------------------------------------------------
\* Reading commands.

\* At the commands, the session has been checked: the line is the beginning of
\* what goes on in rx_, or is to be dropped.
LEMMA AtCommands ==
  ASSUME BridgeInv, MoreBytes
  PROVE  /\ LineTypes /\ RxAsSent /\ rx # <<>> /\ stage = "commands" /\ toPrint = <<>>
         /\ ~openedInside => ~sessionStarted
         /\ ~openedInside /\ ~discardLine =>
              /\ NextPlace.pos = Len(line) + 1
              /\ \A k \in DOMAIN line : line[k].line = NextPlace.line /\ line[k].pos = k
BY Parts DEF LineAsSent, MoreBytes, Quiet

\* A byte is read.
LEMMA ByteStep ==
  ASSUME BridgeInv, MoreBytes, rx' = Tail(rx), UNCHANGED hostVars
  PROVE  /\ rx' \in Seq(Bytes) /\ Head(rx) \in Bytes /\ NextPlace = Place(Head(rx))
         /\ RxAsSent' /\ NextPlace' = After(Head(rx))
<1>1. BridgeTypes /\ RxAsSent /\ rx # <<>>
  BY DEF BridgeInv, MoreBytes
<1> QED BY <1>1, ByteRead, Zenon

LEMMA PushByteKeeps == BridgeInv /\ PushByte => BridgeInv'
<1> SUFFICES ASSUME BridgeInv, PushByte PROVE BridgeInv'
  OBVIOUS
<1>1. /\ MoreBytes /\ Head(rx).word # "newline" /\ rx' = Tail(rx)
      /\ IF discardLine THEN UNCHANGED lineVars
         ELSE IF LineFull THEN DropLine
         ELSE line' = Append(line, Head(rx)) /\ UNCHANGED discardLine
      /\ UNCHANGED <<sessionStarted, hostVars, openedInside, stage, respStatus, torn>>
      /\ UNCHANGED AnswerSide
  BY DEF PushByte, AnswerSide, requestVars
<1>2. AnswerTypes' /\ PrintfHolds' /\ OneAnswerPerCommand' /\ PrintInStep'
  BY <1>1, AnswersStill
<1>3. /\ rx' \in Seq(Bytes) /\ Head(rx) \in Bytes /\ NextPlace = Place(Head(rx))
      /\ RxAsSent' /\ NextPlace' = After(Head(rx))
  BY <1>1, ByteStep
<1>4. /\ LineTypes /\ (~openedInside => ~sessionStarted)
      /\ ~openedInside /\ ~discardLine =>
           /\ NextPlace.pos = Len(line) + 1
           /\ \A k \in DOMAIN line : line[k].line = NextPlace.line /\ line[k].pos = k
  BY <1>1, AtCommands, Zenon
<1>5. NextPlace'.line = NextPlace.line /\ NextPlace'.pos = NextPlace.pos + 1
  BY <1>1, <1>3 DEF After, Place
<1>6. /\ line \in Seq(Bytes) /\ Len(line) \in Nat /\ DOMAIN line = 1 .. Len(line)
      /\ Len(line) <= LineMax /\ (discardLine => line = <<>>) /\ discardLine \in BOOLEAN
  BY <1>4, LenProperties DEF LineTypes
<1>7. /\ line' \in Seq(Bytes) /\ Len(line') <= LineMax
      /\ (discardLine' => line' = <<>>) /\ discardLine' \in BOOLEAN
      /\ ~openedInside' /\ ~discardLine' =>
           /\ NextPlace'.pos = Len(line') + 1
           /\ \A k \in DOMAIN line' : line'[k].line = NextPlace'.line /\ line'[k].pos = k
  <2>1. CASE discardLine
    BY <1>1, <1>6, <2>1 DEF lineVars
  <2>2. CASE ~discardLine /\ LineFull
    <3>1. line' = <<>> /\ discardLine' = TRUE
      BY <1>1, <2>2 DEF DropLine
    <3> QED BY <3>1, EmptySeq, BridgeSizes
  <2>3. CASE ~discardLine /\ ~LineFull
    <3>1. line' = Append(line, Head(rx)) /\ discardLine' = discardLine
      BY <1>1, <2>3
    <3>2. /\ line' \in Seq(Bytes) /\ Len(line') = Len(line) + 1
          /\ \A k \in 1 .. Len(line) : line'[k] = line[k]
          /\ line'[Len(line) + 1] = Head(rx)
      BY <1>3, <1>6, <3>1, AppendProperties
    <3>3. DOMAIN line' = 1 .. Len(line) + 1
      BY <3>2, LenProperties
    <3>4. Len(line') <= LineMax
      BY <1>6, <2>3, <3>2, BridgeSizes DEF LineFull
    <3>5. ASSUME ~openedInside'
          PROVE  /\ NextPlace'.pos = Len(line') + 1
                 /\ \A k \in DOMAIN line' : line'[k].line = NextPlace'.line /\ line'[k].pos = k
      <4>1. /\ NextPlace.pos = Len(line) + 1
            /\ \A k \in DOMAIN line : line[k].line = NextPlace.line /\ line[k].pos = k
        BY <1>1, <1>4, <2>3, <3>5
      <4>2. NextPlace'.pos = Len(line') + 1
        BY <1>5, <1>6, <3>2, <4>1
      <4>3. ASSUME NEW k \in DOMAIN line' PROVE line'[k].line = NextPlace'.line /\ line'[k].pos = k
        <5>1. CASE k = Len(line) + 1
          <6>1. line'[k] = Head(rx)
            BY <3>2, <5>1, Zenon
          <6>2. Head(rx).line = NextPlace.line /\ Head(rx).pos = NextPlace.pos
            BY <1>3 DEF Place
          <6> QED BY <1>5, <4>1, <5>1, <6>1, <6>2, Zenon
        <5>2. CASE k # Len(line) + 1
          <6>1. k \in 1 .. Len(line)
            BY <1>6, <3>3, <5>2
          <6> QED BY <1>5, <1>6, <3>2, <4>1, <6>1, Zenon
        <5> QED BY <5>1, <5>2, Zenon
      <4> QED BY <4>2, <4>3
    <3> QED BY <1>6, <2>3, <3>1, <3>2, <3>4, <3>5
  <2> QED BY <2>1, <2>2, <2>3
<1>8. LineTypes'
  BY <1>1, <1>3, <1>4, <1>7, Zenon DEF LineTypes, hostVars
<1>9. LineAsSent'
  BY <1>1, <1>4, <1>7, Zenon DEF LineAsSent
<1>10. /\ respStatus' \in {"Idle", "Pending", "Done", "NoResp", "Timeout"} /\ torn' \in BOOLEAN
       /\ stage' \in {"usb", "mdio", "session", "response", "print", "commands"}
  BY <1>1, Parts
<1> QED BY <1>2, <1>3, <1>8, <1>9, <1>10, Zenon DEF BridgeInv, BridgeTypes

\* The end of a line: the next byte is the first of another one.
LEMMA LineEnds ==
  ASSUME BridgeInv, AtNewline, rx' = Tail(rx), line' = <<>>, discardLine' = FALSE,
         UNCHANGED <<sessionStarted, hostVars, openedInside>>
  PROVE  LineTypes' /\ RxAsSent' /\ LineAsSent'
<1>1. MoreBytes /\ Head(rx).word = "newline"
  BY DEF AtNewline
<1>2. rx' \in Seq(Bytes) /\ RxAsSent' /\ NextPlace' = After(Head(rx))
  BY <1>1, ByteStep
<1>3. LineTypes /\ (~openedInside => ~sessionStarted)
  BY <1>1, AtCommands, Zenon
<1>4. NextPlace'.pos = 1 /\ 1 = Len(line') + 1 /\ DOMAIN line' = {}
  BY <1>1, <1>2 DEF After
<1>5. line' \in Seq(Bytes) /\ Len(line') <= LineMax
  BY EmptySeq, BridgeSizes
<1>6. LineTypes'
  BY <1>2, <1>3, <1>5, Zenon DEF LineTypes, hostVars
<1>7. LineAsSent'
  BY <1>3, <1>4, Zenon DEF LineAsSent
<1> QED BY <1>2, <1>6, <1>7

LEMMA RejectLineKeeps == BridgeInv /\ RejectLine => BridgeInv'
<1> SUFFICES ASSUME BridgeInv, RejectLine PROVE BridgeInv'
  OBVIOUS
<1>0. AnswerTypes /\ OneAnswerPerCommand /\ PrintInStep
  BY Parts
<1>1. /\ AtNewline /\ rx' = Tail(rx) /\ line' = <<>> /\ discardLine' = FALSE
      /\ toPrint' = <<Invalid>> \/ toPrint' = <<>>
      /\ UNCHANGED <<sessionStarted, hostVars, openedInside, stage, respStatus, torn>>
      /\ UNCHANGED <<pending, activeReq, printActive, printNextReg, printed, owed>>
  BY DEF RejectLine, requestVars, printVars
<1>2. LineTypes' /\ RxAsSent' /\ LineAsSent'
  BY <1>1, LineEnds
<1>3. toPrint = <<>> /\ stage = "commands" /\ Due(toPrint) = 0
  BY <1>1, AtCommands, NoLine DEF AtNewline
<1>4. Invalid \in Lines /\ Invalid.kind = "invalid"
  BY DEF Invalid, Lines
<1>5. /\ toPrint' \in Seq(Lines) /\ Due(toPrint') = 0 /\ Len(toPrint') <= 1
      /\ toPrint' = <<>> \/ toPrint'[1] = Invalid
  <2>1. CASE toPrint' = <<>>
    BY <2>1, NoLine, EmptySeq
  <2>2. CASE toPrint' = <<Invalid>>
    BY <1>4, <2>2, OneLine
  <2> QED BY <1>1, <2>1, <2>2
<1>6. ~AnswerDue /\ ~AnswerDue'
  BY <1>3, <1>4, <1>5 DEF AnswerDue, Quiet
<1>7. AnswerTypes' /\ OneAnswerPerCommand'
  BY <1>0, <1>1, <1>3, <1>5, Zenon DEF AnswerTypes, OneAnswerPerCommand
<1>8. PrintfHolds' /\ PrintInStep'
  BY <1>0, <1>1, <1>3, <1>5, <1>6 DEF PrintfHolds, PrintInStep
<1>9. /\ respStatus' \in {"Idle", "Pending", "Done", "NoResp", "Timeout"} /\ torn' \in BOOLEAN
      /\ stage' \in {"usb", "mdio", "session", "response", "print", "commands"}
  BY <1>1, Parts
<1> QED BY <1>2, <1>7, <1>8, <1>9, Zenon DEF BridgeInv, BridgeTypes

\* A line that is executed is one line of one client's, whole.
LEMMA WholeLine ==
  ASSUME BridgeInv, AtNewline, ~discardLine, ~openedInside
  PROVE  Whole(line, Head(rx))
<1>1. MoreBytes
  BY DEF AtNewline
<1>2. NextPlace = Place(Head(rx))
  <2>1. rx # <<>>
    BY <1>1 DEF MoreBytes
  <2>2. Head(rx) = rx[1]
    BY <1>1, <2>1, AtCommands, EmptySeq DEF LineTypes
  <2> QED BY <2>1, <2>2 DEF NextPlace
<1>3. /\ NextPlace.pos = Len(line) + 1
      /\ \A k \in DOMAIN line : line[k].line = NextPlace.line /\ line[k].pos = k
  BY <1>1, AtCommands
<1> QED BY <1>2, <1>3 DEF Whole, Place

LEMMA TakeLineStep ==
  ASSUME BridgeInv, NEW verbs, TakeLine(verbs)
  PROVE  /\ LineTypes' /\ RxAsSent' /\ LineAsSent'
         /\ AnswerTypes /\ OneAnswerPerCommand /\ PrintInStep /\ toPrint = <<>>
         /\ stage' = "commands" /\ torn' \in BOOLEAN
         /\ owed' = owed + LinesFor(line[1].word) /\ owed' \in Nat /\ line[1].word \in verbs
         /\ respStatus \in {"Idle", "Pending", "Done", "NoResp", "Timeout"}
<1>0. AnswerTypes /\ OneAnswerPerCommand /\ PrintInStep /\ torn \in BOOLEAN /\ LineTypes
  BY Parts
<1>1. /\ AtNewline /\ ~discardLine /\ line[1].word \in verbs /\ rx' = Tail(rx) /\ line' = <<>>
      /\ owed' = owed + LinesFor(line[1].word)
      /\ torn' = (torn \/ ~Whole(line, Head(rx)))
      /\ UNCHANGED <<sessionStarted, discardLine, stage, hostVars, openedInside>>
  BY DEF TakeLine
<1>2. discardLine' = FALSE
  BY <1>0, <1>1 DEF LineTypes
<1>3. LineTypes' /\ RxAsSent' /\ LineAsSent'
  BY <1>1, <1>2, LineEnds
<1>4. toPrint = <<>> /\ stage' = "commands"
  BY <1>1, AtCommands DEF AtNewline
<1>5. torn' \in BOOLEAN
  BY <1>0, <1>1, Zenon
<1>6. owed' \in Nat
  BY <1>0, <1>1, BridgeSizes DEF AnswerTypes, LinesFor
<1>7. respStatus \in {"Idle", "Pending", "Done", "NoResp", "Timeout"}
  BY Parts
<1> QED BY <1>0, <1>1, <1>3, <1>4, <1>5, <1>6, <1>7

LEMMA AcceptKeeps == BridgeInv /\ Accept => BridgeInv'
<1> SUFFICES ASSUME BridgeInv, Accept PROVE BridgeInv'
  OBVIOUS
<1> DEFINE req == [op |-> line[1].word, reg |-> 0]
           verbs == {"!read", "!write"}
<1>0. TakeLine(verbs) /\ ~Refused /\ Start(req) /\ UNCHANGED <<printVars, toPrint>>
  BY DEF Accept
<1> HIDE DEF verbs
<1>1. /\ LineTypes' /\ RxAsSent' /\ LineAsSent'
      /\ AnswerTypes /\ OneAnswerPerCommand /\ PrintInStep /\ toPrint = <<>>
      /\ stage' = "commands" /\ torn' \in BOOLEAN
      /\ owed' = owed + LinesFor(line[1].word) /\ owed' \in Nat /\ line[1].word \in verbs
  BY <1>0, TakeLineStep
<1>2. /\ ~printActive /\ ~pending /\ respStatus' = "Pending" /\ pending' = TRUE
      /\ activeReq' = req
      /\ UNCHANGED <<toPrint, printActive, printNextReg, printed>>
  BY <1>0 DEF Refused, Start, printVars
<1>3. activeReq'.reg = 0 /\ owed' = owed + 1
  BY <1>1, <1>2 DEF LinesFor, verbs
<1>4. AnswerTypes'
  BY <1>1, <1>2, <1>3 DEF AnswerTypes
<1>5. PrintfHolds'
  BY <1>1, <1>2, EmptySeq DEF PrintfHolds, Quiet
<1>6. OneAnswerPerCommand'
  BY <1>1, <1>2, <1>3, NoLine DEF OneAnswerPerCommand
<1>7. PrintInStep'
  BY <1>2 DEF PrintInStep
<1> QED BY <1>1, <1>2, <1>4, <1>5, <1>6, <1>7 DEF BridgeInv, BridgeTypes

LEMMA RefuseKeeps == BridgeInv /\ Refuse => BridgeInv'
<1> SUFFICES ASSUME BridgeInv, Refuse PROVE BridgeInv'
  OBVIOUS
<1> DEFINE verbs == {"!read", "!write"}
<1>0. TakeLine(verbs) /\ toPrint' = <<Busy(0)>> /\ UNCHANGED <<requestVars, printVars>>
  BY DEF Refuse
<1> HIDE DEF verbs
<1>1. /\ LineTypes' /\ RxAsSent' /\ LineAsSent'
      /\ AnswerTypes /\ OneAnswerPerCommand /\ PrintInStep /\ toPrint = <<>>
      /\ stage' = "commands" /\ torn' \in BOOLEAN
      /\ owed' = owed + LinesFor(line[1].word) /\ owed' \in Nat /\ line[1].word \in verbs
      /\ respStatus \in {"Idle", "Pending", "Done", "NoResp", "Timeout"}
  BY <1>0, TakeLineStep
<1>2. UNCHANGED <<respStatus, pending, activeReq, printActive, printNextReg, printed>>
  BY <1>0 DEF requestVars, printVars
<1>3. owed' = owed + 1
  BY <1>1 DEF LinesFor, verbs
<1>4. Busy(0) \in Lines /\ Busy(0) # Invalid /\ Busy(0).kind = "busy"
  BY DEF Busy, Lines, Invalid
<1>5. /\ toPrint' \in Seq(Lines) /\ Len(toPrint') = 1 /\ toPrint'[1] = Busy(0) /\ Due(toPrint') = 1
  BY <1>0, <1>4, OneLine
<1>6. ~AnswerDue /\ ~AnswerDue'
  BY <1>1, <1>4, <1>5 DEF AnswerDue, Quiet
<1>7. AnswerTypes'
  BY <1>1, <1>2, <1>5, Zenon DEF AnswerTypes
<1>8. PrintfHolds'
  BY <1>1, <1>5 DEF PrintfHolds
<1>9. OneAnswerPerCommand'
  BY <1>1, <1>2, <1>3, <1>5, NoLine, OwedByParts, Parts DEF OneAnswerPerCommand, BridgeInv
<1>10. PrintInStep'
  BY <1>1, <1>2, <1>6 DEF PrintInStep
<1> QED BY <1>1, <1>2, <1>7, <1>8, <1>9, <1>10 DEF BridgeInv, BridgeTypes

LEMMA AcceptPrintKeeps == BridgeInv /\ AcceptPrint => BridgeInv'
<1> SUFFICES ASSUME BridgeInv, AcceptPrint PROVE BridgeInv'
  OBVIOUS
<1> DEFINE req == [op |-> "!read", reg |-> 0]
           verbs == {"!print"}
<1>0. /\ TakeLine(verbs) /\ ~Refused /\ Start(req)
      /\ printActive' = TRUE /\ printNextReg' = 1 /\ printed' = <<>> /\ toPrint' = toPrint
  BY DEF AcceptPrint
<1> HIDE DEF verbs
<1>1. /\ LineTypes' /\ RxAsSent' /\ LineAsSent'
      /\ AnswerTypes /\ OneAnswerPerCommand /\ PrintInStep /\ toPrint = <<>>
      /\ stage' = "commands" /\ torn' \in BOOLEAN
      /\ owed' = owed + LinesFor(line[1].word) /\ owed' \in Nat /\ line[1].word \in verbs
  BY <1>0, TakeLineStep
<1>2. ~printActive /\ ~pending /\ respStatus' = "Pending" /\ pending' = TRUE /\ activeReq' = req
  BY <1>0 DEF Refused, Start
<1>3. activeReq'.reg = 0 /\ owed' = owed + PrintRegs
  BY <1>1, <1>2 DEF LinesFor, verbs
<1>4. AnswerTypes'
  <2>1. printNextReg' \in 0 .. PrintRegs /\ printed' \in Seq(Nat) /\ activeReq'.reg \in Nat
    BY <1>0, <1>3, BridgeSizes, EmptySeq
  <2> QED BY <1>0, <1>1, <1>2, <2>1, Zenon DEF AnswerTypes
<1>5. PrintfHolds'
  BY <1>0, <1>1, EmptySeq DEF PrintfHolds, Quiet
<1>6. OneAnswerPerCommand'
  <2>1. Due(toPrint) = 0 /\ Due(toPrint') = 0
    BY <1>0, <1>1, NoLine
  <2>2. owed = 0
    BY <1>1, <1>2, <2>1 DEF OneAnswerPerCommand
  <2> QED BY <1>0, <1>2, <1>3, <2>1, <2>2, BridgeSizes DEF OneAnswerPerCommand
<1>7. PrintInStep'
  <2>1. Len(printed') = 0 /\ DOMAIN printed' = {} /\ ~AnswerDue'
    BY <1>0, <1>1 DEF AnswerDue, Quiet
  <2> QED BY <1>0, <1>2, <1>3, <2>1 DEF PrintInStep
<1> QED BY <1>1, <1>2, <1>4, <1>5, <1>6, <1>7 DEF BridgeInv, BridgeTypes

LEMMA RefusePrintKeeps == BridgeInv /\ RefusePrint => BridgeInv'
<1> SUFFICES ASSUME BridgeInv, RefusePrint PROVE BridgeInv'
  OBVIOUS
<1> DEFINE verbs == {"!print"}
<1>0. TakeLine(verbs) /\ toPrint' = AllBusy /\ UNCHANGED <<requestVars, printVars>>
  BY DEF RefusePrint
<1> HIDE DEF verbs
<1>1. /\ LineTypes' /\ RxAsSent' /\ LineAsSent'
      /\ AnswerTypes /\ OneAnswerPerCommand /\ PrintInStep /\ toPrint = <<>>
      /\ stage' = "commands" /\ torn' \in BOOLEAN
      /\ owed' = owed + LinesFor(line[1].word) /\ owed' \in Nat /\ line[1].word \in verbs
      /\ respStatus \in {"Idle", "Pending", "Done", "NoResp", "Timeout"}
  BY <1>0, TakeLineStep
<1>2. UNCHANGED <<respStatus, pending, activeReq, printActive, printNextReg, printed>>
  BY <1>0 DEF requestVars, printVars
<1>3. owed' = owed + PrintRegs
  BY <1>1 DEF LinesFor, verbs
<1>4. /\ toPrint' \in Seq(Lines) /\ Len(toPrint') = PrintRegs /\ toPrint' # <<>>
      /\ \A k \in DOMAIN toPrint' : toPrint'[k].kind = "busy"
  <2>1. \A k \in 1 .. PrintRegs : k - 1 \in Nat
    OBVIOUS
  <2>2. \A k \in 1 .. PrintRegs : Busy(k - 1) \in Lines /\ Busy(k - 1).kind = "busy"
    BY <2>1 DEF Busy, Lines
  <2>3. /\ toPrint' \in [1 .. PrintRegs -> Lines]
        /\ \A k \in 1 .. PrintRegs : toPrint'[k] = Busy(k - 1)
    BY <1>0, <2>2, Zenon DEF AllBusy
  <2>4. toPrint' \in Seq(Lines) /\ Len(toPrint') = PrintRegs /\ DOMAIN toPrint' = 1 .. PrintRegs
    BY <2>3, BridgeSizes
  <2>5. toPrint' # <<>>
    BY <2>4, BridgeSizes, EmptySeq
  <2> QED BY <2>2, <2>3, <2>4, <2>5, Zenon
<1>5. Due(toPrint') = PrintRegs
  BY <1>4, Counting, Zenon
<1>6. ~AnswerDue /\ ~AnswerDue'
  <2>1. 1 \in DOMAIN toPrint'
    BY <1>4, LenProperties, BridgeSizes
  <2>2. toPrint'[1].kind # "answer"
    BY <1>4, <2>1
  <2> QED BY <1>1, <2>2 DEF AnswerDue, Quiet
<1>7. AnswerTypes'
  BY <1>1, <1>2, <1>4, Zenon DEF AnswerTypes
<1>8. PrintfHolds'
  BY <1>1, <1>4 DEF PrintfHolds
<1>9. OneAnswerPerCommand'
  BY <1>1, <1>2, <1>3, <1>5, NoLine, OwedByParts, Parts, BridgeSizes
  DEF OneAnswerPerCommand, BridgeInv
<1>10. PrintInStep'
  BY <1>1, <1>2, <1>6 DEF PrintInStep
<1> QED BY <1>1, <1>2, <1>7, <1>8, <1>9, <1>10 DEF BridgeInv, BridgeTypes

LEMMA NoMoreBytesKeeps == BridgeInv /\ NoMoreBytes => BridgeInv'
<1> SUFFICES ASSUME BridgeInv, NoMoreBytes PROVE BridgeInv'
  OBVIOUS
<1>1. /\ stage = "commands" /\ Quiet /\ stage' = "usb" /\ UNCHANGED <<respStatus, torn>>
      /\ UNCHANGED LineSide /\ UNCHANGED AnswerSide
  BY DEF NoMoreBytes, LineSide, AnswerSide, requestVars
<1>2. AnswerTypes' /\ PrintfHolds' /\ OneAnswerPerCommand' /\ PrintInStep'
  BY <1>1, AnswersStill
<1>3. LineTypes' /\ RxAsSent' /\ LineAsSent'
  BY <1>1, LineStill
<1>4. /\ respStatus' \in {"Idle", "Pending", "Done", "NoResp", "Timeout"} /\ torn' \in BOOLEAN
      /\ stage' \in {"usb", "mdio", "session", "response", "print", "commands"}
  BY <1>1, Parts
<1> QED BY <1>2, <1>3, <1>4, Zenon DEF BridgeInv, BridgeTypes

LEMMA BridgeStutters == BridgeInv /\ UNCHANGED bridgeVars => BridgeInv'
<1> SUFFICES ASSUME BridgeInv, UNCHANGED bridgeVars PROVE BridgeInv'
  OBVIOUS
<1>1. UNCHANGED <<stage, respStatus, torn>> /\ UNCHANGED LineSide /\ UNCHANGED AnswerSide
  BY DEF bridgeVars, LineSide, AnswerSide, requestVars
<1>2. AnswerTypes' /\ PrintfHolds' /\ OneAnswerPerCommand' /\ PrintInStep'
  BY <1>1, AnswersStill
<1>3. LineTypes' /\ RxAsSent' /\ LineAsSent'
  BY <1>1, LineStill
<1>4. /\ respStatus' \in {"Idle", "Pending", "Done", "NoResp", "Timeout"} /\ torn' \in BOOLEAN
      /\ stage' \in {"usb", "mdio", "session", "response", "print", "commands"}
  BY <1>1, Parts
<1> QED BY <1>2, <1>3, <1>4, Zenon DEF BridgeInv, BridgeTypes

LEMMA BridgeInvKept == BridgeInv /\ [BridgeNext]_bridgeVars => BridgeInv'
BY UsbTickKeeps, InsideKeeps, MdioTickKeeps, CheckSessionKeeps, PollAnswerKeeps, PollPrintKeeps,
   PushByteKeeps, RejectLineKeeps, AcceptKeeps, RefuseKeeps, AcceptPrintKeeps, RefusePrintKeeps,
   NoMoreBytesKeeps, PrintLineKeeps, BridgeStutters, Zenon
DEF BridgeNext, Loop

------------------------------------------------------------------------------
\* What holds of the bridge.

\* Every command is owed exactly the lines that are still to come, the buffers
\* hold the bytes as they were sent, and a print is in step with its registers
\* (Mdio::UsbBridge).
THEOREM BridgeInvariant == BridgeSpec => []BridgeInv
<1> QED BY BridgeInvInit, BridgeInvKept, PTL DEF BridgeSpec

\* A command is executed only from one line of one client, whole, unless a client
\* opened the port inside printf() (pollCommand(), pushCommandByte()).
THEOREM CommandsStayWhole == BridgeSpec => []CommandsWhole
<1>1. BridgeInit => CommandsWhole
  BY DEF BridgeInit, CommandsWhole
<1>2. BridgeInv /\ CommandsWhole /\ [BridgeNext]_bridgeVars => CommandsWhole'
  <2> SUFFICES ASSUME BridgeInv, CommandsWhole, [BridgeNext]_bridgeVars PROVE CommandsWhole'
    OBVIOUS
  <2>1. openedInside' = openedInside \/ openedInside' = TRUE
    <3>1. CASE UsbTick \/ PacketInside \/ OpensInside \/ PrintLine \/ UNCHANGED bridgeVars
      BY <3>1 DEF UsbTick, PacketInside, OpensInside, PrintLine, bridgeVars
    <3>2. CASE MdioTick \/ CheckSession \/ PollAnswer \/ PollPrint
      BY <3>2 DEF MdioTick, CheckSession, PollAnswer, PollPrint
    <3>3. CASE PushByte \/ RejectLine \/ NoMoreBytes
      BY <3>3 DEF PushByte, RejectLine, NoMoreBytes
    <3>4. CASE Accept \/ Refuse \/ AcceptPrint \/ RefusePrint
      BY <3>4 DEF Accept, Refuse, AcceptPrint, RefusePrint, TakeLine
    <3> QED BY <3>1, <3>2, <3>3, <3>4 DEF BridgeNext, Loop
  <2>2. CASE torn' = torn
    BY <2>1, <2>2, Zenon DEF CommandsWhole
  <2>3. CASE torn' # torn
    <3>1. PICK verbs : TakeLine(verbs)
      BY <2>3 DEF BridgeNext, Loop, UsbTick, PacketInside, OpensInside, PrintLine, MdioTick,
         CheckSession, PollAnswer, PollPrint, PushByte, RejectLine, Accept, Refuse, AcceptPrint,
         RefusePrint, NoMoreBytes, bridgeVars
    <3>2. /\ AtNewline /\ ~discardLine /\ torn' = (torn \/ ~Whole(line, Head(rx)))
          /\ openedInside' = openedInside
      BY <3>1 DEF TakeLine
    <3>3. torn \in BOOLEAN
      BY Parts
    <3>4. ~Whole(line, Head(rx))
      BY <2>3, <3>2, <3>3, Zenon
    <3> QED BY <3>2, <3>4, WholeLine, Zenon DEF CommandsWhole
  <2> QED BY <2>2, <2>3
<1> QED BY <1>1, <1>2, BridgeInvariant, PTL DEF BridgeSpec

\* When a print ends, it has answered every register once, in order
\* (pollResponse()).
THEOREM PrintComplete == BridgeSpec => PrintsEveryRegister
<1>1. BridgeInv /\ [BridgeNext]_bridgeVars
        => [printActive /\ ~printActive' => printed = [k \in 1 .. PrintRegs |-> k - 1]]_bridgeVars
  <2> SUFFICES ASSUME BridgeInv, BridgeNext, printActive, ~printActive'
               PROVE  printed = [k \in 1 .. PrintRegs |-> k - 1]
    BY Zenon
  <2>1. PollPrint
    BY DEF BridgeNext, Loop, UsbTick, PacketInside, OpensInside, PrintLine, MdioTick,
       CheckSession, PollAnswer, PushByte, RejectLine, Accept, Refuse, AcceptPrint,
       RefusePrint, NoMoreBytes, printVars
  <2>2. ~pending /\ AllRead /\ toPrint = <<>>
    BY <2>1 DEF PollPrint, Quiet
  <2>3. /\ printed \in Seq(Nat) /\ printNextReg \in 0 .. PrintRegs
        /\ printNextReg = Len(printed) /\ \A k \in DOMAIN printed : printed[k] = k - 1
    <3>1. AnswerTypes /\ PrintInStep /\ ~AnswerDue
      BY <2>2, Parts DEF AnswerDue, Quiet
    <3>2. Len(printed) \in Nat
      BY <3>1, LenProperties DEF AnswerTypes
    <3> QED BY <2>2, <3>1, <3>2 DEF AnswerTypes, PrintInStep
  <2>4. Len(printed) = PrintRegs
    BY <2>2, <2>3, BridgeSizes DEF AllRead
  <2>5. printed \in [1 .. PrintRegs -> Nat] /\ \A k \in 1 .. PrintRegs : printed[k] = k - 1
    BY <2>3, <2>4, LenProperties
  <2> QED BY <2>5
<1> QED BY <1>1, BridgeInvariant, PTL DEF BridgeSpec, PrintsEveryRegister
==============================================================================
