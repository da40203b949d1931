----------------------------- MODULE MdioRequest -----------------------------
(***************************************************************************)
(* What the MDIO master promises to its client, without wire transactions,  *)
(* registers shared with the PIOC, or time: one request at a time, in a     *)
(* mailbox the client lends; the register access takes effect once, between *)
(* the request and its answer; a read answers what the register held then.  *)
(***************************************************************************)
CONSTANTS
  Targets,    \* registers of the PHY that answers: direct ones and MMD ones
  Vals,       \* what a register holds
  NoVal       \* the value field of an answer that carries none

VARIABLES
  resp,       \* the mailbox: [status, value]
  req,        \* the request: [read, target, val, present]
  performed,  \* the access has taken effect (or met no PHY)
  found,      \* what a read has found
  regs        \* the PHY's registers

requestVars == <<resp, req, performed, found, regs>>

Requests == [read : BOOLEAN, target : Targets, val : Vals, present : BOOLEAN]
Pending == resp.status = "Pending"

Init ==
  /\ resp = [status |-> "Idle", value |-> NoVal]
  /\ req \in Requests
  /\ performed = TRUE /\ found = NoVal
  /\ regs \in [Targets -> Vals]

\* read(), write(), readMmd() or writeMmd() is accepted.
Submit(r) ==
  /\ ~Pending
  /\ resp' = [status |-> "Pending", value |-> NoVal]
  /\ req' = r
  /\ performed' = FALSE /\ found' = NoVal
  /\ UNCHANGED regs

Perform ==
  /\ Pending /\ ~performed
  /\ performed' = TRUE
  /\ regs' = IF ~req.read /\ req.present THEN [regs EXCEPT ![req.target] = req.val] ELSE regs
  /\ found' = IF req.read /\ req.present THEN regs[req.target] ELSE NoVal
  /\ UNCHANGED <<resp, req>>

\* A missing PHY shows only on a read: nobody acknowledges a written frame.
Answer ==
  /\ Pending /\ performed
  /\ resp' = IF req.read /\ ~req.present THEN [status |-> "NoResp", value |-> NoVal]
                                         ELSE [status |-> "Done", value |-> found]
  /\ UNCHANGED <<req, performed, found, regs>>

\* The PIOC stopped, before the access or after it.
GiveUp ==
  /\ Pending
  /\ resp' = [status |-> "Timeout", value |-> NoVal]
  /\ UNCHANGED <<req, performed, found, regs>>

Next == (\E r \in Requests : Submit(r)) \/ Perform \/ Answer \/ GiveUp

Spec == Init /\ [][Next]_requestVars
==============================================================================
