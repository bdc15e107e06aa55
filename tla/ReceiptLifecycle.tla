-------------------------- MODULE ReceiptLifecycle --------------------------
(***************************************************************************)
(* What the on-chain program promises about a batch, without accounts,     *)
(* signers or slots: a batch is registered once, a proof hash is attached  *)
(* and may be replaced until the batch is verified, and a verified batch   *)
(* stays verified with the proof it was verified with.                     *)
(***************************************************************************)
CONSTANTS BatchIds, Hashes, ZeroHash

VARIABLES status,  \* "none", "submitted" or "verified"
          proof    \* the attached proof hash, ZeroHash when there is none

Init ==
  /\ status = [b \in BatchIds |-> "none"]
  /\ proof = [b \in BatchIds |-> ZeroHash]

Register(b) ==
  /\ status[b] = "none"
  /\ status' = [status EXCEPT ![b] = "submitted"]
  /\ UNCHANGED proof

Attach(b, h) ==
  /\ status[b] = "submitted"
  /\ proof' = [proof EXCEPT ![b] = h]
  /\ UNCHANGED status

Finalize(b) ==
  /\ status[b] = "submitted"
  /\ proof[b] # ZeroHash
  /\ status' = [status EXCEPT ![b] = "verified"]
  /\ UNCHANGED proof

Next == \E b \in BatchIds : \/ Register(b)
                            \/ \E h \in Hashes : Attach(b, h)
                            \/ Finalize(b)

Spec == Init /\ [][Next]_<<status, proof>>
=============================================================================
