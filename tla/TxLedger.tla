------------------------------ MODULE TxLedger ------------------------------
(***************************************************************************)
(* What the validator promises about submitted transactions, without       *)
(* tasks, locks, files or time.                                            *)
(***************************************************************************)
EXTENDS Integers, Sequences

VARIABLES submitted,  \* ids 1..submitted have been handed out
          queued,     \* ids not sealed yet
          inflight,   \* batches sealed and not settled, as sets of ids
          proved,     \* batches recorded with a proof
          failed      \* ids of the batches that failed

ledger == <<submitted, queued, inflight, proved, failed>>

Empty ==
  /\ submitted = 0 /\ queued = <<>>
  /\ inflight = {} /\ proved = {} /\ failed = {}

Submit ==
  /\ submitted' = submitted + 1
  /\ queued' = Append(queued, submitted + 1)
  /\ UNCHANGED <<inflight, proved, failed>>

\* The first n transactions of the queue become a batch.
Seal(n) ==
  /\ queued' = SubSeq(queued, n + 1, Len(queued))
  /\ inflight' = inflight \cup {{queued[i] : i \in 1..n}}
  /\ UNCHANGED <<submitted, proved, failed>>

Settle(b) ==
  /\ inflight' = inflight \ {b}
  /\ \/ proved' = proved \cup {b} /\ UNCHANGED failed
     \/ failed' = failed \cup b /\ UNCHANGED proved
  /\ UNCHANGED <<submitted, queued>>

\* The process dies and forgets.
Forget ==
  /\ submitted' = 0 /\ queued' = <<>>
  /\ inflight' = {} /\ proved' = {} /\ failed' = {}

LedgerNext ==
  \/ Submit
  \/ \E n \in 1..Len(queued) : Seal(n)
  \/ \E b \in inflight : Settle(b)
  \/ Forget

LedgerSpec == Empty /\ [][LedgerNext]_ledger
=============================================================================
