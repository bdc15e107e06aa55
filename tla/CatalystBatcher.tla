--------------------------- MODULE CatalystBatcher ---------------------------
(***************************************************************************)
(* The on-chain program (onchain/catalyst_batcher): one GlobalConfig       *)
(* account, and one BatchReceipt account per batch id at an address        *)
(* derived from the id.  Anchor checks the account constraints before the  *)
(* handler runs and a transaction whose handler returns an error changes   *)
(* nothing, so every instruction is one atomic action whose guard is the   *)
(* conjunction of its constraints and its require! conditions.             *)
(***************************************************************************)
EXTENDS Integers, FiniteSets

CONSTANTS BatchIds,
          Keys,       \* public keys that sign
          Summaries,  \* (batch_hash, tx_count, total_compute) of a batch
          Hashes,     \* proof hashes
          ZeroHash,   \* [0u8; 32]
          PolicyNames, NoName,  \* policy names; NoName is [0u8; 32]
          MaxCount,   \* largest batch_count (u64 with overflow checks)
          MaxSlot     \* bound on the cluster's clock

ASSUME BatcherAssumptions ==
  /\ ZeroHash \in Hashes
  /\ NoName \in PolicyNames
  /\ IsFiniteSet(BatchIds)
  /\ MaxCount \in Nat
  /\ MaxSlot \in Nat

VARIABLES initialized, \* the config account exists
          config, receipts, slot

vars == <<initialized, config, receipts, slot>>

Config == [authority : Keys, paused : BOOLEAN, batch_count : 0..MaxCount,
           policy_name : PolicyNames]

Receipt == [summary : Summaries, proof_hash : Hashes, verified : BOOLEAN,
            submitter : Keys, submit_slot : 0..MaxSlot, verify_slot : 0..MaxSlot]

Init ==
  /\ initialized = FALSE
  /\ \E k \in Keys :
        config = [authority |-> k, paused |-> FALSE, batch_count |-> 0,
                  policy_name |-> NoName]
  /\ receipts = [b \in {} |-> 0]
  /\ slot = 0

\* Mutant: init_if_needed for init.
ReinitializeConfig(authority) ==
  /\ initialized' = TRUE
  /\ config' = [authority |-> authority, paused |-> FALSE, batch_count |-> 0,
                policy_name |-> NoName]
  /\ UNCHANGED <<receipts, slot>>

\* The init constraint: the account must not exist yet.
initialize_config(authority) ==
  /\ ~initialized
  /\ initialized' = TRUE
  /\ config' = [authority |-> authority, paused |-> FALSE, batch_count |-> 0,
                policy_name |-> NoName]
  /\ UNCHANGED <<receipts, slot>>

\* has_one = authority, and the authority signs.
SignedByAuthority(signer) == initialized /\ signer = config.authority

update_policy(signer, name) ==
  /\ SignedByAuthority(signer)
  /\ ~config.paused
  /\ config' = [config EXCEPT !.policy_name = name]
  /\ UNCHANGED <<initialized, receipts, slot>>

\* The body of submit_batch.
StoreReceipt(signer, b, summary) ==
  /\ receipts' = [x \in DOMAIN receipts \cup {b} |->
                    IF x = b
                    THEN [summary |-> summary, proof_hash |-> ZeroHash,
                          verified |-> FALSE, submitter |-> signer,
                          submit_slot |-> slot, verify_slot |-> 0]
                    ELSE receipts[x]]
  /\ config' = [config EXCEPT !.batch_count = @ + 1]
  /\ UNCHANGED <<initialized, slot>>

\* Mutant: the counter has no upper bound.
SubmitUncounted(signer, b, summary) ==
  /\ initialized
  /\ ~config.paused
  /\ b \notin DOMAIN receipts
  /\ StoreReceipt(signer, b, summary)

\* Mutant: a paused program still accepts batches.
SubmitWhilePaused(signer, b, summary) ==
  /\ initialized
  /\ b \notin DOMAIN receipts
  /\ config.batch_count < MaxCount
  /\ StoreReceipt(signer, b, summary)

\* Mutant: init_if_needed for init.
Resubmit(signer, b, summary) ==
  /\ initialized
  /\ ~config.paused
  /\ config.batch_count < MaxCount
  /\ StoreReceipt(signer, b, summary)

\* init: there is no receipt at the address of the batch id yet.
submit_batch(signer, b, summary) ==
  /\ initialized
  /\ ~config.paused
  /\ b \notin DOMAIN receipts
  /\ config.batch_count < MaxCount
  /\ StoreReceipt(signer, b, summary)

\* Mutant: the AlreadyVerified check is missing.
ReplaceProof(b, h) ==
  /\ b \in DOMAIN receipts
  /\ receipts' = [receipts EXCEPT ![b].proof_hash = h]
  /\ UNCHANGED <<initialized, config, slot>>

\* Any signer may attach or replace a proof hash, also while paused.
submit_proof(b, h) ==
  /\ b \in DOMAIN receipts
  /\ ~receipts[b].verified
  /\ receipts' = [receipts EXCEPT ![b].proof_hash = h]
  /\ UNCHANGED <<initialized, config, slot>>

\* Mutant: the NoProof check is missing.
VerifyWithoutProof(b) ==
  /\ b \in DOMAIN receipts
  /\ ~receipts[b].verified
  /\ receipts' = [receipts EXCEPT ![b].verified = TRUE, ![b].verify_slot = slot]
  /\ UNCHANGED <<initialized, config, slot>>

verify_proof(b) ==
  /\ b \in DOMAIN receipts
  /\ ~receipts[b].verified
  /\ receipts[b].proof_hash # ZeroHash
  /\ receipts' = [receipts EXCEPT ![b].verified = TRUE, ![b].verify_slot = slot]
  /\ UNCHANGED <<initialized, config, slot>>

pause(signer) ==
  /\ SignedByAuthority(signer)
  /\ config' = [config EXCEPT !.paused = TRUE]
  /\ UNCHANGED <<initialized, receipts, slot>>

resume(signer) ==
  /\ SignedByAuthority(signer)
  /\ config' = [config EXCEPT !.paused = FALSE]
  /\ UNCHANGED <<initialized, receipts, slot>>

\* Clock::get()?.slot
SlotPasses ==
  /\ slot < MaxSlot
  /\ slot' = slot + 1
  /\ UNCHANGED <<initialized, config, receipts>>

Next ==
  \/ \E k \in Keys : initialize_config(k)
  \/ \E k \in Keys, n \in PolicyNames : update_policy(k, n)
  \/ \E k \in Keys, b \in BatchIds, s \in Summaries : submit_batch(k, b, s)
  \/ \E b \in BatchIds, h \in Hashes : submit_proof(b, h)
  \/ \E b \in BatchIds : verify_proof(b)
  \/ \E k \in Keys : pause(k)
  \/ \E k \in Keys : resume(k)
  \/ SlotPasses

Spec == Init /\ [][Next]_vars

-----------------------------------------------------------------------------
(* Properties.                                                             *)

TypeOK ==
  /\ initialized \in BOOLEAN
  /\ config \in Config
  /\ DOMAIN receipts \subseteq BatchIds
  /\ receipts \in [DOMAIN receipts -> Receipt]
  /\ slot \in 0..MaxSlot

\* batch_count is the number of receipts there are: no rejected submission,
\* repeated batch id or second initialize_config makes them drift apart.
ReceiptsCounted == config.batch_count = Cardinality(DOMAIN receipts)

\* A verified receipt carries a proof hash and was verified no earlier than
\* submitted; one that is not verified has no verification slot.
VerifiedReceiptSound ==
  \A b \in DOMAIN receipts :
     IF receipts[b].verified
     THEN /\ receipts[b].proof_hash # ZeroHash
          /\ receipts[b].submit_slot <= receipts[b].verify_slot
          /\ receipts[b].verify_slot <= slot
     ELSE receipts[b].verify_slot = 0

\* No instruction touches a verified receipt again, and no receipt is closed
\* or submitted a second time.
ReceiptsFinal ==
  [][\A b \in DOMAIN receipts :
        /\ b \in DOMAIN receipts'
        /\ receipts'[b].summary = receipts[b].summary
        /\ receipts[b].verified => receipts'[b] = receipts[b]]_vars

\* While paused no batch is accepted and no policy changed; all that can
\* happen to the config is that its authority resumes it.
PauseHolds ==
  [][config.paused =>
       /\ DOMAIN receipts' = DOMAIN receipts
       /\ config' \in {config, [config EXCEPT !.paused = FALSE]}]_vars

\* The receipts implement the lifecycle of ReceiptLifecycle: in particular a
\* batch is verified only from a submitted state with a proof attached, and
\* its proof is never replaced afterwards.
statusOf == [b \in BatchIds |->
               IF b \notin DOMAIN receipts THEN "none"
               ELSE IF receipts[b].verified THEN "verified" ELSE "submitted"]

proofOf == [b \in BatchIds |->
              IF b \in DOMAIN receipts THEN receipts[b].proof_hash ELSE ZeroHash]

Lifecycle == INSTANCE ReceiptLifecycle WITH status <- statusOf, proof <- proofOf

ImplementsLifecycle == Lifecycle!Spec
=============================================================================
