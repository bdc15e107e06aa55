----------------------- MODULE CatalystBatcherProofs -----------------------
(***************************************************************************)
(* Proofs about the on-chain program, for every set of batch ids, keys and *)
(* hashes.                                                                 *)
(***************************************************************************)
EXTENDS CatalystBatcher, FiniteSetTheorems, TLAPS

\* Every instruction of the program keeps config, receipts and slot in their
\* types.
LEMMA TypeInductive == TypeOK /\ [Next]_vars => TypeOK'
<1> SUFFICES ASSUME TypeOK, [Next]_vars PROVE TypeOK'
  OBVIOUS
<1> USE BatcherAssumptions DEF TypeOK, Config, Receipt
<1>1. ASSUME NEW k \in Keys, initialize_config(k) PROVE TypeOK'
  BY <1>1 DEF initialize_config
<1>2. ASSUME NEW k \in Keys, NEW n \in PolicyNames, update_policy(k, n)
      PROVE TypeOK'
  BY <1>2 DEF update_policy
<1>3. ASSUME NEW k \in Keys, NEW b \in BatchIds, NEW s \in Summaries,
             submit_batch(k, b, s)
      PROVE TypeOK'
  <2>1. DOMAIN receipts' = DOMAIN receipts \cup {b}
    BY <1>3 DEF submit_batch, StoreReceipt
  <2>2. receipts' \in [DOMAIN receipts' -> Receipt]
    BY <1>3, <2>1 DEF submit_batch, StoreReceipt
  <2>3. config' \in Config
    BY <1>3 DEF submit_batch, StoreReceipt
  <2> QED
    BY <1>3, <2>1, <2>2, <2>3 DEF submit_batch, StoreReceipt
<1>4. ASSUME NEW b \in BatchIds, NEW h \in Hashes, submit_proof(b, h)
      PROVE TypeOK'
  BY <1>4 DEF submit_proof
<1>5. ASSUME NEW b \in BatchIds, verify_proof(b) PROVE TypeOK'
  BY <1>5 DEF verify_proof
<1>6. ASSUME NEW k \in Keys, pause(k) PROVE TypeOK'
  BY <1>6 DEF pause
<1>7. ASSUME NEW k \in Keys, resume(k) PROVE TypeOK'
  BY <1>7 DEF resume
<1>8. CASE SlotPasses
  BY <1>8 DEF SlotPasses
<1>9. CASE UNCHANGED vars
  BY <1>9 DEF vars
<1> QED
  BY <1>1, <1>2, <1>3, <1>4, <1>5, <1>6, <1>7, <1>8, <1>9 DEF Next

\* Before the first instruction there is no receipt.
LEMMA InitType == Init => TypeOK
<1> SUFFICES ASSUME Init PROVE TypeOK
  OBVIOUS
<1>1. config \in Config
  BY BatcherAssumptions DEF Init, Config
<1>2. DOMAIN receipts = {}
  BY DEF Init
<1>3. receipts \in [{} -> Receipt]
  BY DEF Init
<1>4. slot \in 0..MaxSlot
  BY BatcherAssumptions DEF Init
<1> QED
  BY <1>1, <1>2, <1>3, <1>4 DEF Init, TypeOK

\* The accounts of the program always have their declared types.
THEOREM TypeCorrect == Spec => []TypeOK
  BY InitType, TypeInductive, PTL DEF Spec

-----------------------------------------------------------------------------
(***************************************************************************)
(* batch_count.  Before initialize_config there is no receipt, which is    *)
(* why resetting the count to 0 there is harmless.                         *)
(***************************************************************************)
CountInv ==
  /\ TypeOK
  /\ ReceiptsCounted
  /\ ~initialized => DOMAIN receipts = {}

\* No instruction makes batch_count and the receipts drift apart.
LEMMA CountInductive == CountInv /\ [Next]_vars => CountInv'
<1> SUFFICES ASSUME CountInv, [Next]_vars PROVE CountInv'
  OBVIOUS
<1>0. TypeOK'
  BY TypeInductive DEF CountInv
<1> USE DEF CountInv
<1>1. ASSUME NEW k \in Keys, initialize_config(k) PROVE CountInv'
  <2>1. Cardinality({}) = 0
    BY FS_EmptySet
  <2> QED
    BY <1>0, <1>1, <2>1 DEF initialize_config, ReceiptsCounted
<1>2. ASSUME NEW k \in Keys, NEW b \in BatchIds, NEW s \in Summaries,
             submit_batch(k, b, s)
      PROVE CountInv'
  <2>1. IsFiniteSet(DOMAIN receipts)
    BY BatcherAssumptions, FS_Subset DEF TypeOK
  <2>2. Cardinality(DOMAIN receipts \cup {b}) = Cardinality(DOMAIN receipts) + 1
    BY <1>2, <2>1, FS_AddElement DEF submit_batch
  <2>3. DOMAIN receipts' = DOMAIN receipts \cup {b}
    BY <1>2 DEF submit_batch, StoreReceipt
  <2>4. config'.batch_count = config.batch_count + 1
    BY <1>2 DEF submit_batch, StoreReceipt, TypeOK, Config
  <2> QED
    BY <1>0, <1>2, <2>2, <2>3, <2>4 DEF submit_batch, StoreReceipt, ReceiptsCounted
<1>3. ASSUME NEW b \in BatchIds, NEW h \in Hashes, submit_proof(b, h)
      PROVE CountInv'
  BY <1>0, <1>3 DEF submit_proof, ReceiptsCounted
<1>4. ASSUME NEW b \in BatchIds, verify_proof(b) PROVE CountInv'
  BY <1>0, <1>4 DEF verify_proof, ReceiptsCounted
<1>5. CASE \/ \E k \in Keys, n \in PolicyNames : update_policy(k, n)
           \/ \E k \in Keys : pause(k)
           \/ \E k \in Keys : resume(k)
  <2>1. config'.batch_count = config.batch_count
    BY <1>5 DEF update_policy, pause, resume, TypeOK, Config
  <2> QED
    BY <1>0, <1>5, <2>1 DEF update_policy, pause, resume, ReceiptsCounted
<1>6. CASE SlotPasses \/ UNCHANGED vars
  BY <1>0, <1>6 DEF SlotPasses, vars, ReceiptsCounted
<1> QED
  BY <1>1, <1>2, <1>3, <1>4, <1>5, <1>6 DEF Next

\* batch_count is the number of receipts, in every reachable state.
THEOREM ReceiptsAlwaysCounted == Spec => []ReceiptsCounted
<1>1. Init => CountInv
  <2>1. Cardinality({}) = 0
    BY FS_EmptySet
  <2>2. Init => DOMAIN receipts = {} /\ config.batch_count = 0
    BY DEF Init
  <2> QED
    BY <2>1, <2>2, InitType DEF CountInv, ReceiptsCounted
<1>2. CountInv => ReceiptsCounted
  BY DEF CountInv
<1> QED
  BY <1>1, <1>2, CountInductive, PTL DEF Spec

-----------------------------------------------------------------------------
(***************************************************************************)
(* What a step may do to a receipt.  All of it rests on the type of the    *)
(* receipts alone: each instruction checks what it needs on the spot.      *)
(***************************************************************************)

\* submit_batch and the proof instructions leave the other receipts alone.
LEMMA StepReceipts ==
  ASSUME TypeOK, [Next]_vars
  PROVE  \/ receipts' = receipts
         \/ \E b \in BatchIds \ DOMAIN receipts, s \in Summaries, k \in Keys :
              /\ ~config.paused
              /\ receipts' = [x \in DOMAIN receipts \cup {b} |->
                    IF x = b
                    THEN [summary |-> s, proof_hash |-> ZeroHash,
                          verified |-> FALSE, submitter |-> k,
                          submit_slot |-> slot, verify_slot |-> 0]
                    ELSE receipts[x]]
         \/ \E b \in DOMAIN receipts, h \in Hashes :
              /\ ~receipts[b].verified
              /\ receipts' = [receipts EXCEPT ![b].proof_hash = h]
         \/ \E b \in DOMAIN receipts :
              /\ ~receipts[b].verified
              /\ receipts[b].proof_hash # ZeroHash
              /\ receipts' = [receipts EXCEPT ![b].verified = TRUE,
                                             ![b].verify_slot = slot]
<1>1. CASE \E k \in Keys, b \in BatchIds, s \in Summaries : submit_batch(k, b, s)
  <2>1. PICK k \in Keys, b \in BatchIds, s \in Summaries : submit_batch(k, b, s)
    BY <1>1
  <2>2. b \in BatchIds \ DOMAIN receipts /\ ~config.paused
    BY <2>1 DEF submit_batch
  <2>3. receipts' = [x \in DOMAIN receipts \cup {b} |->
                    IF x = b
                    THEN [summary |-> s, proof_hash |-> ZeroHash,
                          verified |-> FALSE, submitter |-> k,
                          submit_slot |-> slot, verify_slot |-> 0]
                    ELSE receipts[x]]
    BY <2>1 DEF submit_batch, StoreReceipt
  <2> QED
    BY <2>2, <2>3 DEF submit_batch, StoreReceipt
<1>2. CASE \E b \in BatchIds, h \in Hashes : submit_proof(b, h)
  BY <1>2 DEF submit_proof
<1>3. CASE \E b \in BatchIds : verify_proof(b)
  BY <1>3 DEF verify_proof
<1>4. CASE ~ \/ \E k \in Keys, b \in BatchIds, s \in Summaries : submit_batch(k, b, s)
             \/ \E b \in BatchIds, h \in Hashes : submit_proof(b, h)
             \/ \E b \in BatchIds : verify_proof(b)
  BY <1>4 DEF Next, vars, initialize_config, update_policy, pause, resume, SlotPasses
<1> QED
  BY <1>1, <1>2, <1>3, <1>4

\* A verified receipt is never written again, and none is closed or
\* submitted twice (submit_proof, verify_proof, submit_batch).
THEOREM ReceiptsAreFinal == Spec => ReceiptsFinal
<1> DEFINE Final == \A b \in DOMAIN receipts :
                       /\ b \in DOMAIN receipts'
                       /\ receipts'[b].summary = receipts[b].summary
                       /\ receipts[b].verified => receipts'[b] = receipts[b]
<1>1. TypeOK /\ [Next]_vars => Final
  <2> SUFFICES ASSUME TypeOK, [Next]_vars, NEW c \in DOMAIN receipts
               PROVE /\ c \in DOMAIN receipts'
                     /\ receipts'[c].summary = receipts[c].summary
                     /\ receipts[c].verified => receipts'[c] = receipts[c]
    OBVIOUS
  <2>1. receipts[c] \in Receipt
    BY DEF TypeOK
  <2>2. CASE receipts' = receipts
    BY <2>2
  <2>3. CASE \E b \in BatchIds \ DOMAIN receipts, s \in Summaries, k \in Keys :
                receipts' = [x \in DOMAIN receipts \cup {b} |->
                    IF x = b
                    THEN [summary |-> s, proof_hash |-> ZeroHash,
                          verified |-> FALSE, submitter |-> k,
                          submit_slot |-> slot, verify_slot |-> 0]
                    ELSE receipts[x]]
    BY <2>3
  <2>4. CASE \E b \in DOMAIN receipts, h \in Hashes :
                /\ ~receipts[b].verified
                /\ receipts' = [receipts EXCEPT ![b].proof_hash = h]
    BY <2>1, <2>4 DEF Receipt
  <2>5. CASE \E b \in DOMAIN receipts :
                /\ ~receipts[b].verified
                /\ receipts' = [receipts EXCEPT ![b].verified = TRUE,
                                               ![b].verify_slot = slot]
    BY <2>1, <2>5 DEF Receipt
  <2> QED
    BY <2>2, <2>3, <2>4, <2>5, StepReceipts
<1> QED
  BY <1>1, TypeCorrect, PTL DEF Spec, ReceiptsFinal

(***************************************************************************)
(* An uninitialized config is not paused, so initialize_config cannot end  *)
(* a pause.                                                                *)
(***************************************************************************)
PauseInv == TypeOK /\ (~initialized => ~config.paused)

\* PauseInv is inductive: pause needs an initialized config.
LEMMA PauseInductive == PauseInv /\ [Next]_vars => PauseInv'
<1> SUFFICES ASSUME PauseInv, [Next]_vars PROVE PauseInv'
  OBVIOUS
<1>1. TypeOK'
  BY TypeInductive DEF PauseInv
<1>2. initialized' = TRUE \/ (initialized' = initialized /\ config' = config)
  <2>1. ASSUME NEW k \in Keys, SignedByAuthority(k) PROVE initialized = TRUE
    BY <2>1 DEF SignedByAuthority, PauseInv, TypeOK
  <2>2. ASSUME NEW k \in Keys, NEW b \in BatchIds, NEW s \in Summaries,
               submit_batch(k, b, s)
        PROVE initialized = TRUE /\ initialized' = initialized
    BY <2>2 DEF submit_batch, StoreReceipt, PauseInv, TypeOK
  <2> QED
    BY <2>1, <2>2
    DEF Next, vars, initialize_config, update_policy, submit_proof,
        verify_proof, pause, resume, SlotPasses
<1> QED
  BY <1>1, <1>2 DEF PauseInv

\* While the program is paused no receipt is added and the config can only
\* be resumed (the Paused checks of submit_batch and update_policy).
THEOREM PauseIsKept == Spec => PauseHolds
<1> DEFINE Held == config.paused =>
                     /\ DOMAIN receipts' = DOMAIN receipts
                     /\ config' \in {config, [config EXCEPT !.paused = FALSE]}
<1>1. PauseInv /\ [Next]_vars => Held
  <2> SUFFICES ASSUME PauseInv, [Next]_vars, config.paused
               PROVE /\ DOMAIN receipts' = DOMAIN receipts
                     /\ config' \in {config, [config EXCEPT !.paused = FALSE]}
    OBVIOUS
  <2>1. initialized
    BY DEF PauseInv
  <2>2. config \in Config
    BY DEF PauseInv, TypeOK
  <2>3. ASSUME NEW k \in Keys, pause(k) PROVE config' = config
    BY <2>2, <2>3 DEF pause, Config
  <2>4. ASSUME NEW k \in Keys, resume(k)
        PROVE config' = [config EXCEPT !.paused = FALSE]
    BY <2>4 DEF resume
  <2>5. ASSUME NEW b \in BatchIds, NEW h \in Hashes, submit_proof(b, h)
        PROVE DOMAIN receipts' = DOMAIN receipts /\ config' = config
    BY <2>5 DEF submit_proof
  <2>6. ASSUME NEW b \in BatchIds, verify_proof(b)
        PROVE DOMAIN receipts' = DOMAIN receipts /\ config' = config
    BY <2>6 DEF verify_proof
  <2> QED
    BY <2>1, <2>3, <2>4, <2>5, <2>6
    DEF Next, vars, initialize_config, update_policy, submit_batch, pause,
        resume, SlotPasses
<1>2. Init => PauseInv
  <2>1. Init => config.paused = FALSE
    BY DEF Init
  <2> QED
    BY <2>1, InitType DEF PauseInv
<1> QED
  BY <1>1, <1>2, PauseInductive, PTL DEF Spec, PauseHolds

-----------------------------------------------------------------------------
(***************************************************************************)
(* The slots of a receipt.  That verify_slot is not before submit_slot     *)
(* needs that no receipt was submitted in a slot still to come.            *)
(***************************************************************************)
SoundInv ==
  /\ TypeOK
  /\ VerifiedReceiptSound
  /\ \A b \in DOMAIN receipts : receipts[b].submit_slot <= slot

\* Every instruction keeps the receipts sound.
LEMMA SoundInductive == SoundInv /\ [Next]_vars => SoundInv'
<1> SUFFICES ASSUME SoundInv, [Next]_vars PROVE SoundInv'
  OBVIOUS
<1>1. TypeOK /\ TypeOK'
  BY TypeInductive DEF SoundInv
<1>2. slot \in Nat /\ slot' \in Nat /\ slot <= slot'
  <2>1. slot' = slot \/ slot' = slot + 1
    BY DEF Next, vars, initialize_config, update_policy, submit_batch,
           StoreReceipt, submit_proof, verify_proof, pause, resume, SlotPasses
  <2> QED
    BY <1>1, <2>1, BatcherAssumptions DEF TypeOK
<1>3. \A b \in DOMAIN receipts : receipts[b] \in Receipt
  BY <1>1 DEF TypeOK
<1> DEFINE Sound(r, s) ==
             /\ r.submit_slot <= s
             /\ IF r.verified
                THEN /\ r.proof_hash # ZeroHash
                     /\ r.submit_slot <= r.verify_slot
                     /\ r.verify_slot <= s
                ELSE r.verify_slot = 0
<1>4. \A b \in DOMAIN receipts : Sound(receipts[b], slot)
  BY DEF SoundInv, VerifiedReceiptSound
<1>5. \A b \in DOMAIN receipts : Sound(receipts[b], slot')
  BY <1>2, <1>3, <1>4, BatcherAssumptions DEF Receipt
<1>6. \A b \in DOMAIN receipts' : Sound(receipts'[b], slot')
  <2>1. CASE receipts' = receipts
    BY <1>5, <2>1
  <2>2. ASSUME NEW b \in BatchIds \ DOMAIN receipts, NEW s \in Summaries,
               NEW k \in Keys,
               receipts' = [x \in DOMAIN receipts \cup {b} |->
                    IF x = b
                    THEN [summary |-> s, proof_hash |-> ZeroHash,
                          verified |-> FALSE, submitter |-> k,
                          submit_slot |-> slot, verify_slot |-> 0]
                    ELSE receipts[x]]
        PROVE \A c \in DOMAIN receipts' : Sound(receipts'[c], slot')
    BY <1>2, <1>5, <2>2
  <2>3. ASSUME NEW b \in DOMAIN receipts, NEW h \in Hashes,
               ~receipts[b].verified,
               receipts' = [receipts EXCEPT ![b].proof_hash = h]
        PROVE \A c \in DOMAIN receipts' : Sound(receipts'[c], slot')
    BY <1>3, <1>5, <2>3 DEF Receipt
  <2>4. ASSUME NEW b \in DOMAIN receipts, ~receipts[b].verified,
               receipts[b].proof_hash # ZeroHash,
               receipts' = [receipts EXCEPT ![b].verified = TRUE,
                                            ![b].verify_slot = slot]
        PROVE \A c \in DOMAIN receipts' : Sound(receipts'[c], slot')
    BY <1>2, <1>3, <1>4, <1>5, <2>4 DEF Receipt
  <2> QED
    BY <1>1, <2>1, <2>2, <2>3, <2>4, StepReceipts
<1> QED
  BY <1>1, <1>6 DEF SoundInv, VerifiedReceiptSound

\* A verified receipt has a proof and ordered slots, in every reachable
\* state (verify_proof checks the hash and stamps the slot).
THEOREM VerifiedReceiptsSound == Spec => []VerifiedReceiptSound
<1>1. Init => SoundInv
  <2>1. Init => DOMAIN receipts = {}
    BY DEF Init
  <2> QED
    BY <2>1, InitType DEF SoundInv, VerifiedReceiptSound
<1>2. SoundInv => VerifiedReceiptSound
  BY DEF SoundInv
<1> QED
  BY <1>1, <1>2, SoundInductive, PTL DEF Spec

-----------------------------------------------------------------------------
(***************************************************************************)
(* Refinement.  A step of the program is a step of the lifecycle of one    *)
(* batch or changes neither status nor proof of any.                       *)
(***************************************************************************)

\* The accounts of the on-chain program implement ReceiptLifecycle.
THEOREM LifecycleImplemented == Spec => ImplementsLifecycle
<1>1. Init => Lifecycle!Init
  <2> SUFFICES ASSUME Init PROVE Lifecycle!Init
    OBVIOUS
  <2>1. DOMAIN receipts = {}
    BY DEF Init
  <2> QED
    BY <2>1 DEF Lifecycle!Init, statusOf, proofOf
<1>2. TypeOK /\ [Next]_vars => [Lifecycle!Next]_<<statusOf, proofOf>>
  <2> SUFFICES ASSUME TypeOK, [Next]_vars
               PROVE  Lifecycle!Next \/ (statusOf' = statusOf /\ proofOf' = proofOf)
    OBVIOUS
  <2>0. \A b \in DOMAIN receipts : receipts[b] \in Receipt /\ b \in BatchIds
    BY DEF TypeOK
  <2>1. CASE receipts' = receipts
    BY <2>1 DEF statusOf, proofOf
  <2>2. ASSUME NEW b \in BatchIds \ DOMAIN receipts, NEW s \in Summaries,
               NEW k \in Keys,
               receipts' = [x \in DOMAIN receipts \cup {b} |->
                    IF x = b
                    THEN [summary |-> s, proof_hash |-> ZeroHash,
                          verified |-> FALSE, submitter |-> k,
                          submit_slot |-> slot, verify_slot |-> 0]
                    ELSE receipts[x]]
        PROVE Lifecycle!Next
    <3>1. statusOf[b] = "none" /\ statusOf' = [statusOf EXCEPT ![b] = "submitted"]
      BY <2>2 DEF statusOf
    <3>2. proofOf' = proofOf
      BY <2>2 DEF proofOf
    <3> QED
      BY <3>1, <3>2 DEF Lifecycle!Next, Lifecycle!Register
  <2>3. ASSUME NEW b \in DOMAIN receipts, NEW h \in Hashes,
               ~receipts[b].verified,
               receipts' = [receipts EXCEPT ![b].proof_hash = h]
        PROVE Lifecycle!Next
    <3>1. statusOf[b] = "submitted" /\ statusOf' = statusOf
      BY <2>0, <2>3 DEF statusOf, Receipt
    <3>2. proofOf' = [proofOf EXCEPT ![b] = h]
      BY <2>0, <2>3 DEF proofOf, Receipt
    <3> QED
      BY <2>0, <3>1, <3>2 DEF Lifecycle!Next, Lifecycle!Attach
  <2>4. ASSUME NEW b \in DOMAIN receipts, ~receipts[b].verified,
               receipts[b].proof_hash # ZeroHash,
               receipts' = [receipts EXCEPT ![b].verified = TRUE,
                                            ![b].verify_slot = slot]
        PROVE Lifecycle!Next
    <3>1. statusOf[b] = "submitted" /\ statusOf' = [statusOf EXCEPT ![b] = "verified"]
      BY <2>0, <2>4 DEF statusOf, Receipt
    <3>2. proofOf[b] # ZeroHash /\ proofOf' = proofOf
      BY <2>0, <2>4 DEF proofOf, Receipt
    <3> QED
      BY <2>0, <3>1, <3>2 DEF Lifecycle!Next, Lifecycle!Finalize
  <2> QED
    BY <2>1, <2>2, <2>3, <2>4, StepReceipts
<1> QED
  BY <1>1, <1>2, TypeCorrect, PTL DEF Spec, ImplementsLifecycle, Lifecycle!Spec
=============================================================================
