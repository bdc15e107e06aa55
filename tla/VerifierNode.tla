---------------------------- MODULE VerifierNode ----------------------------
(***************************************************************************)
(* The verifier node (examples/verifier-node).  verify_proof_file reads    *)
(* <batch>.proof, then <batch>.trace, parses both, has Sp1Verifier check   *)
(* them on the blocking pool and only then takes the state lock.  It is    *)
(* run by the poller of the proof directory, by every connection that      *)
(* delivers a proof broadcast and by every verifyBatch request, so several *)
(* verifications, also of one batch, overlap; vjobs[t] is the one task t   *)
(* is in.                                                                  *)
(*                                                                         *)
(* The proof directory and the network belong to the validator             *)
(* (Validator.tla); this node only reads the files and receives the        *)
(* broadcasts.                                                             *)
(***************************************************************************)
EXTENDS Integers, Sequences, FiniteSets

CONSTANTS VConns,       \* connections of the verifier node
          PollProofs,   \* --poll-proofs
          BatchIds,     \* batch ids in use
          SenderOf(_), Writes(_), \* what a payload does to the state
          VFaults,      \* TRUE iff the SP1 verifier may fail with an error
          MaxRequests,  \* bound on verifyBatch requests
          MaxVRestarts  \* bound on restarts of the node

VARIABLES verified_batches, pending_verifications, current_state_root,
          failed_count,
          vjobs,
          processed_set, listing,    \* the poller: done, and still to visit
          requests, vrestarts,       \* bound counters
          proof_files, trace_files, net

environment == <<proof_files, trace_files, net>>

Poller == "poller"
VTasks == VConns \cup {Poller}

Nothing == [st |-> "absent", txs |-> <<>>]

NoJob == [kind |-> "none", step |-> "idle", batch_id |-> 0,
          proof |-> Nothing, trace |-> Nothing]

Job(kind, b) == [kind |-> kind, step |-> "read_proof", batch_id |-> b,
                 proof |-> Nothing, trace |-> Nothing]

(***************************************************************************)
(* The public values of a batch of transactions.  Every batch is executed  *)
(* from a fresh state that holds its senders and nothing else, so its      *)
(* pre-state root tells the senders apart and its post-state root also the *)
(* writes; the trace hash tells the transactions apart.                    *)
(***************************************************************************)
SendersOf(txs) == {SenderOf(txs[i].payload) : i \in DOMAIN txs}
WritesOf(txs) ==
  [i \in DOMAIN SelectSeq(txs, LAMBDA tx : Writes(tx.payload)) |->
     SelectSeq(txs, LAMBDA tx : Writes(tx.payload))[i].payload]

Commitment(txs) ==
  [trace_hash |-> txs,
   state_root_pre |-> [senders |-> SendersOf(txs), writes |-> <<>>],
   state_root_post |-> [senders |-> SendersOf(txs), writes |-> WritesOf(txs)]]

\* The initial value "genesis" is no root of a batch: every batch that was
\* proved has a sender.
Genesis == [senders |-> {}, writes |-> <<>>]

VInit ==
  /\ verified_batches = <<>>
  /\ pending_verifications = {}
  /\ current_state_root = Genesis
  /\ failed_count = 0
  /\ vjobs = [t \in VTasks |-> NoJob]
  /\ processed_set = {}
  /\ listing = {}
  /\ requests = 0
  /\ vrestarts = 0

-----------------------------------------------------------------------------
(* What starts a verification.                                             *)

\* read_dir: the .proof files there are, visited in no particular order.
PollScan ==
  /\ PollProofs
  /\ vjobs[Poller].step = "idle"
  /\ listing = {}
  /\ listing' = {b \in BatchIds : proof_files[b].st # "absent"} \ processed_set
  /\ UNCHANGED <<verified_batches, pending_verifications, current_state_root,
                 failed_count, vjobs, processed_set, requests, vrestarts>>
  /\ UNCHANGED environment

PollEntry(b) ==
  /\ vjobs[Poller].step = "idle"
  /\ b \in listing
  /\ listing' = listing \ {b}
  /\ vjobs' = [vjobs EXCEPT ![Poller] = Job("poll", b)]
  /\ UNCHANGED <<verified_batches, pending_verifications, current_state_root,
                 failed_count, processed_set, requests, vrestarts>>
  /\ UNCHANGED environment

handle_proof_broadcast(t, m) ==
  /\ vjobs[t].step = "idle"
  /\ m \in net
  /\ net' = net \ {m}
  /\ pending_verifications' = pending_verifications \cup {m.batch_id}
  /\ vjobs' = [vjobs EXCEPT ![t] = Job("broadcast", m.batch_id)]
  /\ UNCHANGED <<verified_batches, current_state_root, failed_count,
                 processed_set, listing, requests, vrestarts, proof_files, trace_files>>

verifyBatch(t, b) ==
  /\ vjobs[t].step = "idle"
  /\ requests < MaxRequests
  /\ requests' = requests + 1
  /\ vjobs' = [vjobs EXCEPT ![t] = Job("rpc", b)]
  /\ UNCHANGED <<verified_batches, pending_verifications, current_state_root,
                 failed_count, processed_set, listing, vrestarts>>
  /\ UNCHANGED environment

-----------------------------------------------------------------------------
(* verify_proof_file and verify_proof.                                     *)

\* Mutant: the poller only remembers failures.
ForgetsSuccess(t, ok) ==
  /\ processed_set' = IF vjobs[t].kind = "poll" /\ ~ok
                      THEN processed_set \cup {vjobs[t].batch_id}
                      ELSE processed_set
  /\ vjobs' = [vjobs EXCEPT ![t] =
                 IF ok /\ @.kind = "broadcast" THEN [@ EXCEPT !.step = "unpend"]
                 ELSE NoJob]

\* What the caller does with the result.  The poller never looks at a batch
\* again, whatever the result; a broadcast is only taken out of the pending
\* map after a success, under a lock of its own.
Return(t, ok) ==
  /\ processed_set' = IF vjobs[t].kind = "poll"
                      THEN processed_set \cup {vjobs[t].batch_id}
                      ELSE processed_set
  /\ vjobs' = [vjobs EXCEPT ![t] =
                 IF ok /\ @.kind = "broadcast" THEN [@ EXCEPT !.step = "unpend"]
                 ELSE NoJob]

ReadProof(t) ==
  /\ vjobs[t].step = "read_proof"
  /\ LET f == proof_files[vjobs[t].batch_id]
     IN  IF f.st = "absent"
         THEN Return(t, FALSE)
         ELSE /\ vjobs' = [vjobs EXCEPT ![t].step = "read_trace", ![t].proof = f]
              /\ UNCHANGED processed_set
  /\ UNCHANGED <<verified_batches, pending_verifications, current_state_root,
                 failed_count, listing, requests, vrestarts>>
  /\ UNCHANGED environment

\* A missing trace, or a file caught half written, is an error.
ReadTrace(t) ==
  /\ vjobs[t].step = "read_trace"
  /\ LET f == trace_files[vjobs[t].batch_id]
     IN  IF f.st # "full" \/ vjobs[t].proof.st # "full"
         THEN Return(t, FALSE)
         ELSE /\ vjobs' = [vjobs EXCEPT ![t].step = "verify", ![t].trace = f]
              /\ UNCHANGED processed_set
  /\ UNCHANGED <<verified_batches, pending_verifications, current_state_root,
                 failed_count, listing, requests, vrestarts>>
  /\ UNCHANGED environment

\* Mutant: the pre-state root is all that is compared.
PreRootMatches(proof, trace) ==
  Commitment(proof.txs).state_root_pre = Commitment(trace.txs).state_root_pre

\* Sp1Verifier::verify: the public inputs of the proof against the trace.
\* The proof itself is genuine, only the validator's prover writes one.
PublicInputsMatch(proof, trace) ==
  /\ Commitment(proof.txs).trace_hash = Commitment(trace.txs).trace_hash
  /\ Commitment(proof.txs).state_root_pre = Commitment(trace.txs).state_root_pre
  /\ Commitment(proof.txs).state_root_post = Commitment(trace.txs).state_root_post

\* A root that does not continue the chain is logged and accepted.
Accept(t) ==
  LET c == Commitment(vjobs[t].proof.txs)
  IN  /\ current_state_root' = c.state_root_post
      /\ verified_batches' =
           Append(verified_batches,
                  [batch_id |-> vjobs[t].batch_id,
                   state_root_pre |-> c.state_root_pre,
                   state_root_post |-> c.state_root_post,
                   by |-> vjobs[t].kind,
                   proof |-> vjobs[t].proof, trace |-> vjobs[t].trace])

VerifyProof(t) ==
  /\ vjobs[t].step = "verify"
  /\ IF PublicInputsMatch(vjobs[t].proof, vjobs[t].trace)
     THEN /\ Accept(t)
          /\ Return(t, TRUE)
          /\ UNCHANGED failed_count
     ELSE /\ failed_count' = failed_count + 1
          /\ Return(t, FALSE)
          /\ UNCHANGED <<verified_batches, current_state_root>>
  /\ UNCHANGED <<pending_verifications, listing, requests, vrestarts>>
  /\ UNCHANGED environment

\* The blocking task dies or the SP1 setup fails: an error, nothing counted.
VerifyErrs(t) ==
  /\ VFaults
  /\ vjobs[t].step = "verify"
  /\ Return(t, FALSE)
  /\ UNCHANGED <<verified_batches, pending_verifications, current_state_root,
                 failed_count, listing, requests, vrestarts>>
  /\ UNCHANGED environment

\* Mutant: the entry of a verified broadcast stays.
ForgetsToUnpend(t) ==
  /\ vjobs[t].step = "unpend"
  /\ vjobs' = [vjobs EXCEPT ![t] = NoJob]
  /\ UNCHANGED <<verified_batches, pending_verifications, current_state_root,
                 failed_count, processed_set, listing, requests, vrestarts>>
  /\ UNCHANGED environment

Unpend(t) ==
  /\ vjobs[t].step = "unpend"
  /\ pending_verifications' = pending_verifications \ {vjobs[t].batch_id}
  /\ vjobs' = [vjobs EXCEPT ![t] = NoJob]
  /\ UNCHANGED <<verified_batches, current_state_root, failed_count,
                 processed_set, listing, requests, vrestarts>>
  /\ UNCHANGED environment

VJobStep(t) ==
  ReadProof(t) \/ ReadTrace(t) \/ VerifyProof(t) \/ VerifyErrs(t) \/ Unpend(t)

Verified(b) == {i \in DOMAIN verified_batches : verified_batches[i].batch_id = b}

\* Mutant: the latest verification answers.
LatestAttestation(b) ==
  IF Verified(b) = {} THEN {}
  ELSE {verified_batches[CHOOSE i \in Verified(b) : \A j \in Verified(b) : i >= j]}

\* getAttestation: the first verification of b, if there is one.
getAttestation(b) ==
  IF Verified(b) = {} THEN {}
  ELSE {verified_batches[CHOOSE i \in Verified(b) : \A j \in Verified(b) : i <= j]}

\* The process is killed and started again; its state is only in memory.
VRestart ==
  /\ vrestarts < MaxVRestarts
  /\ vrestarts' = vrestarts + 1
  /\ verified_batches' = <<>>
  /\ pending_verifications' = {}
  /\ current_state_root' = Genesis
  /\ failed_count' = 0
  /\ vjobs' = [t \in VTasks |-> NoJob]
  /\ processed_set' = {}
  /\ listing' = {}
  /\ UNCHANGED requests
  /\ UNCHANGED environment

PollStep == PollScan \/ \E b \in BatchIds : PollEntry(b)

VNext ==
  \/ PollStep
  \/ \E t \in VConns : \E m \in net : handle_proof_broadcast(t, m)
  \/ \E t \in VConns, b \in BatchIds : verifyBatch(t, b)
  \/ \E t \in VTasks : VJobStep(t)
  \/ VRestart
=============================================================================
