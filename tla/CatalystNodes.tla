---------------------------- MODULE CatalystNodes ----------------------------
(***************************************************************************)
(* A validator and a verifier node on one proof directory.  They share the *)
(* files the validator writes in four steps (truncate and fill the proof,  *)
(* then the trace) and the verifier reads in two, and the broadcasts the   *)
(* validator sends once both files are there.  Nothing synchronises them:  *)
(* the verifier may read between any two steps of the validator, across a  *)
(* restart of the validator included.                                      *)
(***************************************************************************)
EXTENDS Validator, Functions

CONSTANTS VConns, PollProofs, SenderOf(_), Writes(_), VFaults, MaxRequests,
          MaxVRestarts

VARIABLES verified_batches, pending_verifications, current_state_root,
          failed_count, vjobs, processed_set, listing, requests, vrestarts

N == INSTANCE VerifierNode

validatorPrivate == <<args, pending_txs, tx_counter, batch_counter, proofs,
                      jobs, due, reply, failed, bounds>>

verifierPrivate == <<verified_batches, pending_verifications,
                     current_state_root, failed_count, vjobs, processed_set,
                     listing, requests, vrestarts>>

nodeVars == <<validatorPrivate, verifierPrivate, proof_files, trace_files, net>>

NodesInit == Init /\ N!VInit

ValidatorSteps == Next /\ UNCHANGED verifierPrivate
VerifierSteps  == N!VNext /\ UNCHANGED validatorPrivate

NodesNext == ValidatorSteps \/ VerifierSteps

NodesSpec == NodesInit /\ [][NodesNext]_nodeVars

Messages == [batch_id : BatchIds, epoch : 0..MaxRestarts]

(***************************************************************************)
(* Every broadcast opens a connection of its own, for which the verifier   *)
(* spawns a task; VConns bounds the tasks, so a message only waits for one *)
(* to be free (strong fairness).  Tasks and the poller keep running.       *)
(***************************************************************************)
NodesFairSpec ==
  /\ NodesSpec
  /\ WF_nodeVars(Tick /\ UNCHANGED verifierPrivate)
  /\ WF_nodeVars(TickerCheck /\ UNCHANGED verifierPrivate)
  /\ \A t \in Tasks : WF_nodeVars(JobStep(t) /\ UNCHANGED verifierPrivate)
  /\ \A t \in N!VTasks : WF_nodeVars(N!VJobStep(t) /\ UNCHANGED validatorPrivate)
  /\ \A m \in Messages :
        SF_nodeVars(/\ \E t \in VConns : N!handle_proof_broadcast(t, m)
                    /\ UNCHANGED validatorPrivate)

-----------------------------------------------------------------------------
(* Properties.                                                             *)

\* The verifier never attests a batch whose proof and trace come from two
\* different batches, although it reads the two files one after the other
\* and a restarted validator reuses batch ids and overwrites both.
VerifiedArtifactsWhole ==
  \A v \in Range(verified_batches) : v.proof = v.trace

\* The poller attests a batch id at most once in the life of the process:
\* neither the next directory scan nor a rewritten file brings it back.
PolledAtMostOnce ==
  \A i, j \in DOMAIN verified_batches :
     ( /\ verified_batches[i].by = "poll"
       /\ verified_batches[j].by = "poll"
       /\ verified_batches[i].batch_id = verified_batches[j].batch_id ) => i = j

\* A broadcast finds both files complete, so a batch that was announced is
\* verified, however the poller and other handlers overlap.
AnnouncedIsVerified ==
  \A b \in BatchIds :
     (\E m \in net : m.batch_id = b)
       ~> (\E v \in Range(verified_batches) : v.batch_id = b)

\* pending_verifications is emptied again: unless a verification fails, the
\* entry a broadcast makes is gone once its handler has run, although other
\* handlers and the poller, on the same batch too, run at the same time.
PendingDrains ==
  \A b \in BatchIds : b \in pending_verifications ~> b \notin pending_verifications

\* getAttestation does not change its answer: while the node runs, a batch
\* id that was verified again, from files a restarted validator has
\* rewritten, is still answered with its first attestation.
AttestationStable ==
  [][ vrestarts' = vrestarts =>
        \A b \in BatchIds : N!getAttestation(b) \subseteq N!getAttestation(b)' ]_nodeVars

\* README.md has the verifier check "state_root_pre == current_state_root"
\* and reject a batch on a mismatch: the verified batches form one chain of
\* state roots.
ChainContinuity ==
  \A i \in DOMAIN verified_batches : i > 1 =>
     verified_batches[i].state_root_pre = verified_batches[i - 1].state_root_post

\* README.md has every polled batch end as finalized or as rejected with
\* failed_count incremented: no batch the poller is done with is neither.
PolledIsSettled ==
  \A b \in processed_set :
     \/ \E v \in Range(verified_batches) : v.batch_id = b
     \/ failed_count > 0
=============================================================================
