------------------------ MODULE CatalystNodesProofs ------------------------
(***************************************************************************)
(* Proofs about the validator and the verifier on one proof directory, for *)
(* any number of connections on either side, any payloads and any number   *)
(* of restarts of both.                                                    *)
(***************************************************************************)
EXTENDS CatalystNodes, ValidatorProofs

-----------------------------------------------------------------------------
(* The invariant.                                                          *)

VJobs == [kind : {"none", "poll", "broadcast", "rpc"},
          step : {"idle", "read_proof", "read_trace", "verify", "unpend"},
          batch_id : 0..MaxBatches, proof : File, trace : File]

Roots == {N!Commitment(txs).state_root_pre : txs \in Seq(Tx)}
         \cup {N!Commitment(txs).state_root_post : txs \in Seq(Tx)}

Attestations == [batch_id : BatchIds, state_root_pre : Roots, state_root_post : Roots,
                 by : {"none", "poll", "broadcast", "rpc"}, proof : File, trace : File]

VTypeInv ==
  /\ vjobs \in [N!VTasks -> VJobs]
  /\ verified_batches \in Seq(Attestations)

\* A task that verifies has read two complete files, and only the poller
\* visits entries of the directory.
VJobsInv ==
  \A t \in N!VTasks :
    /\ vjobs[t].step = "idle" => vjobs[t].kind = "none"
    /\ vjobs[t].step # "idle" => vjobs[t].batch_id \in BatchIds
    /\ vjobs[t].step = "verify" =>
         vjobs[t].proof.st = "full" /\ vjobs[t].trace.st = "full"
    /\ vjobs[t].kind = "poll" => t = N!Poller

WholeInv == \A i \in DOMAIN verified_batches :
              verified_batches[i].proof = verified_batches[i].trace

\* What the poller has done, is doing and has still to visit are disjoint.
PollInv ==
  /\ listing \cap processed_set = {}
  /\ vjobs[N!Poller].kind = "poll" => vjobs[N!Poller].batch_id \notin listing \cup processed_set
  /\ \A i \in DOMAIN verified_batches :
        verified_batches[i].by = "poll" => verified_batches[i].batch_id \in processed_set
  /\ PolledAtMostOnce

NodesInv == TypeInv /\ VTypeInv /\ VJobsInv /\ WholeInv /\ PollInv

-----------------------------------------------------------------------------

\* Job and Nothing have their types.
LEMMA JobTypes ==
  /\ N!NoJob \in VJobs /\ N!NoJob.kind = "none" /\ N!NoJob.step = "idle"
  /\ \A b \in BatchIds, k \in {"poll", "broadcast", "rpc"} :
       /\ N!Job(k, b) \in VJobs /\ N!Job(k, b).step = "read_proof"
       /\ N!Job(k, b).kind = k /\ N!Job(k, b).batch_id = b
<1>1. N!Nothing \in File
  BY EmptySeq DEF N!Nothing, File
<1>2. 0 \in 0..MaxBatches /\ BatchIds \subseteq 0..MaxBatches
  BY ValidatorAssumptions DEF BatchIds
<1>3. N!NoJob \in VJobs /\ N!NoJob.kind = "none" /\ N!NoJob.step = "idle"
  BY <1>1, <1>2 DEF N!NoJob, VJobs
<1>4. \A b \in BatchIds, k \in {"poll", "broadcast", "rpc"} :
        N!Job(k, b) = [kind |-> k, step |-> "read_proof", batch_id |-> b,
                       proof |-> N!Nothing, trace |-> N!Nothing]
  BY DEF N!Job
<1> QED
  BY <1>1, <1>2, <1>3, <1>4 DEF VJobs

\* A task whose job changes, with nothing attested.
LEMMA JobChanges ==
  ASSUME NodesInv, NEW t \in N!VTasks, NEW j \in VJobs,
         vjobs' = [vjobs EXCEPT ![t] = j],
         j.step = "idle" => j.kind = "none",
         j.step # "idle" => j.batch_id \in BatchIds,
         j.step = "verify" => j.proof.st = "full" /\ j.trace.st = "full",
         j.kind = "poll" => t = N!Poller
  PROVE  /\ vjobs' \in [N!VTasks -> VJobs] /\ VJobsInv'
         /\ vjobs'[t] = j /\ \A u \in N!VTasks : u # t => vjobs'[u] = vjobs[u]
<1>1. vjobs \in [N!VTasks -> VJobs] /\ VJobsInv
  BY DEF NodesInv, VTypeInv
<1>2. vjobs'[t] = j /\ \A u \in N!VTasks : u # t => vjobs'[u] = vjobs[u]
  BY <1>1
<1>3. vjobs' \in [N!VTasks -> VJobs]
  BY <1>1
<1>4. VJobsInv'
  BY <1>1, <1>2 DEF VJobsInv
<1> QED
  BY <1>2, <1>3, <1>4

\* A job starts: a request, a broadcast, or an entry of the directory.
LEMMA JobStarts ==
  ASSUME NodesInv, NEW t \in N!VTasks, NEW b \in BatchIds, NEW k \in {"broadcast", "rpc"},
         vjobs' = [vjobs EXCEPT ![t] = N!Job(k, b)],
         UNCHANGED <<verified_batches, processed_set, listing>>, TypeInv'
  PROVE  NodesInv'
<1>1. /\ vjobs' \in [N!VTasks -> VJobs] /\ VJobsInv'
      /\ vjobs'[t] = N!Job(k, b) /\ \A u \in N!VTasks : u # t => vjobs'[u] = vjobs[u]
  <2>1. PICK j \in VJobs : /\ j = N!Job(k, b) /\ j.step = "read_proof"
                          /\ j.kind = k /\ j.batch_id = b
    BY JobTypes
  <2>2. j.step # "idle" /\ j.step # "verify" /\ j.kind # "poll"
    BY <2>1
  <2> QED
    BY <2>1, <2>2, JobChanges
<1>2. N!Poller \in N!VTasks /\ N!Job(k, b).kind = k
  BY JobTypes DEF N!VTasks
<1>3. PollInv'
  BY <1>1, <1>2 DEF NodesInv, PollInv, PolledAtMostOnce
<1> QED
  BY <1>1, <1>3 DEF NodesInv, VTypeInv, WholeInv

\* A job ends or goes on to the removal of its broadcast; the job of the
\* poller always ends.
LEMMA ReturnJobs ==
  ASSUME NodesInv, NEW t \in N!VTasks, vjobs[t].step # "idle", NEW ok, N!Return(t, ok)
  PROVE  /\ vjobs' \in [N!VTasks -> VJobs] /\ VJobsInv'
         /\ vjobs'[N!Poller].kind = "poll" =>
              t # N!Poller /\ vjobs'[N!Poller] = vjobs[N!Poller]
         /\ vjobs[t].kind = "poll" =>
              t = N!Poller /\ processed_set' = processed_set \cup {vjobs[t].batch_id}
         /\ vjobs[t].kind # "poll" => processed_set' = processed_set
<1>1. VJobsInv /\ vjobs[t] \in VJobs /\ N!Poller \in N!VTasks
  BY DEF NodesInv, VTypeInv, N!VTasks
<1>2. CASE ok /\ vjobs[t].kind = "broadcast"
  <2> DEFINE j == [vjobs[t] EXCEPT !.step = "unpend"]
  <2>1. vjobs' = [vjobs EXCEPT ![t] = j] /\ processed_set' = processed_set
    BY <1>2 DEF N!Return
  <2>2. /\ j \in VJobs /\ j.step = "unpend" /\ j.kind = "broadcast"
        /\ j.batch_id \in BatchIds
    BY <1>1, <1>2 DEF VJobs, VJobsInv
  <2> HIDE DEF j
  <2>3. /\ vjobs' \in [N!VTasks -> VJobs] /\ VJobsInv'
        /\ vjobs'[t] = j /\ \A u \in N!VTasks : u # t => vjobs'[u] = vjobs[u]
    BY <2>1, <2>2, JobChanges
  <2> QED
    BY <1>1, <1>2, <2>1, <2>2, <2>3
<1>3. CASE ~(ok /\ vjobs[t].kind = "broadcast")
  <2>1. vjobs' = [vjobs EXCEPT ![t] = N!NoJob]
    BY <1>3 DEF N!Return
  <2>2. /\ vjobs' \in [N!VTasks -> VJobs] /\ VJobsInv'
        /\ vjobs'[t] = N!NoJob /\ \A u \in N!VTasks : u # t => vjobs'[u] = vjobs[u]
    BY <2>1, JobTypes, JobChanges
  <2>3. vjobs[t].kind = "poll" =>
           t = N!Poller /\ processed_set' = processed_set \cup {vjobs[t].batch_id}
    BY <1>1 DEF VJobsInv, N!Return
  <2>4. vjobs[t].kind # "poll" => processed_set' = processed_set
    BY DEF N!Return
  <2> QED
    BY <1>1, <2>2, <2>3, <2>4, JobTypes
<1> QED
  BY <1>2, <1>3

\* A job that ends without an attestation.
LEMMA ReturnKeeps ==
  ASSUME NodesInv, NEW t \in N!VTasks, vjobs[t].step # "idle", NEW ok, N!Return(t, ok),
         UNCHANGED <<verified_batches, listing>>, TypeInv'
  PROVE  NodesInv'
<1>1. VTypeInv /\ WholeInv /\ PollInv
  BY DEF NodesInv
<1>2. PollInv'
  BY <1>1, ReturnJobs DEF PollInv, PolledAtMostOnce
<1> QED
  BY <1>1, <1>2, ReturnJobs DEF NodesInv, VTypeInv, WholeInv

\* A job that ends with one: the public inputs match, so the two files were
\* of one batch, and an entry the poller visits was not attested by it before.
LEMMA AcceptKeeps ==
  ASSUME NodesInv, NEW t \in N!VTasks, vjobs[t].step = "verify",
         N!PublicInputsMatch(vjobs[t].proof, vjobs[t].trace),
         N!Accept(t), N!Return(t, TRUE), UNCHANGED listing, TypeInv'
  PROVE  NodesInv'
<1> DEFINE job == vjobs[t]
           c == N!Commitment(job.proof.txs)
           a == [batch_id |-> job.batch_id, state_root_pre |-> c.state_root_pre,
                 state_root_post |-> c.state_root_post, by |-> job.kind,
                 proof |-> job.proof, trace |-> job.trace]
           n == Len(verified_batches) + 1
<1>1. VTypeInv /\ VJobsInv /\ WholeInv /\ PollInv /\ job \in VJobs
  BY DEF NodesInv, VTypeInv
<1>2. verified_batches' = Append(verified_batches, a)
  BY DEF N!Accept
<1>3. job.batch_id \in BatchIds /\ job.proof.st = "full" /\ job.trace.st = "full"
  BY <1>1 DEF VJobsInv
<1>4. job.proof \in File /\ job.trace \in File /\ job.kind \in {"none", "poll", "broadcast", "rpc"}
  BY <1>1 DEF VJobs
<1>5. job.proof = job.trace
  <2>1. c.trace_hash = N!Commitment(job.trace.txs).trace_hash
    BY DEF N!PublicInputsMatch
  <2>2. \A txs : N!Commitment(txs).trace_hash = txs
    BY DEF N!Commitment
  <2>3. job.proof.txs = job.trace.txs
    BY <2>1, <2>2
  <2> HIDE DEF job
  <2> QED
    BY <1>3, <1>4, <2>3 DEF File
<1>6. c.state_root_pre \in Roots /\ c.state_root_post \in Roots
  <2>1. job.proof.txs \in Seq(Tx)
    BY <1>4 DEF File
  <2> HIDE DEF job
  <2> QED
    BY <2>1 DEF Roots
<1> HIDE DEF c, job
<1>7. a \in Attestations
  BY <1>3, <1>4, <1>6 DEF Attestations
<1>8. /\ a.batch_id = job.batch_id /\ a.by = job.kind
      /\ a.proof = job.proof /\ a.trace = job.trace
  OBVIOUS
<1> HIDE DEF a
<1>9. verified_batches \in Seq(Attestations)
  BY <1>1 DEF VTypeInv
<1>10. /\ verified_batches' \in Seq(Attestations)
       /\ DOMAIN verified_batches' = DOMAIN verified_batches \cup {n}
       /\ n \notin DOMAIN verified_batches
       /\ verified_batches'[n] = a
       /\ \A i \in DOMAIN verified_batches : verified_batches'[i] = verified_batches[i]
  BY <1>2, <1>7, <1>9
<1> HIDE DEF n
<1>11. WholeInv'
  BY <1>1, <1>5, <1>8, <1>10 DEF WholeInv
<1>12. job.kind = "poll" => /\ job.batch_id \notin processed_set
                            /\ job.batch_id \notin listing
  BY <1>1 DEF PollInv, VJobsInv, job
<1>13. /\ vjobs'[N!Poller].kind = "poll" => vjobs'[N!Poller] = vjobs[N!Poller] /\ t # N!Poller
       /\ job.kind = "poll" => t = N!Poller /\ processed_set' = processed_set \cup {job.batch_id}
       /\ job.kind # "poll" => processed_set' = processed_set
  BY ReturnJobs DEF job
<1>14. PollInv'
  <2>1. /\ listing' \cap processed_set' = {}
        /\ vjobs'[N!Poller].kind = "poll" =>
             vjobs'[N!Poller].batch_id \notin listing' \cup processed_set'
    BY <1>1, <1>12, <1>13 DEF PollInv
  <2>2. \A i \in DOMAIN verified_batches' :
           verified_batches'[i].by = "poll" => verified_batches'[i].batch_id \in processed_set'
    BY <1>1, <1>8, <1>10, <1>13 DEF PollInv
  <2>3. PolledAtMostOnce'
    BY <1>1, <1>8, <1>10, <1>12 DEF PollInv, PolledAtMostOnce
  <2> QED
    BY <2>1, <2>2, <2>3 DEF PollInv
<1> QED
  BY <1>10, <1>11, <1>14, ReturnJobs DEF NodesInv, VTypeInv

\* No step of either node breaks the invariant.
LEMMA NodesInductive == NodesInv /\ [NodesNext]_nodeVars => NodesInv'
<1> SUFFICES ASSUME NodesInv, [NodesNext]_nodeVars PROVE NodesInv'
  OBVIOUS
<1>a. TypeInv /\ VTypeInv /\ VJobsInv /\ WholeInv /\ PollInv /\ TypeOK
      /\ N!Poller \in N!VTasks /\ VConns \subseteq N!VTasks
  BY DEF NodesInv, TypeInv, N!VTasks
<1>1. ASSUME UNCHANGED verifierPrivate, TypeInv' PROVE NodesInv'
  BY <1>1, <1>a DEF verifierPrivate, NodesInv, VTypeInv, VJobsInv, WholeInv, PollInv,
                    PolledAtMostOnce
<1>2. CASE ValidatorSteps
  <2>1. TypeInv'
    BY <1>2, <1>a, TypeInductive DEF ValidatorSteps
  <2> QED
    BY <1>1, <1>2, <2>1 DEF ValidatorSteps
<1>3. CASE UNCHANGED nodeVars
  <2>1. UNCHANGED vars /\ UNCHANGED verifierPrivate
    BY <1>3 DEF nodeVars, validatorPrivate, vars
  <2> QED
    BY <1>1, <1>a, <2>1, TypeInductive
<1>4. ASSUME UNCHANGED validatorPrivate, UNCHANGED <<proof_files, trace_files>>,
             net' \subseteq net
      PROVE  TypeInv'
  <2>1. TypeOK'
    BY <1>4, <1>a DEF validatorPrivate, bounds, TypeOK
  <2> QED
    BY <1>4, <1>a, <2>1 DEF validatorPrivate, bounds, TypeInv, AgesBounded, JobsNumbered
<1>5. ASSUME UNCHANGED validatorPrivate, N!PollScan PROVE NodesInv'
  <2>1. TypeInv'
    BY <1>4, <1>5 DEF N!PollScan, N!environment
  <2>2. /\ UNCHANGED <<vjobs, verified_batches, processed_set>>
        /\ listing' \cap processed_set = {} /\ vjobs[N!Poller].step = "idle"
    BY <1>5 DEF N!PollScan
  <2>3. PollInv'
    BY <1>a, <2>2 DEF PollInv, PolledAtMostOnce, VJobsInv
  <2> QED
    BY <1>a, <2>1, <2>2, <2>3 DEF NodesInv, VTypeInv, VJobsInv, WholeInv
<1>6. ASSUME UNCHANGED validatorPrivate, NEW b \in BatchIds, N!PollEntry(b) PROVE NodesInv'
  <2>1. TypeInv'
    BY <1>4, <1>6 DEF N!PollEntry, N!environment
  <2>2. /\ vjobs' = [vjobs EXCEPT ![N!Poller] = N!Job("poll", b)]
        /\ UNCHANGED <<verified_batches, processed_set>>
        /\ b \in listing /\ listing' = listing \ {b}
    BY <1>6 DEF N!PollEntry
  <2>3. PICK j \in VJobs : /\ j = N!Job("poll", b) /\ j.step = "read_proof"
                           /\ j.kind = "poll" /\ j.batch_id = b
    BY JobTypes
  <2>4. /\ vjobs' \in [N!VTasks -> VJobs] /\ VJobsInv' /\ vjobs'[N!Poller] = j
    BY <1>a, <2>2, <2>3, JobChanges
  <2>5. PollInv'
    BY <1>a, <2>2, <2>3, <2>4 DEF PollInv, PolledAtMostOnce
  <2> QED
    BY <1>a, <2>1, <2>2, <2>4, <2>5 DEF NodesInv, VTypeInv, WholeInv
<1>7. ASSUME UNCHANGED validatorPrivate, NEW t \in VConns, NEW m \in net,
             N!handle_proof_broadcast(t, m)
      PROVE  NodesInv'
  <2>1. TypeInv'
    BY <1>4, <1>7 DEF N!handle_proof_broadcast
  <2>2. m.batch_id \in BatchIds
    BY <1>a, <1>7 DEF TypeOK
  <2> QED
    BY <1>a, <1>7, <2>1, <2>2, JobStarts DEF N!handle_proof_broadcast
<1>8. ASSUME UNCHANGED validatorPrivate, NEW t \in VConns, NEW b \in BatchIds,
             N!verifyBatch(t, b)
      PROVE  NodesInv'
  <2>1. TypeInv'
    BY <1>4, <1>8 DEF N!verifyBatch, N!environment
  <2> QED
    BY <1>a, <1>8, <2>1, JobStarts DEF N!verifyBatch
<1>9. ASSUME UNCHANGED validatorPrivate, NEW t \in N!VTasks, N!VJobStep(t)
      PROVE  NodesInv'
  <2>1. TypeInv'
    BY <1>4, <1>9 DEF N!VJobStep, N!ReadProof, N!ReadTrace, N!VerifyProof, N!VerifyErrs,
                      N!Unpend, N!environment
  <2>a. vjobs[t] \in VJobs
    BY <1>a DEF VTypeInv
  <2>2. ASSUME NEW j \in VJobs, vjobs' = [vjobs EXCEPT ![t] = j], vjobs[t].step # "idle",
               j.kind = vjobs[t].kind, j.batch_id = vjobs[t].batch_id, j.step # "idle",
               j.step = "verify" => j.proof.st = "full" /\ j.trace.st = "full",
               UNCHANGED <<verified_batches, processed_set, listing>>
        PROVE  NodesInv'
    <3>1. /\ vjobs' \in [N!VTasks -> VJobs] /\ VJobsInv'
          /\ vjobs'[t] = j /\ \A u \in N!VTasks : u # t => vjobs'[u] = vjobs[u]
      BY <1>a, <2>2, JobChanges DEF VJobsInv
    <3>2. PollInv'
      BY <1>a, <2>2, <3>1 DEF PollInv, PolledAtMostOnce
    <3> QED
      BY <1>a, <2>1, <2>2, <3>1, <3>2 DEF NodesInv, VTypeInv, WholeInv
  <2>3. CASE N!ReadProof(t)
    <3> DEFINE f == proof_files[vjobs[t].batch_id]
    <3>1. vjobs[t].step = "read_proof" /\ UNCHANGED <<verified_batches, listing>>
      BY <2>3 DEF N!ReadProof
    <3>2. CASE N!Return(t, FALSE)
      BY <2>1, <3>1, <3>2, ReturnKeeps
    <3>3. CASE vjobs' = [vjobs EXCEPT ![t].step = "read_trace", ![t].proof = f]
               /\ UNCHANGED processed_set
      <4>1. f \in File
        BY <1>a, <3>1 DEF TypeOK, VJobsInv
      <4> HIDE DEF f
      <4> DEFINE j == [vjobs[t] EXCEPT !.step = "read_trace", !.proof = f]
      <4>2. /\ j \in VJobs /\ j.step = "read_trace" /\ j.kind = vjobs[t].kind
            /\ j.batch_id = vjobs[t].batch_id
        BY <2>a, <4>1 DEF VJobs
      <4>3. vjobs' = [vjobs EXCEPT ![t] = j]
        BY <1>a, <3>3 DEF VTypeInv
      <4> HIDE DEF j
      <4> QED
        BY <2>2, <3>1, <3>3, <4>2, <4>3
    <3> QED
      BY <2>3, <3>2, <3>3 DEF N!ReadProof
  <2>4. CASE N!ReadTrace(t)
    <3> DEFINE f == trace_files[vjobs[t].batch_id]
    <3>1. vjobs[t].step = "read_trace" /\ UNCHANGED <<verified_batches, listing>>
      BY <2>4 DEF N!ReadTrace
    <3>2. CASE N!Return(t, FALSE)
      BY <2>1, <3>1, <3>2, ReturnKeeps
    <3>3. CASE /\ vjobs' = [vjobs EXCEPT ![t].step = "verify", ![t].trace = f]
               /\ UNCHANGED processed_set /\ f.st = "full" /\ vjobs[t].proof.st = "full"
      <4>1. f \in File /\ f.st = "full"
        BY <1>a, <3>1, <3>3 DEF TypeOK, VJobsInv
      <4> HIDE DEF f
      <4> DEFINE j == [vjobs[t] EXCEPT !.step = "verify", !.trace = f]
      <4>2. /\ j \in VJobs /\ j.step = "verify" /\ j.kind = vjobs[t].kind
            /\ j.batch_id = vjobs[t].batch_id /\ j.proof = vjobs[t].proof /\ j.trace = f
        BY <2>a, <4>1 DEF VJobs
      <4>3. vjobs' = [vjobs EXCEPT ![t] = j]
        BY <1>a, <3>3 DEF VTypeInv
      <4> HIDE DEF j
      <4> QED
        BY <2>2, <3>1, <3>3, <4>1, <4>2, <4>3
    <3> QED
      BY <2>4, <3>2, <3>3 DEF N!ReadTrace
  <2>5. CASE N!VerifyProof(t)
    <3>1. vjobs[t].step = "verify" /\ UNCHANGED listing
      BY <2>5 DEF N!VerifyProof
    <3>2. CASE N!PublicInputsMatch(vjobs[t].proof, vjobs[t].trace)
      BY <2>1, <2>5, <3>1, <3>2, AcceptKeeps DEF N!VerifyProof
    <3>3. CASE ~N!PublicInputsMatch(vjobs[t].proof, vjobs[t].trace)
      BY <2>1, <2>5, <3>1, <3>3, ReturnKeeps DEF N!VerifyProof
    <3> QED
      BY <3>2, <3>3
  <2>6. CASE N!VerifyErrs(t)
    BY <2>1, <2>6, ReturnKeeps DEF N!VerifyErrs
  <2>7. CASE N!Unpend(t)
    <3>1. /\ vjobs' = [vjobs EXCEPT ![t] = N!NoJob]
          /\ UNCHANGED <<verified_batches, processed_set, listing>>
      BY <2>7 DEF N!Unpend
    <3>2. /\ vjobs' \in [N!VTasks -> VJobs] /\ VJobsInv'
          /\ vjobs'[t] = N!NoJob /\ \A u \in N!VTasks : u # t => vjobs'[u] = vjobs[u]
      BY <3>1, JobTypes, JobChanges
    <3>3. PollInv'
      BY <1>a, <3>1, <3>2, JobTypes DEF PollInv, PolledAtMostOnce
    <3> QED
      BY <1>a, <2>1, <3>1, <3>2, <3>3 DEF NodesInv, VTypeInv, WholeInv
  <2> QED
    BY <1>9, <2>3, <2>4, <2>5, <2>6, <2>7 DEF N!VJobStep
<1>10. ASSUME UNCHANGED validatorPrivate, N!VRestart PROVE NodesInv'
  <2>1. TypeInv'
    BY <1>4, <1>10 DEF N!VRestart, N!environment
  <2>2. /\ verified_batches' = <<>> /\ processed_set' = {} /\ listing' = {}
        /\ vjobs' = [t \in N!VTasks |-> N!NoJob]
    BY <1>10 DEF N!VRestart
  <2>3. VTypeInv' /\ VJobsInv'
    BY <2>2, JobTypes, EmptySeq DEF VTypeInv, VJobsInv
  <2>4. WholeInv' /\ PollInv'
    BY <1>a, <2>2, JobTypes DEF WholeInv, PollInv, PolledAtMostOnce
  <2> QED
    BY <2>1, <2>3, <2>4 DEF NodesInv
<1> QED
  BY <1>2, <1>3, <1>5, <1>6, <1>7, <1>8, <1>9, <1>10
  DEF NodesNext, VerifierSteps, N!VNext, N!PollStep

\* The invariant of the two nodes.
LEMMA NodesInvariance == NodesSpec => []NodesInv
<1>1. NodesInit => NodesInv
  <2> SUFFICES ASSUME NodesInit PROVE NodesInv
    OBVIOUS
  <2>1. TypeInv
    BY InitType DEF NodesInit
  <2>2. /\ verified_batches = <<>> /\ processed_set = {} /\ listing = {}
        /\ vjobs = [t \in N!VTasks |-> N!NoJob]
    BY DEF NodesInit, N!VInit
  <2>3. VTypeInv /\ VJobsInv
    BY <2>2, JobTypes, EmptySeq DEF VTypeInv, VJobsInv
  <2>4. WholeInv /\ PollInv
    BY <2>2, JobTypes DEF WholeInv, PollInv, PolledAtMostOnce, N!VTasks
  <2> QED
    BY <2>1, <2>3, <2>4 DEF NodesInv
<1> QED
  BY <1>1, NodesInductive, PTL DEF NodesSpec

\* Every attestation is of a proof and a trace of one batch, whatever files
\* validators in any number of lives wrote between the two reads.
THEOREM AttestsWholeArtifacts == NodesSpec => []VerifiedArtifactsWhole
<1>1. NodesInv => VerifiedArtifactsWhole
  BY DEF NodesInv, WholeInv, VerifiedArtifactsWhole, Range
<1> QED
  BY <1>1, NodesInvariance, PTL

\* The poller attests a batch id at most once in a life of the node.
THEOREM PollsAtMostOnce == NodesSpec => []PolledAtMostOnce
<1>1. NodesInv => PolledAtMostOnce
  BY DEF NodesInv, PollInv
<1> QED
  BY <1>1, NodesInvariance, PTL

\* A set of numbers has a least one.
LEMMA LeastElement ==
  ASSUME NEW S \in SUBSET Nat, S # {}
  PROVE  \E i \in S : \A j \in S : i <= j
<1>1. \E i \in S : \A j \in S : ~(<<j, i>> \in OpToRel(<, Nat))
  BY NatLessThanWellFounded, WFMin, Zenon
<1>2. \A i, j \in Nat : j < i => <<j, i>> \in OpToRel(<, Nat)
  BY DEF OpToRel
<1>3. \A i, j \in Nat : ~(j < i) => i <= j
  OBVIOUS
<1> QED
  BY <1>1, <1>2, <1>3

\* What was attested stays in its place until the node restarts.
LEMMA AttestationsGrow ==
  ASSUME NodesInv, [NodesNext]_nodeVars, vrestarts' = vrestarts
  PROVE  \/ verified_batches' = verified_batches
         \/ \E a : verified_batches' = Append(verified_batches, a)
<1>1. CASE ValidatorSteps \/ UNCHANGED nodeVars
  BY <1>1 DEF ValidatorSteps, verifierPrivate, nodeVars
<1>2. CASE N!VRestart
  <2>1. vrestarts' = vrestarts + 1 /\ vrestarts < MaxVRestarts
    BY <1>2 DEF N!VRestart
  <2> QED
    BY <2>1
<1> QED
  BY <1>1, <1>2 DEF NodesNext, VerifierSteps, N!VNext, N!PollStep, N!PollScan,
     N!PollEntry, N!handle_proof_broadcast, N!verifyBatch, N!VJobStep, N!ReadProof,
     N!ReadTrace, N!VerifyProof, N!VerifyErrs, N!Unpend, N!Accept

\* The answer of getAttestation for a batch id does not change until the node
\* restarts, although later verifications of the same id are recorded too.
THEOREM AttestationsAreStable == NodesSpec => AttestationStable
<1>1. ASSUME NodesInv, [NodesNext]_nodeVars, vrestarts' = vrestarts, NEW b \in BatchIds
      PROVE  N!getAttestation(b) \subseteq N!getAttestation(b)'
  <2> DEFINE V == N!Verified(b)
             n == Len(verified_batches) + 1
  <2>1. CASE verified_batches' = verified_batches
    BY <2>1 DEF N!getAttestation, N!Verified
  <2>2. CASE \E a : verified_batches' = Append(verified_batches, a)
    <3>1. verified_batches \in Seq(Attestations)
      BY <1>1 DEF NodesInv, VTypeInv
    <3>2. /\ DOMAIN verified_batches' = DOMAIN verified_batches \cup {n}
          /\ \A i \in DOMAIN verified_batches :
               i < n /\ i \in Nat /\ verified_batches'[i] = verified_batches[i]
          /\ n \in Nat
      BY <2>2, <3>1
    <3> HIDE DEF n
    <3>3. /\ V \subseteq DOMAIN verified_batches /\ V \subseteq V' /\ V' \subseteq V \cup {n}
      BY <3>2 DEF N!Verified
    <3>4. CASE V = {}
      BY <3>4 DEF N!getAttestation
    <3>5. CASE V # {}
      <4>1. \A i : (i \in V /\ \A j \in V : i <= j) <=> (i \in V' /\ \A j \in V' : i <= j)
        BY <3>2, <3>3, <3>5
      <4>2. (CHOOSE i \in V : \A j \in V : i <= j) = (CHOOSE i \in V' : \A j \in V' : i <= j)
        BY <4>1
      <4> DEFINE first == CHOOSE i \in V : \A j \in V : i <= j
      <4>3. first \in V
        <5>1. V \in SUBSET Nat
          BY <3>2, <3>3
        <5> QED
          BY <3>5, <5>1, LeastElement
      <4>4. verified_batches'[first] = verified_batches[first]
        BY <3>2, <3>3, <4>3
      <4>5. V' # {}
        BY <3>3, <3>5
      <4> QED
        BY <3>5, <4>2, <4>4, <4>5 DEF N!getAttestation
    <3> QED
      BY <3>4, <3>5
  <2> QED
    BY <1>1, <2>1, <2>2, AttestationsGrow
<1>2. NodesInv /\ [NodesNext]_nodeVars =>
        [vrestarts' = vrestarts =>
           \A b \in BatchIds : N!getAttestation(b) \subseteq N!getAttestation(b)']_nodeVars
  BY <1>1
<1> QED
  BY <1>2, NodesInvariance, PTL DEF NodesSpec, AttestationStable
=============================================================================
