------------------------------ MODULE Validator ------------------------------
(***************************************************************************)
(* The validator node (examples/validator): transactions queue up behind   *)
(* the RPC, check_and_seal_batch drains them into batches, and every batch *)
(* is executed, proved, saved as <batch>.proof and <batch>.trace, recorded *)
(* and broadcast.                                                          *)
(*                                                                         *)
(* check_and_seal_batch is run by the 100 ms ticker and by every           *)
(* connection that calls forceSeal.  The state lock is held while a batch  *)
(* is drained and again while its proof is recorded, and is free in        *)
(* between, so several batches can be in flight: jobs[t] is the batch task *)
(* t is working on.  tokio::fs::write truncates and then fills, so a       *)
(* reader of the proof directory can find a partial file.                  *)
(*                                                                         *)
(* Time is counted in ticker periods; the age of a pending transaction is  *)
(* now_ms() - arrival_ts, and negative after a step back of the wall clock *)
(* (SystemClock is not monotonic).  A payload is what the trace hash of a  *)
(* batch can tell apart in a transaction besides its id.                   *)
(***************************************************************************)
EXTENDS Integers, Sequences, FiniteSets, BatchPolicy

CONSTANTS Conns,         \* RPC connections that call forceSeal
          Payloads,      \* contents of a submitted transaction
          Unprovable,    \* payloads whose batch the guest rejects (BatchProof)
          PolicySet,     \* the values of --policy considered
          BatchSizes,    \* the values of --batch-size considered
          BatchTimeout,  \* --batch-timeout-ms
          MaxCount,      \* 200, max_count of the adaptive policy
          LatencyBudget, \* 100 ms, its latency budget
          BroadcastAddr, \* TRUE iff --broadcast-addr is given
          Faults,        \* TRUE iff proving, file and network calls may fail
          MaxTx, MaxBatches, MaxAge, MaxDue, MaxRestarts, MaxBackSteps  \* bounds

Ticker == "ticker"
Tasks == Conns \cup {Ticker}
BatchIds == 1..MaxBatches
Args == [policy : PolicySet, batch_size : BatchSizes]
Tx == [tx_id : 1..MaxTx, payload : Payloads]
PendingTx == [tx_id : 1..MaxTx, payload : Payloads, age : -MaxBackSteps..MaxAge]

ASSUME ValidatorAssumptions ==
  /\ Ticker \notin Conns
  /\ Unprovable \subseteq Payloads
  /\ PolicySet \subseteq Policies
  /\ BatchSizes \subseteq Nat /\ BatchTimeout \in Nat
  /\ MaxCount \in Nat /\ LatencyBudget \in Nat
  /\ BroadcastAddr \in BOOLEAN /\ Faults \in BOOLEAN
  /\ MaxTx \in Nat /\ MaxBatches \in Nat /\ MaxAge \in Nat
  /\ MaxDue \in Nat /\ MaxDue > 0 /\ MaxRestarts \in Nat /\ MaxBackSteps \in Nat

VARIABLES args,         \* the command line the process was started with
          pending_txs, tx_counter, batch_counter,
          proofs,       \* the ProofRecords, with the transactions they prove
          jobs,         \* the batch each task is processing
          due,          \* ticks of the interval not yet consumed (burst mode)
          reply,        \* last forceSeal answer of a connection
          proof_files, trace_files,  \* the proof directory
          net,          \* broadcasts on their way to the verifier
          failed,       \* auxiliary: transactions of batches that failed
          restarts, backsteps  \* restarts, and steps back of the wall clock

bounds == <<restarts, backsteps>>
vars == <<args, pending_txs, tx_counter, batch_counter, proofs, jobs, due, reply,
          proof_files, trace_files, net, failed, bounds>>

Absent  == [st |-> "absent", txs |-> <<>>]
Partial == [st |-> "partial", txs |-> <<>>]
Full(txs) == [st |-> "full", txs |-> txs]

Steps == {"idle", "prove", "open_proof", "fill_proof", "open_trace",
          "fill_trace", "record", "broadcast"}

Idle == [step |-> "idle", batch_id |-> 0, txs |-> <<>>]

\* Results of check_and_seal_batch: an Option of the batch's id.
Reply == [kind : {"none", "sealed", "no_transactions"}, batch_id : 0..MaxBatches]
NoReply == [kind |-> "none", batch_id |-> 0]
NoTransactions == [kind |-> "no_transactions", batch_id |-> 0]
SealedBatch(b) == [kind |-> "sealed", batch_id |-> b]

Ids(txs) == {txs[i].tx_id : i \in DOMAIN txs}

Least(a, b) == IF a < b THEN a ELSE b

\* A batch the guest can replay to a proof: not empty, nothing unprovable.
Provable(txs) ==
  /\ txs # <<>>
  /\ \A i \in DOMAIN txs : txs[i].payload \notin Unprovable

Init ==
  /\ args \in Args
  /\ pending_txs = <<>>
  /\ tx_counter = 0
  /\ batch_counter = 0
  /\ proofs = <<>>
  /\ jobs = [t \in Tasks |-> Idle]
  /\ due = 1
  /\ reply = [c \in Conns |-> NoReply]
  /\ proof_files = [b \in BatchIds |-> Absent]
  /\ trace_files = [b \in BatchIds |-> Absent]
  /\ net = {}
  /\ failed = {}
  /\ restarts = 0
  /\ backsteps = 0

-----------------------------------------------------------------------------
(* Submission and sealing.                                                 *)

\* Mutant: the id is taken before the counter is incremented.
IdBeforeIncrement(p) ==
  /\ tx_counter < MaxTx
  /\ tx_counter' = tx_counter + 1
  /\ pending_txs' = Append(pending_txs,
                           [tx_id |-> tx_counter, payload |-> p, age |-> 0])
  /\ UNCHANGED <<args, batch_counter, proofs, jobs, due, reply, proof_files,
                 trace_files, net, failed, bounds>>

\* Mutant: push_front for push_back.
PushFront(p) ==
  /\ tx_counter < MaxTx
  /\ tx_counter' = tx_counter + 1
  /\ pending_txs' = <<[tx_id |-> tx_counter + 1, payload |-> p, age |-> 0]>>
                      \o pending_txs
  /\ UNCHANGED <<args, batch_counter, proofs, jobs, due, reply, proof_files,
                 trace_files, net, failed, bounds>>

submit_transaction(p) ==
  /\ tx_counter < MaxTx
  /\ tx_counter' = tx_counter + 1
  /\ pending_txs' = Append(pending_txs,
                           [tx_id |-> tx_counter + 1, payload |-> p, age |-> 0])
  /\ UNCHANGED <<args, batch_counter, proofs, jobs, due, reply, proof_files,
                 trace_files, net, failed, bounds>>

\* A period of the ticker passes.  tokio's interval owes the ticks that fell
\* due while the loop was busy and delivers them one after the other.
Tick ==
  /\ due' = Least(due + 1, MaxDue)
  /\ pending_txs' = [i \in DOMAIN pending_txs |->
                       [pending_txs[i] EXCEPT !.age = Least(@ + 1, MaxAge)]]
  /\ UNCHANGED <<args, tx_counter, batch_counter, proofs, jobs, reply, proof_files,
                 trace_files, net, failed, bounds>>

\* The wall clock is set back by a period; the interval runs on.
ClockStepsBack ==
  /\ backsteps < MaxBackSteps
  /\ backsteps' = backsteps + 1
  /\ pending_txs' = [i \in DOMAIN pending_txs |->
                       [pending_txs[i] EXCEPT !.age = @ - 1]]
  /\ UNCHANGED <<args, tx_counter, batch_counter, proofs, jobs, due, reply,
                 proof_files, trace_files, net, failed, restarts>>

\* Mutant: the difference wraps.
WrappingWait(age) == IF age < 0 THEN MaxAge + BatchTimeout ELSE age

\* now_ms().saturating_sub(arrival_ts)
OldestWait(age) == IF age < 0 THEN 0 ELSE age

\* The two early returns of check_and_seal_batch, negated.
SealsNow ==
  /\ pending_txs # <<>>
  /\ should_seal(args.policy, Len(pending_txs), OldestWait(pending_txs[1].age), FALSE,
                 args.batch_size, BatchTimeout, MaxCount, LatencyBudget)

\* What connection t is told; the ticker discards the result.
Answer(t, r) == reply' = [c \in Conns |-> IF c = t THEN r ELSE reply[c]]

Drained == Least(Len(pending_txs), args.batch_size)

\* Mutant: the drain leaves its last transaction in the queue.
DrainOffByOne ==
  SubSeq(pending_txs, IF Drained = 0 THEN 1 ELSE Drained, Len(pending_txs))

Undrained == SubSeq(pending_txs, Drained + 1, Len(pending_txs))

\* Mutant: batches are numbered by the proofs there are.
NumberedByProofs == Len(proofs) + 1

NextBatchId == batch_counter + 1

\* check_and_seal_batch up to the release of the lock.
check_and_seal_batch(t) ==
  /\ jobs[t].step = "idle"
  /\ \/ /\ ~SealsNow
        /\ Answer(t, NoTransactions)
        /\ UNCHANGED <<pending_txs, batch_counter, jobs>>
     \/ /\ SealsNow
        /\ batch_counter < MaxBatches
        /\ batch_counter' = batch_counter + 1
        /\ pending_txs' = Undrained
        /\ jobs' = [jobs EXCEPT ![t] =
                      [step |-> "prove", batch_id |-> NextBatchId,
                       txs |-> [i \in 1..Drained |->
                                  [tx_id |-> pending_txs[i].tx_id,
                                   payload |-> pending_txs[i].payload]]]]
        /\ Answer(t, NoReply)
  /\ UNCHANGED <<args, tx_counter, proofs, proof_files, trace_files, net, failed,
                 bounds>>

TickerCheck ==
  /\ due > 0
  /\ due' = due - 1
  /\ check_and_seal_batch(Ticker)

forceSeal(c) ==
  /\ check_and_seal_batch(c)
  /\ UNCHANGED due

-----------------------------------------------------------------------------
(* process_batch, one step per await.                                      *)

Advance(t, from, to) ==
  /\ jobs[t].step = from
  /\ jobs' = [jobs EXCEPT ![t].step = to]

UnchangedQueue ==
  UNCHANGED <<args, pending_txs, tx_counter, batch_counter, due, bounds>>

\* Execution, then the proof on the blocking pool.
ProveOk(t) ==
  /\ Provable(jobs[t].txs)
  /\ Advance(t, "prove", "open_proof")
  /\ UnchangedQueue
  /\ UNCHANGED <<proofs, reply, proof_files, trace_files, net, failed>>

\* save_proof: the proof first, then the trace.
OpenProof(t) ==
  /\ Advance(t, "open_proof", "fill_proof")
  /\ proof_files' = [proof_files EXCEPT ![jobs[t].batch_id] = Partial]
  /\ UnchangedQueue
  /\ UNCHANGED <<proofs, reply, trace_files, net, failed>>

\* Mutant: the trace is never written.
FillProofOnly(t) ==
  /\ Advance(t, "fill_proof", "record")
  /\ proof_files' = [proof_files EXCEPT ![jobs[t].batch_id] = Full(jobs[t].txs)]
  /\ UnchangedQueue
  /\ UNCHANGED <<proofs, reply, trace_files, net, failed>>

FillProof(t) ==
  /\ Advance(t, "fill_proof", "open_trace")
  /\ proof_files' = [proof_files EXCEPT ![jobs[t].batch_id] = Full(jobs[t].txs)]
  /\ UnchangedQueue
  /\ UNCHANGED <<proofs, reply, trace_files, net, failed>>

OpenTrace(t) ==
  /\ Advance(t, "open_trace", "fill_trace")
  /\ trace_files' = [trace_files EXCEPT ![jobs[t].batch_id] = Partial]
  /\ UnchangedQueue
  /\ UNCHANGED <<proofs, reply, proof_files, net, failed>>

FillTrace(t) ==
  /\ Advance(t, "fill_trace", "record")
  /\ trace_files' = [trace_files EXCEPT ![jobs[t].batch_id] = Full(jobs[t].txs)]
  /\ UnchangedQueue
  /\ UNCHANGED <<proofs, reply, proof_files, net, failed>>

\* state.proofs.push; without a broadcast address the task is done.
Record(t) ==
  /\ jobs[t].step = "record"
  /\ proofs' = Append(proofs, [batch_id |-> jobs[t].batch_id, txs |-> jobs[t].txs])
  /\ IF BroadcastAddr
     THEN /\ jobs' = [jobs EXCEPT ![t] = [step |-> "broadcast",
                                           batch_id |-> jobs[t].batch_id, txs |-> <<>>]]
          /\ UNCHANGED reply
     ELSE /\ jobs' = [jobs EXCEPT ![t] = Idle]
          /\ Answer(t, SealedBatch(jobs[t].batch_id))
  /\ UnchangedQueue
  /\ UNCHANGED <<proof_files, trace_files, net, failed>>

Message(b) == [batch_id |-> b, epoch |-> restarts]

\* broadcast_proof: a failed connect or write is logged and forgotten.
Broadcast(t) ==
  /\ jobs[t].step = "broadcast"
  /\ \/ net' = net \cup {Message(jobs[t].batch_id)}
     \/ Faults /\ UNCHANGED net
  /\ jobs' = [jobs EXCEPT ![t] = Idle]
  /\ Answer(t, SealedBatch(jobs[t].batch_id))
  /\ UnchangedQueue
  /\ UNCHANGED <<proofs, proof_files, trace_files, failed>>

\* Mutant: the transactions of a failed batch are queued again, at the end.
FailedRequeued(t) ==
  /\ \/ jobs[t].step = "prove" /\ (Faults \/ ~Provable(jobs[t].txs))
     \/ Faults /\ jobs[t].step \in {"open_proof", "fill_proof", "open_trace", "fill_trace"}
  /\ pending_txs' = pending_txs \o
       [i \in DOMAIN jobs[t].txs |-> [tx_id |-> jobs[t].txs[i].tx_id,
                                       payload |-> jobs[t].txs[i].payload, age |-> 0]]
  /\ jobs' = [jobs EXCEPT ![t] = Idle]
  /\ Answer(t, NoTransactions)
  /\ UNCHANGED <<args, tx_counter, batch_counter, due, bounds, proofs, proof_files,
                 trace_files, net, failed>>

\* Mutant: the caller is given the id of a batch that failed.
FailedAnsweredSealed(t) ==
  /\ \/ jobs[t].step = "prove" /\ (Faults \/ ~Provable(jobs[t].txs))
     \/ Faults /\ jobs[t].step \in {"open_proof", "fill_proof", "open_trace", "fill_trace"}
  /\ failed' = failed \cup Ids(jobs[t].txs)
  /\ jobs' = [jobs EXCEPT ![t] = Idle]
  /\ Answer(t, SealedBatch(jobs[t].batch_id))
  /\ UnchangedQueue
  /\ UNCHANGED <<proofs, proof_files, trace_files, net>>

\* process_batch returns Err: the guest rejected the batch, or a call failed.
\* The drained transactions are not put back.
JobFails(t) ==
  /\ \/ jobs[t].step = "prove" /\ (Faults \/ ~Provable(jobs[t].txs))
     \/ Faults /\ jobs[t].step \in {"open_proof", "fill_proof", "open_trace", "fill_trace"}
  /\ failed' = failed \cup Ids(jobs[t].txs)
  /\ jobs' = [jobs EXCEPT ![t] = Idle]
  /\ Answer(t, NoTransactions)
  /\ UnchangedQueue
  /\ UNCHANGED <<proofs, proof_files, trace_files, net>>

JobStep(t) ==
  \/ ProveOk(t) \/ OpenProof(t) \/ FillProof(t) \/ OpenTrace(t) \/ FillTrace(t)
  \/ Record(t) \/ Broadcast(t) \/ JobFails(t)

\* The process dies at any moment and is started again: nothing but the
\* proof directory survives, and `just validator' empties that too.
Restart ==
  /\ restarts < MaxRestarts
  /\ restarts' = restarts + 1
  /\ args' \in Args
  /\ pending_txs' = <<>>
  /\ tx_counter' = 0
  /\ batch_counter' = 0
  /\ proofs' = <<>>
  /\ jobs' = [t \in Tasks |-> Idle]
  /\ due' = 1
  /\ reply' = [c \in Conns |-> NoReply]
  /\ failed' = {}
  /\ \/ UNCHANGED <<proof_files, trace_files>>
     \/ /\ proof_files' = [b \in BatchIds |-> Absent]
        /\ trace_files' = [b \in BatchIds |-> Absent]
  /\ UNCHANGED <<net, backsteps>>

Next ==
  \/ \E p \in Payloads : submit_transaction(p)
  \/ Tick
  \/ ClockStepsBack
  \/ TickerCheck
  \/ \E c \in Conns : forceSeal(c)
  \/ \E t \in Tasks : JobStep(t)
  \/ Restart

Spec == Init /\ [][Next]_vars

\* The runtime polls every ready task: time passes, a due tick is consumed,
\* and a batch in flight makes progress (SP1 and the file system return).
FairSpec ==
  /\ Spec
  /\ WF_vars(Tick)
  /\ WF_vars(TickerCheck)
  /\ \A t \in Tasks : WF_vars(JobStep(t))

-----------------------------------------------------------------------------
(* Properties.                                                             *)

File == [st : {"absent", "partial", "full"}, txs : Seq(Tx)]

TypeOK ==
  /\ args \in Args
  /\ pending_txs \in Seq(PendingTx)
  /\ tx_counter \in 0..MaxTx
  /\ batch_counter \in 0..MaxBatches
  /\ proofs \in Seq([batch_id : BatchIds, txs : Seq(Tx)])
  /\ jobs \in [Tasks -> [step : Steps, batch_id : 0..MaxBatches, txs : Seq(Tx)]]
  /\ due \in 0..MaxDue
  /\ reply \in [Conns -> Reply]
  /\ proof_files \in [BatchIds -> File]
  /\ trace_files \in [BatchIds -> File]
  /\ net \subseteq [batch_id : BatchIds, epoch : 0..MaxRestarts]
  /\ failed \subseteq 1..MaxTx
  /\ restarts \in 0..MaxRestarts
  /\ backsteps \in 0..MaxBackSteps

InFlight == {t \in Tasks : jobs[t].step # "idle"}

\* However the ticker and the forceSeal handlers interleave, a transaction
\* the RPC acknowledged is in exactly one place: the queue, one task's
\* batch, one recorded proof, or a batch that failed.
TxInOnePlace ==
  \A n \in 1..tx_counter :
    LET queued   == n \in Ids(pending_txs)
        inFlight == {t \in Tasks : n \in Ids(jobs[t].txs)}
        proved   == {i \in DOMAIN proofs : n \in Ids(proofs[i].txs)}
        lost     == n \in failed
    IN  \/ queued  /\ inFlight = {} /\ proved = {} /\ ~lost
        \/ ~queued /\ Cardinality(inFlight) = 1 /\ proved = {} /\ ~lost
        \/ ~queued /\ inFlight = {} /\ Cardinality(proved) = 1 /\ ~lost
        \/ ~queued /\ inFlight = {} /\ proved = {} /\ lost

\* Batches take transactions in submission order: the queue is a contiguous
\* run up to the last id handed out, and of two batches the one with the
\* larger id holds the later transactions, whichever task sealed it.
SealedInOrder ==
  LET Batches == {<<jobs[t].batch_id, Ids(jobs[t].txs)>> : t \in InFlight}
                 \cup {<<proofs[i].batch_id, Ids(proofs[i].txs)>> : i \in DOMAIN proofs}
  IN  /\ \A i \in DOMAIN pending_txs :
            pending_txs[i].tx_id = tx_counter - Len(pending_txs) + i
      /\ \A x, y \in Batches : x[1] < y[1] =>
            \A m \in x[2], n \in y[2] : m < n

\* Nothing is recorded as proved before both its files are complete, and no
\* other task, now or after a restart with its counters back at zero,
\* overwrites the files of a batch the node still reports.  The batches
\* without transactions that --batch-size 0 keeps sealing are never recorded.
RecordedIsOnDisk ==
  \A i \in DOMAIN proofs :
     /\ proofs[i].txs # <<>>
     /\ proof_files[proofs[i].batch_id] = Full(proofs[i].txs)
     /\ trace_files[proofs[i].batch_id] = Full(proofs[i].txs)

\* With a policy that has a time bound no transaction stays queued for ever,
\* although the ticker is blocked for as long as each of its batches takes.
PendingEventuallySealed ==
  \A n \in 1..MaxTx : n \in Ids(pending_txs) ~> n \notin Ids(pending_txs)

\* The queue length at which the policy seals, whatever the time.
FullAt ==
  IF args.policy = "Adaptive" THEN Least(args.batch_size, MaxCount) ELSE args.batch_size

ShortestWait == Least(BatchTimeout, LatencyBudget)

\* A step back of the wall clock delays a seal of the ticker and never causes
\* one: a batch that it seals and that is not full has its oldest transaction
\* in the queue for at least the shortest time bound (a bound of 0 is no wait).
NoEarlySeal ==
  [][ ( /\ jobs[Ticker].step = "idle" /\ jobs'[Ticker].step = "prove"
        /\ Len(pending_txs) < FullAt )
      => ShortestWait = 0 \/ pending_txs[1].age >= ShortestWait ]_vars

Ledger == INSTANCE TxLedger WITH
  submitted <- tx_counter,
  queued    <- [i \in DOMAIN pending_txs |-> pending_txs[i].tx_id],
  inflight  <- {Ids(jobs[t].txs) : t \in Tasks} \ {{}},
  proved    <- {Ids(proofs[i].txs) : i \in DOMAIN proofs}

\* Seen from the transactions, the validator is a ledger: ids in order into
\* a queue, batches off its front, and every batch settled once and as a
\* whole, as proved or as failed, whatever tasks interleave; a restart is
\* the only way back.
ImplementsLedger == Ledger!LedgerSpec
=============================================================================
