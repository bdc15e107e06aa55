-------------------------- MODULE ValidatorProofs --------------------------
(***************************************************************************)
(* Proofs about the validator node, for any number of tasks sealing and    *)
(* proving at the same time, any policy, batch size and bounds, with every *)
(* call failing or not and restarts at any moment.                         *)
(***************************************************************************)
EXTENDS Validator, FiniteSetTheorems, SequenceTheorems, TLAPS

-----------------------------------------------------------------------------
(* Types.  The age of a transaction is bounded below by the number of      *)
(* steps back of the wall clock, and a batch in flight has a number.       *)

AgesBounded == \A i \in DOMAIN pending_txs : pending_txs[i].age >= -backsteps

JobsNumbered == \A t \in Tasks : jobs[t].step # "idle" => jobs[t].batch_id # 0

TypeInv == TypeOK /\ AgesBounded /\ JobsNumbered

\* A function on 1..n is a sequence.
LEMMA FunctionIsSeq ==
  ASSUME NEW S, NEW n \in Nat, NEW f \in [1..n -> S]
  PROVE  f \in Seq(S) /\ Len(f) = n
OBVIOUS

\* What a task that seals drains is a prefix of the queue.
LEMMA DrainedType ==
  TypeOK => /\ Drained \in 0..Len(pending_txs)
            /\ DOMAIN pending_txs = 1..Len(pending_txs)
            /\ Len(pending_txs) \in Nat
            /\ Len(pending_txs) - Drained \in Nat
<1> SUFFICES ASSUME TypeOK
             PROVE  /\ Drained \in 0..Len(pending_txs)
                    /\ DOMAIN pending_txs = 1..Len(pending_txs)
                    /\ Len(pending_txs) \in Nat
                    /\ Len(pending_txs) - Drained \in Nat
  OBVIOUS
<1>1. args.batch_size \in Nat
  BY ValidatorAssumptions DEF TypeOK, Args
<1>2. pending_txs \in Seq(PendingTx)
  BY DEF TypeOK
<1>3. DOMAIN pending_txs = 1..Len(pending_txs) /\ Len(pending_txs) \in Nat
  BY <1>2
<1> QED
  BY <1>1, <1>3 DEF Drained, Least

\* The transactions of a new batch, and what is left of the queue.
LEMMA DrainTypes ==
  ASSUME TypeOK
  PROVE  /\ [i \in 1..Drained |-> [tx_id |-> pending_txs[i].tx_id,
                                   payload |-> pending_txs[i].payload]] \in Seq(Tx)
         /\ Undrained \in Seq(PendingTx)
         /\ Len(Undrained) = Len(pending_txs) - Drained
         /\ \A i \in 1..Len(pending_txs) - Drained : Undrained[i] = pending_txs[Drained + i]
<1>1. /\ Drained \in 0..Len(pending_txs)
      /\ DOMAIN pending_txs = 1..Len(pending_txs)
      /\ Len(pending_txs) \in Nat
      /\ pending_txs \in Seq(PendingTx)
  BY DrainedType DEF TypeOK
<1>2. \A i \in 1..Len(pending_txs) : pending_txs[i] \in PendingTx
  BY <1>1
<1> DEFINE n == Drained
           len == Len(pending_txs)
           taken == [i \in 1..n |-> [tx_id |-> pending_txs[i].tx_id,
                                     payload |-> pending_txs[i].payload]]
<1>3. n \in 0..len /\ len \in Nat
  BY <1>1
<1>4. taken \in Seq(Tx)
  <2>1. \A i \in 1..n : [tx_id |-> pending_txs[i].tx_id,
                         payload |-> pending_txs[i].payload] \in Tx
    <3> HIDE DEF n, len
    <3> QED
      BY <1>1, <1>2, <1>3 DEF PendingTx, Tx, len
  <2> HIDE DEF n
  <2>2. taken \in [1..n -> Tx] /\ n \in Nat
    BY <1>3, <2>1
  <2> HIDE DEF taken
  <2> QED
    BY <2>2, FunctionIsSeq
<1>5. /\ Undrained \in Seq(PendingTx)
      /\ Len(Undrained) = len - n
      /\ \A i \in 1..len - n : Undrained[i] = pending_txs[n + i]
  <2>1. Undrained = SubSeq(pending_txs, n + 1, len)
    BY DEF Undrained
  <2> HIDE DEF n
  <2>2. \A i \in n + 1 .. len : pending_txs[i] \in PendingTx
    BY <1>2, <1>3
  <2>3. /\ SubSeq(pending_txs, n + 1, len) \in Seq(PendingTx)
        /\ Len(SubSeq(pending_txs, n + 1, len))
             = IF n + 1 <= len THEN len - (n + 1) + 1 ELSE 0
        /\ \A i \in 1 .. len - (n + 1) + 1 :
             SubSeq(pending_txs, n + 1, len)[i] = pending_txs[n + 1 + i - 1]
    BY <1>3, <2>2, SubSeqProperties
  <2> HIDE DEF len
  <2> QED
    BY <1>3, <2>1, <2>3
<1> QED
  BY <1>4, <1>5

\* A batch holds ids that were handed out.
LEMMA IdsType ==
  ASSUME NEW txs \in Seq(Tx) PROVE Ids(txs) \subseteq 1..MaxTx
<1>1. \A i \in DOMAIN txs : txs[i] \in Tx
  OBVIOUS
<1> QED
  BY <1>1 DEF Ids, Tx

\* The two ways an age changes stay in range.
LEMMA AgeRange ==
  ASSUME NEW age \in -MaxBackSteps..MaxAge, NEW back \in 0..MaxBackSteps, age >= -back
  PROVE  /\ Least(age + 1, MaxAge) \in -MaxBackSteps..MaxAge
         /\ Least(age + 1, MaxAge) >= -back
         /\ back < MaxBackSteps => /\ age - 1 \in -MaxBackSteps..MaxAge
                                   /\ age - 1 >= -(back + 1)
<1>1. MaxBackSteps \in Nat /\ MaxAge \in Nat
  BY ValidatorAssumptions
<1> QED
  BY <1>1 DEF Least

\* Setting the age of a pending transaction.
LEMMA AgeSet ==
  ASSUME NEW p \in PendingTx, NEW x \in -MaxBackSteps..MaxAge
  PROVE  [p EXCEPT !.age = x] \in PendingTx /\ [p EXCEPT !.age = x].age = x
BY DEF PendingTx

\* What a connection can be told.
LEMMA RepliesType ==
  NoReply \in Reply /\ NoTransactions \in Reply
  /\ \A b \in 0..MaxBatches : SealedBatch(b) \in Reply
BY ValidatorAssumptions DEF Reply, NoReply, NoTransactions, SealedBatch

\* No step leaves the types, a step back of the clock included.
LEMMA TypeInductive == TypeInv /\ [Next]_vars => TypeInv'
<1> SUFFICES ASSUME TypeInv, [Next]_vars PROVE TypeInv'
  OBVIOUS
<1> USE ValidatorAssumptions
<1>a. TypeOK /\ AgesBounded /\ JobsNumbered
  BY DEF TypeInv
<1>b. /\ pending_txs \in Seq(PendingTx)
      /\ DOMAIN pending_txs = 1..Len(pending_txs) /\ Len(pending_txs) \in Nat
      /\ \A i \in 1..Len(pending_txs) :
           pending_txs[i] \in PendingTx /\ pending_txs[i].age >= -backsteps
  BY <1>a, DrainedType DEF TypeOK, AgesBounded
<1>c. /\ Idle \in [step : Steps, batch_id : 0..MaxBatches, txs : Seq(Tx)]
      /\ Absent \in File /\ Partial \in File
      /\ \A txs \in Seq(Tx) : Full(txs) \in File
  BY DEF Idle, Steps, Absent, Partial, Full, File
<1>e. NoReply \in Reply /\ NoTransactions \in Reply
      /\ \A b \in 0..MaxBatches : SealedBatch(b) \in Reply
  BY RepliesType
<1>d. ASSUME NEW t, NEW r \in Reply, Answer(t, r)
      PROVE  reply' \in [Conns -> Reply]
  BY <1>a, <1>d DEF TypeOK, Answer
<1>1. ASSUME NEW p \in Payloads, submit_transaction(p) PROVE TypeInv'
  <2> DEFINE tx == [tx_id |-> tx_counter + 1, payload |-> p, age |-> 0]
  <2>1. tx_counter \in 0..MaxTx /\ tx_counter < MaxTx /\ tx_counter' = tx_counter + 1
        /\ pending_txs' = Append(pending_txs, tx)
        /\ backsteps' = backsteps /\ backsteps \in 0..MaxBackSteps
    BY <1>1, <1>a DEF submit_transaction, TypeOK, bounds
  <2>2. tx \in PendingTx
    BY <2>1 DEF PendingTx
  <2>3. tx.age >= -backsteps
    BY <2>1
  <2> HIDE DEF tx
  <2>4. pending_txs' \in Seq(PendingTx) /\ AgesBounded'
    BY <1>b, <2>1, <2>2, <2>3 DEF AgesBounded
  <2>5. tx_counter' \in 0..MaxTx
    BY <2>1
  <2> QED
    BY <1>1, <1>a, <2>4, <2>5 DEF submit_transaction, TypeInv, TypeOK, JobsNumbered, bounds
<1>2. CASE Tick
  <2> DEFINE aged == [i \in 1..Len(pending_txs) |->
                        [pending_txs[i] EXCEPT !.age = Least(@ + 1, MaxAge)]]
  <2>1. pending_txs' = aged /\ backsteps' = backsteps /\ backsteps \in 0..MaxBackSteps
    BY <1>2, <1>a, <1>b DEF Tick, TypeOK, bounds
  <2>2. \A i \in 1..Len(pending_txs) : aged[i] \in PendingTx /\ aged[i].age >= -backsteps
    <3> SUFFICES ASSUME NEW i \in 1..Len(pending_txs)
                 PROVE  aged[i] \in PendingTx /\ aged[i].age >= -backsteps
      OBVIOUS
    <3>1. pending_txs[i] \in PendingTx /\ pending_txs[i].age \in -MaxBackSteps..MaxAge
          /\ pending_txs[i].age >= -backsteps
      BY <1>b DEF PendingTx
    <3> DEFINE x == Least(pending_txs[i].age + 1, MaxAge)
    <3>2. x \in -MaxBackSteps..MaxAge /\ x >= -backsteps
      BY <2>1, <3>1, AgeRange
    <3>3. aged[i] = [pending_txs[i] EXCEPT !.age = x]
      OBVIOUS
    <3> HIDE DEF x, aged
    <3> QED
      BY <3>1, <3>2, <3>3, AgeSet
  <2>3. aged \in [1..Len(pending_txs) -> PendingTx]
    BY <2>2
  <2> HIDE DEF aged
  <2>4. pending_txs' \in Seq(PendingTx) /\ DOMAIN pending_txs' = 1..Len(pending_txs)
    BY <1>b, <2>1, <2>3, FunctionIsSeq
  <2>5. AgesBounded'
    BY <2>1, <2>2, <2>4 DEF AgesBounded
  <2>6. due' \in 0..MaxDue
    <3>1. due \in 0..MaxDue
      BY <1>a DEF TypeOK
    <3>2. due' = Least(due + 1, MaxDue)
      BY <1>2 DEF Tick
    <3> QED
      BY <3>1, <3>2 DEF Least
  <2> QED
    BY <1>2, <1>a, <2>4, <2>5, <2>6 DEF Tick, TypeInv, TypeOK, JobsNumbered, bounds
<1>3. CASE ClockStepsBack
  <2> DEFINE aged == [i \in 1..Len(pending_txs) |->
                        [pending_txs[i] EXCEPT !.age = @ - 1]]
  <2>1. /\ pending_txs' = aged /\ backsteps' = backsteps + 1
        /\ backsteps \in 0..MaxBackSteps /\ backsteps < MaxBackSteps
    BY <1>3, <1>a, <1>b DEF ClockStepsBack, TypeOK
  <2>2. \A i \in 1..Len(pending_txs) : aged[i] \in PendingTx /\ aged[i].age >= -(backsteps + 1)
    <3> SUFFICES ASSUME NEW i \in 1..Len(pending_txs)
                 PROVE  aged[i] \in PendingTx /\ aged[i].age >= -(backsteps + 1)
      OBVIOUS
    <3>1. pending_txs[i] \in PendingTx /\ pending_txs[i].age \in -MaxBackSteps..MaxAge
          /\ pending_txs[i].age >= -backsteps
      BY <1>b DEF PendingTx
    <3> DEFINE x == pending_txs[i].age - 1
    <3>2. x \in -MaxBackSteps..MaxAge /\ x >= -(backsteps + 1)
      BY <2>1, <3>1, AgeRange
    <3>3. aged[i] = [pending_txs[i] EXCEPT !.age = x]
      OBVIOUS
    <3> HIDE DEF x, aged
    <3> QED
      BY <3>1, <3>2, <3>3, AgeSet
  <2>3. aged \in [1..Len(pending_txs) -> PendingTx]
    BY <2>2
  <2> HIDE DEF aged
  <2>4. pending_txs' \in Seq(PendingTx) /\ DOMAIN pending_txs' = 1..Len(pending_txs)
    BY <1>b, <2>1, <2>3, FunctionIsSeq
  <2>5. AgesBounded'
    BY <2>1, <2>2, <2>4 DEF AgesBounded
  <2>6. backsteps' \in 0..MaxBackSteps
    BY <2>1
  <2> QED
    BY <1>3, <1>a, <2>4, <2>5, <2>6 DEF ClockStepsBack, TypeInv, TypeOK, JobsNumbered
<1>4. ASSUME NEW t \in Tasks, check_and_seal_batch(t), due' \in 0..MaxDue
      PROVE  TypeInv'
  <2>1. CASE ~SealsNow /\ Answer(t, NoTransactions)
             /\ UNCHANGED <<pending_txs, batch_counter, jobs>>
    <3>1. reply' \in [Conns -> Reply]
      BY <1>d, <1>e, <2>1
    <3> QED
      BY <1>4, <1>a, <2>1, <3>1 DEF check_and_seal_batch, TypeInv, TypeOK, AgesBounded,
                                         JobsNumbered, bounds
  <2>2. CASE SealsNow /\ batch_counter < MaxBatches
    <3> DEFINE taken == [i \in 1..Drained |-> [tx_id |-> pending_txs[i].tx_id,
                                                payload |-> pending_txs[i].payload]]
    <3>1. /\ batch_counter' = batch_counter + 1 /\ pending_txs' = Undrained
          /\ jobs' = [jobs EXCEPT ![t] = [step |-> "prove", batch_id |-> batch_counter + 1,
                                          txs |-> taken]]
          /\ Answer(t, NoReply)
          /\ UNCHANGED <<args, tx_counter, proofs, proof_files, trace_files, net, failed,
                         bounds>>
      BY <1>4, <2>2 DEF check_and_seal_batch, NextBatchId
    <3>2. taken \in Seq(Tx)
      BY <1>a, DrainTypes
    <3> HIDE DEF taken
    <3>3. pending_txs' \in Seq(PendingTx) /\ AgesBounded'
      <4>1. /\ Undrained \in Seq(PendingTx)
            /\ Len(Undrained) = Len(pending_txs) - Drained
            /\ \A i \in 1..Len(pending_txs) - Drained :
                 Undrained[i] = pending_txs[Drained + i]
            /\ Drained \in 0..Len(pending_txs)
        BY <1>a, DrainTypes, DrainedType
      <4>2. DOMAIN Undrained = 1..Len(pending_txs) - Drained
        BY <4>1
      <4>3. \A i \in 1..Len(pending_txs) - Drained : Undrained[i].age >= -backsteps
        BY <1>b, <4>1
      <4> QED
        BY <3>1, <4>1, <4>2, <4>3 DEF AgesBounded, bounds
    <3>4. batch_counter' \in 0..MaxBatches
      BY <1>a, <2>2, <3>1 DEF TypeOK
    <3>5. jobs' \in [Tasks -> [step : Steps, batch_id : 0..MaxBatches, txs : Seq(Tx)]]
      BY <1>a, <3>1, <3>2, <3>4 DEF TypeOK, Steps
    <3>6. reply' \in [Conns -> Reply]
      BY <1>d, <1>e, <3>1
    <3>7. JobsNumbered'
      BY <1>a, <3>1 DEF TypeOK, JobsNumbered
    <3> QED
      BY <1>4, <1>a, <3>1, <3>3, <3>4, <3>5, <3>6, <3>7 DEF TypeInv, TypeOK, bounds
  <2> QED
    BY <1>4, <2>1, <2>2 DEF check_and_seal_batch
<1>5. CASE TickerCheck
  <2>1. due' \in 0..MaxDue
    BY <1>5, <1>a DEF TickerCheck, TypeOK
  <2> QED
    BY <1>4, <1>5, <2>1 DEF TickerCheck, Tasks
<1>6. ASSUME NEW c \in Conns, forceSeal(c) PROVE TypeInv'
  <2>1. due' \in 0..MaxDue
    BY <1>6, <1>a DEF forceSeal, TypeOK
  <2> QED
    BY <1>4, <1>6, <2>1 DEF forceSeal, Tasks
<1>7. ASSUME NEW t \in Tasks, JobStep(t) PROVE TypeInv'
  <2> DEFINE Job == [step : Steps, batch_id : 0..MaxBatches, txs : Seq(Tx)]
  <2>1. jobs \in [Tasks -> Job] /\ jobs[t].txs \in Seq(Tx) /\ jobs[t] \in Job
    BY <1>a DEF TypeOK
  <2>2. jobs[t].step # "idle" => jobs[t].batch_id \in BatchIds
    BY <1>a, <2>1 DEF BatchIds, JobsNumbered
  <2>3. ASSUME NEW from, NEW to \in Steps, from # "idle", Advance(t, from, to)
        PROVE  jobs' \in [Tasks -> Job] /\ JobsNumbered'
    BY <1>a, <2>1, <2>3 DEF Advance, JobsNumbered
  <2>4. ASSUME jobs' = [jobs EXCEPT ![t] = Idle]
        PROVE  jobs' \in [Tasks -> Job] /\ JobsNumbered'
    BY <1>a, <1>c, <2>1, <2>4 DEF Idle, JobsNumbered
  <2>5. ASSUME UnchangedQueue, jobs' \in [Tasks -> Job], JobsNumbered',
               proofs' \in Seq([batch_id : BatchIds, txs : Seq(Tx)]),
               reply' \in [Conns -> Reply],
               proof_files' \in [BatchIds -> File], trace_files' \in [BatchIds -> File],
               net' \subseteq [batch_id : BatchIds, epoch : 0..MaxRestarts],
               failed' \subseteq 1..MaxTx
        PROVE  TypeInv'
    BY <1>a, <2>5 DEF UnchangedQueue, TypeInv, TypeOK, AgesBounded, bounds
  <2> HIDE DEF Job
  <2>6. CASE ProveOk(t)
    <3>1. jobs' \in [Tasks -> Job] /\ JobsNumbered'
      BY <2>3, <2>6 DEF ProveOk, Steps
    <3> QED
      BY <1>a, <2>5, <2>6, <3>1 DEF ProveOk, TypeOK
  <2>7. CASE OpenProof(t)
    <3>1. jobs' \in [Tasks -> Job] /\ JobsNumbered'
      BY <2>3, <2>7 DEF OpenProof, Steps
    <3>2. proof_files' \in [BatchIds -> File]
      BY <1>a, <1>c, <2>7 DEF OpenProof, TypeOK
    <3> QED
      BY <1>a, <2>5, <2>7, <3>1, <3>2 DEF OpenProof, TypeOK
  <2>8. CASE FillProof(t)
    <3>1. jobs' \in [Tasks -> Job] /\ JobsNumbered'
      BY <2>3, <2>8 DEF FillProof, Steps
    <3>2. proof_files' \in [BatchIds -> File]
      BY <1>a, <1>c, <2>1, <2>8 DEF FillProof, TypeOK
    <3> QED
      BY <1>a, <2>5, <2>8, <3>1, <3>2 DEF FillProof, TypeOK
  <2>9. CASE OpenTrace(t)
    <3>1. jobs' \in [Tasks -> Job] /\ JobsNumbered'
      BY <2>3, <2>9 DEF OpenTrace, Steps
    <3>2. trace_files' \in [BatchIds -> File]
      BY <1>a, <1>c, <2>9 DEF OpenTrace, TypeOK
    <3> QED
      BY <1>a, <2>5, <2>9, <3>1, <3>2 DEF OpenTrace, TypeOK
  <2>10. CASE FillTrace(t)
    <3>1. jobs' \in [Tasks -> Job] /\ JobsNumbered'
      BY <2>3, <2>10 DEF FillTrace, Steps
    <3>2. trace_files' \in [BatchIds -> File]
      BY <1>a, <1>c, <2>1, <2>10 DEF FillTrace, TypeOK
    <3> QED
      BY <1>a, <2>5, <2>10, <3>1, <3>2 DEF FillTrace, TypeOK
  <2>11. CASE Record(t)
    <3>1. /\ jobs[t].step = "record" /\ UnchangedQueue
          /\ proofs' = Append(proofs, [batch_id |-> jobs[t].batch_id, txs |-> jobs[t].txs])
          /\ UNCHANGED <<proof_files, trace_files, net, failed>>
      BY <2>11 DEF Record
    <3>2. proofs' \in Seq([batch_id : BatchIds, txs : Seq(Tx)])
      <4>1. [batch_id |-> jobs[t].batch_id, txs |-> jobs[t].txs]
              \in [batch_id : BatchIds, txs : Seq(Tx)]
        BY <2>1, <2>2, <3>1
      <4> QED
        BY <1>a, <3>1, <4>1 DEF TypeOK
    <3>3. jobs' \in [Tasks -> Job] /\ JobsNumbered'
          /\ reply' \in [Conns -> Reply]
      <4>1. CASE BroadcastAddr
        <5>1. /\ jobs' = [jobs EXCEPT ![t] = [step |-> "broadcast",
                                             batch_id |-> jobs[t].batch_id, txs |-> <<>>]]
              /\ reply' = reply
          BY <2>11, <4>1 DEF Record
        <5>2. jobs' \in [Tasks -> Job]
          <6>1. [step |-> "broadcast", batch_id |-> jobs[t].batch_id, txs |-> <<>>] \in Job
            BY <2>1 DEF Job, Steps
          <6> QED
            BY <2>1, <5>1, <6>1
        <5>3. JobsNumbered'
          BY <1>a, <2>1, <3>1, <5>1 DEF Job, JobsNumbered
        <5> QED
          BY <1>a, <5>1, <5>2, <5>3 DEF TypeOK
      <4>2. CASE ~BroadcastAddr
        BY <1>d, <1>e, <2>1, <2>4, <2>11, <4>2 DEF Record, Job
      <4> QED
        BY <4>1, <4>2
    <3> QED
      BY <1>a, <2>5, <3>1, <3>2, <3>3 DEF TypeOK
  <2>12. CASE Broadcast(t)
    <3>1. jobs' \in [Tasks -> Job] /\ JobsNumbered'
      BY <2>4, <2>12 DEF Broadcast
    <3>2. reply' \in [Conns -> Reply]
      BY <1>d, <1>e, <2>1, <2>12 DEF Broadcast, Job
    <3>3. Message(jobs[t].batch_id) \in [batch_id : BatchIds, epoch : 0..MaxRestarts]
      BY <1>a, <2>2, <2>12 DEF Broadcast, Message, TypeOK
    <3>4. net' \subseteq [batch_id : BatchIds, epoch : 0..MaxRestarts]
      BY <1>a, <2>12, <3>3 DEF Broadcast, TypeOK
    <3> QED
      BY <1>a, <2>5, <2>12, <3>1, <3>2, <3>4 DEF Broadcast, TypeOK
  <2>13. CASE JobFails(t)
    <3>1. jobs' \in [Tasks -> Job] /\ JobsNumbered'
      BY <2>4, <2>13 DEF JobFails
    <3>2. reply' \in [Conns -> Reply]
      BY <1>d, <1>e, <2>13 DEF JobFails
    <3>3. Ids(jobs[t].txs) \subseteq 1..MaxTx
      BY <2>1, IdsType
    <3>4. failed' \subseteq 1..MaxTx
      BY <1>a, <2>13, <3>3 DEF JobFails, TypeOK
    <3> QED
      BY <1>a, <2>5, <2>13, <3>1, <3>2, <3>4 DEF JobFails, TypeOK
  <2> QED
    BY <1>7, <2>6, <2>7, <2>8, <2>9, <2>10, <2>11, <2>12, <2>13 DEF JobStep
<1>8. CASE Restart
  <2>1. /\ pending_txs' = <<>> /\ tx_counter' = 0 /\ batch_counter' = 0
        /\ proofs' = <<>> /\ due' = 1 /\ failed' = {} /\ args' \in Args
        /\ jobs' = [t \in Tasks |-> Idle] /\ reply' = [c \in Conns |-> NoReply]
        /\ restarts' = restarts + 1 /\ restarts < MaxRestarts
        /\ UNCHANGED <<net, backsteps>>
    BY <1>8 DEF Restart
  <2>2. proof_files' \in [BatchIds -> File] /\ trace_files' \in [BatchIds -> File]
    BY <1>8, <1>a, <1>c DEF Restart, TypeOK
  <2>3. jobs' \in [Tasks -> [step : Steps, batch_id : 0..MaxBatches, txs : Seq(Tx)]]
        /\ JobsNumbered'
    BY <1>c, <2>1 DEF JobsNumbered, Idle
  <2>4. restarts' \in 0..MaxRestarts /\ due' \in 0..MaxDue
    BY <1>a, <2>1 DEF TypeOK
  <2>5. AgesBounded'
    BY <2>1 DEF AgesBounded
  <2> QED
    BY <1>a, <1>e, <2>1, <2>2, <2>3, <2>4, <2>5 DEF TypeInv, TypeOK
<1>9. CASE UNCHANGED vars
  BY <1>9, <1>a DEF vars, bounds, TypeInv, TypeOK, AgesBounded, JobsNumbered
<1> QED
  BY <1>1, <1>2, <1>3, <1>5, <1>6, <1>7, <1>8, <1>9 DEF Next

\* The node starts in the types.
LEMMA InitType == Init => TypeInv
<1> SUFFICES ASSUME Init PROVE TypeInv
  OBVIOUS
<1> USE ValidatorAssumptions
<1>1. Idle \in [step : Steps, batch_id : 0..MaxBatches, txs : Seq(Tx)] /\ Absent \in File
  BY DEF Idle, Steps, Absent, File
<1>2. TypeOK
  BY <1>1, RepliesType DEF Init, TypeOK
<1>3. AgesBounded /\ JobsNumbered
  BY DEF Init, AgesBounded, JobsNumbered, Idle
<1> QED
  BY <1>2, <1>3 DEF TypeInv

\* The types with their strengthening are invariant.
LEMMA TypeInvariance == Spec => []TypeInv
<1> QED
  BY InitType, TypeInductive, PTL DEF Spec

\* The node's state and its proof directory keep their types.
THEOREM TypeCorrect == Spec => []TypeOK
<1>1. TypeInv => TypeOK
  BY DEF TypeInv
<1> QED
  BY <1>1, TypeInvariance, PTL

-----------------------------------------------------------------------------
(* Batches and files.  A task works alone on its batch: ids of batches that *)
(* are worked on or recorded are all different, so the files a task has    *)
(* written stay as it wrote them.                                          *)

Working == {"prove", "open_proof", "fill_proof", "open_trace", "fill_trace", "record"}

JobsInv ==
  \A t \in Tasks :
     /\ jobs[t].step \notin Working => jobs[t].txs = <<>>
     /\ jobs[t].step \in Working => jobs[t].batch_id \in 1..batch_counter
     /\ jobs[t].step \in Working \ {"prove"} => jobs[t].txs # <<>>

JobNumbersInv ==
  \A t, u \in Tasks :
     t # u /\ jobs[t].step \in Working /\ jobs[u].step \in Working
       => jobs[t].batch_id # jobs[u].batch_id

ProofNumbersInv ==
  \A i \in DOMAIN proofs :
     /\ proofs[i].batch_id \in 1..batch_counter
     /\ \A j \in DOMAIN proofs : i # j => proofs[i].batch_id # proofs[j].batch_id
     /\ \A t \in Tasks : jobs[t].step \in Working => jobs[t].batch_id # proofs[i].batch_id

JobFilesInv ==
  \A t \in Tasks :
     /\ jobs[t].step \in {"open_trace", "fill_trace", "record"} =>
          proof_files[jobs[t].batch_id] = Full(jobs[t].txs)
     /\ jobs[t].step = "record" => trace_files[jobs[t].batch_id] = Full(jobs[t].txs)

DiskInv == /\ JobsInv /\ JobNumbersInv /\ ProofNumbersInv
           /\ JobFilesInv /\ RecordedIsOnDisk

\* No step of any task disturbs another task's files or a recorded batch.
LEMMA DiskInductive == TypeInv /\ DiskInv /\ [Next]_vars => DiskInv'
<1> SUFFICES ASSUME TypeInv, DiskInv, [Next]_vars PROVE DiskInv'
  OBVIOUS
<1> USE ValidatorAssumptions
<1>a. TypeOK
  BY DEF TypeInv
<1>b. /\ JobsInv /\ JobNumbersInv /\ ProofNumbersInv
      /\ JobFilesInv /\ RecordedIsOnDisk
  BY DEF DiskInv
<1>c. /\ batch_counter \in 0..MaxBatches
      /\ DOMAIN jobs = Tasks
      /\ DOMAIN proof_files = BatchIds /\ DOMAIN trace_files = BatchIds
      /\ proofs \in Seq([batch_id : BatchIds, txs : Seq(Tx)])
      /\ DOMAIN proofs = 1..Len(proofs) /\ Len(proofs) \in Nat
      /\ \A i \in DOMAIN proofs : proofs[i].batch_id \in BatchIds
      /\ \A t \in Tasks : jobs[t].step \in Working => jobs[t].batch_id \in BatchIds
  <2>1. /\ batch_counter \in 0..MaxBatches
        /\ DOMAIN jobs = Tasks
        /\ DOMAIN proof_files = BatchIds /\ DOMAIN trace_files = BatchIds
        /\ proofs \in Seq([batch_id : BatchIds, txs : Seq(Tx)])
    BY <1>a DEF TypeOK
  <2>2. \A t \in Tasks : jobs[t].step \in Working => jobs[t].batch_id \in BatchIds
    BY <1>b, <2>1 DEF JobsInv, BatchIds
  <2>3. DOMAIN proofs = 1..Len(proofs) /\ Len(proofs) \in Nat
    BY <2>1
  <2>4. \A i \in DOMAIN proofs : proofs[i].batch_id \in BatchIds
    <3> DEFINE Rec == [batch_id : BatchIds, txs : Seq(Tx)]
    <3>1. proofs \in Seq(Rec)
      BY <2>1
    <3>2. \A r \in Rec : r.batch_id \in BatchIds
      OBVIOUS
    <3> HIDE DEF Rec
    <3>3. \A i \in DOMAIN proofs : proofs[i] \in Rec
      BY <2>3, <3>1, ElementOfSeq
    <3> QED
      BY <3>2, <3>3
  <2> QED
    BY <2>1, <2>2, <2>3, <2>4
<1>1. ASSUME UNCHANGED <<jobs, proofs, batch_counter, proof_files, trace_files>>
      PROVE  DiskInv'
  BY <1>1, <1>b DEF DiskInv, JobsInv, JobNumbersInv, ProofNumbersInv, JobFilesInv,
                    RecordedIsOnDisk
<1>2. ASSUME NEW t \in Tasks, check_and_seal_batch(t) PROVE DiskInv'
  <2>1. CASE UNCHANGED <<pending_txs, batch_counter, jobs>>
    BY <1>1, <1>2, <2>1 DEF check_and_seal_batch
  <2>2. CASE SealsNow /\ batch_counter < MaxBatches
    <3>1. PICK txs :
            /\ jobs[t].step = "idle"
            /\ jobs' = [jobs EXCEPT ![t] = [step |-> "prove", batch_id |-> batch_counter + 1,
                                            txs |-> txs]]
            /\ batch_counter' = batch_counter + 1
            /\ UNCHANGED <<proofs, proof_files, trace_files>>
      BY <1>2, <2>2 DEF check_and_seal_batch, NextBatchId
    <3>2. /\ jobs'[t] = [step |-> "prove", batch_id |-> batch_counter + 1, txs |-> txs]
          /\ \A u \in Tasks : u # t => jobs'[u] = jobs[u]
      BY <1>c, <3>1
    <3>3. JobsInv'
      BY <1>b, <1>c, <3>1, <3>2 DEF JobsInv, Working
    <3>4. JobNumbersInv'
      BY <1>b, <1>c, <3>1, <3>2 DEF JobNumbersInv, JobsInv
    <3>5. ProofNumbersInv'
      BY <1>b, <1>c, <3>1, <3>2 DEF ProofNumbersInv, Working
    <3>6. JobFilesInv'
      BY <1>b, <1>c, <3>1, <3>2 DEF JobFilesInv
    <3>7. RecordedIsOnDisk'
      BY <1>b, <3>1 DEF RecordedIsOnDisk
    <3> QED
      BY <3>3, <3>4, <3>5, <3>6, <3>7 DEF DiskInv
  <2> QED
    BY <1>2, <2>1, <2>2 DEF check_and_seal_batch
<1>3. ASSUME NEW t \in Tasks, JobStep(t) PROVE DiskInv'
  <2>1. ASSUME NEW from \in Working, NEW to \in Working \ {"prove"}, Advance(t, from, to),
               batch_counter' = batch_counter, proofs' = proofs,
               from = "prove" => jobs[t].txs # <<>>
        PROVE  /\ JobsInv' /\ JobNumbersInv' /\ ProofNumbersInv'
               /\ jobs'[t].step = to /\ jobs'[t].batch_id = jobs[t].batch_id
               /\ jobs'[t].txs = jobs[t].txs
               /\ \A u \in Tasks : u # t => jobs'[u] = jobs[u]
    <3>1. jobs[t].step = from /\ jobs' = [jobs EXCEPT ![t].step = to]
      BY <2>1 DEF Advance
    <3>2. /\ jobs'[t].step = to /\ jobs'[t].batch_id = jobs[t].batch_id
          /\ jobs'[t].txs = jobs[t].txs
          /\ \A u \in Tasks : u # t => jobs'[u] = jobs[u]
      BY <1>a, <3>1 DEF TypeOK
    <3>3. JobsInv'
      BY <1>b, <2>1, <3>1, <3>2 DEF JobsInv
    <3>4. JobNumbersInv'
      BY <1>b, <2>1, <3>1, <3>2 DEF JobNumbersInv
    <3>5. ProofNumbersInv'
      BY <1>b, <2>1, <3>1, <3>2 DEF ProofNumbersInv
    <3> QED
      BY <3>2, <3>3, <3>4, <3>5
  <2>2. ASSUME NEW j, j.step \notin Working, j.txs = <<>>,
               jobs' = [jobs EXCEPT ![t] = j],
               UNCHANGED <<batch_counter, proofs, proof_files, trace_files>>
        PROVE  DiskInv'
    <3>1. jobs'[t] = j /\ \A u \in Tasks : u # t => jobs'[u] = jobs[u]
      BY <1>c, <2>2
    <3>2. JobsInv'
      BY <1>b, <2>2, <3>1 DEF JobsInv
    <3>3. JobNumbersInv'
      BY <1>b, <2>2, <3>1 DEF JobNumbersInv
    <3>4. ProofNumbersInv'
      BY <1>b, <2>2, <3>1 DEF ProofNumbersInv
    <3>5. JobFilesInv'
      BY <1>b, <2>2, <3>1 DEF JobFilesInv, Working
    <3>6. RecordedIsOnDisk'
      BY <1>b, <2>2 DEF RecordedIsOnDisk
    <3> QED
      BY <3>2, <3>3, <3>4, <3>5, <3>6 DEF DiskInv
  <2>3. CASE ProveOk(t)
    <3>1. /\ Advance(t, "prove", "open_proof") /\ jobs[t].txs # <<>>
          /\ UNCHANGED <<batch_counter, proofs, proof_files, trace_files>>
      BY <2>3 DEF ProveOk, Provable, UnchangedQueue
    <3>2. /\ JobsInv' /\ JobNumbersInv' /\ ProofNumbersInv'
          /\ jobs'[t].step = "open_proof"
          /\ \A u \in Tasks : u # t => jobs'[u] = jobs[u]
      BY <2>1, <3>1 DEF Working
    <3>3. JobFilesInv'
      BY <1>b, <3>1, <3>2 DEF JobFilesInv
    <3>4. RecordedIsOnDisk'
      BY <1>b, <3>1 DEF RecordedIsOnDisk
    <3> QED
      BY <3>2, <3>3, <3>4 DEF DiskInv
  <2>4. CASE OpenProof(t)
    <3>1. /\ Advance(t, "open_proof", "fill_proof")
          /\ proof_files' = [proof_files EXCEPT ![jobs[t].batch_id] = Partial]
          /\ UNCHANGED <<batch_counter, proofs, trace_files>>
          /\ jobs[t].step = "open_proof"
      BY <2>4 DEF OpenProof, UnchangedQueue, Advance
    <3>2. /\ JobsInv' /\ JobNumbersInv' /\ ProofNumbersInv'
          /\ jobs'[t].step = "fill_proof"
          /\ \A u \in Tasks : u # t => jobs'[u] = jobs[u]
      BY <2>1, <3>1 DEF Working
    <3>3. JobFilesInv'
      BY <1>b, <1>c, <3>1, <3>2 DEF JobFilesInv, JobNumbersInv, Working
    <3>4. RecordedIsOnDisk'
      BY <1>b, <1>c, <3>1 DEF RecordedIsOnDisk, ProofNumbersInv, Working
    <3> QED
      BY <3>2, <3>3, <3>4 DEF DiskInv
  <2>5. CASE FillProof(t)
    <3>1. /\ Advance(t, "fill_proof", "open_trace")
          /\ proof_files' = [proof_files EXCEPT ![jobs[t].batch_id] = Full(jobs[t].txs)]
          /\ UNCHANGED <<batch_counter, proofs, trace_files>>
          /\ jobs[t].step = "fill_proof"
      BY <2>5 DEF FillProof, UnchangedQueue, Advance
    <3>2. /\ JobsInv' /\ JobNumbersInv' /\ ProofNumbersInv'
          /\ jobs'[t].step = "open_trace" /\ jobs'[t].batch_id = jobs[t].batch_id
          /\ jobs'[t].txs = jobs[t].txs
          /\ \A u \in Tasks : u # t => jobs'[u] = jobs[u]
      BY <2>1, <3>1 DEF Working
    <3>3. JobFilesInv'
      BY <1>b, <1>c, <3>1, <3>2 DEF JobFilesInv, JobNumbersInv, Working
    <3>4. RecordedIsOnDisk'
      BY <1>b, <1>c, <3>1 DEF RecordedIsOnDisk, ProofNumbersInv, Working
    <3> QED
      BY <3>2, <3>3, <3>4 DEF DiskInv
  <2>6. CASE OpenTrace(t)
    <3>1. /\ Advance(t, "open_trace", "fill_trace")
          /\ trace_files' = [trace_files EXCEPT ![jobs[t].batch_id] = Partial]
          /\ UNCHANGED <<batch_counter, proofs, proof_files>>
          /\ jobs[t].step = "open_trace"
      BY <2>6 DEF OpenTrace, UnchangedQueue, Advance
    <3>2. /\ JobsInv' /\ JobNumbersInv' /\ ProofNumbersInv'
          /\ jobs'[t].step = "fill_trace" /\ jobs'[t].batch_id = jobs[t].batch_id
          /\ jobs'[t].txs = jobs[t].txs
          /\ \A u \in Tasks : u # t => jobs'[u] = jobs[u]
      BY <2>1, <3>1 DEF Working
    <3>3. JobFilesInv'
      BY <1>b, <1>c, <3>1, <3>2 DEF JobFilesInv, JobNumbersInv, Working
    <3>4. RecordedIsOnDisk'
      BY <1>b, <1>c, <3>1 DEF RecordedIsOnDisk, ProofNumbersInv, Working
    <3> QED
      BY <3>2, <3>3, <3>4 DEF DiskInv
  <2>7. CASE FillTrace(t)
    <3>1. /\ Advance(t, "fill_trace", "record")
          /\ trace_files' = [trace_files EXCEPT ![jobs[t].batch_id] = Full(jobs[t].txs)]
          /\ UNCHANGED <<batch_counter, proofs, proof_files>>
          /\ jobs[t].step = "fill_trace"
      BY <2>7 DEF FillTrace, UnchangedQueue, Advance
    <3>2. /\ JobsInv' /\ JobNumbersInv' /\ ProofNumbersInv'
          /\ jobs'[t].step = "record" /\ jobs'[t].batch_id = jobs[t].batch_id
          /\ jobs'[t].txs = jobs[t].txs
          /\ \A u \in Tasks : u # t => jobs'[u] = jobs[u]
      BY <2>1, <3>1 DEF Working
    <3>3. JobFilesInv'
      BY <1>b, <1>c, <3>1, <3>2 DEF JobFilesInv, JobNumbersInv, Working
    <3>4. RecordedIsOnDisk'
      BY <1>b, <1>c, <3>1 DEF RecordedIsOnDisk, ProofNumbersInv, Working
    <3> QED
      BY <3>2, <3>3, <3>4 DEF DiskInv
  <2>8. CASE Record(t)
    <3> DEFINE rec == [batch_id |-> jobs[t].batch_id, txs |-> jobs[t].txs]
    <3>1. PICK j : j.step \notin Working /\ j.txs = <<>> /\ jobs' = [jobs EXCEPT ![t] = j]
      BY <2>8 DEF Record, Idle, Working
    <3>2. /\ jobs[t].step = "record"
          /\ proofs' = Append(proofs, rec)
          /\ UNCHANGED <<batch_counter, proof_files, trace_files>>
      BY <2>8 DEF Record, UnchangedQueue
    <3>3. jobs'[t] = j /\ \A u \in Tasks : u # t => jobs'[u] = jobs[u]
      BY <1>c, <3>1
    <3>4. /\ rec.batch_id = jobs[t].batch_id /\ rec.txs = jobs[t].txs
          /\ rec \in [batch_id : BatchIds, txs : Seq(Tx)]
      BY <1>a, <1>c, <3>2 DEF TypeOK, Working
    <3> HIDE DEF rec
    <3>5. /\ DOMAIN proofs' = 1..Len(proofs) + 1
          /\ proofs'[Len(proofs) + 1] = rec
          /\ \A i \in DOMAIN proofs : proofs'[i] = proofs[i]
      BY <1>c, <3>2, <3>4
    <3>6. JobsInv'
      BY <1>b, <3>1, <3>2, <3>3 DEF JobsInv
    <3>7. JobNumbersInv'
      BY <1>b, <3>1, <3>3 DEF JobNumbersInv
    <3>8. ProofNumbersInv'
      <4>1. \A i \in DOMAIN proofs' : i = Len(proofs) + 1 \/ i \in DOMAIN proofs
        BY <1>c, <3>5
      <4>2. jobs[t].step \in Working
        BY <3>2 DEF Working
      <4>3. \A u \in Tasks : jobs'[u].step \in Working => u # t /\ jobs'[u] = jobs[u]
        BY <3>1, <3>3
      <4>4. /\ rec.batch_id \in 1..batch_counter
            /\ \A i \in DOMAIN proofs : proofs[i].batch_id # rec.batch_id
            /\ \A u \in Tasks : jobs'[u].step \in Working => jobs'[u].batch_id # rec.batch_id
        BY <1>b, <3>4, <4>2, <4>3 DEF ProofNumbersInv, JobsInv, JobNumbersInv
      <4>5. \A i \in DOMAIN proofs' :
               /\ proofs'[i].batch_id \in 1..batch_counter
               /\ \A u \in Tasks : jobs'[u].step \in Working
                                     => jobs'[u].batch_id # proofs'[i].batch_id
        BY <1>b, <3>5, <4>1, <4>3, <4>4 DEF ProofNumbersInv
      <4>6. \A i, k \in DOMAIN proofs' : i # k => proofs'[i].batch_id # proofs'[k].batch_id
        BY <1>b, <3>5, <4>1, <4>4 DEF ProofNumbersInv
      <4>7. batch_counter' = batch_counter
        BY <3>2
      <4> QED
        BY <4>5, <4>6, <4>7 DEF ProofNumbersInv
    <3>9. JobFilesInv'
      BY <1>b, <3>1, <3>2, <3>3 DEF JobFilesInv, Working
    <3>10. RecordedIsOnDisk'
      BY <1>b, <1>c, <3>2, <3>4, <3>5 DEF RecordedIsOnDisk, JobFilesInv, JobsInv, Working
    <3> QED
      BY <3>6, <3>7, <3>8, <3>9, <3>10 DEF DiskInv
  <2>9. CASE Broadcast(t) \/ JobFails(t)
    <3>1. Idle.step \notin Working /\ Idle.txs = <<>>
      BY DEF Idle, Working
    <3>2. /\ jobs' = [jobs EXCEPT ![t] = Idle]
          /\ UNCHANGED <<batch_counter, proofs, proof_files, trace_files>>
      BY <2>9 DEF Broadcast, JobFails, UnchangedQueue
    <3> QED
      BY <2>2, <3>1, <3>2
  <2> QED
    BY <1>3, <2>3, <2>4, <2>5, <2>6, <2>7, <2>8, <2>9 DEF JobStep
<1>4. CASE Restart
  <2>1. /\ proofs' = <<>> /\ batch_counter' = 0
        /\ \A t \in Tasks : jobs'[t] = Idle
    BY <1>4 DEF Restart
  <2>2. \A t \in Tasks : jobs'[t].step = "idle" /\ jobs'[t].txs = <<>>
    BY <2>1 DEF Idle
  <2>3. DOMAIN proofs' = {}
    BY <2>1
  <2> QED
    BY <2>2, <2>3 DEF DiskInv, JobsInv, JobNumbersInv, ProofNumbersInv, JobFilesInv,
                      RecordedIsOnDisk, Working
<1> QED
  BY <1>1, <1>2, <1>3, <1>4
     DEF Next, submit_transaction, Tick, ClockStepsBack, TickerCheck, forceSeal, Tasks, vars

\* A node that starts works on nothing and has recorded nothing.
LEMMA InitDisk == Init => DiskInv
<1> SUFFICES ASSUME Init PROVE DiskInv
  OBVIOUS
<1>1. \A t \in Tasks : jobs[t].step = "idle" /\ jobs[t].txs = <<>>
  BY DEF Init, Idle
<1>2. DOMAIN proofs = {}
  BY DEF Init
<1> QED
  BY <1>1, <1>2 DEF DiskInv, JobsInv, JobNumbersInv, ProofNumbersInv, JobFilesInv,
                    RecordedIsOnDisk, Working

\* What is said of batches and files is invariant.
LEMMA DiskInvariance == Spec => []DiskInv
<1> QED
  BY TypeInvariance, InitDisk, DiskInductive, PTL DEF Spec

\* A recorded proof has both its files on disk, complete and its own, for any
\* number of tasks that seal, write and fail at the same time.
THEOREM RecordedStaysOnDisk == Spec => []RecordedIsOnDisk
<1>1. DiskInv => RecordedIsOnDisk
  BY DEF DiskInv
<1> QED
  BY <1>1, DiskInvariance, PTL

-----------------------------------------------------------------------------
(* Transactions.  The queue is a run of ids up to the last one handed out; *)
(* every id before it is held by one batch or was lost with one, and       *)
(* batches with larger ids hold later transactions.                        *)

QueueInv ==
  /\ Len(pending_txs) <= tx_counter
  /\ \A i \in DOMAIN pending_txs :
        pending_txs[i].tx_id = tx_counter - Len(pending_txs) + i

Sealed == tx_counter - Len(pending_txs)

\* Transaction n is in batch b, in flight or recorded.
Holds(b, n) ==
  \/ \E t \in Tasks : jobs[t].batch_id = b /\ n \in Ids(jobs[t].txs)
  \/ \E i \in DOMAIN proofs : proofs[i].batch_id = b /\ n \in Ids(proofs[i].txs)

PlaceInv ==
  /\ \A b \in BatchIds, n \in 1..MaxTx : Holds(b, n) => n <= Sealed /\ n \notin failed
  /\ \A n \in failed : n <= Sealed
  /\ \A n \in 1..Sealed : n \in failed \/ \E b \in BatchIds : Holds(b, n)
  /\ \A b, c \in BatchIds, m, n \in 1..MaxTx :
        Holds(b, m) /\ Holds(c, n) /\ b < c => m < n

Inv == TypeInv /\ DiskInv /\ QueueInv /\ PlaceInv

\* A batch without transactions holds no id.
LEMMA NoIds == Ids(<<>>) = {}
BY DEF Ids

\* A task that holds transactions works on a batch of its own number.
LEMMA HoldersType ==
  ASSUME TypeInv, DiskInv
  PROVE  /\ \A t \in Tasks : \A n \in Ids(jobs[t].txs) :
               /\ n \in 1..MaxTx
               /\ jobs[t].step \in Working
               /\ jobs[t].batch_id \in BatchIds
               /\ jobs[t].batch_id <= batch_counter
         /\ \A i \in DOMAIN proofs : \A n \in Ids(proofs[i].txs) :
               /\ n \in 1..MaxTx
               /\ proofs[i].batch_id \in BatchIds
               /\ proofs[i].batch_id <= batch_counter
<1>1. TypeOK /\ batch_counter \in 0..MaxBatches
  BY DEF TypeInv, TypeOK
<1>2. JobsInv /\ ProofNumbersInv
  BY DEF DiskInv
<1>3. ASSUME NEW t \in Tasks, NEW n \in Ids(jobs[t].txs)
      PROVE  /\ n \in 1..MaxTx
             /\ jobs[t].step \in Working
             /\ jobs[t].batch_id \in BatchIds
             /\ jobs[t].batch_id <= batch_counter
  <2>1. jobs[t].txs \in Seq(Tx)
    BY <1>1 DEF TypeOK
  <2>2. n \in 1..MaxTx
    BY <1>3, <2>1, IdsType
  <2>3. jobs[t].step \in Working
    BY <1>2, <1>3, NoIds DEF JobsInv
  <2>4. jobs[t].batch_id \in 1..batch_counter
    BY <1>2, <2>3 DEF JobsInv
  <2> QED
    BY <1>1, <2>2, <2>3, <2>4, ValidatorAssumptions DEF BatchIds
<1>4. ASSUME NEW i \in DOMAIN proofs, NEW n \in Ids(proofs[i].txs)
      PROVE  /\ n \in 1..MaxTx
             /\ proofs[i].batch_id \in BatchIds
             /\ proofs[i].batch_id <= batch_counter
  <2> DEFINE Rec == [batch_id : BatchIds, txs : Seq(Tx)]
  <2>1. proofs \in Seq(Rec)
    BY <1>1 DEF TypeOK
  <2>2. \A r \in Rec : r.batch_id \in BatchIds /\ r.txs \in Seq(Tx)
    OBVIOUS
  <2> HIDE DEF Rec
  <2>3. DOMAIN proofs = 1..Len(proofs)
    BY <2>1
  <2>4. proofs[i] \in Rec
    BY <2>1, <2>3, ElementOfSeq
  <2>5. n \in 1..MaxTx
    BY <1>4, <2>2, <2>4, IdsType
  <2>6. proofs[i].batch_id <= batch_counter
    BY <1>1, <1>2 DEF ProofNumbersInv
  <2> QED
    BY <2>2, <2>4, <2>5, <2>6
<1> QED
  BY <1>3, <1>4

\* Nobody but the holder of a transaction holds it.
LEMMA HolderUnique ==
  ASSUME Inv
  PROVE  /\ \A t, u \in Tasks : \A n \in Ids(jobs[t].txs) :
               n \in Ids(jobs[u].txs) => t = u
         /\ \A t \in Tasks, i \in DOMAIN proofs : \A n \in Ids(jobs[t].txs) :
               n \notin Ids(proofs[i].txs)
         /\ \A i, j \in DOMAIN proofs : \A n \in Ids(proofs[i].txs) :
               n \in Ids(proofs[j].txs) => i = j
<1>1. TypeInv /\ DiskInv /\ PlaceInv /\ JobNumbersInv /\ ProofNumbersInv
  BY DEF Inv, DiskInv
<1>2. ASSUME NEW b \in BatchIds, NEW c \in BatchIds, NEW n \in 1..MaxTx,
             Holds(b, n), Holds(c, n)
      PROVE  b = c
  <2>1. ~(b < c) /\ ~(c < b)
    BY <1>1, <1>2 DEF PlaceInv
  <2> QED
    BY <2>1, ValidatorAssumptions DEF BatchIds
<1>3. \A t \in Tasks : \A n \in Ids(jobs[t].txs) : Holds(jobs[t].batch_id, n)
  BY DEF Holds
<1>4. \A i \in DOMAIN proofs : \A n \in Ids(proofs[i].txs) : Holds(proofs[i].batch_id, n)
  BY DEF Holds
<1>5. \A t, u \in Tasks : \A n \in Ids(jobs[t].txs) : n \in Ids(jobs[u].txs) => t = u
  BY <1>1, <1>2, <1>3, HoldersType DEF JobNumbersInv
<1>6. \A t \in Tasks, i \in DOMAIN proofs : \A n \in Ids(jobs[t].txs) :
         n \notin Ids(proofs[i].txs)
  BY <1>1, <1>2, <1>3, <1>4, HoldersType DEF ProofNumbersInv
<1>7. \A i, j \in DOMAIN proofs : \A n \in Ids(proofs[i].txs) :
         n \in Ids(proofs[j].txs) => i = j
  BY <1>1, <1>2, <1>4, HoldersType DEF ProofNumbersInv
<1> QED
  BY <1>5, <1>6, <1>7

\* What a batch takes off the queue are the next ids.
LEMMA TakenIds ==
  ASSUME TypeOK, QueueInv
  PROVE  Ids([i \in 1..Drained |-> [tx_id |-> pending_txs[i].tx_id,
                                    payload |-> pending_txs[i].payload]])
           = Sealed + 1 .. Sealed + Drained
<1>1. /\ Drained \in 0..Len(pending_txs) /\ Len(pending_txs) \in Nat
      /\ DOMAIN pending_txs = 1..Len(pending_txs)
  BY DrainedType
<1>2. tx_counter \in Nat /\ Len(pending_txs) <= tx_counter
  BY ValidatorAssumptions DEF TypeOK, QueueInv
<1>3. \A i \in 1..Drained : pending_txs[i].tx_id = Sealed + i
  BY <1>1 DEF QueueInv, Sealed
<1> DEFINE d == Drained
           base == Sealed
           taken == [i \in 1..d |-> [tx_id |-> pending_txs[i].tx_id,
                                     payload |-> pending_txs[i].payload]]
<1>4. base \in Nat /\ d \in Nat
  BY <1>1, <1>2 DEF Sealed
<1>5. DOMAIN taken = 1..d /\ \A i \in 1..d : taken[i].tx_id = base + i
  BY <1>3
<1>6. Ids(taken) = {taken[i].tx_id : i \in DOMAIN taken}
  BY DEF Ids
<1> HIDE DEF taken, d, base
<1>7. \A n : n \in Ids(taken) <=> \E i \in 1..d : n = base + i
  BY <1>5, <1>6
<1>8. \A n : (\E i \in 1..d : n = base + i) <=> n \in base + 1 .. base + d
  <2>1. ASSUME NEW n \in base + 1 .. base + d PROVE \E i \in 1..d : n = base + i
    <3>1. n - base \in 1..d /\ n = base + (n - base)
      BY <1>4
    <3> QED
      BY <3>1
  <2>2. \A i \in 1..d : base + i \in base + 1 .. base + d
    BY <1>4
  <2> QED
    BY <2>1, <2>2
<1>9. Ids(taken) = base + 1 .. base + d
  BY <1>7, <1>8
<1> QED
  BY <1>9 DEF taken, d, base

\* The queue stays a run of ids: submissions extend it, seals shorten it.
LEMMA QueueInductive == TypeInv /\ QueueInv /\ [Next]_vars => QueueInv'
<1> SUFFICES ASSUME TypeInv, QueueInv, [Next]_vars PROVE QueueInv'
  OBVIOUS
<1>a. /\ TypeOK /\ pending_txs \in Seq(PendingTx) /\ tx_counter \in Nat
      /\ DOMAIN pending_txs = 1..Len(pending_txs) /\ Len(pending_txs) \in Nat
  BY DrainedType, ValidatorAssumptions DEF TypeInv, TypeOK
<1>b. /\ Len(pending_txs) <= tx_counter
      /\ \A i \in 1..Len(pending_txs) :
           pending_txs[i].tx_id = tx_counter - Len(pending_txs) + i
  BY <1>a DEF QueueInv
<1>1. ASSUME UNCHANGED <<pending_txs, tx_counter>> PROVE QueueInv'
  BY <1>1 DEF QueueInv
<1>2. ASSUME NEW p \in Payloads, submit_transaction(p) PROVE QueueInv'
  <2> DEFINE tx == [tx_id |-> tx_counter + 1, payload |-> p, age |-> 0]
  <2>1. tx_counter' = tx_counter + 1 /\ pending_txs' = Append(pending_txs, tx)
    BY <1>2 DEF submit_transaction
  <2>2. tx.tx_id = tx_counter + 1
    OBVIOUS
  <2> HIDE DEF tx
  <2>3. /\ Len(pending_txs') = Len(pending_txs) + 1
        /\ DOMAIN pending_txs' = 1..Len(pending_txs) + 1
        /\ pending_txs'[Len(pending_txs) + 1] = tx
        /\ \A i \in 1..Len(pending_txs) : pending_txs'[i] = pending_txs[i]
    BY <1>a, <2>1
  <2>4. \A i \in 1..Len(pending_txs) + 1 :
           pending_txs'[i].tx_id = (tx_counter + 1) - (Len(pending_txs) + 1) + i
    <3> SUFFICES ASSUME NEW i \in 1..Len(pending_txs) + 1
                 PROVE  pending_txs'[i].tx_id = (tx_counter + 1) - (Len(pending_txs) + 1) + i
      OBVIOUS
    <3>1. CASE i = Len(pending_txs) + 1
      BY <1>a, <2>2, <2>3, <3>1
    <3>2. CASE i # Len(pending_txs) + 1
      <4>1. i \in 1..Len(pending_txs)
        BY <1>a, <3>2
      <4>2. pending_txs'[i].tx_id = tx_counter - Len(pending_txs) + i
        BY <1>b, <2>3, <4>1
      <4> QED
        BY <1>a, <4>1, <4>2
    <3> QED
      BY <3>1, <3>2
  <2>5. Len(pending_txs') <= tx_counter'
    BY <1>a, <1>b, <2>1, <2>3
  <2> QED
    BY <2>1, <2>3, <2>4, <2>5 DEF QueueInv
<1>3. ASSUME DOMAIN pending_txs' = 1..Len(pending_txs), Len(pending_txs') = Len(pending_txs),
             \A i \in 1..Len(pending_txs) :
                \E x : pending_txs'[i] = [pending_txs[i] EXCEPT !.age = x],
             tx_counter' = tx_counter
      PROVE  QueueInv'
  <2>2. \A i \in 1..Len(pending_txs) : pending_txs'[i].tx_id = pending_txs[i].tx_id
    <3> SUFFICES ASSUME NEW i \in 1..Len(pending_txs)
                 PROVE  pending_txs'[i].tx_id = pending_txs[i].tx_id
      OBVIOUS
    <3>1. pending_txs[i] \in PendingTx
      BY <1>a
    <3>2. PICK x : pending_txs'[i] = [pending_txs[i] EXCEPT !.age = x]
      BY <1>3
    <3> QED
      BY <3>1, <3>2 DEF PendingTx
  <2> QED
    BY <1>3, <1>b, <2>2 DEF QueueInv
<1>4. CASE Tick
  <2>1. pending_txs' = [i \in 1..Len(pending_txs) |->
                          [pending_txs[i] EXCEPT !.age = Least(@ + 1, MaxAge)]]
    BY <1>4, <1>a DEF Tick
  <2>2. DOMAIN pending_txs' = 1..Len(pending_txs) /\ Len(pending_txs') = Len(pending_txs)
    BY <1>a, <2>1
  <2>3. \A i \in 1..Len(pending_txs) :
           \E x : pending_txs'[i] = [pending_txs[i] EXCEPT !.age = x]
    BY <2>1
  <2> QED
    BY <1>3, <1>4, <2>2, <2>3 DEF Tick
<1>5. CASE ClockStepsBack
  <2>1. pending_txs' = [i \in 1..Len(pending_txs) |->
                          [pending_txs[i] EXCEPT !.age = @ - 1]]
    BY <1>5, <1>a DEF ClockStepsBack
  <2>2. DOMAIN pending_txs' = 1..Len(pending_txs) /\ Len(pending_txs') = Len(pending_txs)
    BY <1>a, <2>1
  <2>3. \A i \in 1..Len(pending_txs) :
           \E x : pending_txs'[i] = [pending_txs[i] EXCEPT !.age = x]
    BY <2>1
  <2> QED
    BY <1>3, <1>5, <2>2, <2>3 DEF ClockStepsBack
<1>6. ASSUME NEW t \in Tasks, check_and_seal_batch(t) PROVE QueueInv'
  <2>1. CASE pending_txs' = pending_txs
    BY <1>1, <1>6, <2>1 DEF check_and_seal_batch
  <2>2. CASE pending_txs' = Undrained
    <3>1. tx_counter' = tx_counter
      BY <1>6 DEF check_and_seal_batch
    <3>2. /\ Undrained \in Seq(PendingTx)
          /\ Len(Undrained) = Len(pending_txs) - Drained
          /\ \A i \in 1..Len(pending_txs) - Drained : Undrained[i] = pending_txs[Drained + i]
          /\ Drained \in 0..Len(pending_txs)
      BY <1>a, DrainTypes, DrainedType
    <3>3. DOMAIN Undrained = 1..Len(pending_txs) - Drained
      BY <3>2
    <3>4. \A i \in 1..Len(pending_txs) - Drained :
             Undrained[i].tx_id = tx_counter - (Len(pending_txs) - Drained) + i
      BY <1>a, <1>b, <3>2
    <3>5. Len(Undrained) <= tx_counter
      BY <1>a, <1>b, <3>2
    <3> QED
      BY <2>2, <3>1, <3>2, <3>3, <3>4, <3>5 DEF QueueInv
  <2> QED
    BY <1>6, <2>1, <2>2 DEF check_and_seal_batch
<1>7. ASSUME NEW t \in Tasks, JobStep(t) PROVE QueueInv'
  BY <1>1, <1>7 DEF JobStep, ProveOk, OpenProof, FillProof, OpenTrace, FillTrace, Record,
                    Broadcast, JobFails, UnchangedQueue
<1>8. CASE Restart
  <2>1. pending_txs' = <<>> /\ tx_counter' = 0
    BY <1>8 DEF Restart
  <2> QED
    BY <2>1 DEF QueueInv
<1> QED
  BY <1>1, <1>2, <1>4, <1>5, <1>6, <1>7, <1>8
     DEF Next, TickerCheck, forceSeal, Tasks, vars

\* Every sealed transaction keeps its place or is lost with its batch.
LEMMA PlaceInductive == Inv /\ [Next]_vars => PlaceInv'
<1> SUFFICES ASSUME Inv, [Next]_vars PROVE PlaceInv'
  OBVIOUS
<1>a. TypeInv /\ TypeOK /\ DiskInv /\ QueueInv /\ PlaceInv /\ JobsInv /\ JobNumbersInv
      /\ ProofNumbersInv
  BY DEF Inv, TypeInv, DiskInv
<1>b. /\ batch_counter \in 0..MaxBatches /\ tx_counter \in 0..MaxTx
      /\ Len(pending_txs) \in Nat /\ Len(pending_txs) <= tx_counter
      /\ MaxTx \in Nat /\ MaxBatches \in Nat
      /\ Sealed \in 0..MaxTx
      /\ DOMAIN jobs = Tasks
  <2>1. MaxTx \in Nat /\ MaxBatches \in Nat
    BY ValidatorAssumptions
  <2>2. /\ batch_counter \in 0..MaxBatches /\ tx_counter \in 0..MaxTx
        /\ DOMAIN jobs = Tasks
    BY <1>a DEF TypeOK
  <2>3. Len(pending_txs) \in Nat /\ Len(pending_txs) <= tx_counter
    BY <1>a, DrainedType DEF QueueInv
  <2> QED
    BY <2>1, <2>2, <2>3 DEF Sealed
<1>1. ASSUME \A b \in BatchIds, n \in 1..MaxTx : Holds(b, n)' <=> Holds(b, n),
             failed' = failed, Sealed' = Sealed
      PROVE  PlaceInv'
  <2>1. 1..Sealed \subseteq 1..MaxTx
    BY <1>b
  <2> QED
    BY <1>1, <1>a, <2>1 DEF PlaceInv
<1>2. ASSUME UNCHANGED <<jobs, proofs>>
      PROVE  \A b \in BatchIds, n \in 1..MaxTx : Holds(b, n)' <=> Holds(b, n)
  BY <1>2 DEF Holds
<1>3. ASSUME NEW t \in Tasks, proofs' = proofs,
             jobs'[t].batch_id = jobs[t].batch_id, jobs'[t].txs = jobs[t].txs,
             \A u \in Tasks : u # t => jobs'[u] = jobs[u]
      PROVE  \A b \in BatchIds, n \in 1..MaxTx : Holds(b, n)' <=> Holds(b, n)
  <2>1. \A u \in Tasks : jobs'[u].batch_id = jobs[u].batch_id /\ jobs'[u].txs = jobs[u].txs
    BY <1>3
  <2> QED
    BY <1>3, <2>1 DEF Holds
<1>4. ASSUME NEW p \in Payloads, submit_transaction(p) PROVE PlaceInv'
  <2>1. /\ tx_counter' = tx_counter + 1 /\ UNCHANGED <<jobs, proofs, failed>>
        /\ Len(pending_txs') = Len(pending_txs) + 1
    BY <1>4, <1>a DEF submit_transaction, TypeOK
  <2>2. Sealed' = Sealed
    BY <1>b, <2>1 DEF Sealed
  <2> QED
    BY <1>1, <1>2, <2>1, <2>2
<1>5. CASE Tick \/ ClockStepsBack
  <2>1. UNCHANGED <<tx_counter, jobs, proofs, failed>>
    BY <1>5 DEF Tick, ClockStepsBack
  <2>2. Len(pending_txs') = Len(pending_txs)
    <3>1. DOMAIN pending_txs = 1..Len(pending_txs) /\ Len(pending_txs) \in Nat
      BY <1>a, DrainedType
    <3>2. CASE Tick
      BY <3>1, <3>2 DEF Tick
    <3>3. CASE ClockStepsBack
      BY <3>1, <3>3 DEF ClockStepsBack
    <3> QED
      BY <1>5, <3>2, <3>3
  <2>3. Sealed' = Sealed
    BY <2>1, <2>2 DEF Sealed
  <2> QED
    BY <1>1, <1>2, <2>1, <2>3
<1>6. ASSUME NEW t \in Tasks, check_and_seal_batch(t) PROVE PlaceInv'
  <2>1. CASE UNCHANGED <<pending_txs, batch_counter, jobs>>
    <3>1. UNCHANGED <<jobs, proofs, failed, pending_txs, tx_counter>>
      BY <1>6, <2>1 DEF check_and_seal_batch
    <3>2. Sealed' = Sealed
      BY <3>1 DEF Sealed
    <3> QED
      BY <1>1, <1>2, <3>1, <3>2
  <2>2. CASE SealsNow /\ batch_counter < MaxBatches
    <3> DEFINE taken == [i \in 1..Drained |-> [tx_id |-> pending_txs[i].tx_id,
                                                payload |-> pending_txs[i].payload]]
               new == batch_counter + 1
    <3>1. /\ jobs[t].step = "idle" /\ pending_txs' = Undrained
          /\ jobs' = [jobs EXCEPT ![t] = [step |-> "prove", batch_id |-> new, txs |-> taken]]
          /\ UNCHANGED <<tx_counter, proofs, failed>>
      BY <1>6, <2>2 DEF check_and_seal_batch, NextBatchId
    <3>2. Ids(taken) = Sealed + 1 .. Sealed + Drained
      BY <1>a, TakenIds
    <3>3. /\ Drained \in Nat /\ Len(Undrained) = Len(pending_txs) - Drained
          /\ Drained <= Len(pending_txs)
      BY <1>a, DrainTypes, DrainedType
    <3> HIDE DEF taken
    <3>4. Sealed' = Sealed + Drained /\ Sealed' \in 0..MaxTx
      BY <1>b, <3>1, <3>3 DEF Sealed
    <3>5. new \in BatchIds /\ \A b \in BatchIds : new < b => b > batch_counter
      BY <1>b, <2>2 DEF BatchIds
    <3>6. /\ jobs'[t].batch_id = new /\ jobs'[t].txs = taken
          /\ \A u \in Tasks : u # t => jobs'[u] = jobs[u]
      BY <1>b, <3>1
    <3>7. Ids(jobs[t].txs) = {}
      BY <1>a, <3>1, NoIds DEF JobsInv, Working
    <3>8. \A b, n : Holds(b, n)' <=> (Holds(b, n) \/ (b = new /\ n \in Ids(taken)))
      BY <3>1, <3>6, <3>7 DEF Holds
    <3>9. \A b, n : Holds(b, n) => b <= batch_counter
      BY <1>a, HoldersType DEF Holds
    <3> DEFINE old == Sealed
               d == Drained
    <3>10. old \in 0..MaxTx /\ d \in Nat /\ old + d <= MaxTx
      BY <1>b, <3>3, <3>4
    <3>11. /\ \A b \in BatchIds, n \in 1..MaxTx : Holds(b, n) => n <= old /\ n \notin failed
           /\ \A n \in failed : n <= old
           /\ \A n \in 1..old : n \in failed \/ \E b \in BatchIds : Holds(b, n)
           /\ \A b, c \in BatchIds, m, n \in 1..MaxTx :
                Holds(b, m) /\ Holds(c, n) /\ b < c => m < n
           /\ failed \subseteq 1..MaxTx
      BY <1>a DEF PlaceInv, TypeOK
    <3>12. /\ Ids(taken) = old + 1 .. old + d
           /\ failed' = failed /\ Sealed' = old + d
           /\ batch_counter \in Nat /\ new = batch_counter + 1 /\ BatchIds \subseteq Nat
      BY <1>b, <3>1, <3>2, <3>4 DEF BatchIds
    <3> HIDE DEF old, d, new
    <3>13. \A b \in BatchIds, n \in 1..MaxTx :
              Holds(b, n)' => n <= old + d /\ n \notin failed
      BY <3>8, <3>10, <3>11, <3>12
    <3>14. \A n \in failed : n <= old + d
      BY <3>10, <3>11
    <3>15. \A n \in 1..old + d : n \in failed \/ \E b \in BatchIds : Holds(b, n)'
      <4> SUFFICES ASSUME NEW n \in 1..old + d, n \notin failed
                   PROVE  \E b \in BatchIds : Holds(b, n)'
        OBVIOUS
      <4>1. CASE n \in 1..old
        BY <3>8, <3>11, <4>1
      <4>2. CASE n \in old + 1 .. old + d
        BY <3>5, <3>8, <3>12, <4>2
      <4> QED
        BY <3>10, <4>1, <4>2
    <3>16. ASSUME NEW b \in BatchIds, NEW c \in BatchIds, NEW m \in 1..MaxTx,
                  NEW n \in 1..MaxTx, Holds(b, m)', Holds(c, n)', b < c
           PROVE  m < n
      <4>1. CASE Holds(c, n)
        <5>1. Holds(b, m)
          BY <3>8, <3>9, <3>12, <3>16, <4>1
        <5> QED
          BY <3>11, <3>16, <4>1, <5>1
      <4>2. CASE c = new /\ n \in old + 1 .. old + d
        <5>1. Holds(b, m)
          BY <3>8, <3>12, <3>16, <4>2
        <5>2. m <= old
          BY <3>11, <5>1
        <5> QED
          BY <3>10, <4>2, <5>2
      <4> QED
        BY <3>8, <3>12, <3>16, <4>1, <4>2
    <3> QED
      BY <3>12, <3>13, <3>14, <3>15, <3>16 DEF PlaceInv
  <2> QED
    BY <1>6, <2>1, <2>2 DEF check_and_seal_batch
<1>7. ASSUME NEW t \in Tasks, JobStep(t) PROVE PlaceInv'
  <2>1. Sealed' = Sealed
    BY <1>7 DEF JobStep, ProveOk, OpenProof, FillProof, OpenTrace, FillTrace, Record,
                Broadcast, JobFails, UnchangedQueue, Sealed
  <2>2. ASSUME NEW from, NEW to, Advance(t, from, to), proofs' = proofs, failed' = failed
        PROVE  PlaceInv'
    <3>1. jobs' = [jobs EXCEPT ![t].step = to]
      BY <2>2 DEF Advance
    <3>2. /\ jobs'[t].batch_id = jobs[t].batch_id /\ jobs'[t].txs = jobs[t].txs
          /\ \A u \in Tasks : u # t => jobs'[u] = jobs[u]
      BY <1>a, <3>1 DEF TypeOK
    <3> QED
      BY <1>1, <1>3, <2>1, <2>2, <3>2
  <2>3. CASE ProveOk(t) \/ OpenProof(t) \/ FillProof(t) \/ OpenTrace(t) \/ FillTrace(t)
    BY <2>2, <2>3 DEF ProveOk, OpenProof, FillProof, OpenTrace, FillTrace
  <2>4. CASE Record(t)
    <3> DEFINE rec == [batch_id |-> jobs[t].batch_id, txs |-> jobs[t].txs]
    <3>1. PICK j : j.txs = <<>> /\ jobs' = [jobs EXCEPT ![t] = j]
      BY <2>4 DEF Record, Idle
    <3>2. proofs' = Append(proofs, rec) /\ failed' = failed
      BY <2>4 DEF Record
    <3>3. /\ Ids(jobs'[t].txs) = {}
          /\ \A u \in Tasks : u # t => jobs'[u] = jobs[u]
      BY <1>b, <3>1, NoIds
    <3>4. proofs \in Seq([batch_id : BatchIds, txs : Seq(Tx)])
      BY <1>a DEF TypeOK
    <3>5. rec.batch_id = jobs[t].batch_id /\ rec.txs = jobs[t].txs
      OBVIOUS
    <3> HIDE DEF rec
    <3>6. /\ DOMAIN proofs' = DOMAIN proofs \cup {Len(proofs) + 1}
          /\ Len(proofs) + 1 \notin DOMAIN proofs
          /\ proofs'[Len(proofs) + 1] = rec
          /\ \A i \in DOMAIN proofs : proofs'[i] = proofs[i]
      BY <3>2, <3>4
    <3>7. \A b \in BatchIds, n \in 1..MaxTx : Holds(b, n)' <=> Holds(b, n)
      BY <3>3, <3>5, <3>6 DEF Holds
    <3> QED
      BY <1>1, <2>1, <3>2, <3>7
  <2>5. CASE Broadcast(t)
    <3>1. /\ jobs' = [jobs EXCEPT ![t] = Idle] /\ proofs' = proofs /\ failed' = failed
          /\ jobs[t].step = "broadcast"
      BY <2>5 DEF Broadcast
    <3>2. /\ Ids(jobs'[t].txs) = {} /\ Ids(jobs[t].txs) = {}
          /\ \A u \in Tasks : u # t => jobs'[u] = jobs[u]
      BY <1>a, <1>b, <3>1, NoIds DEF Idle, JobsInv, Working
    <3>3. \A b \in BatchIds, n \in 1..MaxTx : Holds(b, n)' <=> Holds(b, n)
      BY <3>1, <3>2 DEF Holds
    <3> QED
      BY <1>1, <2>1, <3>1, <3>3
  <2>6. CASE JobFails(t)
    <3> DEFINE lost == Ids(jobs[t].txs)
    <3>1. /\ jobs' = [jobs EXCEPT ![t] = Idle] /\ proofs' = proofs
          /\ failed' = failed \cup lost
      BY <2>6 DEF JobFails
    <3>2. /\ Ids(jobs'[t].txs) = {}
          /\ \A u \in Tasks : u # t => jobs'[u] = jobs[u]
      BY <1>b, <3>1, NoIds DEF Idle
    <3>3. \A b, n : Holds(b, n)' => Holds(b, n) /\ n \notin lost
      BY <3>1, <3>2, HolderUnique DEF Holds
    <3>4. \A b, n : Holds(b, n) /\ n \notin lost => Holds(b, n)'
      BY <3>1, <3>2 DEF Holds
    <3>5. \A n \in lost : jobs[t].batch_id \in BatchIds /\ n \in 1..MaxTx
                           /\ Holds(jobs[t].batch_id, n)
      BY <1>a, HoldersType DEF Holds
    <3> HIDE DEF lost
    <3>6. \A n \in failed' : n <= Sealed
      BY <1>a, <3>1, <3>5 DEF PlaceInv
    <3>7. \A b \in BatchIds, n \in 1..MaxTx : Holds(b, n)' => n <= Sealed /\ n \notin failed'
      BY <1>a, <3>1, <3>3 DEF PlaceInv
    <3>8. \A n \in 1..Sealed : n \in failed' \/ \E b \in BatchIds : Holds(b, n)'
      BY <1>a, <3>1, <3>4 DEF PlaceInv
    <3>9. \A b, c \in BatchIds, m, n \in 1..MaxTx :
             Holds(b, m)' /\ Holds(c, n)' /\ b < c => m < n
      BY <1>a, <3>3 DEF PlaceInv
    <3> QED
      BY <2>1, <3>6, <3>7, <3>8, <3>9 DEF PlaceInv
  <2> QED
    BY <1>7, <2>3, <2>4, <2>5, <2>6 DEF JobStep
<1>8. CASE Restart
  <2>1. /\ proofs' = <<>> /\ failed' = {} /\ pending_txs' = <<>> /\ tx_counter' = 0
        /\ \A t \in Tasks : jobs'[t] = Idle
    BY <1>8 DEF Restart
  <2>2. Sealed' = 0
    <3>1. Len(pending_txs') = 0 /\ tx_counter' = 0
      BY <2>1
    <3> QED
      BY <3>1 DEF Sealed
  <2>3. \A b, n : ~Holds(b, n)'
    BY <2>1, NoIds DEF Holds, Idle
  <2> QED
    BY <2>1, <2>2, <2>3 DEF PlaceInv
<1>9. CASE UNCHANGED vars
  <2>1. UNCHANGED <<jobs, proofs, failed, pending_txs, tx_counter>>
    BY <1>9 DEF vars
  <2>2. Sealed' = Sealed
    BY <2>1 DEF Sealed
  <2> QED
    BY <1>1, <1>2, <2>1, <2>2
<1> QED
  BY <1>4, <1>5, <1>6, <1>7, <1>8, <1>9 DEF Next, TickerCheck, forceSeal, Tasks

\* The inductive invariant of the node.
LEMMA Invariance == Spec => []Inv
<1>1. Init => QueueInv /\ PlaceInv
  <2> SUFFICES ASSUME Init PROVE QueueInv /\ PlaceInv
    OBVIOUS
  <2>1. /\ proofs = <<>> /\ failed = {} /\ pending_txs = <<>> /\ tx_counter = 0
        /\ \A t \in Tasks : jobs[t] = Idle
    BY DEF Init
  <2>2. Sealed = 0
    <3>1. Len(pending_txs) = 0 /\ tx_counter = 0
      BY <2>1
    <3> QED
      BY <3>1 DEF Sealed
  <2>3. \A b, n : ~Holds(b, n)
    BY <2>1, NoIds DEF Holds, Idle
  <2>4. PlaceInv
    BY <2>1, <2>2, <2>3 DEF PlaceInv
  <2>5. QueueInv
    BY <2>1 DEF QueueInv
  <2> QED
    BY <2>4, <2>5
<1>2. Init => Inv
  BY <1>1, InitType, InitDisk DEF Inv
<1>3. Inv /\ [Next]_vars => Inv'
  BY TypeInductive, DiskInductive, QueueInductive, PlaceInductive DEF Inv
<1> QED
  BY <1>2, <1>3, PTL DEF Spec

\* A transaction is in the queue iff it has not been sealed.
LEMMA QueuedIds ==
  ASSUME Inv, NEW n \in 1..tx_counter
  PROVE  n \in Ids(pending_txs) <=> n > Sealed
<1>1. /\ TypeOK /\ QueueInv
      /\ DOMAIN pending_txs = 1..Len(pending_txs) /\ Len(pending_txs) \in Nat
      /\ tx_counter \in Nat /\ Len(pending_txs) <= tx_counter
  BY DrainedType, ValidatorAssumptions DEF Inv, TypeInv, TypeOK, QueueInv
<1>2. \A i \in 1..Len(pending_txs) : pending_txs[i].tx_id = Sealed + i
  BY <1>1 DEF QueueInv, Sealed
<1> DEFINE base == Sealed
           len == Len(pending_txs)
<1>3. base \in Nat /\ len \in Nat /\ base + len = tx_counter /\ DOMAIN pending_txs = 1..len
      /\ \A i \in 1..len : pending_txs[i].tx_id = base + i
  BY <1>1, <1>2 DEF Sealed
<1>4. n \in Ids(pending_txs) <=> \E i \in 1..len : pending_txs[i].tx_id = n
  BY <1>3 DEF Ids
<1> HIDE DEF base, len
<1>5. ASSUME n > base PROVE \E i \in 1..len : pending_txs[i].tx_id = n
  <2>1. n - base \in 1..len /\ base + (n - base) = n
    BY <1>3, <1>5
  <2> QED
    BY <1>3, <2>1
<1>6. ASSUME NEW i \in 1..len, pending_txs[i].tx_id = n PROVE n > base
  BY <1>3, <1>6
<1> QED
  BY <1>4, <1>5, <1>6 DEF base

\* However the ticker and any number of forceSeal handlers interleave, fail
\* and restart, an acknowledged transaction is in exactly one place.
THEOREM TransactionsInOnePlace == Spec => []TxInOnePlace
<1>1. ASSUME Inv PROVE TxInOnePlace
  <2> SUFFICES ASSUME NEW n \in 1..tx_counter
               PROVE
                 LET queued   == n \in Ids(pending_txs)
                     inFlight == {t \in Tasks : n \in Ids(jobs[t].txs)}
                     proved   == {i \in DOMAIN proofs : n \in Ids(proofs[i].txs)}
                     lost     == n \in failed
                 IN  \/ queued  /\ inFlight = {} /\ proved = {} /\ ~lost
                     \/ ~queued /\ Cardinality(inFlight) = 1 /\ proved = {} /\ ~lost
                     \/ ~queued /\ inFlight = {} /\ Cardinality(proved) = 1 /\ ~lost
                     \/ ~queued /\ inFlight = {} /\ proved = {} /\ lost
    BY DEF TxInOnePlace
  <2> DEFINE inFlight == {t \in Tasks : n \in Ids(jobs[t].txs)}
             proved   == {i \in DOMAIN proofs : n \in Ids(proofs[i].txs)}
  <2>1. TypeInv /\ TypeOK /\ DiskInv /\ QueueInv /\ PlaceInv
    BY <1>1 DEF Inv, TypeInv
  <2>2. /\ tx_counter \in 0..MaxTx /\ MaxTx \in Nat
        /\ Len(pending_txs) \in Nat /\ Len(pending_txs) <= tx_counter
    BY <2>1, DrainedType, ValidatorAssumptions DEF TypeOK, QueueInv
  <2>3. n \in 1..MaxTx /\ Sealed \in Nat
    BY <2>2 DEF Sealed
  <2>4. \A t \in inFlight : jobs[t].batch_id \in BatchIds /\ Holds(jobs[t].batch_id, n)
    BY <2>1, HoldersType DEF Holds
  <2>5. \A i \in proved : proofs[i].batch_id \in BatchIds /\ Holds(proofs[i].batch_id, n)
    BY <2>1, HoldersType DEF Holds
  <2>6. n \in Ids(pending_txs) <=> n > Sealed
    BY <1>1, QueuedIds
  <2>7. /\ \A b \in BatchIds : Holds(b, n) => n <= Sealed /\ n \notin failed
        /\ n \in failed => n <= Sealed
        /\ n <= Sealed => n \in failed \/ \E b \in BatchIds : Holds(b, n)
    BY <2>1, <2>2, <2>3 DEF PlaceInv
  <2>8. \A t \in inFlight : inFlight = {t} /\ proved = {}
    BY <1>1, HolderUnique
  <2>9. \A i \in proved : proved = {i} /\ inFlight = {}
    BY <1>1, HolderUnique
  <2>10. \A b : Holds(b, n) => inFlight # {} \/ proved # {}
    BY DEF Holds
  <2> HIDE DEF inFlight, proved
  <2>11. CASE n > Sealed
    BY <2>2, <2>3, <2>4, <2>5, <2>6, <2>7, <2>11 DEF inFlight, proved
  <2>12. CASE n <= Sealed /\ n \in failed
    BY <2>2, <2>3, <2>4, <2>5, <2>6, <2>7, <2>12 DEF inFlight, proved
  <2>13. CASE n <= Sealed /\ inFlight # {}
    <3>1. PICK t : t \in inFlight
      BY <2>13
    <3>2. inFlight = {t} /\ proved = {} /\ n \notin failed
      BY <2>4, <2>7, <2>8, <3>1
    <3>3. Cardinality(inFlight) = 1
      BY <3>2, FS_Singleton
    <3>4. n \notin Ids(pending_txs)
      BY <2>3, <2>6, <2>13
    <3> QED
      BY <3>2, <3>3, <3>4 DEF inFlight, proved
  <2>14. CASE n <= Sealed /\ proved # {}
    <3>1. PICK i : i \in proved
      BY <2>14
    <3>2. proved = {i} /\ inFlight = {} /\ n \notin failed
      BY <2>5, <2>7, <2>9, <3>1
    <3>3. Cardinality(proved) = 1
      BY <3>2, FS_Singleton
    <3>4. n \notin Ids(pending_txs)
      BY <2>3, <2>6, <2>14
    <3> QED
      BY <3>2, <3>3, <3>4 DEF inFlight, proved
  <2> QED
    BY <2>2, <2>3, <2>7, <2>10, <2>11, <2>12, <2>13, <2>14
<1> QED
  BY <1>1, Invariance, PTL

\* Whichever tasks seal them and however long each takes to prove, batches
\* with larger numbers hold later transactions.
THEOREM BatchesInOrder == Spec => []SealedInOrder
<1>1. ASSUME Inv PROVE SealedInOrder
  <2> DEFINE Batches ==
               {<<jobs[t].batch_id, Ids(jobs[t].txs)>> : t \in InFlight}
               \cup {<<proofs[i].batch_id, Ids(proofs[i].txs)>> : i \in DOMAIN proofs}
  <2>1. TypeInv /\ DiskInv /\ QueueInv /\ PlaceInv
    BY <1>1 DEF Inv
  <2>2. ASSUME NEW x \in Batches, NEW n \in x[2]
        PROVE  n \in 1..MaxTx /\ x[1] \in BatchIds /\ Holds(x[1], n)
    <3>1. CASE \E t \in InFlight : x = <<jobs[t].batch_id, Ids(jobs[t].txs)>>
      BY <2>1, <2>2, <3>1, HoldersType DEF InFlight, Holds
    <3>2. CASE \E i \in DOMAIN proofs : x = <<proofs[i].batch_id, Ids(proofs[i].txs)>>
      BY <2>1, <2>2, <3>2, HoldersType DEF Holds
    <3> QED
      BY <2>2, <3>1, <3>2
  <2> HIDE DEF Batches
  <2>3. \A x, y \in Batches : x[1] < y[1] => \A m \in x[2], n \in y[2] : m < n
    BY <2>1, <2>2 DEF PlaceInv
  <2>4. \A i \in DOMAIN pending_txs :
           pending_txs[i].tx_id = tx_counter - Len(pending_txs) + i
    BY <2>1 DEF QueueInv
  <2> QED
    BY <2>3, <2>4 DEF SealedInOrder, Batches
<1> QED
  BY <1>1, Invariance, PTL

-----------------------------------------------------------------------------
(* The ledger.                                                             *)

QueuedView == [i \in DOMAIN pending_txs |-> pending_txs[i].tx_id]
InflightView == {Ids(jobs[t].txs) : t \in Tasks} \ {{}}
ProvedView == {Ids(proofs[i].txs) : i \in DOMAIN proofs}

\* The batch of a task leaves the batches in flight as a whole.
LEMMA BatchLeaves ==
  ASSUME Inv, NEW t \in Tasks, Ids(jobs[t].txs) # {},
         Ids(jobs'[t].txs) = {}, \A u \in Tasks : u # t => jobs'[u] = jobs[u]
  PROVE  /\ Ids(jobs[t].txs) \in InflightView
         /\ InflightView' = InflightView \ {Ids(jobs[t].txs)}
<1> DEFINE b == Ids(jobs[t].txs)
<1>1. b \in InflightView
  BY DEF InflightView
<1>2. \A u \in Tasks : u # t => Ids(jobs[u].txs) # b
  BY HolderUnique
<1>3. \A x : x \in InflightView' <=> x # {} /\ \E u \in Tasks : x = Ids(jobs'[u].txs)
  BY DEF InflightView
<1>4. \A x : x \in InflightView <=> x # {} /\ \E u \in Tasks : x = Ids(jobs[u].txs)
  BY DEF InflightView
<1> HIDE DEF b
<1>5. \A x : x \in InflightView' <=> x \in InflightView /\ x # b
  BY <1>2, <1>3, <1>4 DEF b
<1>6. InflightView' = InflightView \ {b}
  BY <1>5
<1> QED
  BY <1>1, <1>6 DEF b

\* Sealing takes the front of the queue as one new batch; a seal that drains
\* nothing (--batch-size 0) is not seen from the ledger.
LEMMA SealRefines ==
  ASSUME Inv, NEW t \in Tasks, check_and_seal_batch(t)
  PROVE  Ledger!LedgerNext \/ UNCHANGED Ledger!ledger
<1>1. TypeInv /\ TypeOK /\ DiskInv /\ QueueInv /\ JobsInv
  BY DEF Inv, TypeInv, DiskInv
<1>2. CASE UNCHANGED <<pending_txs, batch_counter, jobs>>
  <2>1. UNCHANGED <<jobs, proofs, failed, pending_txs, tx_counter>>
    BY <1>2 DEF check_and_seal_batch
  <2> QED
    BY <2>1 DEF Ledger!ledger
<1>3. CASE SealsNow /\ batch_counter < MaxBatches
  <2> DEFINE taken == [i \in 1..Drained |-> [tx_id |-> pending_txs[i].tx_id,
                                              payload |-> pending_txs[i].payload]]
             d == Drained
             len == Len(pending_txs)
  <2>1. /\ jobs[t].step = "idle" /\ pending_txs' = Undrained
        /\ jobs' = [jobs EXCEPT ![t] = [step |-> "prove", batch_id |-> NextBatchId,
                                         txs |-> taken]]
        /\ UNCHANGED <<tx_counter, proofs, failed>>
    BY <1>3 DEF check_and_seal_batch
  <2>2. /\ DOMAIN pending_txs = 1..len /\ len \in Nat /\ d \in 0..len /\ len - d \in Nat
    BY <1>1, DrainedType
  <2>3. /\ Undrained \in Seq(PendingTx) /\ Len(Undrained) = len - d
        /\ \A i \in 1..len - d : Undrained[i] = pending_txs[d + i]
    BY <1>1, DrainTypes
  <2>4. DOMAIN Undrained = 1..len - d
    BY <2>3
  <2>5. DOMAIN jobs = Tasks
    BY <1>1 DEF TypeOK
  <2>6. Ids(jobs[t].txs) = {}
    BY <1>1, <2>1, NoIds DEF JobsInv, Working
  <2>7. Ids(taken) = {pending_txs[i].tx_id : i \in 1..d}
    BY DEF Ids
  <2> HIDE DEF taken
  <2>8. /\ jobs'[t].txs = taken
        /\ \A u \in Tasks : u # t => jobs'[u] = jobs[u]
    BY <2>1, <2>5
  <2>9. DOMAIN QueuedView = 1..len /\ QueuedView = [i \in 1..len |-> pending_txs[i].tx_id]
    BY <2>2 DEF QueuedView
  <2>10. QueuedView' = [i \in 1..len - d |-> pending_txs[d + i].tx_id]
    BY <2>1, <2>3, <2>4 DEF QueuedView
  <2>11. \A i \in 1..len : pending_txs[i].tx_id \in 1..MaxTx
    <3>1. pending_txs \in Seq(PendingTx)
      BY <1>1 DEF TypeOK
    <3>2. \A i \in 1..len : pending_txs[i] \in PendingTx
      BY <2>2, <3>1, ElementOfSeq
    <3> QED
      BY <3>2 DEF PendingTx
  <2> HIDE DEF d, len
  <2>12. QueuedView \in Seq(1..MaxTx) /\ Len(QueuedView) = len
    <3>1. QueuedView \in [1..len -> 1..MaxTx]
      BY <2>9, <2>11
    <3>2. len \in Nat
      BY <2>2
    <3> QED
      BY <3>1, <3>2, FunctionIsSeq
  <2>13. QueuedView' = SubSeq(QueuedView, d + 1, len)
    <3> DEFINE rest == SubSeq(QueuedView, d + 1, len)
    <3>1. \A i \in d + 1 .. len : QueuedView[i] \in 1..MaxTx
      BY <2>2, <2>9, <2>11
    <3>2. /\ rest \in Seq(1..MaxTx)
          /\ Len(rest) = IF d + 1 <= len THEN len - (d + 1) + 1 ELSE 0
          /\ \A i \in 1 .. len - (d + 1) + 1 : rest[i] = QueuedView[d + 1 + i - 1]
      BY <2>2, <3>1, SubSeqProperties
    <3> HIDE DEF rest
    <3>3. Len(rest) = len - d /\ \A i \in 1..len - d : rest[i] = QueuedView[d + i]
      BY <2>2, <3>2
    <3>4. DOMAIN rest = 1..len - d /\ rest = [i \in 1..len - d |-> rest[i]]
      BY <3>2, <3>3
    <3>5. \A i \in 1..len - d : rest[i] = pending_txs[d + i].tx_id
      BY <2>2, <2>9, <3>3
    <3>6. rest = [i \in 1..len - d |-> pending_txs[d + i].tx_id]
      BY <3>4, <3>5
    <3> QED
      BY <2>10, <3>6 DEF rest
  <2>14. CASE d = 0
    <3>1. Ids(taken) = {}
      BY <2>7, <2>14
    <3>2. QueuedView' = QueuedView
      BY <2>2, <2>9, <2>10, <2>14
    <3>3. \A u \in Tasks : Ids(jobs'[u].txs) = Ids(jobs[u].txs)
      BY <2>6, <2>8, <3>1
    <3>4. InflightView' = InflightView
      BY <3>3 DEF InflightView
    <3> QED
      BY <2>1, <3>2, <3>4 DEF Ledger!ledger, QueuedView, InflightView
  <2>15. CASE d # 0
    <3>1. Ids(taken) = {QueuedView[i] : i \in 1..d}
      BY <2>2, <2>7, <2>9
    <3>2. Ids(taken) # {}
      <4>1. 1 \in 1..d
        BY <2>2, <2>15
      <4> QED
        BY <2>7, <4>1
    <3>3. \A x : x \in InflightView' <=> x \in InflightView \/ x = Ids(taken)
      <4>1. \A x : x \in InflightView' <=> x # {} /\ \E u \in Tasks : x = Ids(jobs'[u].txs)
        BY DEF InflightView
      <4>2. \A x : x \in InflightView <=> x # {} /\ \E u \in Tasks : x = Ids(jobs[u].txs)
        BY DEF InflightView
      <4> QED
        BY <2>6, <2>8, <3>2, <4>1, <4>2
    <3>4. InflightView' = InflightView \cup {Ids(taken)}
      BY <3>3
    <3>5. d \in 1..Len(QueuedView)
      BY <2>2, <2>12, <2>15
    <3>6. QueuedView' = SubSeq(QueuedView, d + 1, Len(QueuedView))
      BY <2>12, <2>13
    <3>7. ProvedView' = ProvedView
      BY <2>1 DEF ProvedView
    <3>8. InflightView' = InflightView \cup {{QueuedView[i] : i \in 1..d}}
      BY <3>1, <3>4
    <3>9. PICK n \in 1..Len(QueuedView) : n = d
      BY <3>5
    <3>10. Ledger!Seal(n)
      BY <2>1, <3>6, <3>7, <3>8, <3>9
      DEF Ledger!Seal, QueuedView, InflightView, ProvedView
    <3> QED
      BY <3>10 DEF Ledger!LedgerNext, QueuedView
  <2> QED
    BY <2>14, <2>15
<1> QED
  BY <1>2, <1>3 DEF check_and_seal_batch

\* A batch is settled as a whole, when it is recorded or when it fails.
LEMMA JobRefines ==
  ASSUME Inv, NEW t \in Tasks, JobStep(t)
  PROVE  Ledger!LedgerNext \/ UNCHANGED Ledger!ledger
<1> DEFINE b == Ids(jobs[t].txs)
<1>1. TypeInv /\ TypeOK /\ DiskInv /\ JobsInv /\ DOMAIN jobs = Tasks
  BY DEF Inv, TypeInv, DiskInv, TypeOK
<1>2. UNCHANGED <<pending_txs, tx_counter>>
  BY DEF JobStep, ProveOk, OpenProof, FillProof, OpenTrace, FillTrace, Record,
         Broadcast, JobFails, UnchangedQueue
<1>3. ASSUME \A u \in Tasks : Ids(jobs'[u].txs) = Ids(jobs[u].txs),
             UNCHANGED <<proofs, failed>>
      PROVE  UNCHANGED Ledger!ledger
  <2>1. InflightView' = InflightView
    BY <1>3 DEF InflightView
  <2> QED
    BY <1>2, <1>3, <2>1 DEF Ledger!ledger, InflightView
<1>4. ASSUME NEW from, NEW to, Advance(t, from, to), UNCHANGED <<proofs, failed>>
      PROVE  UNCHANGED Ledger!ledger
  <2>1. jobs' = [jobs EXCEPT ![t].step = to]
    BY <1>4 DEF Advance
  <2>2. \A u \in Tasks : jobs'[u].txs = jobs[u].txs
    BY <1>1, <2>1 DEF TypeOK
  <2> QED
    BY <1>3, <1>4, <2>2
<1>5. CASE ProveOk(t) \/ OpenProof(t) \/ FillProof(t) \/ OpenTrace(t) \/ FillTrace(t)
  BY <1>4, <1>5 DEF ProveOk, OpenProof, FillProof, OpenTrace, FillTrace
<1>6. CASE Record(t)
  <2> DEFINE rec == [batch_id |-> jobs[t].batch_id, txs |-> jobs[t].txs]
  <2>1. PICK j : j.txs = <<>> /\ jobs' = [jobs EXCEPT ![t] = j]
    BY <1>6 DEF Record, Idle
  <2>2. proofs' = Append(proofs, rec) /\ failed' = failed /\ jobs[t].step = "record"
    BY <1>6 DEF Record
  <2>3. /\ Ids(jobs'[t].txs) = {}
        /\ \A u \in Tasks : u # t => jobs'[u] = jobs[u]
    BY <1>1, <2>1, NoIds
  <2>4. b # {}
    <3>1. jobs[t].txs # <<>> /\ jobs[t].txs \in Seq(Tx)
      BY <1>1, <2>2 DEF JobsInv, Working, TypeOK
    <3>2. 1 \in DOMAIN jobs[t].txs
      BY <3>1
    <3> QED
      BY <3>2 DEF Ids
  <2>5. b \in InflightView /\ InflightView' = InflightView \ {b}
    BY <2>3, <2>4, BatchLeaves
  <2>6. rec.txs = jobs[t].txs
    OBVIOUS
  <2> HIDE DEF rec
  <2>7. /\ DOMAIN proofs' = DOMAIN proofs \cup {Len(proofs) + 1}
        /\ proofs'[Len(proofs) + 1] = rec
        /\ \A i \in DOMAIN proofs : proofs'[i] = proofs[i]
    <3>1. proofs \in Seq([batch_id : BatchIds, txs : Seq(Tx)])
      BY <1>1 DEF TypeOK
    <3> QED
      BY <2>2, <3>1
  <2>8. \A x : x \in ProvedView' <=> x \in ProvedView \/ x = b
    <3>1. \A x : x \in ProvedView' <=> \E i \in DOMAIN proofs' : x = Ids(proofs'[i].txs)
      BY DEF ProvedView
    <3>2. \A x : x \in ProvedView <=> \E i \in DOMAIN proofs : x = Ids(proofs[i].txs)
      BY DEF ProvedView
    <3> QED
      BY <2>6, <2>7, <3>1, <3>2
  <2>9. ProvedView' = ProvedView \cup {b}
    BY <2>8
  <2> HIDE DEF b
  <2>10. Ledger!Settle(b)
    BY <1>2, <2>2, <2>5, <2>9 DEF Ledger!Settle, InflightView, ProvedView
  <2> QED
    BY <2>5, <2>10 DEF Ledger!LedgerNext, InflightView
<1>7. CASE Broadcast(t)
  <2>1. /\ jobs' = [jobs EXCEPT ![t] = Idle] /\ UNCHANGED <<proofs, failed>>
        /\ jobs[t].step = "broadcast"
    BY <1>7 DEF Broadcast
  <2>2. jobs[t].txs = <<>> /\ jobs'[t].txs = <<>>
    BY <1>1, <2>1 DEF JobsInv, Working, Idle
  <2>3. \A u \in Tasks : Ids(jobs'[u].txs) = Ids(jobs[u].txs)
    BY <1>1, <2>1, <2>2
  <2> QED
    BY <1>3, <2>1, <2>3
<1>8. CASE JobFails(t)
  <2>1. /\ jobs' = [jobs EXCEPT ![t] = Idle] /\ proofs' = proofs
        /\ failed' = failed \cup b
    BY <1>8 DEF JobFails
  <2>2. /\ Ids(jobs'[t].txs) = {}
        /\ \A u \in Tasks : u # t => jobs'[u] = jobs[u]
    BY <1>1, <2>1, NoIds DEF Idle
  <2>3. CASE b = {}
    <3>1. \A u \in Tasks : Ids(jobs'[u].txs) = Ids(jobs[u].txs)
      BY <2>2, <2>3
    <3>2. failed' = failed
      BY <2>1, <2>3
    <3> QED
      BY <1>3, <2>1, <3>1, <3>2
  <2>4. CASE b # {}
    <3>1. b \in InflightView /\ InflightView' = InflightView \ {b}
      BY <2>2, <2>4, BatchLeaves
    <3> HIDE DEF b
    <3>2. Ledger!Settle(b)
      BY <1>2, <2>1, <3>1 DEF Ledger!Settle, InflightView
    <3> QED
      BY <3>1, <3>2 DEF Ledger!LedgerNext, InflightView
  <2> QED
    BY <2>3, <2>4
<1> QED
  BY <1>5, <1>6, <1>7, <1>8 DEF JobStep

\* The validator implements the ledger of its transactions: ids in order into
\* the queue, batches off its front, each settled once and as a whole.
THEOREM LedgerImplemented == Spec => ImplementsLedger
<1>1. Init => Ledger!Empty
  <2> SUFFICES ASSUME Init PROVE Ledger!Empty
    OBVIOUS
  <2>1. /\ pending_txs = <<>> /\ tx_counter = 0 /\ proofs = <<>> /\ failed = {}
        /\ \A t \in Tasks : jobs[t].txs = <<>>
    BY DEF Init, Idle
  <2>2. InflightView = {}
    BY <2>1, NoIds DEF InflightView
  <2>3. QueuedView = <<>>
    BY <2>1 DEF QueuedView
  <2>4. ProvedView = {}
    BY <2>1 DEF ProvedView
  <2> QED
    BY <2>1, <2>2, <2>3, <2>4 DEF Ledger!Empty, InflightView, QueuedView, ProvedView
<1>2. ASSUME Inv, [Next]_vars PROVE [Ledger!LedgerNext]_(Ledger!ledger)
  <2>a. TypeOK /\ pending_txs \in Seq(PendingTx)
        /\ DOMAIN pending_txs = 1..Len(pending_txs) /\ Len(pending_txs) \in Nat
    BY <1>2, DrainedType DEF Inv, TypeInv, TypeOK
  <2>1. ASSUME NEW p \in Payloads, submit_transaction(p) PROVE Ledger!LedgerNext
    <3> DEFINE tx == [tx_id |-> tx_counter + 1, payload |-> p, age |-> 0]
               len == Len(pending_txs)
    <3>1. /\ tx_counter' = tx_counter + 1 /\ pending_txs' = Append(pending_txs, tx)
          /\ UNCHANGED <<jobs, proofs, failed>>
      BY <2>1 DEF submit_transaction
    <3>2. tx.tx_id = tx_counter + 1
      OBVIOUS
    <3> HIDE DEF tx
    <3>3. /\ DOMAIN pending_txs' = 1..len + 1 /\ pending_txs'[len + 1] = tx
          /\ \A i \in 1..len : pending_txs'[i] = pending_txs[i]
      BY <2>a, <3>1
    <3>4. QueuedView = [i \in 1..len |-> pending_txs[i].tx_id]
      BY <2>a DEF QueuedView
    <3>5. QueuedView' = [i \in 1..len + 1 |-> pending_txs'[i].tx_id]
      BY <3>3 DEF QueuedView
    <3>a. len \in Nat
      BY <2>a
    <3> HIDE DEF len
    <3>6. Append(QueuedView, tx_counter + 1)
            = [i \in 1..len + 1 |-> IF i = len + 1 THEN tx_counter + 1
                                    ELSE pending_txs[i].tx_id]
      BY <3>4, <3>a
    <3>7. QueuedView' = Append(QueuedView, tx_counter + 1)
      <4>1. \A i \in 1..len + 1 :
               pending_txs'[i].tx_id = IF i = len + 1 THEN tx_counter + 1
                                       ELSE pending_txs[i].tx_id
        BY <3>2, <3>3, <3>a
      <4>2. QueuedView' = [i \in 1..len + 1 |-> IF i = len + 1 THEN tx_counter + 1
                                                ELSE pending_txs[i].tx_id]
        BY <3>5, <4>1
      <4> QED
        BY <3>6, <4>2
    <3>8. Ledger!Submit
      BY <3>1, <3>7 DEF Ledger!Submit, QueuedView
    <3> QED
      BY <3>8 DEF Ledger!LedgerNext
  <2>2. CASE Tick \/ ClockStepsBack
    <3>1. UNCHANGED <<tx_counter, jobs, proofs, failed>>
      BY <2>2 DEF Tick, ClockStepsBack
    <3>2. QueuedView' = QueuedView
      <4>1. /\ DOMAIN pending_txs' = DOMAIN pending_txs
            /\ \A i \in DOMAIN pending_txs : pending_txs'[i].tx_id = pending_txs[i].tx_id
        <5>1. \A i \in DOMAIN pending_txs : pending_txs[i] \in PendingTx
          BY <2>a, ElementOfSeq
        <5>2. CASE Tick
          BY <5>1, <5>2 DEF Tick, PendingTx
        <5>3. CASE ClockStepsBack
          BY <5>1, <5>3 DEF ClockStepsBack, PendingTx
        <5> QED
          BY <2>2, <5>2, <5>3
      <4> QED
        BY <4>1 DEF QueuedView
    <3> QED
      BY <3>1, <3>2 DEF Ledger!ledger, QueuedView
  <2>3. CASE Restart
    <3>1. /\ pending_txs' = <<>> /\ tx_counter' = 0 /\ proofs' = <<>> /\ failed' = {}
          /\ \A t \in Tasks : jobs'[t].txs = <<>>
      BY <2>3 DEF Restart, Idle
    <3>2. InflightView' = {}
      BY <3>1, NoIds DEF InflightView
    <3>3. QueuedView' = <<>>
      BY <3>1 DEF QueuedView
    <3>4. ProvedView' = {}
      BY <3>1 DEF ProvedView
    <3>5. Ledger!Forget
      BY <3>1, <3>2, <3>3, <3>4 DEF Ledger!Forget, InflightView, QueuedView, ProvedView
    <3> QED
      BY <3>5 DEF Ledger!LedgerNext
  <2>4. CASE UNCHANGED vars
    <3>1. UNCHANGED <<jobs, proofs, failed, pending_txs, tx_counter>>
      BY <2>4 DEF vars
    <3> QED
      BY <3>1 DEF Ledger!ledger
  <2>5. ASSUME NEW t \in Tasks, check_and_seal_batch(t)
        PROVE  Ledger!LedgerNext \/ UNCHANGED Ledger!ledger
    BY <1>2, <2>5, SealRefines
  <2>6. ASSUME NEW t \in Tasks, JobStep(t)
        PROVE  Ledger!LedgerNext \/ UNCHANGED Ledger!ledger
    BY <1>2, <2>6, JobRefines
  <2> QED
    BY <1>2, <2>1, <2>2, <2>3, <2>4, <2>5, <2>6 DEF Next, TickerCheck, forceSeal, Tasks
<1> QED
  BY <1>1, <1>2, Invariance, PTL DEF Spec, ImplementsLedger, Ledger!LedgerSpec

-----------------------------------------------------------------------------
(* Sealing and time.                                                       *)

\* The ticker only seals a queue that is not full when its oldest transaction
\* has waited, also when the wall clock has been set back.
THEOREM SealedByCountOrTime == Spec => NoEarlySeal
<1> DEFINE P == ( /\ jobs[Ticker].step = "idle" /\ jobs'[Ticker].step = "prove"
                  /\ Len(pending_txs) < FullAt )
                => ShortestWait = 0 \/ pending_txs[1].age >= ShortestWait
<1>1. TypeInv /\ [Next]_vars => [P]_vars
  <2> SUFFICES ASSUME TypeInv, Next,
                      jobs[Ticker].step = "idle", jobs'[Ticker].step = "prove",
                      Len(pending_txs) < FullAt
               PROVE  ShortestWait = 0 \/ pending_txs[1].age >= ShortestWait
    BY DEF P
  <2>0. /\ jobs \in [Tasks -> [step : Steps, batch_id : 0..MaxBatches, txs : Seq(Tx)]]
        /\ Len(pending_txs) \in Nat
        /\ Ticker \in Tasks
    BY DEF TypeInv, TypeOK, Tasks
  <2>1. SealsNow
    <3>1. ASSUME NEW u \in Tasks, check_and_seal_batch(u)
          PROVE  SealsNow
      BY <2>0, <3>1 DEF check_and_seal_batch
    <3>2. ASSUME NEW u \in Tasks, JobStep(u)
          PROVE  FALSE
      <4>1. \A v \in Tasks : v # u => jobs'[v] = jobs[v]
        BY <2>0, <3>2 DEF JobStep, ProveOk, OpenProof, FillProof, OpenTrace, FillTrace,
           Record, Broadcast, JobFails, Advance
      <4>2. jobs[u].step # "idle"
        BY <3>2 DEF JobStep, ProveOk, OpenProof, FillProof, OpenTrace, FillTrace,
           Record, Broadcast, JobFails, Advance
      <4> QED
        BY <2>0, <4>1, <4>2
    <3>3. CASE (\E p \in Payloads : submit_transaction(p)) \/ Tick \/ ClockStepsBack
      BY <3>3 DEF submit_transaction, Tick, ClockStepsBack
    <3>4. CASE Restart
      BY <2>0, <3>4 DEF Restart, Idle
    <3> QED
      BY <3>1, <3>2, <3>3, <3>4 DEF Next, TickerCheck, forceSeal, Tasks
  <2>2. /\ pending_txs # <<>> /\ Len(pending_txs) > 0
        /\ pending_txs[1].age \in Int
        /\ args.policy \in Policies /\ args.batch_size \in Nat
    <3>1. pending_txs # <<>>
      BY <2>1 DEF SealsNow
    <3>2. pending_txs \in Seq(PendingTx) /\ args \in Args
      BY DEF TypeInv, TypeOK
    <3>3. Len(pending_txs) > 0 /\ pending_txs[1] \in PendingTx
      BY <3>1, <3>2
    <3>4. args.policy \in Policies /\ args.batch_size \in Nat
      BY <3>2, ValidatorAssumptions DEF Args
    <3>5. pending_txs[1].age \in Int
      BY <3>3, ValidatorAssumptions DEF PendingTx
    <3> QED
      BY <3>1, <3>3, <3>4, <3>5
  <2>3. OldestWait(pending_txs[1].age) >= BatchTimeout \/ OldestWait(pending_txs[1].age) >= LatencyBudget
    <3>1. CASE args.policy = "Fixed"
      BY <2>0, <2>1, <2>2, <3>1 DEF SealsNow, should_seal, FixedCountSeals, FullAt
    <3>2. CASE args.policy = "Time"
      BY <2>1, <3>2 DEF SealsNow, should_seal, FixedTimeSeals
    <3>3. CASE args.policy = "Hybrid"
      BY <2>0, <2>1, <2>2, <3>3 DEF SealsNow, should_seal, HybridSeals, FullAt
    <3>4. CASE args.policy = "Adaptive"
      <4>1. InitialThreshold(args.batch_size, MaxCount) = FullAt
        BY <2>0, <2>2, <3>4, ValidatorAssumptions DEF InitialThreshold, FullAt, Least
      <4>2. AdaptiveSeals(Len(pending_txs), OldestWait(pending_txs[1].age), FALSE, FullAt,
                          BatchTimeout, LatencyBudget)
        BY <2>1, <3>4, <4>1 DEF SealsNow, should_seal
      <4>3. FullAt \in Nat
        BY <2>2, ValidatorAssumptions DEF FullAt, Least
      <4> QED
        BY <2>0, <4>2, <4>3 DEF AdaptiveSeals
    <3> QED
      BY <2>2, <3>1, <3>2, <3>3, <3>4 DEF Policies
  <2> QED
    BY <2>2, <2>3, ValidatorAssumptions DEF OldestWait, ShortestWait, Least
<1> QED
  BY <1>1, TypeInvariance, PTL DEF Spec, NoEarlySeal
=============================================================================
