------------------------------ MODULE Pipeline ------------------------------
(***************************************************************************)
(* The benchmark's pipeline (crates/benchmark-cli): a plan of simulations, *)
(* each with a fresh PipelineEngine, a fresh VirtualClock and a generator  *)
(* of the same seed.  ingest routes a transaction to one of two lanes and  *)
(* may seal; sealing drains both lanes, executes, proves and verifies the  *)
(* batch and records its metrics; flush seals what is left.                *)
(*                                                                         *)
(* The engine is sequential, so each call is one step.  Times are in ms.   *)
(* The virtual clock is advanced by the measured duration of proving and   *)
(* verifying, which is wall-clock time and thus any of ProveMs, VerifyMs.  *)
(* StdRng is seeded alike for every simulation: the k-th draw of a         *)
(* scenario is free the first time and the recorded one ever after.        *)
(***************************************************************************)
EXTENDS Workload, BatchPolicy, Metrics

CONSTANTS Plans,             \* sequences of <<policy, scenario>> considered
          TxCount,           \* --tx-count
          CountThreshold,    \* --batch-threshold
          TimeThreshold,     \* --time-threshold-ms
          LatencyBudget,     \* --latency-budget-ms
          SlaLatency,        \* --sla-latency-ms of compare
          ProveMs, VerifyMs, \* durations of proving and verifying considered
          Faults             \* TRUE iff prover and verifier may fail

ASSUME PipelineAssumptions ==
  /\ \A plan \in Plans : plan \in Seq(STRING \X Range(Scenarios))
  /\ TxCount \in Nat /\ CountThreshold \in Nat /\ TimeThreshold \in Nat
  /\ LatencyBudget \in Nat /\ SlaLatency \in Nat
  /\ ProveMs \subseteq Nat /\ VerifyMs \subseteq Nat
  /\ Faults \in BOOLEAN

VARIABLES plan,             \* what main was asked to run
          results,          \* SystemMetrics of the finished simulations
          status,           \* "running", "done" or "failed"
          rng,              \* the draws of each scenario's seed so far
          generated, current_time_ms,                      \* the generator
          clock,                                           \* VirtualClock
          queue, priority_lane, batch_counter,             \* the engine
          oldest_arrival, last_seal_time, batch_metrics,
          batches           \* auxiliary: the transactions of sealed batches

generator == <<rng, generated, current_time_ms>>
engine == <<clock, queue, priority_lane, batch_counter, oldest_arrival,
            last_seal_time, batch_metrics, batches>>
vars == <<plan, results, status, generator, engine>>

Current == plan[Len(results) + 1]
policy_name == Current[1]
scenario == Current[2]

Later(a, b) == IF a > b THEN a ELSE b
SaturatingSub(a, b) == IF a > b THEN a - b ELSE 0

Init ==
  /\ plan \in Plans
  /\ results = <<>>
  /\ status = IF plan = <<>> THEN "done" ELSE "running"
  /\ rng = [s \in Range(Scenarios) |-> <<>>]
  /\ generated = 0 /\ current_time_ms = 0
  /\ clock = 0
  /\ queue = <<>> /\ priority_lane = <<>>
  /\ batch_counter = 0
  /\ oldest_arrival = 0 /\ last_seal_time = 0
  /\ batch_metrics = <<>> /\ batches = <<>>

\* PipelineEngine::new, VirtualClock::new(0) and WorkloadGenerator::new.
NewSimulation ==
  /\ generated' = 0 /\ current_time_ms' = 0
  /\ clock' = 0
  /\ queue' = <<>> /\ priority_lane' = <<>>
  /\ batch_counter' = 0
  /\ oldest_arrival' = 0 /\ last_seal_time' = 0
  /\ batch_metrics' = <<>> /\ batches' = <<>>

-----------------------------------------------------------------------------
(* Sealing.                                                                *)

\* The host's compute units of a transaction that succeeds (Instructions).
ComputeUnits == [op \in Opcodes |->
                   CASE op = 0 -> 5000 [] op = 1 -> 3000 [] op = 2 -> 2000
                     [] op = 3 -> 1000 [] op = 4 -> 0]

\* The guest panics on a batch with an invalid opcode, or with a transfer the
\* sender cannot pay, which takes over a thousand of them (BatchProof).
Provable(txs) == \A i \in DOMAIN txs : txs[i].op # 4

\* Mutant: the regular queue goes first.
QueueFirst(lane, q) == q \o lane

DrainOrder(lane, q) == lane \o q

\* The latency runs from the seal; exec_time is modelled as 1 ms per 1000 CU
\* and does not advance the clock.  A proof of the engine's own prover passes
\* verification (BatchProof).
MetricsOf(txs, pr, ve) ==
  LET compute == Total([i \in DOMAIN txs |-> ComputeUnits[txs[i].op]])
  IN  [batch_size |-> Len(txs), total_compute_used |-> compute,
       execution_time_ms |-> compute \div 1000, proving_time_ms |-> pr,
       verification_time_ms |-> ve, end_to_end_latency_ms |-> pr + ve,
       proof_size_bytes |-> 1, verification_passed |-> TRUE]

\* seal_and_process at time now: the lanes are drained and the batch counted
\* before anything can fail.  An error of the prover leaves the clock, one of
\* the verifier comes after the time of the proof; either ends the simulation
\* and, through `?', everything main had computed.
seal_and_process(lane, q, now) ==
  LET txs == DrainOrder(lane, q)
  IN  /\ queue' = <<>>
      /\ priority_lane' = <<>>
      /\ batches' = Append(batches, txs)
      /\ batch_counter' = batch_counter + 1
      /\ \/ /\ Provable(txs)
            /\ \E pr \in ProveMs, ve \in VerifyMs :
                  /\ clock' = now + pr + ve
                  /\ last_seal_time' = now + pr + ve
                  /\ batch_metrics' = Append(batch_metrics, MetricsOf(txs, pr, ve))
            /\ UNCHANGED <<status, results>>
         \/ /\ \/ (Faults \/ ~Provable(txs)) /\ clock' = now
               \/ Faults /\ Provable(txs) /\ \E pr \in ProveMs : clock' = now + pr
            /\ status' = "failed"
            /\ results' = <<>>
            /\ UNCHANGED <<last_seal_time, batch_metrics>>

\* try_seal: len / (time_since_last / 1000) > 100, in integers.
SealsNow(len, now, oldest) ==
  LET time_since_last == Later(SaturatingSub(now, last_seal_time), 1)
  IN  should_seal(create_policy(policy_name), len, SaturatingSub(now, oldest),
                  10 * len > time_since_last, CountThreshold, TimeThreshold,
                  5 * CountThreshold, LatencyBudget)

\* Mutant: a transaction in the fast lane does not count as waiting.
OldestByQueue(arrival) == IF queue = <<>> THEN arrival ELSE oldest_arrival

OldestAfter(arrival) ==
  IF queue = <<>> /\ priority_lane = <<>> THEN arrival ELSE oldest_arrival

\* Mutant: the clock is left behind.
ClockStays(arrival) == clock

\* The clock is advanced to an arrival that lies ahead of it.
ClockAt(arrival) == Later(clock, arrival)

IsFast(tx) == tx.priority \in {"High", "Critical"}

-----------------------------------------------------------------------------
(* run_simulation and run_comparison.                                      *)

\* What the seeded generator draws as its n-th (from 0) transaction.
SeededDraws(n) ==
  IF n < Len(rng[scenario])
  THEN {rng[scenario][n + 1]}
  ELSE Draws(scenario, n, TxCount)

\* engine.ingest(tx) for the next transaction of the workload.
ingest ==
  /\ status = "running"
  /\ generated < TxCount
  /\ \E d \in SeededDraws(generated) :
       LET arrival == current_time_ms + d.gap
           tx      == Transaction(generated, arrival, d)
           now     == ClockAt(arrival)
           lane    == IF IsFast(tx) THEN Append(priority_lane, tx) ELSE priority_lane
           q       == IF IsFast(tx) THEN queue ELSE Append(queue, tx)
       IN  /\ generated' = generated + 1
           /\ current_time_ms' = arrival
           /\ rng' = [rng EXCEPT ![scenario] =
                        IF generated < Len(@) THEN @ ELSE Append(@, d)]
           /\ oldest_arrival' = OldestAfter(arrival)
           /\ IF SealsNow(Len(lane) + Len(q), now, OldestAfter(arrival))
              THEN seal_and_process(lane, q, now)
              ELSE /\ clock' = now
                   /\ priority_lane' = lane
                   /\ queue' = q
                   /\ UNCHANGED <<status, results, batch_counter, last_seal_time,
                                  batch_metrics, batches>>
  /\ UNCHANGED plan

\* Mutant: the loop only looks at the regular queue.
QueueUnflushed == queue # <<>>

\* The condition of the loop in flush.
Unflushed == queue # <<>> \/ priority_lane # <<>>

\* One round of the loop.
flush ==
  /\ status = "running"
  /\ generated = TxCount
  /\ Unflushed
  /\ seal_and_process(priority_lane, queue, clock)
  /\ UNCHANGED <<plan, generator, oldest_arrival>>

\* simulate passes its latency budget as the SLA, compare --sla-latency-ms.
sla_latency_ms == IF Len(plan) = 1 THEN LatencyBudget ELSE SlaLatency

\* MetricsAggregator::finalize
Report == aggregate_metrics(batch_metrics, policy_name, scenario, sla_latency_ms)

\* finalize, and on to the next simulation of the plan.
finalize ==
  /\ status = "running"
  /\ generated = TxCount
  /\ ~Unflushed
  /\ results' = Append(results, Report)
  /\ IF Len(results) + 1 = Len(plan)
     THEN status' = "done" /\ UNCHANGED <<generated, current_time_ms, engine>>
     ELSE status' = "running" /\ NewSimulation
  /\ UNCHANGED <<plan, rng>>

Next == ingest \/ flush \/ finalize

Spec == Init /\ [][Next]_vars

\* The plan of the compare command: four policies, all scenarios each.
run_comparison ==
  LET policies == <<"fixedcount", "fixedtime", "hybrid", "adaptive">>
  IN  [i \in 1..20 |-> <<policies[((i - 1) \div 5) + 1], Scenarios[((i - 1) % 5) + 1]>>]

-----------------------------------------------------------------------------
(* Properties.                                                             *)

Tx == [tx_id : 0..TxCount - 1, arrival_ts : Nat, priority : Priorities, op : Opcodes]

TypeOK ==
  /\ plan \in Plans
  /\ status \in {"running", "done", "failed"}
  /\ Len(results) <= Len(plan)
  /\ \A s \in Range(Scenarios) : rng[s] \in Seq(Draw) /\ Len(rng[s]) <= TxCount
  /\ generated \in 0..TxCount
  /\ {current_time_ms, clock, oldest_arrival, last_seal_time} \subseteq Nat
  /\ batch_counter = Len(batches)
  /\ Len(batch_metrics) = Len(batches) - (IF status = "failed" THEN 1 ELSE 0)
  /\ batches \in Seq(Seq(Tx)) /\ priority_lane \in Seq(Tx) /\ queue \in Seq(Tx)

\* Where the transactions are: the sealed batches, the fast lane, the queue.
Lots == batches \o <<priority_lane, queue>>

Positions(lots) == UNION {{b} \X DOMAIN lots[b] : b \in DOMAIN lots}
TxAt(lots, p) == lots[p[1]][p[2]]
Before(p, r) == p[1] < r[1] \/ (p[1] = r[1] /\ p[2] < r[2])

\* The first n transactions are in the lots, each in one place, and those of
\* a lane one after the other.
OnceInOrder(lots, n) ==
  /\ {TxAt(lots, p).tx_id : p \in Positions(lots)} = 0..n - 1
  /\ \A p, r \in Positions(lots) : p # r => TxAt(lots, p).tx_id # TxAt(lots, r).tx_id
  /\ \A p, r \in Positions(lots) :
        Before(p, r) /\ IsFast(TxAt(lots, p)) = IsFast(TxAt(lots, r)) =>
          TxAt(lots, p).tx_id < TxAt(lots, r).tx_id

\* Every generated transaction is in exactly one sealed batch or in one of
\* the two lanes, whichever of count, time, rate and flush sealed (the last
\* batch may be the one the simulation died of); a batch holds its fast-lane
\* transactions first, and each lane is sealed in the order of arrival,
\* across batches too.
SealedOnceInOrder ==
  /\ OnceInOrder(Lots, generated)
  /\ \A b \in DOMAIN batches : \A i, j \in DOMAIN batches[b] :
        i < j /\ IsFast(batches[b][j]) => IsFast(batches[b][i])

HasTimeBound == create_policy(policy_name) # "Fixed"

\* oldest_arrival is one number for two lanes, set only when both are empty,
\* and proving moves the clock past later arrivals.  Still no saturating_sub
\* of try_seal hides a negative difference, and what waits, in either lane,
\* has arrived, and not before oldest_arrival.
TimesInOrder ==
  /\ last_seal_time <= clock /\ oldest_arrival <= clock
  /\ \A lane \in {priority_lane, queue} : \A i \in DOMAIN lane :
        lane[i].arrival_ts \in oldest_arrival..clock

\* The engine looks at the clock only when a transaction arrives, so under a
\* policy with a time bound a batch is sealed late, by as long as nothing
\* arrives, and not by more: at the seal, whichever step makes it, no
\* transaction of either lane has waited for the threshold and the gap
\* before the arrival that caused the seal together.  (One that arrives
\* while the clock is ahead of it, after a slow proof, has that behind it.)
SealedWithinGap ==
  [][ status = "running" /\ HasTimeBound /\ batches' # batches =>
        \A lane \in {priority_lane, queue} : \A i \in DOMAIN lane :
           ClockAt(current_time_ms') - lane[i].arrival_ts
             < TimeThreshold + (current_time_ms' - current_time_ms) ]_vars

\* The report is all or nothing, in the order of the plan, and fair: every
\* simulation that was finalized accounts for the whole workload, those of
\* one scenario for the same one (they report the same compute, however it
\* was batched), and main prints only when all of the plan has been run.
ReportComplete ==
  /\ \A k \in DOMAIN results :
        /\ <<results[k].policy_name, results[k].scenario_name>> = plan[k]
        /\ results[k].total_transactions = TxCount
  /\ \A j, k \in DOMAIN results :
        results[j].scenario_name = results[k].scenario_name =>
          results[j].total_compute_used = results[k].total_compute_used
  /\ status = "done" => Len(results) = Len(plan)
  /\ status = "failed" => results = <<>>

Below(v)  == CountOf(batch_metrics, LAMBDA m : m.end_to_end_latency_ms < v)
AtMost(v) == CountOf(batch_metrics, LAMBDA m : m.end_to_end_latency_ms <= v)

Percentiles == {<<50, Report.p50_latency_ms>>, <<95, Report.p95_latency_ms>>,
                <<99, Report.p99_latency_ms>>}

\* The latency figures of a report.  The value percentile() picks out of the
\* sorted latencies is one of them and has the rank p asks for, to the
\* nearest batch: of n batches no more than p(n-1)/100 + 1/2 are faster and
\* more than p(n-1)/100 - 1/2 are no slower than it besides itself.  And the
\* SLA count agrees: a percentile beyond the SLA leaves at least the batches
\* that are no faster in violation, one within it at most the slower ones.
LatencyFiguresAgree ==
  status = "running" /\ batch_metrics # <<>> =>
    \A pv \in Percentiles :
      LET target == 2 * pv[1] * (Len(batch_metrics) - 1)
      IN  /\ \E i \in DOMAIN batch_metrics :
                batch_metrics[i].end_to_end_latency_ms = pv[2]
          /\ 200 * Below(pv[2]) <= target + 100
          /\ 200 * (AtMost(pv[2]) - 1) > target - 100
          /\ IF pv[2] > sla_latency_ms
             THEN Report.sla_violations >= Report.total_batches - Below(pv[2])
             ELSE Report.sla_violations <= Report.total_batches - AtMost(pv[2])
=============================================================================
