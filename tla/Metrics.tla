------------------------------- MODULE Metrics -------------------------------
(***************************************************************************)
(* The report of a simulation (crates/common/src/metrics.rs): counts,      *)
(* sums, percentiles and ratios over the BatchMetrics of the batches that  *)
(* were sealed.  A ratio of two integers is the pair <<numerator,          *)
(* denominator>>; the rounding of f64 is left out.                         *)
(***************************************************************************)
EXTENDS Integers, Sequences, FiniteSets, Functions

\* The sum of a sequence of numbers.
Total(s) ==
  LET part[n \in 0..Len(s)] == IF n = 0 THEN 0 ELSE part[n - 1] + s[n]
  IN  part[Len(s)]

\* Sum over the recorded batches of one of their fields.
SumOf(batch_metrics, Field(_)) ==
  Total([i \in DOMAIN batch_metrics |-> Field(batch_metrics[i])])

CountOf(batch_metrics, Test(_)) ==
  Cardinality({i \in DOMAIN batch_metrics : Test(batch_metrics[i])})

\* A permutation of the positions of s that puts its numbers in order.
Sorts(p, s) ==
  /\ \A i, j \in DOMAIN s : p[i] = p[j] => i = j
  /\ \A i, j \in DOMAIN s : i < j => s[p[i]] <= s[p[j]]

sort(s) ==
  LET p == CHOOSE q \in [DOMAIN s -> DOMAIN s] : Sorts(q, s)
  IN  [i \in DOMAIN s |-> s[p[i]]]

Latencies(batch_metrics) ==
  [i \in DOMAIN batch_metrics |-> batch_metrics[i].end_to_end_latency_ms]

\* latencies, sorted.
SortedLatencies(batch_metrics) == sort(Latencies(batch_metrics))

\* Mutant: the rank is truncated instead of rounded.
TruncatedIndex(n, p) == (p * (n - 1)) \div 100

\* ((p / 100) * (n - 1)).round(), at most n - 1: a position counted from 0.
PercentileIndex(n, p) ==
  LET idx == (2 * p * (n - 1) + 100) \div 200
  IN  IF idx < n - 1 THEN idx ELSE n - 1

percentile(sorted, p) ==
  IF sorted = <<>> THEN 0 ELSE sorted[PercentileIndex(Len(sorted), p) + 1]

ViolatesSla(m, sla_latency_ms) == m.end_to_end_latency_ms > sla_latency_ms

\* Useful compute time over all time.
compute_batch_efficiency(batch_metrics) ==
  LET execution == SumOf(batch_metrics, LAMBDA m : m.execution_time_ms)
      overhead  == SumOf(batch_metrics,
                         LAMBDA m : m.proving_time_ms + m.verification_time_ms)
  IN  CASE batch_metrics = <<>> -> <<0, 1>>
        [] overhead = 0         -> <<1, 1>>
        [] OTHER                -> <<execution, execution + overhead>>

\* The average of the per-batch throughputs is left out: a throughput is
\* batch_size over end_to_end_latency_ms, both of which are here.
aggregate_metrics(batch_metrics, policy_name, scenario_name, sla_latency_ms) ==
  LET latencies    == SortedLatencies(batch_metrics)
      batches      == Len(batch_metrics)
      transactions == SumOf(batch_metrics, LAMBDA m : m.batch_size)
      proof_bytes  == SumOf(batch_metrics, LAMBDA m : m.proof_size_bytes)
      Per(sum)     == IF batches = 0 THEN <<0, 1>> ELSE <<sum, batches>>
  IN  [policy_name               |-> policy_name,
       scenario_name             |-> scenario_name,
       total_transactions        |-> transactions,
       total_batches             |-> batches,
       avg_batch_size            |-> Per(transactions),
       avg_latency_ms            |-> Per(SumOf(batch_metrics,
                                               LAMBDA m : m.end_to_end_latency_ms)),
       p50_latency_ms            |-> percentile(latencies, 50),
       p95_latency_ms            |-> percentile(latencies, 95),
       p99_latency_ms            |-> percentile(latencies, 99),
       verification_success_rate |-> Per(CountOf(batch_metrics,
                                                 LAMBDA m : m.verification_passed)),
       total_proof_size_bytes    |-> proof_bytes,
       avg_proof_size_bytes      |-> Per(proof_bytes),
       amortized_cost_per_tx     |-> IF transactions > 0
                                     THEN <<proof_bytes, transactions>> ELSE <<0, 1>>,
       total_compute_used        |-> SumOf(batch_metrics, LAMBDA m : m.total_compute_used),
       batch_efficiency          |-> compute_batch_efficiency(batch_metrics),
       sla_violations            |-> CountOf(batch_metrics,
                                             LAMBDA m : ViolatesSla(m, sla_latency_ms))]
=============================================================================
