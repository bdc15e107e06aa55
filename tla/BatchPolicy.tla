----------------------------- MODULE BatchPolicy -----------------------------
(***************************************************************************)
(* The sealing policies (crates/batch-policy) as the validator and the     *)
(* benchmark's pipeline call them:                                         *)
(*   should_seal(queue_len, oldest_wait_ms, avg_arrival_rate)              *)
(* on a policy that receives no observation.  Waits and thresholds are in  *)
(* a unit of the caller's choice; fast is avg_arrival_rate > 100.0.        *)
(***************************************************************************)
EXTENDS Integers

\* The values of the validator's --policy.
Policies == {"Fixed", "Time", "Hybrid", "Adaptive"}

\* The factory of the benchmark CLI: `auto' has no case of its own, and like
\* every unknown name it makes a Hybrid policy.
create_policy(name) ==
  CASE name = "fixedcount" -> "Fixed"
    [] name = "fixedtime"  -> "Time"
    [] name = "adaptive"   -> "Adaptive"
    [] name = "priority"   -> "PriorityAware"
    [] OTHER               -> "Hybrid"

FixedCountSeals(queue_len, batch_size) == queue_len >= batch_size

FixedTimeSeals(queue_len, wait, timeout) == queue_len > 0 /\ wait >= timeout

\* Mutant: the time bound is forgotten.
CountOnly(queue_len, wait, batch_size, timeout) == queue_len >= batch_size

HybridSeals(queue_len, wait, batch_size, timeout) ==
  \/ queue_len >= batch_size
  \/ queue_len > 0 /\ wait >= timeout

(***************************************************************************)
(* compute_threshold of an AdaptivePolicy without observations: the growth *)
(* rate is 1.0 and the observed latency 0, so neither scaling applies and  *)
(* base_count is clamped to [1, max_count].                                *)
(***************************************************************************)
InitialThreshold(base_count, max_count) ==
  LET floored == IF base_count < 1 THEN 1 ELSE base_count
  IN  IF floored > max_count THEN max_count ELSE floored

AdaptiveSeals(queue_len, wait, fast, threshold, timeout, budget) ==
  /\ queue_len > 0
  /\ \/ queue_len >= threshold
     \/ wait >= timeout
     \/ wait >= budget
     \/ fast /\ queue_len >= 1

should_seal(policy, queue_len, wait, fast, batch_size, timeout, max_count, budget) ==
  CASE policy = "Fixed"    -> FixedCountSeals(queue_len, batch_size)
    [] policy = "Time"     -> FixedTimeSeals(queue_len, wait, timeout)
    [] policy \in {"Hybrid", "PriorityAware"} ->
         HybridSeals(queue_len, wait, batch_size, timeout)
    [] policy = "Adaptive" ->
         AdaptiveSeals(queue_len, wait, fast, InitialThreshold(batch_size, max_count),
                       timeout, budget)
=============================================================================
