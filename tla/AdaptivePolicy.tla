--------------------------- MODULE AdaptivePolicy ---------------------------
(***************************************************************************)
(* The AdaptivePolicy of crates/batch-policy: a proportional controller    *)
(* that scales its batch threshold up with the growth of the queue and     *)
(* down as the observed latency nears the budget.  Both observations are   *)
(* moving averages, the latency in integers (the division truncates), the  *)
(* growth in f64; the growth is kept exactly here, in units of 1/Scale, and *)
(* so are the products compute_threshold rounds up.                        *)
(***************************************************************************)
EXTENDS Integers

CONSTANTS BaseCount, MaxBatchSize, LatencyBudget,  \* AdaptivePolicy::new
          Latencies,   \* latencies observed
          Rates,       \* growth rates observed, in tenths
          MaxGrowths,  \* bound on growth observations
          Scale        \* unit of the growth rate: 1.0 is Scale

\* min_count
MinCount == 1

ASSUME AdaptiveAssumptions ==
  /\ BaseCount \in Nat /\ MaxBatchSize \in Nat /\ LatencyBudget \in Nat
  /\ Latencies \subseteq Nat /\ Rates \subseteq Nat /\ MaxGrowths \in Nat
  /\ Scale \in Nat \ {0}

\* Exact for MaxGrowths averages with weights 0.8 and 0.2 of tenths.
ASSUME ScaleIsExact == Scale % (10 * (5 ^ MaxGrowths)) = 0

VARIABLES observed_latency_ms,
          queue_growth_rate,   \* in 1/Scale
          growths,             \* bound counter
          over                 \* auxiliary: latest observations in a row, up
                               \* to four, that reached the budget

adaptiveVars == <<observed_latency_ms, queue_growth_rate, growths, over>>

AdaptiveInit ==
  /\ observed_latency_ms = 0
  /\ queue_growth_rate = Scale
  /\ growths = 0
  /\ over = 0

\* Fractions <<numerator, denominator>>.
GrowthFactor(growth) ==
  IF 2 * growth > 3 * Scale
  THEN <<10 * Scale + 3 * (growth - Scale), 10 * Scale>>
  ELSE <<1, 1>>

\* 1 - (ratio - 0.7) * 2 and at least 0.3, for a ratio above 0.7; a budget of
\* zero makes the ratio infinite.
LatencyFactor(latency) ==
  CASE latency = 0 \/ 10 * latency <= 7 * LatencyBudget -> <<1, 1>>
    [] /\ latency > 0 /\ 10 * latency > 7 * LatencyBudget
       /\ 20 * latency >= 21 * LatencyBudget -> <<3, 10>>
    [] OTHER -> <<24 * LatencyBudget - 20 * latency, 10 * LatencyBudget>>

CeilDiv(a, b) == (a + b - 1) \div b

Scaled(growth, latency) ==
  CeilDiv(BaseCount * GrowthFactor(growth)[1] * LatencyFactor(latency)[1],
          GrowthFactor(growth)[2] * LatencyFactor(latency)[2])

Clamp(n) ==
  LET floored == IF n < MinCount THEN MinCount ELSE n
  IN  IF floored > MaxBatchSize THEN MaxBatchSize ELSE floored

compute_threshold == Clamp(Scaled(queue_growth_rate, observed_latency_ms))

\* Mutant: the weights of the average are exchanged for a slower one.
SlowAverage(observed, latency_ms) == (observed * 9 + latency_ms) \div 10

\* Mutant: the division binds to the new sample only.
UnbracketedAverage(observed, latency_ms) == observed * 7 + (latency_ms * 3) \div 10

SmoothedLatency(observed, latency_ms) == (observed * 7 + latency_ms * 3) \div 10

observe_latency(latency_ms) ==
  /\ observed_latency_ms' = SmoothedLatency(observed_latency_ms, latency_ms)
  /\ over' = CASE latency_ms < LatencyBudget -> 0
               [] latency_ms >= LatencyBudget /\ over = 4 -> 4
               [] latency_ms >= LatencyBudget /\ over < 4 -> over + 1
  /\ UNCHANGED <<queue_growth_rate, growths>>

SmoothedGrowth(growth, rate) == (4 * growth + rate * (Scale \div 10)) \div 5

AdaptiveObserveGrowth(rate) ==
  /\ growths < MaxGrowths
  /\ growths' = growths + 1
  /\ queue_growth_rate' = SmoothedGrowth(queue_growth_rate, rate)
  /\ UNCHANGED <<observed_latency_ms, over>>

AdaptiveNext ==
  \/ \E latency_ms \in Latencies : observe_latency(latency_ms)
  \/ \E rate \in Rates : AdaptiveObserveGrowth(rate)

AdaptiveSpec == AdaptiveInit /\ [][AdaptiveNext]_adaptiveVars

-----------------------------------------------------------------------------
(* Properties.                                                             *)

\* The threshold is part of it: however the two factors compound and round,
\* it is not above max_count, and not 0, on which should_seal would seal at
\* once, unless max_count is (`--batch-threshold 0').
AdaptiveTypeOK ==
  /\ compute_threshold \in 0..MaxBatchSize
  /\ MaxBatchSize > 0 => compute_threshold >= MinCount
  /\ observed_latency_ms \in Nat
  /\ queue_growth_rate \in Nat
  /\ growths \in 0..MaxGrowths
  /\ over \in 0..4

\* Observing a latency at or above the average never raises the threshold,
\* and one at or below it never lowers it: the truncating average does not
\* overshoot the sample.
ControllerSteersBack ==
  [][ \A l \in Latencies : observe_latency(l) =>
        /\ l >= observed_latency_ms => compute_threshold' <= compute_threshold
        /\ l <= observed_latency_ms => compute_threshold' >= compute_threshold
    ]_adaptiveVars

\* Four batches in a row at or beyond the budget bring the threshold below
\* what the growth alone asks for.  It needs a budget and a base count for
\* which the least average of the four is felt: the average truncates, and at
\* a budget of 13 ms it is then 9 ms, below the ratio at which the policy
\* begins to shrink.
OverBudgetShrinks ==
  over = 4 => Scaled(queue_growth_rate, observed_latency_ms) < Scaled(queue_growth_rate, 0)
=============================================================================
