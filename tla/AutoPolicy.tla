----------------------------- MODULE AutoPolicy -----------------------------
(***************************************************************************)
(* The AutoPolicy of crates/batch-policy: it keeps the last arrivals in a  *)
(* ring, classifies the traffic from the ring at every arrival and derives *)
(* the batch threshold and the time limit from the class.  Nothing outside *)
(* the crate's tests builds one; its callers here are any sequence of      *)
(* record_arrival, observe_queue_growth and should_seal.  Times are in ms. *)
(***************************************************************************)
EXTENDS Integers, Sequences, FiniteSets, SequencesExt

CONSTANTS RingSize,       \* 100, the length of arrival_times
          MinBatch, MaxBatch, MaxLatency,  \* AutoPolicy::new
          ArrivalGaps,    \* time between two recorded arrivals
          GrowthRates,    \* rates observed, in tenths
          MaxArrivals     \* bound on the recorded arrivals

ASSUME AutoAssumptions ==
  /\ RingSize \in Nat \ {0}
  /\ MinBatch \in Nat /\ MaxBatch \in Nat /\ MinBatch <= MaxBatch
  /\ MaxLatency \in Nat
  /\ ArrivalGaps \subseteq Nat /\ GrowthRates \subseteq Nat
  /\ MaxArrivals \in Nat

Patterns == {"Idle", "Steady", "Bursty", "HighLoad"}

VARIABLES arrival_times, arrival_idx, last_arrival_ms,
          observed_pattern, current_threshold, current_time_limit_ms,
          adapted,    \* auxiliary: adapt_to_pattern has run
          arrivals    \* auxiliary: every arrival so far

limits == <<current_threshold, current_time_limit_ms, adapted>>
autoVars == <<arrival_times, arrival_idx, last_arrival_ms, observed_pattern,
              limits, arrivals>>

\* arrival_idx counts from 0 and the ring from 1.
AutoInit ==
  /\ arrival_times = [i \in 1..RingSize |-> 0]
  /\ arrival_idx = 0
  /\ last_arrival_ms = 0
  /\ observed_pattern = "Idle"
  /\ current_threshold = MinBatch
  /\ current_time_limit_ms = MaxLatency
  /\ adapted = FALSE
  /\ arrivals = <<>>

-----------------------------------------------------------------------------
(* Classification.                                                         *)

Minus(a, b) == IF a > b THEN a - b ELSE 0

\* In the last `window' ms.
InWindow(t, now, window) == t > Minus(now, window) /\ t <= now

\* filter().count()
RecentCount(times, now, window) ==
  Cardinality({i \in DOMAIN times : InWindow(times[i], now, window)})

\* The ring's entries of the last five seconds, in ring order.
Recent(ring, now) == SelectSeq(ring, LAMBDA t : InWindow(t, now, 5000))

\* windows(2) over the ring order; where the ring has wrapped one interval
\* goes from the newest entry to the oldest and saturates to 0.
Intervals(ring, now) ==
  LET seen == Recent(ring, now)
  IN  [i \in 1..Minus(Len(seen), 1) |-> Minus(seen[i + 1], seen[i])]

SumSeq(s) == FoldLeft(LAMBDA a, b : a + b, 0, s)

\* The standard deviation is above 200: with n intervals x and sum S,
\* n * (sum of x^2) - S^2 > 200^2 * n^2.
HighVariance(ring, now) ==
  LET x == Intervals(ring, now)
      n == Len(x)
  IN  /\ n > 1
      /\ n * SumSeq([i \in DOMAIN x |-> x[i] * x[i]]) - SumSeq(x) * SumSeq(x)
           > 40000 * n * n

Classify(ring, now) ==
  LET recent_count == RecentCount(ring, now, 1000)
  IN  IF recent_count < 1 THEN "Idle"
      ELSE IF recent_count > 100 THEN "HighLoad"
      ELSE IF HighVariance(ring, now) THEN "Bursty" ELSE "Steady"

ThresholdOf(pattern) ==
  CASE pattern \in {"Idle", "Bursty"} -> MinBatch
    [] pattern = "Steady"             -> (MinBatch + MaxBatch) \div 2
    [] pattern = "HighLoad"           -> MaxBatch

\* Mutant: the limits of the two loaded classes are swapped.
LimitsSwapped(pattern) ==
  CASE pattern = "Idle"     -> 500
    [] pattern = "Steady"   -> MaxLatency \div 2
    [] pattern = "Bursty"   -> MaxLatency
    [] pattern = "HighLoad" -> 200

TimeLimitOf(pattern) ==
  CASE pattern = "Idle"     -> 500
    [] pattern = "Steady"   -> MaxLatency \div 2
    [] pattern = "Bursty"   -> 200
    [] pattern = "HighLoad" -> MaxLatency

adapt_to_pattern(pattern) ==
  /\ current_threshold' = ThresholdOf(pattern)
  /\ current_time_limit_ms' = TimeLimitOf(pattern)
  /\ adapted' = TRUE

-----------------------------------------------------------------------------
(* Operations.                                                             *)

update_pattern(ring, now) ==
  LET new_pattern == Classify(ring, now)
  IN  IF new_pattern # observed_pattern
      THEN observed_pattern' = new_pattern /\ adapt_to_pattern(new_pattern)
      ELSE UNCHANGED <<observed_pattern, limits>>

\* Mutant: the index wraps one entry early.
WrapsEarly(idx) == IF RingSize = 1 THEN 0 ELSE (idx + 1) % (RingSize - 1)

\* Mutant: the index is never wrapped.
NeverWraps(idx) == idx + 1

NextIndex(idx) == (idx + 1) % RingSize

record_arrival(now) ==
  LET ring == [arrival_times EXCEPT ![arrival_idx + 1] = now]
  IN  /\ arrival_times' = ring
      /\ arrival_idx' = NextIndex(arrival_idx)
      /\ last_arrival_ms' = now
      /\ arrivals' = Append(arrivals, now)
      /\ update_pattern(ring, now)

\* Mutant: the class changes and the limits do not follow.
GrowthNotAdapted(rate) ==
  /\ observed_pattern' = IF rate > 20 /\ observed_pattern # "HighLoad"
                         THEN "Bursty" ELSE observed_pattern
  /\ UNCHANGED <<arrival_times, arrival_idx, last_arrival_ms, limits, arrivals>>

AutoObserveGrowth(rate) ==
  /\ IF rate > 20 /\ observed_pattern # "HighLoad"
     THEN observed_pattern' = "Bursty" /\ adapt_to_pattern("Bursty")
     ELSE UNCHANGED <<observed_pattern, limits>>
  /\ UNCHANGED <<arrival_times, arrival_idx, last_arrival_ms, arrivals>>

\* should_seal; the rate is the caller's, in transactions per second.
AutoSeals(queue_len, wait, rate) ==
  /\ queue_len > 0
  /\ \/ queue_len >= current_threshold
     \/ wait >= current_time_limit_ms
     \/ wait >= MaxLatency
     \/ rate > 50 /\ queue_len >= MinBatch

Arrive ==
  /\ Len(arrivals) < MaxArrivals
  /\ \E gap \in ArrivalGaps : record_arrival(last_arrival_ms + gap)

Grow == \E rate \in GrowthRates : AutoObserveGrowth(rate)

AutoNext == Arrive \/ Grow

AutoSpec == AutoInit /\ [][AutoNext]_autoVars

-----------------------------------------------------------------------------
(* Properties.                                                             *)

AutoTypeOK ==
  /\ arrival_times \in [1..RingSize -> Nat]
  /\ arrival_idx \in 0..RingSize - 1
  /\ last_arrival_ms \in Nat
  /\ observed_pattern \in Patterns
  /\ current_threshold \in Nat /\ current_time_limit_ms \in Nat
  /\ adapted \in BOOLEAN

\* The ring holds the latest arrivals, all of them until it is full and then
\* the last RingSize, so what the classification counts in any window is the
\* true number of arrivals, up to the size of the ring.
RingCountsArrivals ==
  \A window \in {1000, 5000} :
    LET true_count == RecentCount(arrivals, last_arrival_ms, window)
    IN  RecentCount(arrival_times, last_arrival_ms, window)
          = IF true_count < RingSize THEN true_count ELSE RingSize

\* The limits are those of the class the policy reports, whichever of the
\* two observations changed it, last and however often; only before the
\* first change is the policy idle with the maximal latency as its limit.
LimitsFollowPattern ==
  /\ current_threshold = ThresholdOf(observed_pattern)
  /\ current_time_limit_ms = IF adapted THEN TimeLimitOf(observed_pattern) ELSE MaxLatency
  /\ ~adapted => observed_pattern = "Idle"

\* Bursty is meant to seal "on small count or short time", and its 200 ms do
\* not depend on max_latency_ms while the limit of Steady is half of it.  So:
\* when traffic turns bursty a queue that was due, by count, wait or rate,
\* stays due, except in one case.  Traffic was steady, max_latency_ms is below
\* 400, and a queue of less than min_batch that was due after half of it is
\* held back, up to 200 ms or max_latency_ms.
BurstHoldsBackOnlySteady ==
  [][ observed_pattern' = "Bursty" =>
        \A len \in 0..MaxBatch, wait \in 0..MaxLatency, rate \in {0, 51} :
           \/ AutoSeals(len, wait, rate) => AutoSeals(len, wait, rate)'
           \/ /\ observed_pattern = "Steady" /\ MaxLatency < 400
              /\ len < MinBatch
              /\ wait >= MaxLatency \div 2 /\ wait < 200 /\ wait < MaxLatency ]_autoVars
=============================================================================
