------------------------------ MODULE Workload ------------------------------
(***************************************************************************)
(* The seeded workload generator (crates/ingress): what next() may draw    *)
(* for the transaction after `generated' others of a scenario.  A draw is  *)
(* the gap to the previous arrival in ms, a priority and an opcode.  Of    *)
(* the values the code can draw the samples below are enumerated.          *)
(***************************************************************************)
EXTENDS Integers, Sequences

CONSTANTS SampleMs,          \* gaps considered, in ms
          SamplePriorities,  \* priorities considered
          SampleOps          \* opcodes considered

Priorities == {"Low", "Normal", "High", "Critical"}

\* Transfer, SetData, Increment, Noop and, for 4, Invalid.
Opcodes == 0..4

ASSUME WorkloadAssumptions ==
  /\ SampleMs \subseteq Nat
  /\ SamplePriorities \subseteq Priorities
  /\ SampleOps \subseteq Opcodes

\* Scenario::all, in its order.
Scenarios == <<"steady", "bursty", "poisson", "mixed_priority", "idle_then_spike">>

\* WorkloadGenerator::new(.., base_interval_ms)
BaseInterval == 50

Draw == [gap : SampleMs, priority : SamplePriorities, op : SampleOps]

\* compute_arrival, with rand's half-open ranges.
compute_arrival(scenario, generated, tx_count, d) ==
  CASE scenario = "steady" ->
         d.gap \in BaseInterval - 5..BaseInterval + 4 /\ d.priority = "Normal"
    [] scenario = "bursty" ->
         (d.gap \in 1..4 \/ d.gap \in 50..199) /\ d.priority = "Normal"
    [] scenario = "poisson" ->
         d.gap >= 1 /\ d.priority = "Normal"
    [] scenario = "mixed_priority" ->
         d.gap \in 5..49
    [] scenario = "idle_then_spike" ->
         CASE 10 * generated < 3 * tx_count -> d.gap \in 100..499 /\ d.priority = "Low"
           [] /\ 10 * generated >= 3 * tx_count
              /\ 10 * generated < 7 * tx_count -> d.gap \in 1..4 /\ d.priority = "High"
           [] OTHER -> d.gap \in 20..99 /\ d.priority = "Normal"

Draws(scenario, generated, tx_count) ==
  {d \in Draw : compute_arrival(scenario, generated, tx_count, d)}

\* Mutant: the id is taken after the counter is incremented.
IdAfterIncrement(generated, arrival_ts, d) ==
  [tx_id |-> generated + 1, arrival_ts |-> arrival_ts, priority |-> d.priority,
   op |-> d.op]

\* The Transaction made of a draw; estimated_cu, program and accounts are
\* read by nobody downstream.
Transaction(generated, arrival_ts, d) ==
  [tx_id |-> generated, arrival_ts |-> arrival_ts, priority |-> d.priority, op |-> d.op]
=============================================================================
