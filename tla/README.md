# Verification of CatalystSVM

TLA+ models of the batching, proving and verification pipeline of CatalystSVM,
model-checked with TLC, with TLAPS proofs of what matters most. Paths are
relative to the repository root; the modules keep the names of the Rust code
where TLA+ allows it. `PROJECT.json` maps every modelling definition to its
source lines.

## 1. The system and its parts

| Part | Source | State it keeps | Operations |
|---|---|---|---|
| Host executor | `crates/execution-engine` | a `BTreeMap<String, u64>` per batch | four opcodes, `FullExecutor` (runs the transactions), `DeterministicExecutor` (runs a Noop per id) |
| Trace builder, Merkle | `crates/trace-builder`, `crates/common/src/merkle.rs` | entries, counters, pre-state root | `add_entry`, `build`, `merkle_root`, `state_root`, `hash_trace_entry` |
| SP1 guest | `crates/sp1-program` | its own copy of state, hashes, compute | replay of the batch, assertions, commit of the public inputs |
| SP1 prover / verifier | `crates/sp1-prover`, `crates/sp1-verifier` | none | `prove` (with a fallback that reconstructs transactions), `verify` |
| Batch policies | `crates/batch-policy` | thresholds; Adaptive and Auto also observations | `should_seal`, `observe_*` |
| Validator node | `examples/validator` | `pending_txs`, counters, `proofs` (memory only), the proof directory | `submitTransaction`, `forceSeal`, 100 ms ticker, `process_batch`, `save_proof`, `broadcast_proof` |
| Verifier node | `examples/verifier-node` | `verified_batches`, `pending_verifications`, `current_state_root`, `failed_count` (memory only), `processed_set` of the poller | directory poller, proof broadcasts, `verifyBatch` |
| On-chain program | `onchain/catalyst_batcher` | `GlobalConfig`, one `BatchReceipt` per batch id | seven Anchor instructions |
| Pipeline engine, CLI | `crates/benchmark-cli` | two lanes, `oldest_arrival`, virtual clock, batch metrics | `ingest`, `flush`, `finalize`; `simulate` and `compare` in `main` |
| Workload generator, ingress | `crates/ingress` | seeded generator, its own time | arrivals, priorities and opcodes of five scenarios; `validate` |
| Metrics | `crates/common/src/metrics.rs` | none | percentiles, SLA count, sums and ratios of a report |
| Clocks | `crates/common/src/clock.rs` | virtual time | `VirtualClock` (engine), `SystemClock` (nodes) |
| Client | `examples/client` | none | `send_rpc`; a command is a sequence of requests |

How they interact. The validator calls the policy, the executor and the prover
in sequence for every batch, each batch in the task that sealed it; its ticker
and its RPC connections share `ValidatorState` under one lock that is free
while a batch is executed, proved and saved. Validator and verifier share
nothing but the proof directory (two files per batch, written without
synchronisation) and a TCP broadcast per batch. The prover hands trace,
transactions and a rebuilt initial state to the guest, which replays the batch
with its own copy of the instruction set. A client opens one TCP connection per
request, without timeout or retry, and the validator runs a task per
connection. The benchmark CLI runs simulations one after the other, each with a
generator of the same seed, an engine of its own and a virtual clock that the
measured time of proving advances. The on-chain program is driven by signed
instructions and is not called by the Rust nodes.

What is hard in it: several batches in flight behind one queue; files that are
visible before they are complete; tasks that read state, await and act on what
they read; crashes that lose every counter but no file; connections that break
with a request in flight; a wall clock that steps back; one arrival time for
two lanes; a ring that wraps and averages that truncate; two copies of the
instruction set that must report even failures alike; wrapping and saturating
arithmetic; instruction sequences on chain. `PROJECT.json` lists each hazard at
its line with the properties aimed at it.

What makes each part correct:

* executor, trace, guest, prover: the trace is one chain of state hashes, failed
  transactions change nothing, transfers conserve value, the guest goes through
  the host's states, and the guest accepts exactly the traces it should;
* validator: no acknowledged transaction is lost silently, duplicated or
  reordered; a recorded proof is on disk; queued transactions get sealed;
  to the outside it is a ledger (`TxLedger`);
* client and validator: a request takes effect at most once, the transaction and
  batch ids that are reported are true, and a client without a timeout comes to
  its end;
* verifier: it attests only whole artifacts, once per poll, and everything
  that was announced;
* policies: thresholds stay in range and steer against the latency, the class of
  the traffic is derived from the true arrivals, limits follow the class;
* pipeline: transactions are sealed once and in order, no later than the time
  bound and the next arrival allow, and a report is complete, fair and
  consistent;
* on-chain program: receipts are counted, final, and only verified with a proof.

## 2. Modules

| Module | Models | Notes |
|---|---|---|
| `Instructions` | both copies of the instruction set | pure operators; host and guest share only map access and arithmetic |
| `Merkle` | `merkle_root`, `state_root` | SHA-256 as a free constructor; odd-node duplication, one-leaf and empty roots kept |
| `BatchProof` | one batch: executor, `TraceBuilder`, prover, guest, verifier | one action per loop iteration or call; extends `Instructions`; the two commitments are constant operators |
| `BatchPolicy` | `should_seal` of every policy without a memory, `create_policy` | |
| `AdaptivePolicy`, `AutoPolicy` | the two policies with a memory | one action per observation |
| `PolicyEngine` | either of them behind the trait | extends both |
| `Validator` | the validator node | one action per section between awaits; extends `BatchPolicy` |
| `TxLedger` | abstract: what the validator promises about transactions | implemented by `Validator` |
| `CatalystClient` | clients of one validator, `handle_connection`, `handle_rpc` | extends `Validator` |
| `VerifierNode` | the verifier node | reads the validator's files |
| `CatalystNodes` | both nodes on one directory | extends `Validator`, instantiates `VerifierNode` |
| `Workload` | the generator's scenarios | pure operators |
| `Metrics` | `aggregate_metrics`, `percentile`, `compute_batch_efficiency` | pure operators |
| `Pipeline` | `PipelineEngine`, `run_simulation`, `run_comparison` | extends `Workload`, `BatchPolicy`, `Metrics` |
| `CatalystBatcher` | the on-chain program | one action per instruction |
| `ReceiptLifecycle` | abstract: what the program promises for a batch | implemented by `CatalystBatcher` under `statusOf`, `proofOf` |
| `BatchProofProofs`, `CatalystBatcherProofs`, `ValidatorProofs`, `CatalystClientProofs`, `CatalystNodesProofs`, `PolicyProofs`, `PipelineProofs` | theorems | each about the module it is named after |
| `MetricsProofs` | lemmas on sums, sorting and percentiles | extended by `PipelineProofs` |
| `MC*` | instances for TLC | |

Correspondence of state and code.

*BatchProof.* `state`, `builder` and `trace` are the executor's map, the
`TraceBuilder` and its result; `stdin` is what `prove_with_transactions` writes;
`guest` the locals of `execute_batch`; `public` the committed `PublicInputs`.
`history` is auxiliary (the host's state and compute after each transaction).
Account names are members of `Keys`; a sender may be any name, also the name of
a data cell, because the RPC takes any string. `instruction_data` is abstracted
to: is it empty, the opcode, are the 16 operand bytes there, the formatted
account name and the value. Words have width `MaxU64 + 1`; the credit of a
transfer wraps, as in a release build (a debug build panics there).
Transaction ids are unique, so they are positions.

*Validator.* A task (`Ticker` or a connection) is at most in one batch:
`jobs[t]`. `check_and_seal_batch` is atomic up to `drop(state)`, then come
proving, the truncation and the filling of each file, the recording and the
broadcast. Each call may fail (`Faults`); a failing batch drops its
transactions, kept in the auxiliary `failed`. `Restart` kills the process
anywhere; the directory survives or, with `just validator`, is emptied. `args`
is the command line, chosen anew by a restart. Time counts ticker periods;
`due` are the ticks the interval owes. An age is a difference of two readings
of `SystemClock` and is negative after `ClockStepsBack`. A transaction's
content is a `payload`; `Unprovable` are the payloads whose batch the guest
rejects, which is what `BatchProof` establishes.

*CatalystClient.* `session[k]` is a client's place in its command and its
connection, `wire[c]` the connection with its request, the answer and whether
the client still listens; a connection of the model is reused once both ends
are done with it. `submit_transaction` and `check_and_seal_batch` are the
actions of `Validator`; the answer, a transaction id, a batch id or an error, is
written in a later step. `epoch` (auxiliary) is the life of the validator an
answer comes from. A broken
connection fails the request for the client while the validator goes on, or
never reads it; `RestartResets` kills every task and resets every connection.

*VerifierNode.* `vjobs[t]` is the verification the poller or a connection is in:
read proof, read trace, verify, and for a broadcast the removal from
`pending_verifications`. A batch's roots are abstracted to its senders and its
writes, because every batch is executed from a fresh state of its senders.
The SP1 SDK is taken to be sound: a proof file holds a genuine proof.

*Pipeline.* `queue` and `priority_lane` are the two lanes, `batches` (auxiliary)
the transactions of the sealed batches, `plan` the simulations `main` was asked
for and `results` the reports so far. Each call of `ingest`, each round of
`flush` and `finalize` is a step, with everything it calls. The time a proof
takes is measured, so it is any member of `ProveMs`; a failing prover leaves the
clock alone, a failing verifier comes after the time of the proof, and both end
the program through `?`. `rng` keeps the draws of a scenario's seed: free the
first time, the same ever after. `sla_latency_ms` is the latency budget for
`simulate` and a parameter of its own for `compare`, as in `main`. Ratios are
pairs of integers; f64 rounding is left out.

*AdaptivePolicy, AutoPolicy.* The fields of the two structs. The moving average
of the latency truncates as in the code; the growth rate, an f64, is kept
exactly as a multiple of `1/Scale`, and the standard deviation of the arrival
intervals is compared through its square. `over`, `adapted` and `arrivals` are
auxiliary. A `--batch-threshold` of 0, where both bounds of the adaptive
threshold meet at 0, is allowed.

*CatalystBatcher.* Anchor checks all account constraints before a handler runs
and reverts everything on an error, so an instruction is one action guarded by
constraints and `require!`s. `batch_count` is bounded by `MaxCount`, the
overflow check of the build.

## 3. Runs

Passing runs.

* `batch_proof`: all batches of up to three transactions over 12 instructions
  (each way through the decoders, values 2 and 3) and two senders, both
  executor modes. Words have two bits and balances start at 2, so one credit
  overflows and a transfer of 3 is refused; three transactions are enough for a
  failure between two successes and for a transfer to and from one account.
* `client`: two clients that each submit a transaction and have it sealed, two
  connections and the ticker, three tasks in all; batches of two and of none
  (`--batch-size 0`) under the hybrid policy, every call failing or not,
  connections that break at any point, one restart at any moment. Two batches
  are in flight at once and both clients can be told of a batch, which is what
  the invariants relate; the theorems cover any number. Checks the validator's
  invariants, that it implements `TxLedger`, and what clients are told. Clients
  have the same command and connections are alike, hence the symmetry.
* `client_live`: fairness below, one client with a benchmark of two
  transactions, failing calls, broken connections, one restart, one step back
  of the wall clock. The policy is Hybrid: under FixedCount, without a time
  bound, a short queue may stay for ever, and so may any queue with batches of
  size 0.
* `nodes_restart`: one batch id in two lives of the validator with two different
  payloads, one restart of the verifier, a request, a broadcast and the poller,
  one step back of the wall clock.
* `nodes_live`: two batches, one of which may be unprovable, broadcasts and the
  poller under fairness, one step back of the wall clock. No call fails here, so
  a dropped broadcast or the entry a failed verification leaves behind are not
  in it; `nodes_restart` has them.
* `pipeline`: four transactions, gaps and proofs short and long against a
  threshold of 60 ms, invalid opcodes, a failing prover and verifier; simulations
  with four policies and comparisons of two, on the scenarios that use both
  lanes. Four transactions give up to four batches, or a batch by count or time
  with a rest for `flush`. Slow batches meet the SLA of a simulation exactly and
  violate that of a comparison. Gaps of up to 300 ms against the threshold of 60
  make late seals happen.
* `policies`: five arrivals on a ring of three, so the ring wraps and the class
  changes in every way that is reachable; three growth observations and any
  number of latencies below, at and above the budget. `RingSize` is 100 in the
  code; the property relates ring and arrivals for any size. The maximal latency
  is 300 ms, where the limit of bursty traffic is longer than that of steady
  traffic, so the exception in `BurstHoldsBackOnlySteady` is met.
* `batcher`: two keys, three batch ids, two summaries, two proof hashes beside
  zero, three slots; `MaxCount` is 2, so the counter's limit is reached.

Violations, each a disagreement between the code and what the repository says
of it (details in `PROJECT.json`, "findings").

* `guest_accepts`: a batch with an unknown opcode or an unpayable transfer can
  never be proved, since host and guest account for these failures differently.
* `nodes_chain`: the verifier warns about a broken chain of roots and accepts;
  as every batch starts from a fresh state the chain breaks at once.
* `nodes_poll`: a poll between the two writes of `save_proof` discards a batch
  for good, neither verified nor counted as failed.
* `force_seal`: `forceSeal` asks the policy like any seal and leaves a queue that
  is not due as it is, where `examples/README.md:169` says "Force seal current
  batch"; the answer is "No transactions to seal" although there are some. The
  run is fair and has no faults: one client, batches of two, one transaction.

Every property of a passing run has a mutant of the code's model that breaks it.

Fairness. Weak fairness of the clock, of the ticker and of every task: tokio
polls ready tasks, the blocking pool runs to the end, and file and network calls
return (with a result or an error). The number of connections is not limited in
the code and bounded in the model, so what waits for a free one is strongly
fair: `handle_proof_broadcast` of a delivered message in `CatalystNodes` and
`Connect` in `CatalystClient`. An answer or a reset reaches a client that waits
for it (`Receive`, `ReadFails` after a reset); nothing else is assumed of the
network. A client goes on with its command. In `nodes_live` calls do not fail,
since a failed call is allowed to lose a batch.

Deadlock checking is off for `BatchProof`, where a batch ends with a verdict,
and for `Pipeline`, where the program ends.

### Other disagreements met while modelling

Found while reading and modelling. Where a passing property states what the
code does instead, it is named.

* The engine looks at its clock only when a transaction arrives
  (`benchmark-cli/src/engine.rs:78-91`), so a policy with a time bound seals late
  by as long as nothing arrives; `docs/output.md:26` says "Seals batch after T
  milliseconds" and `:59` "Seals every 500ms". `SealedWithinGap` says how late:
  less than the bound and the gap before the next arrival together.
* The 200 ms of the Bursty class are a longer limit than that of Steady traffic
  when the maximal latency is below 400 ms, against the comments "seal on small
  count or short time" and "fast seal during bursts" of
  `batch-policy/src/lib.rs:327-329`. `BurstHoldsBackOnlySteady` says which
  queues are then held back and for how long.
* The ticker awaits the proof of its batch (`main.rs:509`), so a transaction can
  wait longer than `batch-timeout-ms`, which `examples/README.md:46` calls "Max
  wait time before sealing".
* The latency the benchmark reports starts at the seal
  (`benchmark-cli/src/engine.rs:137,164`); `docs/output.md:14` says "ingest →
  verify".
* The engine never calls `observe_latency` or `observe_queue_growth`
  (`engine.rs:188`), so the adaptive policy of `README.md:8` and `:221` adapts to
  nothing in a simulation; `should_seal_for_critical`
  (`batch-policy/src/lib.rs:197`) is not called either.
* Measured time advances the virtual clock (`sp1-prover/src/lib.rs:169`), so the
  batches depend on the machine; `docs/output.md:129` says "Same seed =
  identical results."
* The class HighLoad asks for more than 100 arrivals in a ring of 100
  (`batch-policy/src/lib.rs:300`) and is unreachable (proved:
  `HighLoadOutOfReach`); a regular stream looks
  Bursty when the ring has wrapped, because the intervals are taken in ring
  order (`:281`).
* The truncating average makes the adaptive policy slow or deaf for small
  budgets (`batch-policy/src/lib.rs:169`): at 13 ms, four latencies of 13 ms
  leave an average of 9 ms, just below the ratio of 0.7 at which `:119` says
  "Aggressively shrink when nearing budget", and only a fifth makes it 10; a
  constant latency of 3 ms is averaged to 0 for good.
* `benchmark --batch-size 0` of the client panics on a remainder.

## 4. Proofs

`BatchProofProofs` holds for batches of any length, any instruction data, words
of any width, any initial balance and *any* two commitment functions: no theorem
rests on a property of hashing. Assumed are the named assumptions of
`Instructions` and `BatchProof`: the constants have their types, account and
data names differ, and the compute limit is at least the dearest opcode
(`200_000` against 5000 in every construction site).

* `CopiesAgree` (lemma): on every state and instruction the two copies of the
  instruction set reach one state; for an unknown opcode and an unpayable
  transfer the guest charges strictly more, otherwise the outcomes are equal.
* The inductive invariant `Inv` has four parts. `HostInv` says that history and
  entries are the run of the batch; `TraceInv` that the trace is what the
  builder held; `GuestInv` that the guest is in the state the host was in after
  as many transactions, with equal compute and hashes unless it has met a
  failure reported differently, and then with strictly more compute;
  `VerdictInv` what the outcome says. The strict inequality is the heart of it:
  later transactions never close the gap, so the compute assertion catches every
  divergence, and no property of the hashes is needed.
* From it: `TypeCorrect`, `TraceIsChained`, `FailuresLeaveState`,
  `CopiesStayTogether`, `ProvableBatches`, `HonestProofsVerify`.
* `TransfersConserve` is about the sum of a map, a fold in an order the library
  leaves open. That its partial sums exist, that they do not depend on the order
  and that inserting a key changes the sum by the difference there are lemmas,
  each proved by a smallest set for which it would fail (`SumLaws`, `PutSum`). A
  sum needs a finite map: `FiniteState` says that the executor's map stays one,
  also when the set of names is infinite. The rest is `TransferSum`: debit and
  credit cancel, and a credit that wraps loses exactly one word.

`CatalystBatcherProofs` holds for any sets of keys, batch ids and hashes: types,
`batch_count` as the number of receipts (the cardinality argument needs that the
set of receipts is finite), finality of verified receipts, the effect of a
pause, soundness of verified receipts, and the refinement of
`ReceiptLifecycle`.

`ValidatorProofs` holds for any number of connections calling `forceSeal` beside
the ticker, any transactions, policies, batch sizes and bounds, with every call
failing or not, restarts anywhere and any number of steps back of the clock.
The inductive invariant `Inv` has four parts.

* `TypeInv`: the types; a step back lowers an age by one, so an age is at least
  minus the steps back so far, and a task that is not idle has a batch number.
* `DiskInv`: a task works alone on its batch. The numbers of batches that are
  worked on or recorded are at most `batch_counter` and all different, so what
  one task writes is never another's file; from the step after each write the
  file is what the task holds. `RecordedIsOnDisk` is not inductive without this:
  another task could truncate the files of a recorded batch, and after a restart
  the counter starts again at one while old files are still there.
* `QueueInv`: the queue is the run of the last ids handed out.
* `PlaceInv`, over `Holds(b, n)` (transaction n is in batch b, in flight or
  recorded): the ids before the queue are exactly those held or lost, never
  both, and a batch with a larger number holds larger ids. Two batches that
  hold one transaction therefore have one number, and by `DiskInv` one holder.
* From it: `TypeCorrect`, `RecordedStaysOnDisk`, `TransactionsInOnePlace`,
  `BatchesInOrder`, and `LedgerImplemented`, the refinement of `TxLedger`. The
  refinement needs uniqueness: when a task is done, its batch leaves the batches
  in flight as a whole only because no other task holds the same ids.
* `SealedByCountOrTime` is about the ticker and goes through every policy
  `should_seal` dispatches to: a queue below the count is taken only on a time bound, and saturating the age at
  zero after a step back can only shorten a wait.

`CatalystClientProofs` holds for any clients, commands and connections, broken
connections and restarts at any point. `ClientsKeepTheValidator` comes first:
with the client's variables hidden, each step is a step of `Validator` or leaves
it alone, so the theorems above hold behind the RPC. Three invariants are added.

* `ConnInv`: a client that waits has its request on a connection, a connection in
  use carries a request its client waits for or has given up, and no request is
  on two.
* `AcceptInv`: an accepted request is over for its client or waits on a
  connection from which it has been read; none is where it could be read again.
  `AtMostOnce` is not inductive without it: a step that accepts must know that
  the request at hand has not been accepted before. `RequestsAcceptedOnce` and
  `AnswersCarryOwnId` follow.
* `SealInv`: of the batch ids clients were told by this life of the validator,
  those on their way in an answer and those a task of a connection is certain to
  answer, each is of a recorded proof and all are different; ids told by one
  earlier life stay different. A task that records adds one id, and that it is
  new is the part of `DiskInv` about batch numbers. `SealedIsRecorded` is not
  inductive without the ids on their way. It yields `ToldIsRecorded`.

`CatalystNodesProofs` holds for any number of connections on either node, any
payloads and any number of restarts of both. It keeps the validator's `TypeInv`
(the verifier only reads the files) and adds: a task that verifies has read two
complete files (`VJobsInv`), so matching public inputs make the two equal
(`WholeInv`); and what the poller has done, is doing and has still to visit are
disjoint, with everything it attested among what it has done (`PollInv`).
`PolledAtMostOnce` needs that last part: a directory scan during a visit would
otherwise bring a batch back. From it `AttestsWholeArtifacts` and
`PollsAtMostOnce`; `AttestationsAreStable` follows because attestations are only
appended, so the least index of a batch id stays the least.

`PolicyProofs` holds for any thresholds, budgets, latencies, rates and arrivals
and a ring of any size.

* `SteersBack` rests on arithmetic lemmas: the truncating average lies between
  the old average and the sample, the latency factor falls with the latency (as
  cross products of fractions), and rounding up and clamping keep the order.
* `OverBudgetAlwaysShrinks` needs `OverInv`: after k observations in a row at or
  beyond the budget the average is at least what k observations *at* the budget
  make of 0, and the fourth such average does not fall again. Its hypothesis
  `BudgetIsFelt` says that there the latency factor takes a whole transaction
  off the base count. It is what the statement needs, and not a formality: with
  a budget of 13 ms the property is false. It holds for the instance of the run
  (base 10, budget 20 ms) and for the defaults of the CLI (100 and 1000 ms); with
  the 100 ms of the validator it holds from a batch size of 10 on.
* `RingCounts` rests on `RingInv`: the entry at each position of the ring is the
  arrival whose distance from the newest is the position's distance from the
  index (`Age`), or zero where that lies before the first; arrivals are in order
  of time. Those in a window are then a run of the last ones, and position and
  age are a bijection between what the ring and what the history counts.
* `HighLoadOutOfReach` has the hypothesis that the ring has at most 100 entries,
  as in the code.
* `TypeCorrect` and `LimitsAlwaysFollow` are inductive with the types of the
  fields. `BurstsHoldBackOnlySteady` follows from the latter for every maximal
  latency; it uses that `min_batch` is no larger than `max_batch`, as their names
  say (nothing in the repository constructs an `AutoPolicy` yet).

`PipelineProofs` holds for every plan, workload, seed, threshold and duration of
proving and verifying, failing calls included. `MetricsProofs` gives it the facts
about a report: a total is the last of the partial sums and additive over
concatenation, a sorting permutation exists, and the entry at the rounded index
of the sorted latencies has the rank its percentile asks for.

* `TypeInv`: the types, also of the metrics of each batch, and that a running
  program has a simulation left to run.
* `LaneInv`: the sealed batches and the two lanes hold the generated
  transactions once each, every lane holds its own priorities, and each batch
  has the fast lane first. From it `SealedOnce`: sealing moves the lanes into a
  new last batch as they are, so positions move and nothing else does.
* `TimeInv`: the arrivals of what waits lie between `oldest_arrival` and the time
  of the generator, which is never ahead of the clock, and while something waits
  `oldest_arrival` itself is within the time bound. From it `TimesStayInOrder`
  and, since a step moves the clock by at most the gap, `SealsWithinGap`. The
  detour over `oldest_arrival` is needed: `try_seal` looks at it and at no
  transaction.
* `CountInv`: the metrics of the batches add up to the transactions that left
  the lanes, in number and in compute, the compute being that of the draws.
* `ResultInv`: a report that exists adds up to the whole workload of its
  scenario, whose draws are fixed once they have been made. From these
  `ReportsComplete`; `FiguresAgree` follows from the percentile lemmas.

Induction over data is an argument about a least counterexample throughout: the
induction theorems of the library take an operator as a parameter, which the
installed backends cannot instantiate, while "a set of numbers has a least one"
(`LeastNumber`) takes a set. The inductive invariants were checked with TLC on
the instances of the runs before they were proved.

Only model-checked: liveness (`AnnouncedIsVerified`, `PendingDrains`,
`ClientsFinish`, `PendingEventuallySealed`), because TLAPS
proves neither fairness nor `ENABLED`. About `Merkle` nothing is proved: the
theorems hold for any two commitments, and the runs use it as one.

## 5. Not modelled, and the plan

Left out: the printing, export and charts of the CLI; the remaining commands of
the client, one read-only request each or a request the node modules model;
request parsing and read-only RPCs of the nodes; `validate` of the ingress, which
nothing outside its tests calls; floating-point rounding; the SP1 SDK; the
declarations of `crates/common/src/types.rs`.

What could follow:

1. A log of attested artifacts as an abstract specification of `CatalystNodes`.
2. `Merkle` against a reference definition over bounded inputs: which lists of
   leaves share a root (odd levels are padded by duplication).
3. A proof that every step of the validator's life cycle leads on (the safety
   half of the liveness properties: a measure that falls with each step).
