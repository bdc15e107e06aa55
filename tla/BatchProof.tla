----------------------------- MODULE BatchProof -----------------------------
(***************************************************************************)
(* One batch on its way from the executor to the verdict of the verifier:  *)
(* the executor runs the transactions and the TraceBuilder records them,   *)
(* Sp1Prover::prove rebuilds the initial state and hands trace,            *)
(* transactions and state to the guest, the guest replays the batch and    *)
(* asserts that what it recomputed is what the trace claims, and           *)
(* Sp1Verifier::verify compares the public inputs with the trace.          *)
(*                                                                         *)
(* mode is the executor in use: "full" is FullExecutor, which is given the *)
(* transactions; "deterministic" is DeterministicExecutor, which only sees *)
(* the transaction ids, runs a Noop for each, and leaves the prover to     *)
(* reconstruct the transactions from the trace.                            *)
(***************************************************************************)
EXTENDS Instructions, Functions

CONSTANTS Senders,         \* the names that may sign a transaction
          Instrs,          \* the instruction data they may carry
          MaxBatch,        \* bound on the length of a batch
          SenderOf,        \* format!("sender_{}", tx_id)
          InitialBalance,  \* 1_000_000 in the code
          StateRoot(_),    \* compute_state_root (Merkle.tla)
          TraceRoot(_)     \* merkle_root of a list of entry hashes

\* Ids are unique, so a transaction's id is its position in the batch.
TxIds == 1..MaxBatch

Transaction == [tx_id : TxIds, sender : Senders, ins : Instrs]

ASSUME BatchAssumptions ==
  /\ Senders \subseteq Keys
  /\ Instrs \subseteq Instruction
  /\ MaxBatch \in Nat
  /\ SenderOf \in [TxIds -> Keys]
  /\ InitialBalance \in U64
  /\ AccountKeys \cup DataKeys # {}

VARIABLES mode, batch,
          phase,
          state,    \* the executor's state map
          builder,  \* TraceBuilder
          trace,    \* the built ExecutionTrace
          stdin,    \* what the prover writes for the guest
          guest,    \* the guest's loop state
          public,   \* the committed PublicInputs
          is_valid, \* VerificationResult
          history   \* auxiliary: host state and total compute after i entries

vars == <<mode, batch, phase, state, builder, trace, stdin, guest, public,
          is_valid, history>>

\* None is the value of a record that has not been produced yet.
None == <<>>

Phases == {"executing", "built", "replaying", "proved", "guest_panicked",
           "prove_error", "verified"}

NoopIns == [empty |-> FALSE, op |-> "Noop", full |-> FALSE,
            key |-> CHOOSE k \in AccountKeys \cup DataKeys : TRUE, val |-> 0]

\* The transaction the executor runs at a position of the batch.
Effective(tx) ==
  IF mode = "full" THEN tx
  ELSE [tx_id |-> tx.tx_id, sender |-> SenderOf[tx.tx_id], ins |-> NoopIns]

\* entry(sender).or_insert(1_000_000) for every transaction
BalancesOf(senders) == [k \in senders |-> InitialBalance]

InitialState == BalancesOf({Effective(batch[i]).sender : i \in DOMAIN batch})

\* hash_trace_entry: the state hashes, the index, the instruction and the
\* error text of an entry are not part of its hash.
hash_trace_entry(e) ==
  <<"leaf", e.tx_id, e.success, e.cu, e.reads, e.writes>>

Init ==
  /\ mode \in {"full", "deterministic"}
  /\ \E n \in 0..MaxBatch : \E txs \in [1..n -> [sender : Senders, ins : Instrs]] :
        batch = [i \in 1..n |-> [tx_id |-> i, sender |-> txs[i].sender,
                                 ins |-> txs[i].ins]]
  /\ phase = "executing"
  /\ state = InitialState
  /\ builder = [entries |-> <<>>,
                pre_state_root |-> StateRoot(InitialState),
                total_compute |-> 0, success_count |-> 0, failure_count |-> 0]
  /\ trace = None
  /\ stdin = None
  /\ guest = None
  /\ public = None
  /\ is_valid = FALSE
  /\ history = <<[state |-> InitialState, compute |-> 0]>>

-----------------------------------------------------------------------------
(* The executor and the TraceBuilder.                                      *)

\* Mutant: a failed transaction is not counted.
CountsSuccessOnly(b, e) ==
  [b EXCEPT !.entries = Append(@, e),
            !.total_compute = @ + e.cu,
            !.success_count = IF e.success THEN @ + 1 ELSE @]

add_entry(b, e) ==
  [b EXCEPT !.entries = Append(@, e),
            !.total_compute = @ + e.cu,
            !.success_count = IF e.success THEN @ + 1 ELSE @,
            !.failure_count = IF e.success THEN @ ELSE @ + 1]

TraceEntry(tx, before, res) ==
  [tx_id |-> tx.tx_id, pre |-> StateRoot(before),
   post |-> StateRoot(res.state), reads |-> res.reads,
   writes |-> res.writes, cu |-> res.cu, success |-> res.success]

\* One iteration of the loop of execute / execute_with_transactions.
ExecuteTx ==
  /\ phase = "executing"
  /\ Len(builder.entries) < Len(batch)
  /\ LET tx  == Effective(batch[Len(builder.entries) + 1])
         res == HostExecute(state, tx.sender, tx.ins)
     IN  /\ state' = res.state
         /\ builder' = add_entry(builder, TraceEntry(tx, state, res))
         /\ history' = Append(history,
                         [state |-> res.state,
                          compute |-> builder.total_compute + res.cu])
  /\ UNCHANGED <<mode, batch, phase, trace, stdin, guest, public, is_valid>>

\* TraceBuilder::build
Build ==
  /\ phase = "executing"
  /\ Len(builder.entries) = Len(batch)
  /\ trace' = [entries |-> builder.entries,
               state_root_pre |-> builder.pre_state_root,
               state_root_post |-> StateRoot(state),
               trace_hash |-> TraceRoot([i \in DOMAIN builder.entries |->
                                             hash_trace_entry(builder.entries[i])]),
               total_compute |-> builder.total_compute,
               success_count |-> builder.success_count,
               failure_count |-> builder.failure_count]
  /\ phase' = "built"
  /\ UNCHANGED <<mode, batch, state, builder, stdin, guest, public, is_valid, history>>

-----------------------------------------------------------------------------
(* Sp1Prover::prove.                                                       *)

\* The fallback when the caller has no transactions: one Noop per entry.
Reconstruct(entries) ==
  [i \in DOMAIN entries |->
     [tx_id |-> entries[i].tx_id, sender |-> SenderOf[entries[i].tx_id],
      ins |-> NoopIns]]

ProverTransactions ==
  LET given == IF mode = "full" THEN batch ELSE <<>>
  IN  IF given = <<>> THEN Reconstruct(trace.entries) ELSE given

Prove ==
  /\ phase = "built"
  /\ LET txs == ProverTransactions
     IN  IF trace.entries = <<>>
         THEN /\ phase' = "prove_error"
              /\ UNCHANGED <<stdin, guest>>
         ELSE /\ phase' = "replaying"
              /\ stdin' = [state_root_pre |-> trace.state_root_pre,
                           state_root_post |-> trace.state_root_post,
                           trace_hash |-> trace.trace_hash,
                           total_compute |-> trace.total_compute,
                           tx_count |-> Len(trace.entries),
                           transactions |-> txs,
                           initial_state |-> BalancesOf({txs[i].sender : i \in DOMAIN txs})]
              /\ guest' = [state |-> BalancesOf({txs[i].sender : i \in DOMAIN txs}),
                           entry_hashes |-> <<>>, total_compute |-> 0]
  /\ UNCHANGED <<mode, batch, state, builder, trace, public, is_valid, history>>

\* setup, proving or serialization fails inside the SP1 SDK.
ProveFails ==
  /\ phase \in {"built", "replaying"}
  /\ phase' = "prove_error"
  /\ UNCHANGED <<mode, batch, state, builder, trace, stdin, guest, public,
                 is_valid, history>>

-----------------------------------------------------------------------------
(* The guest program.                                                      *)

\* One iteration of the loop of execute_batch.
GuestStep ==
  /\ phase = "replaying"
  /\ Len(guest.entry_hashes) < Len(stdin.transactions)
  /\ LET tx  == stdin.transactions[Len(guest.entry_hashes) + 1]
         res == GuestExecute(guest.state, tx.sender, tx.ins)
     IN  guest' = [state |-> res.state,
                   entry_hashes |->
                     Append(guest.entry_hashes,
                            hash_trace_entry([tx_id |-> tx.tx_id,
                                              success |-> res.success,
                                              cu |-> res.cu, reads |-> res.reads,
                                              writes |-> res.writes])),
                   total_compute |-> guest.total_compute + res.cu]
  /\ UNCHANGED <<mode, batch, phase, state, builder, trace, stdin, public,
                 is_valid, history>>

\* Mutant: only the state roots are asserted.
RootAssertionsOnly ==
  /\ StateRoot(stdin.initial_state) = stdin.state_root_pre
  /\ StateRoot(guest.state) = stdin.state_root_post

GuestAssertions ==
  /\ StateRoot(stdin.initial_state) = stdin.state_root_pre
  /\ StateRoot(guest.state) = stdin.state_root_post
  /\ TraceRoot(guest.entry_hashes) = stdin.trace_hash
  /\ guest.total_compute = stdin.total_compute
  /\ Len(stdin.transactions) = stdin.tx_count

\* The end of main: assertions, then the committed public inputs.
GuestCommit ==
  /\ phase = "replaying"
  /\ Len(guest.entry_hashes) = Len(stdin.transactions)
  /\ IF GuestAssertions
     THEN /\ phase' = "proved"
          /\ public' = [state_root_pre |-> StateRoot(stdin.initial_state),
                        state_root_post |-> StateRoot(guest.state),
                        trace_hash |-> TraceRoot(guest.entry_hashes),
                        total_compute |-> guest.total_compute,
                        tx_count |-> Len(stdin.transactions)]
     ELSE /\ phase' = "guest_panicked"
          /\ UNCHANGED public
  /\ UNCHANGED <<mode, batch, state, builder, trace, stdin, guest, is_valid, history>>

-----------------------------------------------------------------------------
(* Sp1Verifier::verify on the proof and the trace of the batch.            *)

\* Mutant: the two roots of the trace are mixed up.
RootsSwapped ==
  /\ public.trace_hash = trace.trace_hash
  /\ public.state_root_pre = trace.state_root_post
  /\ public.state_root_post = trace.state_root_pre
  /\ public.total_compute = trace.total_compute

PublicInputsMatch ==
  /\ public.trace_hash = trace.trace_hash
  /\ public.state_root_pre = trace.state_root_pre
  /\ public.state_root_post = trace.state_root_post
  /\ public.total_compute = trace.total_compute

Verify ==
  /\ phase = "proved"
  /\ phase' = "verified"
  /\ is_valid' = PublicInputsMatch
  /\ UNCHANGED <<mode, batch, state, builder, trace, stdin, guest, public, history>>

Next == \/ ExecuteTx
        \/ Build
        \/ Prove
        \/ ProveFails
        \/ GuestStep
        \/ GuestCommit
        \/ Verify

Spec == Init /\ [][Next]_vars

-----------------------------------------------------------------------------
(* Properties.                                                             *)

TypeOK ==
  /\ mode \in {"full", "deterministic"}
  /\ batch \in Seq(Transaction)
  /\ phase \in Phases
  /\ state \in State
  /\ Len(builder.entries) \in 0..Len(batch)
  /\ builder.total_compute \in Nat
  /\ builder.success_count + builder.failure_count = Len(builder.entries)
  /\ is_valid \in BOOLEAN

\* Every entry starts from the state hash the previous one ended in, the
\* first from the pre-state root, and the last ends in the post-state root
\* of the built trace (the roots TraceBuilder and the executor compute at
\* different moments describe one run).
TraceChained ==
  /\ \A i \in DOMAIN builder.entries :
        builder.entries[i].pre =
          IF i = 1 THEN builder.pre_state_root ELSE builder.entries[i - 1].post
  /\ (phase # "executing" /\ trace.entries # <<>>) =>
        trace.state_root_post = trace.entries[Len(trace.entries)].post

\* A transaction the executor records as failed leaves the state root as it
\* found it: no error path of execute_transfer, execute_set_data or
\* execute_increment returns after a write.
FailedTxLeavesState ==
  \A i \in DOMAIN builder.entries :
     ~builder.entries[i].success => builder.entries[i].post = builder.entries[i].pre

\* A transfer that succeeds moves value and neither makes nor destroys any,
\* also when sender and target are one account; the sum is modulo the word
\* because a credit wraps in a release build.
TransferConserves ==
  [][ LET n == Len(builder'.entries)
      IN  (/\ n > Len(builder.entries)
           /\ builder'.entries[n].success
           /\ Effective(batch[n]).ins.op = "Transfer")
          => SumFunction(state') % (MaxU64 + 1) = SumFunction(state) % (MaxU64 + 1)
    ]_vars

\* The guest's copy of the instruction set walks through the very states the
\* host's copy went through, failing transactions included, from an initial
\* state the prover rebuilds on its own.
GuestTracksHost ==
  phase \in {"replaying", "proved", "guest_panicked", "verified"} =>
    /\ guest.state = history[Len(guest.entry_hashes) + 1].state
    /\ \A i \in DOMAIN guest.entry_hashes :
          trace.entries[i].post = StateRoot(history[i + 1].state)

\* Some transaction of the batch failed in one of the two ways the host and
\* the guest account for differently.
Diverges(n) ==
  \E i \in 1..n :
     LET tx == Effective(batch[i])
     IN  ReportedDifferently(history[i].state, tx.sender, tx.ins)

\* The guest commits public inputs exactly for the batches without an
\* unknown opcode and without an unpayable transfer; for the others one of
\* its assertions fails.
ProvesIffAligned ==
  /\ phase \in {"proved", "verified"} => ~Diverges(Len(batch))
  /\ phase = "guest_panicked" => Diverges(Len(batch))

\* A proof the guest committed passes Sp1Verifier::verify against the trace
\* the executor built.
HonestProofVerifies == phase = "verified" => is_valid

\* The README has the guest recompute roots, hash and compute of the trace
\* the executor built and assert that they match, and the prover's test
\* requires that all these assertions pass.
GuestAcceptsHostTrace == phase # "guest_panicked"
=============================================================================
