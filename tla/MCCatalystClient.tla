-------------------------- MODULE MCCatalystClient --------------------------
(* Two clients of one validator, whose ticker seals beside them.           *)
EXTENDS CatalystClient, TLC

CONSTANTS a, b, c1, c2, ok

\* Each submits a transaction and has it sealed.
SubmitAndSeal == [k \in Clients |-> SubmitCommand(1) \o SealCommand]

\* Two submissions, a forceSeal of the two, and the status.
FullBatch == [k \in Clients |-> BenchmarkCommand(2, 2)]

\* A benchmark of one transaction with batches of two: the last forceSeal is
\* for the rest.
RestOfBatch == [k \in Clients |-> BenchmarkCommand(1, 2)]

\* Clients with the same command, and connections, are interchangeable.
Symmetry == Permutations(Clients) \cup Permutations(Conns)
=============================================================================
