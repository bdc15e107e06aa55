---------------------------- MODULE MCBatchProof ----------------------------
(***************************************************************************)
(* BatchProof on three account names, words of two bits and batches of up  *)
(* to MaxBatch transactions.  Two of the names sign, the third is the one  *)
(* the prover puts in when it rebuilds a transaction.  Balances start at   *)
(* 2, so that a second credit overflows and a transfer of 3 is refused.    *)
(***************************************************************************)
EXTENDS BatchProof, TLC

CONSTANT Values

M == INSTANCE Merkle

MCKeys == {"account_0", "data_0", "sender_t"}
MCAccountKeys == {"account_0"}
MCDataKeys == {"data_0"}
MCSenderOf == [t \in TxIds |-> "sender_t"]

Ins(op, full, key, val) ==
  [empty |-> FALSE, op |-> op, full |-> full, key |-> key, val |-> val]

\* One instruction per way through the decoders.
MCInstructions ==
  {Ins("Transfer", TRUE, "account_0", v) : v \in Values}
  \cup {Ins(op, TRUE, "data_0", v) : op \in {"SetData", "Increment"}, v \in Values}
  \cup {Ins(op, FALSE, "data_0", 0) : op \in {"SetData", "Increment", "Noop", "Invalid"}}
  \cup {Ins("Transfer", FALSE, "account_0", 0)}
  \cup {[empty |-> TRUE, op |-> "Invalid", full |-> FALSE, key |-> "data_0", val |-> 0]}

MCStateRoot(s) == M!compute_state_root(s, <<"account_0", "data_0", "sender_t">>)
MCMerkleRoot(leaves) == M!merkle_root(leaves)
=============================================================================
