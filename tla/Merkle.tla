------------------------------- MODULE Merkle -------------------------------
(***************************************************************************)
(* The Merkle commitments (crates/common/src/merkle.rs and its copies in   *)
(* the trace builder and in the SP1 guest).  SHA-256 is modelled as a free *)
(* constructor: two hashes are equal exactly when their preimages are.     *)
(* What the code really does with it is kept: pairs, the duplication of an *)
(* odd last node on every level, a one-leaf tree whose root is the leaf    *)
(* itself, and the special roots of an empty list and an empty state.      *)
(***************************************************************************)
EXTENDS Integers, Sequences

Node(left, right) == <<"node", left, right>>

\* One pass of the while loop of merkle_root.
NextLevel(level) ==
  [i \in 1..((Len(level) + 1) \div 2) |->
     LET left == level[2 * i - 1]
     IN  Node(left, IF 2 * i <= Len(level) THEN level[2 * i] ELSE left)]

merkle_root(leaves) ==
  LET levels[n \in 0..Len(leaves)] ==
        IF n = 0 THEN leaves
        ELSE IF Len(levels[n - 1]) > 1 THEN NextLevel(levels[n - 1])
        ELSE levels[n - 1]
  IN  IF leaves = <<>> THEN <<"empty">> ELSE levels[Len(leaves)][1]

(***************************************************************************)
(* The state is a BTreeMap, iterated in key order; `order' lists the keys  *)
(* in that order.                                                          *)
(***************************************************************************)
compute_state_root(state, order) ==
  LET present == SelectSeq(order, LAMBDA k : k \in DOMAIN state)
  IN  IF present = <<>>
      THEN <<"empty_state">>
      ELSE merkle_root([i \in 1..Len(present) |->
                          <<"leaf", present[i], state[present[i]]>>])
=============================================================================
