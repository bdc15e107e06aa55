------------------------- MODULE MCCatalystBatcher -------------------------
(* The on-chain program with two keys, three batches and two proof hashes.   *)
EXTENDS CatalystBatcher, TLC

CONSTANTS b1, b2, b3, k1, k2, h1, h2, zero
=============================================================================
