-------------------------- MODULE MCCatalystNodes --------------------------
(* One validator and one verifier node, a few transactions each.           *)
EXTENDS CatalystNodes, TLC

CONSTANTS c1, v1, v2, write, noop

\* One sender; `write' changes its state, `noop' does not.
MCSenderOf(p) == "alice"
MCWrites(p) == p = write
=============================================================================
