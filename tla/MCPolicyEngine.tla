--------------------------- MODULE MCPolicyEngine ---------------------------
(* The two policies with a memory, on a ring of three arrivals.            *)
EXTENDS PolicyEngine
=============================================================================
