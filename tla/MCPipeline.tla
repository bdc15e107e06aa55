----------------------------- MODULE MCPipeline -----------------------------
(* Pipeline on workloads of a few transactions.                            *)
EXTENDS Pipeline

BothLanes == {"mixed_priority", "idle_then_spike"}

\* simulate with every policy, and a comparison of two policies, on the
\* scenarios that use both lanes.
MCPlans ==
  { << <<p, s>> >> : p \in {"fixedcount", "fixedtime", "adaptive", "priority"}, s \in BothLanes }
    \cup { SelectSeq(run_comparison, LAMBDA entry : entry[1] \in {"hybrid", "adaptive"}
                                                    /\ entry[2] = s) : s \in BothLanes }
=============================================================================
