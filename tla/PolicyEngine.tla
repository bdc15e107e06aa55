---------------------------- MODULE PolicyEngine ----------------------------
(***************************************************************************)
(* A policy with a memory behind the PolicyEngine trait: its owner holds   *)
(* one policy, chosen when it is built, and every observation is           *)
(* dispatched to that one.  Policies without a memory (BatchPolicy) inherit *)
(* observations that do nothing.                                           *)
(***************************************************************************)
EXTENDS AdaptivePolicy, AutoPolicy

VARIABLE kind   \* which policy is behind the trait

engineVars == <<kind, adaptiveVars, autoVars>>

EngineInit ==
  /\ kind \in {"Adaptive", "Auto"}
  /\ AdaptiveInit
  /\ AutoInit

EngineNext ==
  \/ kind = "Adaptive" /\ AdaptiveNext /\ UNCHANGED <<kind, autoVars>>
  \/ kind = "Auto" /\ AutoNext /\ UNCHANGED <<kind, adaptiveVars>>

EngineSpec == EngineInit /\ [][EngineNext]_engineVars

\* The fields keep their types under any observations; the index of the ring
\* stays inside it and the adaptive threshold between its bounds.
EngineTypeOK ==
  /\ kind \in {"Adaptive", "Auto"}
  /\ AdaptiveTypeOK
  /\ AutoTypeOK
=============================================================================
