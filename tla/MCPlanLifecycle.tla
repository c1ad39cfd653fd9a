-------------------------- MODULE MCPlanLifecycle --------------------------
(* Instances of PlanLifecycle for TLC.  v1 and v2 have plans of the same    *)
(* length, v3 has a shorter one; v1 comes in two parts.                     *)
EXTENDS PlanLifecycle, TLC

CONSTANTS v1, v2, v3

MCPlanLength == [v \in Versions |-> IF v = v3 THEN 1 ELSE 2]
MCFileParts == [v \in Versions |-> IF v = v1 THEN 2 ELSE 1]
=============================================================================
