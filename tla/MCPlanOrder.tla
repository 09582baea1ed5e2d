---------------------------- MODULE MCPlanOrder ----------------------------
(* All inputs of PlanOrder with three resources: every choice of stages and  *)
(* dependencies, cyclic, undeclared and later-stage ones included.          *)
EXTENDS PlanOrder

ThreeStages == 1..3
=============================================================================
