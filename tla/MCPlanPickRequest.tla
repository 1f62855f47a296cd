-------------------------- MODULE MCPlanPickRequest --------------------------
(* PlanPickRequest on small instances.                                     *)
EXTENDS PlanPickRequest
=============================================================================
