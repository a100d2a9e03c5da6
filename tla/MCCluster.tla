----------------------------- MODULE MCCluster -----------------------------
(***************************************************************************)
(* Instances of Cluster for TLC: an orchestrator on the first hub and an   *)
(* executor on the second.                                                 *)
(***************************************************************************)
EXTENDS Cluster

Lead       == [t \in Tasks |-> "lead"]
Worker     == [t \in Tasks |-> "worker"]
Addresses  == [a \in Agents |-> IF a = "lead" THEN "hubA" ELSE "hubB"]
=============================================================================
