----------------------------- MODULE MCPayments -----------------------------
(***************************************************************************)
(* Instances of Payments for TLC: one paying agent and one vendor.         *)
(***************************************************************************)
EXTENDS Payments

OnePayer == [r \in Requests |-> "agent"]
Unit     == [r \in Requests |-> 1]
OneUnit  == [a \in Accounts |-> 1]
=============================================================================
