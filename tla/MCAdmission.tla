---------------------------- MODULE MCAdmission ----------------------------
(***************************************************************************)
(* Instances of Admission for TLC: a fan-out that trips the breaker, and   *)
(* one that the rates slow down.                                           *)
(***************************************************************************)
EXTENDS Admission

Cascade == [t \in Tasks |-> IF t = "child" THEN "ok1" ELSE NoTask]
TwoFans == { <<"ok1", "child", "bad", "ok2", "poor">>, <<"ok1", "ok2", "poor", "ok3">> }
=============================================================================
