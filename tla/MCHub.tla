------------------------------- MODULE MCHub -------------------------------
(***************************************************************************)
(* Instances of Hub for TLC: an agent of organisation "lab" that works for *)
(* "acme", with tasks that are all paid or all free.                       *)
(***************************************************************************)
EXTENDS Hub

OneAgent == [t \in Tasks |-> "worker"]
PaidByAcme == [t \in Tasks |-> "acme"]
PaidToLab == [t \in Tasks |-> "lab"]
AllPaid == [t \in Tasks |-> 1]
AllFree == [t \in Tasks |-> 0]
Automatic == [t \in Tasks |-> TRUE]
=============================================================================
