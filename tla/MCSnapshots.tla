---------------------------- MODULE MCSnapshots ----------------------------
(* A task and one that is malformed, an agent and a key; a given name and  *)
(* the safety names.                                                       *)
EXTENDS Snapshots

ByAcme == [t \in Tasks |-> "acme"]
ToLab == [t \in Tasks |-> "lab"]
OneUnit == [t \in Tasks |-> 1]
Automatic == [t \in Tasks |-> TRUE]
BySecond == [i \in 0..MaxTime |-> <<"pre0", "pre1", "pre2">>[i + 1]]
=============================================================================
