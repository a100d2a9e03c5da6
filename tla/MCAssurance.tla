---------------------------- MODULE MCAssurance ----------------------------
(***************************************************************************)
(* Values of the constants of Assurance for model checking, after the      *)
(* policy of examples/assurance.                                           *)
(***************************************************************************)
EXTENDS Assurance, TLC

(* Two actions to approve, so that a token can be presented for the wrong  *)
(* one (a later rule would allow "refund"), and an allowed CONNECT target.  *)
ApprovedActions == {"transfer", "refund", "tunnel"}

ApprovedRules ==
  << [matches |-> {"transfer", "refund"}, decision |-> "approval", risk |-> 4],
     [matches |-> {"refund", "tunnel"}, decision |-> "allow", risk |-> 2] >>

(* One action for each way through the handler: refused by the default     *)
(* ("wipe"), held for approval, recorded, below the threshold, tunnelled.  *)
MixedActions == {"wipe", "transfer", "items", "read", "tunnel"}

MixedRules ==
  << [matches |-> {"transfer"}, decision |-> "approval", risk |-> 4],
     [matches |-> {"items"}, decision |-> "allow", risk |-> 2],
     [matches |-> {"read"}, decision |-> "allow", risk |-> 0],
     [matches |-> {"tunnel"}, decision |-> "allow", risk |-> 3] >>

(* A single action, always held for approval. *)
OneAction == {"transfer"}

OneRule == << [matches |-> {"transfer"}, decision |-> "approval", risk |-> 4] >>

WorkerSymmetry == Permutations(Workers)
=============================================================================
