------------------------------- MODULE Policy -------------------------------
(***************************************************************************)
(* The policy of the assurance proxy (assurance/policy.py): an ordered     *)
(* list of rules and a declared default.  A request is abstracted to a     *)
(* member of Actions (what policy.py derives from it: method, host, path), *)
(* and a rule to the set of actions its criteria match.                    *)
(***************************************************************************)
EXTENDS Naturals, Sequences

CONSTANTS
  Actions,            \* the (method, target) pairs an agent can request
  Rules,              \* Policy.rules, in the order of the file
  DefaultDecision,    \* Policy.default_decision
  DefaultRisk,        \* Policy.default_risk
  EvidenceThreshold   \* Policy.evidence_threshold

Decisions == {"allow", "approval", "block"}

RiskLevel == 0..5

Rule == [matches : SUBSET Actions, decision : Decisions, risk : RiskLevel]

(* What Policy.from_dict accepts: at least one rule, known decisions and levels. *)
ASSUME PolicyAssumption ==
  /\ Rules \in Seq(Rule) /\ Rules # << >>
  /\ DefaultDecision \in Decisions
  /\ DefaultRisk \in RiskLevel
  /\ EvidenceThreshold \in RiskLevel

Matching(a) == {i \in DOMAIN Rules : a \in Rules[i].matches}

(* The rule that decides: the first that matches, if any does. *)
FirstMatch(a) == {i \in Matching(a) : \A j \in Matching(a) : i <= j}

(* Policy.evaluate: the first matching rule, otherwise the default. *)
Evaluate(a) ==
  IF FirstMatch(a) = {}
  THEN [decision |-> DefaultDecision, risk |-> DefaultRisk]
  ELSE LET i == CHOOSE i \in FirstMatch(a) : TRUE
       IN  [decision |-> Rules[i].decision, risk |-> Rules[i].risk]

RequiresEvidence(risk) == risk >= EvidenceThreshold
=============================================================================
