------------------------------- MODULE Escrow -------------------------------
(***************************************************************************)
(* The escrow of the hub (escrow.py): a ledger of balances in memory and   *)
(* one hold per task, created when the task is submitted and resolved when *)
(* it ends.  One currency; amounts are integers.                           *)
(***************************************************************************)
EXTENDS Integers, FiniteSetsExt

CONSTANTS
  Tasks,        \* task_ids
  Orgs,         \* organisations
  Payer,        \* [Tasks -> Orgs], the organisation of the submitter
  Payee,        \* [Tasks -> Orgs], the organisation of the assignee
  Amount,       \* [Tasks -> Nat], escrow.amount; 0 when none is requested
  AutoRelease   \* [Tasks -> BOOLEAN], escrow.auto_release

(* Both are dictionaries of a running hub.                                 *)
ASSUME EscrowFinite == IsFiniteSet(Tasks) /\ IsFiniteSet(Orgs)

ASSUME EscrowAssumption ==
  /\ Payer \in [Tasks -> Orgs] /\ Payee \in [Tasks -> Orgs]
  /\ Amount \in [Tasks -> Nat]
  /\ AutoRelease \in [Tasks -> BOOLEAN]

VARIABLES
  balances,   \* SimulatedLedger._balances
  holds,      \* EscrowManager._holds: the status of the hold of each task
  minted      \* history: what grant() has put into each account

escrowVars == <<balances, holds, minted>>

HoldStatus == {"none", "held", "released", "refunded"}

EscrowInit ==
  /\ balances = [o \in Orgs |-> 0]
  /\ holds = [t \in Tasks |-> "none"]
  /\ minted = [o \in Orgs |-> 0]

Credit(o, n) == balances' = [balances EXCEPT ![o] = @ + n]

(* SimulatedLedger.grant, the only source of funds. *)
Grant(o, n) ==
  /\ n > 0
  /\ Credit(o, n)
  /\ minted' = [minted EXCEPT ![o] = @ + n]
  /\ UNCHANGED holds

OverdraftAllowed(t) == holds[t] = "none"

(* create_hold raises nothing: no hold for this task yet, and the payer    *)
(* has the funds.                                                          *)
CanHold(t) == holds[t] = "none" /\ balances[Payer[t]] >= Amount[t]

CreateHold(t) ==
  /\ CanHold(t)
  /\ balances' = [balances EXCEPT ![Payer[t]] = @ - Amount[t]]
  /\ holds' = [holds EXCEPT ![t] = "held"]
  /\ UNCHANGED minted

StatusForgotten(t, outcome) == UNCHANGED holds

(* hold.status = ..., the last step of release and of refund. *)
Resolve(t, outcome) == holds' = [holds EXCEPT ![t] = outcome]

Release(t) ==
  /\ holds[t] = "held"
  /\ Credit(Payee[t], Amount[t]) /\ Resolve(t, "released")
  /\ UNCHANGED minted

Refund(t) ==
  /\ holds[t] = "held"
  /\ Credit(Payer[t], Amount[t]) /\ Resolve(t, "refunded")
  /\ UNCHANGED minted

Held == {t \in Tasks : holds[t] = "held"}

EscrowTypeOK ==
  /\ balances \in [Orgs -> Nat]
  /\ holds \in [Tasks -> HoldStatus]
  /\ minted \in [Orgs -> Nat]

Total(f, S) == MapThenSumSet(LAMBDA x : f[x], S)

(* Every unit granted is in one account or in one hold: no order of        *)
(* submissions, results, cancellations and administrator's commands loses  *)
(* one or makes one out of nothing.                                        *)
MoneyConserved ==
  Total(balances, Orgs) + Total(Amount, Held) = Total(minted, Orgs)
=============================================================================
