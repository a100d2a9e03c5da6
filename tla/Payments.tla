------------------------------ MODULE Payments ------------------------------
(***************************************************************************)
(* Paid HTTP (402): callers with a wallet (client/http.py, wallet.py), a   *)
(* server whose endpoint is behind a payment gate (server/gate.py,         *)
(* fastapi.py), and the registry the gate debits.  The server is one event *)
(* loop: it admits one request at a time, and goes on with others while an *)
(* endpoint it has admitted runs.                                          *)
(***************************************************************************)
EXTENDS Registry

CONSTANTS
  Budget,       \* [Accounts -> Nat], Wallet.budget
  MaxPrice,     \* Wallet.max_price
  MaxMishaps,   \* bound: calls given up by the HTTP client, signed requests
                \*   delivered once more, and challenges that expire
  MaxRestarts   \* bound: crashes of the server and of its registry

ASSUME PaymentsAssumption ==
  /\ Budget \in [Accounts -> Nat]
  /\ {MaxPrice, MaxMishaps, MaxRestarts} \subseteq Nat

VARIABLES
  caller,    \* where pay_and_retry is, for each request
  toGate,    \* messages sent and not read by the server
  spent,     \* Wallet._spent
  tally,     \* what authorize has read of it, for each request
  shared,    \* history: agents with two threads inside authorize at once
  proofs,    \* requests whose proof has been sent
  pending,   \* PaymentGate._pending, by the request of the challenge
  expired,   \* challenges past expires_at
  serving,   \* requests admitted, whose endpoint is running
  served,    \* history: requests whose endpoint has run to its end
  mishaps, restarts  \* counters of the bounds

walletVars == <<spent, tally, shared>>
paidVars == <<caller, toGate, walletVars, proofs, pending, expired, serving, served,
              mishaps, restarts>>
vars == <<registryVars, paidVars>>

Waiting == {"asked", "paid"}
Ended   == {"served", "refused", "error"}
Authorizing == {"signing", "spending"}
Ask(r)   == [type |-> "ask", req |-> r]
Proof(r) == [type |-> "proof", req |-> r]

Init ==
  /\ RegistryInit
  /\ caller = [r \in Requests |-> "new"]
  /\ toGate = {} /\ serving = {} /\ served = {}
  /\ spent = [a \in Accounts |-> 0]
  /\ tally = [r \in Requests |-> 0] /\ shared = {}
  /\ proofs = {} /\ pending = {} /\ expired = {}
  /\ mishaps = 0 /\ restarts = 0

(* The answer reaches the caller if it still waits for one.                *)
Reply(r, phase) ==
  caller' = IF caller[r] \in Waiting THEN [caller EXCEPT ![r] = phase] ELSE caller

(***************************************************************************)
(* The caller                                                              *)
(***************************************************************************)
Send(r) ==
  /\ caller[r] = "new"
  /\ caller' = [caller EXCEPT ![r] = "asked"]
  /\ toGate' = toGate \cup {Ask(r)}
  /\ UNCHANGED <<registryVars, walletVars, proofs, pending, expired, serving, served,
                 mishaps, restarts>>

(* Wallet.authorize raises nothing: the price, the term and the budget.    *)
WithinBudgetSoFar(r) ==
  /\ Price[r] <= MaxPrice
  /\ r \notin expired
  /\ spent[Payer[r]] <= Budget[Payer[r]]

Authorized(r) ==
  /\ Price[r] <= MaxPrice
  /\ r \notin expired
  /\ spent[Payer[r]] + Price[r] <= Budget[Payer[r]]

(* The threads of an agent share its wallet, which has no lock: another    *)
(* thread may be anywhere between its own test and its own count.          *)
Authorize(r) ==
  /\ caller[r] = "owed"
  /\ Authorized(r)
  /\ caller' = [caller EXCEPT ![r] = "signing"]
  /\ shared' = IF \E q \in Requests : Payer[q] = Payer[r] /\ caller[q] \in Authorizing
               THEN shared \cup {Payer[r]} ELSE shared
  /\ UNCHANGED <<registryVars, toGate, spent, tally, proofs, pending, expired, serving,
                 served, mishaps, restarts>>

(* The proof is signed, and _spent is read to be added to.                 *)
SignProof(r) ==
  /\ caller[r] = "signing"
  /\ caller' = [caller EXCEPT ![r] = "spending"]
  /\ tally' = [tally EXCEPT ![r] = spent[Payer[r]]]
  /\ UNCHANGED <<registryVars, toGate, spent, shared, proofs, pending, expired, serving,
                 served, mishaps, restarts>>

PayAndRetry(r) ==
  /\ caller[r] = "spending"
  /\ spent' = [spent EXCEPT ![Payer[r]] = tally[r] + Price[r]]
  /\ tally' = [tally EXCEPT ![r] = 0]
  /\ proofs' = proofs \cup {r}
  /\ toGate' = toGate \cup {Proof(r)}
  /\ caller' = [caller EXCEPT ![r] = "paid"]
  /\ UNCHANGED <<registryVars, shared, pending, expired, serving, served,
                 mishaps, restarts>>

RefundRefusal(r) ==
  /\ caller[r] = "owed"
  /\ ~Authorized(r)
  /\ caller' = [caller EXCEPT ![r] = "refused"]
  /\ spent' = [spent EXCEPT ![Payer[r]] = @ - Price[r]]
  /\ UNCHANGED <<registryVars, toGate, tally, shared, proofs, pending, expired,
                 serving, served, mishaps, restarts>>

PaymentRefused(r) ==
  /\ caller[r] = "owed"
  /\ ~Authorized(r)
  /\ caller' = [caller EXCEPT ![r] = "refused"]
  /\ UNCHANGED <<registryVars, toGate, walletVars, proofs, pending, expired, serving,
                 served, mishaps, restarts>>

(* The HTTP client gives up; what it sent may still be read.               *)
Timeout(r) ==
  /\ mishaps < MaxMishaps
  /\ caller[r] \in Waiting
  /\ mishaps' = mishaps + 1
  /\ caller' = [caller EXCEPT ![r] = "error"]
  /\ UNCHANGED <<registryVars, toGate, walletVars, proofs, pending, expired, serving,
                 served, restarts>>

(* The signed request is delivered once more: a transport that retries.    *)
Replay(r) ==
  /\ mishaps < MaxMishaps
  /\ r \in proofs /\ Proof(r) \notin toGate
  /\ mishaps' = mishaps + 1
  /\ toGate' = toGate \cup {Proof(r)}
  /\ UNCHANGED <<registryVars, caller, walletVars, proofs, pending, expired, serving,
                 served, restarts>>

Expire(r) ==
  /\ mishaps < MaxMishaps
  /\ r \in pending \ expired
  /\ expired' = expired \cup {r}
  /\ mishaps' = mishaps + 1
  /\ UNCHANGED <<registryVars, caller, toGate, walletVars, proofs, pending, serving,
                 served, restarts>>

(***************************************************************************)
(* The server                                                              *)
(***************************************************************************)
LoopFree == book.pc = "idle"

(* No proof: a challenge is issued and retained, and those expired for     *)
(* longer than PENDING_GRACE are forgotten.                                *)
PaymentRequired(r) ==
  /\ LoopFree
  /\ Ask(r) \in toGate
  /\ toGate' = toGate \ {Ask(r)}
  /\ \E gone \in SUBSET (pending \cap expired) :
       pending' = (pending \ gone) \cup {r}
  /\ Reply(r, "owed")
  /\ UNCHANGED <<registryVars, walletVars, proofs, expired, serving, served,
                 mishaps, restarts>>

(* The tests of admit before the ledger: the payer's key is known, the     *)
(* challenge is retained, and the proof is that of this payer and in time. *)
Admissible(r) == Payer[r] \in mem.keys /\ r \in pending /\ r \notin expired

RejectProof(r) ==
  /\ LoopFree
  /\ Proof(r) \in toGate
  /\ toGate' = toGate \ {Proof(r)}
  /\ ~Admissible(r)
  /\ Reply(r, "refused")
  /\ UNCHANGED <<registryVars, walletVars, proofs, pending, expired, serving, served,
                 mishaps, restarts>>

(* The ledger refuses the charge: the challenge is consumed all the same.  *)
RejectCharge(r) ==
  /\ LoopFree
  /\ Proof(r) \in toGate
  /\ toGate' = toGate \ {Proof(r)}
  /\ Admissible(r) /\ ~Chargeable(r)
  /\ pending' = pending \ {r}
  /\ Reply(r, "refused")
  /\ UNCHANGED <<registryVars, walletVars, proofs, expired, serving, served,
                 mishaps, restarts>>

Admit(r) ==
  /\ LoopFree /\ (Overlap \/ ~Locked)
  /\ Proof(r) \in toGate
  /\ toGate' = toGate \ {Proof(r)}
  /\ Admissible(r) /\ Chargeable(r)
  /\ BeginCharge(r)
  /\ UNCHANGED <<caller, walletVars, proofs, pending, expired, serving, served,
                 mishaps, restarts>>

Charging == /\ Debit \/ Credit \/ RecordCharge
            /\ UNCHANGED paidVars

AdmitUnsaved ==
  /\ NotSaved
  /\ pending' = pending \ {book.req}
  /\ serving' = serving \cup {book.req}
  /\ UNCHANGED <<caller, toGate, walletVars, proofs, expired, served,
                 mishaps, restarts>>

Settled ==
  /\ SaveCharge
  /\ pending' = pending \ {book.req}
  /\ serving' = serving \cup {book.req}
  /\ UNCHANGED <<caller, toGate, walletVars, proofs, expired, served,
                 mishaps, restarts>>

(* The save raises through charge and admit: the caller is told of an      *)
(* error, the charge stays in memory and the challenge in _pending.        *)
ChargeNotSaved ==
  /\ SaveChargeFails
  /\ Reply(book.req, "error")
  /\ UNCHANGED <<toGate, walletVars, proofs, pending, expired, serving, served,
                 mishaps, restarts>>

Endpoint(r) ==
  /\ r \in serving
  /\ serving' = serving \ {r}
  /\ \/ served' = served \cup {r} /\ Reply(r, "served")
     \/ served' = served /\ Reply(r, "error")
  /\ UNCHANGED <<registryVars, toGate, walletVars, proofs, pending, expired,
                 mishaps, restarts>>

(* The process of the server and of its registry dies and starts again:    *)
(* its connections are reset and its challenges forgotten.                 *)
Restart ==
  /\ restarts < MaxRestarts
  /\ restarts' = restarts + 1
  /\ Reload
  /\ caller' = [r \in Requests |->
                  IF caller[r] \in Waiting THEN "error" ELSE caller[r]]
  /\ toGate' = {} /\ serving' = {} /\ pending' = {}
  /\ UNCHANGED <<walletVars, proofs, expired, served, mishaps>>

Relay == /\ \/ \E a \in Accounts : BeginRegister(a) \/ BeginSettle(a)
            \/ RelayStep \/ ReplaceFails
         /\ UNCHANGED paidVars

Caller(r) == \/ Send(r) \/ PaymentRefused(r)
             \/ Authorize(r) \/ SignProof(r) \/ PayAndRetry(r)

Server == \/ \E r \in Requests : \/ PaymentRequired(r) \/ RejectProof(r)
                                 \/ RejectCharge(r) \/ Admit(r) \/ Endpoint(r)
          \/ Charging \/ Settled \/ ChargeNotSaved

Next == \/ \E r \in Requests : \/ Caller(r) \/ Timeout(r)
                               \/ Replay(r) \/ Expire(r)
        \/ Server \/ Relay \/ Restart

Spec == Init /\ [][Next]_vars

(* The event loop, the relay's threads and the callers' threads run.       *)
FairSpec ==
  /\ Spec
  /\ \A r \in Requests : /\ WF_vars(Authorize(r) \/ PaymentRefused(r))
                         /\ WF_vars(SignProof(r) \/ PayAndRetry(r))
                         /\ WF_vars(PaymentRequired(r))
                         /\ WF_vars(RejectProof(r) \/ RejectCharge(r) \/ Admit(r))
                         /\ WF_vars(Endpoint(r))
  /\ WF_vars(Charging \/ Settled \/ ChargeNotSaved)
  /\ WF_vars(RelayStep /\ UNCHANGED paidVars)

(***************************************************************************)
(* Properties                                                              *)
(***************************************************************************)
TypeOK ==
  /\ RegistryTypeOK
  /\ caller \in [Requests -> {"new", "owed"} \cup Authorizing \cup Waiting \cup Ended]
  /\ toGate \subseteq {Ask(r) : r \in Requests} \cup {Proof(r) : r \in Requests}
  /\ spent \in [Accounts -> Nat] /\ tally \in [Requests -> Nat]
  /\ shared \subseteq Accounts
  /\ {proofs, pending, expired, serving, served} \subseteq SUBSET Requests

(* A request that was served is on file, so that it is still charged after *)
(* any restart: "une requete payee disparaissait au redemarrage"           *)
(* (ledger.py:97) cannot happen again, whatever fails and whoever saves.   *)
ServedIsOnFile == served \subseteq file.charges

(* One proof is charged once and its endpoint runs once, although the same *)
(* header may arrive again before, during or after the failure of a save   *)
(* or a restart.                                                           *)
ProofHonouredOnce ==
  /\ \A r \in Requests : mem.journal[r] <= 1
  /\ serving \cap served = {}

(* The agent's session budget bounds what the registry will ever bill it   *)
(* for the session, although the wallet never learns what became of the    *)
(* proofs it signed.  authorize tests the budget, signs and counts without *)
(* a lock (client/wallet.py:92-98), so an agent with two threads in it at  *)
(* once is left out: both may pass the test, and one count may be lost.    *)
BilledWithinBudget ==
  \A a \in Accounts \ shared :
    /\ PriceOf({r \in mem.charges \cup file.charges : Payer[r] = a}) <= spent[a]
    /\ spent[a] <= Budget[a]

(* The registry's file is an atomic, durable account book, whose balances  *)
(* of the accounts both threads used at once are given up.                 *)
Book == INSTANCE AccountBook WITH balance <- file.balance,
                                  charged <- file.charges,
                                  disputed <- raced
ImplementsAccountBook == Book!Spec

(* Every call ends: with the endpoint's answer, a refusal or an error.     *)
EveryCallEnds == \A r \in Requests : (caller[r] = "asked") ~> (caller[r] \in Ended)
=============================================================================
