--------------------------- MODULE PaymentsProofs ---------------------------
(***************************************************************************)
(* Theorems about paid requests, for any accounts, requests, prices,       *)
(* credits, budgets and faults, and whether or not the threads of the      *)
(* relay and of the server overlap.                                        *)
(***************************************************************************)
EXTENDS Payments, Sums, TLAPS

(***************************************************************************)
(* Types                                                                   *)
(***************************************************************************)
(* The local variables of the relay's thread and of the thread in charge.  *)
OpStates ==
  {OpIdle}
    \cup [pc : {"open"}, acct : Accounts]
    \cup [pc : {"settle"}, acct : Accounts, read : Int]
    \cup [pc : {"export"}, saves : {1, 2}]
    \cup [pc : {"replace"}, saves : {1, 2}, opened : SUBSET Accounts,
          balance : [Accounts -> Int]]

BookStates ==
  {BookIdle} \cup [pc : {"debit", "credit", "record", "save"}, req : Requests,
                   payer : Int, payee : Int]

RegistryInv ==
  /\ mem \in States /\ file \in States
  /\ op \in OpStates /\ book \in BookStates /\ raced \subseteq Accounts
  /\ settlements \in Nat /\ diskFaults \in Nat

Phases == {"new", "owed"} \cup Authorizing \cup Waiting \cup Ended

Messages == {Ask(r) : r \in Requests} \cup {Proof(r) : r \in Requests}

PaidInv ==
  /\ caller \in [Requests -> Phases]
  /\ toGate \subseteq Messages
  /\ spent \in [Accounts -> Nat] /\ tally \in [Requests -> Nat]
  /\ shared \subseteq Accounts
  /\ proofs \subseteq Requests /\ pending \subseteq Requests
  /\ expired \subseteq Requests /\ serving \subseteq Requests
  /\ served \subseteq Requests

TypeInv == RegistryInv /\ PaidInv

LEMMA TypeInvImplies == TypeInv => TypeOK
BY DEF TypeInv, TypeOK, RegistryInv, PaidInv, RegistryTypeOK, OpStates, BookStates,
       OpIdle, BookIdle, Messages, Phases

LEMMA BlankType == Blank \in States
BY DEF Blank, States

LEMMA TypeInit == Init => TypeInv
BY BlankType DEF Init, RegistryInit, TypeInv, RegistryInv, PaidInv, OpStates,
                 BookStates, Phases

LEMMA InChargeType ==
  ASSUME RegistryInv
  PROVE  InCharge \subseteq Accounts
BY RegistryAssumption DEF InCharge, RegistryInv, BookStates, BookIdle

(* The steps of the relay's threads. *)
LEMMA RelayType ==
  ASSUME RegistryInv,
         \/ \E a \in Accounts : BeginRegister(a) \/ BeginSettle(a)
         \/ RelayStep \/ ReplaceFails
  PROVE  RegistryInv'
<1>1. ASSUME NEW a \in Accounts, BeginRegister(a)
      PROVE  RegistryInv'
  <2>1. mem' \in States BY <1>1 DEF BeginRegister, RegistryInv, States
  <2>2. op' \in OpStates BY <1>1 DEF BeginRegister, OpStates
  <2> QED BY <1>1, <2>1, <2>2 DEF BeginRegister, RegistryInv
<1>2. ASSUME NEW a \in Accounts, BeginSettle(a)
      PROVE  RegistryInv'
  <2>1. op' \in OpStates
    BY <1>2 DEF BeginSettle, OpStates, RegistryInv, States
  <2>2. raced' \subseteq Accounts BY <1>2 DEF BeginSettle, RegistryInv
  <2> QED BY <1>2, <2>1, <2>2 DEF BeginSettle, RegistryInv
<1>3. CASE OpenAccount
  <2>1. op.acct \in Accounts BY <1>3 DEF OpenAccount, RegistryInv, OpStates, OpIdle
  <2>2. mem' \in States BY <1>3, <2>1 DEF OpenAccount, RegistryInv, States
  <2>3. op' \in OpStates BY <1>3 DEF OpenAccount, OpStates
  <2> QED BY <1>3, <2>2, <2>3 DEF OpenAccount, RegistryInv
<1>4. CASE WriteSettlement
  <2>1. op.acct \in Accounts /\ op.read \in Int
    BY <1>4 DEF WriteSettlement, RegistryInv, OpStates, OpIdle
  <2> DEFINE B == [mem.balance EXCEPT ![op.acct] = op.read + 1]
             J == [mem.journal EXCEPT ![op.acct] = @ + 1]
  <2>a. mem \in States BY DEF RegistryInv
  <2>b. B \in [Accounts -> Int] BY <2>1, <2>a DEF States
  <2>c. J \in [Requests \cup Accounts -> Nat] BY <2>1, <2>a DEF States
  <2>d. mem' = [mem EXCEPT !.balance = B, !.journal = J]
    BY <1>4, <2>a DEF WriteSettlement, States
  <2>2. mem' \in States
    <3> HIDE DEF B, J
    <3> QED BY <2>a, <2>b, <2>c, <2>d DEF States
  <2>3. op' \in OpStates BY <1>4 DEF WriteSettlement, OpStates
  <2> QED BY <1>4, <2>2, <2>3 DEF WriteSettlement, RegistryInv
<1>5. CASE ExportAccounts
  <2>1. op.saves \in {1, 2} BY <1>5 DEF ExportAccounts, RegistryInv, OpStates, OpIdle
  <2>2. op' \in OpStates
    BY <1>5, <2>1 DEF ExportAccounts, OpStates, RegistryInv, States
  <2>3. InCharge \subseteq Accounts BY InChargeType
  <2> QED BY <1>5, <2>2, <2>3 DEF ExportAccounts, RegistryInv
<1>6. CASE ReplaceFile
  <2>1. op \in [pc : {"replace"}, saves : {1, 2}, opened : SUBSET Accounts,
                balance : [Accounts -> Int]]
    BY <1>6 DEF ReplaceFile, RegistryInv, OpStates, OpIdle
  <2>2. file' \in States BY <1>6, <2>1 DEF ReplaceFile, RegistryInv, States
  <2>3. op' \in OpStates BY <1>6, <2>1 DEF ReplaceFile, OpStates
  <2> QED BY <1>6, <2>2, <2>3 DEF ReplaceFile, RegistryInv
<1>7. CASE ReplaceFails
  BY <1>7 DEF ReplaceFails, RegistryInv, OpStates
<1> QED BY <1>1, <1>2, <1>3, <1>4, <1>5, <1>6, <1>7 DEF RelayStep

(* The steps of a charge, and the reload. *)
LEMMA ChargeType ==
  ASSUME RegistryInv,
         \/ \E r \in Requests : BeginCharge(r)
         \/ Debit \/ Credit \/ RecordCharge \/ SaveCharge \/ SaveChargeFails \/ Reload
  PROVE  RegistryInv'
<1> DEFINE Charge == [pc : {"debit", "credit", "record", "save"}, req : Requests,
                      payer : Int, payee : Int]
<1>a. book.pc # "idle" => book \in Charge
  BY DEF RegistryInv, BookStates, BookIdle
<1>b. \A b \in Charge : b \in BookStates
  BY DEF BookStates
<1>1. ASSUME NEW r \in Requests, BeginCharge(r)
      PROVE  RegistryInv'
  <2>1. /\ Payer[r] \in Accounts /\ Vendor \in Accounts
        /\ mem.balance \in [Accounts -> Int]
    BY RegistryAssumption DEF RegistryInv, States
  <2>2. book' \in Charge BY <1>1, <2>1 DEF BeginCharge
  <2>3. raced' \subseteq Accounts BY <1>1, <2>1 DEF BeginCharge, RegistryInv
  <2>4. book' \in BookStates BY <1>b, <2>2
  <2> QED BY <1>1, <2>3, <2>4 DEF BeginCharge, RegistryInv
<1>2. CASE Debit
  <2>1. book \in Charge BY <1>2, <1>a DEF Debit
  <2>2. /\ Payer[book.req] \in Accounts
        /\ book.payer - Price[book.req] \in Int
    BY <2>1, RegistryAssumption
  <2>3. mem' \in States BY <1>2, <2>2 DEF Debit, RegistryInv, States
  <2>4. book' \in Charge BY <1>2, <2>1 DEF Debit
  <2> QED BY <1>2, <1>b, <2>3, <2>4 DEF Debit, RegistryInv
<1>3. CASE Credit
  <2>1. book \in Charge BY <1>3, <1>a DEF Credit
  <2>2. Vendor \in Accounts /\ book.payee + Price[book.req] \in Int
    BY <2>1, RegistryAssumption
  <2>3. mem' \in States BY <1>3, <2>2 DEF Credit, RegistryInv, States
  <2>4. book' \in Charge BY <1>3, <2>1 DEF Credit
  <2> QED BY <1>3, <1>b, <2>3, <2>4 DEF Credit, RegistryInv
<1>4. CASE RecordCharge
  <2>1. book \in Charge BY <1>4, <1>a DEF RecordCharge
  <2> DEFINE J == [mem.journal EXCEPT ![book.req] = @ + 1]
  <2>a. mem \in States BY DEF RegistryInv
  <2>b. J \in [Requests \cup Accounts -> Nat] BY <2>1, <2>a DEF States
  <2>c. mem' = [mem EXCEPT !.charges = @ \cup {book.req}, !.journal = J]
    BY <1>4, <2>a DEF RecordCharge, States
  <2>2. mem' \in States
    <3> HIDE DEF J
    <3> QED BY <2>1, <2>a, <2>b, <2>c DEF States
  <2>3. book' \in Charge BY <1>4, <2>1 DEF RecordCharge
  <2> QED BY <1>4, <1>b, <2>2, <2>3 DEF RecordCharge, RegistryInv
<1>5. CASE SaveCharge
  BY <1>5 DEF SaveCharge, RegistryInv, BookStates
<1>6. CASE SaveChargeFails
  BY <1>6 DEF SaveChargeFails, RegistryInv, BookStates
<1>7. CASE Reload
  BY <1>7 DEF Reload, RegistryInv, BookStates, OpStates
<1> QED BY <1>1, <1>2, <1>3, <1>4, <1>5, <1>6, <1>7

(* The server and the callers: each action keeps the registry, or is one   *)
(* of the steps above, and writes what it may in its own variables.        *)
LEMMA TypeNext == TypeInv /\ [Next]_vars => TypeInv'
<1> SUFFICES ASSUME TypeInv, [Next]_vars
             PROVE  TypeInv'
  OBVIOUS
<1> USE DEF TypeInv
<1>a. ASSUME UNCHANGED registryVars
      PROVE  RegistryInv'
  BY <1>a DEF registryVars, RegistryInv
<1>b. ASSUME UNCHANGED paidVars
      PROVE  PaidInv'
  BY <1>b DEF paidVars, walletVars, PaidInv
<1>c. ASSUME NEW r \in Requests, NEW phase \in {"owed"} \cup Ended, Reply(r, phase)
      PROVE  caller' \in [Requests -> Phases]
  BY <1>c DEF Reply, PaidInv, Phases
<1>1. ASSUME NEW r \in Requests, Send(r)
      PROVE  TypeInv'
  <2>1. PaidInv' BY <1>1 DEF Send, walletVars, PaidInv, Messages, Phases, Waiting
  <2> QED BY <1>1, <1>a, <2>1 DEF Send
<1>2. ASSUME NEW r \in Requests, Authorize(r) \/ SignProof(r) \/ PayAndRetry(r)
      PROVE  TypeInv'
  <2>1. Payer[r] \in Accounts /\ Price[r] \in Nat BY RegistryAssumption
  <2>2. CASE Authorize(r)
    BY <1>a, <2>1, <2>2 DEF Authorize, PaidInv, Phases, Authorizing
  <2>3. CASE SignProof(r)
    BY <1>a, <2>1, <2>3 DEF SignProof, PaidInv, Phases, Authorizing
  <2>4. CASE PayAndRetry(r)
    <3>1. PaidInv' BY <2>1, <2>4 DEF PayAndRetry, PaidInv, Messages, Phases, Waiting
    <3> QED BY <1>a, <2>4, <3>1 DEF PayAndRetry
  <2> QED BY <1>2, <2>2, <2>3, <2>4
<1>3. ASSUME NEW r \in Requests, PaymentRefused(r)
      PROVE  TypeInv'
  <2>1. PaidInv' BY <1>3 DEF PaymentRefused, walletVars, PaidInv, Phases, Ended
  <2> QED BY <1>3, <1>a, <2>1 DEF PaymentRefused
<1>4. ASSUME NEW r \in Requests, Timeout(r)
      PROVE  TypeInv'
  <2>1. PaidInv' BY <1>4 DEF Timeout, walletVars, PaidInv, Phases, Ended
  <2> QED BY <1>4, <1>a, <2>1 DEF Timeout
<1>5. ASSUME NEW r \in Requests, Replay(r)
      PROVE  TypeInv'
  <2>1. PaidInv' BY <1>5 DEF Replay, walletVars, PaidInv, Messages
  <2> QED BY <1>5, <1>a, <2>1 DEF Replay
<1>6. ASSUME NEW r \in Requests, Expire(r)
      PROVE  TypeInv'
  <2>1. PaidInv' BY <1>6 DEF Expire, walletVars, PaidInv
  <2> QED BY <1>6, <1>a, <2>1 DEF Expire
<1>7. ASSUME NEW r \in Requests, PaymentRequired(r)
      PROVE  TypeInv'
  <2>1. caller' \in [Requests -> Phases]
    BY <1>7, <1>c DEF PaymentRequired
  <2>2. PaidInv' BY <1>7, <2>1 DEF PaymentRequired, walletVars, PaidInv
  <2> QED BY <1>7, <1>a, <2>2 DEF PaymentRequired
<1>8. ASSUME NEW r \in Requests, RejectProof(r)
      PROVE  TypeInv'
  <2>1. caller' \in [Requests -> Phases]
    BY <1>8, <1>c DEF RejectProof, Ended
  <2>2. PaidInv' BY <1>8, <2>1 DEF RejectProof, walletVars, PaidInv
  <2> QED BY <1>8, <1>a, <2>2 DEF RejectProof
<1>9. ASSUME NEW r \in Requests, RejectCharge(r)
      PROVE  TypeInv'
  <2>1. caller' \in [Requests -> Phases]
    BY <1>9, <1>c DEF RejectCharge, Ended
  <2>2. PaidInv' BY <1>9, <2>1 DEF RejectCharge, walletVars, PaidInv
  <2> QED BY <1>9, <1>a, <2>2 DEF RejectCharge
<1>10. ASSUME NEW r \in Requests, Admit(r)
       PROVE  TypeInv'
  <2>1. RegistryInv' BY <1>10, ChargeType DEF Admit
  <2>2. PaidInv' BY <1>10 DEF Admit, walletVars, PaidInv
  <2> QED BY <2>1, <2>2
<1>11. CASE Charging
  BY <1>11, <1>b, ChargeType DEF Charging
<1>12. CASE Settled
  <2>1. book.req \in Requests
    BY <1>12 DEF Settled, SaveCharge, RegistryInv, BookStates, BookIdle
  <2>2. RegistryInv' BY <1>12, ChargeType DEF Settled
  <2>3. PaidInv' BY <1>12, <2>1 DEF Settled, walletVars, PaidInv
  <2> QED BY <2>2, <2>3
<1>13. CASE ChargeNotSaved
  <2>1. book.req \in Requests
    BY <1>13 DEF ChargeNotSaved, SaveChargeFails, RegistryInv, BookStates, BookIdle
  <2>2. caller' \in [Requests -> Phases]
    BY <1>13, <2>1, <1>c DEF ChargeNotSaved, Ended
  <2>3. RegistryInv' BY <1>13, ChargeType DEF ChargeNotSaved
  <2>4. PaidInv' BY <1>13, <2>2 DEF ChargeNotSaved, walletVars, PaidInv
  <2> QED BY <2>3, <2>4
<1>14. ASSUME NEW r \in Requests, Endpoint(r)
       PROVE  TypeInv'
  <2>1. caller' \in [Requests -> Phases]
    BY <1>14, <1>c DEF Endpoint, Ended
  <2>2. PaidInv' BY <1>14, <2>1 DEF Endpoint, walletVars, PaidInv
  <2> QED BY <1>14, <1>a, <2>2 DEF Endpoint
<1>15. CASE Relay
  BY <1>15, <1>b, RelayType DEF Relay
<1>16. CASE Restart
  <2>1. RegistryInv' BY <1>16, ChargeType DEF Restart
  <2>2. PaidInv' BY <1>16 DEF Restart, walletVars, PaidInv, Phases, Ended
  <2> QED BY <2>1, <2>2
<1>17. CASE UNCHANGED vars
  BY <1>17, <1>a, <1>b DEF vars
<1> QED
  BY <1>1, <1>2, <1>3, <1>4, <1>5, <1>6, <1>7, <1>8, <1>9, <1>10, <1>11, <1>12,
     <1>13, <1>14, <1>15, <1>16, <1>17 DEF Next, Caller, Server

LEMMA AlwaysTyped == Spec => []TypeInv
BY TypeInit, TypeNext, PTL DEF Spec

(* The variables of the registry, of the gate, of the wallets and of the   *)
(* callers keep their types, whatever fails (ledger.py, relay.py, gate.py, *)
(* wallet.py).                                                             *)
THEOREM TypeCorrect == Spec => []TypeOK
BY AlwaysTyped, TypeInvImplies, PTL

(***************************************************************************)
(* What is served is on file, and one proof is honoured once               *)
(***************************************************************************)
Admitted == serving \cup served

(* A request is charged in memory before it is charged on file, and on     *)
(* file before its endpoint runs; a charge under way is of a request that  *)
(* has not got further.                                                    *)
OrderInv ==
  /\ Admitted \subseteq file.charges
  /\ file.charges \subseteq mem.charges
  /\ book.pc = "save" => book.req \in mem.charges
  /\ book.pc \in {"debit", "credit", "record"} => book.req \notin mem.charges
  /\ book.pc # "idle" => book.req \notin Admitted
  /\ serving \cap served = {}

(* The journal holds one entry of each charge. *)
Journalled(s) ==
  \A r \in Requests : /\ s.journal[r] <= 1
                      /\ r \notin s.charges => s.journal[r] = 0

HonourInv == OrderInv /\ Journalled(mem) /\ Journalled(file)

LEMMA HonourInit == Init => HonourInv
BY DEF Init, RegistryInit, HonourInv, OrderInv, Journalled, Admitted, Blank, BookIdle

(* The steps of the relay write accounts only: neither charges nor entries *)
(* of charges, and the file gets the charges of the memory.                *)
LEMMA RelayKeepsCharges ==
  ASSUME RegistryInv,
         \/ \E a \in Accounts : BeginRegister(a) \/ BeginSettle(a)
         \/ RelayStep \/ ReplaceFails
  PROVE  /\ book' = book
         /\ mem'.charges = mem.charges
         /\ \A r \in Requests : mem'.journal[r] = mem.journal[r]
         /\ \/ file' = file
            \/ file'.charges = mem.charges /\ file'.journal = mem.journal
<1> USE DEF RegistryInv, States
<1>1. ASSUME NEW a \in Accounts, BeginRegister(a) \/ BeginSettle(a)
      PROVE  /\ book' = book /\ file' = file
             /\ mem'.charges = mem.charges /\ mem'.journal = mem.journal
  BY <1>1 DEF BeginRegister, BeginSettle
<1>2. CASE OpenAccount \/ ExportAccounts \/ ReplaceFails
  BY <1>2 DEF OpenAccount, ExportAccounts, ReplaceFails
<1>3. CASE WriteSettlement
  <2>1. op.acct \in Accounts BY <1>3 DEF WriteSettlement, OpStates, OpIdle
  <2>2. op.acct \notin Requests BY <2>1, RegistryAssumption
  <2>3. \A r \in Requests : mem'.journal[r] = mem.journal[r]
    BY <1>3, <2>2 DEF WriteSettlement
  <2> QED BY <1>3, <2>3 DEF WriteSettlement
<1>4. CASE ReplaceFile
  BY <1>4 DEF ReplaceFile
<1> QED BY <1>1, <1>2, <1>3, <1>4 DEF RelayStep

LEMMA RelayHonours ==
  ASSUME TypeInv, HonourInv, Relay
  PROVE  HonourInv'
<1>1. RegistryInv /\ UNCHANGED paidVars BY DEF Relay, TypeInv
<1>2. /\ book' = book
      /\ mem'.charges = mem.charges
      /\ \A r \in Requests : mem'.journal[r] = mem.journal[r]
      /\ \/ file' = file
         \/ file'.charges = mem.charges /\ file'.journal = mem.journal
  BY <1>1, RelayKeepsCharges DEF Relay
<1>3. serving' = serving /\ served' = served BY <1>1 DEF paidVars
<1>4. OrderInv' BY <1>2, <1>3 DEF HonourInv, OrderInv, Admitted
<1>5. Journalled(mem)' BY <1>2 DEF HonourInv, Journalled
<1>6. Journalled(file)' BY <1>2 DEF HonourInv, Journalled
<1> QED BY <1>4, <1>5, <1>6 DEF HonourInv

(* A charge that goes on: the two accounts, then the entry.                *)
LEMMA ChargingHonours ==
  ASSUME TypeInv, HonourInv, Charging
  PROVE  HonourInv'
<1> USE DEF TypeInv, RegistryInv
<1>1. serving' = serving /\ served' = served BY DEF Charging, paidVars
<1>2. CASE Debit \/ Credit
  <2>1. /\ mem'.charges = mem.charges /\ mem'.journal = mem.journal
        /\ file' = file /\ book'.req = book.req
        /\ book.pc \in {"debit", "credit"} /\ book'.pc \in {"credit", "record"}
    BY <1>2 DEF Debit, Credit, States, BookStates, BookIdle
  <2> QED BY <1>1, <2>1 DEF HonourInv, OrderInv, Journalled, Admitted
<1>3. CASE RecordCharge
  <2>1. book.req \in Requests /\ book.pc = "record"
    BY <1>3 DEF RecordCharge, BookStates, BookIdle
  <2>2. /\ mem'.charges = mem.charges \cup {book.req}
        /\ mem'.journal = [mem.journal EXCEPT ![book.req] = @ + 1]
        /\ file' = file /\ book'.req = book.req /\ book'.pc = "save"
    BY <1>3 DEF RecordCharge, States, BookStates, BookIdle
  <2>3. mem.journal[book.req] = 0
    BY <2>1 DEF HonourInv, OrderInv, Journalled
  <2>4. OrderInv' BY <1>1, <2>1, <2>2 DEF HonourInv, OrderInv, Admitted
  <2>5. Journalled(mem)'
    BY <2>1, <2>2, <2>3 DEF HonourInv, Journalled, States
  <2>6. Journalled(file)' BY <2>2 DEF HonourInv, Journalled
  <2> QED BY <2>4, <2>5, <2>6 DEF HonourInv
<1> QED BY <1>2, <1>3 DEF Charging

LEMMA HonourNext == TypeInv /\ HonourInv /\ [Next]_vars => HonourInv'
<1> SUFFICES ASSUME TypeInv, HonourInv, [Next]_vars
             PROVE  HonourInv'
  OBVIOUS
<1>a. ASSUME UNCHANGED <<mem, file, book, serving, served>>
      PROVE  HonourInv'
  BY <1>a DEF HonourInv, OrderInv, Journalled, Admitted
<1>1. ASSUME NEW r \in Requests, Caller(r)
      PROVE  HonourInv'
  BY <1>1, <1>a DEF Caller, Send, Authorize, SignProof, PayAndRetry, PaymentRefused,
                    registryVars
<1>2. ASSUME NEW r \in Requests, Timeout(r) \/ Replay(r) \/ Expire(r)
      PROVE  HonourInv'
  BY <1>2, <1>a DEF Timeout, Replay, Expire, registryVars
<1>3. ASSUME NEW r \in Requests, PaymentRequired(r) \/ RejectProof(r) \/ RejectCharge(r)
      PROVE  HonourInv'
  BY <1>3, <1>a DEF PaymentRequired, RejectProof, RejectCharge, registryVars
<1>4. ASSUME NEW r \in Requests, Admit(r)
      PROVE  HonourInv'
  <2>1. /\ r \notin mem.charges
        /\ book'.pc = "debit" /\ book'.req = r
        /\ UNCHANGED <<mem, file, serving, served>>
    BY <1>4 DEF Admit, Chargeable, BeginCharge
  <2>2. r \notin Admitted BY <2>1 DEF HonourInv, OrderInv
  <2> QED BY <2>1, <2>2 DEF HonourInv, OrderInv, Journalled, Admitted
<1>5. CASE Charging
  BY <1>5, ChargingHonours
<1>6. CASE Settled
  <2>1. /\ book.pc = "save" /\ book'.pc = "idle"
        /\ file' = mem /\ mem' = mem
        /\ serving' = serving \cup {book.req} /\ served' = served
    BY <1>6 DEF Settled, SaveCharge, BookIdle
  <2> QED BY <2>1 DEF HonourInv, OrderInv, Journalled, Admitted
<1>7. CASE ChargeNotSaved
  <2>1. book'.pc = "idle" /\ UNCHANGED <<mem, file, serving, served>>
    BY <1>7 DEF ChargeNotSaved, SaveChargeFails, BookIdle
  <2> QED BY <2>1 DEF HonourInv, OrderInv, Journalled, Admitted
<1>8. ASSUME NEW r \in Requests, Endpoint(r)
      PROVE  HonourInv'
  <2>1. /\ r \in serving /\ serving' = serving \ {r}
        /\ served' \in {served, served \cup {r}}
        /\ UNCHANGED <<mem, file, book>>
    BY <1>8 DEF Endpoint, registryVars
  <2> QED BY <2>1 DEF HonourInv, OrderInv, Journalled, Admitted
<1>9. CASE Relay
  BY <1>9, RelayHonours
<1>10. CASE Restart
  <2>1. /\ mem' = file /\ file' = file /\ book'.pc = "idle"
        /\ serving' = {} /\ served' = served
    BY <1>10 DEF Restart, Reload, BookIdle
  <2> QED BY <2>1 DEF HonourInv, OrderInv, Journalled, Admitted
<1>11. CASE UNCHANGED vars
  BY <1>11, <1>a DEF vars, registryVars, paidVars
<1> QED
  BY <1>1, <1>2, <1>3, <1>4, <1>5, <1>6, <1>7, <1>8, <1>9, <1>10, <1>11
  DEF Next, Server

LEMMA AlwaysHonoured == Spec => []HonourInv
BY AlwaysTyped, HonourInit, HonourNext, PTL DEF Spec

(* A request that was served is charged on file, whatever fails, whoever   *)
(* saves beside it and whenever the process restarts: the save of          *)
(* Ledger.charge comes before admit returns (ledger.py:184, gate.py:131).  *)
THEOREM ServedStaysOnFile == Spec => []ServedIsOnFile
<1>1. HonourInv => ServedIsOnFile
  BY DEF HonourInv, OrderInv, Admitted, ServedIsOnFile
<1> QED BY <1>1, AlwaysHonoured, PTL

(* A proof is charged once and served once, however often it is delivered  *)
(* and whatever became of the first delivery: its nonce is tested and      *)
(* recorded under one charge (ledger.py:153, 184).                         *)
THEOREM NoProofHonouredTwice == Spec => []ProofHonouredOnce
<1>1. HonourInv => ProofHonouredOnce
  BY DEF HonourInv, OrderInv, Journalled, ProofHonouredOnce
<1> QED BY <1>1, AlwaysHonoured, PTL

(***************************************************************************)
(* Prices added up                                                         *)
(***************************************************************************)
LEMMA PriceIsSum == ASSUME NEW R PROVE PriceOf(R) = SumOf(Price, R)
BY DEF PriceOf, SumOf

LEMMA Prices ==
  ASSUME NEW R \in SUBSET Requests
  PROVE  Whole(Price, R) /\ Natural(Price, R)
<1>1. \A r \in Requests : Price[r] \in Nat BY RegistryAssumption
<1> QED BY <1>1 DEF Whole, Natural

LEMMA PriceType ==
  ASSUME NEW R \in SUBSET Requests, IsFiniteSet(R)
  PROVE  PriceOf(R) \in Nat
BY Prices, PriceIsSum, SumNat

LEMMA PriceNone == PriceOf({}) = 0
BY PriceIsSum, SumEmpty

LEMMA PriceAdd ==
  ASSUME NEW R \in SUBSET Requests, IsFiniteSet(R), NEW r \in Requests, r \notin R
  PROVE  PriceOf(R \cup {r}) = Price[r] + PriceOf(R)
<1>1. Whole(Price, R \cup {r}) BY Prices
<1>2. SumOf(Price, R \cup {r}) = Price[r] + SumOf(Price, R) BY <1>1, SumAdd
<1> QED BY <1>2, PriceIsSum

LEMMA PriceUnion ==
  ASSUME NEW R \in SUBSET Requests, IsFiniteSet(R), NEW S \in SUBSET Requests, IsFiniteSet(S),
         R \cap S = {}
  PROVE  PriceOf(R \cup S) = PriceOf(R) + PriceOf(S)
<1>1. Whole(Price, R \cup S) BY Prices
<1>2. SumOf(Price, R \cup S) = SumOf(Price, R) + SumOf(Price, S) BY <1>1, SumUnion
<1> QED BY <1>2, PriceIsSum

LEMMA PriceMonotone ==
  ASSUME NEW S \in SUBSET Requests, IsFiniteSet(S), NEW R \in SUBSET S
  PROVE  PriceOf(R) <= PriceOf(S)
<1>1. SumOf(Price, R) <= SumOf(Price, S) BY Prices, SumMonotone
<1> QED BY <1>1, PriceIsSum

(* The requests of R that an account pays.                                 *)
Paying(R, a) == {r \in R : Payer[r] = a}

LEMMA PayingParts ==
  ASSUME NEW R \in SUBSET Requests, IsFiniteSet(R), NEW a
  PROVE  /\ Paying(R, a) \in SUBSET Requests /\ IsFiniteSet(Paying(R, a))
         /\ PriceOf(Paying(R, a)) \in Nat /\ PriceOf(R) \in Nat
<1>1. Paying(R, a) \subseteq R BY DEF Paying
<1>2. IsFiniteSet(Paying(R, a)) BY <1>1, FS_Subset
<1> QED BY <1>1, <1>2, PriceType

LEMMA PayingAdd ==
  ASSUME NEW R \in SUBSET Requests, IsFiniteSet(R), NEW r \in Requests, r \notin R, NEW a
  PROVE  PriceOf(Paying(R \cup {r}, a))
           = PriceOf(Paying(R, a)) + (IF Payer[r] = a THEN Price[r] ELSE 0)
<1>1. PriceOf(Paying(R, a)) \in Nat BY PayingParts
<1>2. CASE Payer[r] = a
  <2>1. Paying(R \cup {r}, a) = Paying(R, a) \cup {r} /\ r \notin Paying(R, a)
    BY <1>2 DEF Paying
  <2>2. PriceOf(Paying(R, a) \cup {r}) = Price[r] + PriceOf(Paying(R, a))
    BY <2>1, PayingParts, PriceAdd
  <2>3. Price[r] \in Nat BY RegistryAssumption
  <2>4. PriceOf(Paying(R \cup {r}, a)) = Price[r] + PriceOf(Paying(R, a)) BY <2>1, <2>2
  <2> QED BY <1>1, <1>2, <2>3, <2>4
<1>3. CASE Payer[r] # a
  <2>1. Paying(R \cup {r}, a) = Paying(R, a) BY <1>3 DEF Paying
  <2> QED BY <1>1, <1>3, <2>1
<1> QED BY <1>2, <1>3

(***************************************************************************)
(* What the entries of a state say of an account                           *)
(***************************************************************************)
Entries(s) == /\ s.charges \in SUBSET Requests /\ IsFiniteSet(s.charges)
              /\ \A a \in Accounts : s.journal[a] \in Nat

LEMMA WorthParts ==
  ASSUME NEW s, NEW a
  PROVE  Worth(s, a) = s.journal[a] + (IF a = Vendor THEN PriceOf(s.charges) ELSE 0)
                         - PriceOf(Paying(s.charges, a))
BY DEF Worth, EarnedBy, PaidBy, Paying

LEMMA WorthType ==
  ASSUME NEW s, Entries(s), NEW a \in Accounts
  PROVE  Worth(s, a) \in Int
<1>1. PriceOf(s.charges) \in Nat /\ PriceOf(Paying(s.charges, a)) \in Nat
  BY PayingParts DEF Entries
<1>2. s.journal[a] \in Nat BY DEF Entries
<1> QED BY <1>1, <1>2, WorthParts

LEMMA WorthSame ==
  ASSUME NEW s, NEW t, NEW a, t.charges = s.charges, t.journal[a] = s.journal[a]
  PROVE  Worth(t, a) = Worth(s, a)
BY WorthParts

(* A settlement sealed.                                                    *)
LEMMA WorthSettled ==
  ASSUME NEW s, Entries(s), NEW t, NEW a \in Accounts,
         t.charges = s.charges, t.journal[a] = s.journal[a] + 1
  PROVE  Worth(t, a) = Worth(s, a) + 1
<1>1. PriceOf(s.charges) \in Nat /\ PriceOf(Paying(s.charges, a)) \in Nat
  BY PayingParts DEF Entries
<1>2. s.journal[a] \in Nat BY DEF Entries
<1>3. Worth(s, a) = s.journal[a] + (IF a = Vendor THEN PriceOf(s.charges) ELSE 0)
                      - PriceOf(Paying(s.charges, a))
  BY WorthParts
<1>4. Worth(t, a) = t.journal[a] + (IF a = Vendor THEN PriceOf(t.charges) ELSE 0)
                      - PriceOf(Paying(t.charges, a))
  BY WorthParts
<1> QED BY <1>1, <1>2, <1>3, <1>4

(* A charge entered.                                                       *)
LEMMA WorthCharged ==
  ASSUME NEW s, Entries(s), NEW t, NEW a \in Accounts, NEW r \in Requests,
         r \notin s.charges, t.charges = s.charges \cup {r}, t.journal[a] = s.journal[a]
  PROVE  Worth(t, a) = Worth(s, a) + (IF a = Vendor THEN Price[r] ELSE 0)
                         - (IF Payer[r] = a THEN Price[r] ELSE 0)
<1>1. s.charges \in SUBSET Requests /\ IsFiniteSet(s.charges) BY DEF Entries
<1>2. PriceOf(s.charges) \in Nat /\ PriceOf(Paying(s.charges, a)) \in Nat
  BY <1>1, PayingParts
<1>3. s.journal[a] \in Nat BY DEF Entries
<1>4. Price[r] \in Nat BY RegistryAssumption
<1>5. PriceOf(t.charges) = Price[r] + PriceOf(s.charges) BY <1>1, PriceAdd
<1>6. PriceOf(Paying(t.charges, a))
        = PriceOf(Paying(s.charges, a)) + (IF Payer[r] = a THEN Price[r] ELSE 0)
  <2> DEFINE C == s.charges
  <2>1. C \in SUBSET Requests /\ IsFiniteSet(C) /\ r \notin C BY <1>1
  <2> HIDE DEF C
  <2>2. PriceOf(Paying(C \cup {r}, a))
          = PriceOf(Paying(C, a)) + (IF Payer[r] = a THEN Price[r] ELSE 0)
    BY <2>1, PayingAdd
  <2> QED BY <2>2 DEF C
<1>7. Worth(s, a) = s.journal[a] + (IF a = Vendor THEN PriceOf(s.charges) ELSE 0)
                      - PriceOf(Paying(s.charges, a))
  BY WorthParts
<1>8. Worth(t, a) = t.journal[a] + (IF a = Vendor THEN PriceOf(t.charges) ELSE 0)
                      - PriceOf(Paying(t.charges, a))
  BY WorthParts
<1> QED BY <1>2, <1>3, <1>4, <1>5, <1>6, <1>7, <1>8

(***************************************************************************)
(* The steps that write the registry                                       *)
(***************************************************************************)
LEMMA RegistrySteps ==
  ASSUME [Next]_vars
  PROVE  \/ UNCHANGED <<mem, file, op, book, raced>>
         \/ \E a \in Accounts : BeginRegister(a) \/ BeginSettle(a)
         \/ OpenAccount \/ WriteSettlement \/ ExportAccounts \/ ReplaceFile
         \/ ReplaceFails
         \/ \E r \in Requests : Admit(r)
         \/ Debit \/ Credit \/ RecordCharge
         \/ SaveCharge \/ SaveChargeFails \/ Reload
<1>1. CASE \E r \in Requests : Caller(r) \/ Timeout(r) \/ Replay(r) \/ Expire(r)
  BY <1>1 DEF Caller, Send, Authorize, SignProof, PayAndRetry, PaymentRefused,
              Timeout, Replay, Expire, registryVars
<1>2. CASE \E r \in Requests : PaymentRequired(r) \/ RejectProof(r) \/ RejectCharge(r)
                               \/ Endpoint(r)
  BY <1>2 DEF PaymentRequired, RejectProof, RejectCharge, Endpoint, registryVars
<1>3. CASE Charging \/ Settled \/ ChargeNotSaved
  BY <1>3 DEF Charging, Settled, ChargeNotSaved
<1>4. CASE Relay
  BY <1>4 DEF Relay, RelayStep
<1>5. CASE Restart
  BY <1>5 DEF Restart
<1>6. CASE UNCHANGED vars
  BY <1>6 DEF vars, registryVars
<1> QED BY <1>1, <1>2, <1>3, <1>4, <1>5, <1>6 DEF Next, Server

(* What those steps write of the charges.                                  *)
LEMMA ChargesGrow ==
  ASSUME RegistryInv, [Next]_vars
  PROVE  /\ \/ mem'.charges \in {mem.charges, file.charges}
            \/ book.pc = "record" /\ book.req \in Requests
               /\ mem'.charges = mem.charges \cup {book.req}
         /\ file'.charges \in {mem.charges, file.charges}
<1> USE DEF RegistryInv, States
<1>1. CASE UNCHANGED <<mem, file, op, book, raced>>
  BY <1>1
<1>2. CASE \/ \E a \in Accounts : BeginRegister(a) \/ BeginSettle(a)
           \/ OpenAccount \/ WriteSettlement \/ ExportAccounts \/ ReplaceFile
           \/ ReplaceFails
  BY <1>2, RelayKeepsCharges DEF RelayStep
<1>3. CASE \E r \in Requests : Admit(r)
  BY <1>3 DEF Admit, BeginCharge
<1>4. CASE Debit \/ Credit
  BY <1>4 DEF Debit, Credit
<1>5. CASE RecordCharge
  <2>1. book.req \in Requests BY <1>5 DEF RecordCharge, BookStates, BookIdle
  <2> QED BY <1>5, <2>1 DEF RecordCharge
<1>6. CASE SaveCharge \/ SaveChargeFails \/ Reload
  BY <1>6 DEF SaveCharge, SaveChargeFails, Reload
<1> QED BY <1>1, <1>2, <1>3, <1>4, <1>5, <1>6, RegistrySteps

(* The requests ever signed, and those charged, are finitely many.         *)
FiniteInv ==
  IsFiniteSet(mem.charges) /\ IsFiniteSet(file.charges) /\ IsFiniteSet(proofs)

LEMMA ProofsGrow ==
  ASSUME [Next]_vars
  PROVE  proofs' = proofs \/ \E r \in Requests : PayAndRetry(r)
<1>1. CASE \E r \in Requests : \/ Send(r) \/ PaymentRefused(r) \/ Authorize(r)
                               \/ SignProof(r) \/ Timeout(r) \/ Replay(r) \/ Expire(r)
  BY <1>1 DEF Send, PaymentRefused, Authorize, SignProof, Timeout, Replay, Expire
<1>2. CASE \E r \in Requests : PaymentRequired(r) \/ RejectProof(r) \/ RejectCharge(r)
                               \/ Endpoint(r) \/ Admit(r)
  BY <1>2 DEF PaymentRequired, RejectProof, RejectCharge, Endpoint, Admit
<1>3. CASE Charging \/ Settled \/ ChargeNotSaved \/ Relay \/ Restart
  BY <1>3 DEF Charging, Settled, ChargeNotSaved, Relay, Restart, paidVars
<1>4. CASE UNCHANGED vars
  BY <1>4 DEF vars, paidVars
<1> QED BY <1>1, <1>2, <1>3, <1>4 DEF Next, Server, Caller

LEMMA AlwaysFinite == Spec => []FiniteInv
<1>1. Init => FiniteInv
  BY FS_EmptySet DEF Init, RegistryInit, Blank, FiniteInv
<1>2. ASSUME TypeInv, FiniteInv, [Next]_vars
      PROVE  FiniteInv'
  <2>1. IsFiniteSet(mem'.charges)
    <3>1. IsFiniteSet(mem.charges \cup {book.req}) BY <1>2, FS_AddElement DEF FiniteInv
    <3> QED BY <1>2, <3>1, ChargesGrow DEF FiniteInv, TypeInv
  <2>2. IsFiniteSet(file'.charges) BY <1>2, ChargesGrow DEF FiniteInv, TypeInv
  <2>3. IsFiniteSet(proofs')
    <3>1. \A r \in Requests : IsFiniteSet(proofs \cup {r})
      BY <1>2, FS_AddElement DEF FiniteInv
    <3> QED BY <1>2, <3>1, ProofsGrow DEF FiniteInv, PayAndRetry
  <2> QED BY <2>1, <2>2, <2>3 DEF FiniteInv
<1> QED BY <1>1, <1>2, AlwaysTyped, PTL DEF Spec

LEMMA EntriesParts ==
  ASSUME TypeInv, FiniteInv
  PROVE  Entries(mem) /\ Entries(file)
BY DEF TypeInv, FiniteInv, RegistryInv, States, Entries

(***************************************************************************)
(* The books: an account that the threads of the relay and of the server   *)
(* have not used at the same time is what its entries add up to            *)
(***************************************************************************)
(* What the thread in charge has written of an account and not yet         *)
(* entered: the payer is debited first, then the vendor is credited.       *)
Underway(a) ==
  (IF book.pc = "record" /\ a = Vendor THEN Price[book.req] ELSE 0)
    - (IF book.pc \in {"credit", "record"} /\ a = Payer[book.req]
       THEN Price[book.req] ELSE 0)

MemBook(a)  == mem.balance[a] = Worth(mem, a) + Underway(a)
FileBook(a) == file.balance[a] = Worth(file, a)

(* The two threads do not use it at this moment.                           *)
Apart(a) == a \notin InCharge \/ a \notin InRelay

(* What a thread has read of it is what it will find when it writes.       *)
ReadsHold(a) ==
  /\ book.pc = "debit" /\ a = Payer[book.req] => book.payer = mem.balance[a]
  /\ book.pc \in {"debit", "credit"} /\ a = Vendor => book.payee = mem.balance[a]
  /\ op.pc = "settle" /\ op.acct = a => op.read = mem.balance[a]
  /\ op.pc = "replace" => op.balance[a] = mem.balance[a]

(* The charge of it that is under way passed the test of the limit.        *)
Affordable(a) ==
  book.pc \in {"debit", "credit", "record"} /\ a = Payer[book.req] =>
    Price[book.req] <= Worth(mem, a) + Limit[a]

WithinLimit(a) == Worth(mem, a) >= -Limit[a] /\ Worth(file, a) >= -Limit[a]

Booked(a) == /\ MemBook(a) /\ FileBook(a) /\ Apart(a) /\ ReadsHold(a)
             /\ Affordable(a) /\ WithinLimit(a)

BooksInv == \A a \in Accounts \ raced : Booked(a)

LEMMA WorthBlank == ASSUME NEW a \in Accounts PROVE Worth(Blank, a) = 0
<1>1. Blank.charges = {} /\ Blank.journal[a] = 0 BY DEF Blank
<1>2. Paying({}, a) = {} BY DEF Paying
<1> QED BY <1>1, <1>2, WorthParts, PriceNone

LEMMA WorthPrimed ==
  ASSUME NEW a
  PROVE  Worth(mem, a)' = Worth(mem', a) /\ Worth(file, a)' = Worth(file', a)
BY DEF Worth, EarnedBy, PaidBy, PriceOf, MapThenSumSet, MapThenFoldSet

LEMMA BooksInit == Init => BooksInv
<1> SUFFICES ASSUME Init, NEW a \in Accounts PROVE Booked(a)
  BY DEF BooksInv
<1>1. mem = Blank /\ file = Blank /\ op.pc = "idle" /\ book.pc = "idle"
  BY DEF Init, RegistryInit, OpIdle, BookIdle
<1>2. Worth(mem, a) = 0 /\ Worth(file, a) = 0
  BY <1>1, WorthBlank
<1>3. mem.balance[a] = 0 /\ file.balance[a] = 0
  BY <1>1 DEF Blank
<1>4. MemBook(a) BY <1>1, <1>2, <1>3 DEF MemBook, Underway
<1>5. FileBook(a) BY <1>2, <1>3 DEF FileBook
<1>6. WithinLimit(a) BY <1>2, RegistryAssumption DEF WithinLimit
<1> QED BY <1>1, <1>4, <1>5, <1>6 DEF Booked, Apart, InCharge, ReadsHold, Affordable

(* A state with the entries of another says the same of an account.        *)
LEMMA MemSays ==
  ASSUME NEW s, NEW a, mem'.charges = s.charges, mem'.journal[a] = s.journal[a]
  PROVE  Worth(mem, a)' = Worth(s, a)
BY WorthSame, WorthPrimed

LEMMA FileSays ==
  ASSUME NEW s, NEW a, file'.charges = s.charges, file'.journal[a] = s.journal[a]
  PROVE  Worth(file, a)' = Worth(s, a)
BY WorthSame, WorthPrimed

(* The relay's threads.  What they settle or save is not used by a charge, *)
(* or the account is given up.                                             *)
LEMMA BooksRelay ==
  ASSUME RegistryInv, Entries(mem), NEW a \in Accounts \ raced', Booked(a),
         \/ \E c \in Accounts : BeginRegister(c) \/ BeginSettle(c)
         \/ OpenAccount \/ WriteSettlement \/ ExportAccounts \/ ReplaceFile
         \/ ReplaceFails
  PROVE  Booked(a)'
<1> USE DEF RegistryInv, States
<1>a. /\ book' = book /\ Underway(a)' = Underway(a) /\ InCharge' = InCharge
      /\ a \in Accounts /\ Limit[a] \in Nat
  BY RegistryAssumption
     DEF BeginRegister, BeginSettle, OpenAccount, WriteSettlement, ExportAccounts,
         ReplaceFile, ReplaceFails, Underway, InCharge
<1>b. /\ mem.balance[a] = Worth(mem, a) + Underway(a) /\ Worth(mem, a) \in Int
      /\ Worth(mem, a) >= -Limit[a]
  BY <1>a, WorthType DEF Booked, MemBook, WithinLimit
<1>c. a \notin InCharge =>
        /\ Underway(a) = 0
        /\ Affordable(a)'
        /\ ~(book'.pc = "debit" /\ a = Payer[book'.req])
        /\ ~(book'.pc \in {"debit", "credit"} /\ a = Vendor)
  BY <1>a DEF InCharge, Underway, Affordable
<1>d. ASSUME mem'.charges = mem.charges, mem'.journal[a] = mem.journal[a],
             mem'.balance[a] = mem.balance[a]
      PROVE  MemBook(a)' /\ Affordable(a)' /\ Worth(mem, a)' = Worth(mem, a)
  <2>1. Worth(mem, a)' = Worth(mem, a) BY <1>d, MemSays
  <2> QED BY <1>a, <1>d, <2>1 DEF Booked, MemBook, Affordable
<1>e. ASSUME file' = file
      PROVE  FileBook(a)' /\ Worth(file, a)' = Worth(file, a)
  <2>1. Worth(file, a)' = Worth(file, a) BY <1>e, FileSays
  <2> QED BY <1>e, <2>1 DEF Booked, FileBook
<1>1. CASE \/ \E c \in Accounts : BeginRegister(c) \/ BeginSettle(c)
           \/ OpenAccount \/ ExportAccounts \/ ReplaceFails
  <2>1. /\ mem'.charges = mem.charges /\ mem'.journal = mem.journal
        /\ mem'.balance = mem.balance /\ file' = file
    BY <1>1 DEF BeginRegister, BeginSettle, OpenAccount, ExportAccounts, ReplaceFails
  <2>2. Apart(a)' /\ ReadsHold(a)'
    <3>1. CASE \/ \E c \in Accounts : BeginRegister(c)
               \/ OpenAccount \/ ReplaceFails
      BY <3>1, <1>a, <2>1 DEF BeginRegister, OpenAccount, ReplaceFails, Booked,
                              ReadsHold, Apart, InRelay, OpIdle
    <3>2. ASSUME NEW c \in Accounts, BeginSettle(c)
          PROVE  Apart(a)' /\ ReadsHold(a)'
      <4>1. a = c => a \notin InCharge BY <3>2 DEF BeginSettle
      <4> QED BY <3>2, <4>1, <1>a, <2>1 DEF BeginSettle, Booked, ReadsHold, Apart,
                                            InRelay
    <3>3. CASE ExportAccounts
      <4>1. a \notin InCharge BY <3>3 DEF ExportAccounts
      <4> QED BY <3>3, <4>1, <1>a, <2>1 DEF ExportAccounts, Booked, ReadsHold, Apart,
                                            InRelay
    <3> QED BY <1>1, <3>1, <3>2, <3>3
  <2>3. WithinLimit(a)' BY <1>d, <1>e, <2>1 DEF Booked, WithinLimit
  <2> QED BY <1>d, <1>e, <2>1, <2>2, <2>3 DEF Booked
<1>2. CASE WriteSettlement
  <2>1. PICK c \in Accounts : c = op.acct
    BY <1>2 DEF WriteSettlement, OpStates, OpIdle
  <2>2. /\ mem'.charges = mem.charges /\ file' = file
        /\ mem'.journal[c] = mem.journal[c] + 1
        /\ mem'.balance[c] = op.read + 1
        /\ a # c => /\ mem'.journal[a] = mem.journal[a]
                    /\ mem'.balance[a] = mem.balance[a]
        /\ op'.pc = "export"
    BY <1>2, <2>1, <1>a DEF WriteSettlement
  <2>3. Apart(a)' BY <2>2 DEF Apart, InRelay
  <2>4. CASE a # c
    <3>1. ReadsHold(a)' BY <1>a, <2>2, <2>4 DEF Booked, ReadsHold
    <3>2. WithinLimit(a)' BY <1>d, <1>e, <2>2, <2>4 DEF Booked, WithinLimit
    <3> QED BY <1>d, <1>e, <2>2, <2>3, <2>4, <3>1, <3>2 DEF Booked
  <2>5. CASE a = c
    <3>1. a \notin InCharge /\ op.read = mem.balance[a]
      BY <1>2, <2>1, <2>5 DEF WriteSettlement, Booked, Apart, InRelay, ReadsHold
    <3>2. Worth(mem, a)' = Worth(mem, a) + 1
      <4>1. Worth(mem', a) = Worth(mem, a) + 1 BY <1>a, <2>2, <2>5, WorthSettled
      <4> QED BY <4>1, WorthPrimed
    <3>3. MemBook(a)' BY <1>a, <1>b, <1>c, <2>2, <2>5, <3>1, <3>2 DEF MemBook
    <3>4. ReadsHold(a)' BY <1>c, <2>2, <3>1 DEF ReadsHold
    <3>5. WithinLimit(a)'
      <4>1. Worth(mem, a)' >= -Limit[a] BY <1>a, <1>b, <3>2
      <4> QED BY <4>1, <1>e, <2>2 DEF Booked, WithinLimit
    <3> QED BY <1>c, <1>e, <2>2, <2>3, <3>1, <3>3, <3>4, <3>5 DEF Booked
  <2> QED BY <2>4, <2>5
<1>3. CASE ReplaceFile
  <2>1. op \in [pc : {"replace"}, saves : {1, 2}, opened : SUBSET Accounts,
                balance : [Accounts -> Int]]
    BY <1>3 DEF ReplaceFile, OpStates, OpIdle
  <2>2. /\ mem' = mem /\ op'.pc \in {"export", "idle"}
        /\ file'.charges = mem.charges /\ file'.journal = mem.journal
        /\ file'.balance = op.balance
    BY <1>3, <2>1 DEF ReplaceFile, OpIdle
  <2>3. a \notin InCharge /\ op.balance[a] = mem.balance[a]
    BY <1>a, <2>1 DEF Booked, Apart, InRelay, ReadsHold
  <2>4. Worth(file, a)' = Worth(mem, a) BY <2>2, FileSays
  <2>5. FileBook(a)' BY <1>b, <1>c, <2>2, <2>3, <2>4 DEF FileBook
  <2>6. Apart(a)' /\ ReadsHold(a)' BY <1>c, <2>2, <2>3 DEF Apart, InRelay, ReadsHold
  <2>7. WithinLimit(a)' BY <1>b, <1>d, <2>2, <2>4 DEF WithinLimit
  <2> QED BY <1>d, <2>2, <2>5, <2>6, <2>7 DEF Booked
<1> QED BY <1>1, <1>2, <1>3

(* The server's thread takes the price from one account, gives it to the   *)
(* other, and enters the charge.                                           *)
LEMMA BooksCharge ==
  ASSUME RegistryInv, Entries(mem), HonourInv, NEW a \in Accounts \ raced', Booked(a),
         Debit \/ Credit \/ RecordCharge
  PROVE  Booked(a)'
<1> USE DEF RegistryInv, States
<1>1. PICK r \in Requests : r = book.req
  BY DEF Debit, Credit, RecordCharge, BookStates, BookIdle
<1> DEFINE p == Payer[r]
<1>2. /\ a \in Accounts /\ p \in Accounts /\ Vendor \in Accounts /\ p # Vendor
      /\ Price[r] \in Nat /\ Limit[a] \in Nat
  BY RegistryAssumption
<1>3. /\ op' = op /\ file' = file /\ InRelay' = InRelay
      /\ book' = [book EXCEPT !.pc = book'.pc] /\ book'.req = r
      /\ book'.payer = book.payer /\ book'.payee = book.payee
      /\ book.pc \in {"debit", "credit", "record"} /\ InCharge = {p, Vendor}
  <2>1. /\ op' = op /\ file' = file /\ book.pc \in {"debit", "credit", "record"}
        /\ \E pc \in {"credit", "record", "save"} : book' = [book EXCEPT !.pc = pc]
    BY DEF Debit, Credit, RecordCharge
  <2>2. InRelay' = InRelay BY <2>1 DEF InRelay
  <2>3. InCharge = {p, Vendor} BY <1>1, <2>1 DEF InCharge
  <2>4. /\ book' = [book EXCEPT !.pc = book'.pc] /\ book'.req = r
        /\ book'.payer = book.payer /\ book'.payee = book.payee
    BY <1>1, <2>1 DEF BookStates, BookIdle
  <2> QED BY <2>1, <2>2, <2>3, <2>4
<1> HIDE DEF p
<1>4. /\ mem.balance[a] \in Int /\ Worth(mem, a) \in Int
      /\ mem.balance[a] = Worth(mem, a) + Underway(a)
      /\ Worth(mem, a) >= -Limit[a]
  BY <1>2, WorthType DEF Booked, MemBook, WithinLimit
<1>5. FileBook(a)' /\ Worth(file, a)' = Worth(file, a)
  <2>1. Worth(file, a)' = Worth(file, a) BY <1>3, FileSays
  <2> QED BY <1>3, <2>1 DEF Booked, FileBook
<1>6. /\ a = p => Price[r] <= Worth(mem, a) + Limit[a]
      /\ a \in {p, Vendor} =>
           op.pc # "replace" /\ ~(op.pc = "settle" /\ op.acct = a)
  BY <1>1, <1>2, <1>3 DEF Booked, Affordable, Apart, InRelay, p
<1>7. ASSUME mem'.charges = mem.charges, mem'.journal = mem.journal,
             book'.pc \in {"credit", "record"}
      PROVE  /\ Worth(mem, a)' = Worth(mem, a)
             /\ Affordable(a)' /\ WithinLimit(a)' /\ Apart(a)'
  <2>1. Worth(mem, a)' = Worth(mem, a) BY <1>7, MemSays
  <2>2. InCharge' = InCharge BY <1>1, <1>3, <1>7 DEF InCharge, p
  <2> QED BY <1>1, <1>3, <1>5, <1>6, <2>1, <2>2
          DEF Booked, WithinLimit, Affordable, Apart, p
<1>8. CASE Debit
  <2>1. /\ mem'.charges = mem.charges /\ mem'.journal = mem.journal
        /\ mem'.balance[p] = book.payer - Price[r]
        /\ a # p => mem'.balance[a] = mem.balance[a]
        /\ book.pc = "debit" /\ book'.pc = "credit"
    BY <1>1, <1>2, <1>8 DEF Debit, BookStates, BookIdle, p
  <2>2. Underway(a) = 0 /\ Underway(a)' = IF a = p THEN -Price[r] ELSE 0
    BY <1>1, <1>2, <1>3, <2>1 DEF Underway, p
  <2>3. a = p => book.payer = mem.balance[a]
    BY <1>1, <2>1 DEF Booked, ReadsHold, p
  <2>4. MemBook(a)' BY <1>2, <1>4, <1>7, <2>1, <2>2, <2>3 DEF MemBook
  <2>5. ReadsHold(a)'
    BY <1>1, <1>2, <1>3, <1>6, <2>1 DEF Booked, ReadsHold, p
  <2> QED BY <1>5, <1>7, <2>1, <2>4, <2>5 DEF Booked
<1>9. CASE Credit
  <2>1. /\ mem'.charges = mem.charges /\ mem'.journal = mem.journal
        /\ mem'.balance[Vendor] = book.payee + Price[r]
        /\ a # Vendor => mem'.balance[a] = mem.balance[a]
        /\ book.pc = "credit" /\ book'.pc = "record"
    BY <1>1, <1>2, <1>9 DEF Credit, BookStates, BookIdle
  <2>2. Underway(a) = IF a = p THEN -Price[r] ELSE 0
    BY <1>1, <1>2, <2>1 DEF Underway, p
  <2>3. Underway(a)' = IF a = p THEN -Price[r] ELSE IF a = Vendor THEN Price[r] ELSE 0
    BY <1>1, <1>2, <1>3, <2>1 DEF Underway, p
  <2>4. a = Vendor => book.payee = mem.balance[a]
    BY <2>1 DEF Booked, ReadsHold
  <2>5. MemBook(a)' BY <1>2, <1>4, <1>7, <2>1, <2>2, <2>3, <2>4 DEF MemBook
  <2>6. ReadsHold(a)' BY <1>3, <1>6, <2>1 DEF Booked, ReadsHold
  <2> QED BY <1>5, <1>7, <2>1, <2>5, <2>6 DEF Booked
<1>10. CASE RecordCharge
  <2>1. /\ mem'.charges = mem.charges \cup {r} /\ mem'.balance = mem.balance
        /\ book.pc = "record" /\ book'.pc = "save"
        /\ r \notin mem.charges
    BY <1>1, <1>10 DEF RecordCharge, HonourInv, OrderInv, BookStates, BookIdle
  <2>2. mem'.journal[a] = mem.journal[a]
    BY <1>1, <1>2, <1>10, RegistryAssumption DEF RecordCharge
  <2>3. Underway(a) = IF a = p THEN -Price[r] ELSE IF a = Vendor THEN Price[r] ELSE 0
    BY <1>1, <1>2, <2>1 DEF Underway, p
  <2>4. Worth(mem, a)' = Worth(mem, a) + Underway(a)
    <3>1. Worth(mem', a) = Worth(mem, a) + (IF a = Vendor THEN Price[r] ELSE 0)
                             - (IF Payer[r] = a THEN Price[r] ELSE 0)
      BY <1>2, <2>1, <2>2, WorthCharged
    <3> QED BY <1>2, <1>4, <2>3, <3>1, WorthPrimed DEF p
  <2>5. MemBook(a)'
    <3>1. Underway(a)' = 0 BY <2>1 DEF Underway
    <3> QED BY <1>4, <2>1, <2>4, <3>1 DEF MemBook
  <2>6. WithinLimit(a)'
    <3>1. Worth(mem, a)' >= -Limit[a] BY <1>2, <1>4, <1>6, <2>3, <2>4
    <3> QED BY <1>5, <3>1 DEF Booked, WithinLimit
  <2>7. ReadsHold(a)' /\ Affordable(a)' /\ Apart(a)'
    BY <1>3, <2>1 DEF Booked, ReadsHold, Affordable, Apart, InCharge
  <2> QED BY <1>5, <2>5, <2>6, <2>7 DEF Booked
<1> QED BY <1>8, <1>9, <1>10

(* Steps that leave memory and file, and begin or end a charge.            *)
LEMMA BooksLoop ==
  ASSUME RegistryInv, Entries(mem), NEW a \in Accounts \ raced', Booked(a),
         (\E r \in Requests : Admit(r)) \/ SaveCharge \/ SaveChargeFails \/ Reload
  PROVE  Booked(a)'
<1> USE DEF RegistryInv, States
<1>a. a \in Accounts /\ mem.balance[a] \in Int /\ Worth(mem, a) \in Int
  BY WorthType
<1>b. book.pc \notin {"credit", "record"} => mem.balance[a] = Worth(mem, a)
  BY <1>a DEF Booked, MemBook, Underway
<1>c. ASSUME book'.pc \notin {"credit", "record"}, NEW n \in Int,
             Worth(mem, a)' = n, mem'.balance[a] = n
      PROVE  MemBook(a)'
  <2>1. Underway(a)' = 0 BY <1>c DEF Underway
  <2> QED BY <1>c, <2>1 DEF MemBook
<1>1. ASSUME NEW r \in Requests, Admit(r)
      PROVE  Booked(a)'
  <2>1. /\ mem' = mem /\ file' = file /\ op' = op
        /\ book.pc = "idle" /\ book'.pc = "debit" /\ book'.req = r
        /\ book'.payer = mem.balance[Payer[r]] /\ book'.payee = mem.balance[Vendor]
        /\ Price[r] <= mem.balance[Payer[r]] + Limit[Payer[r]]
        /\ a \notin {Payer[r], Vendor} \cap InRelay
        /\ InCharge' = {Payer[r], Vendor} /\ InRelay' = InRelay
    BY <1>1 DEF Admit, LoopFree, BeginCharge, Chargeable, InCharge, InRelay
  <2>2. Worth(mem, a)' = Worth(mem, a) BY <2>1, MemSays
  <2>3. Worth(file, a)' = Worth(file, a) BY <2>1, FileSays
  <2>4. mem.balance[a] = Worth(mem, a) BY <1>b, <2>1
  <2>5. MemBook(a)' BY <1>a, <1>c, <2>1, <2>2, <2>4
  <2>6. FileBook(a)' /\ WithinLimit(a)'
    BY <2>1, <2>2, <2>3 DEF Booked, FileBook, WithinLimit
  <2>7. Apart(a)' BY <2>1 DEF Apart
  <2>8. ReadsHold(a)' BY <2>1 DEF Booked, ReadsHold
  <2>9. Affordable(a)' BY <2>1, <2>2, <2>4 DEF Affordable
  <2> QED BY <2>5, <2>6, <2>7, <2>8, <2>9 DEF Booked
<1>2. CASE SaveCharge
  <2>1. /\ mem' = mem /\ file' = mem /\ op' = op /\ op.pc = "idle"
        /\ book.pc = "save" /\ book'.pc = "idle"
    BY <1>2 DEF SaveCharge, Locked, BookIdle
  <2>2. Worth(mem, a)' = Worth(mem, a) BY <2>1, MemSays
  <2>3. Worth(file, a)' = Worth(mem, a) BY <2>1, FileSays
  <2>4. MemBook(a)' BY <1>a, <1>b, <1>c, <2>1, <2>2
  <2>5. FileBook(a)' BY <1>b, <2>1, <2>3 DEF FileBook
  <2>6. WithinLimit(a)' BY <2>2, <2>3 DEF Booked, WithinLimit
  <2> QED BY <2>1, <2>4, <2>5, <2>6 DEF Booked, Apart, InCharge, ReadsHold, Affordable
<1>3. CASE SaveChargeFails
  <2>1. /\ mem' = mem /\ file' = file /\ op' = op /\ op.pc = "idle"
        /\ book.pc = "save" /\ book'.pc = "idle"
    BY <1>3 DEF SaveChargeFails, Locked, BookIdle
  <2>2. Worth(mem, a)' = Worth(mem, a) BY <2>1, MemSays
  <2>3. Worth(file, a)' = Worth(file, a) BY <2>1, FileSays
  <2>4. MemBook(a)' BY <1>a, <1>b, <1>c, <2>1, <2>2
  <2>5. FileBook(a)' /\ WithinLimit(a)'
    BY <2>1, <2>2, <2>3 DEF Booked, FileBook, WithinLimit
  <2> QED BY <2>1, <2>4, <2>5 DEF Booked, Apart, InCharge, ReadsHold, Affordable
<1>4. CASE Reload
  <2>1. mem' = file /\ file' = file /\ op'.pc = "idle" /\ book'.pc = "idle"
    BY <1>4 DEF Reload, OpIdle, BookIdle
  <2>2. Worth(mem, a)' = Worth(file, a) BY <2>1, MemSays
  <2>3. Worth(file, a)' = Worth(file, a) BY <2>1, FileSays
  <2>4. file.balance[a] \in Int /\ file.balance[a] = Worth(file, a)
    BY <1>a DEF Booked, FileBook
  <2>5. MemBook(a)' BY <1>c, <2>1, <2>2, <2>4
  <2>6. FileBook(a)' /\ WithinLimit(a)'
    BY <2>1, <2>2, <2>3 DEF Booked, FileBook, WithinLimit
  <2> QED BY <2>1, <2>5, <2>6 DEF Booked, Apart, InCharge, ReadsHold, Affordable
<1> QED BY <1>1, <1>2, <1>3, <1>4

(* An account once given up stays so.                                      *)
LEMMA RacedGrows ==
  ASSUME [Next]_vars
  PROVE  raced \subseteq raced'
BY RegistrySteps
   DEF BeginRegister, BeginSettle, OpenAccount, WriteSettlement, ExportAccounts,
       ReplaceFile, ReplaceFails, Admit, BeginCharge, Debit, Credit, RecordCharge,
       SaveCharge, SaveChargeFails, Reload

LEMMA BooksNext ==
  ASSUME TypeInv, HonourInv, FiniteInv, BooksInv, [Next]_vars
  PROVE  BooksInv'
<1> SUFFICES ASSUME NEW a \in Accounts \ raced' PROVE Booked(a)'
  BY DEF BooksInv
<1>1. RegistryInv /\ Entries(mem) /\ Booked(a)
  BY EntriesParts, RacedGrows DEF TypeInv, BooksInv
<1>2. CASE UNCHANGED <<mem, file, op, book, raced>>
  <2>1. Underway(a)' = Underway(a) /\ InCharge' = InCharge /\ InRelay' = InRelay
    BY <1>2 DEF Underway, InCharge, InRelay
  <2>2. Worth(mem, a)' = Worth(mem, a) BY <1>2, MemSays
  <2>3. Worth(file, a)' = Worth(file, a) BY <1>2, FileSays
  <2>4. MemBook(a)' /\ FileBook(a)'
    BY <1>1, <1>2, <2>1, <2>2, <2>3 DEF Booked, MemBook, FileBook
  <2>5. Apart(a)' /\ ReadsHold(a)' BY <1>1, <1>2, <2>1 DEF Booked, Apart, ReadsHold
  <2>6. Affordable(a)' /\ WithinLimit(a)'
    BY <1>1, <1>2, <2>2, <2>3 DEF Booked, Affordable, WithinLimit
  <2> QED BY <2>4, <2>5, <2>6 DEF Booked
<1>3. CASE \/ \E c \in Accounts : BeginRegister(c) \/ BeginSettle(c)
           \/ OpenAccount \/ WriteSettlement \/ ExportAccounts \/ ReplaceFile
           \/ ReplaceFails
  BY <1>1, <1>3, BooksRelay
<1>4. CASE Debit \/ Credit \/ RecordCharge
  BY <1>1, <1>4, BooksCharge
<1>5. CASE (\E r \in Requests : Admit(r)) \/ SaveCharge \/ SaveChargeFails \/ Reload
  BY <1>1, <1>5, BooksLoop
<1> QED BY <1>2, <1>3, <1>4, <1>5, RegistrySteps

LEMMA AlwaysBooked == Spec => []BooksInv
<1>1. TypeInv /\ HonourInv /\ FiniteInv /\ BooksInv /\ [Next]_vars => BooksInv'
  BY BooksNext
<1> QED BY <1>1, BooksInit, AlwaysTyped, AlwaysHonoured, AlwaysFinite, PTL DEF Spec

(* An account on file is what the charges and the settlements of the same  *)
(* file add up to, after any save, failed save or restart, unless a charge *)
(* used it while the relay settled it or saved: charge writes both         *)
(* accounts and the entry before it saves (ledger.py:172-184, relay.py:97).*)
(* The threads may overlap, and what one of them does to its accounts      *)
(* never spoils the others.                                                *)
THEOREM FileIsBalanced == Spec => []BooksBalance
<1>1. BooksInv => BooksBalance
  BY DEF BooksInv, Booked, FileBook, BooksBalance
<1> QED BY <1>1, AlwaysBooked, PTL

(* Such an account never owes more than the credit it was granted: the     *)
(* balance the limit is tested against (ledger.py:165) is what its entries *)
(* say, and it is still that when the charge is entered, although the      *)
(* relay's threads may run in between.                                     *)
THEOREM DebtIsBounded == Spec => []DebtWithinLimit
<1>1. BooksInv => DebtWithinLimit
  BY DEF BooksInv, Booked, WithinLimit, DebtWithinLimit
<1> QED BY <1>1, AlwaysBooked, PTL

(***************************************************************************)
(* What the registry bills is what the wallets have counted                *)
(***************************************************************************)
LEMMA MessagesDiffer ==
  ASSUME NEW r, NEW s
  PROVE  /\ Ask(r) # Proof(s)
         /\ Ask(r) = Ask(s) => r = s
         /\ Proof(r) = Proof(s) => r = s
BY DEF Ask, Proof

(* A wallet that no two threads have used at once counts the price of each *)
(* proof it sends, within its budget; and what its one thread in authorize *)
(* has tested and read there still holds.                                  *)
Counted(a) ==
  /\ spent[a] = PriceOf(Paying(proofs, a))
  /\ spent[a] <= Budget[a]
  /\ \A r \in Requests : Payer[r] = a /\ caller[r] \in Authorizing =>
       /\ spent[a] + Price[r] <= Budget[a]
       /\ caller[r] = "spending" => tally[r] = spent[a]
       /\ \A q \in Requests : Payer[q] = a /\ caller[q] \in Authorizing => q = r

SpentIsSigned == \A a \in Accounts \ shared : Counted(a)

(* Nothing is charged that was not signed.                                 *)
ChargedIsSigned ==
  /\ mem.charges \subseteq proofs /\ file.charges \subseteq proofs
  /\ book.pc # "idle" => book.req \in proofs
  /\ \A r \in Requests : Proof(r) \in toGate => r \in proofs

(* A request is signed once: its caller has no other challenge to answer.  *)
SignedOnce ==
  /\ \A r \in proofs : /\ Ask(r) \notin toGate
                       /\ caller[r] \notin {"new", "asked", "owed"} \cup Authorizing
  /\ \A r \in Requests : Ask(r) \in toGate => caller[r] \in {"asked", "error"}

BudgetInv == SpentIsSigned /\ ChargedIsSigned /\ SignedOnce

LEMMA BudgetInit == Init => BudgetInv
<1> SUFFICES ASSUME Init PROVE BudgetInv
  OBVIOUS
<1>1. \A a \in Accounts : Paying(proofs, a) = {} /\ spent[a] = 0
  BY DEF Init, Paying
<1>2. SpentIsSigned
  <2> SUFFICES ASSUME NEW a \in Accounts PROVE Counted(a)
    BY DEF SpentIsSigned
  <2>1. \A r \in Requests : caller[r] \notin Authorizing BY DEF Init, Authorizing
  <2>2. Budget[a] \in Nat BY PaymentsAssumption
  <2> QED BY <1>1, <2>1, <2>2, PriceNone DEF Counted
<1>3. ChargedIsSigned
  BY DEF Init, RegistryInit, Blank, BookIdle, ChargedIsSigned
<1>4. SignedOnce BY DEF Init, SignedOnce
<1> QED BY <1>2, <1>3, <1>4 DEF BudgetInv

(* The steps inside authorize; every other leaves the wallets alone, and   *)
(* brings no thread into authorize.                                        *)
LEMMA WalletSteps ==
  ASSUME TypeInv, [Next]_vars
  PROVE  \/ \E r \in Requests : Authorize(r) \/ SignProof(r) \/ PayAndRetry(r)
         \/ /\ UNCHANGED <<spent, tally, shared, proofs>>
            /\ \A r \in Requests : caller'[r] \in Authorizing => caller'[r] = caller[r]
<1> USE DEF walletVars, Authorizing
<1>a. caller \in [Requests -> Phases] BY DEF TypeInv, PaidInv
<1>b. ASSUME NEW r \in Requests, NEW phase \in {"owed"} \cup Ended, Reply(r, phase)
      PROVE  \A q \in Requests : caller'[q] \in Authorizing => caller'[q] = caller[q]
  BY <1>a, <1>b DEF Reply, Ended
<1>1. CASE \E r \in Requests : \/ Send(r) \/ PaymentRefused(r) \/ Timeout(r) \/ Replay(r)
                               \/ Expire(r) \/ Admit(r)
  BY <1>a, <1>1 DEF Send, PaymentRefused, Timeout, Replay, Expire, Admit
<1>2. ASSUME NEW r \in Requests,
             PaymentRequired(r) \/ RejectProof(r) \/ RejectCharge(r) \/ Endpoint(r)
      PROVE  /\ UNCHANGED <<spent, tally, shared, proofs>>
             /\ \E phase \in {"owed"} \cup Ended : Reply(r, phase)
  BY <1>2 DEF PaymentRequired, RejectProof, RejectCharge, Endpoint, Ended
<1>3. CASE ChargeNotSaved
  <2>1. book.req \in Requests /\ Reply(book.req, "error")
    BY <1>3 DEF ChargeNotSaved, SaveChargeFails, TypeInv, RegistryInv, BookStates, BookIdle
  <2> QED BY <1>3, <1>b, <2>1 DEF ChargeNotSaved, Ended
<1>4. CASE Charging \/ Settled \/ Relay
  BY <1>4 DEF Charging, Settled, Relay, paidVars
<1>5. CASE Restart
  BY <1>a, <1>5 DEF Restart
<1>6. CASE UNCHANGED vars
  BY <1>6 DEF vars, paidVars
<1> QED BY <1>b, <1>1, <1>2, <1>3, <1>4, <1>5, <1>6 DEF Next, Server, Caller

LEMMA SpentNext ==
  ASSUME TypeInv, FiniteInv, BudgetInv, [Next]_vars
  PROVE  SpentIsSigned'
<1> SUFFICES ASSUME NEW a \in Accounts, a \notin shared'
             PROVE  Counted(a)'
  BY DEF SpentIsSigned
<1> USE DEF Authorizing
<1>a. /\ caller \in [Requests -> Phases] /\ tally \in [Requests -> Nat]
      /\ proofs \in SUBSET Requests /\ IsFiniteSet(proofs)
      /\ spent \in [Accounts -> Nat]
      /\ \A r \in Requests : Payer[r] \in Accounts /\ Price[r] \in Nat
      /\ Budget[a] \in Nat
  BY RegistryAssumption, PaymentsAssumption DEF TypeInv, PaidInv, FiniteInv
<1>b. shared \subseteq shared'
  BY WalletSteps DEF Authorize, SignProof, PayAndRetry
<1>c. Counted(a) BY <1>b DEF BudgetInv, SpentIsSigned
<1>d. ASSUME proofs' = proofs
      PROVE  PriceOf(Paying(proofs, a))' = PriceOf(Paying(proofs, a))
  BY <1>d DEF Paying, PriceOf, MapThenSumSet, MapThenFoldSet
<1>1. CASE /\ UNCHANGED <<spent, tally, shared, proofs>>
           /\ \A r \in Requests : caller'[r] \in Authorizing => caller'[r] = caller[r]
  BY <1>c, <1>d, <1>1 DEF Counted
<1>2. ASSUME NEW r \in Requests, Authorize(r)
      PROVE  Counted(a)'
  <2>1. /\ UNCHANGED <<spent, tally, proofs>>
        /\ caller' = [caller EXCEPT ![r] = "signing"]
        /\ spent[Payer[r]] + Price[r] <= Budget[Payer[r]]
        /\ Payer[r] = a =>
             \A q \in Requests : Payer[q] = a => caller[q] \notin Authorizing
    BY <1>a, <1>2 DEF Authorize, Authorized
  <2> QED BY <1>a, <1>c, <1>d, <2>1 DEF Counted
<1>3. ASSUME NEW r \in Requests, SignProof(r)
      PROVE  Counted(a)'
  <2>1. /\ UNCHANGED <<spent, proofs>> /\ caller[r] = "signing"
        /\ caller' = [caller EXCEPT ![r] = "spending"]
        /\ tally' = [tally EXCEPT ![r] = spent[Payer[r]]]
    BY <1>3 DEF SignProof
  <2> QED BY <1>a, <1>c, <1>d, <2>1 DEF Counted
<1>4. ASSUME NEW r \in Requests, PayAndRetry(r)
      PROVE  Counted(a)'
  <2>1. /\ caller[r] = "spending" /\ r \notin proofs
        /\ caller' = [caller EXCEPT ![r] = "paid"]
        /\ spent' = [spent EXCEPT ![Payer[r]] = tally[r] + Price[r]]
        /\ tally' = [tally EXCEPT ![r] = 0]
        /\ proofs' = proofs \cup {r}
    BY <1>4 DEF PayAndRetry, BudgetInv, SignedOnce
  <2>2. PriceOf(Paying(proofs, a))'
          = PriceOf(Paying(proofs, a)) + (IF Payer[r] = a THEN Price[r] ELSE 0)
    <3>1. PriceOf(Paying(proofs', a))
            = PriceOf(Paying(proofs, a)) + (IF Payer[r] = a THEN Price[r] ELSE 0)
      BY <1>a, <2>1, PayingAdd
    <3> QED BY <3>1 DEF Paying, PriceOf, MapThenSumSet, MapThenFoldSet
  <2>3. CASE Payer[r] = a
    <3>1. /\ tally[r] = spent[a] /\ spent[a] + Price[r] <= Budget[a]
          /\ \A q \in Requests : Payer[q] = a /\ caller[q] \in Authorizing => q = r
      BY <1>c, <2>1, <2>3 DEF Counted
    <3>2. \A q \in Requests : Payer[q] = a => caller'[q] \notin Authorizing
      BY <1>a, <2>1, <3>1
    <3>3. spent'[a] = spent[a] + Price[r] BY <1>a, <2>1, <2>3, <3>1
    <3> QED BY <1>a, <1>c, <2>2, <2>3, <3>1, <3>2, <3>3 DEF Counted
  <2>4. CASE Payer[r] # a
    <3>1. spent'[a] = spent[a] BY <1>a, <2>1, <2>4
    <3>2. PriceOf(Paying(proofs, a))' = spent[a] BY <1>a, <1>c, <2>2, <2>4 DEF Counted
    <3> QED BY <1>a, <1>c, <2>1, <2>4, <3>1, <3>2 DEF Counted
  <2> QED BY <2>3, <2>4
<1> QED BY <1>1, <1>2, <1>3, <1>4, WalletSteps

(* An answer to a request that was signed, and messages that were read.    *)
LEMMA AnswerKeeps ==
  ASSUME TypeInv, SignedOnce, NEW r \in proofs, NEW phase \in Ended, Reply(r, phase),
         toGate' \subseteq toGate, proofs' = proofs
  PROVE  SignedOnce'
<1>1. /\ r \in Requests
      /\ caller \in [Requests -> Phases]
      /\ proofs \subseteq Requests
  BY DEF TypeInv, PaidInv
<1>2. /\ \A s \in Requests \ {r} : caller'[s] = caller[s]
      /\ caller'[r] \notin {"new", "asked", "owed"} \cup Authorizing
  BY <1>1 DEF Reply, SignedOnce, Ended, Authorizing
<1> QED BY <1>1, <1>2 DEF SignedOnce

LEMMA SignedNext ==
  ASSUME TypeInv, HonourInv, BudgetInv, [Next]_vars
  PROVE  SignedOnce'
<1>a. /\ caller \in [Requests -> Phases]
      /\ proofs \subseteq Requests
      /\ SignedOnce /\ ChargedIsSigned
  BY DEF TypeInv, PaidInv, BudgetInv
<1>b. ASSUME UNCHANGED <<caller, toGate, proofs>>
      PROVE  SignedOnce'
  BY <1>a, <1>b DEF SignedOnce
<1>1. ASSUME NEW r \in Requests, Send(r)
      PROVE  SignedOnce'
  BY <1>a, <1>1, MessagesDiffer DEF Send, SignedOnce, Authorizing
<1>2. ASSUME NEW r \in Requests, Authorize(r) \/ SignProof(r) \/ PayAndRetry(r)
      PROVE  SignedOnce'
  BY <1>a, <1>2, MessagesDiffer
     DEF Authorize, SignProof, PayAndRetry, SignedOnce, Authorizing
<1>3. ASSUME NEW r \in Requests, PaymentRefused(r) \/ Timeout(r)
      PROVE  SignedOnce'
  BY <1>a, <1>3 DEF PaymentRefused, Timeout, SignedOnce, Waiting, Authorizing
<1>4. ASSUME NEW r \in Requests, Replay(r)
      PROVE  SignedOnce'
  BY <1>a, <1>4, MessagesDiffer DEF Replay, SignedOnce
<1>5. ASSUME NEW r \in Requests, Expire(r) \/ Admit(r)
      PROVE  SignedOnce'
  BY <1>a, <1>5 DEF Expire, Admit, SignedOnce
<1>6. ASSUME NEW r \in Requests, PaymentRequired(r)
      PROVE  SignedOnce'
  <2>1. /\ r \notin proofs /\ Ask(r) \notin toGate' /\ toGate' \subseteq toGate
        /\ \A s \in Requests \ {r} : caller'[s] = caller[s]
        /\ proofs' = proofs
    BY <1>a, <1>6 DEF PaymentRequired, SignedOnce, Reply
  <2> QED BY <1>a, <2>1 DEF SignedOnce
<1>7. ASSUME NEW r \in Requests, RejectProof(r) \/ RejectCharge(r)
      PROVE  SignedOnce'
  <2>1. /\ r \in proofs /\ Reply(r, "refused")
        /\ toGate' \subseteq toGate /\ proofs' = proofs
    BY <1>a, <1>7 DEF RejectProof, RejectCharge, ChargedIsSigned
  <2> QED BY <1>a, <2>1, AnswerKeeps DEF Ended
<1>8. CASE ChargeNotSaved
  <2>1. /\ book.req \in proofs /\ Reply(book.req, "error")
        /\ toGate' \subseteq toGate /\ proofs' = proofs
    BY <1>a, <1>8 DEF ChargeNotSaved, SaveChargeFails, ChargedIsSigned
  <2>2. PICK r \in proofs : Reply(r, "error") BY <2>1
  <2> QED BY <1>a, <2>1, <2>2, AnswerKeeps DEF Ended
<1>9. ASSUME NEW r \in Requests, Endpoint(r)
      PROVE  SignedOnce'
  <2>1. r \in proofs
    BY <1>a, <1>9 DEF Endpoint, HonourInv, OrderInv, Admitted, ChargedIsSigned
  <2>2. /\ Reply(r, "served") \/ Reply(r, "error")
        /\ toGate' \subseteq toGate /\ proofs' = proofs
    BY <1>9 DEF Endpoint
  <2> QED BY <1>a, <2>1, <2>2, AnswerKeeps DEF Ended
<1>10. CASE Restart
  BY <1>a, <1>10 DEF Restart, SignedOnce, Waiting, Authorizing
<1>11. CASE Charging \/ Settled \/ Relay
  BY <1>11, <1>b DEF Charging, Settled, Relay, paidVars
<1>12. CASE UNCHANGED vars
  BY <1>12, <1>b DEF vars, paidVars
<1> QED BY <1>1, <1>2, <1>3, <1>4, <1>5, <1>6, <1>7, <1>8, <1>9, <1>10, <1>11, <1>12
        DEF Next, Server, Caller

LEMMA ChargedNext ==
  ASSUME TypeInv, HonourInv, BudgetInv, [Next]_vars
  PROVE  ChargedIsSigned'
<1>a. ChargedIsSigned /\ RegistryInv BY DEF BudgetInv, TypeInv
<1>1. proofs \subseteq proofs'
  BY ProofsGrow DEF PayAndRetry
<1>2. mem'.charges \subseteq proofs' /\ file'.charges \subseteq proofs'
  BY <1>a, <1>1, ChargesGrow DEF ChargedIsSigned
<1>3. book'.pc # "idle" => book'.req \in proofs'
  <2>1. CASE UNCHANGED <<mem, file, op, book, raced>>
    BY <1>a, <1>1, <2>1 DEF ChargedIsSigned
  <2>2. CASE \/ \E a \in Accounts : BeginRegister(a) \/ BeginSettle(a)
             \/ OpenAccount \/ WriteSettlement \/ ExportAccounts \/ ReplaceFile
             \/ ReplaceFails
    BY <1>a, <1>1, <2>2, RelayKeepsCharges DEF RelayStep, ChargedIsSigned
  <2>3. ASSUME NEW r \in Requests, Admit(r)
        PROVE  book'.req \in proofs'
    BY <1>a, <1>1, <2>3 DEF Admit, BeginCharge, ChargedIsSigned
  <2>4. CASE Debit \/ Credit \/ RecordCharge
    BY <1>a, <1>1, <2>4 DEF Debit, Credit, RecordCharge, RegistryInv, BookStates,
                            BookIdle, ChargedIsSigned
  <2>5. CASE SaveCharge \/ SaveChargeFails \/ Reload
    BY <2>5 DEF SaveCharge, SaveChargeFails, Reload, BookIdle
  <2> QED BY <2>1, <2>2, <2>3, <2>4, <2>5, RegistrySteps
<1>4. \A r \in Requests : Proof(r) \in toGate' => r \in proofs'
  <2>a. ASSUME toGate' \subseteq toGate
        PROVE  \A r \in Requests : Proof(r) \in toGate' => r \in proofs'
    BY <1>a, <1>1, <2>a DEF ChargedIsSigned
  <2>1. ASSUME NEW s \in Requests, Send(s)
        PROVE  \A r \in Requests : Proof(r) \in toGate' => r \in proofs'
    BY <1>a, <1>1, <2>1, MessagesDiffer DEF Send, ChargedIsSigned
  <2>2. ASSUME NEW s \in Requests, PayAndRetry(s) \/ Replay(s)
        PROVE  \A r \in Requests : Proof(r) \in toGate' => r \in proofs'
    BY <1>a, <1>1, <2>2, MessagesDiffer DEF PayAndRetry, Replay, ChargedIsSigned
  <2>3. CASE \E r \in Requests : \/ PaymentRefused(r) \/ Authorize(r) \/ SignProof(r)
                                 \/ Timeout(r) \/ Expire(r)
    BY <2>3, <2>a DEF PaymentRefused, Authorize, SignProof, Timeout, Expire
  <2>4. CASE \E r \in Requests : PaymentRequired(r) \/ RejectProof(r) \/ RejectCharge(r)
                                 \/ Admit(r) \/ Endpoint(r)
    BY <2>4, <2>a DEF PaymentRequired, RejectProof, RejectCharge, Admit, Endpoint
  <2>5. CASE Charging \/ Settled \/ ChargeNotSaved \/ Relay \/ Restart
    BY <2>5, <2>a DEF Charging, Settled, ChargeNotSaved, Relay, Restart, paidVars
  <2>6. CASE UNCHANGED vars
    BY <2>6, <2>a DEF vars, paidVars
  <2> QED BY <2>1, <2>2, <2>3, <2>4, <2>5, <2>6 DEF Next, Server, Caller
<1> QED BY <1>2, <1>3, <1>4 DEF ChargedIsSigned

LEMMA AlwaysBudgeted == Spec => []BudgetInv
<1>1. TypeInv /\ HonourInv /\ FiniteInv /\ BudgetInv /\ [Next]_vars => BudgetInv'
  BY SpentNext, SignedNext, ChargedNext DEF BudgetInv
<1> QED BY <1>1, BudgetInit, AlwaysTyped, AlwaysHonoured, AlwaysFinite, PTL DEF Spec

(* What the registry has billed or will bill an agent is within what its   *)
(* wallet has counted, and so within its session budget, whatever becomes  *)
(* of the proofs it signed: authorize counts a price before the proof      *)
(* leaves and never takes it back (client/wallet.py:92-98), and the ledger *)
(* charges one proof once (ledger.py:153).  It is so of any agent without  *)
(* two threads inside authorize at once, whatever the others do; an agent  *)
(* with two may sign beyond its budget, and nothing is stated of it.       *)
THEOREM BillIsBudgeted == Spec => []BilledWithinBudget
<1>1. ASSUME TypeInv, FiniteInv, BudgetInv
      PROVE  BilledWithinBudget
  <2> SUFFICES ASSUME NEW a \in Accounts \ shared
               PROVE  /\ PriceOf(Paying(mem.charges \cup file.charges, a)) <= spent[a]
                      /\ spent[a] <= Budget[a]
    BY DEF BilledWithinBudget, Paying
  <2>1. proofs \in SUBSET Requests /\ IsFiniteSet(proofs)
    BY <1>1 DEF TypeInv, PaidInv, FiniteInv
  <2>2. Paying(mem.charges \cup file.charges, a) \subseteq Paying(proofs, a)
    BY <1>1 DEF BudgetInv, ChargedIsSigned, Paying
  <2>3. Paying(proofs, a) \in SUBSET Requests /\ IsFiniteSet(Paying(proofs, a))
    BY <2>1, PayingParts
  <2>4. PriceOf(Paying(mem.charges \cup file.charges, a)) <= PriceOf(Paying(proofs, a))
    BY <2>2, <2>3, PriceMonotone
  <2> QED BY <1>1, <2>4 DEF BudgetInv, SpentIsSigned, Counted
<1> QED BY <1>1, AlwaysTyped, AlwaysFinite, AlwaysBudgeted, PTL

(***************************************************************************)
(* The file is an account book                                             *)
(***************************************************************************)
(* The file has no settlement that the memory has not.                     *)
JournalInv == \A a \in Accounts : file.journal[a] <= mem.journal[a]

(* What a step makes of the journals: a save writes that of the memory,    *)
(* a reload takes that of the file, and an entry is added in memory only.  *)
LEMMA JournalSteps ==
  ASSUME RegistryInv, [Next]_vars
  PROVE  \/ /\ file' = file
            /\ \A a \in Accounts : mem'.journal[a] >= mem.journal[a]
         \/ file' = file /\ mem' = file
         \/ /\ file'.charges = mem.charges /\ file'.journal = mem.journal
            /\ mem' = mem
<1> USE DEF RegistryInv, States
<1>a. \A a \in Accounts : mem.journal[a] \in Nat /\ a \notin Requests
  BY RegistryAssumption
<1>1. CASE UNCHANGED <<mem, file, op, book, raced>>
  BY <1>a, <1>1
<1>2. CASE \E a \in Accounts : BeginRegister(a) \/ BeginSettle(a)
  BY <1>a, <1>2 DEF BeginRegister, BeginSettle
<1>3. CASE OpenAccount \/ ExportAccounts \/ ReplaceFails \/ Debit \/ Credit
           \/ SaveChargeFails \/ \E r \in Requests : Admit(r)
  BY <1>a, <1>3 DEF OpenAccount, ExportAccounts, ReplaceFails, Debit, Credit,
                    SaveChargeFails, Admit, BeginCharge
<1>4. CASE WriteSettlement
  <2>1. PICK c \in Accounts : c = op.acct
    BY <1>4 DEF WriteSettlement, OpStates, OpIdle
  <2>2. file' = file /\ mem'.journal = [mem.journal EXCEPT ![c] = @ + 1]
    BY <1>4, <2>1 DEF WriteSettlement
  <2> QED BY <1>a, <2>1, <2>2
<1>5. CASE RecordCharge
  <2>1. PICK r \in Requests : r = book.req
    BY <1>5 DEF RecordCharge, BookStates, BookIdle
  <2>2. file' = file /\ mem'.journal = [mem.journal EXCEPT ![r] = @ + 1]
    BY <1>5, <2>1 DEF RecordCharge
  <2> QED BY <1>a, <2>1, <2>2
<1>6. CASE ReplaceFile \/ SaveCharge \/ Reload
  BY <1>6 DEF ReplaceFile, SaveCharge, Reload
<1> QED BY <1>1, <1>2, <1>3, <1>4, <1>5, <1>6, RegistrySteps

LEMMA JournalParts ==
  ASSUME RegistryInv
  PROVE  \A a \in Accounts : mem.journal[a] \in Nat /\ file.journal[a] \in Nat
BY DEF RegistryInv, States

LEMMA AlwaysJournalled == Spec => []JournalInv
<1>1. Init => JournalInv
  BY DEF Init, RegistryInit, Blank, JournalInv
<1>2. ASSUME TypeInv, JournalInv, [Next]_vars
      PROVE  JournalInv'
  <2>1. RegistryInv /\ RegistryInv' BY <1>2, TypeNext DEF TypeInv
  <2>2. \A a \in Accounts : /\ mem.journal[a] \in Nat /\ file.journal[a] \in Nat
                            /\ mem'.journal[a] \in Nat /\ file'.journal[a] \in Nat
    BY <2>1 DEF RegistryInv, States
  <2> QED BY <1>2, <2>1, <2>2, JournalSteps DEF JournalInv
<1> QED BY <1>1, <1>2, AlwaysTyped, PTL DEF Spec

LEMMA MovedParts ==
  ASSUME NEW R, NEW a
  PROVE  Book!Moved(R, a)
           = (IF a = Vendor THEN PriceOf(R) ELSE 0) - PriceOf(Paying(R, a))
BY DEF Book!Moved, Book!PriceOf, Book!MapThenSumSet, Book!MapThenFoldSet, PriceOf,
       Paying, MapThenSumSet, MapThenFoldSet

(* The entries of a file moved on to another that has all of them.         *)
LEMMA WorthMoved ==
  ASSUME NEW s, Entries(s), NEW t, Entries(t), NEW a \in Accounts,
         s.charges \subseteq t.charges, s.journal[a] <= t.journal[a]
  PROVE  Worth(t, a) - Worth(s, a) >= Book!Moved(t.charges \ s.charges, a)
<1> DEFINE C == s.charges
           R == t.charges \ s.charges
<1>1. /\ C \in SUBSET Requests /\ IsFiniteSet(C)
      /\ R \in SUBSET Requests /\ IsFiniteSet(R)
      /\ C \cap R = {} /\ t.charges = C \cup R
      /\ s.journal[a] \in Nat /\ t.journal[a] \in Nat
  BY FS_Subset DEF Entries
<1> HIDE DEF C, R
<1>2. PriceOf(C \cup R) = PriceOf(C) + PriceOf(R) BY <1>1, PriceUnion
<1>3. PriceOf(Paying(C \cup R, a)) = PriceOf(Paying(C, a)) + PriceOf(Paying(R, a))
  <2>1. /\ Paying(C, a) \in SUBSET Requests /\ IsFiniteSet(Paying(C, a))
        /\ Paying(R, a) \in SUBSET Requests /\ IsFiniteSet(Paying(R, a))
    BY <1>1, PayingParts
  <2>2. Paying(C, a) \cap Paying(R, a) = {} BY <1>1 DEF Paying
  <2>3. Paying(C \cup R, a) = Paying(C, a) \cup Paying(R, a) BY DEF Paying
  <2>4. PriceOf(Paying(C, a) \cup Paying(R, a))
          = PriceOf(Paying(C, a)) + PriceOf(Paying(R, a))
    BY <2>1, <2>2, PriceUnion
  <2> QED BY <2>3, <2>4
<1>4. /\ PriceOf(C) \in Nat /\ PriceOf(R) \in Nat
      /\ PriceOf(Paying(C, a)) \in Nat /\ PriceOf(Paying(R, a)) \in Nat
  BY <1>1, PayingParts
<1>5. Worth(s, a) = s.journal[a] + (IF a = Vendor THEN PriceOf(C) ELSE 0)
                      - PriceOf(Paying(C, a))
  BY WorthParts DEF C
<1>6. Worth(t, a) = t.journal[a] + (IF a = Vendor THEN PriceOf(C \cup R) ELSE 0)
                      - PriceOf(Paying(C \cup R, a))
  BY <1>1, WorthParts
<1>7. Worth(t, a) - Worth(s, a) >= Book!Moved(R, a)
  BY <1>1, <1>2, <1>3, <1>4, <1>5, <1>6, MovedParts
<1> QED BY <1>7 DEF R

(* What a step leaves on file of what was there. *)
NothingLost ==
  /\ file.charges \subseteq file'.charges
  /\ \A a \in Accounts : file.journal[a] <= file'.journal[a]

LEMMA FileKept ==
  ASSUME TypeInv, HonourInv, JournalInv, [Next]_vars
  PROVE  NothingLost
<1>1. RegistryInv BY DEF TypeInv
<1>2. \A a \in Accounts : file.journal[a] <= file.journal[a]
  BY <1>1, JournalParts
<1> QED BY <1>1, <1>2, JournalSteps DEF HonourInv, OrderInv, JournalInv, NothingLost

LEMMA BookNext ==
  ASSUME TypeInv, FiniteInv, FiniteInv', HonourInv, JournalInv, BooksInv, BooksInv',
         [Next]_vars
  PROVE  Book!Next
<1> DEFINE R == file'.charges \ file.charges
<1>1. RegistryInv /\ RegistryInv' BY TypeNext DEF TypeInv
<1>2. Entries(file) /\ Entries(file')
  BY <1>1 DEF Entries, FiniteInv, RegistryInv, States
<1>3. /\ file.charges \subseteq file'.charges
      /\ \A a \in Accounts : file.journal[a] <= file'.journal[a]
  BY FileKept DEF NothingLost
<1>4. R \in SUBSET (Requests \ file.charges) BY <1>2 DEF Entries
<1>5. Book!Enter(R)
  <2>1. file'.charges = file.charges \cup R BY <1>3
  <2>2. ASSUME NEW a \in Accounts \ raced'
        PROVE  /\ file'.balance[a] - file.balance[a] >= Book!Moved(R, a)
               /\ file'.balance[a] >= -Limit[a]
    <3>1. file.balance[a] = Worth(file, a)
      BY RacedGrows DEF BooksInv, Booked, FileBook
    <3>2. Booked(a)' BY DEF BooksInv
    <3>4. file'.balance[a] = Worth(file', a) /\ Worth(file', a) >= -Limit[a]
      BY <3>2, WorthPrimed DEF Booked, FileBook, WithinLimit
    <3>3. Worth(file', a) - Worth(file, a) >= Book!Moved(R, a)
      BY <1>2, <1>3, WorthMoved
    <3> QED BY <3>1, <3>3, <3>4
  <2> QED BY <2>1, <2>2, RacedGrows DEF Book!Enter
<1> QED BY <1>4, <1>5 DEF Book!Next

(* Nothing that is on file is ever lost: no charge, hence no nonce, and no *)
(* settlement, whatever overtakes what among the relay, the charges, saves *)
(* that fail and restarts (Registry._save and load, relay.py:97-121):      *)
(* threads that overlap may lose a balance, never what it is made of.      *)
THEOREM NothingOnFileIsLost == Spec => [][NothingLost]_vars
BY AlwaysTyped, AlwaysHonoured, AlwaysJournalled, FileKept, PTL DEF Spec

(* The registry's file is an atomic and durable account book: whatever the *)
(* order of the reads, writes, saves, failed saves and restarts, and       *)
(* whether or not the threads overlap, each replacement of the file enters *)
(* whole charges, once each, loses no charge, and moves every balance as   *)
(* the charges say, except those of the accounts that both threads have    *)
(* used at once (ledger.py:172-184, relay.py:97).                          *)
THEOREM FileIsAccountBook == Spec => ImplementsAccountBook
<1>1. Init => Book!Init
  BY DEF Init, RegistryInit, Blank, Book!Init
<1>2. ASSUME TypeInv, FiniteInv, FiniteInv', HonourInv, JournalInv, BooksInv,
             BooksInv', [Next]_vars
      PROVE  [Book!Next]_<<file.balance, file.charges, raced>>
  <2>1. Book!Next BY <1>2, BookNext
  <2> QED BY <2>1
<1> QED
  BY <1>1, <1>2, AlwaysTyped, AlwaysFinite, AlwaysHonoured, AlwaysJournalled,
     AlwaysBooked, PTL DEF Spec, ImplementsAccountBook, Book!Spec
=============================================================================
