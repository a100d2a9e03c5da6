------------------------------ MODULE Registry ------------------------------
(***************************************************************************)
(* The payment ledger (payments/ledger.py) inside the registry that keeps  *)
(* it on disk (relay.py).  Two kinds of threads use it: those of the       *)
(* relay's HTTP server, one at a time under the registry's lock, and the   *)
(* thread of a paid server, which debits the ledger without that lock and  *)
(* takes it only to save.  A thread may be interrupted between its reads   *)
(* of an account and its writes, which are the steps below.                *)
(* Prices are counted in units of a settlement.                            *)
(***************************************************************************)
EXTENDS Integers, FiniteSetsExt

CONSTANTS
  Accounts,        \* agent_ids
  Requests,        \* paid requests, each with the nonce of its challenge
  Payer,           \* [Requests -> Accounts], proof.payer
  Vendor,          \* proof.pay_to
  Price,           \* [Requests -> Nat], proof.amount
  Limit,           \* [Accounts -> Nat], credit_limit
  Overlap,         \* whether the relay's threads and the server's overlap
  MaxSettlements,  \* bound: POST /settle
  MaxDiskFaults    \* bound: saves that raise

ASSUME RegistryAssumption ==
  /\ Requests \cap Accounts = {}
  /\ Vendor \in Accounts
  /\ Payer \in [Requests -> Accounts \ {Vendor}]
  /\ Price \in [Requests -> Nat] /\ Limit \in [Accounts -> Nat]
  /\ Overlap \in BOOLEAN
  /\ {MaxSettlements, MaxDiskFaults} \subseteq Nat

VARIABLES
  mem,          \* the Ledger and the Keyring in memory
  file,         \* the state file
  op,           \* the relay's thread that holds _lock
  book,         \* the server's thread inside Ledger.charge
  raced,        \* history: accounts both threads have used at the same time
  settlements, diskFaults  \* counters of the bounds

registryVars == <<mem, file, op, book, raced, settlements, diskFaults>>

(* keys: the keyring.  opened, balance: _accounts.  charges: _charges and  *)
(* _seen_nonces, which holds their nonces.  journal: the entries CHARGE    *)
(* of each request and the units of the entries SETTLEMENT of each account.*)
States == [keys : SUBSET Accounts, opened : SUBSET Accounts,
           balance : [Accounts -> Int], charges : SUBSET Requests,
           journal : [Requests \cup Accounts -> Nat]]

Blank == [keys |-> {}, opened |-> {}, balance |-> [a \in Accounts |-> 0],
          charges |-> {}, journal |-> [x \in Requests \cup Accounts |-> 0]]

OpIdle   == [pc |-> "idle"]
BookIdle == [pc |-> "idle"]
Locked   == op.pc # "idle"

RegistryInit ==
  /\ mem = Blank /\ file = Blank
  /\ op = OpIdle /\ book = BookIdle /\ raced = {}
  /\ settlements = 0 /\ diskFaults = 0

(* The accounts a thread has read, and whose use of them is not over: those *)
(* of the charge, and those the relay settles or is about to save.         *)
InCharge == IF book.pc \in {"debit", "credit", "record"}
            THEN {Payer[book.req], Vendor} ELSE {}
InRelay == IF op.pc = "settle" THEN {op.acct}
           ELSE IF op.pc = "replace" THEN Accounts ELSE {}

MayBegin == ~Locked /\ (Overlap \/ book.pc = "idle")

(***************************************************************************)
(* The relay's threads: register and settle, then one save for the change  *)
(* of the ledger and one of their own.                                     *)
(***************************************************************************)
BeginRegister(a) ==
  /\ MayBegin /\ a \notin mem.opened
  /\ mem' = [mem EXCEPT !.keys = @ \cup {a}]
  /\ op' = [pc |-> "open", acct |-> a]
  /\ UNCHANGED <<file, book, raced, settlements, diskFaults>>

OpenAccount ==
  /\ op.pc = "open"
  /\ mem' = [mem EXCEPT !.opened = @ \cup {op.acct}]
  /\ op' = [pc |-> "export", saves |-> 2]
  /\ UNCHANGED <<file, book, raced, settlements, diskFaults>>

BeginSettle(a) ==
  /\ MayBegin /\ a \in mem.opened
  /\ settlements < MaxSettlements
  /\ settlements' = settlements + 1
  /\ op' = [pc |-> "settle", acct |-> a, read |-> mem.balance[a]]
  /\ raced' = raced \cup ({a} \cap InCharge)
  /\ UNCHANGED <<mem, file, book, diskFaults>>

WriteSettlement ==
  /\ op.pc = "settle"
  /\ mem' = [mem EXCEPT !.balance[op.acct] = op.read + 1,
                        !.journal[op.acct] = @ + 1]
  /\ op' = [pc |-> "export", saves |-> 2]
  /\ UNCHANGED <<file, book, raced, settlements, diskFaults>>

(* export_state reads the accounts first, then the charges and the journal.*)
ExportAccounts ==
  /\ op.pc = "export"
  /\ op' = [pc |-> "replace", saves |-> op.saves,
            opened |-> mem.opened, balance |-> mem.balance]
  /\ raced' = raced \cup InCharge
  /\ UNCHANGED <<mem, file, book, settlements, diskFaults>>

ReplaceKeepsLock ==
  /\ op.pc = "replace"
  /\ file' = [mem EXCEPT !.opened = op.opened, !.balance = op.balance]
  /\ op' = IF op.saves > 1 THEN [pc |-> "export", saves |-> op.saves - 1]
                           ELSE op
  /\ UNCHANGED <<mem, book, raced, settlements, diskFaults>>

ReplaceFile ==
  /\ op.pc = "replace"
  /\ file' = [mem EXCEPT !.opened = op.opened, !.balance = op.balance]
  /\ op' = IF op.saves > 1 THEN [pc |-> "export", saves |-> op.saves - 1]
                           ELSE OpIdle
  /\ UNCHANGED <<mem, book, raced, settlements, diskFaults>>

(* The save raises: the request is not answered and the lock is released.  *)
ReplaceFails ==
  /\ op.pc = "replace"
  /\ diskFaults < MaxDiskFaults
  /\ diskFaults' = diskFaults + 1
  /\ op' = OpIdle
  /\ UNCHANGED <<mem, file, book, raced, settlements>>

RelayStep == \/ OpenAccount \/ WriteSettlement
             \/ ExportAccounts \/ ReplaceFile

(***************************************************************************)
(* The server's thread: Ledger.charge.                                     *)
(***************************************************************************)
ChargeableTwice(r) ==
  /\ Price[r] > 0
  /\ {Payer[r], Vendor} \subseteq mem.opened
  /\ Price[r] <= mem.balance[Payer[r]] + Limit[Payer[r]]

ChargeableOnCredit(r) ==
  /\ r \notin mem.charges
  /\ Price[r] > 0
  /\ {Payer[r], Vendor} \subseteq mem.opened

Chargeable(r) ==
  /\ r \notin mem.charges
  /\ Price[r] > 0
  /\ {Payer[r], Vendor} \subseteq mem.opened
  /\ Price[r] <= mem.balance[Payer[r]] + Limit[Payer[r]]

BeginCharge(r) ==
  /\ book' = [pc |-> "debit", req |-> r, payer |-> mem.balance[Payer[r]],
              payee |-> mem.balance[Vendor]]
  /\ raced' = raced \cup ({Payer[r], Vendor} \cap InRelay)
  /\ UNCHANGED <<mem, file, op, settlements, diskFaults>>

Debit ==
  /\ book.pc = "debit"
  /\ mem' = [mem EXCEPT !.balance[Payer[book.req]] = book.payer - Price[book.req]]
  /\ book' = [book EXCEPT !.pc = "credit"]
  /\ UNCHANGED <<file, op, raced, settlements, diskFaults>>

CreditPayer ==
  /\ book.pc = "credit"
  /\ mem' = [mem EXCEPT !.balance[Payer[book.req]] = book.payee + Price[book.req]]
  /\ book' = [book EXCEPT !.pc = "record"]
  /\ UNCHANGED <<file, op, raced, settlements, diskFaults>>

Credit ==
  /\ book.pc = "credit"
  /\ mem' = [mem EXCEPT !.balance[Vendor] = book.payee + Price[book.req]]
  /\ book' = [book EXCEPT !.pc = "record"]
  /\ UNCHANGED <<file, op, raced, settlements, diskFaults>>

RecordCharge ==
  /\ book.pc = "record"
  /\ mem' = [mem EXCEPT !.charges = @ \cup {book.req},
                        !.journal[book.req] = @ + 1]
  /\ book' = [book EXCEPT !.pc = "save"]
  /\ UNCHANGED <<file, op, raced, settlements, diskFaults>>

NotSaved ==
  /\ book.pc = "save" /\ ~Locked
  /\ book' = BookIdle
  /\ UNCHANGED <<mem, file, op, raced, settlements, diskFaults>>

(* _changed: on_change is the registry's _save, under its lock.            *)
SaveCharge ==
  /\ book.pc = "save" /\ ~Locked
  /\ file' = mem
  /\ book' = BookIdle
  /\ UNCHANGED <<mem, op, raced, settlements, diskFaults>>

SaveChargeFails ==
  /\ book.pc = "save" /\ ~Locked
  /\ diskFaults < MaxDiskFaults
  /\ diskFaults' = diskFaults + 1
  /\ book' = BookIdle
  /\ UNCHANGED <<mem, file, op, raced, settlements>>

ReloadAccounts ==
  /\ mem' = [file EXCEPT !.charges = {}]
  /\ op' = OpIdle /\ book' = BookIdle
  /\ UNCHANGED <<file, raced, settlements, diskFaults>>

(* Registry.load: the nonces are those of the charges on file.             *)
Reload ==
  /\ mem' = file
  /\ op' = OpIdle /\ book' = BookIdle
  /\ UNCHANGED <<file, raced, settlements, diskFaults>>

(***************************************************************************)
(* What the entries of a state say of an account.                          *)
(***************************************************************************)
PriceOf(R) == MapThenSumSet(LAMBDA r : Price[r], R)
PaidBy(s, a) == PriceOf({r \in s.charges : Payer[r] = a})
EarnedBy(s, a) == IF a = Vendor THEN PriceOf(s.charges) ELSE 0
Worth(s, a) == s.journal[a] + EarnedBy(s, a) - PaidBy(s, a)

RegistryTypeOK ==
  /\ mem \in States /\ file \in States
  /\ op.pc \in {"idle", "open", "settle", "export", "replace"}
  /\ book.pc \in {"idle", "debit", "credit", "record", "save"}
  /\ raced \subseteq Accounts
  /\ {settlements, diskFaults} \subseteq Nat

(* Each balance on file is what the charges and the sealed settlements of  *)
(* the same file add up to: "le payeur doit, le beneficiaire est du"       *)
(* (ledger.py:69) for every charge on file, and no settlement is lost.     *)
(* charge takes no lock (ledger.py:165-188), so an account that it uses    *)
(* while the relay settles it or saves is left out: its balance may be     *)
(* wrong.  Every other balances, whatever the two threads do at once.      *)
BooksBalance ==
  \A a \in Accounts \ raced : file.balance[a] = Worth(file, a)

(* No such agent has been charged beyond the settlements received from it  *)
(* and the credit it was granted, whatever its balance says.               *)
DebtWithinLimit ==
  \A a \in Accounts \ raced : Worth(mem, a) >= -Limit[a]
=============================================================================
