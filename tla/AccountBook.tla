---------------------------- MODULE AccountBook ----------------------------
(***************************************************************************)
(* What a payment registry promises, without memory, threads or files: an  *)
(* account book in which one request is charged at most once, a charge     *)
(* moves its price from the payer to the payee in one step, nobody falls   *)
(* below the credit granted, and what is written is never lost.  Several   *)
(* charges and settlements may be entered at once, as they are when a save *)
(* that failed is made up for by the next.  A registry that uses accounts  *)
(* from two threads may give up the balance of those that were used by     *)
(* both at once, and of no other; the charges are kept all the same.       *)
(***************************************************************************)
EXTENDS Integers, FiniteSetsExt

CONSTANTS
  Accounts,  \* agent_ids
  Requests,  \* paid requests, each with the nonce of its challenge
  Payer,     \* [Requests -> Accounts]
  Vendor,    \* the account credited by every charge
  Price,     \* [Requests -> Nat]
  Limit      \* [Accounts -> Nat], credit_limit

VARIABLES
  balance,   \* [Accounts -> Int], negative when money is owed
  charged,   \* the requests charged
  disputed   \* accounts whose balance is given up

PriceOf(R) == MapThenSumSet(LAMBDA r : Price[r], R)

(* What the charges of R move to an account.                               *)
Moved(R, a) == (IF a = Vendor THEN PriceOf(R) ELSE 0)
                 - PriceOf({r \in R : Payer[r] = a})

(* The requests R are charged; the rest of each change is money settled.   *)
Enter(R) ==
  /\ charged' = charged \cup R
  /\ disputed \subseteq disputed'
  /\ \A a \in Accounts \ disputed' :
       /\ balance'[a] - balance[a] >= Moved(R, a)
       /\ balance'[a] >= -Limit[a]

Init == balance = [a \in Accounts |-> 0] /\ charged = {} /\ disputed = {}

Next == \E R \in SUBSET (Requests \ charged) : Enter(R)

Spec == Init /\ [][Next]_<<balance, charged, disputed>>
=============================================================================
