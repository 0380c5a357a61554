---------------------------- MODULE WalletLedger ----------------------------
(***************************************************************************)
(* What the wallet promises, with no threads, locks or transactions in it: *)
(* a withdrawal takes its amount out of the spendable balance when it is   *)
(* requested, an admin decides it once, and only a rejection puts the      *)
(* money back.  Module Wallet, which follows services/wallet_service.py    *)
(* statement by statement, is shown to implement this module.              *)
(***************************************************************************)
EXTENDS Integers

CONSTANTS
    Users,          \* users that own a wallet
    Wids,           \* withdraw_requests.id values
    Keys,           \* client idempotency keys
    NoKey,          \* a request sent without an idempotency key
    NoUser,         \* user column of a row that does not exist yet
    MinWithdraw,    \* MIN_WITHDRAW
    MaxWithdraw,    \* MAX_WITHDRAW
    FirstMinBalance,\* FIRST_WITHDRAW_MIN_BALANCE
    Amounts         \* amounts of money that move

VARIABLES
    balance,        \* [Users -> Nat], wallet_balance.balance
    wd              \* [Wids -> row], withdraw_requests

ledgerVars == <<balance, wd>>

Unused == [status |-> "none", user |-> NoUser, amount |-> 0, key |-> NoKey]

\* Withdrawals of u that an admin has already let through.
Honoured(u) == {w \in Wids : wd[w].user = u /\ wd[w].status \in {"approved", "paid"}}

LedgerInit ==
    /\ balance = [u \in Users |-> 0]
    /\ wd = [w \in Wids |-> Unused]

(***************************************************************************)
(* Money moved by the rest of the application: commission payouts, admin   *)
(* credits and debits.                                                     *)
(***************************************************************************)
Deposit(u, a) ==
    /\ balance' = [balance EXCEPT ![u] = @ + a]
    /\ UNCHANGED wd

Spend(u, a) ==
    /\ a <= balance[u]
    /\ balance' = [balance EXCEPT ![u] = @ - a]
    /\ UNCHANGED wd

Reserve(w, u, a, k) ==
    /\ wd[w].status = "none"
    /\ MinWithdraw <= a /\ a <= MaxWithdraw /\ a <= balance[u]
    /\ balance[u] >= FirstMinBalance \/ Honoured(u) # {}
    /\ k # NoKey => ~\E v \in Wids : wd[v].user = u /\ wd[v].key = k
    /\ wd' = [wd EXCEPT ![w] = [status |-> "pending", user |-> u, amount |-> a, key |-> k]]
    /\ balance' = [balance EXCEPT ![u] = @ - a]

Honour(w) ==
    /\ \E to \in {"approved", "paid"} :
          /\ wd[w].status = "pending" \/ (wd[w].status = "approved" /\ to = "paid")
          /\ wd' = [wd EXCEPT ![w].status = to]
    /\ UNCHANGED balance

Refuse(w) ==
    /\ wd[w].status = "pending"
    /\ wd' = [wd EXCEPT ![w].status = "rejected"]
    /\ balance' = [balance EXCEPT ![wd[w].user] = @ + wd[w].amount]

LedgerNext ==
    \/ \E u \in Users, a \in Amounts : Deposit(u, a) \/ Spend(u, a)
    \/ \E w \in Wids, u \in Users, a \in Amounts, k \in Keys \cup {NoKey} : Reserve(w, u, a, k)
    \/ \E w \in Wids : Honour(w) \/ Refuse(w)

LedgerSpec == LedgerInit /\ [][LedgerNext]_ledgerVars
=============================================================================
