--------------------------- MODULE WalletLedger ---------------------------
(***************************************************************************)
(* What the wallet promises to every part of the system that moves coins   *)
(* ("tampinhas"): a balance changes only together with the entries that    *)
(* justify it, an entry is posted once under its idempotency key and stays *)
(* for good, and no balance goes below zero. WalletService, the admin      *)
(* credit and debit, the entry debit and the payouts of a Mesa each post   *)
(* their entries and change the balance in one database transaction.       *)
(*                                                                         *)
(* Detailed specifications implement this one; it says nothing of why an   *)
(* entry is posted.                                                        *)
(***************************************************************************)
EXTENDS Integers

CONSTANTS
    Users,
    Keys,            \* the idempotency keys of the wallet_ledger table
    InitialBalance   \* what each wallet holds before any of these entries

VARIABLES
    wallet,          \* wallets.balance, by user
    ledger           \* the rows of wallet_ledger

walletVars == <<wallet, ledger>>

(* wallet_ledger_amount_positive: no entry of zero coins.                   *)
Entry == [key : Keys, user : Users, type : {"CREDIT", "DEBIT"},
          amount : Nat \ {0}]

(* What a set of entries, at most one for each user, adds to u's balance.   *)
Effect(entries, u) ==
    IF \E e \in entries : e.user = u
    THEN LET e == CHOOSE x \in entries : x.user = u
         IN  IF e.type = "CREDIT" THEN e.amount ELSE -e.amount
    ELSE 0

WalletTypeOK ==
    /\ wallet \in [Users -> Nat]
    /\ ledger \in SUBSET Entry

WalletInit ==
    /\ wallet = InitialBalance
    /\ ledger = {}

(* One transaction that moves coins: it posts the entries and applies them. *)
Post(entries) ==
    /\ entries # {}
    /\ entries \in SUBSET Entry
    /\ \A e, f \in entries : e.key = f.key \/ e.user = f.user => e = f
    /\ \A e \in entries, f \in ledger : e.key # f.key
    /\ wallet' = [u \in Users |-> wallet[u] + Effect(entries, u)]
    /\ \A u \in Users : wallet'[u] >= 0
    /\ ledger' = ledger \cup entries

WalletNext == Post(ledger' \ ledger)

WalletSpec == WalletInit /\ [][WalletNext]_walletVars
=============================================================================
