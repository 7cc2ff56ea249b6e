----------------------------- MODULE MCPayments -----------------------------
(* Small instances of Payments for TLC.                                     *)
EXTENDS Payments, TLC

CONSTANTS u1, c1, s1, m1, m2, n1, h1, h2

Symmetry == Permutations(Processes)

Owners == [p \in Payments |-> u1]
Prices == [p \in Payments |-> 10]
CoinsBought == [p \in Payments |-> IF p = c1 THEN 2 ELSE 0]
MonthsBought == [p \in Payments |-> IF p = s1 THEN 1 ELSE 0]

(* m1 pays the coins c1 in full, m2 only a part of them, n1 pays the        *)
(* subscription s1.                                                         *)
References == [m \in MpPayments |-> IF m = n1 THEN s1 ELSE c1]
Amounts == [m \in MpPayments |-> IF m = m2 THEN 5 ELSE 10]
(* m2 is notified in the legacy form only.                                  *)
Events == [m \in MpPayments |-> [s \in MpStatuses |->
              IF m = m2 THEN <<m, "legacy">> ELSE <<m, s>>]]
Legacy == [m \in MpPayments |-> <<m, "legacy">>]

(* Three instances in one: two attempts to pay the coins; one attempt,      *)
(* while the wallet is used; one to pay the months, while time passes and    *)
(* the subscription is changed. They share no other state.                  *)
LedgerUsed == \E u \in Users, k \in {"purchases", "credits", "debits"} : ledger[u][k] > 0
AccessUsed == now > 0 \/ \E u \in Users : subscription[u].status # "ABSENT"
Attempted(S) == \E m \in S : mp[m] # "absent"
OneAtATime ==
    /\ payment[s1].status # "ABSENT" => payment[c1].status = "ABSENT" /\ ~LedgerUsed
    /\ AccessUsed => payment[c1].status = "ABSENT" /\ ~LedgerUsed
    /\ LedgerUsed => ~Attempted({m2})
=============================================================================
