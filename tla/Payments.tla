------------------------------ MODULE Payments ------------------------------
(***************************************************************************)
(* Buying coins and PRO months through Mercado Pago: the checkout, the     *)
(* provider's payments, the webhook that credits them, and the wallet and  *)
(* subscription they end in, which purchases and administrators change too. *)
(*                                                                         *)
(* The provider notifies each change of a payment and may deliver one      *)
(* notification many times, late and concurrently. The handler asks the    *)
(* provider for the payment first (Fetch), then runs one transaction: the  *)
(* event is inserted (a second transaction with the same event waits for   *)
(* the first), the payment and the subscription are read in steps of their *)
(* own, as READ COMMITTED lets them differ, and the writes and the commit  *)
(* are one step. A throw before it leaves nothing behind (Fail).           *)
(***************************************************************************)
EXTENDS Integers, FiniteSets, FiniteSetsExt

CONSTANTS
    Users, Payments, MpPayments, Processes, None,
    Owner,       \* who created each payment
    Price,       \* amountCents of each payment
    Coins,       \* coinsAmount + bonusCoins of each payment
    Months,      \* subscriptionValidityMonths, 0 for a purchase of coins
    Reference,   \* external_reference of each provider payment
    Amount,      \* what was paid, in cents of BRL (0 in another currency)
    EventId,     \* EventId[m][s]: id of the notification that m reached s
    LegacyId,    \* LegacyId[m]: the one id of m's legacy notifications
    Outcomes,    \* decisions the provider takes: approved, rejected, cancelled
    Cost,        \* coins of a benefits package
    Quantity,    \* benefits in the package
    Adjust,      \* coins an administrator credits or debits at a time
    ManualEnds,  \* endAt values an administrator may set (0: null, no end)
    MaxEntries,  \* bound on the ledger entries of a kind, by user
    MaxMonth     \* bound on time

ASSUME PaymentsAssumption ==
    /\ IsFiniteSet(Users) /\ IsFiniteSet(Payments) /\ IsFiniteSet(MpPayments)
    /\ IsFiniteSet(Processes)
    /\ None \notin Users /\ None \notin Payments
    /\ Owner \in [Payments -> Users]
    /\ Price \in [Payments -> Nat \ {0}]
    /\ Coins \in [Payments -> Nat] /\ Months \in [Payments -> Nat]
    /\ \A p \in Payments : Coins[p] = 0 \/ Months[p] = 0
    /\ Reference \in [MpPayments -> Payments \cup {None}]
    /\ Amount \in [MpPayments -> Nat]
    /\ Outcomes \subseteq {"approved", "rejected", "cancelled"}
    /\ Cost \in Nat \ {0} /\ Quantity \in Nat \ {0} /\ Adjust \in Nat \ {0}
    /\ ManualEnds \subseteq Nat /\ MaxEntries \in Nat /\ MaxMonth \in Nat

VARIABLES
    payment,       \* payments
    mp,            \* status of the provider's payments
    events,        \* externalEventId of payment_webhook_events
    wallet,        \* wallets.balance
    posted,        \* effects of each payment: its CREDIT entries or renewals
    ledger,        \* the other wallet_ledger entries, counted by kind
    inventory,     \* user_benefit_inventory.quantity
    subscription,  \* subscriptions: status and endAt, in months (0: no end)
    manual,        \* the latest endAt ever set by hand (admin_audit_log)
    now,
    proc           \* requests and webhook deliveries in progress

vars == <<payment, mp, events, wallet, posted, ledger, inventory, subscription,
          manual, now, proc>>
money == <<wallet, posted, ledger, inventory>>
access == <<subscription, manual>>

MpStatuses == {"pending", "approved", "rejected", "cancelled", "refunded"}
PaymentStatuses == {"PENDING", "APPROVED", "REJECTED", "CANCELLED", "REFUNDED"}
EventIds == {EventId[m][s] : m \in MpPayments, s \in MpStatuses}
               \cup {LegacyId[m] : m \in MpPayments}

PaymentRow == [status : PaymentStatuses \cup {"ABSENT"}, checkout : BOOLEAN,
               credited : BOOLEAN, processed : BOOLEAN]
SubscriptionRow == [status : {"ABSENT", "ACTIVE", "CANCELLED", "EXPIRED"},
                    end : Nat]

Steps == {"idle", "fetched", "readSubscription", "commit", "debit", "cancel"}
Process == [at : Steps, m : MpPayments \cup {None}, event : EventIds \cup {None},
            status : MpStatuses \cup {None}, end : Nat, found : BOOLEAN,
            user : Users \cup {None}, kind : {"purchases", "debits", None}]
Idle == [at |-> "idle", m |-> None, event |-> None, status |-> None, end |-> 0,
         found |-> FALSE, user |-> None, kind |-> None]

TypeOK ==
    /\ payment \in [Payments -> PaymentRow]
    /\ mp \in [MpPayments -> MpStatuses \cup {"absent"}]
    /\ events \subseteq EventIds
    /\ wallet \in [Users -> Nat]
    /\ posted \in [Payments -> Nat]
    /\ ledger \in [Users -> [purchases : Nat, credits : Nat, debits : Nat]]
    /\ inventory \in [Users -> Nat]
    /\ subscription \in [Users -> SubscriptionRow]
    /\ manual \in [Users -> Nat]
    /\ now \in Nat
    /\ proc \in [Processes -> Process]

Init ==
    /\ payment = [p \in Payments |-> [status |-> "ABSENT", checkout |-> FALSE,
                                      credited |-> FALSE, processed |-> FALSE]]
    /\ mp = [m \in MpPayments |-> "absent"]
    /\ events = {}
    /\ wallet = [u \in Users |-> 0]
    /\ posted = [p \in Payments |-> 0]
    /\ ledger = [u \in Users |-> [purchases |-> 0, credits |-> 0, debits |-> 0]]
    /\ inventory = [u \in Users |-> 0]
    /\ subscription = [u \in Users |-> [status |-> "ABSENT", end |-> 0]]
    /\ manual = [u \in Users |-> 0]
    /\ now = 0
    /\ proc = [h \in Processes |-> Idle]

-----------------------------------------------------------------------------
At(h, step) == proc[h].at = step
Begin(h, fields) == At(h, "idle") /\ proc' = [proc EXCEPT ![h] = fields]
Done(h) == proc' = [proc EXCEPT ![h] = Idle]

Tick ==
    /\ now < MaxMonth
    /\ now' = now + 1
    /\ UNCHANGED <<payment, mp, events, money, access, proc>>

-----------------------------------------------------------------------------
(* CreatePaymentService and CreateSubscriptionCheckoutService: the PENDING  *)
(* row is committed before the provider is asked for a preference, and its  *)
(* checkout is stored after. A failure between leaves a row nobody can pay. *)
CreatePayment(p) ==
    /\ payment[p].status = "ABSENT"
    /\ payment' = [payment EXCEPT ![p].status = "PENDING"]
    /\ UNCHANGED <<mp, events, money, access, now, proc>>

StoreCheckout(p) ==
    /\ payment[p].status # "ABSENT" /\ ~payment[p].checkout
    /\ payment' = [payment EXCEPT ![p].checkout = TRUE]
    /\ UNCHANGED <<mp, events, money, access, now, proc>>

(* The provider: a payer attempts to pay a preference, maybe more than once; *)
(* a payment of another origin has no reference of ours. An attempt is      *)
(* decided, and an approved one may be refunded.                            *)
Attempt(m) ==
    /\ mp[m] = "absent"
    /\ Reference[m] # None => payment[Reference[m]].checkout
    /\ mp' = [mp EXCEPT ![m] = "pending"]
    /\ UNCHANGED <<payment, events, money, access, now, proc>>

Decide(m) ==
    /\ \/ mp[m] = "pending"
          /\ \E s \in Outcomes : mp' = [mp EXCEPT ![m] = s]
       \/ mp[m] = "approved" /\ mp' = [mp EXCEPT ![m] = "refunded"]
    /\ UNCHANGED <<payment, events, money, access, now, proc>>

(* The notifications sent so far: one of each status m went through, and    *)
(* legacy ones, which the controller gives an id made of the payment's.     *)
Reached(m) == {"pending", mp[m]} \cup (IF mp[m] = "refunded" THEN {"approved"} ELSE {})
Sent(m) == IF mp[m] = "absent" THEN {}
           ELSE {EventId[m][s] : s \in Reached(m)} \cup {LegacyId[m]}

-----------------------------------------------------------------------------
(* ProcessMercadoPagoWebhookService. The status comes from the provider, as *)
(* it is now, not from the notification.                                    *)
Fetch(h, m, id) ==
    /\ id \in Sent(m)
    /\ Begin(h, [Idle EXCEPT !.at = "fetched", !.m = m, !.event = id,
                             !.status = mp[m]])
    /\ UNCHANGED <<payment, mp, events, money, access, now>>

(* payment_webhook_events is unique by externalEventId: an insert waits for  *)
(* the transaction that inserted the same one and fails if it committed.    *)
Unlocked(h) == \A g \in Processes \ {h} :
    proc[g].at \in {"readSubscription", "commit"} => proc[g].event # proc[h].event
EventIsNew(h) == proc[h].event \notin events

Ours(h) == Reference[proc[h].m]
Validated_AnyAmount(m, p) == Amount[m] # 0
Validated(m, p) == Amount[m] = Price[p]
Processed_ByCredit(p) == payment[p].credited
Processed(p) == payment[p].processed
(* Nothing follows from an event without a payment of ours, about one       *)
(* already processed, or approved for another amount.                       *)
NothingToDo(h) ==
    \/ Ours(h) = None
    \/ Processed(Ours(h))
    \/ proc[h].status = "approved" /\ ~Validated(proc[h].m, Ours(h))

DuplicateEvent(h) ==
    /\ At(h, "fetched") /\ Unlocked(h)
    /\ ~EventIsNew(h)
    /\ Done(h)
    /\ UNCHANGED <<payment, mp, events, money, access, now>>

RecordEvent(h) ==
    /\ At(h, "fetched") /\ Unlocked(h)
    /\ EventIsNew(h) /\ NothingToDo(h)
    /\ events' = events \cup {proc[h].event}
    /\ Done(h)
    /\ UNCHANGED <<payment, mp, money, access, now>>

ReadPayment(h) ==
    /\ At(h, "fetched") /\ Unlocked(h)
    /\ EventIsNew(h) /\ ~NothingToDo(h)
    /\ proc' = [proc EXCEPT ![h].at =
           IF proc[h].status = "approved" /\ Months[Ours(h)] # 0
           THEN "readSubscription" ELSE "commit"]
    /\ UNCHANGED <<payment, mp, events, money, access, now>>

(* RenewSubscriptionFromPaymentService: the new end is computed from the    *)
(* end that was read, when it lies ahead.                                   *)
Validity_Yearly(p) == 12
Validity(p) == Months[p]
RenewedEnd(end, p) == (IF end > now THEN end ELSE now) + Validity(p)

ReadSubscription(h) ==
    /\ At(h, "readSubscription")
    /\ LET row == subscription[Owner[Ours(h)]] IN
         proc' = [proc EXCEPT ![h].at = "commit",
                              ![h].found = row.status # "ABSENT",
                              ![h].end = RenewedEnd(row.end, Ours(h))]
    /\ UNCHANGED <<payment, mp, events, money, access, now>>

(* Not approved: the status is copied to the payment, whatever it holds.    *)
MapMpStatus(s) == CASE s = "approved" -> "APPROVED" [] s = "rejected" -> "REJECTED"
                    [] s = "cancelled" -> "CANCELLED" [] s = "refunded" -> "REFUNDED"
                    [] OTHER -> "PENDING"
Approved(s) == s = "approved"

CommitStatus(h) ==
    /\ At(h, "commit") /\ ~Approved(proc[h].status)
    /\ payment' = [payment EXCEPT ![Ours(h)].status = MapMpStatus(proc[h].status)]
    /\ events' = events \cup {proc[h].event}
    /\ Done(h)
    /\ UNCHANGED <<mp, money, access, now>>

(* Approved: the payment is marked in the transaction that credits it.      *)
MarkProcessed(p) ==
    payment' = [payment EXCEPT ![p].status = "APPROVED", ![p].processed = TRUE,
                               ![p].credited = Months[p] = 0]

CommitCredit(h) ==
    LET p == Ours(h) IN
    /\ At(h, "commit") /\ Approved(proc[h].status) /\ Months[p] = 0
    /\ wallet' = [wallet EXCEPT ![Owner[p]] = @ + Coins[p]]
    /\ posted' = [posted EXCEPT ![p] = @ + 1]
    /\ MarkProcessed(p)
    /\ events' = events \cup {proc[h].event}
    /\ Done(h)
    /\ UNCHANGED <<mp, ledger, inventory, access, now>>

(* A row that appeared since it was read makes the create fail: the handler  *)
(* then has only Fail left.                                                 *)
CommitRenewal(h) ==
    LET p == Ours(h)
        u == Owner[p] IN
    /\ At(h, "commit") /\ Approved(proc[h].status) /\ Months[p] # 0
    /\ proc[h].found \/ subscription[u].status = "ABSENT"
    /\ subscription' = [subscription EXCEPT ![u] = [status |-> "ACTIVE",
                                                    end |-> proc[h].end]]
    /\ posted' = [posted EXCEPT ![p] = @ + 1]
    /\ MarkProcessed(p)
    /\ events' = events \cup {proc[h].event}
    /\ Done(h)
    /\ UNCHANGED <<mp, wallet, ledger, inventory, manual, now>>

(* A throw, a crash or a lost connection: the transaction is rolled back.   *)
RolledBack_EventKept(h) == events' = events \cup ({proc[h].event} \ {None})
RolledBack(h) == UNCHANGED events
Fail(h) ==
    /\ ~At(h, "idle")
    /\ RolledBack(h)
    /\ Done(h)
    /\ UNCHANGED <<payment, mp, money, access, now>>

-----------------------------------------------------------------------------
(* The other uses of the wallet: a benefits package is bought, and          *)
(* administrators credit and debit. A debit reads the balance and then      *)
(* updates the row only if it still covers the amount.                      *)
DebitAmount(kind) == IF kind = "purchases" THEN Cost ELSE Adjust
Covers_Unchecked(u, amount) == TRUE
Covers(u, amount) == wallet[u] >= amount

ReadWallet(h, u, kind) ==
    /\ ledger[u][kind] < MaxEntries
    /\ wallet[u] >= DebitAmount(kind)
    /\ Begin(h, [Idle EXCEPT !.at = "debit", !.user = u, !.kind = kind])
    /\ UNCHANGED <<payment, mp, events, money, access, now>>

CommitDebit(h) ==
    LET u == proc[h].user
        kind == proc[h].kind IN
    /\ At(h, "debit")
    /\ Covers(u, DebitAmount(kind))
    /\ wallet' = [wallet EXCEPT ![u] = @ - DebitAmount(kind)]
    /\ ledger' = [ledger EXCEPT ![u][kind] = @ + 1]
    /\ inventory' = [inventory EXCEPT ![u] =
                        @ + (IF kind = "purchases" THEN Quantity ELSE 0)]
    /\ Done(h)
    /\ UNCHANGED <<payment, mp, events, posted, access, now>>

AdminCredit(u) ==
    /\ ledger[u].credits < MaxEntries
    /\ wallet' = [wallet EXCEPT ![u] = @ + Adjust]
    /\ ledger' = [ledger EXCEPT ![u].credits = @ + 1]
    /\ UNCHANGED <<payment, mp, events, posted, inventory, access, now, proc>>

-----------------------------------------------------------------------------
(* CancelSubscriptionService reads, calls the provider and writes outside   *)
(* any transaction; administrators set and cancel subscriptions in one.     *)
CancelRead(h, u) ==
    /\ subscription[u].status \in {"ACTIVE", "EXPIRED"}
    /\ Begin(h, [Idle EXCEPT !.at = "cancel", !.user = u])
    /\ UNCHANGED <<payment, mp, events, money, access, now>>

CancelWrite(h) ==
    /\ At(h, "cancel")
    /\ subscription' = [subscription EXCEPT ![proc[h].user].status = "CANCELLED"]
    /\ Done(h)
    /\ UNCHANGED <<payment, mp, events, money, manual, now>>

(* An end of 0 is endAt null, a subscription without an end: a renewal      *)
(* counts from now, as for one that ended (renew :38), and gives it an end.  *)
SetManualSubscription(u, status, end) ==
    /\ subscription' = [subscription EXCEPT ![u] = [status |-> status, end |-> end]]
    /\ manual' = [manual EXCEPT ![u] = Max({@, end})]
    /\ UNCHANGED <<payment, mp, events, money, now, proc>>

CancelManualSubscription(u) ==
    /\ subscription[u].status # "ABSENT"
    /\ subscription' = [subscription EXCEPT ![u] = [status |-> "CANCELLED",
                                                    end |-> now]]
    /\ UNCHANGED <<payment, mp, events, money, manual, now, proc>>

-----------------------------------------------------------------------------
WebhookStep(h) ==
    \/ \E m \in MpPayments, id \in EventIds : Fetch(h, m, id)
    \/ DuplicateEvent(h) \/ RecordEvent(h) \/ ReadPayment(h) \/ ReadSubscription(h)
    \/ CommitStatus(h) \/ CommitCredit(h) \/ CommitRenewal(h)
    \/ Fail(h)

Next ==
    \/ Tick
    \/ \E p \in Payments : CreatePayment(p) \/ StoreCheckout(p)
    \/ \E m \in MpPayments : Attempt(m) \/ Decide(m)
    \/ \E h \in Processes : WebhookStep(h) \/ CommitDebit(h) \/ CancelWrite(h)
    \/ \E h \in Processes, u \in Users :
          \/ CancelRead(h, u)
          \/ \E kind \in {"purchases", "debits"} : ReadWallet(h, u, kind)
    \/ \E u \in Users :
          \/ AdminCredit(u) \/ CancelManualSubscription(u)
          \/ \E status \in {"ACTIVE", "CANCELLED", "EXPIRED"}, end \in ManualEnds :
                SetManualSubscription(u, status, end)

Spec == Init /\ [][Next]_vars

-----------------------------------------------------------------------------
PaymentsOf(u) == {p \in Payments : Owner[p] = u}
PostedTo(u, what) == SumFunction([p \in PaymentsOf(u) |-> posted[p] * what[p]])

(* A payment takes effect only for money the provider has: an approved      *)
(* payment of the right amount with its reference, and at most once for     *)
(* each recorded event (webhook :38-54, :99, :126; backlog-master.md:490).  *)
EffectIsBacked == \A p \in Payments : posted[p] > 0 =>
    /\ \E m \in MpPayments : /\ Reference[m] = p /\ Amount[m] = Price[p]
                             /\ mp[m] \in {"approved", "refunded"}
    /\ posted[p] <= Cardinality({e \in events : \E m \in MpPayments :
                                    Reference[m] = p /\ e \in Sent(m)})

(* processedAt stops every delivery but those already past its check: a     *)
(* payment takes effect at most once per delivery that runs at the same     *)
(* time, so once when they come one by one (webhook :82-97).                *)
EffectsBoundedByConcurrency ==
    \A p \in Payments : posted[p] <= Cardinality(Processes)

(* The notification of an approval is recorded only with the effect of its  *)
(* payment, unless the money was returned before it was handled: none is    *)
(* consumed by a delivery that failed (webhook :36-65, one transaction).    *)
ApprovalNotSwallowed == \A m \in MpPayments :
    /\ EventId[m]["approved"] \in events
    /\ Reference[m] # None /\ Amount[m] = Price[Reference[m]]
    => posted[Reference[m]] > 0 \/ mp[m] = "refunded"

(* A wallet holds what its entries say, never less than nothing, and        *)
(* benefits are exactly those paid for, whatever credits and debits overlap *)
(* (wallet.service.ts :36-134; wallets.balance >= 0).                       *)
WalletAccounts == \A u \in Users :
    /\ wallet[u] >= 0
    /\ wallet[u] = PostedTo(u, Coins) + ledger[u].credits * Adjust
                   - ledger[u].debits * Adjust - ledger[u].purchases * Cost
    /\ inventory[u] = ledger[u].purchases * Quantity

(* A subscription never reaches further than the months of the payments     *)
(* that took effect and the latest end set by hand, whatever renewals,      *)
(* cancellations and changes by administrators overlap (renew :38-67). A     *)
(* subscription without an end, which only administrators give, is not      *)
(* spoken of.                                                               *)
AccessIsPaid == \A u \in Users :
    LET start == IF manual[u] > now THEN manual[u] ELSE now
    IN  subscription[u].end <= start + PostedTo(u, Months)

(* Each payment takes effect at most once (the idempotence of the webhook   *)
(* that backlog-master.md:483 asks for).                                    *)
EffectOnce == \A p \in Payments : posted[p] <= 1
=============================================================================
