--------------------------- MODULE PaymentsProofs ---------------------------
(***************************************************************************)
(* Proofs about Payments, for any number of payments, attempts to pay,     *)
(* notifications and concurrent deliveries: the types, that a payment      *)
(* takes effect only for money the provider has, how often it may, that no *)
(* approval is consumed without its effect, and that wallets and           *)
(* subscriptions hold what was posted to them.                             *)
(***************************************************************************)
EXTENDS Payments, SumProofs

(* What is known of a delivery: the notification it handles was sent, the   *)
(* status it fetched was the payment's once.                                *)
Handling(r) == r.at \in {"fetched", "readSubscription", "commit"}
Writing(r) == r.at \in {"readSubscription", "commit"}

Known(r, provider) ==
    /\ Handling(r) => /\ r.m \in MpPayments /\ r.status \in MpStatuses
                      /\ r.status = "approved" => provider[r.m] \in {"approved", "refunded"}
                      /\ r.status = "refunded" => provider[r.m] = "refunded"
    /\ r.at = "debit" => r.user \in Users /\ r.kind \in {"purchases", "debits"}
    /\ r.at = "cancel" => r.user \in Users

(* What is known of one that passed its checks: its event is not recorded,  *)
(* its payment is one of ours, and an approval was of the right amount.     *)
Checked(r, recorded) ==
    Writing(r) => /\ r.event \notin recorded
                  /\ Reference[r.m] \in Payments
                  /\ r.status = "approved" => Amount[r.m] = Price[Reference[r.m]]

(* No two transactions at once have the same event.                         *)
EventsApart ==
    \A g, h \in Processes :
        g # h /\ Writing(proc[g]) /\ Writing(proc[h]) => proc[g].event # proc[h].event

EventSent == \A h \in Processes : Handling(proc[h]) => proc[h].event \in Sent(proc[h].m)

(* What is known of a payment.                                              *)
RecordedFor(p) == {e \in events : \E m \in MpPayments : Reference[m] = p /\ e \in Sent(m)}
Backed(p) ==
    posted[p] > 0 => \E m \in MpPayments : /\ Reference[m] = p /\ Amount[m] = Price[p]
                                           /\ mp[m] \in {"approved", "refunded"}
Counted(p) == posted[p] <= Cardinality(RecordedFor(p))
Marked(p) == payment[p].processed <=> posted[p] > 0

Deliveries ==
    /\ \A h \in Processes : Known(proc[h], mp)
    /\ \A h \in Processes : Checked(proc[h], events)
    /\ EventsApart /\ EventSent
Effects == IsFiniteSet(events) /\ \A p \in Payments : Backed(p) /\ Counted(p) /\ Marked(p)

(* The invariant.                                                          *)
Inv == TypeOK /\ Deliveries /\ Effects

-----------------------------------------------------------------------------
(* At first nothing is recorded, posted or under way.                       *)
LEMMA InitInv == Init => Inv
  <1> SUFFICES ASSUME Init PROVE Inv
    OBVIOUS
  <1>1. Idle \in Process
    BY DEF Idle, Process, Steps
  <1>2. TypeOK
    BY <1>1 DEF Init, TypeOK, PaymentRow, SubscriptionRow
  <1>3. Deliveries
    <2>1. \A h \in Processes : proc[h] = Idle
      BY DEF Init
    <2>2. ~Handling(Idle) /\ ~Writing(Idle) /\ Idle.at = "idle"
      BY DEF Idle, Handling, Writing
    <2> QED BY <2>1, <2>2 DEF Deliveries, Known, Checked, EventsApart, EventSent
  <1>4. Effects
    <2>1. IsFiniteSet(events) /\ \A p \in Payments : RecordedFor(p) = {}
      BY FS_EmptySet DEF Init, RecordedFor
    <2>2. Cardinality({}) = 0
      BY FS_EmptySet
    <2>3. ASSUME NEW p \in Payments PROVE posted[p] = 0 /\ ~payment[p].processed
      BY DEF Init
    <2>4. ASSUME NEW p \in Payments PROVE Backed(p) /\ Marked(p)
      BY <2>3 DEF Backed, Marked
    <2>5. ASSUME NEW p \in Payments PROVE Counted(p)
      <3>1. Cardinality(RecordedFor(p)) = 0
        BY <2>1, <2>2
      <3> QED BY <2>3, <3>1 DEF Counted
    <2> QED BY <2>1, <2>4, <2>5 DEF Effects
  <1> QED BY <1>2, <1>3, <1>4 DEF Inv

-----------------------------------------------------------------------------
(* Steps that record nothing and post nothing.                              *)

(* What the provider was notified of stays so, and a decision is final but  *)
(* for a refund.                                                            *)
LEMMA ProviderGoesOn ==
  ASSUME Inv, NEW m \in MpPayments, Attempt(m) \/ Decide(m)
  PROVE  /\ mp' \in [MpPayments -> MpStatuses \cup {"absent"}]
         /\ \A n \in MpPayments : Sent(n) \subseteq Sent(n)'
         /\ \A n \in MpPayments : mp[n] \in {"approved", "refunded"}
                                    => mp'[n] \in {"approved", "refunded"}
         /\ \A n \in MpPayments : mp[n] = "refunded" => mp'[n] = "refunded"
  <1>1. mp \in [MpPayments -> MpStatuses \cup {"absent"}]
    BY DEF Inv, TypeOK
  <1>2. \E s \in MpStatuses :
          /\ mp' = [mp EXCEPT ![m] = s]
          /\ \/ mp[m] = "absent" \/ mp[m] = "pending"
             \/ mp[m] = "approved" /\ s = "refunded"
    BY PaymentsAssumption DEF Attempt, Decide, MpStatuses
  <1>3. ASSUME NEW n \in MpPayments, n # m PROVE mp'[n] = mp[n]
    BY <1>1, <1>2, <1>3
  <1>4. PICK s \in MpStatuses :
          /\ mp'[m] = s
          /\ mp[m] = "absent" \/ mp[m] = "pending" \/ (mp[m] = "approved" /\ s = "refunded")
    BY <1>1, <1>2
  <1>5. Sent(m) \subseteq Sent(m)'
    <2>1. CASE mp[m] = "absent"
      BY <2>1 DEF Sent
    <2>2. CASE mp[m] # "absent"
      <3>1. mp'[m] # "absent"
        BY <1>4 DEF MpStatuses
      <3>2. Reached(m) \subseteq Reached(m)'
        BY <1>4, <2>2 DEF Reached
      <3> QED BY <2>2, <3>1, <3>2 DEF Sent
    <2> QED BY <2>1, <2>2
  <1>6. ASSUME NEW n \in MpPayments, n # m PROVE Sent(n) \subseteq Sent(n)'
    BY <1>3, <1>6 DEF Sent, Reached
  <1>7. mp' \in [MpPayments -> MpStatuses \cup {"absent"}]
    BY <1>1, <1>2
  <1> QED BY <1>3, <1>4, <1>5, <1>6, <1>7

(* Payments and deliveries keep what is known of them when nothing is       *)
(* recorded or posted and the provider goes on.                             *)
LEMMA QuietEffects ==
  ASSUME Inv, UNCHANGED <<events, posted>>,
         \A p \in Payments : payment'[p].processed = payment[p].processed,
         \A n \in MpPayments : Sent(n) \subseteq Sent(n)',
         \A n \in MpPayments : mp[n] \in {"approved", "refunded"}
                                 => mp'[n] \in {"approved", "refunded"}
  PROVE  Effects'
  <1>1. IsFiniteSet(events)
    BY DEF Inv, Effects
  <1>2. ASSUME NEW p \in Payments PROVE Backed(p)' /\ Counted(p)' /\ Marked(p)'
    <2>1. Backed(p)' /\ Marked(p)'
      BY DEF Inv, Effects, Backed, Marked
    <2>2. RecordedFor(p) \subseteq RecordedFor(p)' /\ RecordedFor(p)' \subseteq events
      BY DEF RecordedFor
    <2>3. /\ IsFiniteSet(RecordedFor(p)')
          /\ Cardinality(RecordedFor(p)) <= Cardinality(RecordedFor(p)')
          /\ Cardinality(RecordedFor(p)) \in Nat /\ Cardinality(RecordedFor(p)') \in Nat
      BY <1>1, <2>2, FS_Subset, FS_CardinalityType
    <2>4. posted[p] \in Nat /\ posted[p] <= Cardinality(RecordedFor(p))
      BY DEF Inv, TypeOK, Effects, Counted
    <2>5. posted'[p] <= Cardinality(RecordedFor(p)')
      BY <2>3, <2>4
    <2> QED BY <2>1, <2>5 DEF Counted
  <1> QED BY <1>1, <1>2 DEF Effects

-----------------------------------------------------------------------------
(* The rows of the deliveries.                                              *)

(* A process that is done handles nothing.                                  *)
LEMMA IdleRow ==
  /\ Idle \in Process
  /\ ~Handling(Idle) /\ ~Writing(Idle)
  /\ \A provider : Known(Idle, provider)
  /\ \A recorded : Checked(Idle, recorded)
  BY DEF Idle, Process, Steps, Handling, Writing, Known, Checked

(* The identifiers sent are identifiers.                                    *)
LEMMA SentTyped == ASSUME TypeOK, NEW m \in MpPayments PROVE Sent(m) \subseteq EventIds
  BY DEF TypeOK, Sent, Reached, EventIds, MpStatuses

(* The other deliveries keep what is known of them when one of them becomes *)
(* r, and records its event or nothing.                                     *)
LEMMA OneDelivery ==
  ASSUME Inv, NEW h \in Processes, NEW r,
         proc' = [proc EXCEPT ![h] = r], mp' = mp,
         Known(r, mp), Checked(r, events'),
         Handling(r) => r.event \in Sent(r.m),
         Writing(r) => \A g \in Processes \ {h} :
                          Writing(proc[g]) => proc[g].event # r.event,
         \/ events' = events
         \/ /\ events' = events \cup {proc[h].event}
            /\ \A g \in Processes \ {h} :
                  Writing(proc[g]) => proc[g].event # proc[h].event
  PROVE  Deliveries'
  <1>1. proc'[h] = r /\ \A g \in Processes \ {h} : proc'[g] = proc[g]
    BY DEF Inv, TypeOK
  <1>2. \A n : Sent(n)' = Sent(n)
    BY DEF Sent, Reached
  <1>3. \A g \in Processes : Known(proc'[g], mp')
    BY <1>1 DEF Inv, Deliveries
  <1>4. ASSUME NEW g \in Processes PROVE Checked(proc'[g], events')
    <2>1. CASE g = h
      BY <1>1, <2>1
    <2>2. CASE g # h
      <3>1. Checked(proc[g], events)
        BY DEF Inv, Deliveries
      <3>2. Writing(proc[g]) => proc[g].event \notin events'
        BY <2>2, <3>1 DEF Checked
      <3>3. Checked(proc[g], events')
        BY <3>1, <3>2 DEF Checked
      <3> QED BY <1>1, <2>2, <3>3
    <2> QED BY <2>1, <2>2
  <1>5. EventsApart'
    <2> SUFFICES ASSUME NEW f \in Processes, NEW g \in Processes, f # g,
                        Writing(proc'[f]), Writing(proc'[g])
                 PROVE  proc'[f].event # proc'[g].event
      BY DEF EventsApart, Writing
    <2>1. CASE f = h
      BY <1>1, <2>1
    <2>2. CASE g = h
      BY <1>1, <2>2
    <2>3. CASE f # h /\ g # h
      BY <1>1, <2>3 DEF Inv, Deliveries, EventsApart
    <2> QED BY <2>1, <2>2, <2>3
  <1>6. EventSent'
    <2> SUFFICES ASSUME NEW g \in Processes, Handling(proc'[g])
                 PROVE  proc'[g].event \in Sent(proc'[g].m)
      BY <1>2 DEF EventSent, Handling
    <2>1. CASE g = h
      BY <1>1, <2>1
    <2>2. CASE g # h
      BY <1>1, <2>2 DEF Inv, Deliveries, EventSent
    <2> QED BY <2>1, <2>2
  <1> QED BY <1>3, <1>4, <1>5, <1>6 DEF Deliveries

(* All of them do when the provider goes on and nothing is recorded.        *)
LEMMA NoDelivery ==
  ASSUME Inv, UNCHANGED <<proc, events>>,
         \A n \in MpPayments : Sent(n) \subseteq Sent(n)',
         \A n \in MpPayments : mp[n] \in {"approved", "refunded"}
                                 => mp'[n] \in {"approved", "refunded"},
         \A n \in MpPayments : mp[n] = "refunded" => mp'[n] = "refunded"
  PROVE  Deliveries'
  <1>1. \A h \in Processes : Known(proc'[h], mp')
    BY DEF Inv, Deliveries, Known
  <1>2. \A h \in Processes : Checked(proc'[h], events')
    BY DEF Inv, Deliveries
  <1>3. EventsApart'
    BY DEF Inv, Deliveries, EventsApart
  <1>4. EventSent'
    <2> SUFFICES ASSUME NEW g \in Processes, Handling(proc[g])
                 PROVE  proc[g].event \in Sent(proc[g].m)'
      BY DEF EventSent
    <2>1. proc[g].m \in MpPayments /\ proc[g].event \in Sent(proc[g].m)
      BY DEF Inv, Deliveries, Known, EventSent
    <2>2. PICK n \in MpPayments : n = proc[g].m
      BY <2>1
    <2>3. Sent(n)' = Sent(proc[g].m)'
      BY <2>2 DEF Sent, Reached
    <2> QED BY <2>1, <2>2, <2>3
  <1> QED BY <1>1, <1>2, <1>3, <1>4 DEF Deliveries

(* A step that leaves the provider alone, and neither records nor posts.    *)
LEMMA ProviderWaits ==
  ASSUME mp' = mp
  PROVE  \A n \in MpPayments : Sent(n)' = Sent(n)
  BY DEF Sent, Reached

LEMMA Quiet ==
  ASSUME Inv, UNCHANGED <<mp, events, posted>>,
         \A p \in Payments : payment'[p].processed = payment[p].processed
  PROVE  Effects' /\ (proc' = proc => Deliveries')
  <1>1. \A n \in MpPayments : Sent(n) \subseteq Sent(n)'
    BY ProviderWaits
  <1>2. Effects'
    BY <1>1, QuietEffects
  <1>3. proc' = proc => Deliveries'
    BY <1>1, NoDelivery
  <1> QED BY <1>2, <1>3

-----------------------------------------------------------------------------
(* Time, checkouts and the provider.                                        *)

(* The row of a payment stays one, whatever of it is set.                   *)
LEMMA PaymentRowSet ==
  ASSUME NEW row \in PaymentRow, NEW s \in PaymentStatuses, NEW c \in BOOLEAN
  PROVE  /\ [row EXCEPT !.status = s] \in PaymentRow
         /\ [row EXCEPT !.status = s].processed = row.processed
         /\ [row EXCEPT !.checkout = TRUE] \in PaymentRow
         /\ [row EXCEPT !.checkout = TRUE].processed = row.processed
         /\ [row EXCEPT !.status = s, !.processed = TRUE, !.credited = c] \in PaymentRow
         /\ [row EXCEPT !.status = s, !.processed = TRUE, !.credited = c].processed = TRUE
  BY DEF PaymentRow

(* A status set on one payment leaves what was processed.                   *)
LEMMA StatusSet ==
  ASSUME TypeOK, NEW p \in Payments, NEW s \in PaymentStatuses,
         \/ payment' = [payment EXCEPT ![p].status = s]
         \/ payment' = [payment EXCEPT ![p].checkout = TRUE]
  PROVE  /\ payment' \in [Payments -> PaymentRow]
         /\ \A q \in Payments : payment'[q].processed = payment[q].processed
  <1>1. payment \in [Payments -> PaymentRow] /\ payment[p] \in PaymentRow
    BY DEF TypeOK
  <1>2. \/ payment' = [payment EXCEPT ![p] = [payment[p] EXCEPT !.status = s]]
        \/ payment' = [payment EXCEPT ![p] = [payment[p] EXCEPT !.checkout = TRUE]]
    OBVIOUS
  <1>3. PICK row \in PaymentRow : /\ payment' = [payment EXCEPT ![p] = row]
                                  /\ row.processed = payment[p].processed
    <2>1. CASE payment' = [payment EXCEPT ![p] = [payment[p] EXCEPT !.status = s]]
      <3>1. /\ [payment[p] EXCEPT !.status = s] \in PaymentRow
            /\ [payment[p] EXCEPT !.status = s].processed = payment[p].processed
        BY <1>1, PaymentRowSet
      <3> QED BY <2>1, <3>1
    <2>2. CASE payment' = [payment EXCEPT ![p] = [payment[p] EXCEPT !.checkout = TRUE]]
      <3>1. /\ [payment[p] EXCEPT !.checkout = TRUE] \in PaymentRow
            /\ [payment[p] EXCEPT !.checkout = TRUE].processed = payment[p].processed
        BY <1>1, PaymentRowSet
      <3> QED BY <2>2, <3>1
    <2> QED BY <1>2, <2>1, <2>2
  <1> QED BY <1>1, <1>3

LEMMA TickStep == ASSUME Inv, Tick PROVE Inv'
  <1>1. now' \in Nat
    BY DEF Inv, TypeOK, Tick
  <1>2. TypeOK'
    BY <1>1 DEF Inv, TypeOK, Tick, money, access
  <1>3. Deliveries' /\ Effects'
    BY Quiet DEF Tick, money, access
  <1> QED BY <1>2, <1>3 DEF Inv

LEMMA CheckoutStep ==
  ASSUME Inv, NEW p \in Payments, CreatePayment(p) \/ StoreCheckout(p)
  PROVE  Inv'
  <1>1. "PENDING" \in PaymentStatuses
    BY DEF PaymentStatuses
  <1>2. /\ payment' \in [Payments -> PaymentRow]
        /\ \A q \in Payments : payment'[q].processed = payment[q].processed
    BY <1>1, StatusSet DEF Inv, CreatePayment, StoreCheckout
  <1>3. UNCHANGED <<mp, events, money, access, now, proc>>
    BY DEF CreatePayment, StoreCheckout
  <1>4. TypeOK'
    BY <1>2, <1>3 DEF Inv, TypeOK, money, access
  <1>5. Deliveries' /\ Effects'
    BY <1>2, <1>3, Quiet DEF money
  <1> QED BY <1>4, <1>5 DEF Inv

LEMMA ProviderStep ==
  ASSUME Inv, NEW m \in MpPayments, Attempt(m) \/ Decide(m)
  PROVE  Inv'
  <1>1. /\ mp' \in [MpPayments -> MpStatuses \cup {"absent"}]
        /\ \A n \in MpPayments : Sent(n) \subseteq Sent(n)'
        /\ \A n \in MpPayments : mp[n] \in {"approved", "refunded"}
                                   => mp'[n] \in {"approved", "refunded"}
        /\ \A n \in MpPayments : mp[n] = "refunded" => mp'[n] = "refunded"
    BY ProviderGoesOn
  <1>2. UNCHANGED <<payment, events, money, access, now, proc>>
    BY DEF Attempt, Decide
  <1>3. TypeOK'
    BY <1>1, <1>2 DEF Inv, TypeOK, money, access
  <1>4. Deliveries'
    BY <1>1, <1>2, NoDelivery
  <1>5. Effects'
    BY <1>1, <1>2, QuietEffects DEF money
  <1> QED BY <1>3, <1>4, <1>5 DEF Inv

-----------------------------------------------------------------------------
(* The wallet and the subscription.                                         *)

LEMMA LedgerSet ==
  ASSUME NEW row \in [purchases : Nat, credits : Nat, debits : Nat],
         NEW kind \in {"purchases", "credits", "debits"}, NEW n \in Nat
  PROVE  /\ [row EXCEPT ![kind] = n] \in [purchases : Nat, credits : Nat, debits : Nat]
         /\ row[kind] \in Nat
  OBVIOUS

LEMMA AdminCreditStep == ASSUME Inv, NEW u \in Users, AdminCredit(u) PROVE Inv'
  <1>1. TypeOK
    BY DEF Inv
  <1>2. wallet' \in [Users -> Nat]
    <2>1. wallet[u] + Adjust \in Nat
      BY <1>1, PaymentsAssumption DEF TypeOK
    <2> QED BY <1>1, <2>1 DEF TypeOK, AdminCredit
  <1>3. ledger' \in [Users -> [purchases : Nat, credits : Nat, debits : Nat]]
    <2>1. ledger[u] \in [purchases : Nat, credits : Nat, debits : Nat]
      BY <1>1 DEF TypeOK
    <2>2. PICK n \in Nat : n = ledger[u].credits + 1
      BY <2>1
    <2>3. [ledger[u] EXCEPT !.credits = n] \in [purchases : Nat, credits : Nat, debits : Nat]
      BY <2>1
    <2>4. ledger' = [ledger EXCEPT ![u] = [ledger[u] EXCEPT !.credits = n]]
      BY <2>2 DEF AdminCredit
    <2> QED BY <1>1, <2>3, <2>4 DEF TypeOK
  <1>4. UNCHANGED <<payment, mp, events, posted, inventory, access, now, proc>>
    BY DEF AdminCredit
  <1>5. TypeOK'
    BY <1>1, <1>2, <1>3, <1>4 DEF TypeOK, access
  <1>6. Deliveries' /\ Effects'
    BY <1>4, Quiet
  <1> QED BY <1>5, <1>6 DEF Inv

(* The later of two ends is one of them.                                    *)
LEMMA MaxOfTwo ==
  ASSUME NEW a \in Nat, NEW b \in Nat
  PROVE  Max({a, b}) \in Nat /\ Max({a, b}) >= a /\ Max({a, b}) >= b
  <1>1. \E x \in {a, b} : \A y \in {a, b} : x >= y
    <2>1. CASE a >= b
      BY <2>1
    <2>2. CASE b >= a
      BY <2>2
    <2> QED BY <2>1, <2>2
  <1>2. Max({a, b}) \in {a, b} /\ \A y \in {a, b} : Max({a, b}) >= y
    BY <1>1 DEF Max
  <1> QED BY <1>2

LEMMA SetManualStep ==
  ASSUME Inv, NEW u \in Users, NEW status \in {"ACTIVE", "CANCELLED", "EXPIRED"},
         NEW end \in ManualEnds, SetManualSubscription(u, status, end)
  PROVE  Inv'
  <1>1. TypeOK /\ end \in Nat
    BY PaymentsAssumption DEF Inv
  <1>2. [status |-> status, end |-> end] \in SubscriptionRow
    BY <1>1 DEF SubscriptionRow
  <1>3. subscription' \in [Users -> SubscriptionRow]
    BY <1>1, <1>2 DEF TypeOK, SetManualSubscription
  <1>4. manual' \in [Users -> Nat]
    <2>1. manual \in [Users -> Nat] /\ manual[u] \in Nat
      BY <1>1 DEF TypeOK
    <2>2. Max({manual[u], end}) \in Nat
      BY <1>1, <2>1, MaxOfTwo
    <2>3. manual' = [manual EXCEPT ![u] = Max({manual[u], end})]
      BY DEF SetManualSubscription
    <2> QED BY <2>1, <2>2, <2>3
  <1>5. UNCHANGED <<payment, mp, events, money, now, proc>>
    BY DEF SetManualSubscription
  <1>6. TypeOK'
    BY <1>1, <1>3, <1>4, <1>5 DEF TypeOK, money
  <1>7. Deliveries' /\ Effects'
    BY <1>5, Quiet DEF money
  <1> QED BY <1>6, <1>7 DEF Inv

LEMMA CancelManualStep ==
  ASSUME Inv, NEW u \in Users, CancelManualSubscription(u)
  PROVE  Inv'
  <1>1. TypeOK
    BY DEF Inv
  <1>2. [status |-> "CANCELLED", end |-> now] \in SubscriptionRow
    BY <1>1 DEF SubscriptionRow, TypeOK
  <1>3. subscription' \in [Users -> SubscriptionRow]
    BY <1>1, <1>2 DEF TypeOK, CancelManualSubscription
  <1>4. UNCHANGED <<payment, mp, events, money, manual, now, proc>>
    BY DEF CancelManualSubscription
  <1>5. TypeOK'
    BY <1>1, <1>3, <1>4 DEF TypeOK, money
  <1>6. Deliveries' /\ Effects'
    BY <1>4, Quiet DEF money
  <1> QED BY <1>5, <1>6 DEF Inv

-----------------------------------------------------------------------------
(* A process that begins, goes on or is done, without a record or a post.   *)
LEMMA ProcessStep ==
  ASSUME Inv, NEW h \in Processes, NEW r \in Process,
         proc' = [proc EXCEPT ![h] = r],
         UNCHANGED <<payment, mp, events, posted>>,
         Known(r, mp), Checked(r, events), Handling(r) => r.event \in Sent(r.m),
         Writing(r) => \A g \in Processes \ {h} :
                          Writing(proc[g]) => proc[g].event # r.event
  PROVE  /\ proc' \in [Processes -> Process]
         /\ Deliveries' /\ Effects'
  <1>1. proc' \in [Processes -> Process]
    BY DEF Inv, TypeOK
  <1>2. Deliveries'
    BY OneDelivery
  <1>3. Effects'
    BY Quiet
  <1> QED BY <1>1, <1>2, <1>3

(* One that is done.                                                        *)
LEMMA DoneStep ==
  ASSUME Inv, NEW h \in Processes, Done(h), UNCHANGED <<payment, mp, events, posted>>
  PROVE  /\ proc' \in [Processes -> Process]
         /\ Deliveries' /\ Effects'
  BY IdleRow, ProcessStep DEF Done

LEMMA GiveUpStep ==
  ASSUME Inv, NEW h \in Processes, DuplicateEvent(h) \/ Fail(h)
  PROVE  Inv'
  <1>1. Done(h) /\ UNCHANGED <<payment, mp, events, money, access, now>>
    BY DEF DuplicateEvent, Fail, RolledBack
  <1>2. proc' \in [Processes -> Process] /\ Deliveries' /\ Effects'
    BY <1>1, DoneStep DEF money
  <1>3. TypeOK'
    BY <1>1, <1>2 DEF Inv, TypeOK, money, access
  <1> QED BY <1>2, <1>3 DEF Inv

LEMMA CancelWriteStep == ASSUME Inv, NEW h \in Processes, CancelWrite(h) PROVE Inv'
  <1>1. TypeOK /\ proc[h].user \in Users
    BY DEF Inv, Deliveries, Known, CancelWrite, At
  <1>2. subscription' \in [Users -> SubscriptionRow]
    <2>1. PICK u \in Users : u = proc[h].user
      BY <1>1
    <2>2. subscription[u] \in SubscriptionRow
      BY <1>1 DEF TypeOK
    <2>3. [subscription[u] EXCEPT !.status = "CANCELLED"] \in SubscriptionRow
      BY <2>2 DEF SubscriptionRow
    <2>4. subscription' = [subscription EXCEPT ![u] = [subscription[u] EXCEPT !.status = "CANCELLED"]]
      BY <2>1 DEF CancelWrite
    <2> QED BY <1>1, <2>3, <2>4 DEF TypeOK
  <1>3. Done(h) /\ UNCHANGED <<payment, mp, events, money, manual, now>>
    BY DEF CancelWrite
  <1>4. proc' \in [Processes -> Process] /\ Deliveries' /\ Effects'
    BY <1>3, DoneStep DEF money
  <1>5. TypeOK'
    BY <1>1, <1>2, <1>3, <1>4 DEF TypeOK, money
  <1> QED BY <1>4, <1>5 DEF Inv

LEMMA CommitDebitStep == ASSUME Inv, NEW h \in Processes, CommitDebit(h) PROVE Inv'
  <1>1. TypeOK
    BY DEF Inv
  <1>2. PICK u \in Users, kind \in {"purchases", "debits"} :
          u = proc[h].user /\ kind = proc[h].kind
    BY DEF Inv, Deliveries, Known, CommitDebit, At
  <1>3. wallet' \in [Users -> Nat]
    <2>1. PICK amount \in Nat : amount = DebitAmount(kind)
      BY PaymentsAssumption DEF DebitAmount
    <2>2. wallet \in [Users -> Nat] /\ wallet[u] \in Nat
      BY <1>1 DEF TypeOK
    <2>3. wallet[u] >= amount /\ wallet' = [wallet EXCEPT ![u] = wallet[u] - amount]
      BY <1>2, <2>1 DEF CommitDebit, Covers
    <2>4. wallet[u] - amount \in Nat
      BY <2>2, <2>3
    <2> QED BY <2>2, <2>3, <2>4
  <1>4. ledger' \in [Users -> [purchases : Nat, credits : Nat, debits : Nat]]
    <2>1. ledger[u] \in [purchases : Nat, credits : Nat, debits : Nat]
      BY <1>1 DEF TypeOK
    <2>2. ledger[u][kind] \in Nat
      BY <2>1, LedgerSet
    <2>3. PICK n \in Nat : n = ledger[u][kind] + 1
      BY <2>2
    <2>4. [ledger[u] EXCEPT ![kind] = n] \in [purchases : Nat, credits : Nat, debits : Nat]
      BY <2>1, LedgerSet
    <2>5. ledger' = [ledger EXCEPT ![u] = [ledger[u] EXCEPT ![kind] = n]]
      BY <1>2, <2>3 DEF CommitDebit
    <2> QED BY <1>1, <2>4, <2>5 DEF TypeOK
  <1>5. inventory' \in [Users -> Nat]
    <2>1. PICK n \in Nat : n = IF kind = "purchases" THEN Quantity ELSE 0
      BY PaymentsAssumption
    <2>2. inventory \in [Users -> Nat] /\ inventory[u] + n \in Nat
      BY <1>1 DEF TypeOK
    <2>3. inventory' = [inventory EXCEPT ![u] = inventory[u] + n]
      BY <1>2, <2>1 DEF CommitDebit
    <2> QED BY <2>2, <2>3
  <1>6. Done(h) /\ UNCHANGED <<payment, mp, events, posted, access, now>>
    BY DEF CommitDebit
  <1>7. proc' \in [Processes -> Process] /\ Deliveries' /\ Effects'
    BY <1>6, DoneStep
  <1>8. TypeOK'
    BY <1>1, <1>3, <1>4, <1>5, <1>6, <1>7 DEF TypeOK, access
  <1> QED BY <1>7, <1>8 DEF Inv

LEMMA ReadWalletStep ==
  ASSUME Inv, NEW h \in Processes, NEW u \in Users, NEW kind \in {"purchases", "debits"},
         ReadWallet(h, u, kind)
  PROVE  Inv'
  <1>1. PICK r : r = [Idle EXCEPT !.at = "debit", !.user = u, !.kind = kind]
    OBVIOUS
  <1>2. r \in Process /\ r.at = "debit" /\ r.user = u /\ r.kind = kind
    <2>1. Idle \in Process /\ "debit" \in Steps
      BY IdleRow DEF Steps
    <2> QED BY <1>1, <2>1 DEF Process
  <1>3. Known(r, mp) /\ ~Handling(r) /\ ~Writing(r)
    BY <1>2 DEF Known, Handling, Writing
  <1>4. Checked(r, events)
    BY <1>3 DEF Checked
  <1>5. /\ proc' = [proc EXCEPT ![h] = r]
        /\ UNCHANGED <<payment, mp, events, money, access, now>>
    BY <1>1 DEF ReadWallet, Begin
  <1>6. proc' \in [Processes -> Process] /\ Deliveries' /\ Effects'
    BY <1>2, <1>3, <1>4, <1>5, ProcessStep DEF money
  <1>7. TypeOK'
    BY <1>5, <1>6 DEF Inv, TypeOK, money, access
  <1> QED BY <1>6, <1>7 DEF Inv

LEMMA CancelReadStep ==
  ASSUME Inv, NEW h \in Processes, NEW u \in Users, CancelRead(h, u)
  PROVE  Inv'
  <1>1. PICK r : r = [Idle EXCEPT !.at = "cancel", !.user = u]
    OBVIOUS
  <1>2. r \in Process /\ r.at = "cancel" /\ r.user = u
    <2>1. Idle \in Process /\ "cancel" \in Steps
      BY IdleRow DEF Steps
    <2> QED BY <1>1, <2>1 DEF Process
  <1>3. Known(r, mp) /\ ~Handling(r) /\ ~Writing(r)
    BY <1>2 DEF Known, Handling, Writing
  <1>4. Checked(r, events)
    BY <1>3 DEF Checked
  <1>5. /\ proc' = [proc EXCEPT ![h] = r]
        /\ UNCHANGED <<payment, mp, events, money, access, now>>
    BY <1>1 DEF CancelRead, Begin
  <1>6. proc' \in [Processes -> Process] /\ Deliveries' /\ Effects'
    BY <1>2, <1>3, <1>4, <1>5, ProcessStep DEF money
  <1>7. TypeOK'
    BY <1>5, <1>6 DEF Inv, TypeOK, money, access
  <1> QED BY <1>6, <1>7 DEF Inv

LEMMA FetchStep ==
  ASSUME Inv, NEW h \in Processes, NEW m \in MpPayments, NEW id \in EventIds,
         Fetch(h, m, id)
  PROVE  Inv'
  <1>1. mp[m] \in MpStatuses /\ id \in Sent(m)
    BY DEF Inv, TypeOK, Fetch, Sent
  <1>2. PICK s \in MpStatuses : s = mp[m]
    BY <1>1
  <1>3. PICK r : r = [Idle EXCEPT !.at = "fetched", !.m = m, !.event = id, !.status = s]
    OBVIOUS
  <1>4. /\ r \in Process
        /\ r.at = "fetched" /\ r.m = m /\ r.event = id /\ r.status = mp[m]
    <2>1. Idle \in Process /\ "fetched" \in Steps
      BY IdleRow DEF Steps
    <2>2. /\ r \in Process
          /\ r.at = "fetched" /\ r.m = m /\ r.event = id /\ r.status = s
      BY <1>3, <2>1 DEF Process
    <2> QED BY <1>2, <2>2
  <1>5. Known(r, mp) /\ ~Writing(r)
    BY <1>1, <1>4 DEF Known, Handling, Writing
  <1>6. Checked(r, events)
    BY <1>5 DEF Checked
  <1>7. /\ proc' = [proc EXCEPT ![h] = r]
        /\ UNCHANGED <<payment, mp, events, money, access, now>>
    BY <1>2, <1>3 DEF Fetch, Begin
  <1>8. proc' \in [Processes -> Process] /\ Deliveries' /\ Effects'
    BY <1>1, <1>4, <1>5, <1>6, <1>7, ProcessStep DEF money
  <1>9. TypeOK'
    BY <1>7, <1>8 DEF Inv, TypeOK, money, access
  <1> QED BY <1>8, <1>9 DEF Inv

-----------------------------------------------------------------------------
(* The transaction of a delivery.                                           *)

(* A delivery that reads on in its transaction.                             *)
LEMMA TransactionStep ==
  ASSUME Inv, NEW h \in Processes, NEW r \in Process,
         proc' = [proc EXCEPT ![h] = r],
         UNCHANGED <<payment, mp, events, money, access, now>>,
         Handling(proc[h]), Writing(r),
         r.m = proc[h].m, r.event = proc[h].event, r.status = proc[h].status,
         r.event \notin events, Reference[r.m] \in Payments,
         r.status = "approved" => Amount[r.m] = Price[Reference[r.m]],
         \A g \in Processes \ {h} : Writing(proc[g]) => proc[g].event # proc[h].event
  PROVE  Inv'
  <1>1. Known(proc[h], mp) /\ proc[h].event \in Sent(proc[h].m)
    BY DEF Inv, Deliveries, EventSent
  <1>2. Known(r, mp) /\ r.event \in Sent(r.m)
    BY <1>1 DEF Known, Writing, Handling
  <1>3. Checked(r, events)
    BY DEF Checked
  <1>4. proc' \in [Processes -> Process] /\ Deliveries' /\ Effects'
    BY <1>2, <1>3, ProcessStep DEF money
  <1>5. TypeOK'
    BY <1>4 DEF Inv, TypeOK, money, access
  <1> QED BY <1>4, <1>5 DEF Inv

LEMMA ReadPaymentStep == ASSUME Inv, NEW h \in Processes, ReadPayment(h) PROVE Inv'
  <1>1. proc[h] \in Process /\ Handling(proc[h]) /\ Known(proc[h], mp)
    BY DEF Inv, TypeOK, Deliveries, ReadPayment, At, Handling
  <1>2. PICK at \in {"readSubscription", "commit"} :
          proc' = [proc EXCEPT ![h] = [proc[h] EXCEPT !.at = at]]
    BY DEF ReadPayment
  <1>3. PICK r : r = [proc[h] EXCEPT !.at = at]
    OBVIOUS
  <1>4. /\ r \in Process /\ r.at = at
        /\ r.m = proc[h].m /\ r.event = proc[h].event /\ r.status = proc[h].status
    <2>1. at \in Steps
      BY DEF Steps
    <2> QED BY <1>1, <1>3, <2>1 DEF Process
  <1>5. r.event \notin events
    BY <1>4 DEF ReadPayment, EventIsNew
  <1>6. /\ Reference[r.m] \in Payments
        /\ r.status = "approved" => Amount[r.m] = Price[Reference[r.m]]
    <2>1. ~NothingToDo(h) /\ r.m \in MpPayments
      BY <1>1, <1>4 DEF ReadPayment, Known
    <2>2. Reference[r.m] \in Payments \cup {None}
      BY <2>1, PaymentsAssumption
    <2> QED BY <1>4, <2>1, <2>2 DEF NothingToDo, Ours, Validated
  <1>7. \A g \in Processes \ {h} : Writing(proc[g]) => proc[g].event # proc[h].event
    BY DEF ReadPayment, Unlocked, Writing
  <1>8. Writing(r) /\ UNCHANGED <<payment, mp, events, money, access, now>>
    BY <1>4 DEF Writing, ReadPayment
  <1>9. proc' = [proc EXCEPT ![h] = r]
    BY <1>2, <1>3
  <1> QED BY <1>1, <1>4, <1>5, <1>6, <1>7, <1>8, <1>9, TransactionStep

(* What a delivery in its transaction knows.                                *)
LEMMA InTransaction ==
  ASSUME Inv, NEW h \in Processes, Writing(proc[h])
  PROVE  /\ proc[h] \in Process /\ Handling(proc[h])
         /\ proc[h].m \in MpPayments /\ proc[h].status \in MpStatuses
         /\ proc[h].status = "approved" => mp[proc[h].m] \in {"approved", "refunded"}
         /\ proc[h].event \in Sent(proc[h].m) /\ proc[h].event \notin events
         /\ Ours(h) \in Payments
         /\ proc[h].status = "approved" => Amount[proc[h].m] = Price[Ours(h)]
         /\ \A g \in Processes \ {h} : Writing(proc[g]) => proc[g].event # proc[h].event
  <1>1. Handling(proc[h])
    BY DEF Writing, Handling
  <1>2. proc[h] \in Process
    BY DEF Inv, TypeOK
  <1> QED BY <1>1, <1>2 DEF Inv, Deliveries, Known, Checked, EventsApart, EventSent, Ours

LEMMA ReadSubscriptionStep ==
  ASSUME Inv, NEW h \in Processes, ReadSubscription(h)
  PROVE  Inv'
  <1>1. Writing(proc[h])
    BY DEF ReadSubscription, At, Writing
  <1>2. PICK p \in Payments : p = Ours(h)
    BY <1>1, InTransaction
  <1>3. PICK end \in Nat : end = RenewedEnd(subscription[Owner[p]].end, p)
    <2>1. Months[p] \in Nat /\ now \in Nat /\ Owner[p] \in Users
      BY PaymentsAssumption DEF Inv, TypeOK
    <2>2. subscription[Owner[p]].end \in Nat
      BY <2>1 DEF Inv, TypeOK, SubscriptionRow
    <2> QED BY <2>1, <2>2 DEF RenewedEnd, Validity
  <1>4. PICK found \in BOOLEAN : found = (subscription[Owner[p]].status # "ABSENT")
    OBVIOUS
  <1>5. PICK r : r = [proc[h] EXCEPT !.at = "commit", !.found = found, !.end = end]
    OBVIOUS
  <1>6. proc' = [proc EXCEPT ![h] = r]
    <2>1. proc' = [proc EXCEPT ![h] = [proc[h] EXCEPT !.at = "commit",
                     !.found = subscription[Owner[Ours(h)]].status # "ABSENT",
                     !.end = RenewedEnd(subscription[Owner[Ours(h)]].end, Ours(h))]]
      BY DEF ReadSubscription
    <2> QED BY <1>2, <1>3, <1>4, <1>5, <2>1
  <1>7. /\ r \in Process /\ r.at = "commit"
        /\ r.m = proc[h].m /\ r.event = proc[h].event /\ r.status = proc[h].status
    <2>1. "commit" \in Steps /\ proc[h] \in Process
      BY <1>1, InTransaction DEF Steps
    <2> QED BY <1>5, <2>1 DEF Process
  <1>8. Writing(r) /\ UNCHANGED <<payment, mp, events, money, access, now>>
    BY <1>7 DEF Writing, ReadSubscription
  <1>9. /\ r.event \notin events /\ Reference[r.m] \in Payments
        /\ r.status = "approved" => Amount[r.m] = Price[Reference[r.m]]
    BY <1>1, <1>7, InTransaction DEF Ours
  <1> QED BY <1>1, <1>6, <1>7, <1>8, <1>9, InTransaction, TransactionStep

-----------------------------------------------------------------------------
(* The commits.                                                             *)

(* What is recorded for a payment grows with the events, by the new one     *)
(* when it is of that payment.                                              *)
LEMMA RecordedGrows ==
  ASSUME IsFiniteSet(events), mp' = mp, NEW e, events' = events \cup {e},
         NEW p \in Payments
  PROVE  /\ IsFiniteSet(events')
         /\ Cardinality(RecordedFor(p)) \in Nat /\ Cardinality(RecordedFor(p)') \in Nat
         /\ Cardinality(RecordedFor(p)) <= Cardinality(RecordedFor(p)')
         /\ e \notin events /\ (\E m \in MpPayments : Reference[m] = p /\ e \in Sent(m))
            => Cardinality(RecordedFor(p)') = Cardinality(RecordedFor(p)) + 1
  <1>1. IsFiniteSet(events')
    BY FS_AddElement
  <1>2. RecordedFor(p) \subseteq events /\ RecordedFor(p)' \subseteq events'
    BY DEF RecordedFor
  <1>3. RecordedFor(p) \subseteq RecordedFor(p)'
    BY ProviderWaits DEF RecordedFor
  <1>4. IsFiniteSet(RecordedFor(p)) /\ IsFiniteSet(RecordedFor(p)')
    BY <1>1, <1>2, FS_Subset
  <1>5. ASSUME e \notin events, \E m \in MpPayments : Reference[m] = p /\ e \in Sent(m)
        PROVE  Cardinality(RecordedFor(p)') = Cardinality(RecordedFor(p)) + 1
    <2>1. RecordedFor(p)' = RecordedFor(p) \cup {e}
      BY <1>5, ProviderWaits DEF RecordedFor
    <2>2. e \notin RecordedFor(p)
      BY <1>2, <1>5
    <2> QED BY <1>4, <2>1, <2>2, FS_AddElement
  <1> QED BY <1>1, <1>3, <1>4, <1>5, FS_Subset, FS_CardinalityType

(* A delivery that records its event and posts nothing.                     *)
LEMMA RecordedStep ==
  ASSUME Inv, NEW h \in Processes, Done(h), UNCHANGED <<mp, posted>>,
         Handling(proc[h]), events' = events \cup {proc[h].event},
         \A g \in Processes \ {h} : Writing(proc[g]) => proc[g].event # proc[h].event,
         \A p \in Payments : payment'[p].processed = payment[p].processed
  PROVE  /\ proc' \in [Processes -> Process] /\ events' \subseteq EventIds
         /\ Deliveries' /\ Effects'
  <1>1. proc' = [proc EXCEPT ![h] = Idle]
    BY DEF Done
  <1>2. proc' \in [Processes -> Process]
    BY <1>1, IdleRow DEF Inv, TypeOK
  <1>3. events' \subseteq EventIds
    <2>1. proc[h].m \in MpPayments /\ proc[h].event \in Sent(proc[h].m)
      BY DEF Inv, Deliveries, Known, EventSent
    <2>2. Sent(proc[h].m) \subseteq EventIds
      BY <2>1, SentTyped DEF Inv
    <2> QED BY <2>1, <2>2 DEF Inv, TypeOK
  <1>4. Deliveries'
    BY <1>1, IdleRow, OneDelivery
  <1>5. Effects'
    <2>1. IsFiniteSet(events)
      BY DEF Inv, Effects
    <2>2. ASSUME NEW p \in Payments PROVE Backed(p)' /\ Counted(p)' /\ Marked(p)'
      <3>1. Backed(p)' /\ Marked(p)'
        BY DEF Inv, Effects, Backed, Marked
      <3>2. posted[p] \in Nat /\ posted[p] <= Cardinality(RecordedFor(p))
        BY DEF Inv, TypeOK, Effects, Counted
      <3>3. posted'[p] <= Cardinality(RecordedFor(p)')
        BY <2>1, <3>2, RecordedGrows
      <3> QED BY <3>1, <3>3 DEF Counted
    <2>3. IsFiniteSet(events')
      BY <2>1, FS_AddElement
    <2> QED BY <2>2, <2>3 DEF Effects
  <1> QED BY <1>2, <1>3, <1>4, <1>5

LEMMA RecordEventStep == ASSUME Inv, NEW h \in Processes, RecordEvent(h) PROVE Inv'
  <1>1. /\ Done(h) /\ UNCHANGED <<payment, mp, money, access, now>>
        /\ events' = events \cup {proc[h].event}
    BY DEF RecordEvent
  <1>2. Handling(proc[h])
    BY DEF RecordEvent, At, Handling
  <1>3. \A g \in Processes \ {h} : Writing(proc[g]) => proc[g].event # proc[h].event
    BY DEF RecordEvent, Unlocked, Writing
  <1>4. /\ proc' \in [Processes -> Process] /\ events' \subseteq EventIds
        /\ Deliveries' /\ Effects'
    BY <1>1, <1>2, <1>3, RecordedStep DEF money
  <1>5. TypeOK'
    BY <1>1, <1>4 DEF Inv, TypeOK, money, access
  <1> QED BY <1>4, <1>5 DEF Inv

LEMMA CommitStatusStep == ASSUME Inv, NEW h \in Processes, CommitStatus(h) PROVE Inv'
  <1>1. /\ Done(h) /\ UNCHANGED <<mp, money, access, now>>
        /\ events' = events \cup {proc[h].event}
    BY DEF CommitStatus
  <1>2. Writing(proc[h])
    BY DEF CommitStatus, At, Writing
  <1>3. PICK p \in Payments : p = Ours(h)
    BY <1>2, InTransaction
  <1>4. PICK s \in PaymentStatuses : s = MapMpStatus(proc[h].status)
    BY DEF MapMpStatus, PaymentStatuses
  <1>5. payment' = [payment EXCEPT ![p].status = s]
    BY <1>3, <1>4 DEF CommitStatus
  <1>6. /\ payment' \in [Payments -> PaymentRow]
        /\ \A q \in Payments : payment'[q].processed = payment[q].processed
    BY <1>5, StatusSet DEF Inv
  <1>7. /\ proc' \in [Processes -> Process] /\ events' \subseteq EventIds
        /\ Deliveries' /\ Effects'
    BY <1>1, <1>2, <1>6, InTransaction, RecordedStep DEF money
  <1>8. TypeOK'
    BY <1>1, <1>6, <1>7 DEF Inv, TypeOK, money, access
  <1> QED BY <1>7, <1>8 DEF Inv

(* A delivery that marks its payment, posts its effect and records it.      *)
LEMMA PostedStep ==
  ASSUME Inv, NEW h \in Processes, Done(h), UNCHANGED mp,
         Writing(proc[h]), proc[h].status = "approved",
         events' = events \cup {proc[h].event},
         posted' = [posted EXCEPT ![Ours(h)] = @ + 1], MarkProcessed(Ours(h))
  PROVE  /\ proc' \in [Processes -> Process] /\ events' \subseteq EventIds
         /\ posted' \in [Payments -> Nat] /\ payment' \in [Payments -> PaymentRow]
         /\ Deliveries' /\ Effects'
  <1>1. proc' = [proc EXCEPT ![h] = Idle]
    BY DEF Done
  <1>2. proc' \in [Processes -> Process]
    BY <1>1, IdleRow DEF Inv, TypeOK
  <1>3. PICK p \in Payments : p = Ours(h)
    BY InTransaction
  <1>4. PICK m \in MpPayments : m = proc[h].m
    BY InTransaction
  <1>5. /\ Reference[m] = p /\ Amount[m] = Price[p]
        /\ mp[m] \in {"approved", "refunded"}
        /\ proc[h].event \in Sent(m) /\ proc[h].event \notin events
    BY <1>3, <1>4, InTransaction DEF Ours
  <1>6. events' \subseteq EventIds
    BY <1>5, SentTyped DEF Inv, TypeOK
  <1>7. posted \in [Payments -> Nat] /\ posted' = [posted EXCEPT ![p] = posted[p] + 1]
    BY <1>3 DEF Inv, TypeOK
  <1>8. /\ posted' \in [Payments -> Nat]
        /\ posted'[p] = posted[p] + 1
        /\ \A q \in Payments : q # p => posted'[q] = posted[q]
    BY <1>7
  <1>9. /\ payment' \in [Payments -> PaymentRow] /\ payment'[p].processed = TRUE
        /\ \A q \in Payments : q # p => payment'[q] = payment[q]
    <2>1. payment \in [Payments -> PaymentRow] /\ payment[p] \in PaymentRow
      BY DEF Inv, TypeOK
    <2>2. PICK c \in BOOLEAN : c = (Months[p] = 0)
      OBVIOUS
    <2>3. PICK row : row = [payment[p] EXCEPT !.status = "APPROVED", !.processed = TRUE,
                                              !.credited = c]
      OBVIOUS
    <2>4. row \in PaymentRow /\ row.processed = TRUE
      BY <2>1, <2>3 DEF PaymentRow, PaymentStatuses
    <2>5. payment' = [payment EXCEPT ![p] = row]
      BY <1>3, <2>2, <2>3 DEF MarkProcessed
    <2> QED BY <2>1, <2>4, <2>5
  <1>10. Deliveries'
    BY <1>1, IdleRow, InTransaction, OneDelivery
  <1>11. Effects'
    <2>1. IsFiniteSet(events)
      BY DEF Inv, Effects
    <2>2. ASSUME NEW q \in Payments, q # p PROVE Backed(q)' /\ Counted(q)' /\ Marked(q)'
      <3>1. Backed(q)' /\ Marked(q)'
        BY <1>8, <1>9, <2>2 DEF Inv, Effects, Backed, Marked
      <3>2. posted[q] \in Nat /\ posted[q] <= Cardinality(RecordedFor(q))
        BY DEF Inv, TypeOK, Effects, Counted
      <3>3. posted'[q] <= Cardinality(RecordedFor(q)')
        <4>1. /\ Cardinality(RecordedFor(q)) <= Cardinality(RecordedFor(q)')
              /\ Cardinality(RecordedFor(q)) \in Nat /\ Cardinality(RecordedFor(q)') \in Nat
          BY <2>1, RecordedGrows
        <4>2. posted'[q] = posted[q]
          BY <1>8, <2>2
        <4> QED BY <3>2, <4>1, <4>2
      <3> QED BY <3>1, <3>3 DEF Counted
    <2>3. Backed(p)' /\ Marked(p)'
      <3>1. posted'[p] > 0
        BY <1>7, <1>8
      <3> QED BY <1>5, <1>9, <3>1 DEF Backed, Marked
    <2>4. Counted(p)'
      <3>1. posted[p] \in Nat /\ posted[p] <= Cardinality(RecordedFor(p))
        BY DEF Inv, TypeOK, Effects, Counted
      <3>2. /\ Cardinality(RecordedFor(p)') = Cardinality(RecordedFor(p)) + 1
            /\ Cardinality(RecordedFor(p)) \in Nat
        BY <1>5, <2>1, RecordedGrows
      <3>3. posted'[p] <= Cardinality(RecordedFor(p)')
        BY <1>8, <3>1, <3>2
      <3> QED BY <3>3 DEF Counted
    <2>5. IsFiniteSet(events')
      BY <2>1, FS_AddElement
    <2> QED BY <2>2, <2>3, <2>4, <2>5 DEF Effects
  <1> QED BY <1>2, <1>6, <1>8, <1>9, <1>10, <1>11

LEMMA CommitCreditStep == ASSUME Inv, NEW h \in Processes, CommitCredit(h) PROVE Inv'
  <1>1. /\ Done(h) /\ UNCHANGED <<mp, ledger, inventory, access, now>>
        /\ events' = events \cup {proc[h].event} /\ MarkProcessed(Ours(h))
        /\ posted' = [posted EXCEPT ![Ours(h)] = @ + 1]
    BY DEF CommitCredit
  <1>2. Writing(proc[h]) /\ proc[h].status = "approved"
    BY DEF CommitCredit, At, Writing, Approved
  <1>3. /\ proc' \in [Processes -> Process] /\ events' \subseteq EventIds
        /\ posted' \in [Payments -> Nat] /\ payment' \in [Payments -> PaymentRow]
        /\ Deliveries' /\ Effects'
    BY <1>1, <1>2, PostedStep
  <1>4. wallet' \in [Users -> Nat]
    <2>1. PICK p \in Payments : p = Ours(h)
      BY <1>2, InTransaction
    <2>2. PICK u \in Users : u = Owner[p]
      BY PaymentsAssumption
    <2>3. wallet \in [Users -> Nat] /\ wallet[u] + Coins[p] \in Nat
      BY PaymentsAssumption DEF Inv, TypeOK
    <2>4. wallet' = [wallet EXCEPT ![u] = wallet[u] + Coins[p]]
      BY <2>1, <2>2 DEF CommitCredit
    <2> QED BY <2>3, <2>4
  <1>5. TypeOK'
    BY <1>1, <1>3, <1>4 DEF Inv, TypeOK, access
  <1> QED BY <1>3, <1>5 DEF Inv

LEMMA CommitRenewalStep == ASSUME Inv, NEW h \in Processes, CommitRenewal(h) PROVE Inv'
  <1>1. /\ Done(h) /\ UNCHANGED <<mp, wallet, ledger, inventory, manual, now>>
        /\ events' = events \cup {proc[h].event} /\ MarkProcessed(Ours(h))
        /\ posted' = [posted EXCEPT ![Ours(h)] = @ + 1]
    BY DEF CommitRenewal
  <1>2. Writing(proc[h]) /\ proc[h].status = "approved"
    BY DEF CommitRenewal, At, Writing, Approved
  <1>3. /\ proc' \in [Processes -> Process] /\ events' \subseteq EventIds
        /\ posted' \in [Payments -> Nat] /\ payment' \in [Payments -> PaymentRow]
        /\ Deliveries' /\ Effects'
    BY <1>1, <1>2, PostedStep
  <1>4. subscription' \in [Users -> SubscriptionRow]
    <2>1. PICK end \in Nat : end = proc[h].end
      BY <1>2, InTransaction DEF Process
    <2>2. [status |-> "ACTIVE", end |-> end] \in SubscriptionRow
      BY DEF SubscriptionRow
    <2>3. subscription' = [subscription EXCEPT ![Owner[Ours(h)]] =
                             [status |-> "ACTIVE", end |-> end]]
      BY <2>1 DEF CommitRenewal
    <2> QED BY <2>2, <2>3 DEF Inv, TypeOK
  <1>5. TypeOK'
    BY <1>1, <1>3, <1>4 DEF Inv, TypeOK
  <1> QED BY <1>3, <1>5 DEF Inv

-----------------------------------------------------------------------------
(* Every step keeps the invariant.                                          *)
LEMMA DeliveryKeepsInv == ASSUME Inv, NEW h \in Processes, WebhookStep(h) PROVE Inv'
  <1>1. CASE \E m \in MpPayments, id \in EventIds : Fetch(h, m, id)
    BY <1>1, FetchStep
  <1>2. CASE DuplicateEvent(h) \/ Fail(h)
    BY <1>2, GiveUpStep
  <1>3. CASE RecordEvent(h)
    BY <1>3, RecordEventStep
  <1>4. CASE ReadPayment(h)
    BY <1>4, ReadPaymentStep
  <1>5. CASE ReadSubscription(h)
    BY <1>5, ReadSubscriptionStep
  <1>6. CASE CommitStatus(h)
    BY <1>6, CommitStatusStep
  <1>7. CASE CommitCredit(h)
    BY <1>7, CommitCreditStep
  <1>8. CASE CommitRenewal(h)
    BY <1>8, CommitRenewalStep
  <1> QED BY <1>1, <1>2, <1>3, <1>4, <1>5, <1>6, <1>7, <1>8 DEF WebhookStep

LEMMA StepKeepsInv == Inv /\ [Next]_vars => Inv'
  <1> SUFFICES ASSUME Inv, [Next]_vars PROVE Inv'
    OBVIOUS
  <1>1. CASE Tick
    BY <1>1, TickStep
  <1>2. CASE \E p \in Payments : CreatePayment(p) \/ StoreCheckout(p)
    BY <1>2, CheckoutStep
  <1>3. CASE \E m \in MpPayments : Attempt(m) \/ Decide(m)
    BY <1>3, ProviderStep
  <1>4. CASE \E h \in Processes : WebhookStep(h)
    BY <1>4, DeliveryKeepsInv
  <1>5. CASE \E h \in Processes : CommitDebit(h) \/ CancelWrite(h)
    BY <1>5, CommitDebitStep, CancelWriteStep
  <1>6. CASE \E h \in Processes, u \in Users :
               \/ CancelRead(h, u)
               \/ \E kind \in {"purchases", "debits"} : ReadWallet(h, u, kind)
    BY <1>6, CancelReadStep, ReadWalletStep
  <1>7. CASE \E u \in Users : AdminCredit(u) \/ CancelManualSubscription(u)
    BY <1>7, AdminCreditStep, CancelManualStep
  <1>8. CASE \E u \in Users : \E status \in {"ACTIVE", "CANCELLED", "EXPIRED"},
                end \in ManualEnds : SetManualSubscription(u, status, end)
    BY <1>8, SetManualStep
  <1>9. CASE UNCHANGED vars
    <2>1. UNCHANGED <<payment, mp, events, wallet, posted, ledger, inventory,
                      subscription, manual, now, proc>>
      BY <1>9 DEF vars
    <2>2. TypeOK'
      BY <2>1 DEF Inv, TypeOK
    <2>3. Deliveries' /\ Effects'
      BY <2>1, Quiet
    <2> QED BY <2>2, <2>3 DEF Inv
  <1> QED BY <1>1, <1>2, <1>3, <1>4, <1>5, <1>6, <1>7, <1>8, <1>9 DEF Next

-----------------------------------------------------------------------------
(* How often a payment takes effect: once for each delivery that was past   *)
(* the check of processedAt when the first one marked it.                   *)
Racing(p) == {h \in Processes : Writing(proc[h]) /\ proc[h].status = "approved"
                                /\ Reference[proc[h].m] = p}
Bounded == \A p \in Payments :
             posted[p] + Cardinality(Racing(p)) <= Cardinality(Processes)

(* Racing deliveries are processes.                                         *)
LEMMA RacingTyped ==
  ASSUME NEW p \in Payments
  PROVE  /\ Racing(p) \subseteq Processes /\ IsFiniteSet(Racing(p))
         /\ Cardinality(Racing(p)) \in Nat /\ Cardinality(Processes) \in Nat
         /\ Cardinality(Racing(p)) <= Cardinality(Processes)
  <1>1. Racing(p) \subseteq Processes /\ IsFiniteSet(Processes)
    BY PaymentsAssumption DEF Racing
  <1>2. IsFiniteSet(Racing(p)) /\ Cardinality(Racing(p)) <= Cardinality(Processes)
    BY <1>1, FS_Subset
  <1> QED BY <1>1, <1>2, FS_CardinalityType

LEMMA InitBounded == Init => Bounded
  <1> SUFFICES ASSUME Init, NEW p \in Payments
               PROVE  posted[p] + Cardinality(Racing(p)) <= Cardinality(Processes)
    BY DEF Bounded
  <1>1. posted[p] = 0
    BY DEF Init
  <1> QED BY <1>1, RacingTyped

(* What a step does to the processes: a delivery begins or reads on, or one *)
(* process no longer handles anything.                                      *)
Others(g) == \A f \in Processes \ {g} : proc'[f] = proc[f]
Leaves(g) == ~Handling(proc'[g]) /\ Others(g)
Starts(g) == \E m \in MpPayments, id \in EventIds : Fetch(g, m, id)

(* A delivery starts with the identifier and the status it fetched.         *)
LEMMA StartShape ==
  ASSUME Inv, NEW g \in Processes, NEW m \in MpPayments, NEW id \in EventIds,
         Fetch(g, m, id)
  PROVE  /\ proc'[g].at = "fetched" /\ proc'[g].m = m /\ proc'[g].event = id
         /\ proc'[g].status = mp[m] /\ id \in Sent(m) /\ Others(g)
  <1>1. PICK s : s = mp[m]
    OBVIOUS
  <1>2. PICK r : r = [Idle EXCEPT !.at = "fetched", !.m = m, !.event = id, !.status = s]
    OBVIOUS
  <1>3. r.at = "fetched" /\ r.m = m /\ r.event = id /\ r.status = s
    BY <1>2 DEF Idle
  <1>4. proc' = [proc EXCEPT ![g] = r] /\ id \in Sent(m)
    BY <1>1, <1>2 DEF Fetch, Begin
  <1>5. proc'[g] = r /\ Others(g)
    BY <1>4 DEF Inv, TypeOK, Others
  <1> QED BY <1>1, <1>3, <1>4, <1>5

LEMMA StepShape ==
  ASSUME Inv, [Next]_vars
  PROVE  \/ proc' = proc
         \/ \E g \in Processes :
               Starts(g) \/ ReadPayment(g) \/ ReadSubscription(g) \/ Leaves(g)
  <1>1. ASSUME NEW g \in Processes, NEW r, ~Handling(r), proc' = [proc EXCEPT ![g] = r]
        PROVE  Leaves(g)
    BY <1>1 DEF Inv, TypeOK, Leaves, Others
  <1>2. ASSUME NEW g \in Processes, Done(g) PROVE Leaves(g)
    BY <1>1, <1>2, IdleRow DEF Done
  <1>3. ASSUME NEW g \in Processes, WebhookStep(g)
        PROVE  Starts(g) \/ ReadPayment(g) \/ ReadSubscription(g) \/ Leaves(g)
    <2>1. CASE DuplicateEvent(g) \/ RecordEvent(g) \/ CommitStatus(g) \/ CommitCredit(g)
               \/ CommitRenewal(g) \/ Fail(g)
      <3>1. Done(g)
        BY <2>1 DEF DuplicateEvent, RecordEvent, CommitStatus, CommitCredit, CommitRenewal,
                    Fail
      <3> QED BY <1>2, <3>1
    <2> QED BY <1>3, <2>1 DEF WebhookStep, Starts
  <1>4. ASSUME NEW g \in Processes, CommitDebit(g) \/ CancelWrite(g) PROVE Leaves(g)
    BY <1>2, <1>4 DEF CommitDebit, CancelWrite
  <1>5. ASSUME NEW g \in Processes, NEW u \in Users, CancelRead(g, u) PROVE Leaves(g)
    <2>1. PICK r : r = [Idle EXCEPT !.at = "cancel", !.user = u]
      OBVIOUS
    <2>2. r.at = "cancel"
      BY <2>1 DEF Idle
    <2> QED BY <1>1, <1>5, <2>1, <2>2 DEF Handling, CancelRead, Begin
  <1>6. ASSUME NEW g \in Processes, NEW u \in Users, NEW kind, ReadWallet(g, u, kind)
        PROVE  Leaves(g)
    <2>1. PICK r : r = [Idle EXCEPT !.at = "debit", !.user = u, !.kind = kind]
      OBVIOUS
    <2>2. r.at = "debit"
      BY <2>1 DEF Idle
    <2> QED BY <1>1, <1>6, <2>1, <2>2 DEF Handling, ReadWallet, Begin
  <1>7. CASE Tick \/ (\E p \in Payments : CreatePayment(p) \/ StoreCheckout(p))
             \/ (\E m \in MpPayments : Attempt(m) \/ Decide(m))
    BY <1>7 DEF Tick, CreatePayment, StoreCheckout, Attempt, Decide
  <1>8. CASE \E u \in Users :
               \/ AdminCredit(u) \/ CancelManualSubscription(u)
               \/ \E status \in {"ACTIVE", "CANCELLED", "EXPIRED"}, end \in ManualEnds :
                     SetManualSubscription(u, status, end)
    BY <1>8 DEF AdminCredit, CancelManualSubscription, SetManualSubscription
  <1>9. CASE UNCHANGED vars
    BY <1>9 DEF vars
  <1> QED BY <1>3, <1>4, <1>5, <1>6, <1>7, <1>8, <1>9 DEF Next

(* A delivery goes on with what it handles once it started.                 *)
LEMMA StepHandles ==
  ASSUME Inv, [Next]_vars, NEW h \in Processes, Handling(proc'[h]), ~Starts(h)
  PROVE  /\ Handling(proc[h]) /\ proc'[h].status = proc[h].status
         /\ proc'[h].m = proc[h].m /\ proc'[h].event = proc[h].event
         /\ Writing(proc'[h]) => Writing(proc[h]) \/ ReadPayment(h)
  <1>1. CASE proc' = proc
    BY <1>1
  <1>2. ASSUME NEW g \in Processes, Starts(g) PROVE proc'[h] = proc[h]
    BY <1>2, StartShape DEF Starts, Others
  <1>3. ASSUME NEW g \in Processes, Leaves(g) PROVE proc'[h] = proc[h]
    BY <1>3 DEF Leaves, Others
  <1>4. ASSUME NEW g \in Processes, ReadPayment(g) \/ ReadSubscription(g), g # h
        PROVE  proc'[h] = proc[h]
    BY <1>4 DEF ReadPayment, ReadSubscription, Inv, TypeOK
  <1>5. proc[h] \in Process
    BY DEF Inv, TypeOK
  <1>6. ASSUME ReadPayment(h)
        PROVE  /\ Handling(proc[h]) /\ proc'[h].status = proc[h].status
               /\ proc'[h].m = proc[h].m /\ proc'[h].event = proc[h].event
    <2>1. Handling(proc[h])
      BY <1>6 DEF ReadPayment, At, Handling
    <2>2. PICK at : proc' = [proc EXCEPT ![h] = [proc[h] EXCEPT !.at = at]]
      BY <1>6 DEF ReadPayment
    <2>3. proc'[h] = [proc[h] EXCEPT !.at = at]
      BY <2>2 DEF Inv, TypeOK
    <2> QED BY <1>5, <2>1, <2>3 DEF Process
  <1>7. ASSUME ReadSubscription(h)
        PROVE  /\ Handling(proc[h]) /\ Writing(proc[h])
               /\ proc'[h].status = proc[h].status
               /\ proc'[h].m = proc[h].m /\ proc'[h].event = proc[h].event
    <2>1. Handling(proc[h]) /\ Writing(proc[h])
      BY <1>7 DEF ReadSubscription, At, Writing, Handling
    <2>2. PICK found, end :
            proc' = [proc EXCEPT ![h] = [proc[h] EXCEPT !.at = "commit", !.found = found,
                                                        !.end = end]]
      BY <1>7 DEF ReadSubscription
    <2>3. proc'[h] = [proc[h] EXCEPT !.at = "commit", !.found = found, !.end = end]
      BY <2>2 DEF Inv, TypeOK
    <2> QED BY <1>5, <2>1, <2>3 DEF Process
  <1> QED BY <1>1, <1>2, <1>3, <1>4, <1>6, <1>7, StepShape

(* Only ReadPayment puts a delivery in its transaction.                     *)
LEMMA StepRaces ==
  ASSUME Inv, [Next]_vars, NEW h \in Processes, Writing(proc'[h])
  PROVE  \/ ReadPayment(h)
         \/ /\ Writing(proc[h]) /\ proc'[h].status = proc[h].status
            /\ proc'[h].m = proc[h].m
  <1>1. Handling(proc'[h])
    BY DEF Writing, Handling
  <1>2. ~Starts(h)
    <2>1. Starts(h) => proc'[h].at = "fetched"
      BY StartShape DEF Starts
    <2> QED BY <2>1 DEF Writing
  <1> QED BY <1>1, <1>2, StepHandles

(* Only a delivery that leaves its transaction posts.                       *)
LEMMA StepPosts ==
  ASSUME Inv, [Next]_vars, NEW p \in Payments, posted'[p] # posted[p]
  PROVE  \E h \in Racing(p) : ~Writing(proc'[h]) /\ posted'[p] = posted[p] + 1
  <1>1. PICK h \in Processes : CommitCredit(h) \/ CommitRenewal(h)
    BY DEF Next, WebhookStep, Tick, CreatePayment, StoreCheckout, Attempt, Decide, Fetch,
           DuplicateEvent, RecordEvent, ReadPayment, ReadSubscription, CommitStatus, Fail,
           CommitDebit, CancelWrite, CancelRead, ReadWallet, AdminCredit,
           CancelManualSubscription, SetManualSubscription, money, vars
  <1>2. /\ Writing(proc[h]) /\ proc[h].status = "approved"
        /\ Done(h) /\ posted' = [posted EXCEPT ![Ours(h)] = @ + 1]
    BY <1>1 DEF CommitCredit, CommitRenewal, At, Writing, Approved
  <1>3. posted'[p] = posted[p] + 1 /\ Ours(h) = p
    BY <1>2 DEF Inv, TypeOK
  <1>4. ~Writing(proc'[h])
    BY <1>2, IdleRow DEF Done, Inv, TypeOK
  <1> QED BY <1>2, <1>3, <1>4 DEF Racing, Ours

LEMMA StepKeepsBounded == Inv /\ Bounded /\ [Next]_vars => Bounded'
  <1> SUFFICES ASSUME Inv, Bounded, [Next]_vars, NEW p \in Payments
               PROVE  posted'[p] + Cardinality(Racing(p)') <= Cardinality(Processes)
    BY DEF Bounded
  <1>1. /\ posted[p] \in Nat /\ IsFiniteSet(Racing(p))
        /\ Cardinality(Racing(p)) \in Nat /\ Cardinality(Processes) \in Nat
        /\ posted[p] + Cardinality(Racing(p)) <= Cardinality(Processes)
    BY RacingTyped DEF Inv, TypeOK, Bounded
  <1>2. /\ IsFiniteSet(Racing(p)') /\ Cardinality(Racing(p)') \in Nat
        /\ Cardinality(Racing(p)') <= Cardinality(Processes)
    <2>1. Racing(p)' \subseteq Processes /\ IsFiniteSet(Processes)
      BY PaymentsAssumption DEF Racing
    <2> QED BY <2>1, FS_Subset, FS_CardinalityType
  <1>3. CASE \E h \in Processes : ReadPayment(h)
    <2>1. PICK h \in Processes : ReadPayment(h)
      BY <1>3
    <2>2. posted' = posted
      BY <2>1 DEF ReadPayment, money
    <2>3. CASE Ours(h) = p
      <3>1. posted[p] = 0
        BY <1>1, <2>1, <2>3 DEF ReadPayment, NothingToDo, Processed, Inv, Effects, Marked
      <3> QED BY <1>2, <2>2, <3>1
    <2>4. CASE Ours(h) # p
      <3>1. Racing(p)' \subseteq Racing(p)
        <4> SUFFICES ASSUME NEW g \in Racing(p)' PROVE g \in Racing(p)
          OBVIOUS
        <4>1. /\ g \in Processes /\ Writing(proc'[g]) /\ proc'[g].status = "approved"
              /\ Reference[proc'[g].m] = p
          BY DEF Racing, Writing
        <4>2. proc[h] \in Process /\ proc'[h].m = proc[h].m
          BY <2>1 DEF ReadPayment, Inv, TypeOK, Process
        <4>3. g # h /\ proc'[g] = proc[g]
          BY <2>1, <2>4, <4>1, <4>2 DEF ReadPayment, Ours, Inv, TypeOK
        <4> QED BY <4>1, <4>3 DEF Racing
      <3>2. Cardinality(Racing(p)') <= Cardinality(Racing(p))
        BY <1>1, <3>1, FS_Subset
      <3> QED BY <1>1, <1>2, <2>2, <3>2
    <2> QED BY <2>3, <2>4
  <1>4. CASE ~\E h \in Processes : ReadPayment(h)
    <2>1. Racing(p)' \subseteq Racing(p)
      <3> SUFFICES ASSUME NEW g \in Racing(p)' PROVE g \in Racing(p)
        OBVIOUS
      <3>1. /\ g \in Processes /\ Writing(proc'[g]) /\ proc'[g].status = "approved"
            /\ Reference[proc'[g].m] = p
        BY DEF Racing, Writing
      <3>2. /\ Writing(proc[g]) /\ proc'[g].status = proc[g].status
            /\ proc'[g].m = proc[g].m
        BY <1>4, <3>1, StepRaces
      <3> QED BY <3>1, <3>2 DEF Racing
    <2>2. CASE posted'[p] = posted[p]
      <3>1. Cardinality(Racing(p)') <= Cardinality(Racing(p))
        BY <1>1, <2>1, FS_Subset
      <3> QED BY <1>1, <1>2, <2>2, <3>1
    <2>3. CASE posted'[p] # posted[p]
      <3>1. PICK h \in Racing(p) : ~Writing(proc'[h]) /\ posted'[p] = posted[p] + 1
        BY <2>3, StepPosts
      <3>2. Racing(p)' \subseteq Racing(p) \ {h}
        BY <2>1, <3>1 DEF Racing, Writing
      <3>3. /\ IsFiniteSet(Racing(p) \ {h})
            /\ Cardinality(Racing(p) \ {h}) = Cardinality(Racing(p)) - 1
        BY <1>1, <3>1, FS_RemoveElement
      <3>4. Cardinality(Racing(p)') <= Cardinality(Racing(p) \ {h})
        BY <3>2, <3>3, FS_Subset
      <3> QED BY <1>1, <1>2, <3>1, <3>3, <3>4
    <2> QED BY <2>2, <2>3
  <1> QED BY <1>3, <1>4

-----------------------------------------------------------------------------
(* Approvals. The notifications of one that is for the right amount have an *)
(* identifier of their own, not the one of the legacy form.                 *)
Paying(m) == Reference[m] # None /\ Amount[m] = Price[Reference[m]]
ApprovalIdsApart ==
    \A m \in MpPayments : Paying(m) => \A n \in MpPayments :
        /\ EventId[m]["approved"] # LegacyId[n]
        /\ \A s \in MpStatuses : EventId[n][s] = EventId[m]["approved"]
                                 => n = m /\ s = "approved"

(* A delivery of such a notification fetched the payment approved or        *)
(* refunded.                                                                *)
ApprovalFetched ==
    \A h \in Processes :
        /\ Handling(proc[h]) /\ Paying(proc[h].m)
        /\ proc[h].event = EventId[proc[h].m]["approved"]
        => proc[h].status \in {"approved", "refunded"}

Approvals == ApprovalFetched /\ ApprovalNotSwallowed

LEMMA ApprovalSent ==
  ASSUME ApprovalIdsApart, TypeOK, NEW m \in MpPayments, Paying(m), NEW n \in MpPayments,
         EventId[m]["approved"] \in Sent(n)
  PROVE  n = m /\ mp[m] \in {"approved", "refunded"}
  <1>1. /\ \A s \in MpStatuses : EventId[n][s] = EventId[m]["approved"]
                                => n = m /\ s = "approved"
        /\ EventId[m]["approved"] # LegacyId[n]
    BY DEF ApprovalIdsApart
  <1>2. mp[n] \in MpStatuses
    BY DEF TypeOK, Sent
  <1>3. PICK s \in Reached(n) : EventId[n][s] = EventId[m]["approved"]
    BY <1>1 DEF Sent
  <1>4. s \in MpStatuses
    BY <1>2 DEF Reached, MpStatuses
  <1>5. n = m /\ s = "approved"
    BY <1>1, <1>3, <1>4
  <1> QED BY <1>3, <1>5 DEF Reached

LEMMA InitApprovals == Init => Approvals
  BY IdleRow DEF Init, Approvals, ApprovalFetched, ApprovalNotSwallowed

(* An event is recorded by the delivery that handles it.                    *)
LEMMA StepRecords ==
  ASSUME [Next]_vars, NEW e, e \in events', e \notin events
  PROVE  \E h \in Processes : /\ proc[h].event = e /\ mp' = mp
                              /\ \/ RecordEvent(h) \/ CommitStatus(h)
                                 \/ CommitCredit(h) \/ CommitRenewal(h)
  <1>1. PICK h \in Processes : \/ RecordEvent(h) \/ CommitStatus(h)
                              \/ CommitCredit(h) \/ CommitRenewal(h)
    BY DEF Next, WebhookStep, Tick, CreatePayment, StoreCheckout, Attempt, Decide, Fetch,
           DuplicateEvent, ReadPayment, ReadSubscription, Fail, RolledBack,
           CommitDebit, CancelWrite, CancelRead, ReadWallet, AdminCredit,
           CancelManualSubscription, SetManualSubscription, vars
  <1>2. events' = events \cup {proc[h].event} /\ mp' = mp
    BY <1>1 DEF RecordEvent, CommitStatus, CommitCredit, CommitRenewal
  <1> QED BY <1>1, <1>2

(* The provider takes no refund back.                                       *)
LEMMA RefundsStay ==
  ASSUME Inv, [Next]_vars, NEW m \in MpPayments, mp[m] = "refunded"
  PROVE  mp'[m] = "refunded"
  <1>1. mp' = mp \/ \E n \in MpPayments : Attempt(n) \/ Decide(n)
    BY DEF Next, WebhookStep, Tick, CreatePayment, StoreCheckout, Fetch, RecordEvent,
           DuplicateEvent, ReadPayment, ReadSubscription, Fail, CommitStatus, CommitCredit,
           CommitRenewal, CommitDebit, CancelWrite, CancelRead, ReadWallet, AdminCredit,
           CancelManualSubscription, SetManualSubscription, vars
  <1> QED BY <1>1, ProviderGoesOn

LEMMA StepKeepsFetched ==
  ASSUME ApprovalIdsApart, Inv, ApprovalFetched, [Next]_vars
  PROVE  ApprovalFetched'
  <1> SUFFICES ASSUME NEW h \in Processes, Handling(proc'[h]), Paying(proc'[h].m),
                      proc'[h].event = EventId[proc'[h].m]["approved"]
               PROVE  proc'[h].status \in {"approved", "refunded"}
    BY DEF ApprovalFetched, Handling, Paying
  <1>1. CASE Starts(h)
    <2>1. PICK m \in MpPayments, id \in EventIds : Fetch(h, m, id)
      BY <1>1 DEF Starts
    <2>2. /\ proc'[h].m = m /\ proc'[h].event = id /\ proc'[h].status = mp[m]
          /\ id \in Sent(m)
      BY <2>1, StartShape
    <2>3. mp[m] \in {"approved", "refunded"}
      BY <2>2, ApprovalSent DEF Inv
    <2> QED BY <2>2, <2>3
  <1>2. CASE ~Starts(h)
    <2>1. /\ Handling(proc[h]) /\ proc'[h].status = proc[h].status
          /\ proc'[h].m = proc[h].m /\ proc'[h].event = proc[h].event
      BY <1>2, StepHandles
    <2> QED BY <2>1 DEF ApprovalFetched
  <1> QED BY <1>1, <1>2

LEMMA StepSwallowsNone ==
  ASSUME ApprovalIdsApart, Inv, Approvals, [Next]_vars
  PROVE  ApprovalNotSwallowed'
  <1> SUFFICES ASSUME NEW m \in MpPayments, EventId[m]["approved"] \in events', Paying(m)
               PROVE  posted'[Reference[m]] > 0 \/ mp'[m] = "refunded"
    BY DEF ApprovalNotSwallowed, Paying
  <1>1. PICK p \in Payments : p = Reference[m]
    BY PaymentsAssumption DEF Paying
  <1>2. posted[p] > 0 => posted'[p] > 0
    <2>1. posted[p] \in Nat
      BY DEF Inv, TypeOK
    <2>2. posted'[p] # posted[p] => posted'[p] = posted[p] + 1
      BY StepPosts
    <2> QED BY <2>1, <2>2
  <1>3. CASE EventId[m]["approved"] \in events
    <2>1. posted[p] > 0 \/ mp[m] = "refunded"
      BY <1>1, <1>3 DEF Approvals, ApprovalNotSwallowed, Paying
    <2> QED BY <1>1, <1>2, <2>1, RefundsStay
  <1>4. CASE EventId[m]["approved"] \notin events
    <2>1. PICK h \in Processes : /\ proc[h].event = EventId[m]["approved"] /\ mp' = mp
                                /\ \/ RecordEvent(h) \/ CommitStatus(h)
                                   \/ CommitCredit(h) \/ CommitRenewal(h)
      BY <1>4, StepRecords
    <2>2. Handling(proc[h])
      BY <2>1 DEF RecordEvent, CommitStatus, CommitCredit, CommitRenewal, At, Handling
    <2>3. /\ proc[h].m \in MpPayments /\ proc[h].event \in Sent(proc[h].m)
          /\ proc[h].status = "refunded" => mp[proc[h].m] = "refunded"
      BY <2>2 DEF Inv, Deliveries, Known, EventSent
    <2>4. proc[h].m = m
      BY <2>1, <2>3, ApprovalSent DEF Inv
    <2>5. proc[h].status \in {"approved", "refunded"}
      BY <2>1, <2>2, <2>4 DEF Approvals, ApprovalFetched
    <2>6. Ours(h) = p /\ p # None /\ Amount[m] = Price[p]
      BY <1>1, <2>4, PaymentsAssumption DEF Ours, Paying
    <2>7. CASE proc[h].status = "refunded"
      BY <2>1, <2>3, <2>4, <2>7
    <2>8. CASE proc[h].status = "approved" /\ RecordEvent(h)
      <3>1. NothingToDo(h)
        BY <2>8 DEF RecordEvent
      <3>2. payment[p].processed
        BY <2>4, <2>6, <3>1 DEF NothingToDo, Processed, Validated
      <3>3. posted[p] > 0
        BY <3>2 DEF Inv, Effects, Marked
      <3> QED BY <1>1, <1>2, <3>3
    <2>9. CASE proc[h].status = "approved" /\ (CommitCredit(h) \/ CommitRenewal(h))
      <3>1. posted' = [posted EXCEPT ![p] = @ + 1]
        BY <2>6, <2>9 DEF CommitCredit, CommitRenewal
      <3>2. posted'[p] = posted[p] + 1 /\ posted[p] \in Nat
        BY <3>1 DEF Inv, TypeOK
      <3> QED BY <1>1, <3>2
    <2>10. CASE proc[h].status = "approved" /\ CommitStatus(h)
      BY <2>10 DEF CommitStatus, Approved
    <2> QED BY <2>1, <2>5, <2>7, <2>8, <2>9, <2>10
  <1> QED BY <1>3, <1>4

-----------------------------------------------------------------------------
(* The invariant holds in every state.                                      *)
LEMMA InvHolds == Spec => []Inv
  BY InitInv, StepKeepsInv, PTL DEF Spec

(* The state keeps its types through checkouts, deliveries in any number    *)
(* and order, purchases and changes by administrators.                      *)
THEOREM TypeCorrect == Spec => []TypeOK
  <1>1. Inv => TypeOK
    BY DEF Inv
  <1> QED BY <1>1, InvHolds, PTL

(* A payment takes effect only for money the provider has, at most once for *)
(* each recorded event, however often and concurrently its notifications    *)
(* are delivered (process-mercado-pago-webhook.service.ts :38-54, :99).     *)
THEOREM EffectsBacked == Spec => []EffectIsBacked
  <1>1. Inv => EffectIsBacked
    BY DEF Inv, Effects, Backed, Counted, RecordedFor, EffectIsBacked
  <1> QED BY <1>1, InvHolds, PTL

(* A payment takes effect at most once for each of the deliveries that may  *)
(* run at the same time: processedAt stops all those that read it later     *)
(* (process-mercado-pago-webhook.service.ts :82-97).                        *)
THEOREM EffectsBounded == Spec => []EffectsBoundedByConcurrency
  <1>1. Inv /\ Bounded => EffectsBoundedByConcurrency
    <2> SUFFICES ASSUME Inv, Bounded, NEW p \in Payments
                 PROVE  posted[p] <= Cardinality(Processes)
      BY DEF EffectsBoundedByConcurrency
    <2> QED BY RacingTyped DEF Inv, TypeOK, Bounded
  <1>2. Spec => []Bounded
    BY InvHolds, InitBounded, StepKeepsBounded, PTL DEF Spec
  <1> QED BY <1>1, <1>2, InvHolds, PTL

(* No approval for the right amount is consumed without the effect of its   *)
(* payment, unless the money went back first, whatever deliveries fail or   *)
(* overlap, if its identifier is its own                                    *)
(* (process-mercado-pago-webhook.service.ts :36-65).                        *)
THEOREM ApprovalsKept ==
  ASSUME ApprovalIdsApart
  PROVE  Spec => []ApprovalNotSwallowed
  <1>1. Inv /\ Approvals /\ [Next]_vars => Approvals'
    BY StepKeepsFetched, StepSwallowsNone DEF Approvals
  <1>2. Spec => []Approvals
    BY <1>1, InvHolds, InitApprovals, PTL DEF Spec
  <1>3. Approvals => ApprovalNotSwallowed
    BY DEF Approvals
  <1> QED BY <1>2, <1>3, PTL

-----------------------------------------------------------------------------
(* What payments add to a wallet and to a subscription.                     *)

(* Effects of the payments of a user, each as often as times says.          *)
Times(times, what, u) == [p \in PaymentsOf(u) |-> times[p] * what[p]]

LEMMA OnceMore ==
  ASSUME NEW n \in Nat, NEW c \in Nat
  PROVE  n * c \in Nat /\ (n + 1) * c = n * c + c
  OBVIOUS

LEMMA PostedIsNat ==
  ASSUME NEW times \in [Payments -> Nat], NEW what \in [Payments -> Nat], NEW u \in Users
  PROVE  /\ IsFiniteSet(PaymentsOf(u))
         /\ \A p \in PaymentsOf(u) : Times(times, what, u)[p] \in Nat
         /\ SumFunction(Times(times, what, u)) = SumFunctionOnSet(Times(times, what, u), PaymentsOf(u))
         /\ SumFunction(Times(times, what, u)) \in Nat
  <1>1. IsFiniteSet(PaymentsOf(u))
    BY PaymentsAssumption, FS_Subset DEF PaymentsOf
  <1>2. \A p \in PaymentsOf(u) : Times(times, what, u)[p] \in Nat
    <2> TAKE p \in PaymentsOf(u)
    <2>1. times[p] \in Nat /\ what[p] \in Nat
      BY DEF PaymentsOf
    <2> QED BY <2>1, OnceMore DEF Times
  <1>3. SumFunction(Times(times, what, u)) = SumFunctionOnSet(Times(times, what, u), PaymentsOf(u))
    BY DEF SumFunction, Times
  <1> QED BY <1>1, <1>2, <1>3, SumNat

(* One more effect of a payment adds what it is worth to its owner.         *)
LEMMA PostedOnceMore ==
  ASSUME NEW before \in [Payments -> Nat], NEW what \in [Payments -> Nat],
         NEW p \in Payments, NEW u \in Users,
         NEW after \in [Payments -> Nat], after[p] = before[p] + 1,
         \A q \in Payments \ {p} : after[q] = before[q]
  PROVE  SumFunction(Times(after, what, u))
           = SumFunction(Times(before, what, u)) + (IF Owner[p] = u THEN what[p] ELSE 0)
  <1> DEFINE S == PaymentsOf(u)  f == Times(before, what, u)  g == Times(after, what, u)
  <1>2. /\ IsFiniteSet(S) /\ \A q \in S : f[q] \in Nat /\ g[q] \in Nat
        /\ SumFunction(f) = SumFunctionOnSet(f, S) /\ SumFunction(g) = SumFunctionOnSet(g, S)
        /\ SumFunction(f) \in Nat
    BY PostedIsNat
  <1>3. \A q \in S : f[q] = before[q] * what[q] /\ g[q] = after[q] * what[q]
    BY DEF Times
  <1>4. \A q \in S \ {p} : f[q] = g[q]
    <2> TAKE q \in S \ {p}
    <2>1. after[q] = before[q]
      BY DEF PaymentsOf
    <2> QED BY <1>3, <2>1
  <1>5. p \in S <=> Owner[p] = u
    BY DEF PaymentsOf
  <1> HIDE DEF S, f, g
  <1>6. CASE Owner[p] = u
    <2>1. SumFunctionOnSet(g, S) = SumFunctionOnSet(f, S) + g[p] - f[p]
      BY <1>2, <1>4, <1>5, <1>6, SumChange
    <2>2. after[p] = before[p] + 1 /\ before[p] \in Nat /\ what[p] \in Nat
      OBVIOUS
    <2>3. g[p] = f[p] + what[p]
      BY <1>3, <1>5, <1>6, <2>2, OnceMore
    <2>4. f[p] \in Nat
      BY <1>2, <1>5, <1>6
    <2> QED BY <1>2, <1>6, <2>1, <2>2, <2>3, <2>4 DEF f, g
  <1>7. CASE Owner[p] # u
    <2>1. SumFunctionOnSet(f, S) = SumFunctionOnSet(g, S)
      BY <1>2, <1>4, <1>5, <1>7, SumSame
    <2> QED BY <1>2, <1>7, <2>1 DEF f, g
  <1> QED BY <1>6, <1>7

LEMMA PostedWorth ==
  ASSUME Inv
  PROVE  /\ Coins \in [Payments -> Nat] /\ Months \in [Payments -> Nat]
         /\ posted \in [Payments -> Nat]
         /\ \A u \in Users : PostedTo(u, Coins) \in Nat /\ PostedTo(u, Months) \in Nat
  BY PaymentsAssumption, PostedIsNat DEF Inv, TypeOK, PostedTo, Times

LEMMA PostedGrows ==
  ASSUME Inv, NEW p \in Payments, posted' = [posted EXCEPT ![p] = @ + 1], NEW u \in Users
  PROVE  /\ PostedTo(u, Coins)' = PostedTo(u, Coins) + (IF Owner[p] = u THEN Coins[p] ELSE 0)
         /\ PostedTo(u, Months)' = PostedTo(u, Months) + (IF Owner[p] = u THEN Months[p] ELSE 0)
  <1>1. Coins \in [Payments -> Nat] /\ Months \in [Payments -> Nat] /\ posted \in [Payments -> Nat]
    BY PostedWorth
  <1>2. PICK after : after = posted'
    OBVIOUS
  <1>3. /\ after \in [Payments -> Nat] /\ after[p] = posted[p] + 1
        /\ \A q \in Payments \ {p} : after[q] = posted[q]
    BY <1>1, <1>2
  <1>4. SumFunction(Times(after, Coins, u))
          = SumFunction(Times(posted, Coins, u)) + (IF Owner[p] = u THEN Coins[p] ELSE 0)
    BY <1>1, <1>3, PostedOnceMore
  <1>5. SumFunction(Times(after, Months, u))
          = SumFunction(Times(posted, Months, u)) + (IF Owner[p] = u THEN Months[p] ELSE 0)
    BY <1>1, <1>3, PostedOnceMore
  <1> QED BY <1>2, <1>4, <1>5 DEF PostedTo, Times

-----------------------------------------------------------------------------
(* The wallet.                                                              *)

(* Only credits, renewals, debits and administrators post anything.         *)
LEMMA MoneySteps ==
  ASSUME [Next]_vars
  PROVE  \/ UNCHANGED money
         \/ \E h \in Processes : CommitCredit(h) \/ CommitRenewal(h) \/ CommitDebit(h)
         \/ \E u \in Users : AdminCredit(u)
  <1>1. Tick \/ UNCHANGED vars => UNCHANGED money
    BY DEF Tick, vars, money
  <1>2. ASSUME NEW p \in Payments, CreatePayment(p) \/ StoreCheckout(p) PROVE UNCHANGED money
    BY <1>2 DEF CreatePayment, StoreCheckout
  <1>3. ASSUME NEW m \in MpPayments, Attempt(m) \/ Decide(m) PROVE UNCHANGED money
    BY <1>3 DEF Attempt, Decide
  <1>4. ASSUME NEW h \in Processes, WebhookStep(h), ~CommitCredit(h), ~CommitRenewal(h)
        PROVE  UNCHANGED money
    BY <1>4 DEF WebhookStep, Fetch, DuplicateEvent, RecordEvent, ReadPayment,
                ReadSubscription, CommitStatus, Fail
  <1>5. ASSUME NEW h \in Processes, NEW u \in Users,
               \/ CancelWrite(h) \/ CancelRead(h, u)
               \/ \E kind \in {"purchases", "debits"} : ReadWallet(h, u, kind)
        PROVE  UNCHANGED money
    BY <1>5 DEF CancelWrite, CancelRead, ReadWallet
  <1>6. ASSUME NEW u \in Users,
               \/ CancelManualSubscription(u)
               \/ \E status \in {"ACTIVE", "CANCELLED", "EXPIRED"}, end \in ManualEnds :
                     SetManualSubscription(u, status, end)
        PROVE  UNCHANGED money
    BY <1>6 DEF CancelManualSubscription, SetManualSubscription
  <1>7. ASSUME NEW h \in Processes, CancelWrite(h) PROVE UNCHANGED money
    BY <1>7 DEF CancelWrite
  <1> QED BY <1>1, <1>2, <1>3, <1>4, <1>5, <1>6, <1>7 DEF Next

(* Rows of the ledger: counts and what they are worth.                      *)
LEMMA Worth ==
  ASSUME Inv, NEW u \in Users
  PROVE  /\ ledger[u].credits \in Nat /\ ledger[u].debits \in Nat /\ ledger[u].purchases \in Nat
         /\ Adjust \in Nat /\ Cost \in Nat /\ Quantity \in Nat
         /\ ledger[u].credits * Adjust \in Nat /\ ledger[u].debits * Adjust \in Nat
         /\ ledger[u].purchases * Cost \in Nat /\ ledger[u].purchases * Quantity \in Nat
         /\ wallet[u] \in Nat /\ inventory[u] \in Nat
  <1>1. /\ ledger[u].credits \in Nat /\ ledger[u].debits \in Nat /\ ledger[u].purchases \in Nat
        /\ wallet[u] \in Nat /\ inventory[u] \in Nat
    BY DEF Inv, TypeOK
  <1>2. Adjust \in Nat /\ Cost \in Nat /\ Quantity \in Nat
    BY PaymentsAssumption
  <1> QED BY <1>1, <1>2, OnceMore

LEMMA EffectKeepsWallet ==
  ASSUME Inv, Inv', WalletAccounts, NEW h \in Processes, CommitCredit(h) \/ CommitRenewal(h)
  PROVE  WalletAccounts'
  <1>1. PICK p \in Payments : p = Ours(h)
    <2>1. Writing(proc[h])
      BY DEF CommitCredit, CommitRenewal, At, Writing
    <2> QED BY <2>1, InTransaction
  <1>2. /\ posted' = [posted EXCEPT ![p] = @ + 1] /\ UNCHANGED <<ledger, inventory>>
        /\ \/ wallet' = [wallet EXCEPT ![Owner[p]] = @ + Coins[p]]
           \/ wallet' = wallet /\ Months[p] # 0
    BY <1>1 DEF CommitCredit, CommitRenewal
  <1>3. Coins[p] \in Nat /\ (Months[p] # 0 => Coins[p] = 0) /\ wallet \in [Users -> Nat]
    BY PaymentsAssumption DEF Inv, TypeOK
  <1>4. ASSUME NEW u \in Users
        PROVE  wallet'[u] = wallet[u] + (IF Owner[p] = u THEN Coins[p] ELSE 0)
    <2>1. wallet[u] \in Nat
      BY <1>3
    <2> QED BY <1>2, <1>3, <2>1
  <1>5. ASSUME NEW u \in Users
        PROVE  /\ wallet'[u] >= 0
               /\ wallet'[u] = PostedTo(u, Coins)' + ledger'[u].credits * Adjust
                               - ledger'[u].debits * Adjust - ledger'[u].purchases * Cost
               /\ inventory'[u] = ledger'[u].purchases * Quantity
    <2>1. PostedTo(u, Coins)' = PostedTo(u, Coins) + (IF Owner[p] = u THEN Coins[p] ELSE 0)
      BY <1>2, PostedGrows
    <2>2. /\ wallet[u] = PostedTo(u, Coins) + ledger[u].credits * Adjust
                          - ledger[u].debits * Adjust - ledger[u].purchases * Cost
          /\ inventory[u] = ledger[u].purchases * Quantity
      BY DEF WalletAccounts
    <2>3. PostedTo(u, Coins) \in Nat /\ wallet'[u] \in Nat
      BY PostedWorth DEF Inv, TypeOK
    <2> QED BY <1>2, <1>3, <1>4, <2>1, <2>2, <2>3, Worth
  <1> QED BY <1>5 DEF WalletAccounts

LEMMA DebitKeepsWallet ==
  ASSUME Inv, Inv', WalletAccounts, NEW h \in Processes, CommitDebit(h)
  PROVE  WalletAccounts'
  <1>1. PICK w \in Users, kind \in {"purchases", "debits"} :
          w = proc[h].user /\ kind = proc[h].kind
    BY DEF Inv, Deliveries, Known, CommitDebit, At
  <1>2. PICK n : n = IF kind = "purchases" THEN Quantity ELSE 0
    OBVIOUS
  <1>3. /\ wallet' = [wallet EXCEPT ![w] = @ - DebitAmount(kind)]
        /\ ledger' = [ledger EXCEPT ![w] = [ledger[w] EXCEPT ![kind] = ledger[w][kind] + 1]]
        /\ inventory' = [inventory EXCEPT ![w] = @ + n]
        /\ posted' = posted
    BY <1>1, <1>2 DEF CommitDebit
  <1>4. /\ wallet \in [Users -> Nat] /\ inventory \in [Users -> Nat]
        /\ ledger \in [Users -> [purchases : Nat, credits : Nat, debits : Nat]]
        /\ wallet' \in [Users -> Nat]
    BY DEF Inv, TypeOK
  <1>5. ASSUME NEW u \in Users
        PROVE  /\ wallet'[u] >= 0
               /\ wallet'[u] = PostedTo(u, Coins)' + ledger'[u].credits * Adjust
                               - ledger'[u].debits * Adjust - ledger'[u].purchases * Cost
               /\ inventory'[u] = ledger'[u].purchases * Quantity
    <2>1. PostedTo(u, Coins)' = PostedTo(u, Coins) /\ PostedTo(u, Coins) \in Nat
      BY <1>3, PostedWorth DEF PostedTo
    <2>2. /\ wallet[u] = PostedTo(u, Coins) + ledger[u].credits * Adjust
                          - ledger[u].debits * Adjust - ledger[u].purchases * Cost
          /\ inventory[u] = ledger[u].purchases * Quantity
      BY DEF WalletAccounts
    <2>3. wallet'[u] >= 0
      BY <1>4
    <2>4. CASE u # w
      <3>1. wallet'[u] = wallet[u] /\ ledger'[u] = ledger[u] /\ inventory'[u] = inventory[u]
        BY <1>3, <1>4, <2>4
      <3> QED BY <2>1, <2>2, <2>3, <3>1
    <2>5. CASE u = w /\ kind = "purchases"
      <3>1. /\ wallet'[u] = wallet[u] - Cost /\ inventory'[u] = inventory[u] + Quantity
            /\ ledger'[u].purchases = ledger[u].purchases + 1
            /\ ledger'[u].credits = ledger[u].credits /\ ledger'[u].debits = ledger[u].debits
        <4>1. ledger'[u] = [ledger[u] EXCEPT !.purchases = ledger[u].purchases + 1]
          BY <1>3, <1>4, <2>5
        <4>2. ledger[u] \in [purchases : Nat, credits : Nat, debits : Nat]
          BY <1>4
        <4>3. wallet'[u] = wallet[u] - Cost /\ inventory'[u] = inventory[u] + Quantity
          BY <1>2, <1>3, <1>4, <2>5 DEF DebitAmount
        <4> QED BY <4>1, <4>2, <4>3
      <3>2. /\ (ledger[u].purchases + 1) * Cost = ledger[u].purchases * Cost + Cost
            /\ (ledger[u].purchases + 1) * Quantity = ledger[u].purchases * Quantity + Quantity
        BY Worth, OnceMore
      <3> QED BY <2>1, <2>2, <2>3, <3>1, <3>2, Worth
    <2>6. CASE u = w /\ kind = "debits"
      <3>1. /\ wallet'[u] = wallet[u] - Adjust /\ inventory'[u] = inventory[u] + 0
            /\ ledger'[u].debits = ledger[u].debits + 1
            /\ ledger'[u].credits = ledger[u].credits
            /\ ledger'[u].purchases = ledger[u].purchases
        <4>1. ledger'[u] = [ledger[u] EXCEPT !.debits = ledger[u].debits + 1]
          BY <1>3, <1>4, <2>6
        <4>2. ledger[u] \in [purchases : Nat, credits : Nat, debits : Nat]
          BY <1>4
        <4>3. wallet'[u] = wallet[u] - Adjust /\ inventory'[u] = inventory[u] + 0
          BY <1>2, <1>3, <1>4, <2>6 DEF DebitAmount
        <4> QED BY <4>1, <4>2, <4>3
      <3>2. (ledger[u].debits + 1) * Adjust = ledger[u].debits * Adjust + Adjust
        BY Worth, OnceMore
      <3> QED BY <2>1, <2>2, <2>3, <3>1, <3>2, Worth
    <2> QED BY <2>4, <2>5, <2>6
  <1> QED BY <1>5 DEF WalletAccounts

LEMMA CreditKeepsWallet ==
  ASSUME Inv, WalletAccounts, NEW w \in Users, AdminCredit(w)
  PROVE  WalletAccounts'
  <1>1. /\ wallet' = [wallet EXCEPT ![w] = @ + Adjust]
        /\ ledger' = [ledger EXCEPT ![w] = [ledger[w] EXCEPT !.credits = ledger[w].credits + 1]]
        /\ UNCHANGED <<posted, inventory>>
    BY DEF AdminCredit
  <1>2. /\ wallet \in [Users -> Nat]
        /\ ledger \in [Users -> [purchases : Nat, credits : Nat, debits : Nat]]
    BY DEF Inv, TypeOK
  <1>3. ASSUME NEW u \in Users
        PROVE  /\ wallet'[u] >= 0
               /\ wallet'[u] = PostedTo(u, Coins)' + ledger'[u].credits * Adjust
                               - ledger'[u].debits * Adjust - ledger'[u].purchases * Cost
               /\ inventory'[u] = ledger'[u].purchases * Quantity
    <2>1. PostedTo(u, Coins)' = PostedTo(u, Coins) /\ PostedTo(u, Coins) \in Nat
      BY <1>1, PostedWorth DEF PostedTo
    <2>2. /\ wallet[u] = PostedTo(u, Coins) + ledger[u].credits * Adjust
                          - ledger[u].debits * Adjust - ledger[u].purchases * Cost
          /\ inventory[u] = ledger[u].purchases * Quantity
      BY DEF WalletAccounts
    <2>3. CASE u # w
      <3>1. wallet'[u] = wallet[u] /\ ledger'[u] = ledger[u] /\ inventory'[u] = inventory[u]
        BY <1>1, <1>2, <2>3
      <3>2. wallet[u] >= 0
        BY Worth
      <3> QED BY <2>1, <2>2, <3>1, <3>2
    <2>4. CASE u = w
      <3>1. /\ wallet'[u] = wallet[u] + Adjust
            /\ ledger'[u].credits = ledger[u].credits + 1
            /\ ledger'[u].debits = ledger[u].debits
            /\ ledger'[u].purchases = ledger[u].purchases
        <4>1. ledger'[u] = [ledger[u] EXCEPT !.credits = ledger[u].credits + 1]
          BY <1>1, <1>2, <2>4
        <4>2. ledger[u] \in [purchases : Nat, credits : Nat, debits : Nat]
          BY <1>2
        <4>3. wallet'[u] = wallet[u] + Adjust
          BY <1>1, <1>2, <2>4
        <4> QED BY <4>1, <4>2, <4>3
      <3>2. (ledger[u].credits + 1) * Adjust = ledger[u].credits * Adjust + Adjust
        BY Worth, OnceMore
      <3> QED BY <1>1, <2>1, <2>2, <3>1, <3>2, Worth
    <2> QED BY <2>3, <2>4
  <1> QED BY <1>3 DEF WalletAccounts

LEMMA StepKeepsWallet == Inv /\ Inv' /\ WalletAccounts /\ [Next]_vars => WalletAccounts'
  <1> SUFFICES ASSUME Inv, Inv', WalletAccounts, [Next]_vars PROVE WalletAccounts'
    OBVIOUS
  <1>1. ASSUME UNCHANGED money PROVE WalletAccounts'
    BY <1>1 DEF money, WalletAccounts, PostedTo
  <1> QED BY <1>1, MoneySteps, EffectKeepsWallet, DebitKeepsWallet, CreditKeepsWallet

(* No payment has an effect yet.                                            *)
LEMMA NothingPosted ==
  ASSUME Init, NEW u \in Users
  PROVE  PostedTo(u, Coins) = 0 /\ PostedTo(u, Months) = 0
  <1>1. IsFiniteSet(PaymentsOf(u)) /\ PaymentsOf(u) \subseteq Payments
    BY PaymentsAssumption, FS_Subset DEF PaymentsOf
  <1>2. ASSUME NEW what \in [Payments -> Nat] PROVE PostedTo(u, what) = 0
    <2>1. \A p \in PaymentsOf(u) : Times(posted, what, u)[p] = 0
      <3> TAKE p \in PaymentsOf(u)
      <3>1. posted[p] = 0 /\ what[p] \in Nat
        BY <1>1 DEF Init
      <3> QED BY <3>1 DEF Times
    <2>2. SumFunctionOnSet(Times(posted, what, u), PaymentsOf(u)) = 0
      BY <1>1, <2>1, SumZero
    <2> QED BY <2>2 DEF PostedTo, SumFunction, Times
  <1> QED BY <1>2, PaymentsAssumption

(* A wallet holds what its entries say and never less than nothing, and     *)
(* benefits are those paid for, whatever credits and debits overlap         *)
(* (wallet.service.ts :36-134).                                             *)
THEOREM WalletsAddUp == Spec => []WalletAccounts
  <1>1. Init => WalletAccounts
    <2> SUFFICES ASSUME Init, NEW u \in Users
                 PROVE  /\ wallet[u] >= 0
                        /\ wallet[u] = PostedTo(u, Coins) + ledger[u].credits * Adjust
                                       - ledger[u].debits * Adjust - ledger[u].purchases * Cost
                        /\ inventory[u] = ledger[u].purchases * Quantity
      BY DEF WalletAccounts
    <2>1. /\ wallet[u] = 0 /\ inventory[u] = 0
          /\ ledger[u] = [purchases |-> 0, credits |-> 0, debits |-> 0]
      BY DEF Init
    <2>2. PostedTo(u, Coins) = 0
      BY NothingPosted
    <2> QED BY <2>1, <2>2, PaymentsAssumption
  <1> QED BY <1>1, StepKeepsWallet, InvHolds, PTL DEF Spec

-----------------------------------------------------------------------------
(* Subscriptions.                                                           *)

(* How far a subscription may reach, and the ends that renewals computed    *)
(* and have not written yet.                                                *)
Reach(u) == (IF manual[u] > now THEN manual[u] ELSE now) + PostedTo(u, Months)
(* The end of a subscription and the months behind it.                     *)
AccessKept ==
    /\ AccessIsPaid
    /\ \A h \in Processes, p \in Payments :
          Ours(h) = p => proc[h].end <= Reach(Owner[p]) + Months[p]

LEMMA AccessTypes ==
  ASSUME Inv, NEW u \in Users
  PROVE  /\ Reach(u) \in Nat /\ PostedTo(u, Months) \in Nat
         /\ manual[u] \in Nat /\ now \in Nat /\ subscription[u].end \in Nat
         /\ now <= Reach(u) /\ manual[u] <= Reach(u)
  <1>1. PostedTo(u, Months) \in Nat
    BY PostedWorth
  <1>2. manual[u] \in Nat /\ now \in Nat /\ subscription[u].end \in Nat
    BY DEF Inv, TypeOK, SubscriptionRow
  <1> QED BY <1>1, <1>2 DEF Reach

LEMMA AccessTypesNext ==
  ASSUME Inv', NEW u \in Users
  PROVE  /\ Reach(u)' \in Nat /\ PostedTo(u, Months)' \in Nat
         /\ manual'[u] \in Nat /\ now' \in Nat
         /\ now' <= Reach(u)' /\ manual'[u] <= Reach(u)'
  <1>1. PICK after \in [Payments -> Nat] : after = posted'
    BY DEF Inv, TypeOK
  <1>2. SumFunction(Times(after, Months, u)) \in Nat
    BY PaymentsAssumption, PostedIsNat
  <1>3. PostedTo(u, Months)' \in Nat
    BY <1>1, <1>2 DEF PostedTo, Times
  <1>4. manual'[u] \in Nat /\ now' \in Nat
    BY DEF Inv, TypeOK
  <1> QED BY <1>3, <1>4 DEF Reach

(* Only these steps touch subscriptions, the ends set by hand and the time. *)
LEMMA AccessSteps ==
  ASSUME [Next]_vars
  PROVE  \/ UNCHANGED <<subscription, manual, now>>
         \/ Tick
         \/ \E h \in Processes : CommitRenewal(h) \/ CancelWrite(h)
         \/ \E u \in Users :
               \/ CancelManualSubscription(u)
               \/ \E status \in {"ACTIVE", "CANCELLED", "EXPIRED"}, end \in ManualEnds :
                     SetManualSubscription(u, status, end)
  <1>1. UNCHANGED vars => UNCHANGED <<subscription, manual, now>>
    BY DEF vars
  <1>2. ASSUME NEW p \in Payments, CreatePayment(p) \/ StoreCheckout(p)
        PROVE  UNCHANGED <<subscription, manual, now>>
    BY <1>2 DEF CreatePayment, StoreCheckout, access
  <1>3. ASSUME NEW m \in MpPayments, Attempt(m) \/ Decide(m)
        PROVE  UNCHANGED <<subscription, manual, now>>
    BY <1>3 DEF Attempt, Decide, access
  <1>4. ASSUME NEW h \in Processes, WebhookStep(h), ~CommitRenewal(h)
        PROVE  UNCHANGED <<subscription, manual, now>>
    BY <1>4 DEF WebhookStep, Fetch, DuplicateEvent, RecordEvent, ReadPayment,
                ReadSubscription, CommitStatus, CommitCredit, Fail, access
  <1>5. ASSUME NEW h \in Processes, NEW u \in Users,
               \/ CancelRead(h, u) \/ AdminCredit(u) \/ CommitDebit(h)
               \/ \E kind \in {"purchases", "debits"} : ReadWallet(h, u, kind)
        PROVE  UNCHANGED <<subscription, manual, now>>
    BY <1>5 DEF CancelRead, AdminCredit, CommitDebit, ReadWallet, access
  <1>6. ASSUME NEW u \in Users, AdminCredit(u) PROVE UNCHANGED <<subscription, manual, now>>
    BY <1>6 DEF AdminCredit, access
  <1>7. ASSUME NEW h \in Processes, CommitDebit(h) PROVE UNCHANGED <<subscription, manual, now>>
    BY <1>7 DEF CommitDebit, access
  <1> QED BY <1>1, <1>2, <1>3, <1>4, <1>5, <1>6, <1>7 DEF Next

(* Nothing takes back what was paid for or set by hand, nor time.           *)
LEMMA ReachGrows ==
  ASSUME Inv, Inv', [Next]_vars, NEW u \in Users
  PROVE  /\ Reach(u) <= Reach(u)' /\ Reach(u) \in Nat /\ Reach(u)' \in Nat
         /\ now <= now' /\ now \in Nat /\ now' \in Nat
  <1>1. /\ manual[u] \in Nat /\ now \in Nat /\ PostedTo(u, Months) \in Nat
        /\ manual'[u] \in Nat /\ now' \in Nat /\ PostedTo(u, Months)' \in Nat
        /\ Reach(u) \in Nat /\ Reach(u)' \in Nat
    BY AccessTypes, AccessTypesNext
  <1>2. PostedTo(u, Months) <= PostedTo(u, Months)'
    <2>1. ASSUME posted' = posted PROVE PostedTo(u, Months)' = PostedTo(u, Months)
      BY <2>1 DEF PostedTo
    <2>2. ASSUME NEW h \in Processes, CommitCredit(h) \/ CommitRenewal(h)
          PROVE  PostedTo(u, Months) <= PostedTo(u, Months)'
      <3>1. PICK p \in Payments : p = Ours(h)
        <4>1. Writing(proc[h])
          BY <2>2 DEF CommitCredit, CommitRenewal, At, Writing
        <4> QED BY <4>1, InTransaction
      <3>2. posted' = [posted EXCEPT ![p] = @ + 1]
        BY <2>2, <3>1 DEF CommitCredit, CommitRenewal
      <3>3. PostedTo(u, Months)'
              = PostedTo(u, Months) + (IF Owner[p] = u THEN Months[p] ELSE 0)
        BY <3>2, PostedGrows
      <3> QED BY <1>1, <3>3, PaymentsAssumption
    <2>3. ASSUME UNCHANGED money PROVE posted' = posted
      BY <2>3 DEF money
    <2>4. ASSUME NEW h \in Processes, CommitDebit(h) PROVE posted' = posted
      BY <2>4 DEF CommitDebit
    <2>5. ASSUME NEW w \in Users, AdminCredit(w) PROVE posted' = posted
      BY <2>5 DEF AdminCredit
    <2> QED BY <1>1, <2>1, <2>2, <2>3, <2>4, <2>5, MoneySteps
  <1>3. manual[u] <= manual'[u] /\ now <= now'
    <2>1. ASSUME UNCHANGED <<manual, now>> PROVE manual[u] <= manual'[u] /\ now <= now'
      BY <1>1, <2>1
    <2>2. CASE Tick
      BY <1>1, <2>2 DEF Tick, access
    <2>3. ASSUME NEW h \in Processes, CommitRenewal(h) \/ CancelWrite(h)
          PROVE  UNCHANGED <<manual, now>>
      BY <2>3 DEF CommitRenewal, CancelWrite
    <2>4. ASSUME NEW w \in Users, CancelManualSubscription(w) PROVE UNCHANGED <<manual, now>>
      BY <2>4 DEF CancelManualSubscription
    <2>5. ASSUME NEW w \in Users, NEW status, NEW end \in ManualEnds,
                 SetManualSubscription(w, status, end)
          PROVE  manual[u] <= manual'[u] /\ now <= now'
      <3>1. end \in Nat /\ manual \in [Users -> Nat]
        BY PaymentsAssumption DEF Inv, TypeOK
      <3>2. PICK latest \in Nat : latest = Max({manual[w], end}) /\ latest >= manual[w]
        BY <3>1, MaxOfTwo
      <3>3. manual' = [manual EXCEPT ![w] = latest] /\ now' = now
        BY <2>5, <3>2 DEF SetManualSubscription
      <3> QED BY <1>1, <3>1, <3>2, <3>3
    <2> QED BY <2>1, <2>2, <2>3, <2>4, <2>5, AccessSteps
  <1> QED BY <1>1, <1>2, <1>3 DEF Reach

(* A process that begins or is done has no end, one that goes on has its    *)
(* own, unless it has just read the subscription.                           *)
Waits(h) == proc'[h].end = 0 \/ (proc'[h].end = proc[h].end /\ proc'[h].m = proc[h].m)

LEMMA EndSteps ==
  ASSUME Inv, [Next]_vars, NEW h \in Processes
  PROVE  Waits(h) \/ ReadSubscription(h)
  <1>1. ASSUME NEW g \in Processes, NEW x, proc' = [proc EXCEPT ![g] = x],
               x.end = 0 \/ (x.end = proc[g].end /\ x.m = proc[g].m)
        PROVE  Waits(h)
    <2>1. proc'[h] = IF h = g THEN x ELSE proc[h]
      BY <1>1 DEF Inv, TypeOK
    <2> QED BY <1>1, <2>1 DEF Waits
  <1>2. ASSUME proc' = proc PROVE Waits(h)
    BY <1>2 DEF Waits
  <1>3. Idle.end = 0
    BY DEF Idle
  <1>4. ASSUME NEW g \in Processes, Done(g) PROVE Waits(h)
    BY <1>1, <1>3, <1>4 DEF Done
  <1>5. Tick \/ UNCHANGED vars => proc' = proc
    BY DEF Tick, vars
  <1>6. ASSUME NEW p \in Payments, CreatePayment(p) \/ StoreCheckout(p) PROVE proc' = proc
    BY <1>6 DEF CreatePayment, StoreCheckout
  <1>7. ASSUME NEW m \in MpPayments, Attempt(m) \/ Decide(m) PROVE proc' = proc
    BY <1>7 DEF Attempt, Decide
  <1>8. ASSUME NEW u \in Users,
               \/ AdminCredit(u) \/ CancelManualSubscription(u)
               \/ \E status \in {"ACTIVE", "CANCELLED", "EXPIRED"}, end \in ManualEnds :
                     SetManualSubscription(u, status, end)
        PROVE  proc' = proc
    BY <1>8 DEF AdminCredit, CancelManualSubscription, SetManualSubscription
  <1>9. ASSUME NEW g \in Processes,
               \/ DuplicateEvent(g) \/ RecordEvent(g) \/ CommitStatus(g) \/ CommitCredit(g)
               \/ CommitRenewal(g) \/ Fail(g) \/ CommitDebit(g) \/ CancelWrite(g)
        PROVE  Done(g)
    BY <1>9 DEF DuplicateEvent, RecordEvent, CommitStatus, CommitCredit, CommitRenewal, Fail,
                CommitDebit, CancelWrite
  <1>10. ASSUME NEW g \in Processes, NEW m, NEW id, Fetch(g, m, id) PROVE Waits(h)
    <2>1. PICK x : x = [Idle EXCEPT !.at = "fetched", !.m = m, !.event = id, !.status = mp[m]]
      OBVIOUS
    <2>2. proc' = [proc EXCEPT ![g] = x] /\ x.end = 0
      BY <1>10, <2>1 DEF Fetch, Begin, Idle
    <2> QED BY <1>1, <2>2
  <1>11. ASSUME NEW g \in Processes, NEW u, NEW kind, ReadWallet(g, u, kind) PROVE Waits(h)
    <2>1. PICK x : x = [Idle EXCEPT !.at = "debit", !.user = u, !.kind = kind]
      OBVIOUS
    <2>2. proc' = [proc EXCEPT ![g] = x] /\ x.end = 0
      BY <1>11, <2>1 DEF ReadWallet, Begin, Idle
    <2> QED BY <1>1, <2>2
  <1>12. ASSUME NEW g \in Processes, NEW u, CancelRead(g, u) PROVE Waits(h)
    <2>1. PICK x : x = [Idle EXCEPT !.at = "cancel", !.user = u]
      OBVIOUS
    <2>2. proc' = [proc EXCEPT ![g] = x] /\ x.end = 0
      BY <1>12, <2>1 DEF CancelRead, Begin, Idle
    <2> QED BY <1>1, <2>2
  <1>13. ASSUME NEW g \in Processes, ReadPayment(g) PROVE Waits(h)
    <2>1. PICK step : proc' = [proc EXCEPT ![g] = [proc[g] EXCEPT !.at = step]]
      BY <1>13 DEF ReadPayment
    <2>2. PICK x : x = [proc[g] EXCEPT !.at = step]
      OBVIOUS
    <2>3. x.end = proc[g].end /\ x.m = proc[g].m
      BY <2>2 DEF Inv, TypeOK, Process
    <2> QED BY <1>1, <2>1, <2>2, <2>3
  <1>14. ASSUME NEW g \in Processes, ReadSubscription(g), g # h PROVE proc'[h] = proc[h]
    BY <1>14 DEF ReadSubscription, Inv, TypeOK
  <1>15. ASSUME NEW g \in Processes, ReadSubscription(g) PROVE Waits(h) \/ ReadSubscription(h)
    BY <1>14, <1>15 DEF Waits
  <1>16. ASSUME NEW g \in Processes, WebhookStep(g) PROVE Waits(h) \/ ReadSubscription(h)
    BY <1>4, <1>9, <1>10, <1>13, <1>15, <1>16 DEF WebhookStep
  <1> QED BY <1>2, <1>4, <1>5, <1>6, <1>7, <1>8, <1>9, <1>11, <1>12, <1>16 DEF Next

(* A renewal computes its end from one that was paid for.                   *)
LEMMA StepKeepsEnds ==
  ASSUME Inv, Inv', AccessKept, [Next]_vars,
         NEW h \in Processes, NEW p \in Payments, Ours(h)' = p
  PROVE  proc'[h].end <= Reach(Owner[p])' + Months[p]
  <1>1. Owner[p] \in Users /\ Months[p] \in Nat
    BY PaymentsAssumption
  <1>2. /\ Reach(Owner[p]) <= Reach(Owner[p])' /\ Reach(Owner[p]) \in Nat
        /\ Reach(Owner[p])' \in Nat
    BY <1>1, ReachGrows
  <1>3. proc[h].end \in Nat
    BY DEF Inv, TypeOK, Process
  <1>4. CASE proc'[h].end = 0
    BY <1>1, <1>2, <1>4
  <1>5. CASE proc'[h].end = proc[h].end /\ proc'[h].m = proc[h].m
    <2>1. Ours(h) = p
      BY <1>5 DEF Ours
    <2>2. proc[h].end <= Reach(Owner[p]) + Months[p]
      BY <2>1 DEF AccessKept
    <2> QED BY <1>1, <1>2, <1>3, <1>5, <2>2
  <1>6. CASE ReadSubscription(h)
    <2>1. PICK end : end = RenewedEnd(subscription[Owner[Ours(h)]].end, Ours(h))
      OBVIOUS
    <2>2. PICK found : found = (subscription[Owner[Ours(h)]].status # "ABSENT")
      OBVIOUS
    <2>3. PICK x : x = [proc[h] EXCEPT !.at = "commit", !.found = found, !.end = end]
      OBVIOUS
    <2>4. proc' = [proc EXCEPT ![h] = x]
      BY <1>6, <2>1, <2>2, <2>3 DEF ReadSubscription
    <2>5. proc'[h] = x /\ x.m = proc[h].m /\ x.end = end
      BY <2>3, <2>4 DEF Inv, TypeOK, Process
    <2>6. Ours(h) = p
      BY <2>5 DEF Ours
    <2>7. end = RenewedEnd(subscription[Owner[p]].end, p)
      BY <2>1, <2>6
    <2>8. subscription[Owner[p]].end <= Reach(Owner[p])
      BY <1>1 DEF AccessKept, AccessIsPaid, Reach
    <2>9. subscription[Owner[p]].end \in Nat /\ now \in Nat /\ now <= Reach(Owner[p])
      BY <1>1, AccessTypes
    <2> QED BY <1>1, <1>2, <2>5, <2>7, <2>8, <2>9 DEF RenewedEnd, Validity
  <1> QED BY <1>4, <1>5, <1>6, EndSteps DEF Waits

(* Who writes a subscription writes an end that was paid for, set by hand,  *)
(* or now.                                                                  *)
LEMMA StepKeepsSubscriptions ==
  ASSUME Inv, Inv', AccessKept, [Next]_vars, NEW u \in Users
  PROVE  subscription'[u].end <= Reach(u)'
  <1>1. /\ Reach(u) <= Reach(u)' /\ Reach(u) \in Nat /\ Reach(u)' \in Nat
        /\ now <= now' /\ now \in Nat /\ now' \in Nat
    BY ReachGrows
  <1>2. /\ subscription[u].end \in Nat /\ subscription[u].end <= Reach(u)
        /\ subscription[u] \in SubscriptionRow /\ subscription \in [Users -> SubscriptionRow]
    BY AccessTypes DEF AccessKept, AccessIsPaid, Reach, Inv, TypeOK
  <1>3. now' <= Reach(u)' /\ manual'[u] <= Reach(u)'
    BY AccessTypesNext
  <1>4. ASSUME subscription'[u].end = subscription[u].end PROVE subscription'[u].end <= Reach(u)'
    BY <1>1, <1>2, <1>4
  <1>5. CASE UNCHANGED subscription
    BY <1>4, <1>5
  <1>6. CASE Tick
    BY <1>4, <1>6 DEF Tick, access
  <1>7. ASSUME NEW h \in Processes, CancelWrite(h) PROVE subscription'[u].end <= Reach(u)'
    <2>1. PICK w \in Users : w = proc[h].user
      BY <1>7 DEF Inv, Deliveries, Known, CancelWrite, At
    <2>2. subscription' = [subscription EXCEPT ![w] = [subscription[w] EXCEPT !.status = "CANCELLED"]]
      BY <1>7, <2>1 DEF CancelWrite
    <2>3. subscription'[u] = subscription[u]
          \/ subscription'[u] = [subscription[u] EXCEPT !.status = "CANCELLED"]
      BY <1>2, <2>2
    <2>4. [subscription[u] EXCEPT !.status = "CANCELLED"].end = subscription[u].end
      BY <1>2 DEF SubscriptionRow
    <2> QED BY <1>4, <2>3, <2>4
  <1>8. ASSUME NEW h \in Processes, CommitRenewal(h) PROVE subscription'[u].end <= Reach(u)'
    <2>1. PICK p \in Payments : p = Ours(h)
      <3>1. Writing(proc[h])
        BY <1>8 DEF CommitRenewal, At, Writing
      <3> QED BY <3>1, InTransaction
    <2>2. PICK end \in Nat : end = proc[h].end
      BY DEF Inv, TypeOK, Process
    <2>3. PICK x : x = [status |-> "ACTIVE", end |-> end]
      OBVIOUS
    <2>4. /\ subscription' = [subscription EXCEPT ![Owner[p]] = x]
          /\ posted' = [posted EXCEPT ![p] = @ + 1] /\ UNCHANGED <<manual, now>>
      BY <1>8, <2>1, <2>2, <2>3 DEF CommitRenewal
    <2>5. CASE u = Owner[p]
      <3>1. subscription'[u].end = end
        BY <1>2, <2>3, <2>4, <2>5
      <3>2. end <= Reach(u) + Months[p]
        BY <2>1, <2>2, <2>5 DEF AccessKept
      <3>3. PostedTo(u, Months)' = PostedTo(u, Months) + Months[p]
        BY <2>4, <2>5, PostedGrows
      <3>4. /\ PostedTo(u, Months) \in Nat /\ Months[p] \in Nat
            /\ manual[u] \in Nat /\ now \in Nat
        BY AccessTypes, PaymentsAssumption
      <3>5. Reach(u)' = Reach(u) + Months[p]
        BY <2>4, <3>3, <3>4 DEF Reach
      <3> QED BY <3>1, <3>2, <3>5
    <2>6. CASE u # Owner[p]
      <3>1. subscription'[u] = subscription[u]
        BY <1>2, <2>4, <2>6
      <3> QED BY <1>4, <3>1
    <2> QED BY <2>5, <2>6
  <1>9. ASSUME NEW w \in Users, CancelManualSubscription(w)
        PROVE  subscription'[u].end <= Reach(u)'
    <2>1. PICK x : x = [status |-> "CANCELLED", end |-> now]
      OBVIOUS
    <2>2. subscription' = [subscription EXCEPT ![w] = x] /\ now' = now
      BY <1>9, <2>1 DEF CancelManualSubscription
    <2>3. subscription'[u] = subscription[u] \/ subscription'[u] = x
      BY <1>2, <2>2
    <2> QED BY <1>3, <1>4, <2>1, <2>2, <2>3
  <1>10. ASSUME NEW w \in Users, NEW status, NEW end \in ManualEnds,
                SetManualSubscription(w, status, end)
         PROVE  subscription'[u].end <= Reach(u)'
    <2>1. end \in Nat /\ manual \in [Users -> Nat]
      BY PaymentsAssumption DEF Inv, TypeOK
    <2>2. PICK latest \in Nat : latest = Max({manual[w], end}) /\ latest >= end
      BY <2>1, MaxOfTwo
    <2>3. PICK x : x = [status |-> status, end |-> end]
      OBVIOUS
    <2>4. subscription' = [subscription EXCEPT ![w] = x] /\ manual' = [manual EXCEPT ![w] = latest]
      BY <1>10, <2>2, <2>3 DEF SetManualSubscription
    <2>5. CASE u = w
      <3>1. subscription'[u].end = end /\ manual'[u] = latest
        BY <1>2, <2>1, <2>3, <2>4, <2>5
      <3> QED BY <1>1, <1>3, <2>1, <2>2, <3>1
    <2>6. CASE u # w
      BY <1>2, <1>4, <2>4, <2>6
    <2> QED BY <2>5, <2>6
  <1> QED BY <1>5, <1>6, <1>7, <1>8, <1>9, <1>10, AccessSteps

(* A subscription never reaches further than the months of the payments     *)
(* that took effect after the latest end set by hand, or now, whatever      *)
(* renewals, cancellations and changes by administrators overlap            *)
(* (renew-subscription-from-payment.service.ts :38-67).                     *)
THEOREM AccessNeverUnpaid == Spec => []AccessIsPaid
  <1>1. Init => AccessKept
    <2> SUFFICES ASSUME Init PROVE AccessKept
      OBVIOUS
    <2>1. ASSUME NEW u \in Users
          PROVE  Reach(u) = 0 /\ subscription[u].end = 0 /\ manual[u] = 0 /\ now = 0
      <3>1. /\ manual[u] = 0 /\ now = 0 /\ subscription[u] = [status |-> "ABSENT", end |-> 0]
            /\ PostedTo(u, Months) = 0
        BY NothingPosted DEF Init
      <3> QED BY <3>1 DEF Reach
    <2>2. \A h \in Processes : proc[h].end = 0
      BY DEF Init, Idle
    <2>3. \A p \in Payments : Owner[p] \in Users /\ Months[p] \in Nat
      BY PaymentsAssumption
    <2>4. AccessIsPaid
      BY <2>1 DEF AccessIsPaid, Reach
    <2> QED BY <2>1, <2>2, <2>3, <2>4 DEF AccessKept
  <1>2. Inv /\ Inv' /\ AccessKept /\ [Next]_vars => AccessKept'
    <2> SUFFICES ASSUME Inv, Inv', AccessKept, [Next]_vars PROVE AccessKept'
      OBVIOUS
    <2>1. AccessIsPaid'
      BY StepKeepsSubscriptions DEF AccessIsPaid, Reach
    <2> QED BY <2>1, StepKeepsEnds DEF AccessKept
  <1>3. AccessKept => AccessIsPaid
    BY DEF AccessKept
  <1> QED BY <1>1, <1>2, <1>3, InvHolds, PTL DEF Spec

=============================================================================
