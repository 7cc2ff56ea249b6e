-------------------------------- MODULE Mesa --------------------------------
(***************************************************************************)
(* The life of the Mesas (private pools) on PostgreSQL at READ COMMITTED:  *)
(* creation, invites, joining, the owner's review of pending requests, and *)
(* closing with settlement, run by concurrent requests of the API and the  *)
(* worker.                                                                 *)
(*                                                                         *)
(* A database transaction is modelled by its reads and one commit.         *)
(* READ COMMITTED lets the data change between a read and a later write, so *)
(* what a transaction read is kept in tx[t] and used as the code uses it.  *)
(* Its writes are one step: a row it writes stays locked until it commits, *)
(* each conditional UPDATE and unique index is evaluated on the committed  *)
(* row after the lock is granted, and nobody sees the writes before the    *)
(* commit; so the writes take effect together, with their conditions       *)
(* evaluated then. A transaction may also end without effect at any point: *)
(* Abort stands for every exception, lost deadlock, timeout and crash.     *)
(***************************************************************************)
EXTENDS Integers, FiniteSets, MesaPrize

CONSTANTS
    Mesas, Users, Invites,
    Slots,             \* the transactions that may be open at the same time
    None,              \* no Mesa, no user, no invite
    \* terms of each Mesa, fixed when it is created
    Category,          \* PAID or SPONSORED_FREE
    AccessCost,        \* coins a participant pays, 0 when sponsored
    SponsorPool,       \* the sponsor's prize, 0 when paid
    MaxParticipants,
    Shares,            \* prize distribution, cumulative percentages
    Creator,
    \* terms of each invite
    InviteMesa,
    MaxUses,           \* 0 stands for no limit (null)
    \* data the Mesas are run on
    InitialBalance,    \* wallet balances
    Pending,           \* requests of an earlier release that await review
    MayLapse,          \* users whose PRO subscription may end
    Standing, Order    \* the outcome of the competition (see MesaPrize)

(* MesaCategoryRules.validate and validateDistribution.                     *)
ASSUME TermsAssumption ==
    /\ Category \in [Mesas -> {"PAID", "SPONSORED_FREE"}]
    /\ AccessCost \in [Mesas -> Nat]
    /\ SponsorPool \in [Mesas -> Nat]
    /\ MaxParticipants \in [Mesas -> Nat \ {0}]
    /\ \A m \in Mesas :
          IF Category[m] = "PAID"
          THEN AccessCost[m] > 0 /\ SponsorPool[m] = 0
          ELSE AccessCost[m] = 0 /\ SponsorPool[m] > 0
    /\ DOMAIN Shares = Mesas
    /\ \A m \in Mesas : Shares[m] \in Seq(Nat) /\ IsDistribution(Shares[m])

ASSUME DataAssumption ==
    /\ IsFiniteSet(Users) /\ IsFiniteSet(Invites)
    /\ None \notin Mesas /\ None \notin Users /\ None \notin Invites
    /\ InviteMesa \in [Invites -> Mesas]
    /\ MaxUses \in [Invites -> Nat]
    /\ InitialBalance \in [Users -> Nat]
    /\ Pending \in [Mesas -> SUBSET Users]
    /\ MayLapse \subseteq Users
    /\ Standing \in [Users -> Nat] /\ Order \in [Users -> Nat]
    /\ \A u, v \in Users : Order[u] = Order[v] => u = v

VARIABLES
    mesa,         \* the rankings rows of type BOLAO
    participant,  \* the ranking_participants rows, by Mesa and user
    wallet,       \* wallets.balance
    ledger,       \* wallet_ledger rows with an idempotency key of a Mesa
    invite,       \* the bolao_invites rows
    pro,          \* users with an active PRO subscription
    clock,        \* where now lies relative to startDate and endDate
    tx            \* the open transactions

vars == <<mesa, participant, wallet, ledger, invite, pro, clock, tx>>

Statuses == {"ABSENT", "DRAFT", "ACTIVE", "CLOSED"}
MesaRow == [status : Statuses, current : Nat, gross : Nat, fee : Nat,
            pool : Nat, settled : BOOLEAN]

(* paid is entryPaidAt, set together with entryFeePaid = accessCost; place  *)
(* is the position the closing records, 0 for null.                         *)
ParticipantRow == [status : {"ABSENT", "PENDING", "APPROVED", "REJECTED"},
                   paid : BOOLEAN, place : Nat]
InviteRow == [created : BOOLEAN, used : Nat, expired : BOOLEAN]

EntryKey(m, u)  == <<"bolao:entry", m, u>>
PayoutKey(m, u) == <<"bolao:payout", m, u>>
Keys == {"bolao:entry", "bolao:payout"} \X Mesas \X Users
LedgerRow == [key : Keys, user : Users, type : {"CREDIT", "DEBIT"},
              amount : Nat \ {0}]

Posted(key) == \E e \in ledger : e.key = key

-----------------------------------------------------------------------------
(* Rules of the categories and of the registration window.                  *)
IsPaid(m) == Category[m] = "PAID"
IsSponsored(m) == ~IsPaid(m)

RegistrationNotClosed(m) == clock[m] # "ended"
RegistrationOpen(m) == clock[m] = "open"
HasSeat(m) == mesa[m].current < MaxParticipants[m]

Approved(m) == {u \in Users : participant[m][u].status = "APPROVED"}
PaidUsers(m) == {u \in Users : participant[m][u].paid}

-----------------------------------------------------------------------------
(* Transactions. A record of one shape for all, with only the fields the    *)
(* operation uses set.                                                      *)
NoRow == [status |-> "ABSENT", current |-> 0, gross |-> 0, fee |-> 0,
          pool |-> 0, settled |-> FALSE]
Ops == {"idle", "join", "approve", "reject", "closeRead", "closeChecked",
        "closeRanked"}
TxRecord == [op : Ops, mesa : Mesas \cup {None}, user : Users \cup {None},
             invite : Invites \cup {None}, existing : BOOLEAN, seen : MesaRow,
             rows : SUBSET Users]
Idle == [op |-> "idle", mesa |-> None, user |-> None, invite |-> None,
         existing |-> FALSE, seen |-> NoRow, rows |-> {}]

Begin(t, r) == tx[t].op = "idle" /\ tx' = [tx EXCEPT ![t] = r]
Step(t, r) == tx' = [tx EXCEPT ![t] = r]
End(t) == tx' = [tx EXCEPT ![t] = Idle]

-----------------------------------------------------------------------------
(* CreateBolaoService: a Mesa is born ACTIVE and empty, its pool is the     *)
(* sponsor's prize or nothing.                                              *)
NewMesa(m) == [NoRow EXCEPT !.status = "ACTIVE", !.pool = SponsorPool[m]]

TxTypeOK ==
    /\ tx \in [Slots -> TxRecord]
    /\ \A t \in Slots :
          tx[t].op # "idle" => /\ tx[t].mesa \in Mesas
                               /\ tx[t].op \in {"join", "approve", "reject"}
                                     => tx[t].user \in Users

TypeOK ==
    /\ mesa \in [Mesas -> MesaRow]
    /\ participant \in [Mesas -> [Users -> ParticipantRow]]
    /\ wallet \in [Users -> Nat]
    /\ ledger \in SUBSET LedgerRow
    /\ invite \in [Invites -> InviteRow]
    /\ pro \in SUBSET Users
    /\ clock \in [Mesas -> {"before", "open", "ended"}]
    /\ TxTypeOK

Init ==
    /\ mesa = [m \in Mesas |-> IF Pending[m] = {} THEN NoRow ELSE NewMesa(m)]
    /\ participant = [m \in Mesas |-> [u \in Users |->
          [status |-> IF u \in Pending[m] THEN "PENDING" ELSE "ABSENT",
           paid |-> FALSE, place |-> 0]]]
    /\ wallet = InitialBalance
    /\ ledger = {}
    /\ invite = [i \in Invites |-> [created |-> FALSE, used |-> 0, expired |-> FALSE]]
    /\ pro = Users
    /\ clock \in [Mesas -> {"before", "open"}]
    /\ tx = [t \in Slots |-> Idle]

-----------------------------------------------------------------------------
CreateMesa(m) ==
    /\ mesa[m].status = "ABSENT"
    /\ RegistrationNotClosed(m)
    /\ mesa' = [mesa EXCEPT ![m] = NewMesa(m)]
    /\ UNCHANGED <<participant, wallet, ledger, invite, pro, clock, tx>>

(* CreateBolaoInviteService.                                                *)
CreateInvite(i) ==
    /\ ~invite[i].created
    /\ mesa[InviteMesa[i]].status = "ACTIVE"
    /\ RegistrationNotClosed(InviteMesa[i])
    /\ HasSeat(InviteMesa[i])
    /\ invite' = [invite EXCEPT ![i].created = TRUE]
    /\ UNCHANGED <<mesa, participant, wallet, ledger, pro, clock, tx>>

-----------------------------------------------------------------------------
EntryPossible_BalanceUnchecked(m, u) == IsPaid(m) => ~Posted(EntryKey(m, u))
(* BolaoEntryPaymentService.debit: the conditional UPDATE needs the balance *)
(* and the key must be new.                                                 *)
EntryPossible(m, u) ==
    IsPaid(m) => wallet[u] >= AccessCost[m] /\ ~Posted(EntryKey(m, u))

DebitEntry(m, u) ==
    IF IsPaid(m)
    THEN /\ wallet' = [wallet EXCEPT ![u] = @ - AccessCost[m]]
         /\ ledger' = ledger \cup {[key |-> EntryKey(m, u), user |-> u,
                                    type |-> "DEBIT", amount |-> AccessCost[m]]}
    ELSE UNCHANGED <<wallet, ledger>>

SeatLeft_Unchecked(m) == TRUE
(* The conditional increment of currentParticipants finds a seat.           *)
SeatLeft(m) == mesa[m].current < MaxParticipants[m]

TakeSeat_Twice(m) ==
    LET gross == mesa[m].gross + AccessCost[m]
    IN  mesa' = [mesa EXCEPT ![m] =
           [@ EXCEPT !.current = @ + 2, !.gross = gross,
                     !.fee = PlatformFee(gross), !.pool = PrizePool(gross)]]
TakeSeat_GrossForgotten(m) == mesa' = [mesa EXCEPT ![m].current = @ + 1]
(* The seat, and the totals recomputed from what has been collected.        *)
TakeSeat(m) ==
    LET gross == mesa[m].gross + AccessCost[m]
        seated == [mesa[m] EXCEPT !.current = @ + 1]
    IN  mesa' = [mesa EXCEPT ![m] =
           IF IsPaid(m)
           THEN [seated EXCEPT !.gross = gross, !.fee = PlatformFee(gross),
                               !.pool = PrizePool(gross)]
           ELSE seated]

Admit(m, u) ==
    participant' = [participant EXCEPT ![m][u] =
        [@ EXCEPT !.status = "APPROVED", !.paid = IsPaid(m)]]

InviteUsable(i) ==
    /\ invite[i].created
    /\ ~invite[i].expired
    /\ MaxUses[i] # 0 => invite[i].used < MaxUses[i]

InviteFree_Unlocked(i) == TRUE
(* Between its reservation and the end of the transaction that reserved it  *)
(* the row of an invite is locked.                                          *)
InviteFree(i) == \A s \in Slots : tx[s].invite # i

(* reserveBolaoInviteUse: the conditional increment of usedCount is the     *)
(* first statement of the transaction and decides under the lock; others    *)
(* see it at the commit.                                                    *)
ReserveInvite(i) ==
    IF i = None THEN UNCHANGED invite
    ELSE invite' = [invite EXCEPT ![i].used = @ + 1]

(* JoinBolaoService (i = None) and UseBolaoInviteService: everything that   *)
(* is read before the first write, and the early returns it decides. An     *)
(* approved participant who repeats an invite gets an answer and no effect. *)
JoinRead(t, m, u, i) ==
    /\ i # None => InviteMesa[i] = m /\ InviteUsable(i) /\ InviteFree(i)
    /\ u \in pro
    /\ mesa[m].status = "ACTIVE"
    /\ RegistrationOpen(m)
    /\ HasSeat(m)
    /\ u # Creator[m]
    /\ participant[m][u].status # "APPROVED"
    /\ ~participant[m][u].paid
    /\ Begin(t, [Idle EXCEPT !.op = "join", !.mesa = m, !.user = u, !.invite = i,
                             !.existing = participant[m][u].status # "ABSENT"])
    /\ UNCHANGED <<mesa, participant, wallet, ledger, invite, pro, clock>>

(* The writes: they check the balance, the seats and the unique indexes     *)
(* again, and nothing else.                                                 *)
JoinCommit(t) ==
    LET m == tx[t].mesa
        u == tx[t].user
        i == tx[t].invite
    IN  /\ tx[t].op = "join"
        /\ EntryPossible(m, u)
        /\ SeatLeft(m)
        /\ ~tx[t].existing => participant[m][u].status = "ABSENT"
        /\ ReserveInvite(i)
        /\ DebitEntry(m, u)
        /\ TakeSeat(m)
        /\ Admit(m, u)
        /\ End(t)
        /\ UNCHANGED <<pro, clock>>

-----------------------------------------------------------------------------
(* ReviewBolaoRequestService by the owner of the Mesa.                      *)
ReviewRead(t, m, u, verdict) ==
    /\ mesa[m].status = "ACTIVE"
    /\ verdict = "approve" => RegistrationOpen(m) /\ HasSeat(m)
    /\ participant[m][u].status = "PENDING"
    /\ verdict = "approve" => ~participant[m][u].paid
    /\ Begin(t, [Idle EXCEPT !.op = verdict, !.mesa = m, !.user = u,
                             !.existing = TRUE])
    /\ UNCHANGED <<mesa, participant, wallet, ledger, invite, pro, clock>>

RejectCommit(t) ==
    LET m == tx[t].mesa
        u == tx[t].user
    IN  /\ tx[t].op = "reject"
        /\ participant' = [participant EXCEPT ![m][u].status = "REJECTED"]
        /\ End(t)
        /\ UNCHANGED <<mesa, wallet, ledger, invite, pro, clock>>

ApproveCommit(t) ==
    LET m == tx[t].mesa
        u == tx[t].user
    IN  /\ tx[t].op = "approve"
        /\ EntryPossible(m, u)
        /\ SeatLeft(m)
        /\ DebitEntry(m, u)
        /\ TakeSeat(m)
        /\ Admit(m, u)
        /\ End(t)
        /\ UNCHANGED <<invite, pro, clock>>

-----------------------------------------------------------------------------
(* CloseRankingService: reached by the owner or an administrator (force) at *)
(* any time, and by the sweep of expired Mesas after the end date.          *)
CloseRead(t, m, force) ==
    /\ mesa[m].status \in {"ACTIVE", "DRAFT"}
    /\ force \/ clock[m] = "ended"
    /\ Begin(t, [Idle EXCEPT !.op = "closeRead", !.mesa = m, !.seen = mesa[m]])
    /\ UNCHANGED <<mesa, participant, wallet, ledger, invite, pro, clock>>

SettlementReady_FullBlocked(m, seen) ==
    /\ seen.current = Cardinality(Approved(m))
    /\ seen.current < MaxParticipants[m]
(* MesaIntegrityService.inspect on the row read first and the participants  *)
(* read by a second query.                                                  *)
SettlementReady(m, seen) ==
    LET paid == {u \in Approved(m) : participant[m][u].paid}
    IN  /\ seen.current = Cardinality(Approved(m))
        /\ seen.current <= MaxParticipants[m]
        /\ IsPaid(m) => Approved(m) = paid
        /\ seen.gross = IF IsPaid(m) THEN AccessCost[m] * Cardinality(paid) ELSE 0
        /\ seen.fee = IF IsPaid(m) THEN PlatformFee(seen.gross) ELSE 0
        /\ seen.pool = IF IsPaid(m) THEN PrizePool(seen.gross) ELSE SponsorPool[m]

CloseCheck(t) ==
    /\ tx[t].op = "closeRead"
    /\ ~tx[t].seen.settled => SettlementReady(tx[t].mesa, tx[t].seen)
    /\ Step(t, [tx[t] EXCEPT !.op = "closeChecked"])
    /\ UNCHANGED <<mesa, participant, wallet, ledger, invite, pro, clock>>

(* RankingWindowScoreService.buildRows reads the approved participants anew. *)
CloseRank(t) ==
    /\ tx[t].op = "closeChecked"
    /\ Step(t, [tx[t] EXCEPT !.op = "closeRanked", !.rows = Approved(tx[t].mesa)])
    /\ UNCHANGED <<mesa, participant, wallet, ledger, invite, pro, clock>>

(* SettleBolaoService: the pool of the row that was read, shared among the  *)
(* rows; a sponsored prize goes only to winners who are PRO at that moment. *)
SettledFee(m, seen) == IF IsPaid(m) THEN PlatformFee(seen.gross) ELSE 0
SettledPool_NoFee(m, seen) == IF IsPaid(m) THEN seen.gross ELSE SponsorPool[m]
SettledPool(m, seen) == IF IsPaid(m) THEN PrizePool(seen.gross) ELSE SponsorPool[m]

PayoutsOf(m, seen, rows) ==
    Payouts(SettledPool(m, seen), Shares[m], rows, Standing, Order)

Eligible(m, u) == IsSponsored(m) => u \in pro

PayoutEntries(m, seen, rows) ==
    LET payout == PayoutsOf(m, seen, rows)
    IN  {[key |-> PayoutKey(m, u), user |-> u, type |-> "CREDIT",
          amount |-> payout[u]] : u \in {w \in DOMAIN payout : Eligible(m, w)}}

NotSettled_Unchecked(m, payout) == TRUE
(* settledAt is still null, and no payout key exists.                       *)
NotSettled(m, payout) ==
    /\ ~mesa[m].settled
    /\ \A u \in DOMAIN payout : Eligible(m, u) => ~Posted(PayoutKey(m, u))

(* The database refuses an entry of zero coins (wallet_ledger_amount_positive), *)
(* and with it the whole settlement.                                        *)
AmountsPositive(m, payout) ==
    \A u \in DOMAIN payout : Eligible(m, u) => payout[u] > 0

SettledRow_NoDate(m, seen) == [mesa[m] EXCEPT !.status = "CLOSED"]
SettledRow(m, seen) ==
    [mesa[m] EXCEPT !.fee = SettledFee(m, seen), !.pool = SettledPool(m, seen),
                    !.settled = TRUE, !.status = "CLOSED"]

Settle(m, seen, rows) ==
    LET payout == PayoutsOf(m, seen, rows)
    IN  /\ NotSettled(m, payout)
        /\ AmountsPositive(m, payout)
        /\ ledger' = ledger \cup PayoutEntries(m, seen, rows)
        /\ wallet' = [u \in Users |->
              IF u \in DOMAIN payout /\ Eligible(m, u)
              THEN wallet[u] + payout[u] ELSE wallet[u]]
        /\ mesa' = [mesa EXCEPT ![m] = SettledRow(m, seen)]

CloseCommit(t) ==
    LET m == tx[t].mesa
        rows == tx[t].rows
    IN  /\ tx[t].op = "closeRanked"
        /\ participant' = [participant EXCEPT ![m] = [u \in Users |->
              IF u \in rows
              THEN [@[u] EXCEPT !.place = Position(rows, Standing, u)]
              ELSE @[u]]]
        /\ IF tx[t].seen.settled
           THEN /\ mesa' = [mesa EXCEPT ![m].status = "CLOSED"]
                /\ UNCHANGED <<wallet, ledger>>
           ELSE Settle(m, tx[t].seen, rows)
        /\ End(t)
        /\ UNCHANGED <<invite, pro, clock>>

-----------------------------------------------------------------------------
(* Any transaction may fail; PostgreSQL then keeps none of its writes.      *)
Abort(t) ==
    /\ tx[t].op # "idle"
    /\ End(t)
    /\ UNCHANGED <<mesa, participant, wallet, ledger, invite, pro, clock>>

(* Time, the expiry of invites and the end of subscriptions.                *)
Tick(m) ==
    /\ clock[m] # "ended"
    /\ clock' = [clock EXCEPT ![m] = IF @ = "before" THEN "open" ELSE "ended"]
    /\ UNCHANGED <<mesa, participant, wallet, ledger, invite, pro, tx>>

ExpireInvite(i) ==
    /\ invite[i].created /\ ~invite[i].expired
    /\ invite' = [invite EXCEPT ![i].expired = TRUE]
    /\ UNCHANGED <<mesa, participant, wallet, ledger, pro, clock, tx>>

LapsePro(u) ==
    /\ u \in pro \cap MayLapse
    /\ pro' = pro \ {u}
    /\ UNCHANGED <<mesa, participant, wallet, ledger, invite, clock, tx>>

-----------------------------------------------------------------------------
Next ==
    \/ \E m \in Mesas : CreateMesa(m) \/ Tick(m)
    \/ \E i \in Invites : CreateInvite(i) \/ ExpireInvite(i)
    \/ \E u \in Users : LapsePro(u)
    \/ \E t \in Slots :
          \/ \E m \in Mesas, u \in Users :
                \/ \E i \in Invites \cup {None} : JoinRead(t, m, u, i)
                \/ \E v \in {"approve", "reject"} : ReviewRead(t, m, u, v)
          \/ \E m \in Mesas, force \in BOOLEAN : CloseRead(t, m, force)
          \/ JoinCommit(t) \/ RejectCommit(t) \/ ApproveCommit(t)
          \/ CloseCheck(t) \/ CloseRank(t) \/ CloseCommit(t)
          \/ Abort(t)

Spec == Init /\ [][Next]_vars

-----------------------------------------------------------------------------
(* What the Mesas promise.                                                  *)

(* A Mesa never admits more participants than its limit, however many       *)
(* requests saw the last seat free: the counter stays within the limit and  *)
(* never falls below the number of approved participants.                   *)
SeatsWithinCapacity ==
    \A m \in Mesas : /\ Cardinality(Approved(m)) <= mesa[m].current
                     /\ mesa[m].current <= MaxParticipants[m]

(* Where no request of an earlier release is pending, the counter is exactly *)
(* the number of approved participants, so the preflight of the settlement  *)
(* never blocks a Mesa because of a duplicated or lost entry.               *)
SeatCountExact ==
    (\A m \in Mesas : Pending[m] = {}) =>
        \A m \in Mesas : mesa[m].current = Cardinality(Approved(m))

(* What a Mesa says it collected is what its participants were debited: one *)
(* entry debit in the ledger for each user marked as paid, none for anyone  *)
(* else, and grossCollected is their sum.                                   *)
CollectedIsDebited ==
    \A m \in Mesas :
        /\ \A u \in Users : participant[m][u].paid <=> Posted(EntryKey(m, u))
        /\ mesa[m].gross = AccessCost[m] * Cardinality(PaidUsers(m))

(* Nobody is paid by a Mesa that did not admit them, and nobody is paid     *)
(* before the Mesa is settled.                                              *)
PayoutsFollowAdmission ==
    \A m \in Mesas, u \in Users :
        Posted(PayoutKey(m, u)) =>
            /\ mesa[m].settled
            /\ participant[m][u].place > 0
            /\ IsPaid(m) => participant[m][u].paid

(* A settlement creates no coins: what a Mesa pays is at most what it       *)
(* collected less the fee, or the sponsor's prize.                          *)
PaidOut(m) ==
    SumFunction([e \in {e \in ledger : e.key \in {PayoutKey(m, u) : u \in Users}}
                   |-> e.amount])

PayoutsCovered ==
    \A m \in Mesas :
        PaidOut(m) <= IF IsPaid(m) THEN PrizePool(mesa[m].gross) ELSE SponsorPool[m]

(* An invite is used only by an entry that succeeded: the uses of the       *)
(* invites of a Mesa never exceed its participants, nor the invite's limit. *)
InviteUsesAreEntries ==
    /\ \A i \in Invites : MaxUses[i] # 0 => invite[i].used <= MaxUses[i]
    /\ \A m \in Mesas :
          SumFunction([i \in {i \in Invites : InviteMesa[i] = m} |-> invite[i].used])
             <= mesa[m].current

(* A settled Mesa is not opened again and pays nothing more.                *)
StaysSettled ==
    \A m \in Mesas : mesa[m].settled =>
        /\ mesa'[m].settled
        /\ mesa'[m].status = "CLOSED"
        /\ \A u \in Users : Posted(PayoutKey(m, u))' => Posted(PayoutKey(m, u))

(* What settles a Mesa pays the whole pool, to the last coin, if it ranks   *)
(* somebody and nobody it ranks is refused the prize of a sponsor.          *)
PaysItsPool ==
    \A m \in Mesas :
        LET ranked == {u \in Users : participant'[m][u].place > 0}
        IN  /\ ~mesa[m].settled /\ mesa'[m].settled
            /\ ranked # {} /\ \A u \in ranked : Eligible(m, u)
            => PaidOut(m)' = mesa'[m].pool

(* A Mesa is settled once, and in full: two requests that close it at the   *)
(* same time do not pay twice, and whatever the ties, the percentages and   *)
(* the coins that cannot be split, one of them pays the pool it records     *)
(* (CloseRankingService, SettleBolaoService, calculatePayouts).             *)
SettledOnceInFull == [][StaysSettled /\ PaysItsPool]_vars

(* Coins move only with their entries: the Mesas implement the wallet.      *)
Wallet == INSTANCE WalletLedger
    WITH Users <- Users, Keys <- Keys, InitialBalance <- InitialBalance,
         wallet <- wallet, ledger <- ledger
ImplementsWallet == Wallet!WalletSpec

(* The policy of the fee: everything a paid Mesa collected, less a tenth    *)
(* rounded down, reaches its winners.                                       *)
PoolReachesWinners ==
    \A m \in Mesas : mesa[m].status = "CLOSED" /\ IsPaid(m) =>
        PaidOut(m) = PrizePool(mesa[m].gross)

-----------------------------------------------------------------------------
(* The sweep of expired Mesas runs every minute (the worker's scheduler and *)
(* the internal route); one run may fail, but not every run. This presumes  *)
(* that no worker dies in the middle of a sweep: the execution it leaves    *)
(* RUNNING would stop the later ones, as Rounds shows for another job.      *)
SweepFairness ==
    \A t \in Slots, m \in Mesas :
        /\ SF_vars(CloseRead(t, m, FALSE))
        /\ SF_vars(tx[t].mesa = m /\ CloseCheck(t))
        /\ SF_vars(tx[t].mesa = m /\ CloseRank(t))
        /\ SF_vars(tx[t].mesa = m /\ CloseCommit(t))
        /\ WF_vars(Abort(t))

FairSpec == Spec /\ SweepFairness

(* A Mesa whose end date has passed is eventually closed and settled.       *)
ExpiredMesaCloses ==
    \A m \in Mesas :
        (clock[m] = "ended" /\ mesa[m].status = "ACTIVE") ~> mesa[m].settled
=============================================================================
