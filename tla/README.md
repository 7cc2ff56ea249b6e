# fantasy12-api: a verification project

`fantasy12-api` is the backend of a football prediction game: an Express API and a BullMQ worker on
PostgreSQL (Prisma, READ COMMITTED, no explicit row locks) with sessions in Redis. Users predict the
twelve matches of a *round*, spend *benefits* (Dupla, Super Dupla) on multipliers, are scored and
ranked, and compete in private pools (*Mesas*) for coins (*tampinhas*) that they buy through Mercado
Pago. Everything that can go wrong here goes wrong between requests: every handler reads rows, decides
in JavaScript and writes later, while the other handlers, the minute scheduler and the webhook of the
payment provider do the same. This directory models that.

Paths below are relative to `src/` of the repository; `services/` is `src/services/`.

## 1. The system

| Component | State it keeps | Operations | Interacts with |
|---|---|---|---|
| Mesas: entry (`services/bolao`) | `rankings` of type BOLAO (status, currentParticipants, grossCollected, platformFee, prizePool, settledAt), `ranking_participants`, `bolao_invites` | create, invite, join, review | wallet (entry debit), subscriptions (PRO only) |
| Mesas: settlement (`services/ranking/close-ranking`, `services/bolao/settle-bolao`) | the same, payouts in `wallet_ledger` | close (owner, administrator, minute sweep), settle | wallet (payouts), rankings (positions), jobs |
| Prize division (`bolao-prize.service.ts`) | none | fee, validation of distributions, payouts | settlement |
| Wallet (`services/wallet`, `services/admin/admin-wallet-credit`) | `wallets.balance`, `wallet_ledger` | credit, debit | payments, purchases, Mesas, administrators |
| Rounds (`services/round`) | `rounds` (status, result, openAt, closeAt) | create, edit, open, close, cancel, set the result | benefits, scoring, jobs |
| Tickets (`services/ticket`) | `tickets` | submit | rounds, benefits |
| Benefits (`services/benefits`) | `round_benefits`, `user_benefit_inventory` | grant, consume, purchase, reward | rounds, tickets, wallet |
| Scoring (`services/score`) | `user_score_history`, `users.scoreTotal` | score a round, recompute all | rounds, rankings |
| Rankings (`services/ranking`) | `rankings`, `ranking_participants`, `ranking_snapshots` | create, recalculate, snapshot, monthly | scoring, Mesas |
| Jobs (`services/internal`, `services/jobs`, `src/jobs`, `src/worker.ts`) | `internal_job_executions`, the queue | run a job once, schedule | rounds, rankings |
| Payments (`services/payment`) | `payments`, `payment_webhook_events` | checkout, webhook | Mercado Pago, wallet, subscriptions |
| Subscriptions (`services/subscription`) | `subscriptions` | checkout, renew, cancel, set by hand | payments, Mesas, benefits |
| Accounts and sessions (`services/auth`, `src/lib/redis-session-store.ts`, `services/admin`) | `users` (lockout, sessionVersion, block), `user_admin_roles`, reset tokens, sessions in Redis | login, reset, change, block, revoke, roles | all requests |
| Deployment (`.github/workflows/deploy.yml`, `scripts`, `prisma/seed*`) | `_prisma_migrations` and the schema, the code directory and container of the server, history backups, dumps, the rows of the seeds | CI checks, cutover, migrate, build, dump, verify, restore, bootstrap | prisma migrate, PostgreSQL, EasyPanel (external) |

What makes each component correct, and which behaviour is hard:

* **Mesas** never admit more than their limit, collect exactly what they debited, pay once, only
  admitted participants and at most the pool, and close after their end. Hard: the last seat and the
  last use of an invite, joining or reviewing while the Mesa is closed, two closings at once, an
  earlier release's pending requests, payouts that round to nothing.
* **Wallet**: balance and ledger agree, no balance is negative. Hard: debits that both read enough.
* **Rounds**: one open round, benefits spent once, one result per round, scored once. Hard: every
  handler reads the status first and writes it unconditionally later; the worker may die between
  statements.
* **Payments**: an approved payment takes effect once and nothing else does. Hard: notifications are
  duplicated, late, reordered, concurrent and come in two forms; the provider is asked before the
  transaction begins.
* **Jobs**: each job does its work once and eventually does it. Hard: death between check, creation
  and end of an execution, retries, HTTP calls of the same job.
* **Rankings and scoring**: totals equal the sum of the rounds, windows count the rounds in them.
  Hard: rounds scored out of order, a recomputation that is not one transaction.
* **Accounts**: lockout cannot be evaded, a token is used once, revoked sessions stay revoked. Hard:
  the session store needs several Redis commands for each operation, every response saves the session
  again, and the revocation in Redis and the version in PostgreSQL are not one transaction.
* **Deployment**: what the migration history says is in the schema, no history row is lost, a bootstrap
  that ends is complete. Hard: pipelines cancelled between remote sessions, containers replaced while a
  pipeline works in them, steps that die half done and are run again.

`PROJECT.json` lists under `hazards` each of these at its line with the property that watches it, or
why none does yet.

## 2. Modules

| Module | Models | Role |
|---|---|---|
| `MesaPrize` | `bolao-prize.service.ts`, `ranking-tiebreak.service.ts` | fee, distributions, positions and the division of a pool in closed form |
| `MesaPayoutLoop` | `calculatePayouts` | the loops as the code runs them, refined to the closed form |
| `WalletLedger` | wallet and ledger | abstract specification: coins move only with fresh entries |
| `Mesa` | `services/bolao`, `close-ranking`, `close-expired-rankings` | concurrent transactions on Mesas; implements `WalletLedger` |
| `Rounds` | `services/round`, `ticket`, `benefits`, `score`, `internal`, `jobs` | requests and jobs as processes, statement by statement |
| `Payments` | `services/payment`, `subscription`, `wallet`, `benefits/purchase-benefits`, administrators | checkout, provider, webhook, wallet, subscriptions |
| `TicketScore` | `calculate-ticket-score.service.ts` | the score and the hits of one ticket, and the published rule |
| `Rankings` | `services/score`, `services/ranking`, `jobs/ensure-monthly-rankings`, the baseline of `join-bolao`, `scripts/repair-closed-bolao-scores.js` | history, totals, snapshots, monthly rankings and the scores of Mesas; uses `TicketScore` and `MesaPrize` |
| `Accounts` | `services/auth`, `redis-session-store.ts`, `change-password`, `admin-user-management` | logins, sessions, passwords, blocks, roles, command by command |
| `Worker` | `worker.ts`, `register-schedules.ts`, `internal-job-runner.service.ts`, `get-operational-status.service.ts` | the worker and the routes beside it, the queue, executions, what an operator sees |
| `Deployment` | `.github/workflows/deploy.yml`, the scripts it runs, `prisma/seed*` | pipelines, containers, migration history, backups, bootstrap |
| `MesaProofs`, `RoundsProofs`, `PaymentsProofs`, `RankingsProofs`, `AccountsProofs`, `WorkerProofs`, `DeploymentProofs` | | theorems about the module of the name |
| `SumProofs` | | lemmas on sums over finite sets, for the four that add up coins, points or uses |
| `MCMesa`, `MCMesaPayoutLoop`, `MCRounds`, `MCPayments`, `MCRankings`, `MCAccounts`, `MCWorker`, `MCDeployment` | | small instances for TLC |

### How code becomes actions

*A handler without a transaction* (most of `services/round`, the runner, the session store, the
cancellation of a subscription) has one action per statement or Redis command; what it read is kept in
`proc[p]`, and it may stop between any two (`Fail` for a throw, `Crash` or `Die` for the death of the
process).

*A handler in `prisma.$transaction`* is its reads, kept in `tx[t]` or `proc[p]`, and one commit action
with all its writes. That is sound at READ COMMITTED: a written row is locked until the commit, a
conditional UPDATE or unique index is evaluated on the committed row once the lock is granted, and
nobody sees the writes before the commit. So the writes take effect together with their *conditions
evaluated then*, while everything the code decided in JavaScript is decided on the *old* reads. Where
it matters that several reads of one transaction can see different commits they are actions of their
own (`CloseRead`/`CloseCheck`/`CloseRank`, `ReadPayment`/`ReadSubscription`); otherwise the reads of a
handler before its first write are one action. A throw, a timeout, a lost deadlock or a crash rolls
back (`Abort`, `Fail`).

*A step of a pipeline* is one remote session of `deploy.yml`; the script it runs is split where it
commits or writes a file.

*External.* Mercado Pago, BullMQ, `prisma migrate`, PostgreSQL's `pg_dump`/`pg_restore` and EasyPanel are
modelled from how `src/` uses them and marked `external` in the map.

### Correspondence

* `Mesa`: `mesa[m]` is the `rankings` row; `current`, `gross`, `fee`, `pool`, `settled` are
  `currentParticipants`, `grossCollected`, `platformFee`, `prizePool`, `settledAt`. The trigger of
  migration 20260809013000 keeps `rewardPool = prizePool` and `entryFee = accessCost`, so they are one
  field. `CreateMesa`, `CreateInvite`, `JoinRead`/`JoinCommit`, `ReviewRead`/`ApproveCommit`/
  `RejectCommit`, `CloseRead`/`CloseCheck`/`CloseRank`/`CloseCommit` are the services of these names;
  `EntryPossible`, `TakeSeat`, `Admit`, `ReserveInvite`, `Settle` are the helpers they call. Entry and
  review exist for a join without and with an invite. `Pending` holds requests of a release in which
  the owner approved entries: the code still reviews them. The DRAFT status of old Mesas occurs in no
  row the code creates and is left out. An invite's row is locked by the join that reserves it
  (`InviteFree`). What the competition yields is abstract: `Standing` and `Order` give each user a rank
  in the order of `RankingTiebreakService`, fixed per instance; the proofs hold for all of them.
* `Rounds`: `round`, `ticket`, `free`/`granted` (`round_benefits`), `inventory`, `history`, `score`,
  `snapshot` and `execution` are tables; `execution[j][r]` keeps how many rows are RUNNING and whether
  one is SUCCESS, all the runner looks at (nobody reads FAILED rows). Reading the due round and the
  runner's check are one action (`StartJob`), as are reading for an administrator and the reads of
  `OpenRoundService` (`ReadToOpen`). `Regrant` is `scripts/regrant-open-round-benefits.js`. Rounds are
  numbered in calendar order. What a user predicts is abstract: `Points[u][v]` is the score of the
  user's ticket under the result `v`, `Need[u]` the multipliers. The jobs also call
  `EnsureMonthlyRankingsService`, which changes nothing modelled here and can only throw (`Fail`).
  `ProcessRoundService` is called from nowhere.
* `Payments`: `Fetch` is everything before the transaction; `DuplicateEvent`, `RecordEvent`,
  `CommitStatus`, `CommitCredit`, `CommitRenewal` are the ways it ends. `Unlocked` is PostgreSQL's
  wait on the unique index for a transaction that inserted the same event. After a duplicate the code
  returns from an aborted transaction, so nothing of it is kept. `mp` and the notifications in `Sent`
  stand for Mercado Pago: statuses only move from pending to a decision and from approved to refunded,
  and a notification may be delivered any number of times in any order. Both checkouts (coins, months)
  have the same two transactions and are `CreatePayment` and `StoreCheckout`. `posted[p]` counts the
  entries or renewals of a payment. Months are the unit of time; a subscription's `startAt` is left out
  (the code that renews sets it in the past).
* `Rankings`: `history[u]` holds a user's `user_score_history` in order of creation, `snapshot`,
  `ranking`, `participant` and `scoreTotal` are tables or columns of these names. A scoring is
  `ScoreRound` (its transaction), `ListRankings`, one `Recalculate` per ranking and `Finish` (the
  snapshot); a recomputation is `ReadScored`, `WipeSnapshots`, `WipeHistory`, `ResetTotals`,
  `RebuildRound` and `RebuildSnapshot` per round and then the same recalculation; the backfill, which is
  run by hand, is `StartBackfill`, one `BackfillTicket` for each user of the round and
  `BackfillSnapshot`; the repair of a closed Mesa is `StartRepair`, `RepairRead` (what it computes for one
  Mesa) and `RepairWrite`. `Die` may end each anywhere. `EnsureMonthlyRankings` is called with the moment
  (`EnsureCurrent`) or with the moment before a late closing (`EnsureAtClosing`). A ranking's `buildRows`
  and the writes after it are one action, as are the reads and writes of `EnsureMonthlyRankings`. How a
  round gets its result and how two scorings of it race is `Rounds`: here `OPEN` stands for DRAFT too, a
  closed round has its result, cancelled rounds do not occur. `torn` is a history variable: it says that
  a recomputation died or was overlapped and none has run alone since. Prizes, seats and entry fees of
  the Mesas are `Mesa`.
* `Accounts`: a step is one Redis command of the store (`PersistKey` SET, `PersistIndex` SADD,
  `RemoveRead` GET, `RemoveKey` DEL, `RemoveIndex` SREM, `RevokeRead` SMEMBERS, `RevokeKeys`,
  `RevokeIndex`), or one query or transaction. `Load` and `Auth` are the session middleware and
  `authMiddleware` of any request, `EndResponse` the save that express-session makes after each.
  `store[s]` holds the `sessionVersion` the session was saved with. `owner` and `dead` are history
  variables: whose login made a session, and which sessions nobody should be able to use.
* `Worker`: each statement of the runner is a step (`Check`, `Create`, `AuditStart`, `Run`, `Finish`,
  `AuditFinish`, `MarkFailed`), any of which may fail (`StatementFails`). A reference is a job with its
  period; `running` and `success` count rows, `failed24h` and `over30m` are what
  `GetOperationalStatusService` turns into `Critical`. What a job does is `Run`; `Rounds`, `Mesa` and
  `Rankings` detail it; `SweepLogsError` is a sweep that logs the failure of a closing and returns, so that
  it is written SUCCESS and the Mesa stays due. `Start`, `RegisterSchedules` and the reconcile at startup are `main` of
  `worker.ts`, `Terminate` and `Exit` its SIGTERM handler, `Die` the kill nobody handles. `Calls` are
  requests to `/internal/jobs`, which run the same services beside the queue; `LoseLock` is a stalled
  job that BullMQ gives to another while its run goes on.
* `Deployment`: `Push` … `Trigger` are the steps of the workflow; a newer pipeline cancels an older one,
  whose open session ends (`EndSession`). `Snapshot`, `Cutover`, `CopyBackup` are the cutover that
  replaces the legacy history by one baseline; `MigrateStart`/`Apply`/`MigrateDies` are
  `prisma migrate deploy` with its advisory lock and the unfinished row a death leaves. A schema is the
  set of objects its migrations create; none drops one. `AuditPasses` is what the CI checks of a release:
  the tables of `ALTER TABLE` and `REFERENCES`, by name. Columns, backfills and objects created twice are
  for the database to refuse. `Dump`, `Verify`, `Restore` are the backup scripts; `Inspect`,
  `StartSeeds`, `SeedPermission`, `Seed`, `SeedTeam` the bootstrap; `CreateTeam` the route beside it.

Left out everywhere: authorization by route, audit rows, wording of errors, formats of dates and
predictions. Fractions of the prize are exact where the code uses doubles.

## 3. Runs

| Run | Instance | Shows |
|---|---|---|
| `mesa_paid` | 2 paid Mesas (2 seats and 1), 2 users who share wallets, 3 transactions | `SeatCountExact`, `CollectedIsDebited`; `ImplementsWallet`: every step is a posting of `WalletLedger` or leaves it alone |
| `mesa_mixed` | a paid Mesa of 1 seat and a sponsored one of 2, 1 invite of one use, a pending request on each, a subscription that ends, 2 transactions | types, `SeatsWithinCapacity`, `PayoutsFollowAdmission`, `PayoutsCovered`, `InviteUsesAreEntries`; `SettledOnceInFull`: two closings at once settle a Mesa once, and the settlement pays the whole pool it records |
| `mesa_sweep` | 1 Mesa, 3 users, 2 transactions, fairness of the sweep | `ExpiredMesaCloses`, where every prize is worth a coin |
| `mesa_payout_loop` | ties of up to four rows, five pools, five distributions | the loops divide the pool exactly, tied rows get the same or one coin apart (`DividedFairly`), compute the closed form (`ComputesPayouts`), stop (`Terminates`) |
| `rounds` | two instances in one: 2 rounds and a user who spends benefits in both; 1 round, 2 users, 2 results | `SingleOpenRound`, `BenefitsSpentOnce`, `ScoreIsSumOfHistory`, `SameResultForAll` |
| `payment_webhook` | a coin payment with two attempts (one partial and of the legacy form), a subscription payment, 2 deliveries at once | `EffectIsBacked`, `EffectsBoundedByConcurrency`, `ApprovalNotSwallowed`, `WalletAccounts`, `AccessIsPaid` |
| `ranking_scores` | 3 rounds (before, at the end of and after the window), a month and a Mesa, 2 users, 2 processes | `HistoryIsExact`, `HistoryFollowsRule`, `BaselineExact`, `ClosingCountsWindow`, `ClosedScoresStay`, `SnapshotIsStanding` |
| `accounts` | a user and an administrator, 2 sessions, 1 reset token, 2 requests at once | `GuessesBounded`, `TokenSpentOnce`, `DeadSessionsRefused`, `LockIsKept`, `AdminsRemain` |
| `worker` | 1 worker, 2 calls of a route, 2 scheduled jobs, 2 attempts, one fault or one deploy, fairness | `RunningIsRun`, `SucceedsOnce`, `DueIsServedOrReported` |
| `deployment` | 2 pipelines, 6 releases (one that the audit refuses, two that it passes and no database takes), 7 first databases, 1 death, 2 bootstraps, a dump and restores | `HistoryTellsSchema`, `RemovedRowsAreBackedUp`, `RefusalsAreExplained`, `BootstrapIsComplete` |

Two runs end in a violation; each states what the repository's documents say and the code does not do:

* `mesa_late_entry` (`PoolReachesWinners`): a join that read the Mesa ACTIVE commits after the
  settlement; its coins are collected and reach nobody.
* `payment_twice` (`EffectOnce`): two notifications of one payment handled at once both credit it.

The properties of the other runs say what remains true where the code is not exact, and name the
exception: `EffectsBoundedByConcurrency` bounds a payment's effects by the deliveries that run at the
same time, so one when they come one after the other; `BaselineExact` and `ClosingCountsWindow` speak
of a baseline read when the rounds before the start were scored (a round scored later than that counts
in the window; the code does not keep two rounds from closing at one moment, and of two that do, one scored
while the other is open counts in the base of a ranking that the other opens: `InOrder` leaves that out);
`ClosedScoresStay` names the recalculation that listed a ranking before it closed;
`LockIsKept` the login that read the account before it was locked; `DeadSessionsRefused` leaves out a
logout that another request of the session overlapped; `DueIsServedOrReported` says done *or* CRITICAL,
for an execution whose process died stays RUNNING and refuses every later one, and of a sweep whose
closings fail only that sweeps go on to try (`[]<>` of `SweepLogsError`): the Mesa stays due and no issue
reports it; `RefusalsAreExplained` names the row the old release writes between two migrations, and the
migration that lacks an object or creates one that is there, which the audit cannot see.

### Bounds, and why they are enough

Every race described above needs two or three actors: one that read, one that changed what it read,
and for the seats a third that takes the last one. `Slots`, `Pipes` and `Processes` have two or three
members; Mesas, rounds and payments as many as the properties relate (shared wallets need two Mesas,
the single open round two rounds, a benefit in the inventory two rounds that may spend it). Wallets are
too small for all entries at once, Mesas have fewer seats than users, the invite has one use: every
limit is reached.

Several runs hold more than one instance; a state constraint keeps apart the parts that share no state:

* `MCPayments`, `OneAtATime`: two attempts to pay; one attempt while the wallet is used; one
  subscription payment while time passes and the subscription is changed. `MaxEntries` and `MaxMonth`
  bound purchases, corrections and time; `Outcomes` leaves "cancelled" out of the instance, which the
  handler treats as "rejected".
* `MCRounds`, `OneAtATime`: the calendar (two rounds that compete, a user who spends) and the score (one
  round closed, given results, changed and scored by several at once). `Ordered` lets the first user
  play and be granted first, `OneCrash` leaves one execution RUNNING for ever, `GrantedAtOnce` gives the
  user without benefits nothing in one step.
* `MCRankings`, `RoundsInOrder` and `Focus`: rounds close in order and at most one moment early (they are
  still *scored* in any order); the month or the Mesa; a recomputation, backfill or repair at the last
  moment, overlapped by a scoring where nobody is in a ranking. Two recomputations at once are left out,
  because the job runner admits one a day.
* `MCAccounts`, `Guessing`, `Sessions`, `Administering`, `ChangedOnce`: guesses against one account;
  sessions of an account whose password is changed or reset once, with the requests that overlap it; an
  administrator who blocks and gives out roles. `MaxFailed` is 2 where the code has 5: what matters is
  that two requests may pass it together.
* `MCWorker`, `OneTrouble` and `CallsRace`: one fault (death, failed statement or lost lock), or one deploy
  or outage of Redis; two calls race with no worker up, or the worker keeps up with what is due. Only
  steps that no fairness asks for are cut off.
* `MCDeployment`, `OneScene`: two pipelines; a dump with one of them; a bootstrap by itself. Of the releases
  that the database refuses at most one is under way, without a dump (`Untaken`).

Processes and transactions are symmetric, and no liveness property is checked under symmetry. Nothing
else is bounded: tickets, grants, executions and attempts end by themselves.

Deadlock is not checked: the system may stop where everything is closed, scored, settled or paid.

### Fairness

`SweepFairness` (`Mesa`) is strong fairness of the steps of the job that `register-schedules.ts` fires
every minute and BullMQ retries: a run may fail and another may get in the way, but not every minute for
ever. No user or administrator is assumed to do anything. It presumes that no worker dies in the middle
of a sweep; what happens then is `Worker`.

`Fairness` (`Worker`) is weak fairness of what a live process does next (each statement of the runner,
the startup and shutdown of the worker, which the platform starts again), of the return of Redis, of its
schedules and of time; and strong fairness of taking a job of each schedule, because the worker is busy in
between but its line is served in order. Nothing is assumed of calls, faults, deploys or outages.

`mesa_sweep` needs prizes that are worth a coin: with an access of 1 coin and prizes of 90% and 10% the
payout of zero is refused by the CHECK on the ledger (`AmountsPositive`), every sweep fails and the same
property is violated: such a Mesa stays due, and the operational status is not CRITICAL for it (`Worker`).

## 4. Proofs

The theorems hold for every value of the constants that satisfies the assumptions of their module: any
number of Mesas, users, rounds, matches, payments, releases and migrations, and of transactions, requests,
deliveries or pipelines at once. The assumptions, each named in the module that declares the constants:

* `TermsAssumption` (`Mesa`): what `MesaCategoryRules.validate` and `validateDistribution` enforce;
  `DataAssumption`: tables are finite, and the technical order of users is strict
  (`ranking-tiebreak.service.ts:36` compares ids). `DivisionAssumption` (`MesaPayoutLoop`) says the same of
  the rows, the order and the distributions that the loops are given.
* `RoundsAssumption`, `AccountsAssumption`, `WorkerAssumption`: types, finite tables, jobs that exist.
* `PaymentsAssumption`: besides types, a payment is for coins or for months, never both (two checkouts).
* `MatchCountAssumption` (`TicketScore`) and `RankingsAssumption`: finitely many users and rounds, a
  month and a Mesa end after they start (`create-bolao.service.ts:66`).
* `DeploymentAssumption`: no migration needs what it creates itself, an accepted drift is no object of the
  baseline (both by definition), and types. Nothing is assumed of how the migrations of a release fit
  together, because no step of the CI applies a chain to a database.

| Module | Theorem | States |
|---|---|---|
| `MesaProofs` | `TypeCorrect` | `[]TypeOK`; so no wallet is negative and no entry moves zero coins |
| | `LifecycleHolds` | nothing belongs to a Mesa before it exists, a settled one is closed, a closing that may still settle read it unsettled |
| | `SeatsHold` | `[]SeatsWithinCapacity` |
| | `SeatCountHolds` | `[]SeatCountExact`, without requests of an earlier release |
| | `InvitesHold` | `[]InviteUsesAreEntries` |
| | `CollectedHolds` | `[]CollectedIsDebited` |
| | `PayoutsHold` | `[]PayoutsFollowAdmission` |
| | `PayoutsAreCovered` | `[]PayoutsCovered` |
| | `PrizeIsPaidInFull` | the payouts of a prize add up to the pool |
| | `PrizeIsDividedFairly` | `LoopSpec => []DividedFairly` |
| | `LoopsComputePayouts` | `LoopSpec => []ComputesPayouts` |
| | `LoopsFindNext` | the loops are never without a next group or a next row |
| | `SettlesOnceInFull` | `SettledOnceInFull` |
| | `MesaImplementsWallet` | `ImplementsWallet`, the refinement of `WalletLedger` |
| `RoundsProofs` | `TypeCorrect` | `[]TypeOK` |
| | `OneRoundOpen` | `[]SingleOpenRound` |
| | `OneResultPerRound` | `[]SameResultForAll` |
| | `BenefitsOnce` | `[]BenefitsSpentOnce` |
| | `TotalsAreSums` | `[]ScoreIsSumOfHistory` |
| `PaymentsProofs` | `TypeCorrect` | `[]TypeOK` |
| | `EffectsBacked` | `[]EffectIsBacked` |
| | `EffectsBounded` | `[]EffectsBoundedByConcurrency` |
| | `ApprovalsKept` | `[]ApprovalNotSwallowed`, under `ApprovalIdsApart` |
| | `WalletsAddUp` | `[]WalletAccounts` |
| | `AccessNeverUnpaid` | `[]AccessIsPaid` |
| `RankingsProofs` | `TypeCorrect` | `[]TypeOK` |
| | `HistoryFollows` | `[]HistoryFollowsRule` |
| | `HistoryExact` | `[]HistoryIsExact` |
| | `BaselinesExact` | `BaselineExact` |
| | `ClosingsCount` | `ClosingCountsWindow` |
| | `ClosedStays` | `ClosedScoresStay` |
| | `SnapshotsStand` | `SnapshotIsStanding` |
| `AccountsProofs` | `TypeCorrect` | `[]TypeOK` |
| | `DeadStayRefused` | `DeadSessionsRefused` |
| | `LocksAreKept` | `LockIsKept` |
| | `AdminsStay` | `AdminsRemain` |
| | `TokensSpentOnce` | `[]TokenSpentOnce` |
| | `GuessesAreBounded` | `[]GuessesBounded` |
| `WorkerProofs` | `TypeCorrect` | `[]TypeOK` |
| | `RunningHasRunner` | `[]RunningIsRun` |
| | `SuccessBounded` | `[]SucceedsOnce` |
| `DeploymentProofs` | `HistoriesTell` | `[]HistoryTellsSchema` |
| | `RefusalsExplained` | `[]RefusalsAreExplained` |
| | `RowsAreBackedUp` | `[]RemovedRowsAreBackedUp` |
| | `BootstrapCompletes` | `[]BootstrapIsComplete` |

**Mesas.** `TypeOK` is inductive by itself, given that the amounts of `Payouts` are positive
numbers: the lemmas at the start of `MesaProofs` derive it from `IsDistribution` and the condition
`AmountsPositive` under which the ledger accepts a payout. `SeatsWithinCapacity` is inductive with it
and `Lifecycle`: a commit adds at most one approved participant and exactly one to the counter, under
the condition of the UPDATE, whatever the transaction read. `CollectedIsDebited` needs `Collected`,
which adds that an entry of the ledger belongs to a paid participant of that Mesa; the unique key makes
the debit new, so sum and set grow together. `PayoutsFollowAdmission` needs `Admission`: the rows an
open closing has read are participants who are still approved, and paid where the Mesa is paid, for a
review never rejects someone whose entry was paid for. This is the point where the stale reads of the
closing are harmless, and it is why `MesaInv == TypeOK /\ Lifecycle /\ Collected /\ Admission` is the
invariant. `SettledOnceInFull` and the refinement are then step properties under it. `StepCases`,
`EntryShape`, `CloseShape` and their like say once what each kind of step does to the tables, and the
preservation proofs have one case for each.

`PayoutsCovered` needs the arithmetic of the division: the floors add up to at most the pool, the
remainders to whole coins that are fewer than the winners (`FloorsUpTo`, `RemaindersNat`), and the order of
the remainders is strict, so exactly as many winners get one coin more as coins are left. The shares of the
groups of tied rows telescope, by induction over the rows in their order. `Covered` adds that a closing has
read no more than what is collected by its end. `InviteUsesAreEntries` needs `Reserved`: the row of an
invite is locked by the join that reserved a use of it, so one join at a time stands between the count and
the entries, whether it commits or rolls back.

That the division is also *complete* (`PrizeIsPaidInFull`) takes the other bound: what flooring leaves over
is not more than the number of winners (`RemainingIsFew`), and the places of a strict order on them are
1, 2, … without a gap (`WinnersHavePlaces`, from `PlacesOfOrder`), so the coins left are the coins handed out.
The loops keep `LoopInv`: while groups are weighed (`Weighing`) the groups done are the rows ahead of some
standing, and their weights are the share of those rows' places; while coins are handed out (`HandingOut`)
the rows at the first places of the remainder order have one coin more than their floor, one row for each
coin gone, and what is allocated and what remains add up to the pool. At the end this is the closed form;
in between it shows that a next group or row is always there (`LoopsFindNext`), and that the index of the
second loop wraps round only when no coin is left. `SettlesOnceInFull` lifts it to the Mesas: before a
settlement nobody has a place (`Unranked`), so the rows it ranks are those it read, and its entries are the
payouts of exactly these (`SettlementInFull`), unless somebody they rank is refused the prize of a sponsor.

**Rounds.** `Inv == TypeOK /\ Procs /\ Counting`. `Procs`: a process works on a round, one with a row in
`internal_job_executions` is under way, one about to commit scores took its result and tickets from the
database. `Counting`: each row a process will end is RUNNING, which is what keeps `running` from going
negative; it counts processes, so the step that begins or ends one needs the lemmas on cardinalities.
`SingleOpenRound` is inductive because the write itself is refused by the unique index on open rounds,
not because of the check before it. `SameResultForAll` is the deep one: the result may change while
scorings that read the old one are under way. Tickets only appear, so the sets of tickets that two
scorings read are comparable by inclusion, with each other and with the set of those already scored.
Two scorings that both have somebody to score would therefore score somebody twice, and the unique index
on the history makes the second fail. `FreeKept` adds up what a ticket took and what is left of a free
benefit: never more than the grant, and both zero before it. `InventoryKept` is the same for the paid ones,
as a sum over all rounds: the conditional UPDATE takes what the ticket records, in one transaction.
`ScoreIsSumOfHistory` follows the same pattern; a scoring that lost the race is refused by the unique index
before it adds to any total.

**Payments.** `Inv == TypeOK /\ Deliveries /\ Effects`. `Deliveries`: what a delivery works with is what
it fetched (`Known`, `Checked`); two deliveries of one event are not both past its insertion
(`EventsApart`); its event was sent (`EventSent`). `Effects`: a payment with effects has an approved
payment of the right amount behind it (`Backed`), and `processedAt` is set where something was posted
(`Marked`), at most as often
as events of it were recorded (`Counted`). For the bound, what was posted plus the deliveries that read `processedAt` empty and have not
finished (`Racing`) never exceed the number of processes. `WalletAccounts` weighs `posted` with the coins
of each payment (`PostedTo`), so an effect adds one summand and every other change is a counter of the
ledger; that no balance is negative is the condition of the UPDATE. `AccessKept` compares the end of a
subscription, and the end a renewal under way has computed from what it read, with what has been posted by
then: a renewal that read an earlier end writes an earlier one. `ApprovalIdsApart` assumes that the
notification of an approval for the right amount has an event id of its own; the legacy form does not,
and there the property does not hold.

**Accounts.** `Inv` is `TypeOK`, `Sound` of every request and `Kept` of every session: the version that a
key, or a request that may save it, holds never exceeds that of its account, and is lower where the session
is dead. The revocation in Redis plays no part in the argument: it is `sessionVersion` alone that protects,
which is why its failures and overlaps are harmless. `LockIsKept` and `AdminsRemain` follow from the
writers of the two columns and what each had read.

The last two theorems bound what passes a check that is read in one query and used in another, by the
number of requests that may have read it. `SpentBound`: a token that is unused was not spent, and what it
was spent plus the requests that read it unused never exceeds the number of requests; nobody joins them
once it is used (`OnlyReadsArrive`). `LockoutBound`: an account is locked from the attempt that reaches
`MaxFailed`, and its attempts plus the requests about to count one more stay below `MaxFailed` plus the
number of requests, which is added once and again for each lapse of the lock.

**Worker.** `Inv` adds to the types what a worker that is down or starts does (nothing), and for each
reference two counts of processes. `Accounted`: the processes in the middle of a row are at most the rows
RUNNING, and exactly as many while there was no fault; a death or a failed statement leaves a row without
process, never the reverse, so `running` stays natural. `Succeeded`: successes plus the processes that
looked before there was one never exceed the number of processes, and a success that a failing audit may
still turn into FAILED is one of those counted. Each action moves one process, so each changes a count by
one at most (`MoveCounts`), and only that of its own reference (`OneReference`).


**Rankings.** `Typed` is `TypeOK` with what each process carries. `DetailFollowsRule` shows that the loop
over the matches computes the published rule for any number of matches (by induction on the set of matches
seen), and `SoundRows` that every row was made by it, for a scored round and a player. The heart is
`HistoryHolds`, what is known at each moment about the history of a user (`Exact(u, S)`: it is that of the
rounds `S`, and in order each row accumulates the rounds so far). Its two parts: `Kept`, when no
recomputation is under way or was cut short or overlapped, the history is exact for the scored rounds; and
`Repair`, a recomputation that has been alone since it began holds the rounds it is done with, the others
have not been scored in between, and everybody else is outside. One that is not alone is `torn`, and stays
so until one runs alone to its end. From it, `CutIs` reads the history at a date or at a round number:
in order, the latest row of a cut is worth the rounds of the cut (`BeforeStands`, `UpToStands`). That gives
the baselines (`ScoreInitialIs`: either way of reading them, at whatever moment), the windows (`WindowIs`:
total before the end less the total before the start), and the snapshots (`SnapshotIs`). `ClosedStays`
rests on `Repairs`, what a repair has read. TLC sees one scene at a time of this (`Focus`); the theorems
hold for all of them together, backfills and overlapping recomputations included.

**Deployment.** `Inv` says of a database which nothing was restored over that its history tells its
schema (`Tells`, `Bare`), and of a pipeline that has passed its checks that the database is `Modern`: a
history of the new chain alone, whose objects, with an accepted drift, are all there is. The lock of
`prisma migrate` keeps a migration under way `Ready` whatever the others do; each of the cutover, the
beginning, the end and the death of a migration, and late rows, only go `Forward`. A migration that is
`Ready` follows those of its release that are done, so what it may miss or find there is told by `Lacks` and
`Clashes` of the release alone (`ReadyIsExplained`). `BackupsHold` follows
each backup from the container to the server, `BootHolds` the seeds in the order of their lists. A restore
while a pipeline is about to migrate, or onto something, makes a database `"over"`, of which nothing is
promised. TLC checks three scenes apart (`OneScene`); the theorems hold for any mixture of them.

**Sums.** The community modules define a sum as a fold over the set in an order of CHOOSE. `SumProofs`
shows that any element may be taken out first and from it how sums change. The library's induction over
finite sets takes a predicate as a parameter, which no installed prover can instantiate; `SumProofs` uses
minimal counterexamples (`WFMin`, over sets) in its place.

**Model-checked only.** All liveness, which is out of the prover's reach: `ExpiredMesaCloses`,
`DueIsServedOrReported` and `Terminates` (of which `LoopsFindNext` proves that the loops are never stuck on the
way). The two runs that end in a violation.

## 5. Plan

The modules were written in the order of what is at stake: `MesaPrize`, `WalletLedger`, `Mesa` with its
proofs, `Rounds`, `Payments`, `TicketScore`, `Rankings`, `Accounts`, `Worker`, `Deployment`. What is left:

1. `Rankings` in finer steps: reads and writes of a recalculation as two actions, so that two of them
   overwrite each other.
2. Runs for what the models already reach: tickets that commit after the round closed
   (`docs/spec-round-scheduling-automation.md:51`), a round opened again after its closing job
   succeeded, approvals that only come in the legacy form, a build of the code directory that another
   pipeline has just synced.
3. `Payments` as an implementation of a wallet whose credits are backed, and the wallet of `Mesa` and
   that of `Payments` as one.

## 6. Not modelled

* *HTTP layer*: validation, CSRF, signatures and rate limits come before the services and keep no state
  that the services read.
* *Prediction art* renders an image.
* *Simulation, QA and cleanup scripts* drive the services above with test data and delete it again.
* *Teams, matches and profiles*: single rows without a rule that relates two of them, but for the teams
  of the seed (`Deployment`). *Alerts and audit* report what they read; of the operational status the
  issues of jobs are in `Worker`.
* *Subscriptions*: the handlers of provider subscriptions (`process-mp-subscription-*.service.ts`) are
  called from nowhere, nothing else sets `externalSubscriptionId`, so the revalidation finds no row.
* *Benefits*: rewards and the changes administrators make to inventories.
* *Rankings*: `CreateRankingService` and `AddParticipantService` are called from no route; the links of
  `ranking_rounds` are written and never decide anything modelled.
* *Deployment*: the migrations of `start-production.sh` (documented as switched off) and the hardening
  check after a deploy.
* *Permissions*: which role may do what is a table.
