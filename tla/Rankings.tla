------------------------------ MODULE Rankings ------------------------------
(***************************************************************************)
(* Scoring and rankings: the score history, users.scoreTotal, the          *)
(* snapshots of a round, the monthly rankings and the score of a Mesa.     *)
(*                                                                         *)
(* A ranking stores a baseline (scoreInitial) when a user enters and shows *)
(* the difference between the user's total and it; rounds are scored when  *)
(* their results are in, in any order, and may be recomputed. How a round  *)
(* comes to be CLOSED with a result is Rounds; seats and coins of the      *)
(* Mesas are Mesa.                                                         *)
(***************************************************************************)
EXTENDS Integers, Sequences, FiniteSets, FiniteSetsExt, TicketScore

CONSTANTS
    Users,
    Since,            \* users.createdAt
    Pros,             \* users whose PRO subscription is active at each start
    Rounds,           \* the rounds, by number
    CloseAt,          \* rounds.closeAt
    Ticket,           \* the ticket of each user in each round, or None
    Result,           \* the result of each round
    Periods, Mesas,   \* the months and the Mesas
    Start, End,       \* startDate and endDate of both
    Processes,
    LastMoment,       \* bound on time
    None

Monthly == {"GLOBAL", "PRO"} \X Periods
Rankings == Monthly \cup ({"BOLAO"} \X Mesas)
StartDate(k) == Start[k[2]]
EndDate(k) == End[k[2]]
ParticipantRow == [scoreInitial : Int, score : Int, position : Nat]

(* Both a month and a Mesa end after they start (CreateBolaoService). None   *)
(* stands for the absence of a round, a ranking or a row.                   *)
ASSUME RankingsAssumption ==
    /\ IsFiniteSet(Users) /\ Since \in [Users -> Int] /\ Pros \subseteq Users
    /\ Rounds \subseteq Nat \ {0} /\ IsFiniteSet(Rounds) /\ CloseAt \in [Rounds -> Nat]
    /\ Ticket \in [Rounds -> [Users -> Tickets \cup {None}]]
    /\ Result \in [Rounds -> MatchResults]
    /\ Periods \cap Mesas = {}
    /\ Start \in [Periods \cup Mesas -> Nat] /\ End \in [Periods \cup Mesas -> Nat]
    /\ \A w \in Periods \cup Mesas : Start[w] < End[w]
    /\ None \notin Rounds \cup Rankings \cup ParticipantRow
    /\ LastMoment \in Nat

VARIABLES
    now,
    status,        \* rounds.status; OPEN stands for DRAFT too
    scoreTotal,    \* users.scoreTotal
    history,       \* user_score_history of each user, in order of creation
    snapshot,      \* ranking_snapshots of each round
    ranking,       \* rankings.status
    participant,   \* ranking_participants, APPROVED ones only
    proc,          \* the requests and jobs under way
    torn           \* a recomputation died or was overlapped (see below)

vars == <<now, status, scoreTotal, history, snapshot, ranking, participant,
          proc, torn>>
scores == <<scoreTotal, history>>
competitions == <<ranking, participant>>

HistoryRow == [round : Rounds, scoreRound : Int, scoreTotal : Int,
               doubles : Nat, supers : Nat]
SnapshotRow == [user : Users, scoreTotal : Int, scoreRound : Int,
                doubles : Int, supers : Int, position : Nat \ {0}]

Steps == {"idle", "list", "recalculate", "wipeSnapshots", "wipeHistory",
          "reset", "rebuild", "rebuildSnapshot", "backfill", "repairRead",
          "repairWrite"}
Rows == [Users -> ParticipantRow \cup {None}]
Process == [at : Steps, round : Rounds \cup {None}, todo : SUBSET Rounds,
            ids : SUBSET Rounds, list : SUBSET Rankings, clean : BOOLEAN,
            users : SUBSET Users, mesa : Rankings \cup {None},
            rows : Rows \cup {None}]
Idle == [at |-> "idle", round |-> None, todo |-> {}, ids |-> {}, list |-> {},
         clean |-> TRUE, users |-> {}, mesa |-> None, rows |-> None]

TypeOK ==
    /\ now \in 0..LastMoment
    /\ status \in [Rounds -> {"OPEN", "CLOSED", "SCORED"}]
    /\ scoreTotal \in [Users -> Int]
    /\ history \in [Users -> Seq(HistoryRow)]
    /\ snapshot \in [Rounds -> SUBSET SnapshotRow]
    /\ ranking \in [Rankings -> {"ABSENT", "ACTIVE", "CLOSED"}]
    /\ participant \in [Rankings -> Rows]
    /\ proc \in [Processes -> Process]
    /\ torn \in BOOLEAN

Init ==
    /\ now = 0
    /\ status = [r \in Rounds |-> "OPEN"]
    /\ scoreTotal = [u \in Users |-> 0]
    /\ history = [u \in Users |-> <<>>]
    /\ snapshot = [r \in Rounds |-> {}]
    /\ ranking = [k \in Rankings |-> IF k \in Monthly THEN "ABSENT" ELSE "ACTIVE"]
    /\ participant = [k \in Rankings |-> [u \in Users |-> None]]
    /\ proc = [p \in Processes |-> Idle]
    /\ torn = FALSE

Tick ==
    /\ now < LastMoment
    /\ now' = now + 1
    /\ UNCHANGED <<status, scores, snapshot, competitions, proc, torn>>

(* A round closes with its result: on time by the job, or at any time by an *)
(* administrator, who leaves closeAt as it is.                              *)
CloseRound(r) ==
    /\ status[r] = "OPEN"
    /\ status' = [status EXCEPT ![r] = "CLOSED"]
    /\ UNCHANGED <<now, scores, snapshot, competitions, proc, torn>>

-----------------------------------------------------------------------------
(* Queries on the history.                                                  *)
RowsOf(u) == {history[u][i] : i \in 1..Len(history[u])}
NoRow == [round |-> None, scoreRound |-> 0, scoreTotal |-> 0, doubles |-> 0,
          supers |-> 0]

(* The first row ORDER BY the round's closeAt, or number, DESC.             *)
LatestByClose(rows) ==
    IF rows = {} THEN NoRow
    ELSE CHOOSE h \in rows : \A g \in rows : CloseAt[g.round] <= CloseAt[h.round]
LatestByNumber(rows) ==
    IF rows = {} THEN NoRow
    ELSE CHOOSE h \in rows : \A g \in rows : g.round <= h.round

ClosingBefore(u, date) == {h \in RowsOf(u) : CloseAt[h.round] < date}
GetScoreTotalBefore(u, date) == LatestByClose(ClosingBefore(u, date)).scoreTotal

(* RankingTiebreakService: the official order is score, Super Dupla hits,   *)
(* Dupla hits, age of the account; equal rows share the best position.      *)
Ahead(v, u, a, b) ==
    \/ a.score > b.score
    \/ a.score = b.score /\ a.supers > b.supers
    \/ a.score = b.score /\ a.supers = b.supers /\ a.doubles > b.doubles
    \/ /\ a.score = b.score /\ a.supers = b.supers /\ a.doubles = b.doubles
       /\ Since[v] < Since[u]
Position(metrics, u) ==
    1 + Cardinality({v \in DOMAIN metrics : Ahead(v, u, metrics[v], metrics[u])})

In(k) == {u \in Users : participant[k][u] # None}

WindowTotal_Live(k, u, ended) == scoreTotal[u]
(* RankingWindowScoreService.buildRows: what the ranking shows before and *)
(* after its end.                                                           *)
WindowTotal(k, u, ended) ==
    IF ended
    THEN LET latest == LatestByClose(ClosingBefore(u, EndDate(k) + 1))
         IN  IF latest = NoRow THEN participant[k][u].scoreInitial
             ELSE latest.scoreTotal
    ELSE scoreTotal[u]
WindowMetrics(k, ended) ==
    [u \in In(k) |->
        LET latest   == LatestByClose(ClosingBefore(u, EndDate(k) + 1))
            baseline == LatestByClose(ClosingBefore(u, StartDate(k)))
        IN  [score |-> WindowTotal(k, u, ended) - participant[k][u].scoreInitial,
             supers |-> latest.supers - baseline.supers,
             doubles |-> latest.doubles - baseline.doubles]]

BuildRows(k, ended) ==
    LET metrics == WindowMetrics(k, ended)
    IN  [u \in Users |->
            IF u \notin In(k) THEN None
            ELSE [participant[k][u] EXCEPT !.score = metrics[u].score,
                                           !.position = Position(metrics, u)]]

(* The rows are written back to the participants.                           *)
WriteRows(k, ended) ==
    participant' = [participant EXCEPT ![k] = BuildRows(k, ended)]

-----------------------------------------------------------------------------
(* Entries.                                                                 *)
NewParticipant(total) == [scoreInitial |-> total, score |-> 0, position |-> 0]

RoundsOf(period) == {r \in Rounds : CloseAt[r] \in Start[period]..End[period]}
FirstRound(period) ==
    CHOOSE r \in RoundsOf(period) : \A q \in RoundsOf(period) : CloseAt[r] <= CloseAt[q]

RegistrationOpen(period, asOf) ==
    LET first == FirstRound(period)
    IN  status[first] = "OPEN" /\ CloseAt[first] > asOf
NeedsBootstrap(period) ==
    \E t \in {"GLOBAL", "PRO"} : In(<<t, period>>) = {}

(* Users created before the registration ends; for PRO, subscribers at the  *)
(* start of the month who were there at its start.                          *)
Eligible(k, asOf) ==
    LET date == IF RegistrationOpen(k[2], asOf) THEN asOf
                ELSE CloseAt[FirstRound(k[2])]
    IN  {u \in Users : /\ Since[u] < date
                       /\ k[1] = "PRO" => u \in Pros /\ Since[u] <= StartDate(k)}

(* The live total while the registration is open, else the total of the     *)
(* history before the first round.                                          *)
ScoreInitialFor(u, period, asOf) ==
    IF RegistrationOpen(period, asOf) THEN scoreTotal[u]
    ELSE GetScoreTotalBefore(u, CloseAt[FirstRound(period)])

(* EnsureMonthlyRankingsService: asOf is now, or the moment before the      *)
(* closing of a round that a late job is about to close.                    *)
EnsureMonthlyRankings(period, asOf) ==
    LET both == {"GLOBAL", "PRO"} \X {period}
        enrols == /\ RoundsOf(period) # {}
                  /\ RegistrationOpen(period, asOf) \/ NeedsBootstrap(period)
        Enter(k, u) ==
            IF enrols /\ k \in both /\ participant[k][u] = None /\ u \in Eligible(k, asOf)
            THEN NewParticipant(ScoreInitialFor(u, period, asOf))
            ELSE participant[k][u]
    IN  /\ ranking' = [k \in Rankings |->
                IF k \in both /\ ranking[k] = "ABSENT" THEN "ACTIVE" ELSE ranking[k]]
        /\ participant' = [k \in Rankings |-> [u \in Users |-> Enter(k, u)]]
        /\ UNCHANGED <<now, status, scores, snapshot, proc, torn>>

(* The monthly job, the opening of a round and the closing of a due one.    *)
EnsureCurrent(period) ==
    /\ \/ now \in Start[period]..End[period]
       \/ \E r \in RoundsOf(period) : status[r] = "OPEN"
    /\ EnsureMonthlyRankings(period, now)
EnsureAtClosing(r) ==
    /\ status[r] = "OPEN" /\ CloseAt[r] <= now
    /\ \E period \in Periods : /\ r \in RoundsOf(period)
                               /\ EnsureMonthlyRankings(period, CloseAt[r] - 1)

(* JoinBolaoService and the approval of a request: the baseline is what the *)
(* history holds of the rounds before the start.                            *)
JoinBaseline_Live(k, u) == scoreTotal[u]
JoinBaseline(k, u) == GetScoreTotalBefore(u, StartDate(k))
Join(k, u) ==
    /\ k[1] = "BOLAO" /\ ranking[k] = "ACTIVE"
    /\ StartDate(k) <= now /\ now < EndDate(k)
    /\ participant[k][u] = None
    /\ participant' = [participant EXCEPT ![k][u] = NewParticipant(JoinBaseline(k, u))]
    /\ UNCHANGED <<now, status, scores, snapshot, ranking, proc, torn>>

-----------------------------------------------------------------------------
(* Scoring a round.                                                         *)
Goto(p, step) == proc' = [proc EXCEPT ![p] = step]
Rebuilding(p) == proc[p].at \in {"wipeSnapshots", "wipeHistory", "reset",
                                 "rebuild", "rebuildSnapshot"}

Players(r) == {u \in Users : Ticket[r][u] # None}
Scored(r, u) == Detail(Ticket[r][u], Result[r])
Increment(r, u) == IF u \in Players(r) THEN Scored(r, u).total ELSE 0

(* user_score_history of the players of a round, given the row each one's   *)
(* hits are accumulated on.                                                 *)
AddRows(r, last) ==
    /\ scoreTotal' = [u \in Users |-> scoreTotal[u] + Increment(r, u)]
    /\ history' = [u \in Users |->
          IF u \notin Players(r) THEN history[u]
          ELSE Append(history[u],
                 [round |-> r, scoreRound |-> Scored(r, u).total,
                  scoreTotal |-> scoreTotal[u] + Scored(r, u).total,
                  doubles |-> last[u].doubles + Scored(r, u).doubles,
                  supers |-> last[u].supers + Scored(r, u).supers])]

LastByRound_First(u) == IF history[u] = <<>> THEN NoRow ELSE history[u][1]
LastByRound(u) == LatestByNumber(RowsOf(u))
LastCreated(u) == IF history[u] = <<>> THEN NoRow ELSE history[u][Len(history[u])]

(* A scoring while a recomputation is under way overlaps it.                *)
ScoreRound(p, r) ==
    /\ proc[p].at = "idle" /\ status[r] = "CLOSED"
    /\ AddRows(r, [u \in Users |-> LastByRound(u)])
    /\ status' = [status EXCEPT ![r] = "SCORED"]
    /\ torn' = (torn \/ \E q \in Processes : Rebuilding(q))
    /\ proc' = [q \in Processes |->
          IF q = p THEN [Idle EXCEPT !.at = "list", !.round = r]
          ELSE [proc[q] EXCEPT !.clean = @ /\ ~Rebuilding(q)]]
    /\ UNCHANGED <<now, snapshot, competitions>>

(* RecalculateRankingService: it lists the rankings that run once, then     *)
(* recalculates them one by one.                                            *)
ListRankings(p) ==
    /\ proc[p].at = "list"
    /\ Goto(p, [proc[p] EXCEPT !.at = "recalculate",
                  !.list = {k \in Rankings : ranking[k] = "ACTIVE" /\ EndDate(k) > now}])
    /\ UNCHANGED <<now, status, scores, snapshot, competitions, torn>>

Recalculate(p, k) ==
    /\ proc[p].at = "recalculate" /\ k \in proc[p].list
    /\ WriteRows(k, FALSE)
    /\ Goto(p, [proc[p] EXCEPT !.list = @ \ {k}])
    /\ UNCHANGED <<now, status, scores, snapshot, ranking, torn>>

(* SnapshotRankingService: once for a round, from the latest row by number  *)
(* of every user up to it.                                                  *)
ValidRounds_All(r) == {q \in Rounds : status[q] = "SCORED"}
ValidRounds(r) == {q \in Rounds : q <= r /\ status[q] = "SCORED"}
SnapshotRows(r) ==
    LET rows(u) == {h \in RowsOf(u) : h.round \in ValidRounds(r)}
        users == {u \in Users : rows(u) # {}}
        metrics == [u \in users |->
            LET latest == LatestByNumber(rows(u))
            IN  [score |-> latest.scoreTotal, supers |-> latest.supers,
                 doubles |-> latest.doubles]]
        OfRound(u) == {h \in RowsOf(u) : h.round = r}
    IN  {[user |-> u, scoreTotal |-> metrics[u].score,
          scoreRound |-> SumFunction([h \in OfRound(u) |-> h.scoreRound]),
          doubles |-> metrics[u].doubles, supers |-> metrics[u].supers,
          position |-> Position(metrics, u)] : u \in users}
SnapshotRanking(r) ==
    snapshot' = IF snapshot[r] # {} THEN snapshot
                ELSE [snapshot EXCEPT ![r] = SnapshotRows(r)]

(* The end of a scoring, after the recalculation; a recomputation ends with *)
(* the recalculation.                                                       *)
Finish(p) ==
    /\ proc[p].at = "recalculate" /\ proc[p].list = {}
    /\ IF proc[p].round = None THEN UNCHANGED snapshot
       ELSE SnapshotRanking(proc[p].round)
    /\ Goto(p, Idle)
    /\ UNCHANGED <<now, status, scores, competitions, torn>>

(* The route that makes a snapshot by hand.                                 *)
GenerateSnapshot(r) ==
    /\ status[r] = "SCORED"
    /\ SnapshotRanking(r)
    /\ UNCHANGED <<now, status, scores, competitions, proc, torn>>
-----------------------------------------------------------------------------
(* RecomputeScoredRoundsService: not one transaction. The rounds and their  *)
(* tickets are read once, at the start. torn records that a recomputation   *)
(* died halfway or that a scoring or another one overlapped it, until one   *)
(* runs alone from beginning to end.                                        *)
Overlapped(p) == \E q \in Processes \ {p} : Rebuilding(q)
ReadScored(p) ==
    LET ids == {r \in Rounds : status[r] = "SCORED"}
    IN  /\ proc[p].at = "idle" /\ ids # {}
        /\ torn' = (torn \/ Overlapped(p))
        /\ proc' = [q \in Processes |->
              IF q = p THEN [Idle EXCEPT !.at = "wipeSnapshots", !.ids = ids,
                               !.todo = ids, !.clean = ~Overlapped(p)]
              ELSE [proc[q] EXCEPT !.clean = @ /\ ~Rebuilding(q)]]
        /\ UNCHANGED <<now, status, scores, snapshot, competitions>>

WipeSnapshots(p) ==
    /\ proc[p].at = "wipeSnapshots"
    /\ snapshot' = [r \in Rounds |-> IF r \in proc[p].ids THEN {} ELSE snapshot[r]]
    /\ Goto(p, [proc[p] EXCEPT !.at = "wipeHistory"])
    /\ UNCHANGED <<now, status, scores, competitions, torn>>

(* The rows a deletion leaves, in their order.                              *)
Without(rows, ids) ==
    LET left[i \in 0..Len(rows)] ==
            IF i = 0 THEN <<>>
            ELSE IF rows[i].round \in ids THEN left[i - 1]
            ELSE Append(left[i - 1], rows[i])
    IN  left[Len(rows)]

WipeHistory(p) ==
    /\ proc[p].at = "wipeHistory"
    /\ history' = [u \in Users |-> Without(history[u], proc[p].ids)]
    /\ Goto(p, [proc[p] EXCEPT !.at = "reset"])
    /\ UNCHANGED <<now, status, scoreTotal, snapshot, competitions, torn>>

ResetTotals(p) ==
    /\ proc[p].at = "reset"
    /\ scoreTotal' = [u \in Users |-> 0]
    /\ Goto(p, [proc[p] EXCEPT !.at = "rebuild"])
    /\ UNCHANGED <<now, status, history, snapshot, competitions, torn>>

(* One round, in one transaction; the unique key (userId, roundId) fails it *)
(* when another recomputation was faster.                                   *)
RebuildRound(p) ==
    LET r == Min(proc[p].todo)
    IN  /\ proc[p].at = "rebuild"
        /\ \A u \in Players(r) : \A h \in RowsOf(u) : h.round # r
        /\ AddRows(r, [u \in Users |-> LastCreated(u)])
        /\ Goto(p, [proc[p] EXCEPT !.at = "rebuildSnapshot", !.round = r,
                                   !.todo = @ \ {r}])
        /\ UNCHANGED <<now, status, snapshot, competitions, torn>>

RebuildSnapshot(p) ==
    LET last == proc[p].todo = {}
    IN  /\ proc[p].at = "rebuildSnapshot"
        /\ SnapshotRanking(proc[p].round)
        /\ torn' = (torn /\ ~(last /\ proc[p].clean))
        /\ Goto(p, [proc[p] EXCEPT !.at = IF last THEN "list" ELSE "rebuild",
                                   !.round = None, !.ids = IF last THEN {} ELSE @])
        /\ UNCHANGED <<now, status, scores, competitions>>

(* BackfillMonthlyRankingStateService, run by hand: a row for each ticket   *)
(* of a scored round that has none, added to the total as it is and without *)
(* hits, and the snapshots that are missing. A row is missing only where a  *)
(* recomputation was cut short or is under way.                             *)
Backfilling(todo) ==
    IF todo = {} THEN Idle
    ELSE [Idle EXCEPT !.at = "backfill", !.todo = todo, !.users = Players(Min(todo))]
StartBackfill(p) ==
    LET ids == {r \in Rounds : status[r] = "SCORED"}
    IN  /\ proc[p].at = "idle" /\ ids # {}
        /\ Goto(p, Backfilling(ids))
        /\ UNCHANGED <<now, status, scores, snapshot, competitions, torn>>

BackfillTicket(p, u) ==
    LET r == Min(proc[p].todo)
        total == scoreTotal[u] + Scored(r, u).total
        exists == \E h \in RowsOf(u) : h.round = r
    IN  /\ proc[p].at = "backfill" /\ u \in proc[p].users
        /\ IF exists THEN UNCHANGED <<scores, torn>>
           ELSE /\ scoreTotal' = [scoreTotal EXCEPT ![u] = total]
                /\ history' = [history EXCEPT ![u] = Append(@,
                      [NoRow EXCEPT !.round = r, !.scoreTotal = total,
                                    !.scoreRound = Scored(r, u).total])]
                /\ torn' = TRUE
        /\ proc' = [q \in Processes |->
              IF q = p THEN [proc[p] EXCEPT !.users = @ \ {u}]
              ELSE [proc[q] EXCEPT !.clean = @ /\ (exists \/ ~Rebuilding(q))]]
        /\ UNCHANGED <<now, status, snapshot, competitions>>

BackfillSnapshot(p) ==
    /\ proc[p].at = "backfill" /\ proc[p].users = {}
    /\ SnapshotRanking(Min(proc[p].todo))
    /\ Goto(p, Backfilling(proc[p].todo \ {Min(proc[p].todo)}))
    /\ UNCHANGED <<now, status, scores, competitions, torn>>

(* repair-closed-bolao-scores.js: the closed Mesas are listed once; for     *)
(* each the rows are built as at its closing, and those that differ from    *)
(* what was read are written in a transaction.                              *)
StartRepair(p) ==
    LET closed == {k \in Rankings \ Monthly : ranking[k] = "CLOSED"}
    IN  /\ proc[p].at = "idle" /\ closed # {}
        /\ Goto(p, [Idle EXCEPT !.at = "repairRead", !.list = closed])
        /\ UNCHANGED <<now, status, scores, snapshot, competitions, torn>>

RepairRead(p, k) ==
    /\ proc[p].at = "repairRead" /\ k \in proc[p].list
    /\ Goto(p, [proc[p] EXCEPT !.at = "repairWrite", !.mesa = k,
          !.rows = [u \in Users |-> LET row == BuildRows(k, TRUE)[u] IN
                       IF row = participant[k][u] THEN None ELSE row]])
    /\ UNCHANGED <<now, status, scores, snapshot, competitions, torn>>

RepairWrite(p) ==
    LET k == proc[p].mesa
        left == proc[p].list \ {k}
    IN  /\ proc[p].at = "repairWrite"
        /\ participant' = [participant EXCEPT ![k] = [u \in Users |->
              IF proc[p].rows[u] = None THEN @[u] ELSE proc[p].rows[u]]]
        /\ Goto(p, IF left = {} THEN Idle
                   ELSE [Idle EXCEPT !.at = "repairRead", !.list = left])
        /\ UNCHANGED <<now, status, scores, snapshot, ranking, torn>>

(* A throw or the death of the process between two statements.              *)
Die(p) ==
    /\ proc[p].at # "idle"
    /\ torn' = (torn \/ Rebuilding(p))
    /\ Goto(p, Idle)
    /\ UNCHANGED <<now, status, scores, snapshot, competitions>>

(* CloseRankingService: the sweep after the end, or an owner or             *)
(* administrator who forces a Mesa. The last rows are written for good.     *)
MayClose_Again(k) ==
    /\ ranking[k] # "ABSENT"
    /\ now > EndDate(k) \/ k[1] = "BOLAO"
MayClose(k) ==
    /\ ranking[k] = "ACTIVE"
    /\ now > EndDate(k) \/ k[1] = "BOLAO"
CloseRanking(k) ==
    /\ MayClose(k)
    /\ WriteRows(k, now > EndDate(k))
    /\ ranking' = [ranking EXCEPT ![k] = "CLOSED"]
    /\ UNCHANGED <<now, status, scores, snapshot, proc, torn>>

Next ==
    \/ Tick
    \/ \E r \in Rounds : CloseRound(r) \/ GenerateSnapshot(r) \/ EnsureAtClosing(r)
    \/ \E period \in Periods : EnsureCurrent(period)
    \/ \E k \in Rankings : CloseRanking(k) \/ \E u \in Users : Join(k, u)
    \/ \E p \in Processes :
          \/ \E r \in Rounds : ScoreRound(p, r)
          \/ ListRankings(p) \/ Finish(p) \/ Die(p)
          \/ \E k \in Rankings : Recalculate(p, k)
          \/ ReadScored(p) \/ WipeSnapshots(p) \/ WipeHistory(p) \/ ResetTotals(p)
          \/ RebuildRound(p) \/ RebuildSnapshot(p)
          \/ StartBackfill(p) \/ BackfillSnapshot(p)
          \/ \E u \in Users : BackfillTicket(p, u)
          \/ StartRepair(p) \/ RepairWrite(p)
          \/ \E k \in Rankings : RepairRead(p, k)

Spec == Init /\ [][Next]_vars

-----------------------------------------------------------------------------
(* What a round, or a set of rounds, is worth to a user.                    *)
Worth(u, rs) ==
    LET played == {r \in rs : u \in Players(r)}
    IN  [score |-> SumFunction([r \in played |-> Scored(r, u).total]),
         supers |-> SumFunction([r \in played |-> Scored(r, u).supers]),
         doubles |-> SumFunction([r \in played |-> Scored(r, u).doubles])]
IsScored(r) == status[r] = "SCORED"

Quiet == ~torn /\ \A p \in Processes : ~Rebuilding(p)
Ascending(u) == \A i, j \in 1..Len(history[u]) :
    i < j => /\ history[u][i].round < history[u][j].round
             /\ CloseAt[history[u][i].round] < CloseAt[history[u][j].round]
(* Rounds were scored in the order of the calendar so far. The code lets    *)
(* two rounds close at one moment, and the first of them to be scored then  *)
(* counts in the base of a ranking that the other one opens: rounds that    *)
(* tie are in order when both or neither are scored and nobody played both. *)
InOrder ==
    /\ \A u \in Users : Ascending(u)
    /\ \A r, q \in Rounds : IsScored(r) /\ CloseAt[q] <= CloseAt[r] => IsScored(q)

(* Unless a recomputation is under way, was cut short or was overlapped,    *)
(* the history has one row for each scored ticket and the total is the sum  *)
(* of its rows; one recomputation that runs alone repairs both              *)
(* (RecomputeScoredRoundsService).                                          *)
TotalsAgree ==
    Quiet => \A u \in Users :
        LET mine == {r \in Rounds : IsScored(r) /\ u \in Players(r)}
        IN  /\ {h.round : h \in RowsOf(u)} = mine
            /\ Len(history[u]) = Cardinality(mine)
            /\ scoreTotal[u] = SumFunction([h \in RowsOf(u) |-> h.scoreRound])

(* The accumulated total and hits of a row are those of the rounds up to it *)
(* where a user's rounds were scored in the order of the calendar           *)
(* (ScoreRoundService reads the row it continues by round number,           *)
(* RecomputeScoredRoundsService by creation).                               *)
HistoryIsPrefixSum ==
    Quiet => \A u \in Users : Ascending(u) =>
        \A i \in 1..Len(history[u]) :
            LET w == Worth(u, {history[u][j].round : j \in 1..i})
            IN  /\ history[u][i].scoreTotal = w.score
                /\ history[u][i].supers = w.supers
                /\ history[u][i].doubles = w.doubles

(* Both: what the repair of the history and every scoring leave behind.     *)
HistoryIsExact == TotalsAgree /\ HistoryIsPrefixSum

(* Every score in the history follows the published rule for its ticket     *)
(* (CalculateTicketScoreService).                                           *)
HistoryFollowsRule ==
    \A u \in Users : \A h \in RowsOf(u) :
        h.scoreRound = RuleScore(Ticket[h.round][u], Result[h.round])

(* Whoever enters when every round before the start has been scored, in     *)
(* order, gets the worth of exactly those rounds as baseline, whichever way *)
(* it is read and however late the entry (JoinBolaoService,                 *)
(* EnsureMonthlyRankingsService).                                           *)
BaselineExact == [][
    \A k \in Rankings, u \in Users :
        LET before == {r \in Rounds : CloseAt[r] < StartDate(k)}
        IN  /\ participant[k][u] = None /\ participant'[k][u] # None
            /\ Quiet /\ InOrder /\ \A r \in before : IsScored(r)
            => participant'[k][u].scoreInitial = Worth(u, before).score]_vars

WindowOf(k) == {r \in Rounds : CloseAt[r] \in StartDate(k)..EndDate(k)}
Closes(k) == ranking[k] = "ACTIVE" /\ ranking'[k] = "CLOSED" /\ now > EndDate(k)
(* Every round up to the end of k is scored, and k's scores are not in      *)
(* doubt because of the order of scoring or of a recomputation.             *)
ResultsAreIn(k) ==
    Quiet /\ InOrder /\ \A r \in Rounds : CloseAt[r] <= EndDate(k) => IsScored(r)

CountsWindow(k, rows) ==
    LET metrics == [u \in In(k) |-> Worth(u, WindowOf(k))]
    IN  \A u \in In(k) : /\ rows[u].score = metrics[u].score
                          /\ rows[u].position = Position(metrics, u)
(* The rows a repair has just read, where they differ from what is there.   *)
ReadForRepair(p, k) == proc[p].at = "repairRead" /\ proc'[p].mesa = k
Repaired(p, k) == [u \in Users |-> IF proc'[p].rows[u] = None
                                   THEN participant[k][u] ELSE proc'[p].rows[u]]

(* With exact baselines, a ranking closed after its end counts the rounds   *)
(* of its window, all of them and no other, and orders the participants by  *)
(* them, even when later rounds have been scored; and so does the repair of *)
(* a closed Mesa (CloseRankingService, repair-closed-bolao-scores.js).      *)
ClosingCountsWindow == [][
    \A k \in Rankings :
        /\ Closes(k) \/ \E p \in Processes : ReadForRepair(p, k)
        /\ ResultsAreIn(k)
        /\ \A u \in In(k) : participant[k][u].scoreInitial =
              Worth(u, {r \in Rounds : CloseAt[r] < StartDate(k)}).score
        => /\ Closes(k) => CountsWindow(k, participant'[k])
           /\ \A p \in Processes :
                 ReadForRepair(p, k) => CountsWindow(k, Repaired(p, k))]_vars

(* The rows of a closed ranking change only by a recalculation that listed  *)
(* it while it ran, or a repair that lists it ("congelado no                *)
(* encerramento").                                                          *)
ClosedScoresStay == [][
    \A k \in Rankings, u \in Users :
        /\ ranking[k] = "CLOSED" /\ participant[k][u] # None
        /\ participant'[k][u] # participant[k][u]
        => \E p \in Processes : k \in proc[p].list]_vars

(* A snapshot made while scoring is in order shows the standing after its   *)
(* round, whenever it is made: by the scoring, by hand after later rounds,  *)
(* or by a recomputation that runs alone (SnapshotRankingService).          *)
SnapshotIsStanding == [][
    \A r \in Rounds :
        LET upTo == {q \in Rounds : q <= r /\ IsScored(q)}
            users == UNION {Players(q) : q \in upTo}
            metrics == [u \in users |-> Worth(u, upTo)]
        IN  /\ snapshot[r] = {} /\ snapshot'[r] # {} /\ InOrder
            /\ Quiet \/ \E p \in Processes : /\ proc[p].at = "rebuildSnapshot"
                                             /\ proc[p].clean /\ proc[p].round = r
            => snapshot'[r] = {[user |-> u, scoreTotal |-> metrics[u].score,
                                scoreRound |-> Increment(r, u),
                                doubles |-> metrics[u].doubles,
                                supers |-> metrics[u].supers,
                                position |-> Position(metrics, u)] : u \in users}]_vars
=============================================================================
