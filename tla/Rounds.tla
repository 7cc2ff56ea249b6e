------------------------------- MODULE Rounds -------------------------------
(***************************************************************************)
(* The life of the rounds: creating, editing, opening, closing, cancelling *)
(* and scoring them, the free benefits granted when one opens, the tickets *)
(* that spend them, and the internal jobs that open, close and score.      *)
(*                                                                         *)
(* A request or job is a process. Statements outside a transaction are a   *)
(* step each, so two processes interleave between them and a process may   *)
(* stop between them (Crash). A database transaction is its reads, which   *)
(* the process keeps, and one commit, as in Mesa.                          *)
(*                                                                         *)
(* Rounds are numbered in calendar order. What a user predicts and asks    *)
(* for is fixed per user: Need, and Points for each possible result.       *)
(***************************************************************************)
EXTENDS Integers, FiniteSets, FiniteSetsExt

CONSTANTS
    Rounds, Users, None,
    Processes,     \* requests and jobs that may run at the same time
    Jobs,          \* the internal jobs in use
    Results,       \* results an administrator may enter for a round
    Points,        \* Points[u][v]: the score of u's ticket under result v
    Grant,         \* free benefits a round grants to each user (2/0 or 4/2)
    Need,          \* multipliers of each user's ticket, by type
    Inventory      \* paid benefits each user holds at the start

BenefitTypes == {"DOUBLE", "SUPER_DOUBLE"}
JobNames == {"OPEN_ROUND", "OPEN_SCHEDULED_ROUND", "CLOSE_ROUND_PREDICTIONS",
             "SCORE_ROUND"}

ASSUME RoundsAssumption ==
    /\ Rounds \subseteq Nat /\ IsFiniteSet(Rounds) /\ IsFiniteSet(Users)
    /\ IsFiniteSet(Processes)
    /\ Users # {}
    /\ None \notin Rounds /\ None \notin Users /\ None \notin Results
    /\ Jobs \subseteq JobNames
    /\ Points \in [Users -> [Results -> Int]]
    /\ Grant \in [Users -> [BenefitTypes -> Nat]]
    /\ Need \in [Users -> [BenefitTypes -> Nat]]
    /\ Inventory \in [Users -> [BenefitTypes -> Nat]]

VARIABLES
    round,        \* rounds: status and result
    window,       \* now relative to openAt and closeAt of each round
    ticket,       \* tickets, and what each spent (its audit entry)
    granted,      \* users with a round_benefits row, by round
    free,         \* freeDoubles and freeSuperDoubles of those rows
    inventory,    \* user_benefit_inventory.quantity
    history,      \* user_score_history: the result each row was scored with
    score,        \* users.scoreTotal
    snapshot,     \* users in the ranking_snapshots of each round
    execution,    \* internal_job_executions, by job and round
    proc          \* the processes

vars == <<round, window, ticket, granted, free, inventory, history, score,
          snapshot, execution, proc>>
benefits == <<granted, free, inventory>>
scores == <<history, score, snapshot>>

Statuses == {"ABSENT", "DRAFT", "OPEN", "CLOSED", "SCORED", "CANCELLED"}
Windows == {"before", "open", "ended"}
Amounts == [BenefitTypes -> Nat]
Nothing == [b \in BenefitTypes |-> 0]

RoundRow == [status : Statuses, result : Results \cup {None}]
TicketRow == [status : {"ABSENT", "PENDING", "SCORED"},
              fromFree : Amounts, fromInventory : Amounts]
NoTicket == [status |-> "ABSENT", fromFree |-> Nothing, fromInventory |-> Nothing]

(* The rows the job runner can tell apart: those left RUNNING and whether   *)
(* one is SUCCESS. Nobody reads a FAILED row.                               *)
Executions == [running : Nat, success : BOOLEAN]

Steps == {"idle", "create", "openRead", "openWrite", "grant",
          "closeRead", "closeWrite", "zero", "scoreRead", "scoreCommit",
          "snapshot", "cancelRead", "cancelDraft", "cancelCount", "cancelOpen",
          "resultWrite", "ticketCommit", "editWrite", "finish"}
Process == [at : Steps, job : JobNames \cup {None}, counted : BOOLEAN,
            round : Rounds \cup {None}, thenScore : BOOLEAN,
            value : Results \cup {None}, users : SUBSET Users]
Idle == [at |-> "idle", job |-> None, counted |-> FALSE, round |-> None,
         thenScore |-> FALSE, value |-> None, users |-> {}]

TypeOK ==
    /\ round \in [Rounds -> RoundRow]
    /\ window \in [Rounds -> Windows]
    /\ ticket \in [Rounds -> [Users -> TicketRow]]
    /\ granted \in [Rounds -> SUBSET Users]
    /\ free \in [Rounds -> [Users -> Amounts]]
    /\ inventory \in [Users -> Amounts]
    /\ history \in [Rounds -> [Users -> Results \cup {None}]]
    /\ score \in [Users -> Int]
    /\ snapshot \in [Rounds -> SUBSET Users]
    /\ execution \in [JobNames -> [Rounds -> Executions]]
    /\ proc \in [Processes -> Process]

Init ==
    /\ round = [r \in Rounds |-> [status |-> "ABSENT", result |-> None]]
    /\ window = [r \in Rounds |-> "before"]
    /\ ticket = [r \in Rounds |-> [u \in Users |-> NoTicket]]
    /\ granted = [r \in Rounds |-> {}]
    /\ free = [r \in Rounds |-> [u \in Users |-> Nothing]]
    /\ inventory = Inventory
    /\ history = [r \in Rounds |-> [u \in Users |-> None]]
    /\ score = [u \in Users |-> 0]
    /\ snapshot = [r \in Rounds |-> {}]
    /\ execution = [j \in JobNames |->
                       [r \in Rounds |-> [running |-> 0, success |-> FALSE]]]
    /\ proc = [p \in Processes |-> Idle]

-----------------------------------------------------------------------------
At(p, step) == proc[p].at = step
Begin(p, fields) == At(p, "idle") /\ proc' = [proc EXCEPT ![p] = fields]
Go(p, step) == proc' = [proc EXCEPT ![p].at = step]
(* The service returns: to the job runner, or to the request.               *)
Return(p) == proc' = [proc EXCEPT ![p] = IF @.counted THEN [@ EXCEPT !.at = "finish"]
                                         ELSE Idle]

OpenRounds == {r \in Rounds : round[r].status = "OPEN"}

-----------------------------------------------------------------------------
(* CreateRoundService, in the order of the numbers (rounds.number is        *)
(* unique), and UpdateRoundService on a draft: the new schedule may lie     *)
(* anywhere in time.                                                        *)
CreateRound(r) ==
    /\ round[r].status = "ABSENT"
    /\ \A s \in Rounds : s < r => round[s].status # "ABSENT"
    /\ round' = [round EXCEPT ![r].status = "DRAFT"]
    /\ UNCHANGED <<window, ticket, benefits, scores, execution, proc>>

EditRead(p, r) ==
    /\ round[r].status = "DRAFT"
    /\ Begin(p, [Idle EXCEPT !.at = "editWrite", !.round = r])
    /\ UNCHANGED <<round, window, ticket, benefits, scores, execution>>

EditWrite(p, w) ==
    /\ At(p, "editWrite")
    /\ window' = [window EXCEPT ![proc[p].round] = w]
    /\ proc' = [proc EXCEPT ![p] = Idle]
    /\ UNCHANGED <<round, ticket, benefits, scores, execution>>

-----------------------------------------------------------------------------
(* InternalJobRunnerService finds no execution of the job for the round that *)
(* is RUNNING or SUCCESS; the row it then creates is a second statement.    *)
NeverRun(j, r) == execution[j][r] = [running |-> 0, success |-> FALSE]

StartJob(p, j, r) ==
    /\ NeverRun(j, r)
    /\ Begin(p, [Idle EXCEPT !.at = "create", !.job = j, !.round = r])
    /\ UNCHANGED <<round, window, ticket, benefits, scores, execution>>

(* The internal routes score-round and open-round.                          *)
RequestJob(p, j, r) ==
    /\ j \in Jobs \cap {"OPEN_ROUND", "SCORE_ROUND"}
    /\ round[r].status # "ABSENT"
    /\ StartJob(p, j, r)

(* OpenScheduledRoundsJobService: the earliest draft that is due, if no     *)
(* round is open.                                                           *)
ScheduledOpen(p) ==
    LET due == {r \in Rounds : round[r].status = "DRAFT" /\ window[r] # "before"}
    IN  /\ "OPEN_SCHEDULED_ROUND" \in Jobs
        /\ OpenRounds = {} /\ due # {}
        /\ StartJob(p, "OPEN_SCHEDULED_ROUND", Min(due))

(* CloseScheduledRoundsJobService: the open round whose closeAt has passed. *)
ScheduledClose(p, r) ==
    /\ "CLOSE_ROUND_PREDICTIONS" \in Jobs
    /\ round[r].status = "OPEN" /\ window[r] = "ended"
    /\ StartJob(p, "CLOSE_ROUND_PREDICTIONS", r)

FirstStep(j) == CASE j \in {"OPEN_ROUND", "OPEN_SCHEDULED_ROUND"} -> "openRead"
                  [] j = "CLOSE_ROUND_PREDICTIONS" -> "closeRead"
                  [] j = "SCORE_ROUND" -> "scoreRead"

CreateExecution(p) ==
    /\ At(p, "create")
    /\ execution' = [execution EXCEPT ![proc[p].job][proc[p].round].running = @ + 1]
    /\ proc' = [proc EXCEPT ![p].at = FirstStep(proc[p].job), ![p].counted = TRUE]
    /\ UNCHANGED <<round, window, ticket, benefits, scores>>

FinishExecution(p) ==
    /\ At(p, "finish")
    /\ execution' = [execution EXCEPT ![proc[p].job][proc[p].round] =
                        [running |-> @.running - 1, success |-> TRUE]]
    /\ proc' = [proc EXCEPT ![p] = Idle]
    /\ UNCHANGED <<round, window, ticket, benefits, scores>>

(* Any statement may throw, and a condition that does not hold does; the    *)
(* runner then marks the execution FAILED.                                  *)
Fail(p) ==
    /\ ~At(p, "idle")
    /\ execution' = IF proc[p].counted
                    THEN [execution EXCEPT ![proc[p].job][proc[p].round].running = @ - 1]
                    ELSE execution
    /\ proc' = [proc EXCEPT ![p] = Idle]
    /\ UNCHANGED <<round, window, ticket, benefits, scores>>

(* The process that runs a job dies, and its execution stays RUNNING.       *)
Crash(p) ==
    /\ proc[p].counted
    /\ proc' = [proc EXCEPT ![p] = Idle]
    /\ UNCHANGED <<round, window, ticket, benefits, scores, execution>>

-----------------------------------------------------------------------------
(* OpenRoundService, run by a job or by an administrator at any time: an    *)
(* open round is granted its benefits again; a draft is opened if no other  *)
(* round is open.                                                           *)
ReadToOpen(p, r, fields) ==
    /\ \/ /\ round[r].status = "OPEN"
          /\ proc' = [proc EXCEPT ![p] =
                [fields EXCEPT !.at = "grant", !.round = r, !.users = Users]]
       \/ /\ round[r].status = "DRAFT"
          /\ OpenRounds = {}
          /\ proc' = [proc EXCEPT ![p] =
                [fields EXCEPT !.at = "openWrite", !.round = r]]
    /\ UNCHANGED <<round, window, ticket, benefits, scores, execution>>

(* regrant-open-round-benefits.js, run by hand, grants the open round again. *)
Regrant(p, r) ==
    /\ round[r].status = "OPEN"
    /\ Begin(p, [Idle EXCEPT !.at = "grant", !.round = r, !.users = Users])
    /\ UNCHANGED <<round, window, ticket, benefits, scores, execution>>

AdminOpen(p, r) == At(p, "idle") /\ ReadToOpen(p, r, Idle)
OpenRead(p) == At(p, "openRead") /\ ReadToOpen(p, proc[p].round, proc[p])

SingleOpen_NoIndex(r) == TRUE
(* rounds_single_open_idx: the database refuses a second open round.        *)
SingleOpen(r) == OpenRounds \subseteq {r}

OpenWrite(p) ==
    /\ At(p, "openWrite")
    /\ SingleOpen(proc[p].round)
    /\ round' = [round EXCEPT ![proc[p].round].status = "OPEN"]
    /\ proc' = [proc EXCEPT ![p].at = "grant", ![p].users = Users]
    /\ UNCHANGED <<window, ticket, benefits, scores, execution>>

(* The upsert creates the row with the grant and leaves an existing one.    *)
FreeAfterGrant(r, u) == IF u \in granted[r] THEN free[r][u] ELSE Grant[u]

(* GrantRoundBenefitsService: one user after the other, each on its own.    *)
GrantBenefits(p, u) ==
    LET r == proc[p].round
    IN  /\ At(p, "grant") /\ u \in proc[p].users
        /\ granted' = [granted EXCEPT ![r] = @ \cup {u}]
        /\ free' = [free EXCEPT ![r][u] = FreeAfterGrant(r, u)]
        /\ IF proc[p].users = {u} THEN Return(p)
           ELSE proc' = [proc EXCEPT ![p].users = @ \ {u}]
        /\ UNCHANGED <<round, window, ticket, inventory, scores, execution>>

-----------------------------------------------------------------------------
(* CloseRoundService: three statements, the second without a condition.     *)
CloseRead(p) ==
    /\ At(p, "closeRead")
    /\ round[proc[p].round].status = "OPEN"
    /\ Go(p, "closeWrite")
    /\ UNCHANGED <<round, window, ticket, benefits, scores, execution>>

CloseWrite(p) ==
    /\ At(p, "closeWrite")
    /\ round' = [round EXCEPT ![proc[p].round].status = "CLOSED"]
    /\ Go(p, "zero")
    /\ UNCHANGED <<window, ticket, benefits, scores, execution>>

ZeroBenefits(p) ==
    /\ At(p, "zero")
    /\ free' = [free EXCEPT ![proc[p].round] = [u \in Users |-> Nothing]]
    /\ IF proc[p].thenScore THEN Go(p, "scoreRead") ELSE Return(p)
    /\ UNCHANGED <<round, window, ticket, granted, inventory, scores, execution>>

(* RoundAdminService.closeRound closes an open round and scores it; whether *)
(* it is CLOSED by then is asked again by ScoreRead.                        *)
AdminClose(p, r) ==
    /\ round[r].result # None
    /\ round[r].status \in {"OPEN", "CLOSED"}
    /\ Begin(p, [Idle EXCEPT !.round = r, !.thenScore = TRUE,
                    !.at = IF round[r].status = "OPEN" THEN "closeRead"
                                                       ELSE "scoreRead"])
    /\ UNCHANGED <<round, window, ticket, benefits, scores, execution>>

-----------------------------------------------------------------------------
(* RoundAdminService.cancelRound.                                           *)
CancelRead(p, r) ==
    /\ \/ /\ round[r].status = "DRAFT"
          /\ Begin(p, [Idle EXCEPT !.at = "cancelDraft", !.round = r])
       \/ /\ round[r].status = "OPEN" /\ round[r].result = None
          /\ Begin(p, [Idle EXCEPT !.at = "cancelCount", !.round = r])
    /\ UNCHANGED <<round, window, ticket, benefits, scores, execution>>

CancelCount(p) ==
    /\ At(p, "cancelCount")
    /\ \A u \in Users : ticket[proc[p].round][u].status = "ABSENT"
    /\ Go(p, "cancelOpen")
    /\ UNCHANGED <<round, window, ticket, benefits, scores, execution>>

CancelWrite(p) ==
    LET r == proc[p].round
    IN  /\ At(p, "cancelDraft") \/ At(p, "cancelOpen")
        /\ round' = [round EXCEPT ![r].status = "CANCELLED"]
        /\ window' = IF At(p, "cancelOpen") THEN [window EXCEPT ![r] = "ended"]
                     ELSE window
        /\ proc' = [proc EXCEPT ![p] = Idle]
        /\ UNCHANGED <<ticket, benefits, scores, execution>>

(* SetRoundResultService: any status but SCORED, read before the write.     *)
ResultRead(p, r, v) ==
    /\ round[r].status \notin {"ABSENT", "SCORED"}
    /\ Begin(p, [Idle EXCEPT !.at = "resultWrite", !.round = r, !.value = v])
    /\ UNCHANGED <<round, window, ticket, benefits, scores, execution>>

ResultWrite(p) ==
    /\ At(p, "resultWrite")
    /\ round' = [round EXCEPT ![proc[p].round].result = proc[p].value]
    /\ proc' = [proc EXCEPT ![p] = Idle]
    /\ UNCHANGED <<window, ticket, benefits, scores, execution>>

-----------------------------------------------------------------------------
(* CreateTicketService: the round and the user's ticket are read first.     *)
TicketRead(p, r, u) ==
    /\ round[r].status = "OPEN" /\ window[r] # "ended"
    /\ ticket[r][u].status = "ABSENT"
    /\ Begin(p, [Idle EXCEPT !.at = "ticketCommit", !.round = r, !.users = {u}])
    /\ UNCHANGED <<round, window, ticket, benefits, scores, execution>>

(* ConsumeBenefitsService, for each type: first what the round granted,     *)
(* then all the rest from the inventory, or the ticket is refused.          *)
FromFree(r, u) ==
    [b \in BenefitTypes |-> Min({free[r][u][b], Need[u][b]})]
FromInventory(r, u) ==
    [b \in BenefitTypes |-> Need[u][b] - FromFree(r, u)[b]]
Affordable(r, u) ==
    \A b \in BenefitTypes : inventory[u][b] >= FromInventory(r, u)[b]

TicketIsNew_Unchecked(r, u) == TRUE
(* The unique index on user and round.                                      *)
TicketIsNew(r, u) == ticket[r][u].status = "ABSENT"

TicketCommit(p) ==
    LET r == proc[p].round IN
    \E u \in proc[p].users :
        /\ At(p, "ticketCommit")
        /\ TicketIsNew(r, u)
        /\ Affordable(r, u)
        /\ ticket' = [ticket EXCEPT ![r][u] =
              [status |-> "PENDING", fromFree |-> FromFree(r, u),
               fromInventory |-> FromInventory(r, u)]]
        /\ free' = [free EXCEPT ![r][u] =
              [b \in BenefitTypes |-> @[b] - FromFree(r, u)[b]]]
        /\ inventory' = [inventory EXCEPT ![u] =
              [b \in BenefitTypes |-> @[b] - FromInventory(r, u)[b]]]
        /\ proc' = [proc EXCEPT ![p] = Idle]
        /\ UNCHANGED <<round, window, granted, scores, execution>>

-----------------------------------------------------------------------------
(* ScoreRoundService: a scored round is left alone; a closed one with a     *)
(* result is scored on the tickets read with it.                            *)
ScoreRead(p) ==
    LET r == proc[p].round
    IN  /\ At(p, "scoreRead")
        /\ \/ round[r].status = "SCORED" /\ Return(p)
           \/ /\ round[r].status = "CLOSED" /\ round[r].result # None
              /\ proc' = [proc EXCEPT ![p].at = "scoreCommit",
                    ![p].value = round[r].result,
                    ![p].users = {u \in Users : ticket[r][u].status # "ABSENT"}]
        /\ UNCHANGED <<round, window, ticket, benefits, scores, execution>>

HistoryIsNew_Unchecked(r, users) == TRUE
(* The unique index on user and round: one row per ticket, or nothing.      *)
HistoryIsNew(r, users) == \A u \in users : history[r][u] = None

Scored_Unscored(r, users) == {u \in users : history[r][u] = None}
(* The tickets this run scores: all it read.                                *)
Scored(r, users) == users

ScoreCommit(p) ==
    LET r == proc[p].round
        v == proc[p].value
        users == Scored(r, proc[p].users)
    IN  /\ At(p, "scoreCommit")
        /\ HistoryIsNew(r, users)
        /\ score' = [u \in Users |->
                        IF u \in users THEN score[u] + Points[u][v] ELSE score[u]]
        /\ ticket' = [ticket EXCEPT ![r] = [u \in Users |->
                        IF u \in users THEN [@[u] EXCEPT !.status = "SCORED"] ELSE @[u]]]
        /\ history' = [history EXCEPT ![r] = [u \in Users |->
                        IF u \in users THEN v ELSE @[u]]]
        /\ round' = [round EXCEPT ![r].status = "SCORED"]
        /\ Go(p, "snapshot")
        /\ UNCHANGED <<window, benefits, snapshot, execution>>

(* SnapshotRankingService, after the rankings were recalculated: once per   *)
(* round, over everyone with a score up to it.                              *)
Snapshot(p) ==
    LET r == proc[p].round
        rows == {u \in Users : \E s \in Rounds :
                    s <= r /\ round[s].status = "SCORED" /\ history[s][u] # None}
    IN  /\ At(p, "snapshot")
        /\ round[r].status = "SCORED"
        /\ snapshot' = IF snapshot[r] = {} THEN [snapshot EXCEPT ![r] = rows]
                       ELSE snapshot
        /\ Return(p)
        /\ UNCHANGED <<round, window, ticket, benefits, history, score, execution>>

-----------------------------------------------------------------------------
(* openAt and closeAt pass.                                                 *)
Tick(r) ==
    /\ round[r].status # "ABSENT" /\ window[r] # "ended"
    /\ window' = [window EXCEPT ![r] = IF @ = "before" THEN "open" ELSE "ended"]
    /\ UNCHANGED <<round, ticket, benefits, scores, execution, proc>>

Next ==
    \/ \E r \in Rounds : CreateRound(r) \/ Tick(r)
    \/ \E p \in Processes :
          \/ \E r \in Rounds :
                \/ EditRead(p, r) \/ AdminOpen(p, r) \/ AdminClose(p, r)
                \/ CancelRead(p, r) \/ ScheduledClose(p, r) \/ Regrant(p, r)
                \/ \E j \in Jobs : RequestJob(p, j, r)
                \/ \E v \in Results : ResultRead(p, r, v)
                \/ \E u \in Users : TicketRead(p, r, u)
          \/ \E w \in Windows : EditWrite(p, w)
          \/ \E u \in Users : GrantBenefits(p, u)
          \/ ScheduledOpen(p) \/ CreateExecution(p)
          \/ FinishExecution(p) \/ Fail(p) \/ Crash(p)
          \/ OpenRead(p) \/ OpenWrite(p)
          \/ CloseRead(p) \/ CloseWrite(p) \/ ZeroBenefits(p)
          \/ CancelCount(p) \/ CancelWrite(p) \/ ResultWrite(p)
          \/ TicketCommit(p)
          \/ ScoreRead(p) \/ ScoreCommit(p) \/ Snapshot(p)

Spec == Init /\ [][Next]_vars

-----------------------------------------------------------------------------
(* What the rounds promise.                                                 *)

(* Two requests, or a request and the scheduler, never leave two rounds     *)
(* open, though each of them looked before it wrote.                        *)
SingleOpenRound == Cardinality(OpenRounds) <= 1

(* No benefit is spent twice and none is lost: what a user no longer has in *)
(* the inventory was spent by a ticket that exists, and the free benefits   *)
(* of a round cover what its ticket took from them and what is left, also   *)
(* when they are granted again (a repeated job, a late one, the             *)
(* administrator).                                                          *)
BenefitsSpentOnce ==
    \A u \in Users, b \in BenefitTypes :
        /\ inventory[u][b] = Inventory[u][b]
              - SumFunction([r \in Rounds |-> ticket[r][u].fromInventory[b]])
        /\ \A r \in Rounds :
              ticket[r][u].fromFree[b] + free[r][u][b] <= Grant[u][b]

(* The total of a user is the sum of the rounds in the score history, even  *)
(* when a job, a retry and an administrator score the same round.           *)
ScoreIsSumOfHistory ==
    \A u \in Users :
        score[u] = SumFunction([r \in {r \in Rounds : history[r][u] # None} |->
                                    Points[u][history[r][u]]])

(* Everyone scored in a round was scored with the same result, although the *)
(* result of a round can change until, and through races even after, it is  *)
(* scored.                                                                  *)
SameResultForAll ==
    \A r \in Rounds, u, v \in Users :
        history[r][u] # None /\ history[r][v] # None => history[r][u] = history[r][v]

=============================================================================
