---------------------------- MODULE RoundsProofs ----------------------------
(***************************************************************************)
(* Proofs about Rounds, for any number of rounds, users and processes and  *)
(* any interleaving of their statements: the types, one open round, one    *)
(* result for everyone who was scored, benefits spent once, and totals     *)
(* that are the sum of the history.                                        *)
(***************************************************************************)
EXTENDS Rounds, SumProofs

(* Who has a ticket.                                                        *)
Holders(tickets, r) == {u \in Users : tickets[r][u].status # "ABSENT"}

(* What is known of a process: it works on a round; one that has a row of   *)
(* internal_job_executions is under way; one that scores took its result    *)
(* and its tickets from the database.                                       *)
Sound(x, tickets) ==
    /\ x.at # "idle" => x.round \in Rounds
    /\ x.counted => x.at \notin {"idle", "create"}
    /\ x.at = "create" \/ x.counted => x.job \in JobNames
    /\ x.at = "finish" => x.counted
    /\ x.at \in {"resultWrite", "scoreCommit"} => x.value \in Results
    /\ x.at = "scoreCommit" => x.users \subseteq Holders(tickets, x.round)

Procs == \A p \in Processes : Sound(proc[p], ticket)

(* Each row that a process will end is RUNNING.                             *)
Counted(j, r) == {p \in Processes : proc[p].counted /\ proc[p].job = j /\ proc[p].round = r}
Counting == \A j \in JobNames, r \in Rounds :
                Cardinality(Counted(j, r)) <= execution[j][r].running

(* The invariant.                                                          *)
Inv == TypeOK /\ Procs /\ Counting

-----------------------------------------------------------------------------
(* Rows of processes.                                                       *)

LEMMA IdleRow == Idle \in Process /\ ~Idle.counted /\ \A tickets : Sound(Idle, tickets)
  <1>1. Idle \in Process
    BY DEF Idle, Process, Steps
  <1>2. Idle.at = "idle" /\ ~Idle.counted
    BY DEF Idle
  <1> QED BY <1>1, <1>2 DEF Sound

LEMMA InitInv == Init => Inv
  <1> SUFFICES ASSUME Init PROVE Inv
    OBVIOUS
  <1>1. NoTicket \in TicketRow /\ Nothing \in Amounts
    BY DEF NoTicket, Nothing, TicketRow, Amounts
  <1>2. TypeOK
    BY <1>1, IdleRow, RoundsAssumption
    DEF Init, TypeOK, RoundRow, Statuses, Windows, Executions, Amounts
  <1>3. \A p \in Processes : proc[p] = Idle
    BY DEF Init
  <1>4. Procs
    BY <1>3, IdleRow DEF Procs
  <1>5. Counting
    <2>1. ASSUME NEW j \in JobNames, NEW r \in Rounds
          PROVE  Cardinality(Counted(j, r)) = 0 /\ execution[j][r].running = 0
      <3>1. Counted(j, r) = {}
        BY <1>3, IdleRow DEF Counted
      <3>2. execution[j][r] = [running |-> 0, success |-> FALSE]
        BY DEF Init
      <3> QED BY <3>1, <3>2, FS_EmptySet
    <2> QED BY <2>1 DEF Counting
  <1> QED BY <1>2, <1>4, <1>5 DEF Inv

(* The processes with a row of a reference are finitely many.               *)
LEMMA CountedFinite ==
  ASSUME NEW j, NEW r
  PROVE  IsFiniteSet(Counted(j, r)) /\ Cardinality(Counted(j, r)) \in Nat
  <1>1. Counted(j, r) \subseteq Processes
    BY DEF Counted
  <1> QED BY <1>1, RoundsAssumption, FS_Subset, FS_CardinalityType

(* One process goes on as x, with its row or without it, and tickets stay.  *)
LEMMA ProcessStep ==
  ASSUME Inv, NEW p \in Processes, NEW x \in Process, proc' = [proc EXCEPT ![p] = x],
         Sound(x, ticket'),
         \A r \in Rounds : Holders(ticket, r) \subseteq Holders(ticket', r)
  PROVE  /\ proc' \in [Processes -> Process] /\ Procs'
         /\ \A j \in JobNames, r \in Rounds :
               (x.counted /\ x.job = j /\ x.round = r => p \in Counted(j, r))
               => Counted(j, r)' \subseteq Counted(j, r)
  <1>1. /\ proc' \in [Processes -> Process] /\ proc'[p] = x
        /\ \A q \in Processes \ {p} : proc'[q] = proc[q]
    BY DEF Inv, TypeOK
  <1>2. ASSUME NEW q \in Processes, q # p PROVE Sound(proc'[q], ticket')
    <2>1. Sound(proc[q], ticket)
      BY DEF Inv, Procs
    <2> QED BY <1>1, <1>2, <2>1 DEF Sound
  <1>3. Procs'
    BY <1>1, <1>2 DEF Procs
  <1>4. ASSUME NEW j \in JobNames, NEW r \in Rounds,
               x.counted /\ x.job = j /\ x.round = r => p \in Counted(j, r)
        PROVE  Counted(j, r)' \subseteq Counted(j, r)
    BY <1>1, <1>4 DEF Counted
  <1> QED BY <1>1, <1>3, <1>4

(* Executions stay and nobody has a new row.                                *)
LEMMA QuietCounting ==
  ASSUME Inv, execution' = execution,
         \A j \in JobNames, r \in Rounds : Counted(j, r)' \subseteq Counted(j, r)
  PROVE  Counting'
  <1> SUFFICES ASSUME NEW j \in JobNames, NEW r \in Rounds
               PROVE  Cardinality(Counted(j, r)') <= execution[j][r].running
    BY DEF Counting
  <1>1. Cardinality(Counted(j, r)) <= execution[j][r].running
    BY DEF Inv, Counting
  <1>2. IsFiniteSet(Counted(j, r)) /\ Cardinality(Counted(j, r)) \in Nat
    BY CountedFinite
  <1>3. /\ Cardinality(Counted(j, r)') <= Cardinality(Counted(j, r))
        /\ Cardinality(Counted(j, r)') \in Nat
    BY <1>2, FS_Subset, FS_CardinalityType
  <1>4. execution[j][r].running \in Nat
    BY DEF Inv, TypeOK, Executions
  <1> QED BY <1>1, <1>2, <1>3, <1>4

(* A process goes on without a new row.                                     *)
LEMMA RowStep ==
  ASSUME Inv, NEW p \in Processes, NEW x \in Process, proc' = [proc EXCEPT ![p] = x],
         Sound(x, ticket'), execution' = execution,
         x.counted => proc[p].counted /\ x.job = proc[p].job /\ x.round = proc[p].round,
         \A r \in Rounds : Holders(ticket, r) \subseteq Holders(ticket', r)
  PROVE  proc' \in [Processes -> Process] /\ Procs' /\ Counting'
  <1>1. /\ proc' \in [Processes -> Process] /\ Procs'
        /\ \A j \in JobNames, r \in Rounds :
               (x.counted /\ x.job = j /\ x.round = r => p \in Counted(j, r))
               => Counted(j, r)' \subseteq Counted(j, r)
    BY ProcessStep
  <1>2. \A j \in JobNames, r \in Rounds :
           x.counted /\ x.job = j /\ x.round = r => p \in Counted(j, r)
    BY DEF Counted
  <1>3. Counting'
    BY <1>1, <1>2, QuietCounting
  <1> QED BY <1>1, <1>3

(* Nothing else than a process changes.                                     *)
LEMMA OnlyProcess ==
  ASSUME Inv, NEW p \in Processes, NEW x \in Process, proc' = [proc EXCEPT ![p] = x],
         Sound(x, ticket),
         x.counted => proc[p].counted /\ x.job = proc[p].job /\ x.round = proc[p].round,
         UNCHANGED <<round, window, ticket, benefits, scores, execution>>
  PROVE  Inv'
  <1>1. ticket' = ticket /\ execution' = execution
    OBVIOUS
  <1>2. proc' \in [Processes -> Process] /\ Procs' /\ Counting'
    BY <1>1, RowStep
  <1>3. TypeOK'
    BY <1>2 DEF Inv, TypeOK, benefits, scores
  <1> QED BY <1>2, <1>3 DEF Inv

(* Steps a process may go to without more than it had.                      *)
Plain == Steps \ {"idle", "create", "finish", "resultWrite", "scoreCommit"}

LEMMA GoRow ==
  ASSUME NEW row \in Process, NEW tickets, Sound(row, tickets),
         row.at \notin {"idle", "create"}, NEW step \in Plain,
         NEW x, x = [row EXCEPT !.at = step]
  PROVE  /\ x \in Process /\ Sound(x, tickets)
         /\ x.counted = row.counted /\ x.job = row.job /\ x.round = row.round
  <1>1. step \in Steps /\ step \notin {"idle", "create", "finish", "resultWrite", "scoreCommit"}
    BY DEF Plain
  <1>2. /\ x \in Process /\ x.at = step
        /\ x.counted = row.counted /\ x.job = row.job /\ x.round = row.round
    BY <1>1 DEF Process
  <1> QED BY <1>1, <1>2 DEF Sound

(* The service returns.                                                     *)
LEMMA ReturnRow ==
  ASSUME Inv, NEW p \in Processes, Return(p), ~At(p, "idle")
  PROVE  \E x \in Process :
            /\ proc' = [proc EXCEPT ![p] = x]
            /\ \A tickets : Sound(x, tickets)
            /\ x.counted => proc[p].counted /\ x.job = proc[p].job /\ x.round = proc[p].round
  <1>1. proc[p] \in Process /\ Sound(proc[p], ticket)
    BY DEF Inv, TypeOK, Procs
  <1>2. CASE proc[p].counted
    <2>1. PICK x : x = [proc[p] EXCEPT !.at = "finish"]
      OBVIOUS
    <2>2. proc' = [proc EXCEPT ![p] = x]
      BY <1>2, <2>1 DEF Return
    <2>3. "finish" \in Steps
      BY DEF Steps
    <2>4. /\ x \in Process /\ x.at = "finish" /\ x.counted = proc[p].counted
          /\ x.job = proc[p].job /\ x.round = proc[p].round
      BY <1>1, <2>1, <2>3 DEF Process
    <2>5. \A tickets : Sound(x, tickets)
      BY <1>1, <1>2, <2>4 DEF Sound, At
    <2> QED BY <1>2, <2>2, <2>4, <2>5
  <1>3. CASE ~proc[p].counted
    <2>1. proc' = [proc EXCEPT ![p] = Idle]
      BY <1>3 DEF Return
    <2> QED BY <2>1, IdleRow
  <1> QED BY <1>2, <1>3

-----------------------------------------------------------------------------
(* The steps that only change a process.                                    *)

(* A request or job begins and has no row yet.                              *)
LEMMA FreshStep ==
  ASSUME Inv, NEW p \in Processes, NEW x \in Process, proc' = [proc EXCEPT ![p] = x],
         ~x.counted, x.at \in Plain, x.round \in Rounds,
         UNCHANGED <<round, window, ticket, benefits, scores, execution>>
  PROVE  Inv'
  <1>1. Sound(x, ticket)
    BY DEF Sound, Plain
  <1> QED BY <1>1, OnlyProcess

(* A process goes on to a step that needs nothing more.                     *)
LEMMA GoStep ==
  ASSUME Inv, NEW p \in Processes, NEW step \in Plain, Go(p, step),
         proc[p].at \notin {"idle", "create"},
         UNCHANGED <<round, window, ticket, benefits, scores, execution>>
  PROVE  Inv'
  <1>1. proc[p] \in Process /\ Sound(proc[p], ticket)
    BY DEF Inv, TypeOK, Procs
  <1>2. PICK x : x = [proc[p] EXCEPT !.at = step]
    OBVIOUS
  <1>3. proc' = [proc EXCEPT ![p] = x]
    BY <1>2 DEF Go
  <1>4. /\ x \in Process /\ Sound(x, ticket)
        /\ x.counted = proc[p].counted /\ x.job = proc[p].job /\ x.round = proc[p].round
    BY <1>1, <1>2, GoRow
  <1> QED BY <1>3, <1>4, OnlyProcess

LEMMA BeginSteps ==
  ASSUME Inv, NEW p \in Processes, NEW r \in Rounds,
         \/ EditRead(p, r) \/ Regrant(p, r) \/ AdminClose(p, r) \/ CancelRead(p, r)
         \/ \E u \in Users : TicketRead(p, r, u)
  PROVE  Inv'
  <1>1. CASE EditRead(p, r)
    <2>1. PICK x : x = [Idle EXCEPT !.at = "editWrite", !.round = r]
      OBVIOUS
    <2>2. x \in Process /\ ~x.counted /\ x.at \in Plain /\ x.round = r
      BY <2>1 DEF Idle, Process, Steps, Plain
    <2>3. proc' = [proc EXCEPT ![p] = x]
      BY <1>1, <2>1 DEF EditRead, Begin
    <2>4. UNCHANGED <<round, window, ticket, benefits, scores, execution>>
      BY <1>1 DEF EditRead
    <2> QED BY <2>2, <2>3, <2>4, FreshStep
  <1>2. CASE Regrant(p, r)
    <2>1. PICK x : x = [Idle EXCEPT !.at = "grant", !.round = r, !.users = Users]
      OBVIOUS
    <2>2. x \in Process /\ ~x.counted /\ x.at \in Plain /\ x.round = r
      BY <2>1 DEF Idle, Process, Steps, Plain
    <2>3. proc' = [proc EXCEPT ![p] = x]
      BY <1>2, <2>1 DEF Regrant, Begin
    <2>4. UNCHANGED <<round, window, ticket, benefits, scores, execution>>
      BY <1>2 DEF Regrant
    <2> QED BY <2>2, <2>3, <2>4, FreshStep
  <1>3. CASE AdminClose(p, r)
    <2>1. PICK x : x = [Idle EXCEPT !.round = r, !.thenScore = TRUE,
                          !.at = IF round[r].status = "OPEN" THEN "closeRead"
                                                             ELSE "scoreRead"]
      OBVIOUS
    <2>2. x \in Process /\ ~x.counted /\ x.at \in Plain /\ x.round = r
      BY <2>1 DEF Idle, Process, Steps, Plain
    <2>3. proc' = [proc EXCEPT ![p] = x]
      BY <1>3, <2>1 DEF AdminClose, Begin
    <2>4. UNCHANGED <<round, window, ticket, benefits, scores, execution>>
      BY <1>3 DEF AdminClose
    <2> QED BY <2>2, <2>3, <2>4, FreshStep
  <1>4. CASE CancelRead(p, r)
    <2>1. PICK step \in {"cancelDraft", "cancelCount"} :
             proc' = [proc EXCEPT ![p] = [Idle EXCEPT !.at = step, !.round = r]]
      BY <1>4 DEF CancelRead, Begin
    <2>2. PICK x : x = [Idle EXCEPT !.at = step, !.round = r]
      OBVIOUS
    <2>3. x \in Process /\ ~x.counted /\ x.at \in Plain /\ x.round = r
      BY <2>2 DEF Idle, Process, Steps, Plain
    <2>4. UNCHANGED <<round, window, ticket, benefits, scores, execution>>
      BY <1>4 DEF CancelRead
    <2> QED BY <2>1, <2>2, <2>3, <2>4, FreshStep
  <1>5. ASSUME NEW u \in Users, TicketRead(p, r, u) PROVE Inv'
    <2>1. PICK x : x = [Idle EXCEPT !.at = "ticketCommit", !.round = r, !.users = {u}]
      OBVIOUS
    <2>2. x \in Process /\ ~x.counted /\ x.at \in Plain /\ x.round = r
      BY <2>1 DEF Idle, Process, Steps, Plain
    <2>3. proc' = [proc EXCEPT ![p] = x]
      BY <1>5, <2>1 DEF TicketRead, Begin
    <2>4. UNCHANGED <<round, window, ticket, benefits, scores, execution>>
      BY <1>5 DEF TicketRead
    <2> QED BY <2>2, <2>3, <2>4, FreshStep
  <1> QED BY <1>1, <1>2, <1>3, <1>4, <1>5

LEMMA ResultReadStep ==
  ASSUME Inv, NEW p \in Processes, NEW r \in Rounds, NEW v \in Results, ResultRead(p, r, v)
  PROVE  Inv'
  <1>1. PICK x : x = [Idle EXCEPT !.at = "resultWrite", !.round = r, !.value = v]
    OBVIOUS
  <1>2. x \in Process /\ ~x.counted /\ x.at = "resultWrite" /\ x.round = r /\ x.value = v
    BY <1>1 DEF Idle, Process, Steps
  <1>3. proc' = [proc EXCEPT ![p] = x]
    BY <1>1 DEF ResultRead, Begin
  <1>4. Sound(x, ticket)
    BY <1>2 DEF Sound
  <1>5. UNCHANGED <<round, window, ticket, benefits, scores, execution>>
    BY DEF ResultRead
  <1> QED BY <1>2, <1>3, <1>4, <1>5, OnlyProcess

LEMMA StartJobStep ==
  ASSUME Inv, NEW p \in Processes, NEW j \in JobNames, NEW r \in Rounds, StartJob(p, j, r)
  PROVE  Inv'
  <1>1. PICK x : x = [Idle EXCEPT !.at = "create", !.job = j, !.round = r]
    OBVIOUS
  <1>2. x \in Process /\ ~x.counted /\ x.at = "create" /\ x.round = r /\ x.job = j
    BY <1>1 DEF Idle, Process, Steps
  <1>3. proc' = [proc EXCEPT ![p] = x]
    BY <1>1 DEF StartJob, Begin
  <1>4. Sound(x, ticket)
    BY <1>2 DEF Sound
  <1>5. UNCHANGED <<round, window, ticket, benefits, scores, execution>>
    BY DEF StartJob
  <1> QED BY <1>2, <1>3, <1>4, <1>5, OnlyProcess

(* The earliest of the drafts that are due is a round.                      *)
LEMMA LeastOf ==
  ASSUME NEW S \in SUBSET Rounds, S # {}
  PROVE  Min(S) \in S
  <1>1. PICK R : R = {ss \in Nat \X Nat : ss[1] < ss[2]}
    OBVIOUS
  <1>2. R = OpToRel(<, Nat)
    BY <1>1, Zenon DEF OpToRel
  <1>3. IsWellFoundedOn(R, Nat)
    BY <1>2, NatLessThanWellFounded, Zenon
  <1>4. S \subseteq Nat
    BY RoundsAssumption
  <1>5. \E m \in S : \A n \in S : ~(<<n, m>> \in R)
    BY <1>3, <1>4, WFMin
  <1>6. ASSUME NEW m \in Nat, NEW n \in Nat, ~(<<n, m>> \in R) PROVE m <= n
    <2>1. ~(n < m)
      BY <1>1, <1>6
    <2> QED BY <2>1
  <1>7. \E m \in S : \A n \in S : m <= n
    BY <1>4, <1>5, <1>6
  <1> QED BY <1>7 DEF Min

LEMMA ReadToOpenStep ==
  ASSUME Inv, NEW p \in Processes, NEW r \in Rounds, NEW fields \in Process,
         ReadToOpen(p, r, fields),
         fields.counted => /\ proc[p].counted /\ fields.job \in JobNames
                           /\ fields.job = proc[p].job /\ r = proc[p].round
  PROVE  Inv'
  <1>1. UNCHANGED <<round, window, ticket, benefits, scores, execution>>
    BY DEF ReadToOpen
  <1>2. PICK x : /\ proc' = [proc EXCEPT ![p] = x]
                 /\ \/ x = [fields EXCEPT !.at = "grant", !.round = r, !.users = Users]
                    \/ x = [fields EXCEPT !.at = "openWrite", !.round = r]
    BY DEF ReadToOpen
  <1>3. "grant" \in Steps /\ "openWrite" \in Steps
    BY DEF Steps
  <1>4. /\ x \in Process /\ x.at \in {"grant", "openWrite"} /\ x.round = r
        /\ x.counted = fields.counted /\ x.job = fields.job
    BY <1>2, <1>3 DEF Process
  <1>5. Sound(x, ticket)
    BY <1>4 DEF Sound
  <1> QED BY <1>1, <1>2, <1>4, <1>5, OnlyProcess

LEMMA ScoreReadStep ==
  ASSUME Inv, NEW p \in Processes, ScoreRead(p)
  PROVE  Inv'
  <1>1. UNCHANGED <<round, window, ticket, benefits, scores, execution>>
    BY DEF ScoreRead
  <1>2. proc[p] \in Process /\ Sound(proc[p], ticket) /\ proc[p].at = "scoreRead"
    BY DEF Inv, TypeOK, Procs, ScoreRead, At
  <1>3. proc[p].round \in Rounds
    BY <1>2 DEF Sound
  <1>4. CASE Return(p)
    <2>1. ~At(p, "idle")
      BY <1>2 DEF At
    <2>2. PICK x \in Process :
            /\ proc' = [proc EXCEPT ![p] = x]
            /\ \A tickets : Sound(x, tickets)
            /\ x.counted => proc[p].counted /\ x.job = proc[p].job /\ x.round = proc[p].round
      BY <1>4, <2>1, ReturnRow
    <2> QED BY <1>1, <2>2, OnlyProcess
  <1>5. CASE ~Return(p)
    <2>1. PICK v, readers :
            /\ v = round[proc[p].round].result
            /\ readers = {u \in Users : ticket[proc[p].round][u].status # "ABSENT"}
      OBVIOUS
    <2>2. /\ v # None
          /\ proc' = [proc EXCEPT ![p].at = "scoreCommit", ![p].value = v,
                                  ![p].users = readers]
      BY <1>5, <2>1 DEF ScoreRead
    <2>3. v \in Results
      BY <1>3, <2>1, <2>2 DEF Inv, TypeOK, RoundRow
    <2>4. readers = Holders(ticket, proc[p].round) /\ readers \in SUBSET Users
      BY <2>1 DEF Holders
    <2>5. PICK x : x = [proc[p] EXCEPT !.at = "scoreCommit", !.value = v, !.users = readers]
      OBVIOUS
    <2>6. proc' = [proc EXCEPT ![p] = x]
      BY <2>2, <2>5 DEF Inv, TypeOK
    <2>7. "scoreCommit" \in Steps
      BY DEF Steps
    <2>8. /\ x \in Process /\ x.at = "scoreCommit" /\ x.value = v /\ x.users = readers
          /\ x.round = proc[p].round /\ x.counted = proc[p].counted /\ x.job = proc[p].job
      BY <1>2, <2>3, <2>4, <2>5, <2>7 DEF Process
    <2>9. Sound(x, ticket)
      BY <1>2, <1>3, <2>3, <2>4, <2>8 DEF Sound
    <2> QED BY <1>1, <2>6, <2>8, <2>9, OnlyProcess
  <1> QED BY <1>4, <1>5

LEMMA CrashStep ==
  ASSUME Inv, NEW p \in Processes, Crash(p)
  PROVE  Inv'
  <1>1. proc' = [proc EXCEPT ![p] = Idle]
        /\ UNCHANGED <<round, window, ticket, benefits, scores, execution>>
    BY DEF Crash
  <1> QED BY <1>1, IdleRow, OnlyProcess

(* All of them.                                                             *)
LEMMA ProcessSteps ==
  ASSUME Inv, NEW p \in Processes,
         \/ \E r \in Rounds :
               \/ AdminOpen(p, r) \/ ScheduledClose(p, r)
               \/ \E j \in Jobs : RequestJob(p, j, r)
         \/ ScheduledOpen(p) \/ OpenRead(p) \/ CloseRead(p) \/ CancelCount(p)
  PROVE  Inv'
  <1>1. /\ proc[p] \in Process /\ Sound(proc[p], ticket)
        /\ \A step \in {"openRead", "closeRead", "cancelCount"} :
              At(p, step) => proc[p].round \in Rounds /\ proc[p].at \notin {"idle", "create"}
    BY DEF Inv, TypeOK, Procs, Sound, At
  <1>2. "cancelOpen" \in Plain /\ "closeWrite" \in Plain
    BY DEF Plain, Steps
  <1>3. ASSUME NEW r \in Rounds, AdminOpen(p, r) PROVE Inv'
    BY <1>3, IdleRow, ReadToOpenStep DEF AdminOpen
  <1>4. ASSUME NEW r \in Rounds, ScheduledClose(p, r) PROVE Inv'
    BY <1>4, StartJobStep DEF ScheduledClose, JobNames
  <1>5. ASSUME NEW r \in Rounds, NEW j \in Jobs, RequestJob(p, j, r) PROVE Inv'
    BY <1>5, RoundsAssumption, StartJobStep DEF RequestJob
  <1>6. CASE ScheduledOpen(p)
    <2>1. PICK due \in SUBSET Rounds :
             due # {} /\ StartJob(p, "OPEN_SCHEDULED_ROUND", Min(due))
      BY <1>6 DEF ScheduledOpen
    <2>2. Min(due) \in Rounds
      BY <2>1, LeastOf
    <2> QED BY <2>1, <2>2, StartJobStep DEF JobNames
  <1>7. CASE OpenRead(p)
    <2>1. proc[p].counted => proc[p].job \in JobNames
      BY <1>1 DEF Sound
    <2> QED BY <1>1, <1>7, <2>1, ReadToOpenStep DEF OpenRead
  <1>8. CASE CloseRead(p)
    BY <1>1, <1>2, <1>8, GoStep DEF CloseRead
  <1>9. CASE CancelCount(p)
    BY <1>1, <1>2, <1>9, GoStep DEF CancelCount
  <1> QED BY <1>3, <1>4, <1>5, <1>6, <1>7, <1>8, <1>9

-----------------------------------------------------------------------------
(* The steps that change rounds, tickets and benefits.                      *)

Others == <<ticket, benefits, scores, execution>>

LEMMA StatusType ==
  ASSUME Inv, NEW r \in Rounds, NEW status \in Statuses
  PROVE  [round EXCEPT ![r].status = status] \in [Rounds -> RoundRow]
  BY DEF Inv, TypeOK, RoundRow

LEMMA WindowType ==
  ASSUME Inv, NEW r \in Rounds, NEW w \in Windows
  PROVE  [window EXCEPT ![r] = w] \in [Rounds -> Windows]
  BY DEF Inv, TypeOK

LEMMA CalendarStep ==
  ASSUME Inv, NEW r \in Rounds, CreateRound(r) \/ Tick(r)
  PROVE  Inv'
  <1>1. UNCHANGED Others /\ UNCHANGED proc
    BY DEF CreateRound, Tick, Others
  <1>2. round' \in [Rounds -> RoundRow]
    <2>1. "DRAFT" \in Statuses
      BY DEF Statuses
    <2>2. CASE CreateRound(r)
      BY <2>1, <2>2, StatusType DEF CreateRound
    <2>3. CASE Tick(r)
      BY <2>3 DEF Tick, Inv, TypeOK
    <2> QED BY <2>2, <2>3
  <1>3. window' \in [Rounds -> Windows]
    <2>1. CASE CreateRound(r)
      BY <2>1 DEF CreateRound, Inv, TypeOK
    <2>2. CASE Tick(r)
      BY <2>2 DEF Tick, Inv, TypeOK, Windows
    <2> QED BY <2>1, <2>2
  <1>4. TypeOK'
    BY <1>1, <1>2, <1>3 DEF Inv, TypeOK, Others, benefits, scores
  <1>5. Procs'
    BY <1>1 DEF Inv, Procs, Others
  <1>6. Counting'
    BY <1>1 DEF Inv, Counting, Counted, Others
  <1> QED BY <1>4, <1>5, <1>6 DEF Inv

(* A process writes a round or its window and goes on as x.                 *)
LEMMA WriteStep ==
  ASSUME Inv, NEW p \in Processes, NEW x \in Process, proc' = [proc EXCEPT ![p] = x],
         Sound(x, ticket),
         x.counted => proc[p].counted /\ x.job = proc[p].job /\ x.round = proc[p].round,
         round' \in [Rounds -> RoundRow], window' \in [Rounds -> Windows],
         UNCHANGED Others
  PROVE  Inv'
  <1>1. ticket' = ticket /\ execution' = execution
    BY DEF Others
  <1>2. proc' \in [Processes -> Process] /\ Procs' /\ Counting'
    BY <1>1, RowStep
  <1>3. TypeOK'
    BY <1>2 DEF Inv, TypeOK, Others, benefits, scores
  <1> QED BY <1>2, <1>3 DEF Inv

LEMMA WriteSteps ==
  ASSUME Inv, NEW p \in Processes,
         \/ \E w \in Windows : EditWrite(p, w)
         \/ CancelWrite(p) \/ ResultWrite(p)
  PROVE  Inv'
  <1>1. proc[p] \in Process /\ Sound(proc[p], ticket) /\ proc[p].round \in Rounds
    BY DEF Inv, TypeOK, Procs, Sound, EditWrite, CancelWrite, ResultWrite, At
  <1>2. UNCHANGED Others /\ proc' = [proc EXCEPT ![p] = Idle]
    BY DEF EditWrite, CancelWrite, ResultWrite, Others
  <1>3. /\ round' \in [Rounds -> RoundRow]
        /\ window' \in [Rounds -> Windows]
    <2>1. CASE \E w \in Windows : EditWrite(p, w)
      BY <1>1, <2>1, WindowType DEF EditWrite, Inv, TypeOK
    <2>2. CASE CancelWrite(p)
      <3>1. "CANCELLED" \in Statuses /\ "ended" \in Windows
        BY DEF Statuses, Windows
      <3>2. window \in [Rounds -> Windows]
        BY DEF Inv, TypeOK
      <3>3. round' = [round EXCEPT ![proc[p].round].status = "CANCELLED"]
        BY <2>2 DEF CancelWrite
      <3>4. window' = window \/ window' = [window EXCEPT ![proc[p].round] = "ended"]
        BY <2>2 DEF CancelWrite
      <3> QED BY <1>1, <3>1, <3>2, <3>3, <3>4, StatusType, WindowType
    <2>3. CASE ResultWrite(p)
      <3>1. proc[p].value \in Results
        BY <1>1, <2>3 DEF ResultWrite, Sound, At
      <3>2. PICK v \in Results : v = proc[p].value
        BY <3>1
      <3>3. round' = [round EXCEPT ![proc[p].round].result = v] /\ window' = window
        BY <2>3, <3>2 DEF ResultWrite
      <3> QED BY <1>1, <3>3 DEF Inv, TypeOK, RoundRow
    <2> QED BY <2>1, <2>2, <2>3
  <1> QED BY <1>2, <1>3, IdleRow, WriteStep

LEMMA OpenWriteStep ==
  ASSUME Inv, NEW p \in Processes, OpenWrite(p)
  PROVE  Inv'
  <1>1. proc[p] \in Process /\ Sound(proc[p], ticket) /\ proc[p].at = "openWrite"
    BY DEF Inv, TypeOK, Procs, OpenWrite, At
  <1>2. proc[p].round \in Rounds /\ "OPEN" \in Statuses /\ "grant" \in Steps
    BY <1>1 DEF Sound, Statuses, Steps
  <1>3. PICK x : x = [proc[p] EXCEPT !.at = "grant", !.users = Users]
    OBVIOUS
  <1>4. proc' = [proc EXCEPT ![p] = x]
    BY <1>3 DEF OpenWrite, Inv, TypeOK
  <1>5. /\ x \in Process /\ x.at = "grant" /\ x.round = proc[p].round
        /\ x.counted = proc[p].counted /\ x.job = proc[p].job
    BY <1>1, <1>2, <1>3 DEF Process
  <1>6. Sound(x, ticket)
    BY <1>1, <1>2, <1>5 DEF Sound
  <1>7. round' \in [Rounds -> RoundRow] /\ window' \in [Rounds -> Windows]
    BY <1>2, StatusType DEF OpenWrite, Inv, TypeOK
  <1>8. UNCHANGED Others
    BY DEF OpenWrite, Others
  <1> QED BY <1>4, <1>5, <1>6, <1>7, <1>8, WriteStep

LEMMA CloseWriteStep ==
  ASSUME Inv, NEW p \in Processes, CloseWrite(p)
  PROVE  Inv'
  <1>1. proc[p] \in Process /\ Sound(proc[p], ticket) /\ proc[p].at = "closeWrite"
    BY DEF Inv, TypeOK, Procs, CloseWrite, At
  <1>2. proc[p].round \in Rounds /\ "CLOSED" \in Statuses /\ "zero" \in Plain
    BY <1>1 DEF Sound, Statuses, Steps, Plain
  <1>3. PICK x : x = [proc[p] EXCEPT !.at = "zero"]
    OBVIOUS
  <1>4. proc' = [proc EXCEPT ![p] = x]
    BY <1>3 DEF CloseWrite, Go
  <1>5. /\ x \in Process /\ Sound(x, ticket)
        /\ x.counted = proc[p].counted /\ x.job = proc[p].job /\ x.round = proc[p].round
    BY <1>1, <1>2, <1>3, GoRow
  <1>6. round' \in [Rounds -> RoundRow] /\ window' \in [Rounds -> Windows]
    BY <1>2, StatusType DEF CloseWrite, Inv, TypeOK
  <1>7. UNCHANGED Others
    BY DEF CloseWrite, Others
  <1> QED BY <1>4, <1>5, <1>6, <1>7, WriteStep

(* A step of a process on one round that leaves the rounds and the jobs as  *)
(* they are.                                                                *)
LEMMA DataStep ==
  ASSUME Inv, NEW p \in Processes, NEW x \in Process, proc' = [proc EXCEPT ![p] = x],
         Sound(x, ticket'),
         x.counted => proc[p].counted /\ x.job = proc[p].job /\ x.round = proc[p].round,
         \A r \in Rounds : Holders(ticket, r) \subseteq Holders(ticket', r),
         round' \in [Rounds -> RoundRow],
         ticket' \in [Rounds -> [Users -> TicketRow]],
         granted' \in [Rounds -> SUBSET Users],
         free' \in [Rounds -> [Users -> Amounts]],
         inventory' \in [Users -> Amounts],
         history' \in [Rounds -> [Users -> Results \cup {None}]],
         score' \in [Users -> Int],
         snapshot' \in [Rounds -> SUBSET Users],
         window' = window, execution' = execution
  PROVE  Inv'
  <1>1. proc' \in [Processes -> Process] /\ Procs' /\ Counting'
    BY RowStep
  <1>2. window' \in [Rounds -> Windows]
        /\ execution' \in [JobNames -> [Rounds -> Executions]]
    BY DEF Inv, TypeOK
  <1>3. TypeOK'
    BY <1>1, <1>2 DEF TypeOK
  <1> QED BY <1>1, <1>3 DEF Inv

LEMMA AmountsType ==
  /\ \A u \in Users : Grant[u] \in Amounts /\ Need[u] \in Amounts
  /\ Nothing \in Amounts
  BY RoundsAssumption DEF Amounts, Nothing

LEMMA FreeType ==
  ASSUME Inv, NEW r \in Rounds, NEW u \in Users, NEW left \in Amounts
  PROVE  [free EXCEPT ![r][u] = left] \in [Rounds -> [Users -> Amounts]]
  BY DEF Inv, TypeOK

LEMMA GrantStep ==
  ASSUME Inv, NEW p \in Processes, NEW u \in Users, GrantBenefits(p, u)
  PROVE  Inv'
  <1>1. proc[p] \in Process /\ Sound(proc[p], ticket) /\ proc[p].at = "grant"
    BY DEF Inv, TypeOK, Procs, GrantBenefits, At
  <1>2. PICK r \in Rounds : r = proc[p].round
    BY <1>1 DEF Sound
  <1>3. PICK x \in Process :
          /\ proc' = [proc EXCEPT ![p] = x]
          /\ Sound(x, ticket)
          /\ x.counted => proc[p].counted /\ x.job = proc[p].job /\ x.round = proc[p].round
    <2>1. CASE Return(p)
      BY <1>1, <2>1, ReturnRow DEF At
    <2>2. CASE ~Return(p)
      <3>1. PICK x, rest : rest = proc[p].users \ {u} /\ x = [proc[p] EXCEPT !.users = rest]
        OBVIOUS
      <3>2. proc' = [proc EXCEPT ![p] = x]
        BY <2>2, <3>1 DEF GrantBenefits, Inv, TypeOK
      <3>3. rest \in SUBSET Users
        BY <1>1, <3>1 DEF Process
      <3>4. /\ x \in Process /\ x.at = "grant" /\ x.round = proc[p].round
            /\ x.counted = proc[p].counted /\ x.job = proc[p].job
        BY <1>1, <3>1, <3>3 DEF Process
      <3>5. Sound(x, ticket)
        BY <1>1, <3>4 DEF Sound
      <3> QED BY <3>2, <3>4, <3>5
    <2> QED BY <2>1, <2>2
  <1>4. UNCHANGED <<round, window, ticket, inventory, scores, execution>>
    BY DEF GrantBenefits
  <1>5. granted' \in [Rounds -> SUBSET Users]
    BY <1>2 DEF GrantBenefits, Inv, TypeOK
  <1>6. free' \in [Rounds -> [Users -> Amounts]]
    <2>1. FreeAfterGrant(r, u) \in Amounts
      BY AmountsType DEF FreeAfterGrant, Inv, TypeOK
    <2>2. free' = [free EXCEPT ![r][u] = FreeAfterGrant(r, u)]
      BY <1>2 DEF GrantBenefits
    <2> QED BY <2>1, <2>2, FreeType
  <1>7. /\ round \in [Rounds -> RoundRow] /\ ticket \in [Rounds -> [Users -> TicketRow]]
        /\ inventory \in [Users -> Amounts]
        /\ history \in [Rounds -> [Users -> Results \cup {None}]]
        /\ score \in [Users -> Int] /\ snapshot \in [Rounds -> SUBSET Users]
    BY DEF Inv, TypeOK
  <1> QED BY <1>3, <1>4, <1>5, <1>6, <1>7, DataStep DEF scores

LEMMA ZeroStep ==
  ASSUME Inv, NEW p \in Processes, ZeroBenefits(p)
  PROVE  Inv'
  <1>1. proc[p] \in Process /\ Sound(proc[p], ticket) /\ proc[p].at = "zero"
    BY DEF Inv, TypeOK, Procs, ZeroBenefits, At
  <1>2. PICK r \in Rounds : r = proc[p].round
    BY <1>1 DEF Sound
  <1>3. PICK x \in Process :
          /\ proc' = [proc EXCEPT ![p] = x]
          /\ Sound(x, ticket)
          /\ x.counted => proc[p].counted /\ x.job = proc[p].job /\ x.round = proc[p].round
    <2>1. CASE Return(p)
      BY <1>1, <2>1, ReturnRow DEF At
    <2>2. CASE Go(p, "scoreRead")
      <3>1. PICK x : x = [proc[p] EXCEPT !.at = "scoreRead"]
        OBVIOUS
      <3>2. proc' = [proc EXCEPT ![p] = x]
        BY <2>2, <3>1 DEF Go
      <3>3. "scoreRead" \in Plain
        BY DEF Plain, Steps
      <3>4. /\ x \in Process /\ Sound(x, ticket)
            /\ x.counted = proc[p].counted /\ x.job = proc[p].job
            /\ x.round = proc[p].round
        BY <1>1, <3>1, <3>3, GoRow
      <3> QED BY <3>2, <3>4
    <2> QED BY <2>1, <2>2 DEF ZeroBenefits
  <1>4. UNCHANGED <<round, window, ticket, granted, inventory, scores, execution>>
    BY DEF ZeroBenefits
  <1>5. free' \in [Rounds -> [Users -> Amounts]]
    <2>1. free' = [free EXCEPT ![r] = [u \in Users |-> Nothing]]
      BY <1>2 DEF ZeroBenefits
    <2> QED BY <2>1, AmountsType DEF Inv, TypeOK
  <1>6. /\ round \in [Rounds -> RoundRow] /\ ticket \in [Rounds -> [Users -> TicketRow]]
        /\ inventory \in [Users -> Amounts] /\ granted \in [Rounds -> SUBSET Users]
        /\ history \in [Rounds -> [Users -> Results \cup {None}]]
        /\ score \in [Users -> Int] /\ snapshot \in [Rounds -> SUBSET Users]
    BY DEF Inv, TypeOK
  <1> QED BY <1>3, <1>4, <1>5, <1>6, DataStep DEF scores

LEMMA LesserOf ==
  ASSUME NEW a \in Nat, NEW b \in Nat
  PROVE  Min({a, b}) \in Nat /\ Min({a, b}) <= a /\ Min({a, b}) <= b
  <1>1. \E x \in {a, b} : \A y \in {a, b} : x <= y
    <2>1. CASE a <= b
      BY <2>1
    <2>2. CASE b <= a
      BY <2>2
    <2> QED BY <2>1, <2>2
  <1>2. Min({a, b}) \in {a, b} /\ \A y \in {a, b} : Min({a, b}) <= y
    BY <1>1 DEF Min
  <1> QED BY <1>2

(* A ticket takes no more than is free, and no more than it needs.          *)
LEMMA TakenFree ==
  ASSUME Inv, NEW r \in Rounds, NEW u \in Users, NEW b \in BenefitTypes
  PROVE  /\ FromFree(r, u)[b] \in Nat /\ free[r][u][b] \in Nat /\ Need[u][b] \in Nat
         /\ FromFree(r, u)[b] <= free[r][u][b] /\ FromFree(r, u)[b] <= Need[u][b]
  <1>1. free[r][u][b] \in Nat /\ Need[u][b] \in Nat
    BY RoundsAssumption DEF Inv, TypeOK, Amounts
  <1>2. FromFree(r, u)[b] = Min({free[r][u][b], Need[u][b]})
    BY DEF FromFree
  <1> QED BY <1>1, <1>2, LesserOf

LEMMA TakenTypes ==
  ASSUME Inv, NEW r \in Rounds, NEW u \in Users
  PROVE  FromFree(r, u) \in Amounts /\ FromInventory(r, u) \in Amounts
  <1>1. FromFree(r, u) \in Amounts
    <2>1. \A b \in BenefitTypes : FromFree(r, u)[b] \in Nat
      BY TakenFree
    <2>2. FromFree(r, u) = [b \in BenefitTypes |-> FromFree(r, u)[b]]
      BY DEF FromFree
    <2> QED BY <2>1, <2>2 DEF Amounts
  <1>2. \A b \in BenefitTypes : Need[u][b] - FromFree(r, u)[b] \in Nat
    <2> TAKE b \in BenefitTypes
    <2>1. /\ FromFree(r, u)[b] \in Nat /\ Need[u][b] \in Nat
          /\ FromFree(r, u)[b] <= Need[u][b]
      BY TakenFree
    <2> QED BY <2>1
  <1>3. FromInventory(r, u) = [b \in BenefitTypes |-> Need[u][b] - FromFree(r, u)[b]]
    BY DEF FromInventory
  <1> QED BY <1>1, <1>2, <1>3 DEF Amounts

(* What is left of amounts that cover what is taken.                        *)
LEMMA LeftType ==
  ASSUME NEW have \in Amounts, NEW take \in Amounts,
         \A b \in BenefitTypes : have[b] >= take[b]
  PROVE  [b \in BenefitTypes |-> have[b] - take[b]] \in Amounts
  <1>1. \A b \in BenefitTypes : have[b] - take[b] \in Nat
    BY DEF Amounts
  <1> QED BY <1>1 DEF Amounts

(* The ticket of u in r is written, and pays.                               *)
Bought(r, u) ==
    /\ TicketIsNew(r, u) /\ Affordable(r, u)
    /\ ticket' = [ticket EXCEPT ![r][u] =
          [status |-> "PENDING", fromFree |-> FromFree(r, u),
           fromInventory |-> FromInventory(r, u)]]
    /\ free' = [free EXCEPT ![r][u] =
          [b \in BenefitTypes |-> @[b] - FromFree(r, u)[b]]]
    /\ inventory' = [inventory EXCEPT ![u] =
          [b \in BenefitTypes |-> @[b] - FromInventory(r, u)[b]]]

LEMMA TicketShape ==
  ASSUME Inv, NEW p \in Processes, TicketCommit(p)
  PROVE  \E r \in Rounds, u \in Users : Bought(r, u)
  <1> DEFINE r == proc[p].round
  <1>1. proc[p] \in Process /\ Sound(proc[p], ticket) /\ proc[p].at = "ticketCommit"
    BY DEF Inv, TypeOK, Procs, TicketCommit, At
  <1>2. r \in Rounds /\ proc[p].users \subseteq Users
    BY <1>1 DEF Sound, Process
  <1>3. \E u \in proc[p].users : Bought(r, u)
    BY Zenon DEF TicketCommit, Bought
  <1> QED BY <1>2, <1>3, Zenon

LEMMA TicketStep ==
  ASSUME Inv, NEW p \in Processes, TicketCommit(p)
  PROVE  Inv' /\ \A s \in Rounds : Holders(ticket, s) \subseteq Holders(ticket', s)
  <1>1. PICK r \in Rounds, u \in Users : Bought(r, u)
    BY TicketShape
  <1>2. /\ TicketIsNew(r, u) /\ Affordable(r, u)
        /\ ticket' = [ticket EXCEPT ![r][u] =
              [status |-> "PENDING", fromFree |-> FromFree(r, u),
               fromInventory |-> FromInventory(r, u)]]
        /\ free' = [free EXCEPT ![r][u] =
              [b \in BenefitTypes |-> @[b] - FromFree(r, u)[b]]]
        /\ inventory' = [inventory EXCEPT ![u] =
              [b \in BenefitTypes |-> @[b] - FromInventory(r, u)[b]]]
    BY <1>1, Zenon DEF Bought
  <1>3. proc' = [proc EXCEPT ![p] = Idle]
        /\ UNCHANGED <<round, window, granted, scores, execution>>
    BY DEF TicketCommit
  <1>4. FromFree(r, u) \in Amounts /\ FromInventory(r, u) \in Amounts
    BY TakenTypes
  <1>5. ticket' \in [Rounds -> [Users -> TicketRow]]
    <2>1. PICK row \in TicketRow :
             row = [status |-> "PENDING", fromFree |-> FromFree(r, u),
                    fromInventory |-> FromInventory(r, u)]
      BY <1>4 DEF TicketRow
    <2>2. ticket' = [ticket EXCEPT ![r][u] = row]
      BY <1>2, <2>1
    <2> QED BY <2>2 DEF Inv, TypeOK
  <1>6. \A s \in Rounds : Holders(ticket, s) \subseteq Holders(ticket', s)
    BY <1>2 DEF Inv, TypeOK, Holders, TicketIsNew
  <1>7. free' \in [Rounds -> [Users -> Amounts]]
    <2>1. free[r][u] \in Amounts
      BY DEF Inv, TypeOK
    <2>2. \A b \in BenefitTypes : free[r][u][b] >= FromFree(r, u)[b]
      BY TakenFree
    <2>3. [b \in BenefitTypes |-> free[r][u][b] - FromFree(r, u)[b]] \in Amounts
      BY <1>4, <2>1, <2>2, LeftType
    <2>4. free' = [free EXCEPT ![r][u] =
                [b \in BenefitTypes |-> free[r][u][b] - FromFree(r, u)[b]]]
      BY <1>2
    <2> QED BY <2>3, <2>4, FreeType
  <1>8. inventory' \in [Users -> Amounts]
    <2>1. inventory[u] \in Amounts
      BY DEF Inv, TypeOK
    <2>2. [b \in BenefitTypes |-> inventory[u][b] - FromInventory(r, u)[b]] \in Amounts
      BY <1>2, <1>4, <2>1, LeftType DEF Affordable
    <2>3. PICK left \in Amounts :
             left = [b \in BenefitTypes |-> inventory[u][b] - FromInventory(r, u)[b]]
      BY <2>2
    <2>4. inventory' = [inventory EXCEPT ![u] = left]
      BY <1>2, <2>3
    <2> QED BY <2>4 DEF Inv, TypeOK
  <1>9. /\ round \in [Rounds -> RoundRow] /\ granted \in [Rounds -> SUBSET Users]
         /\ history \in [Rounds -> [Users -> Results \cup {None}]]
         /\ score \in [Users -> Int] /\ snapshot \in [Rounds -> SUBSET Users]
    BY DEF Inv, TypeOK
  <1> QED BY <1>3, <1>5, <1>6, <1>7, <1>8, <1>9, IdleRow, DataStep DEF scores

(* Tickets of users are scored in r with v.                                 *)
ScoredWith(p, r, v, users) ==
    /\ r = proc[p].round /\ v = proc[p].value /\ users = proc[p].users
    /\ \A u \in users : history[r][u] = None
    /\ score' = [u \in Users |->
                    IF u \in users THEN score[u] + Points[u][v] ELSE score[u]]
    /\ ticket' = [ticket EXCEPT ![r] = [u \in Users |->
                    IF u \in users THEN [@[u] EXCEPT !.status = "SCORED"] ELSE @[u]]]
    /\ history' = [history EXCEPT ![r] = [u \in Users |->
                    IF u \in users THEN v ELSE @[u]]]
    /\ round' = [round EXCEPT ![r].status = "SCORED"]

LEMMA ScoreShape ==
  ASSUME Inv, NEW p \in Processes, ScoreCommit(p)
  PROVE  \E r \in Rounds, v \in Results, users \in SUBSET Users : ScoredWith(p, r, v, users)
  <1>1. proc[p] \in Process /\ Sound(proc[p], ticket) /\ proc[p].at = "scoreCommit"
    BY DEF Inv, TypeOK, Procs, ScoreCommit, At
  <1>2. PICK r \in Rounds : r = proc[p].round
    BY <1>1 DEF Sound
  <1>3. PICK v \in Results : v = proc[p].value
    BY <1>1 DEF Sound
  <1>4. PICK users \in SUBSET Users : users = proc[p].users
    BY <1>1 DEF Process
  <1>5. ScoredWith(p, r, v, users)
    BY <1>2, <1>3, <1>4 DEF ScoreCommit, Scored, HistoryIsNew, ScoredWith
  <1> QED BY <1>5

LEMMA ScoreCommitStep ==
  ASSUME Inv, NEW p \in Processes, ScoreCommit(p)
  PROVE  Inv' /\ \A s \in Rounds : Holders(ticket, s) \subseteq Holders(ticket', s)
  <1>1. proc[p] \in Process /\ Sound(proc[p], ticket) /\ proc[p].at = "scoreCommit"
    BY DEF Inv, TypeOK, Procs, ScoreCommit, At
  <1>2. PICK r \in Rounds, v \in Results, users \in SUBSET Users : ScoredWith(p, r, v, users)
    BY ScoreShape
  <1>3. /\ score' = [u \in Users |->
                        IF u \in users THEN score[u] + Points[u][v] ELSE score[u]]
        /\ ticket' = [ticket EXCEPT ![r] = [u \in Users |->
                        IF u \in users THEN [@[u] EXCEPT !.status = "SCORED"] ELSE @[u]]]
        /\ history' = [history EXCEPT ![r] = [u \in Users |->
                        IF u \in users THEN v ELSE @[u]]]
        /\ round' = [round EXCEPT ![r].status = "SCORED"]
    BY <1>2, Zenon DEF ScoredWith
  <1>4. Go(p, "snapshot") /\ UNCHANGED <<window, benefits, snapshot, execution>>
    BY DEF ScoreCommit
  <1>5. PICK x \in Process :
          /\ proc' = [proc EXCEPT ![p] = x]
          /\ \A tickets : Sound(x, tickets)
          /\ x.counted = proc[p].counted /\ x.job = proc[p].job /\ x.round = proc[p].round
    <2>1. PICK x : x = [proc[p] EXCEPT !.at = "snapshot"]
      OBVIOUS
    <2>2. proc' = [proc EXCEPT ![p] = x]
      BY <1>4, <2>1 DEF Go
    <2>3. "snapshot" \in Steps
      BY DEF Steps
    <2>4. /\ x \in Process /\ x.at = "snapshot"
          /\ x.counted = proc[p].counted /\ x.job = proc[p].job
          /\ x.round = proc[p].round
      BY <1>1, <2>1, <2>3 DEF Process
    <2>5. \A tickets : Sound(x, tickets)
      BY <1>1, <2>4 DEF Sound
    <2> QED BY <2>2, <2>4, <2>5
  <1>6. score' \in [Users -> Int]
    <2>1. \A u \in Users : score[u] \in Int /\ Points[u][v] \in Int
      BY RoundsAssumption DEF Inv, TypeOK
    <2> QED BY <1>3, <2>1
  <1>7. \A u \in Users : [ticket[r][u] EXCEPT !.status = "SCORED"] \in TicketRow
    <2>1. ASSUME NEW row \in TicketRow PROVE [row EXCEPT !.status = "SCORED"] \in TicketRow
      BY DEF TicketRow
    <2>2. \A u \in Users : ticket[r][u] \in TicketRow
      BY DEF Inv, TypeOK
    <2> QED BY <2>1, <2>2
  <1>8. PICK rows : rows = [u \in Users |->
            IF u \in users THEN [ticket[r][u] EXCEPT !.status = "SCORED"] ELSE ticket[r][u]]
    OBVIOUS
  <1>9. /\ ticket' = [ticket EXCEPT ![r] = rows] /\ rows \in [Users -> TicketRow]
         /\ \A u \in Users : ticket[r][u].status # "ABSENT" => rows[u].status # "ABSENT"
    <2>1. \A u \in Users : ticket[r][u] \in TicketRow
      BY DEF Inv, TypeOK
    <2>2. rows \in [Users -> TicketRow]
      BY <1>7, <1>8, <2>1
    <2>3. \A u \in Users : [ticket[r][u] EXCEPT !.status = "SCORED"].status = "SCORED"
      BY <2>1 DEF TicketRow
    <2>4. \A u \in Users : ticket[r][u].status # "ABSENT" => rows[u].status # "ABSENT"
      BY <1>8, <2>3
    <2> QED BY <1>3, <1>8, <2>2, <2>4
  <1>10. ticket' \in [Rounds -> [Users -> TicketRow]]
         /\ \A s \in Rounds : Holders(ticket, s) \subseteq Holders(ticket', s)
    BY <1>9 DEF Inv, TypeOK, Holders
  <1>11. history' \in [Rounds -> [Users -> Results \cup {None}]]
    BY <1>3 DEF Inv, TypeOK
  <1>12. round' \in [Rounds -> RoundRow]
    BY <1>3, StatusType DEF Statuses
  <1>13. /\ granted \in [Rounds -> SUBSET Users] /\ free \in [Rounds -> [Users -> Amounts]]
         /\ inventory \in [Users -> Amounts] /\ snapshot \in [Rounds -> SUBSET Users]
    BY DEF Inv, TypeOK
  <1> QED BY <1>4, <1>5, <1>6, <1>10, <1>11, <1>12, <1>13, DataStep DEF benefits

LEMMA SnapshotStep ==
  ASSUME Inv, NEW p \in Processes, Snapshot(p)
  PROVE  Inv'
  <1>1. proc[p] \in Process /\ Sound(proc[p], ticket) /\ proc[p].at = "snapshot"
    BY DEF Inv, TypeOK, Procs, Snapshot, At
  <1>2. Return(p) /\ UNCHANGED <<round, window, ticket, benefits, history, score, execution>>
    BY DEF Snapshot
  <1>3. PICK x \in Process :
          /\ proc' = [proc EXCEPT ![p] = x]
          /\ \A tickets : Sound(x, tickets)
          /\ x.counted => proc[p].counted /\ x.job = proc[p].job /\ x.round = proc[p].round
    BY <1>1, <1>2, ReturnRow DEF At
  <1>4. snapshot' \in [Rounds -> SUBSET Users]
    <2>1. PICK rows \in SUBSET Users :
             snapshot' = snapshot \/ snapshot' = [snapshot EXCEPT ![proc[p].round] = rows]
      BY DEF Snapshot
    <2> QED BY <2>1 DEF Inv, TypeOK
  <1>5. /\ round \in [Rounds -> RoundRow] /\ ticket \in [Rounds -> [Users -> TicketRow]]
        /\ granted \in [Rounds -> SUBSET Users] /\ free \in [Rounds -> [Users -> Amounts]]
        /\ inventory \in [Users -> Amounts]
        /\ history \in [Rounds -> [Users -> Results \cup {None}]]
        /\ score \in [Users -> Int]
    BY DEF Inv, TypeOK
  <1> QED BY <1>2, <1>3, <1>4, <1>5, DataStep DEF benefits

-----------------------------------------------------------------------------
(* The steps that change executions.                                        *)

(* Executions of one job and round.                                         *)
LEMMA ExecutionType ==
  ASSUME Inv, NEW j \in JobNames, NEW r \in Rounds, NEW row \in Executions
  PROVE  [execution EXCEPT ![j][r] = row] \in [JobNames -> [Rounds -> Executions]]
  BY DEF Inv, TypeOK

(* A process gets, or gives up, its row.                                    *)
LEMMA ExecutionStep ==
  ASSUME Inv, NEW p \in Processes, NEW x \in Process, proc' = [proc EXCEPT ![p] = x],
         Sound(x, ticket),
         UNCHANGED <<round, window, ticket, benefits, scores>>,
         execution' \in [JobNames -> [Rounds -> Executions]],
         Counting'
  PROVE  Inv'
  <1>1. \A r \in Rounds : Holders(ticket, r) \subseteq Holders(ticket', r)
    OBVIOUS
  <1>2. Sound(x, ticket')
    OBVIOUS
  <1>3. proc' \in [Processes -> Process] /\ Procs'
    BY <1>1, <1>2, ProcessStep
  <1>4. TypeOK'
    BY <1>3 DEF Inv, TypeOK, benefits, scores
  <1> QED BY <1>3, <1>4 DEF Inv

LEMMA CreateExecutionStep ==
  ASSUME Inv, NEW p \in Processes, CreateExecution(p)
  PROVE  Inv'
  <1>1. proc[p] \in Process /\ Sound(proc[p], ticket) /\ proc[p].at = "create"
    BY DEF Inv, TypeOK, Procs, CreateExecution, At
  <1>2. PICK j \in JobNames, r \in Rounds : j = proc[p].job /\ r = proc[p].round
    BY <1>1 DEF Sound
  <1>3. PICK step \in Plain : step = FirstStep(j)
    <2>1. FirstStep(j) \in Plain
      BY DEF FirstStep, JobNames, Plain, Steps
    <2> QED BY <2>1
  <1>4. PICK x : x = [proc[p] EXCEPT !.at = step, !.counted = TRUE]
    OBVIOUS
  <1>5. proc' = [proc EXCEPT ![p] = x]
    BY <1>2, <1>3, <1>4 DEF CreateExecution, Inv, TypeOK
  <1>6. step \in Steps
    BY DEF Plain
  <1>7. /\ x \in Process /\ x.at = step /\ x.counted /\ x.job = j /\ x.round = r
    BY <1>1, <1>2, <1>4, <1>6 DEF Process
  <1>8. Sound(x, ticket)
    BY <1>7 DEF Sound, Plain
  <1>9. UNCHANGED <<round, window, ticket, benefits, scores>>
    BY DEF CreateExecution
  <1>10. PICK n \in Nat, row \in Executions :
          /\ n = execution[j][r].running + 1
          /\ row = [running |-> n, success |-> execution[j][r].success]
    <2>1. execution[j][r] \in Executions
      BY DEF Inv, TypeOK
    <2>2. execution[j][r].running \in Nat /\ execution[j][r].success \in BOOLEAN
      BY <2>1 DEF Executions
    <2>3. PICK n \in Nat, b \in BOOLEAN :
             n = execution[j][r].running + 1 /\ b = execution[j][r].success
      BY <2>2
    <2>4. [running |-> n, success |-> b] \in Executions
      BY DEF Executions
    <2> QED BY <2>3, <2>4
  <1>11. execution' = [execution EXCEPT ![j][r] = row]
    <2>1. execution[j][r] \in Executions
      BY DEF Inv, TypeOK
    <2>2. [execution[j][r] EXCEPT !.running = execution[j][r].running + 1] = row
      BY <1>10, <2>1 DEF Executions
    <2>3. execution' = [execution EXCEPT ![j][r] =
              [execution[j][r] EXCEPT !.running = execution[j][r].running + 1]]
      BY <1>2 DEF CreateExecution
    <2> QED BY <2>2, <2>3
  <1>12. execution' \in [JobNames -> [Rounds -> Executions]]
    BY <1>11, ExecutionType
  <1>13. ASSUME NEW i \in JobNames, NEW s \in Rounds
         PROVE  Cardinality(Counted(i, s)') <= execution'[i][s].running
    <2>1. /\ proc'[p] = x /\ \A q \in Processes \ {p} : proc'[q] = proc[q]
      BY <1>5 DEF Inv, TypeOK
    <2>2. /\ IsFiniteSet(Counted(i, s)) /\ Cardinality(Counted(i, s)) \in Nat
          /\ Cardinality(Counted(i, s)) <= execution[i][s].running
          /\ execution[i][s].running \in Nat
      BY CountedFinite DEF Inv, Counting, TypeOK, Executions
    <2>3. CASE i = j /\ s = r
      <3>1. Counted(i, s)' \subseteq Counted(i, s) \cup {p}
        BY <2>1 DEF Counted
      <3>2. /\ IsFiniteSet(Counted(i, s) \cup {p})
            /\ Cardinality(Counted(i, s) \cup {p}) \in Nat
            /\ Cardinality(Counted(i, s) \cup {p}) <= Cardinality(Counted(i, s)) + 1
        <4>1. Cardinality(Counted(i, s) \cup {p}) = IF p \in Counted(i, s)
                 THEN Cardinality(Counted(i, s)) ELSE Cardinality(Counted(i, s)) + 1
          BY <2>2, FS_AddElement
        <4>2. IsFiniteSet(Counted(i, s) \cup {p})
          BY <2>2, FS_AddElement
        <4> QED BY <2>2, <4>1, <4>2
      <3>3. /\ Cardinality(Counted(i, s)') <= Cardinality(Counted(i, s) \cup {p})
            /\ Cardinality(Counted(i, s)') \in Nat
        BY <3>1, <3>2, FS_Subset, FS_CardinalityType
      <3>4. execution'[i][s].running = execution[i][s].running + 1
        BY <1>10, <1>11, <2>3 DEF Inv, TypeOK
      <3> QED BY <2>2, <3>2, <3>3, <3>4
    <2>4. CASE ~(i = j /\ s = r)
      <3>1. Counted(i, s)' = Counted(i, s)
        BY <1>1, <1>7, <2>1, <2>4 DEF Counted, Sound
      <3>2. execution'[i][s] = execution[i][s]
        BY <1>11, <2>4 DEF Inv, TypeOK
      <3> QED BY <2>2, <3>1, <3>2
    <2> QED BY <2>3, <2>4
  <1>14. Counting'
    BY <1>13 DEF Counting
  <1> QED BY <1>5, <1>7, <1>8, <1>9, <1>12, <1>14, ExecutionStep

(* The row of a process ends, and the process with it.                      *)
LEMMA EndExecutionStep ==
  ASSUME Inv, NEW p \in Processes, NEW j \in JobNames, NEW r \in Rounds, NEW b \in BOOLEAN,
         p \in Counted(j, r), proc' = [proc EXCEPT ![p] = Idle],
         execution' = [execution EXCEPT ![j][r] =
             [running |-> execution[j][r].running - 1, success |-> b]],
         UNCHANGED <<round, window, ticket, benefits, scores>>
  PROVE  Inv'
  <1>1. /\ IsFiniteSet(Counted(j, r) \ {p})
        /\ Cardinality(Counted(j, r) \ {p}) = Cardinality(Counted(j, r)) - 1
    BY CountedFinite, FS_RemoveElement
  <1>2. /\ Cardinality(Counted(j, r)) \in Nat /\ Cardinality(Counted(j, r) \ {p}) \in Nat
        /\ Cardinality(Counted(j, r)) <= execution[j][r].running
        /\ execution[j][r].running \in Nat
    BY <1>1, CountedFinite, FS_CardinalityType DEF Inv, Counting, TypeOK, Executions
  <1>3. PICK n \in Nat : /\ n = execution[j][r].running - 1
                         /\ Cardinality(Counted(j, r) \ {p}) <= n
    BY <1>1, <1>2
  <1>4. PICK row \in Executions : row = [running |-> n, success |-> b]
    BY DEF Executions
  <1>5. execution' = [execution EXCEPT ![j][r] = row]
    BY <1>3, <1>4
  <1>6. execution' \in [JobNames -> [Rounds -> Executions]]
    BY <1>5, ExecutionType
  <1>7. /\ proc'[p] = Idle /\ \A q \in Processes \ {p} : proc'[q] = proc[q]
    BY DEF Inv, TypeOK
  <1>8. ASSUME NEW i \in JobNames, NEW s \in Rounds
        PROVE  Cardinality(Counted(i, s)') <= execution'[i][s].running
    <2>1. Counted(i, s)' \subseteq Counted(i, s) \ {p}
      BY <1>7, IdleRow DEF Counted
    <2>2. CASE i = j /\ s = r
      <3>1. execution'[i][s].running = n
        BY <1>4, <1>5, <2>2 DEF Inv, TypeOK
      <3>2. /\ Cardinality(Counted(i, s)') <= Cardinality(Counted(j, r) \ {p})
            /\ Cardinality(Counted(i, s)') \in Nat
        BY <1>1, <2>1, <2>2, FS_Subset, FS_CardinalityType
      <3> QED BY <1>2, <1>3, <3>1, <3>2
    <2>3. CASE ~(i = j /\ s = r)
      <3>1. execution'[i][s] = execution[i][s]
        BY <1>5, <2>3 DEF Inv, TypeOK
      <3>2. IsFiniteSet(Counted(i, s)) /\ Cardinality(Counted(i, s)) \in Nat
        BY CountedFinite
      <3>3. /\ Cardinality(Counted(i, s)') <= Cardinality(Counted(i, s))
            /\ Cardinality(Counted(i, s)') \in Nat
        BY <2>1, <3>2, FS_Subset, FS_CardinalityType
      <3>4. /\ Cardinality(Counted(i, s)) <= execution[i][s].running
            /\ execution[i][s].running \in Nat
        BY DEF Inv, Counting, TypeOK, Executions
      <3> QED BY <3>1, <3>2, <3>3, <3>4
    <2> QED BY <2>2, <2>3
  <1>9. Counting'
    BY <1>8 DEF Counting
  <1> QED BY <1>6, <1>9, IdleRow, ExecutionStep

LEMMA FinishExecutionStep ==
  ASSUME Inv, NEW p \in Processes, FinishExecution(p)
  PROVE  Inv'
  <1>1. Sound(proc[p], ticket) /\ proc[p].at = "finish"
    BY DEF Inv, Procs, FinishExecution, At
  <1>2. PICK j \in JobNames, r \in Rounds : j = proc[p].job /\ r = proc[p].round
    BY <1>1 DEF Sound
  <1>3. p \in Counted(j, r)
    BY <1>1, <1>2 DEF Sound, Counted
  <1>4. execution' = [execution EXCEPT ![j][r] =
            [running |-> execution[j][r].running - 1, success |-> TRUE]]
    BY <1>2 DEF FinishExecution
  <1>5. proc' = [proc EXCEPT ![p] = Idle]
        /\ UNCHANGED <<round, window, ticket, benefits, scores>>
    BY DEF FinishExecution
  <1> QED BY <1>3, <1>4, <1>5, EndExecutionStep

LEMMA FailStep ==
  ASSUME Inv, NEW p \in Processes, Fail(p)
  PROVE  Inv'
  <1>1. Sound(proc[p], ticket) /\ proc[p].at # "idle"
    BY DEF Inv, Procs, Fail, At
  <1>2. proc' = [proc EXCEPT ![p] = Idle]
        /\ UNCHANGED <<round, window, ticket, benefits, scores>>
    BY DEF Fail
  <1>3. CASE ~proc[p].counted
    <2>1. execution' = execution
      BY <1>3 DEF Fail
    <2> QED BY <1>2, <2>1, IdleRow, OnlyProcess
  <1>4. CASE proc[p].counted
    <2>1. PICK j \in JobNames, r \in Rounds : j = proc[p].job /\ r = proc[p].round
      BY <1>1, <1>4 DEF Sound
    <2>2. p \in Counted(j, r)
      BY <1>4, <2>1 DEF Counted
    <2>3. PICK n, b : n = execution[j][r].running - 1 /\ b = execution[j][r].success
      OBVIOUS
    <2>4. execution[j][r] \in Executions
      BY DEF Inv, TypeOK
    <2>5. b \in BOOLEAN
          /\ [execution[j][r] EXCEPT !.running = n] = [running |-> n, success |-> b]
      BY <2>3, <2>4 DEF Executions
    <2>6. execution' = [execution EXCEPT ![j][r] = [execution[j][r] EXCEPT !.running = n]]
      BY <1>4, <2>1, <2>3 DEF Fail
    <2>7. execution' = [execution EXCEPT ![j][r] =
              [running |-> execution[j][r].running - 1, success |-> b]]
      BY <2>3, <2>5, <2>6
    <2> QED BY <1>2, <2>2, <2>5, <2>7, EndExecutionStep
  <1> QED BY <1>3, <1>4

-----------------------------------------------------------------------------
(* One lemma per kind of step, and the invariant.                           *)

LEMMA QuietStep == Inv /\ UNCHANGED vars => Inv'
  <1> SUFFICES ASSUME Inv, UNCHANGED vars PROVE Inv'
    OBVIOUS
  <1>1. TypeOK'
    BY DEF Inv, TypeOK, vars
  <1>2. Procs'
    BY DEF Inv, Procs, vars
  <1>3. Counting'
    BY DEF Inv, Counting, Counted, vars
  <1> QED BY <1>1, <1>2, <1>3 DEF Inv

(* Every step keeps it.                                                    *)
LEMMA InvStep == Inv /\ [Next]_vars => Inv'
  <1> SUFFICES ASSUME Inv, [Next]_vars PROVE Inv'
    OBVIOUS
  <1>1. CASE UNCHANGED vars
    BY <1>1, QuietStep
  <1>2. ASSUME NEW r \in Rounds, CreateRound(r) \/ Tick(r) PROVE Inv'
    BY <1>2, CalendarStep
  <1>3. ASSUME NEW p \in Processes, NEW r \in Rounds,
               \/ EditRead(p, r) \/ AdminOpen(p, r) \/ AdminClose(p, r)
               \/ CancelRead(p, r) \/ ScheduledClose(p, r) \/ Regrant(p, r)
               \/ \E j \in Jobs : RequestJob(p, j, r)
               \/ \E v \in Results : ResultRead(p, r, v)
               \/ \E u \in Users : TicketRead(p, r, u)
        PROVE  Inv'
    BY <1>3, BeginSteps, ResultReadStep, ProcessSteps
  <1>4. ASSUME NEW p \in Processes,
               \/ \E w \in Windows : EditWrite(p, w)
               \/ \E u \in Users : GrantBenefits(p, u)
               \/ ScheduledOpen(p) \/ CreateExecution(p)
               \/ FinishExecution(p) \/ Fail(p) \/ Crash(p)
               \/ OpenRead(p) \/ OpenWrite(p)
               \/ CloseRead(p) \/ CloseWrite(p) \/ ZeroBenefits(p)
               \/ CancelCount(p) \/ CancelWrite(p) \/ ResultWrite(p)
               \/ TicketCommit(p)
               \/ ScoreRead(p) \/ ScoreCommit(p) \/ Snapshot(p)
        PROVE  Inv'
    BY <1>4, ProcessSteps, WriteSteps, OpenWriteStep, CloseWriteStep, GrantStep, ZeroStep,
       TicketStep, ScoreReadStep, ScoreCommitStep, SnapshotStep, CreateExecutionStep,
       FinishExecutionStep, FailStep, CrashStep
  <1> QED BY <1>1, <1>2, <1>3, <1>4 DEF Next

(* The state of the rounds, tickets, benefits, scores, jobs and processes   *)
(* keeps its types: no benefit is negative and no execution is closed that  *)
(* was not RUNNING, whatever runs at the same time, fails or dies.          *)
THEOREM TypeCorrect == Spec => []TypeOK
  <1>1. Inv => TypeOK
    BY DEF Inv
  <1> QED BY <1>1, InitInv, InvStep, PTL DEF Spec

-----------------------------------------------------------------------------
(* One round is open.                                                       *)

OneOpen == \A r, s \in Rounds :
              round[r].status = "OPEN" /\ round[s].status = "OPEN" => r = s

(* A round that a step leaves open was open, or no other one was.           *)
LEMMA Opens ==
  ASSUME Inv, [Next]_vars
  PROVE  \/ \A r \in Rounds : round'[r].status = "OPEN" => round[r].status = "OPEN"
         \/ \E s \in Rounds : \A r \in Rounds :
               /\ round[r].status = "OPEN" => r = s
               /\ round'[r].status = "OPEN" => r = s
  <1> DEFINE Kept == \A r \in Rounds : round'[r].status = "OPEN" => round[r].status = "OPEN"
  <1>1. round \in [Rounds -> RoundRow]
    BY DEF Inv, TypeOK
  <1>2. ASSUME NEW r \in Rounds, NEW status, status # "OPEN",
               round' = [round EXCEPT ![r].status = status]
        PROVE  Kept
    BY <1>1, <1>2 DEF RoundRow
  <1>3. CASE round' = round
    BY <1>3
  <1>4. ASSUME NEW r \in Rounds, CreateRound(r) PROVE Kept
    BY <1>2, <1>4 DEF CreateRound
  <1>5. ASSUME NEW p \in Processes, proc[p].at # "idle" PROVE proc[p].round \in Rounds
    BY <1>5 DEF Inv, Procs, Sound
  <1>6. ASSUME NEW p \in Processes, CloseWrite(p) PROVE Kept
    BY <1>2, <1>5, <1>6 DEF CloseWrite, At
  <1>7. ASSUME NEW p \in Processes, CancelWrite(p) PROVE Kept
    BY <1>2, <1>5, <1>7 DEF CancelWrite, At
  <1>8. ASSUME NEW p \in Processes, ResultWrite(p) PROVE Kept
    BY <1>1, <1>5, <1>8 DEF ResultWrite, At, RoundRow
  <1>9. ASSUME NEW p \in Processes, ScoreCommit(p) PROVE Kept
    BY <1>2, <1>5, <1>9 DEF ScoreCommit, At
  <1>10. ASSUME NEW p \in Processes, OpenWrite(p)
         PROVE  \E s \in Rounds : \A r \in Rounds :
                   /\ round[r].status = "OPEN" => r = s
                   /\ round'[r].status = "OPEN" => r = s
    <2>1. PICK s \in Rounds : s = proc[p].round
      BY <1>5, <1>10 DEF OpenWrite, At
    <2>2. \A r \in Rounds : round[r].status = "OPEN" => r = s
      BY <1>10, <2>1 DEF OpenWrite, SingleOpen, OpenRounds
    <2>3. round' = [round EXCEPT ![s].status = "OPEN"]
      BY <1>10, <2>1 DEF OpenWrite
    <2> QED BY <1>1, <2>2, <2>3
  <1>11. \/ round' = round
         \/ \E r \in Rounds : CreateRound(r)
         \/ \E p \in Processes : \/ CloseWrite(p) \/ CancelWrite(p) \/ ResultWrite(p)
                                 \/ ScoreCommit(p) \/ OpenWrite(p)
    <2>1. ASSUME NEW r \in Rounds, CreateRound(r) \/ Tick(r)
          PROVE  round' = round \/ CreateRound(r)
      BY <2>1 DEF Tick
    <2>2. ASSUME NEW p \in Processes, NEW r \in Rounds,
                 \/ EditRead(p, r) \/ AdminOpen(p, r) \/ AdminClose(p, r)
                 \/ CancelRead(p, r) \/ ScheduledClose(p, r) \/ Regrant(p, r)
                 \/ \E j \in Jobs : RequestJob(p, j, r)
                 \/ \E v \in Results : ResultRead(p, r, v)
                 \/ \E u \in Users : TicketRead(p, r, u)
          PROVE  round' = round
      BY <2>2 DEF EditRead, AdminOpen, ReadToOpen, AdminClose, CancelRead, ScheduledClose,
                  Regrant, RequestJob, StartJob, ResultRead, TicketRead
    <2>3. ASSUME NEW p \in Processes,
                 \/ \E w \in Windows : EditWrite(p, w)
                 \/ \E u \in Users : GrantBenefits(p, u)
                 \/ ScheduledOpen(p) \/ CreateExecution(p)
                 \/ FinishExecution(p) \/ Fail(p) \/ Crash(p)
                 \/ OpenRead(p) \/ CloseRead(p) \/ ZeroBenefits(p)
                 \/ CancelCount(p) \/ TicketCommit(p) \/ ScoreRead(p) \/ Snapshot(p)
          PROVE  round' = round
      BY <2>3 DEF EditWrite, GrantBenefits, ScheduledOpen, StartJob, CreateExecution,
                  FinishExecution, Fail, Crash, OpenRead, ReadToOpen, CloseRead,
                  ZeroBenefits, CancelCount, TicketCommit, ScoreRead, Snapshot
    <2>4. UNCHANGED vars => round' = round
      BY DEF vars
    <2> QED BY <2>1, <2>2, <2>3, <2>4 DEF Next
  <1> QED BY <1>3, <1>4, <1>6, <1>7, <1>8, <1>9, <1>10, <1>11

(* Two requests, or a request and the scheduler, never leave two rounds     *)
(* open: each of them looked for another open round before it wrote, and    *)
(* what it saw may be gone, but the index on the open rounds refuses the    *)
(* second write.                                                            *)
THEOREM OneRoundOpen == Spec => []SingleOpenRound
  <1>1. Init => OneOpen
    BY DEF Init, OneOpen
  <1>2. Inv /\ OneOpen /\ [Next]_vars => OneOpen'
    <2> SUFFICES ASSUME Inv, OneOpen, [Next]_vars PROVE OneOpen'
      OBVIOUS
    <2>1. CASE \A r \in Rounds : round'[r].status = "OPEN" => round[r].status = "OPEN"
      BY <2>1 DEF OneOpen
    <2>2. CASE \E s \in Rounds : \A r \in Rounds : round'[r].status = "OPEN" => r = s
      BY <2>2 DEF OneOpen
    <2> QED BY <2>1, <2>2, Opens
  <1>3. OneOpen => SingleOpenRound
    <2> SUFFICES ASSUME OneOpen PROVE Cardinality(OpenRounds) <= 1
      BY DEF SingleOpenRound
    <2>1. CASE OpenRounds = {}
      BY <2>1, FS_EmptySet
    <2>2. CASE OpenRounds # {}
      <3>1. PICK r : r \in OpenRounds
        BY <2>2
      <3>2. OpenRounds = {r}
        BY <3>1 DEF OneOpen, OpenRounds
      <3>3. Cardinality({r}) = 1
        BY FS_Singleton, Zenon
      <3> QED BY <3>2, <3>3
    <2> QED BY <2>1, <2>2
  <1> QED BY <1>1, <1>2, <1>3, InitInv, InvStep, PTL DEF Spec

-----------------------------------------------------------------------------
(* One result for everyone who was scored.                                  *)

ScoredIn(r) == {u \in Users : history[r][u] # None}
Reader(p, r) == p \in Processes /\ proc[p].at = "scoreCommit" /\ proc[p].round = r

(* Who is in the history of a round has a ticket in it. The tickets that    *)
(* two runs scored or will score are the holders at two moments: one set    *)
(* contains the other, and the same with the holders who were scored.       *)
OneResult ==
    /\ \A r \in Rounds : ScoredIn(r) \subseteq Holders(ticket, r)
    /\ \A r \in Rounds, p, q \in Processes :
          Reader(p, r) /\ Reader(q, r) =>
            proc[p].users \subseteq proc[q].users \/ proc[q].users \subseteq proc[p].users
    /\ \A r \in Rounds, p \in Processes :
          Reader(p, r) =>
            proc[p].users \subseteq ScoredIn(r) \/ ScoredIn(r) \subseteq proc[p].users
    /\ SameResultForAll

(* A step of a process that is not about scoring.                           *)
Aside(p) ==
    /\ \A q \in Processes \ {p} : proc'[q] = proc[q]
    /\ proc'[p].at # "scoreCommit"

LEMMA RowAside ==
  ASSUME Inv, NEW p \in Processes, NEW x, proc' = [proc EXCEPT ![p] = x],
         x.at # "scoreCommit"
  PROVE  Aside(p)
  BY DEF Inv, TypeOK, Aside

LEMMA IdleAside ==
  ASSUME Inv, NEW p \in Processes, proc' = [proc EXCEPT ![p] = Idle]
  PROVE  Aside(p)
  <1>1. Idle.at # "scoreCommit"
    BY DEF Idle
  <1> QED BY <1>1, RowAside

LEMMA GoAside ==
  ASSUME Inv, NEW p \in Processes, NEW step, step # "scoreCommit", Go(p, step)
  PROVE  Aside(p)
  <1>1. [proc[p] EXCEPT !.at = step].at = step
    BY DEF Inv, TypeOK, Process
  <1>2. proc' = [proc EXCEPT ![p] = [proc[p] EXCEPT !.at = step]]
    BY DEF Go
  <1> QED BY <1>1, <1>2, RowAside

LEMMA ReturnAside ==
  ASSUME Inv, NEW p \in Processes, Return(p)
  PROVE  Aside(p)
  <1>1. CASE proc[p].counted
    <2>1. [proc[p] EXCEPT !.at = "finish"].at = "finish"
      BY DEF Inv, TypeOK, Process
    <2>2. proc' = [proc EXCEPT ![p] = [proc[p] EXCEPT !.at = "finish"]]
      BY <1>1 DEF Return
    <2> QED BY <2>1, <2>2, RowAside
  <1>2. CASE ~proc[p].counted
    BY <1>2, IdleAside DEF Return
  <1> QED BY <1>1, <1>2

LEMMA BeginAside ==
  ASSUME Inv, NEW p \in Processes, NEW r \in Rounds,
         \/ EditRead(p, r) \/ AdminClose(p, r) \/ CancelRead(p, r) \/ Regrant(p, r)
         \/ \E j \in JobNames : StartJob(p, j, r)
         \/ \E v \in Results : ResultRead(p, r, v)
         \/ \E u \in Users : TicketRead(p, r, u)
  PROVE  Aside(p)
  <1>1. CASE EditRead(p, r)
    <2>1. [Idle EXCEPT !.at = "editWrite", !.round = r].at = "editWrite"
      BY DEF Idle
    <2> QED BY <1>1, <2>1, RowAside DEF EditRead, Begin
  <1>2. CASE AdminClose(p, r)
    <2>1. PICK step \in {"closeRead", "scoreRead"} :
             step = IF round[r].status = "OPEN" THEN "closeRead" ELSE "scoreRead"
      OBVIOUS
    <2>2. [Idle EXCEPT !.round = r, !.thenScore = TRUE, !.at = step].at = step
      BY DEF Idle
    <2> QED BY <1>2, <2>1, <2>2, RowAside DEF AdminClose, Begin
  <1>3. CASE CancelRead(p, r)
    <2>1. PICK step \in {"cancelDraft", "cancelCount"} :
             proc' = [proc EXCEPT ![p] = [Idle EXCEPT !.at = step, !.round = r]]
      BY <1>3 DEF CancelRead, Begin
    <2>2. [Idle EXCEPT !.at = step, !.round = r].at = step
      BY DEF Idle
    <2> QED BY <2>1, <2>2, RowAside
  <1>4. CASE Regrant(p, r)
    <2>1. [Idle EXCEPT !.at = "grant", !.round = r, !.users = Users].at = "grant"
      BY DEF Idle
    <2> QED BY <1>4, <2>1, RowAside DEF Regrant, Begin
  <1>5. ASSUME NEW j \in JobNames, StartJob(p, j, r) PROVE Aside(p)
    <2>1. [Idle EXCEPT !.at = "create", !.job = j, !.round = r].at = "create"
      BY DEF Idle
    <2> QED BY <1>5, <2>1, RowAside DEF StartJob, Begin
  <1>6. ASSUME NEW v \in Results, ResultRead(p, r, v) PROVE Aside(p)
    <2>1. [Idle EXCEPT !.at = "resultWrite", !.round = r, !.value = v].at = "resultWrite"
      BY DEF Idle
    <2> QED BY <1>6, <2>1, RowAside DEF ResultRead, Begin
  <1>7. ASSUME NEW u \in Users, TicketRead(p, r, u) PROVE Aside(p)
    <2>1. [Idle EXCEPT !.at = "ticketCommit", !.round = r, !.users = {u}].at = "ticketCommit"
      BY DEF Idle
    <2> QED BY <1>7, <2>1, RowAside DEF TicketRead, Begin
  <1> QED BY <1>1, <1>2, <1>3, <1>4, <1>5, <1>6, <1>7

LEMMA OpenAside ==
  ASSUME Inv, NEW p \in Processes,
         \/ \E r \in Rounds : AdminOpen(p, r)
         \/ OpenRead(p) \/ OpenWrite(p) \/ CreateExecution(p)
         \/ \E u \in Users : GrantBenefits(p, u)
  PROVE  Aside(p)
  <1>1. proc[p] \in Process /\ Idle \in Process
    BY IdleRow DEF Inv, TypeOK
  <1>2. ASSUME NEW r, NEW fields \in Process, ReadToOpen(p, r, fields) PROVE Aside(p)
    <2>1. [fields EXCEPT !.at = "grant", !.round = r, !.users = Users].at = "grant"
          /\ [fields EXCEPT !.at = "openWrite", !.round = r].at = "openWrite"
      BY DEF Process
    <2> QED BY <1>2, <2>1, RowAside DEF ReadToOpen
  <1>3. ASSUME NEW r \in Rounds, AdminOpen(p, r) PROVE Aside(p)
    BY <1>1, <1>2, <1>3 DEF AdminOpen
  <1>4. CASE OpenRead(p)
    BY <1>1, <1>2, <1>4 DEF OpenRead
  <1>5. CASE OpenWrite(p)
    <2>1. proc' = [proc EXCEPT ![p] = [proc[p] EXCEPT !.at = "grant", !.users = Users]]
      BY <1>5 DEF OpenWrite, Inv, TypeOK
    <2>2. [proc[p] EXCEPT !.at = "grant", !.users = Users].at = "grant"
      BY <1>1 DEF Process
    <2> QED BY <2>1, <2>2, RowAside
  <1>6. CASE CreateExecution(p)
    <2>1. PICK step : step = FirstStep(proc[p].job)
      OBVIOUS
    <2>2. proc' = [proc EXCEPT ![p] = [proc[p] EXCEPT !.at = step, !.counted = TRUE]]
      BY <1>6, <2>1 DEF CreateExecution, Inv, TypeOK
    <2>3. proc[p].job \in JobNames
      BY <1>6 DEF CreateExecution, At, Inv, Procs, Sound
    <2>4. step # "scoreCommit"
      BY <2>1, <2>3 DEF FirstStep, JobNames
    <2>5. [proc[p] EXCEPT !.at = step, !.counted = TRUE].at = step
      BY <1>1 DEF Process
    <2> QED BY <2>2, <2>4, <2>5, RowAside
  <1>7. ASSUME NEW u \in Users, GrantBenefits(p, u) PROVE Aside(p)
    <2>1. CASE Return(p)
      BY <2>1, ReturnAside
    <2>2. CASE ~Return(p)
      <3>1. PICK rest : rest = proc[p].users \ {u}
        OBVIOUS
      <3>2. proc' = [proc EXCEPT ![p] = [proc[p] EXCEPT !.users = rest]]
        BY <1>7, <2>2, <3>1 DEF GrantBenefits, Inv, TypeOK
      <3>3. [proc[p] EXCEPT !.users = rest].at = "grant"
        BY <1>1, <1>7 DEF Process, GrantBenefits, At
      <3> QED BY <3>2, <3>3, RowAside
    <2> QED BY <2>1, <2>2
  <1> QED BY <1>3, <1>4, <1>5, <1>6, <1>7

(* Tickets only appear.                                                    *)
Growing == \A r \in Rounds : Holders(ticket, r) \subseteq Holders(ticket', r)
(* Nobody begins to score.                                                 *)
NoReader == \A q \in Processes : proc'[q].at = "scoreCommit" => proc'[q] = proc[q]

(* What a step does about scoring.                                          *)
LEMMA ScoringShape ==
  ASSUME Inv, [Next]_vars
  PROVE  \/ history' = history /\ Growing /\ NoReader
         \/ \E p \in Processes : ScoreRead(p) \/ ScoreCommit(p)
  <1>1. ASSUME NEW p \in Processes, Aside(p) PROVE NoReader
    BY <1>1 DEF Aside, NoReader
  <1>2. ticket' = ticket => Growing
    BY DEF Growing
  <1>3. ASSUME UNCHANGED <<ticket, history, proc>>
        PROVE  history' = history /\ Growing /\ NoReader
    BY <1>2, <1>3 DEF NoReader
  <1>4. ASSUME NEW r \in Rounds, CreateRound(r) \/ Tick(r)
        PROVE  UNCHANGED <<ticket, history, proc>>
    BY <1>4 DEF CreateRound, Tick, scores
  <1>5. UNCHANGED vars => UNCHANGED <<ticket, history, proc>>
    BY DEF vars
  <1>6. ASSUME NEW p \in Processes, NEW r \in Rounds,
               \/ EditRead(p, r) \/ AdminOpen(p, r) \/ AdminClose(p, r)
               \/ CancelRead(p, r) \/ ScheduledClose(p, r) \/ Regrant(p, r)
               \/ \E j \in Jobs : RequestJob(p, j, r)
               \/ \E v \in Results : ResultRead(p, r, v)
               \/ \E u \in Users : TicketRead(p, r, u)
        PROVE  history' = history /\ Growing /\ NoReader
    <2>1. UNCHANGED <<ticket, history>>
      BY <1>6 DEF EditRead, AdminOpen, ReadToOpen, AdminClose, CancelRead, ScheduledClose,
                  Regrant, RequestJob, StartJob, ResultRead, TicketRead, scores
    <2>2. ScheduledClose(p, r) => StartJob(p, "CLOSE_ROUND_PREDICTIONS", r)
      BY DEF ScheduledClose
    <2>3. ASSUME NEW j \in Jobs, RequestJob(p, j, r) PROVE j \in JobNames /\ StartJob(p, j, r)
      BY <2>3, RoundsAssumption DEF RequestJob
    <2>4. Aside(p)
      BY <1>6, <2>2, <2>3, BeginAside, OpenAside DEF JobNames
    <2> QED BY <1>1, <1>2, <2>1, <2>4
  <1>7. ASSUME NEW p \in Processes,
               \/ \E u \in Users : GrantBenefits(p, u)
               \/ ScheduledOpen(p) \/ CreateExecution(p) \/ OpenRead(p) \/ OpenWrite(p)
        PROVE  history' = history /\ Growing /\ NoReader
    <2>1. UNCHANGED <<ticket, history>>
      BY <1>7 DEF GrantBenefits, ScheduledOpen, StartJob, CreateExecution, OpenRead,
                  ReadToOpen, OpenWrite, scores
    <2>2. ASSUME ScheduledOpen(p) PROVE Aside(p)
      <3>1. PICK due \in SUBSET Rounds :
               due # {} /\ StartJob(p, "OPEN_SCHEDULED_ROUND", Min(due))
        BY <2>2 DEF ScheduledOpen
      <3>2. Min(due) \in Rounds
        BY <3>1, LeastOf
      <3> QED BY <3>1, <3>2, BeginAside DEF JobNames
    <2>3. Aside(p)
      BY <1>7, <2>2, OpenAside
    <2> QED BY <1>1, <1>2, <2>1, <2>3
  <1>8. ASSUME NEW p \in Processes,
               \/ \E w \in Windows : EditWrite(p, w)
               \/ FinishExecution(p) \/ Fail(p) \/ Crash(p)
               \/ CancelWrite(p) \/ ResultWrite(p) \/ TicketCommit(p)
        PROVE  history' = history /\ Growing /\ NoReader
    <2>1. history' = history
      BY <1>8 DEF EditWrite, FinishExecution, Fail, Crash, CancelWrite, ResultWrite,
                  TicketCommit, scores
    <2>2. proc' = [proc EXCEPT ![p] = Idle]
      BY <1>8 DEF EditWrite, FinishExecution, Fail, Crash, CancelWrite, ResultWrite,
                  TicketCommit
    <2>3. TicketCommit(p) => Growing
      BY TicketStep DEF Growing
    <2>4. ~TicketCommit(p) => ticket' = ticket
      BY <1>8 DEF EditWrite, FinishExecution, Fail, Crash, CancelWrite, ResultWrite
    <2> QED BY <1>1, <1>2, <2>1, <2>2, <2>3, <2>4, IdleAside
  <1>9. ASSUME NEW p \in Processes,
               CloseRead(p) \/ CloseWrite(p) \/ ZeroBenefits(p) \/ CancelCount(p) \/ Snapshot(p)
        PROVE  history' = history /\ Growing /\ NoReader
    <2>1. UNCHANGED <<ticket, history>>
      BY <1>9 DEF CloseRead, CloseWrite, ZeroBenefits, CancelCount, Snapshot, scores
    <2>2. \/ Return(p)
          \/ \E step \in {"closeWrite", "zero", "scoreRead", "cancelOpen"} : Go(p, step)
      BY <1>9 DEF CloseRead, CloseWrite, ZeroBenefits, CancelCount, Snapshot
    <2>3. Aside(p)
      BY <2>2, GoAside, ReturnAside
    <2> QED BY <1>1, <1>2, <2>1, <2>3
  <1> QED BY <1>3, <1>4, <1>5, <1>6, <1>7, <1>8, <1>9 DEF Next

LEMMA QuietResult ==
  ASSUME OneResult, history' = history, Growing, NoReader
  PROVE  OneResult'
  <1>1. \A r : ScoredIn(r)' = ScoredIn(r)
    BY DEF ScoredIn
  <1>2. \A r \in Rounds, p \in Processes :
           Reader(p, r)' => Reader(p, r) /\ proc'[p] = proc[p]
    BY DEF Reader, NoReader
  <1>3. \A r \in Rounds : ScoredIn(r)' \subseteq Holders(ticket', r)
    BY <1>1 DEF OneResult, Growing
  <1>4. SameResultForAll'
    BY DEF OneResult, SameResultForAll
  <1> QED BY <1>1, <1>2, <1>3, <1>4 DEF OneResult

LEMMA ScoreReadResult ==
  ASSUME Inv, OneResult, NEW p \in Processes, ScoreRead(p)
  PROVE  OneResult'
  <1>1. ticket' = ticket /\ history' = history
    BY DEF ScoreRead, scores
  <1>2. CASE Return(p)
    <2>1. NoReader
      BY <1>2, ReturnAside DEF Aside, NoReader
    <2> QED BY <1>1, <2>1, QuietResult DEF Growing
  <1>3. CASE ~Return(p)
    <2>1. PICK r, readers : r = proc[p].round /\ readers = Holders(ticket, r)
      OBVIOUS
    <2>2. proc' = [proc EXCEPT ![p].at = "scoreCommit", ![p].value = round[r].result,
                               ![p].users = readers]
      BY <1>3, <2>1 DEF ScoreRead, Holders
    <2>3. proc[p] \in Process
      BY DEF Inv, TypeOK
    <2>4. proc'[p].users = readers /\ proc'[p].round = r
      BY <2>1, <2>2, <2>3 DEF Inv, TypeOK, Process
    <2>5. \A q \in Processes \ {p} : proc'[q] = proc[q]
      BY <2>2 DEF Inv, TypeOK
    <2>6. \A s \in Rounds : ScoredIn(s)' = ScoredIn(s) /\ ScoredIn(s) \subseteq Holders(ticket, s)
      BY <1>1 DEF ScoredIn, OneResult
    <2>7. ASSUME NEW s \in Rounds, NEW q \in Processes, Reader(q, s)'
          PROVE  /\ proc'[q].users \subseteq Holders(ticket, s)
                 /\ q # p => Reader(q, s) /\ proc'[q].users = proc[q].users
                 /\ q = p => proc'[q].users = Holders(ticket, s)
      <3>1. CASE q = p
        BY <2>1, <2>4, <2>7, <3>1 DEF Reader
      <3>2. CASE q # p
        <4>1. proc'[q] = proc[q] /\ Sound(proc[q], ticket)
          BY <2>5, <3>2 DEF Inv, Procs
        <4> QED BY <2>7, <3>2, <4>1 DEF Reader, Sound
      <3> QED BY <3>1, <3>2
    <2>8. ASSUME NEW s \in Rounds, NEW q \in Processes, NEW o \in Processes,
                 Reader(q, s)', Reader(o, s)'
          PROVE  \/ proc'[q].users \subseteq proc'[o].users
                 \/ proc'[o].users \subseteq proc'[q].users
      BY <2>7, <2>8 DEF OneResult
    <2>9. ASSUME NEW s \in Rounds, NEW q \in Processes, Reader(q, s)'
          PROVE  \/ proc'[q].users \subseteq ScoredIn(s)'
                 \/ ScoredIn(s)' \subseteq proc'[q].users
      BY <2>6, <2>7, <2>9 DEF OneResult
    <2>10. SameResultForAll'
      BY <1>1 DEF OneResult, SameResultForAll
    <2>11. \A s \in Rounds : ScoredIn(s)' \subseteq Holders(ticket', s)
      BY <1>1, <2>6
    <2> QED BY <2>8, <2>9, <2>10, <2>11 DEF OneResult
  <1> QED BY <1>2, <1>3

LEMMA ScoreCommitResult ==
  ASSUME Inv, OneResult, NEW p \in Processes, ScoreCommit(p)
  PROVE  OneResult'
  <1>1. PICK r \in Rounds, v \in Results, users \in SUBSET Users : ScoredWith(p, r, v, users)
    BY ScoreShape
  <1>2. /\ r = proc[p].round /\ users = proc[p].users
        /\ \A u \in users : history[r][u] = None
        /\ history' = [history EXCEPT ![r] = [u \in Users |->
                          IF u \in users THEN v ELSE history[r][u]]]
    BY <1>1, Zenon DEF ScoredWith
  <1>3. Growing
    BY ScoreCommitStep DEF Growing
  <1>4. Reader(p, r) /\ users \subseteq Holders(ticket, r)
    BY <1>2 DEF Reader, ScoreCommit, At, Inv, Procs, Sound
  <1>5. NoReader
    BY GoAside DEF ScoreCommit, Aside, NoReader
  <1>6. \A s \in Rounds, q \in Processes :
           Reader(q, s)' => Reader(q, s) /\ proc'[q].users = proc[q].users
    BY <1>5 DEF Reader, NoReader
  <1>7. /\ v # None
        /\ \A s \in Rounds \ {r} : history'[s] = history[s]
        /\ \A u \in Users : history'[r][u] = IF u \in users THEN v ELSE history[r][u]
    BY <1>2, RoundsAssumption DEF Inv, TypeOK
  <1>8. /\ \A s \in Rounds \ {r} : ScoredIn(s)' = ScoredIn(s)
        /\ ScoredIn(r)' = ScoredIn(r) \cup users
        /\ ScoredIn(r) \cap users = {}
    BY <1>2, <1>7 DEF ScoredIn
  <1>9. users = {} \/ ScoredIn(r) = {}
    <2>1. users \subseteq ScoredIn(r) \/ ScoredIn(r) \subseteq users
      BY <1>2, <1>4 DEF OneResult
    <2> QED BY <1>8, <2>1
  <1>10. \A s \in Rounds : ScoredIn(s)' \subseteq Holders(ticket', s)
    BY <1>3, <1>4, <1>8 DEF OneResult, Growing
  <1>11. ASSUME NEW s \in Rounds, NEW q \in Processes, Reader(q, s)'
         PROVE  \/ proc'[q].users \subseteq ScoredIn(s)'
                \/ ScoredIn(s)' \subseteq proc'[q].users
    <2>1. Reader(q, s) /\ proc'[q].users = proc[q].users
      BY <1>6, <1>11
    <2>2. CASE s # r
      BY <1>8, <2>1, <2>2 DEF OneResult
    <2>3. CASE s = r
      <3>1. \/ proc[q].users \subseteq users \/ users \subseteq proc[q].users
        BY <1>2, <1>4, <2>1, <2>3 DEF OneResult
      <3>2. proc[q].users \subseteq ScoredIn(r) \/ ScoredIn(r) \subseteq proc[q].users
        BY <2>1, <2>3 DEF OneResult
      <3>3. ScoredIn(r)' = users \/ ScoredIn(r)' = ScoredIn(r)
        BY <1>8, <1>9
      <3> QED BY <2>1, <2>3, <3>1, <3>2, <3>3
    <2> QED BY <2>2, <2>3
  <1>12. SameResultForAll'
    <2> SUFFICES ASSUME NEW s \in Rounds, NEW u \in Users, NEW w \in Users,
                        history'[s][u] # None, history'[s][w] # None
                 PROVE  history'[s][u] = history'[s][w]
      BY DEF SameResultForAll
    <2>1. CASE s # r
      BY <1>7, <2>1 DEF OneResult, SameResultForAll
    <2>2. CASE s = r /\ users = {}
      BY <1>7, <2>2 DEF OneResult, SameResultForAll
    <2>3. CASE s = r /\ ScoredIn(r) = {}
      BY <1>7, <2>3 DEF ScoredIn
    <2> QED BY <1>9, <2>1, <2>2, <2>3
  <1>13. ASSUME NEW s \in Rounds, NEW q \in Processes, NEW o \in Processes,
                Reader(q, s)', Reader(o, s)'
         PROVE  \/ proc'[q].users \subseteq proc'[o].users
                \/ proc'[o].users \subseteq proc'[q].users
    BY <1>6, <1>13 DEF OneResult
  <1> QED BY <1>10, <1>11, <1>12, <1>13 DEF OneResult

(* Everyone scored in a round was scored with the same result, although an  *)
(* administrator may change it while jobs, retries and administrators score *)
(* the round: two of them that score anyone would score someone twice, and  *)
(* the unique index on the history refuses the second.                      *)
THEOREM OneResultPerRound == Spec => []SameResultForAll
  <1>1. Init => OneResult
    <2> SUFFICES ASSUME Init PROVE OneResult
      OBVIOUS
    <2>1. \A r \in Rounds, u \in Users : history[r][u] = None
      BY DEF Init
    <2>2. \A p \in Processes : proc[p].at = "idle"
      BY DEF Init, Idle
    <2> QED BY <2>1, <2>2 DEF OneResult, ScoredIn, Reader, SameResultForAll
  <1>2. Inv /\ OneResult /\ [Next]_vars => OneResult'
    BY ScoringShape, QuietResult, ScoreReadResult, ScoreCommitResult
  <1>3. OneResult => SameResultForAll
    BY DEF OneResult
  <1> QED BY <1>1, <1>2, <1>3, InitInv, InvStep, PTL DEF Spec

-----------------------------------------------------------------------------
(* The free benefits of a round.                                            *)

(* The free benefits of a round cover what its ticket took from them and    *)
(* what is left: the second part of BenefitsSpentOnce.                      *)
FreeSpentOnce ==
    \A r \in Rounds, u \in Users, b \in BenefitTypes :
        ticket[r][u].fromFree[b] + free[r][u][b] <= Grant[u][b]

(* Who was not granted any has none, and took none.                         *)
FreeKept ==
    /\ FreeSpentOnce
    /\ \A r \in Rounds, u \in Users, b \in BenefitTypes :
          u \notin granted[r] => ticket[r][u].fromFree[b] = 0 /\ free[r][u][b] = 0

LEMMA FreeTypes ==
  ASSUME Inv, NEW r \in Rounds, NEW u \in Users, NEW b \in BenefitTypes
  PROVE  ticket[r][u].fromFree[b] \in Nat /\ free[r][u][b] \in Nat /\ Grant[u][b] \in Nat
  <1>1. ticket[r][u] \in TicketRow
    BY DEF Inv, TypeOK
  <1>2. ticket[r][u].fromFree \in Amounts /\ free[r][u] \in Amounts /\ Grant[u] \in Amounts
    BY <1>1, AmountsType DEF TicketRow, Inv, TypeOK
  <1> QED BY <1>2 DEF Amounts

LEMMA GrantFree ==
  ASSUME Inv, FreeKept, NEW p \in Processes, NEW u \in Users, GrantBenefits(p, u)
  PROVE  FreeKept'
  <1>1. PICK r \in Rounds : r = proc[p].round
    BY DEF Inv, Procs, Sound, GrantBenefits, At
  <1>2. /\ ticket' = ticket
        /\ granted' = [granted EXCEPT ![r] = @ \cup {u}]
        /\ free' = [free EXCEPT ![r][u] = FreeAfterGrant(r, u)]
    BY <1>1 DEF GrantBenefits
  <1>3. ASSUME NEW s \in Rounds, NEW w \in Users, NEW b \in BenefitTypes
        PROVE  /\ ticket'[s][w].fromFree[b] + free'[s][w][b] <= Grant[w][b]
               /\ w \notin granted'[s] => ticket'[s][w].fromFree[b] = 0 /\ free'[s][w][b] = 0
    <2>1. /\ ticket[s][w].fromFree[b] + free[s][w][b] <= Grant[w][b]
          /\ w \notin granted[s] => ticket[s][w].fromFree[b] = 0 /\ free[s][w][b] = 0
      BY DEF FreeKept, FreeSpentOnce
    <2>2. CASE s = r /\ w = u
      <3>1. w \in granted'[s] /\ free'[s][w] = FreeAfterGrant(r, u)
        BY <1>2, <2>2 DEF Inv, TypeOK
      <3>2. free'[s][w] = free[s][w] \/ (w \notin granted[s] /\ free'[s][w] = Grant[w])
        BY <2>2, <3>1 DEF FreeAfterGrant
      <3>3. Grant[w][b] \in Nat
        BY FreeTypes
      <3> QED BY <1>2, <2>1, <3>1, <3>2, <3>3
    <2>3. CASE ~(s = r /\ w = u)
      <3>1. free'[s][w] = free[s][w] /\ granted[s] \subseteq granted'[s]
        BY <1>2, <2>3 DEF Inv, TypeOK
      <3> QED BY <1>2, <2>1, <3>1
    <2> QED BY <2>2, <2>3
  <1> QED BY <1>3 DEF FreeKept, FreeSpentOnce

LEMMA ZeroFree ==
  ASSUME Inv, FreeKept, NEW p \in Processes, ZeroBenefits(p)
  PROVE  FreeKept'
  <1>1. PICK r \in Rounds : r = proc[p].round
    BY DEF Inv, Procs, Sound, ZeroBenefits, At
  <1>2. /\ UNCHANGED <<ticket, granted>>
        /\ free' = [free EXCEPT ![r] = [u \in Users |-> Nothing]]
    BY <1>1 DEF ZeroBenefits
  <1>3. ASSUME NEW s \in Rounds, NEW w \in Users, NEW b \in BenefitTypes
        PROVE  /\ ticket'[s][w].fromFree[b] + free'[s][w][b] <= Grant[w][b]
               /\ w \notin granted'[s] => ticket'[s][w].fromFree[b] = 0 /\ free'[s][w][b] = 0
    <2>1. /\ ticket[s][w].fromFree[b] + free[s][w][b] <= Grant[w][b]
          /\ w \notin granted[s] => ticket[s][w].fromFree[b] = 0 /\ free[s][w][b] = 0
      BY DEF FreeKept, FreeSpentOnce
    <2>2. free'[s][w][b] = free[s][w][b] \/ free'[s][w][b] = 0
      BY <1>2 DEF Inv, TypeOK, Nothing
    <2>3. ticket[s][w].fromFree[b] \in Nat /\ free[s][w][b] \in Nat /\ Grant[w][b] \in Nat
      BY FreeTypes
    <2> QED BY <1>2, <2>1, <2>2, <2>3
  <1> QED BY <1>3 DEF FreeKept, FreeSpentOnce

LEMMA TicketFree ==
  ASSUME Inv, FreeKept, NEW p \in Processes, TicketCommit(p)
  PROVE  FreeKept'
  <1>1. PICK r \in Rounds, u \in Users : Bought(r, u)
    BY TicketShape
  <1>2. PICK row, left :
          /\ row = [status |-> "PENDING", fromFree |-> FromFree(r, u),
                    fromInventory |-> FromInventory(r, u)]
          /\ left = [b \in BenefitTypes |-> free[r][u][b] - FromFree(r, u)[b]]
    OBVIOUS
  <1>3. /\ ticket' = [ticket EXCEPT ![r][u] = row] /\ free' = [free EXCEPT ![r][u] = left]
    BY <1>1, <1>2, Zenon DEF Bought
  <1>4. granted' = granted
    BY DEF TicketCommit
  <1>5. ASSUME NEW s \in Rounds, NEW w \in Users, NEW b \in BenefitTypes
        PROVE  /\ ticket'[s][w].fromFree[b] + free'[s][w][b] <= Grant[w][b]
               /\ w \notin granted'[s] => ticket'[s][w].fromFree[b] = 0 /\ free'[s][w][b] = 0
    <2>1. /\ ticket[s][w].fromFree[b] + free[s][w][b] <= Grant[w][b]
          /\ w \notin granted[s] => ticket[s][w].fromFree[b] = 0 /\ free[s][w][b] = 0
      BY DEF FreeKept, FreeSpentOnce
    <2>2. CASE s = r /\ w = u
      <3>1. ticket'[s][w] = row /\ free'[s][w] = left
        BY <1>3, <2>2 DEF Inv, TypeOK
      <3>2. /\ row.fromFree[b] = FromFree(r, u)[b]
            /\ left[b] = free[r][u][b] - FromFree(r, u)[b]
        BY <1>2
      <3>3. /\ FromFree(r, u)[b] \in Nat /\ free[r][u][b] \in Nat
            /\ FromFree(r, u)[b] <= free[r][u][b]
        BY TakenFree
      <3>4. ticket[s][w].fromFree[b] \in Nat /\ Grant[w][b] \in Nat
        BY FreeTypes
      <3> QED BY <1>4, <2>1, <2>2, <3>1, <3>2, <3>3, <3>4
    <2>3. CASE ~(s = r /\ w = u)
      <3>1. free'[s][w] = free[s][w] /\ ticket'[s][w] = ticket[s][w]
        BY <1>3, <2>3 DEF Inv, TypeOK
      <3> QED BY <1>4, <2>1, <3>1
    <2> QED BY <2>2, <2>3
  <1> QED BY <1>5 DEF FreeKept, FreeSpentOnce

(* Scoring marks the tickets and leaves what they spent.                    *)
LEMMA ScoreFree ==
  ASSUME Inv, FreeKept, NEW p \in Processes, ScoreCommit(p)
  PROVE  FreeKept'
  <1>1. PICK r \in Rounds, v \in Results, users \in SUBSET Users : ScoredWith(p, r, v, users)
    BY ScoreShape
  <1>2. ticket' = [ticket EXCEPT ![r] = [u \in Users |->
             IF u \in users THEN [ticket[r][u] EXCEPT !.status = "SCORED"] ELSE ticket[r][u]]]
    BY <1>1, Zenon DEF ScoredWith
  <1>3. UNCHANGED <<free, granted>>
    BY DEF ScoreCommit, benefits
  <1>4. ASSUME NEW s \in Rounds, NEW w \in Users
        PROVE  ticket'[s][w].fromFree = ticket[s][w].fromFree
    <2>1. ticket[s][w] \in TicketRow
      BY DEF Inv, TypeOK
    <2>2. [ticket[s][w] EXCEPT !.status = "SCORED"].fromFree = ticket[s][w].fromFree
      BY <2>1 DEF TicketRow
    <2>3. \/ ticket'[s][w] = ticket[s][w]
          \/ ticket'[s][w] = [ticket[s][w] EXCEPT !.status = "SCORED"]
      BY <1>2 DEF Inv, TypeOK
    <2> QED BY <2>2, <2>3
  <1> QED BY <1>3, <1>4 DEF FreeKept, FreeSpentOnce

(* Only four steps touch tickets, benefits, the history or the totals.      *)
LEMMA SpendingSteps ==
  ASSUME [Next]_vars
  PROVE  \/ UNCHANGED <<ticket, benefits, history, score>>
         \/ \E p \in Processes : \/ \E u \in Users : GrantBenefits(p, u)
                                 \/ ZeroBenefits(p) \/ TicketCommit(p) \/ ScoreCommit(p)
  <1>1. UNCHANGED vars => UNCHANGED <<ticket, benefits, history, score>>
    BY DEF vars, benefits
  <1>2. ASSUME NEW r \in Rounds, CreateRound(r) \/ Tick(r)
        PROVE  UNCHANGED <<ticket, benefits, history, score>>
    BY <1>2 DEF CreateRound, Tick, benefits, scores
  <1>3. ASSUME NEW p \in Processes, NEW r \in Rounds,
               \/ EditRead(p, r) \/ AdminOpen(p, r) \/ AdminClose(p, r)
               \/ CancelRead(p, r) \/ ScheduledClose(p, r) \/ Regrant(p, r)
               \/ \E j \in Jobs : RequestJob(p, j, r)
               \/ \E v \in Results : ResultRead(p, r, v)
               \/ \E u \in Users : TicketRead(p, r, u)
        PROVE  UNCHANGED <<ticket, benefits, history, score>>
    BY <1>3 DEF EditRead, AdminOpen, ReadToOpen, AdminClose, CancelRead, ScheduledClose,
                Regrant, RequestJob, StartJob, ResultRead, TicketRead, benefits, scores
  <1>4. ASSUME NEW p \in Processes,
               \/ \E w \in Windows : EditWrite(p, w)
               \/ ScheduledOpen(p) \/ CreateExecution(p)
               \/ FinishExecution(p) \/ Fail(p) \/ Crash(p)
               \/ OpenRead(p) \/ OpenWrite(p) \/ CloseRead(p) \/ CloseWrite(p)
               \/ CancelCount(p) \/ CancelWrite(p) \/ ResultWrite(p)
               \/ ScoreRead(p) \/ Snapshot(p)
        PROVE  UNCHANGED <<ticket, benefits, history, score>>
    BY <1>4 DEF EditWrite, ScheduledOpen, StartJob, CreateExecution, FinishExecution, Fail,
                Crash, OpenRead, ReadToOpen, OpenWrite, CloseRead, CloseWrite, CancelCount,
                CancelWrite, ResultWrite, ScoreRead, Snapshot, benefits, scores
  <1> QED BY <1>1, <1>2, <1>3, <1>4 DEF Next

LEMMA FreeStep == Inv /\ FreeKept /\ [Next]_vars => FreeKept'
  <1> SUFFICES ASSUME Inv, FreeKept, [Next]_vars PROVE FreeKept'
    OBVIOUS
  <1>1. ASSUME UNCHANGED <<ticket, benefits, history, score>> PROVE FreeKept'
    BY <1>1 DEF FreeKept, FreeSpentOnce, benefits
  <1>2. ASSUME NEW p \in Processes,
               \/ \E u \in Users : GrantBenefits(p, u)
               \/ ZeroBenefits(p) \/ TicketCommit(p) \/ ScoreCommit(p)
        PROVE  FreeKept'
    BY <1>2, GrantFree, ZeroFree, TicketFree, ScoreFree
  <1> QED BY <1>1, <1>2, SpendingSteps

-----------------------------------------------------------------------------
(* The inventory.                                                           *)

(* What the tickets of a user took from the inventory, round by round.      *)
Taken(tickets, u, b) == [r \in Rounds |-> tickets[r][u].fromInventory[b]]

(* The first part of BenefitsSpentOnce, and nothing is taken by no ticket.  *)
InventoryKept ==
    /\ \A u \in Users, b \in BenefitTypes :
          inventory[u][b] = Inventory[u][b] - SumFunctionOnSet(Taken(ticket, u, b), Rounds)
    /\ \A r \in Rounds, u \in Users, b \in BenefitTypes :
          ticket[r][u].status = "ABSENT" => ticket[r][u].fromInventory[b] = 0

LEMMA TakenIsNat ==
  ASSUME NEW tickets \in [Rounds -> [Users -> TicketRow]],
         NEW u \in Users, NEW b \in BenefitTypes
  PROVE  /\ \A r \in Rounds : Taken(tickets, u, b)[r] \in Nat
         /\ SumFunctionOnSet(Taken(tickets, u, b), Rounds) \in Nat
  <1>1. ASSUME NEW r \in Rounds PROVE Taken(tickets, u, b)[r] \in Nat
    <2>1. tickets[r][u] \in TicketRow
      OBVIOUS
    <2> QED BY <2>1 DEF Taken, TicketRow, Amounts
  <1>2. IsFiniteSet(Rounds)
    BY RoundsAssumption
  <1> QED BY <1>1, <1>2, SumNat

(* A new ticket takes from the inventory what it records.                   *)
LEMMA TicketInventory ==
  ASSUME Inv, InventoryKept, NEW p \in Processes, TicketCommit(p)
  PROVE  InventoryKept'
  <1>1. PICK r \in Rounds, u \in Users : Bought(r, u)
    BY TicketShape
  <1>2. PICK row, left :
          /\ row = [status |-> "PENDING", fromFree |-> FromFree(r, u),
                    fromInventory |-> FromInventory(r, u)]
          /\ left = [b \in BenefitTypes |-> inventory[u][b] - FromInventory(r, u)[b]]
    OBVIOUS
  <1>3. /\ ticket' = [ticket EXCEPT ![r][u] = row]
        /\ inventory' = [inventory EXCEPT ![u] = left]
        /\ ticket[r][u].status = "ABSENT"
    BY <1>1, <1>2, Zenon DEF Bought, TicketIsNew
  <1>4. row.status = "PENDING" /\ row.fromInventory = FromInventory(r, u)
    BY <1>2
  <1>5. /\ ticket \in [Rounds -> [Users -> TicketRow]]
        /\ ticket' \in [Rounds -> [Users -> TicketRow]]
        /\ inventory \in [Users -> Amounts]
    BY TicketStep DEF Inv, TypeOK
  <1>6. /\ ticket'[r][u] = row /\ inventory'[u] = left
        /\ \A s \in Rounds, w \in Users : s # r \/ w # u => ticket'[s][w] = ticket[s][w]
        /\ \A w \in Users : w # u => inventory'[w] = inventory[w]
    BY <1>3, <1>5
  <1>7. ASSUME NEW w \in Users, NEW b \in BenefitTypes
        PROVE  inventory'[w][b]
                 = Inventory[w][b] - SumFunctionOnSet(Taken(ticket', w, b), Rounds)
    <2> DEFINE f == Taken(ticket, w, b)  g == Taken(ticket', w, b)
    <2>1. /\ \A s \in Rounds : f[s] \in Nat /\ g[s] \in Nat
          /\ SumFunctionOnSet(f, Rounds) \in Nat /\ SumFunctionOnSet(g, Rounds) \in Nat
      BY <1>5, TakenIsNat
    <2>2. /\ inventory[w][b] = Inventory[w][b] - SumFunctionOnSet(f, Rounds)
          /\ Inventory[w][b] \in Nat
      BY RoundsAssumption DEF InventoryKept
    <2>3. \A s \in Rounds : f[s] = ticket[s][w].fromInventory[b]
                            /\ g[s] = ticket'[s][w].fromInventory[b]
      BY DEF Taken
    <2> HIDE DEF f, g
    <2>4. IsFiniteSet(Rounds)
      BY RoundsAssumption
    <2>5. CASE w = u
      <3>1. f[r] = 0 /\ g[r] = FromInventory(r, u)[b]
        BY <1>3, <1>4, <1>6, <2>3, <2>5 DEF InventoryKept
      <3>2. \A s \in Rounds \ {r} : f[s] = g[s]
        BY <1>6, <2>3
      <3>3. SumFunctionOnSet(g, Rounds) = SumFunctionOnSet(f, Rounds) + g[r] - f[r]
        BY <2>1, <2>4, <3>2, SumChange
      <3>4. inventory'[w][b] = inventory[w][b] - g[r]
        BY <1>2, <1>6, <2>5, <3>1
      <3> QED BY <2>1, <2>2, <3>1, <3>3, <3>4 DEF g
    <2>6. CASE w # u
      <3>1. \A s \in Rounds : f[s] = g[s]
        BY <1>6, <2>3, <2>6
      <3>2. SumFunctionOnSet(f, Rounds) = SumFunctionOnSet(g, Rounds)
        BY <2>4, <3>1, SumSame
      <3> QED BY <1>6, <2>2, <2>6, <3>2 DEF g
    <2> QED BY <2>5, <2>6
  <1>8. ASSUME NEW s \in Rounds, NEW w \in Users, NEW b \in BenefitTypes,
               ticket'[s][w].status = "ABSENT"
        PROVE  ticket'[s][w].fromInventory[b] = 0
    BY <1>4, <1>6, <1>8 DEF InventoryKept
  <1> QED BY <1>7, <1>8 DEF InventoryKept

(* Where the tickets keep what they took and exist if they did, the         *)
(* inventory that stays is explained as before.                             *)
LEMMA SameInventory ==
  ASSUME InventoryKept, inventory' = inventory,
         \A r \in Rounds, u \in Users :
             /\ ticket'[r][u].fromInventory = ticket[r][u].fromInventory
             /\ ticket'[r][u].status = "ABSENT" => ticket[r][u].status = "ABSENT"
  PROVE  InventoryKept'
  <1>1. ASSUME NEW u \in Users, NEW b \in BenefitTypes
        PROVE  Taken(ticket', u, b) = Taken(ticket, u, b)
    BY DEF Taken
  <1>2. ASSUME NEW u \in Users, NEW b \in BenefitTypes
        PROVE  inventory'[u][b]
                 = Inventory[u][b] - SumFunctionOnSet(Taken(ticket', u, b), Rounds)
    BY <1>1 DEF InventoryKept
  <1> QED BY <1>2 DEF InventoryKept

LEMMA ScoreInventory ==
  ASSUME Inv, InventoryKept, NEW p \in Processes, ScoreCommit(p)
  PROVE  InventoryKept'
  <1>1. PICK r \in Rounds, v \in Results, users \in SUBSET Users : ScoredWith(p, r, v, users)
    BY ScoreShape
  <1>2. ticket' = [ticket EXCEPT ![r] = [u \in Users |->
             IF u \in users THEN [ticket[r][u] EXCEPT !.status = "SCORED"] ELSE ticket[r][u]]]
    BY <1>1, Zenon DEF ScoredWith
  <1>3. inventory' = inventory
    BY DEF ScoreCommit, benefits
  <1>4. ASSUME NEW s \in Rounds, NEW w \in Users
        PROVE  /\ ticket'[s][w].fromInventory = ticket[s][w].fromInventory
               /\ ticket'[s][w].status = "ABSENT" => ticket[s][w].status = "ABSENT"
    <2>1. ticket[s][w] \in TicketRow
      BY DEF Inv, TypeOK
    <2>2. /\ [ticket[s][w] EXCEPT !.status = "SCORED"].fromInventory
               = ticket[s][w].fromInventory
          /\ [ticket[s][w] EXCEPT !.status = "SCORED"].status = "SCORED"
      BY <2>1 DEF TicketRow
    <2>3. \/ ticket'[s][w] = ticket[s][w]
          \/ ticket'[s][w] = [ticket[s][w] EXCEPT !.status = "SCORED"]
      BY <1>2 DEF Inv, TypeOK
    <2> QED BY <2>2, <2>3
  <1> QED BY <1>3, <1>4, SameInventory

LEMMA InventoryStep == Inv /\ InventoryKept /\ [Next]_vars => InventoryKept'
  <1> SUFFICES ASSUME Inv, InventoryKept, [Next]_vars PROVE InventoryKept'
    OBVIOUS
  <1>1. ASSUME UNCHANGED <<ticket, inventory>> PROVE InventoryKept'
    BY <1>1, SameInventory
  <1>2. ASSUME NEW p \in Processes, (\E u \in Users : GrantBenefits(p, u)) \/ ZeroBenefits(p)
        PROVE  UNCHANGED <<ticket, inventory>>
    BY <1>2 DEF GrantBenefits, ZeroBenefits
  <1> QED BY <1>1, <1>2, TicketInventory, ScoreInventory, SpendingSteps DEF benefits

(* A round that is opened or granted again, by a repeated job, a late one,  *)
(* an administrator or the script, gives no benefit twice, and what left    *)
(* the inventory of a user is what the tickets of that user took from it.   *)
THEOREM BenefitsOnce == Spec => []BenefitsSpentOnce
  <1>1. Init => FreeKept /\ InventoryKept
    <2> SUFFICES ASSUME Init PROVE FreeKept /\ InventoryKept
      OBVIOUS
    <2>1. ASSUME NEW r \in Rounds, NEW u \in Users, NEW b \in BenefitTypes
          PROVE  /\ ticket[r][u].fromFree[b] = 0 /\ free[r][u][b] = 0
                 /\ ticket[r][u].fromInventory[b] = 0 /\ Grant[u][b] \in Nat
      <3>1. ticket[r][u] = NoTicket /\ free[r][u] = Nothing
        BY DEF Init
      <3> QED BY <3>1, RoundsAssumption DEF NoTicket, Nothing
    <2>2. ASSUME NEW u \in Users, NEW b \in BenefitTypes
          PROVE  inventory[u][b]
                   = Inventory[u][b] - SumFunctionOnSet(Taken(ticket, u, b), Rounds)
      <3>1. \A r \in Rounds : Taken(ticket, u, b)[r] = 0
        BY <2>1 DEF Taken
      <3>2. IsFiniteSet(Rounds) /\ Inventory[u][b] \in Nat
        BY RoundsAssumption
      <3>3. SumFunctionOnSet(Taken(ticket, u, b), Rounds) = 0
        BY <3>1, <3>2, SumZero
      <3> QED BY <3>2, <3>3 DEF Init
    <2> QED BY <2>1, <2>2 DEF FreeKept, FreeSpentOnce, InventoryKept
  <1>2. FreeKept /\ InventoryKept => BenefitsSpentOnce
    BY DEF FreeKept, FreeSpentOnce, InventoryKept, BenefitsSpentOnce, Taken, SumFunction
  <1> QED BY <1>1, <1>2, FreeStep, InventoryStep, InitInv, InvStep, PTL DEF Spec

-----------------------------------------------------------------------------
(* The totals.                                                              *)

(* What each round gave a user, zero where the round has no row.            *)
Given(rows, u) == [r \in Rounds |-> IF rows[r][u] = None THEN 0 ELSE Points[u][rows[r][u]]]

LEMMA GivenSum ==
  ASSUME NEW rows \in [Rounds -> [Users -> Results \cup {None}]], NEW u \in Users
  PROVE  /\ \A r \in Rounds : Given(rows, u)[r] \in Int
         /\ SumFunctionOnSet(Given(rows, u), Rounds) \in Int
         /\ SumFunction([r \in {r \in Rounds : rows[r][u] # None} |-> Points[u][rows[r][u]]])
              = SumFunctionOnSet(Given(rows, u), Rounds)
  <1> DEFINE S == {r \in Rounds : rows[r][u] # None}
             f == [r \in S |-> Points[u][rows[r][u]]]
             g == Given(rows, u)
  <1>1. IsFiniteSet(Rounds) /\ S \in SUBSET Rounds
    BY RoundsAssumption
  <1>2. IsFiniteSet(S)
    BY <1>1, FS_Subset
  <1>3. \A r \in Rounds : g[r] \in Int
    BY RoundsAssumption DEF Given
  <1>4. (\A r \in S : f[r] = g[r]) /\ (\A r \in Rounds \ S : g[r] = 0)
    BY DEF Given
  <1>5. SumFunction(f) = SumFunctionOnSet(f, S)
    BY DEF SumFunction
  <1> HIDE DEF S, f, g
  <1>6. SumFunctionOnSet(f, S) = SumFunctionOnSet(g, S)
    BY <1>2, <1>4, SumSame
  <1>7. SumFunctionOnSet(g, S) = SumFunctionOnSet(g, Rounds)
    BY <1>1, <1>3, <1>4, SumExtend
  <1>8. SumFunctionOnSet(g, Rounds) \in Int
    BY <1>1, <1>3, SumInt
  <1> QED BY <1>3, <1>5, <1>6, <1>7, <1>8 DEF S, f, g

(* Scoring adds the points of the rows it writes, which are new.            *)
LEMMA ScoreTotal ==
  ASSUME Inv, ScoreIsSumOfHistory, NEW p \in Processes, ScoreCommit(p)
  PROVE  ScoreIsSumOfHistory'
  <1>1. PICK r \in Rounds, v \in Results, users \in SUBSET Users : ScoredWith(p, r, v, users)
    BY ScoreShape
  <1>2. /\ \A u \in users : history[r][u] = None
        /\ score' = [u \in Users |->
                        IF u \in users THEN score[u] + Points[u][v] ELSE score[u]]
        /\ history' = [history EXCEPT ![r] = [u \in Users |->
                        IF u \in users THEN v ELSE history[r][u]]]
    BY <1>1, Zenon DEF ScoredWith
  <1>3. /\ history \in [Rounds -> [Users -> Results \cup {None}]]
        /\ history' \in [Rounds -> [Users -> Results \cup {None}]]
        /\ score \in [Users -> Int]
    BY ScoreCommitStep DEF Inv, TypeOK
  <1>4. ASSUME NEW u \in Users
        PROVE  score'[u] = SumFunctionOnSet(Given(history', u), Rounds)
    <2> DEFINE f == Given(history, u)  g == Given(history', u)
    <2>1. /\ \A s \in Rounds : f[s] \in Int /\ g[s] \in Int
          /\ SumFunctionOnSet(f, Rounds) \in Int /\ score[u] = SumFunctionOnSet(f, Rounds)
      BY <1>3, GivenSum DEF ScoreIsSumOfHistory
    <2>2. \A s \in Rounds :
             /\ history[s][u] = history'[s][u] => f[s] = g[s]
             /\ history[s][u] = None => f[s] = 0
             /\ history'[s][u] = v => g[s] = Points[u][v]
      BY RoundsAssumption DEF Given
    <2> HIDE DEF f, g
    <2>3. \A s \in Rounds \ {r} : history'[s][u] = history[s][u]
      BY <1>2, <1>3
    <2>4. IsFiniteSet(Rounds)
      BY RoundsAssumption
    <2>5. SumFunctionOnSet(g, Rounds) = SumFunctionOnSet(f, Rounds) + g[r] - f[r]
      BY <2>1, <2>2, <2>3, <2>4, SumChange
    <2>6. CASE u \in users
      <3>1. history'[r][u] = v /\ history[r][u] = None /\ score'[u] = score[u] + Points[u][v]
        BY <1>2, <1>3, <2>6
      <3>2. f[r] = 0 /\ g[r] = Points[u][v]
        BY <2>2, <3>1
      <3> QED BY <2>1, <2>5, <3>1, <3>2 DEF g
    <2>7. CASE u \notin users
      <3>1. history'[r][u] = history[r][u] /\ score'[u] = score[u]
        BY <1>2, <1>3, <2>7
      <3>2. f[r] = g[r]
        BY <2>2, <3>1
      <3> QED BY <2>1, <2>5, <3>1, <3>2 DEF g
    <2> QED BY <2>6, <2>7
  <1>5. ASSUME NEW u \in Users
        PROVE  score'[u] = SumFunction([r_1 \in {r_1 \in Rounds : history'[r_1][u] # None} |->
                                            Points[u][history'[r_1][u]]])
    BY <1>3, <1>4, GivenSum
  <1> QED BY <1>5 DEF ScoreIsSumOfHistory

(* The total of a user is the sum of the points of the rows of the history, *)
(* whatever job, retry or administrator scored the rounds, how often, and   *)
(* with whom it raced.                                                      *)
THEOREM TotalsAreSums == Spec => []ScoreIsSumOfHistory
  <1>1. Init => ScoreIsSumOfHistory
    <2> SUFFICES ASSUME Init, NEW u \in Users
                 PROVE  score[u] = SumFunction([r \in {r \in Rounds : history[r][u] # None} |->
                                                   Points[u][history[r][u]]])
      BY DEF ScoreIsSumOfHistory
    <2>1. /\ history \in [Rounds -> [Users -> Results \cup {None}]] /\ score[u] = 0
          /\ \A r \in Rounds : Given(history, u)[r] = 0
      BY DEF Init, Given
    <2>2. SumFunctionOnSet(Given(history, u), Rounds) = 0
      BY <2>1, RoundsAssumption, SumZero
    <2> QED BY <2>1, <2>2, GivenSum
  <1>2. Inv /\ ScoreIsSumOfHistory /\ [Next]_vars => ScoreIsSumOfHistory'
    <2> SUFFICES ASSUME Inv, ScoreIsSumOfHistory, [Next]_vars PROVE ScoreIsSumOfHistory'
      OBVIOUS
    <2>1. ASSUME UNCHANGED <<history, score>> PROVE ScoreIsSumOfHistory'
      BY <2>1 DEF ScoreIsSumOfHistory
    <2>2. ASSUME NEW p \in Processes,
                 \/ \E u \in Users : GrantBenefits(p, u)
                 \/ ZeroBenefits(p) \/ TicketCommit(p)
          PROVE  UNCHANGED <<history, score>>
      BY <2>2 DEF GrantBenefits, ZeroBenefits, TicketCommit, scores
    <2> QED BY <2>1, <2>2, ScoreTotal, SpendingSteps
  <1> QED BY <1>1, <1>2, InitInv, InvStep, PTL DEF Spec

=============================================================================
