------------------------------- MODULE Worker -------------------------------
(***************************************************************************)
(* Internal jobs: the BullMQ worker with its schedules, its startup and its *)
(* shutdown, the HTTP routes that run the same jobs by hand, the runner     *)
(* that keeps a row of internal_job_executions for each run, and the        *)
(* operational status an administrator watches.                             *)
(*                                                                         *)
(* A worker runs one job at a time (BULLMQ_WORKER_CONCURRENCY=1); an HTTP   *)
(* call is a process of its own. Each statement of the runner is a step.    *)
(* What a job does is one step, Run: the modules of its domain detail it.   *)
(* The queue is BullMQ's and is modelled as src/ uses it: a schedule puts a *)
(* job in line, a job that fails returns until its attempts are used up,    *)
(* and the job of a worker that lost its lock is given to another.          *)
(***************************************************************************)
EXTENDS Naturals, FiniteSets

CONSTANTS
    Workers, Calls,  \* processes of the worker; calls of the internal routes
    Schedules,       \* the jobs with a BullMQ schedule
    Routes,          \* the jobs with an internal route
    Attempts,        \* attempts of a BullMQ job
    MaxPeriod,       \* bound on the clock
    MaxFaults,       \* bound on deaths, failed statements and lost locks
    MaxDeploys       \* bound on the deploys and on the outages of Redis

Monthly == {"ensure", "reconcile", "manual"}
JobNames == {"sweep", "open", "alerts"} \cup Monthly

ASSUME WorkerAssumption ==
    /\ Workers \cap Calls = {} /\ IsFiniteSet(Workers \cup Calls)
    /\ Schedules \subseteq JobNames /\ Routes \subseteq JobNames
    /\ Attempts \in Nat \ {0} /\ MaxPeriod \in Nat
    /\ MaxFaults \in Nat /\ MaxDeploys \in Nat

Processes == Workers \cup Calls
Periods == 0..MaxPeriod

VARIABLES
    period,      \* the month of the monthly jobs, the minute of the alerts
    redis,       \* Redis answers
    registered,  \* job schedulers upserted
    waiting,     \* jobs in line, by the number of the attempt
    proc,        \* the processes
    running,     \* RUNNING executions of a reference
    success,     \* SUCCESS executions of a reference, of those the runner reads
    failed24h,   \* an execution FAILED within 24 hours
    over30m,     \* references RUNNING for more than 30 minutes
    due,         \* what there is to do
    faults, deploys

vars == <<period, redis, registered, waiting, proc, running, success, failed24h,
          over30m, due, faults, deploys>>
executions == <<running, success, failed24h, over30m>>
queue == <<redis, registered, waiting>>
bounds == <<faults, deploys>>

References == JobNames \X Periods
Phases == {"down", "starting", "reconcile", "serving", "closing"}
Steps == {"idle", "check", "create", "started", "run", "finish", "finished",
          "fail", "completed", "failed"}
Process == [phase : Phases, at : Steps, name : JobNames, period : Periods,
            attempt : 0..Attempts]

TypeOK ==
    /\ period \in Periods /\ redis \in BOOLEAN
    /\ registered \subseteq Schedules
    /\ waiting \in [Schedules -> SUBSET (1..Attempts)]
    /\ proc \in [Processes -> Process]
    /\ running \in [References -> Nat] /\ success \in [References -> Nat]
    /\ failed24h \in BOOLEAN /\ over30m \subseteq References
    /\ due \subseteq References
    /\ faults \in 0..MaxFaults /\ deploys \in 0..MaxDeploys

Down == [phase |-> "down", at |-> "idle", name |-> "sweep", period |-> 0, attempt |-> 0]

(* A round is to be opened. The rankings of the first month are there; each  *)
(* later one is due from its first day.                                     *)
Init ==
    /\ period = 0 /\ redis = TRUE
    /\ registered = {}
    /\ waiting = [n \in Schedules |-> {}]
    /\ proc = [p \in Processes |->
                  [Down EXCEPT !.phase = IF p \in Workers THEN "down" ELSE "serving"]]
    /\ running = [r \in References |-> 0]
    /\ success = [r \in References |-> 0]
    /\ failed24h = FALSE /\ over30m = {} /\ due = {<<"open", 0>>}
    /\ faults = 0 /\ deploys = 0

-----------------------------------------------------------------------------
(* The reference of a run; the jobs whose earlier success the runner does   *)
(* not mind (allowRepeat); what a run does.                                 *)
Reference(n, t) == <<n, IF n \in Monthly \cup {"alerts"} THEN t ELSE 0>>
Repeats(n) == n = "sweep" \/ n \in Monthly
Work(n, t) == IF n \in Monthly THEN <<"ensure", t>> ELSE Reference(n, t)

At(p, step) == proc[p].at = step
Ref(p) == Reference(proc[p].name, proc[p].period)
(* The row a process is in the middle of.                                   *)
HasRow(p) == proc[p].at \in {"started", "run", "finish", "fail"}
Go(p, step) == proc' = [proc EXCEPT ![p].at = step]
Fault == faults < MaxFaults /\ faults' = faults + 1 /\ UNCHANGED deploys
Deploy == deploys < MaxDeploys /\ deploys' = deploys + 1 /\ UNCHANGED faults

-----------------------------------------------------------------------------
(* The world: a Mesa is over, a month begins, time passes, Redis goes and   *)
(* comes back with its data (AOF).                                          *)
SweepIsDue ==
    /\ due' = due \cup {<<"sweep", 0>>}
    /\ UNCHANGED <<period, queue, proc, executions, bounds>>

NextPeriod ==
    /\ period < MaxPeriod
    /\ period' = period + 1
    /\ due' = (due \ {<<"ensure", period>>}) \cup {<<"ensure", period + 1>>}
    /\ UNCHANGED <<queue, proc, executions, bounds>>

(* A run that goes on takes less than 30 minutes.                           *)
HalfAnHour(r) ==
    /\ running[r] > Cardinality({p \in Processes : HasRow(p) /\ Ref(p) = r})
    /\ r \notin over30m
    /\ over30m' = over30m \cup {r}
    /\ UNCHANGED <<period, queue, proc, running, success, failed24h, due, bounds>>

ADay ==
    /\ failed24h
    /\ failed24h' = FALSE
    /\ UNCHANGED <<period, queue, proc, running, success, over30m, due, bounds>>

RedisDown ==
    /\ redis /\ Deploy
    /\ redis' = FALSE
    /\ UNCHANGED <<period, registered, waiting, proc, executions, due>>

RedisUp ==
    /\ ~redis
    /\ redis' = TRUE
    /\ UNCHANGED <<period, registered, waiting, proc, executions, due, bounds>>

-----------------------------------------------------------------------------
(* main: the database answers, the schedules are upserted, the month is     *)
(* reconciled by a run of the runner whose failure is only logged, then     *)
(* jobs are taken and signals handled.                                      *)
Start(w) ==
    /\ w \in Workers /\ proc[w].phase = "down"
    /\ proc' = [proc EXCEPT ![w].phase = "starting"]
    /\ UNCHANGED <<period, queue, executions, due, bounds>>

RegisterSchedules(w) ==
    /\ proc[w].phase = "starting" /\ redis
    /\ registered' = Schedules
    /\ proc' = [proc EXCEPT ![w].phase = "reconcile", ![w].at = "check",
                            ![w].name = "reconcile", ![w].period = period]
    /\ UNCHANGED <<period, redis, waiting, executions, due, bounds>>

(* The scheduler puts its next job in line.                                 *)
Schedule(n) ==
    /\ redis /\ n \in registered /\ waiting[n] = {}
    /\ waiting' = [waiting EXCEPT ![n] = {1}]
    /\ UNCHANGED <<period, redis, registered, proc, executions, due, bounds>>

(* A job is taken; opening with no round due ends without a run.            *)
Begin(p, n, k) ==
    proc' = [proc EXCEPT ![p].at = IF n = "open" /\ Reference(n, period) \notin due
                                   THEN "completed" ELSE "check",
                         ![p].name = n, ![p].period = period, ![p].attempt = k]
TakeJob(w, n, k) ==
    /\ redis /\ proc[w].phase = "serving" /\ w \in Workers /\ At(w, "idle")
    /\ k \in waiting[n]
    /\ waiting' = [waiting EXCEPT ![n] = @ \ {k}]
    /\ Begin(w, n, k)
    /\ UNCHANGED <<period, redis, registered, executions, due, bounds>>

(* An internal route, called by an operator or a cron.                      *)
CallRoute(c, n) ==
    /\ c \in Calls /\ At(c, "idle")
    /\ Begin(c, n, 0)
    /\ UNCHANGED <<period, queue, executions, due, bounds>>

-----------------------------------------------------------------------------
(* InternalJobRunnerService: it looks for an execution, and creates its own *)
(* in another statement.                                                    *)
AlreadyDone_Never(p) == FALSE
AlreadyDone(p) == ~Repeats(proc[p].name) /\ success[Ref(p)] > 0
Check(p) ==
    /\ At(p, "check")
    /\ Go(p, IF running[Ref(p)] > 0 THEN "failed"
             ELSE IF AlreadyDone(p) THEN "completed"
             ELSE "create")
    /\ UNCHANGED <<period, queue, executions, due, bounds>>

Create(p) ==
    /\ At(p, "create")
    /\ running' = [running EXCEPT ![Ref(p)] = @ + 1]
    /\ Go(p, "started")
    /\ UNCHANGED <<period, queue, success, failed24h, over30m, due, bounds>>

(* The audit log of the start, outside the try.                             *)
AuditStart(p) ==
    /\ At(p, "started")
    /\ Go(p, "run")
    /\ UNCHANGED <<period, queue, executions, due, bounds>>

Run(p) ==
    /\ At(p, "run")
    /\ due' = due \ {Work(proc[p].name, proc[p].period)}
    /\ Go(p, "finish")
    /\ UNCHANGED <<period, queue, executions, bounds>>

(* The sweep catches the error of each closing and only logs it: whatever   *)
(* could not be closed is due as before, and the run succeeds. The other    *)
(* jobs let their errors through.                                           *)
SweepLogsError(p) ==
    /\ At(p, "run") /\ proc[p].name = "sweep"
    /\ Go(p, "finish")
    /\ UNCHANGED <<period, queue, executions, due, bounds>>

RunThrows(p) ==
    /\ At(p, "run")
    /\ Go(p, "fail")
    /\ UNCHANGED <<period, queue, executions, due, bounds>>

Count(n, by) == IF Repeats(n) THEN 0 ELSE by
Finish(p) ==
    /\ At(p, "finish")
    /\ running' = [running EXCEPT ![Ref(p)] = @ - 1]
    /\ success' = [success EXCEPT ![Ref(p)] = @ + Count(proc[p].name, 1)]
    /\ Go(p, "finished")
    /\ UNCHANGED <<period, queue, failed24h, over30m, due, bounds>>

AuditFinish(p) ==
    /\ At(p, "finished")
    /\ Go(p, "completed")
    /\ UNCHANGED <<period, queue, executions, due, bounds>>

(* The catch.                                                               *)
MarkFailed(p) ==
    /\ At(p, "fail")
    /\ running' = [running EXCEPT ![Ref(p)] = @ - 1]
    /\ failed24h' = TRUE
    /\ Go(p, "failed")
    /\ UNCHANGED <<period, queue, success, over30m, due, bounds>>

(* A statement throws. Before the try or in the catch that leaves the row   *)
(* RUNNING; in the try it is caught, and a row already SUCCESS turns FAILED. *)
StatementFails(p) ==
    /\ Fault
    /\ \/ /\ proc[p].at \in {"check", "create", "started", "fail"}
          /\ Go(p, "failed")
          /\ UNCHANGED executions
       \/ /\ At(p, "finish")
          /\ Go(p, "fail")
          /\ UNCHANGED executions
       \/ /\ At(p, "finished")
          /\ success' = [success EXCEPT ![Ref(p)] = @ - Count(proc[p].name, 1)]
          /\ failed24h' = TRUE
          /\ Go(p, "failed")
          /\ UNCHANGED <<running, over30m>>
    /\ UNCHANGED <<period, queue, due>>

-----------------------------------------------------------------------------
(* The job is acknowledged, or returns after its backoff; the startup goes  *)
(* on whatever came of its run; the route answers.                          *)
Requeued(p) ==
    IF At(p, "failed") /\ proc[p].attempt \in 1..(Attempts - 1)
    THEN [waiting EXCEPT ![proc[p].name] = @ \cup {proc[p].attempt + 1}] ELSE waiting
Answer(p) ==
    /\ proc[p].at \in {"completed", "failed"}
    /\ proc[p].attempt > 0 => redis
    /\ waiting' = Requeued(p)
    /\ proc' = [proc EXCEPT ![p] = [Down EXCEPT !.phase =
                   IF proc[p].phase = "closing" THEN "closing" ELSE "serving"]]
    /\ UNCHANGED <<period, redis, registered, executions, due, bounds>>

(* The lock of a job is lost while its run goes on: it is in line again.    *)
Regained(p) == [waiting EXCEPT ![proc[p].name] = @ \cup {proc[p].attempt}]
LoseLock(w) ==
    /\ proc[w].attempt > 0 /\ redis /\ Fault
    /\ waiting' = Regained(w)
    /\ proc' = [proc EXCEPT ![w].attempt = 0]
    /\ UNCHANGED <<period, redis, registered, executions, due>>

(* SIGTERM of a worker that takes jobs: worker.close waits for the job it   *)
(* has, the queue is closed, the process exits.                             *)
Terminate(w) ==
    /\ w \in Workers /\ proc[w].phase = "serving" /\ Deploy
    /\ proc' = [proc EXCEPT ![w].phase = "closing"]
    /\ UNCHANGED <<period, queue, executions, due>>

Drained_AtOnce(w) == TRUE
Drained(w) == At(w, "idle")
Exit(w) ==
    /\ proc[w].phase = "closing" /\ redis
    /\ Drained(w)
    /\ proc' = [proc EXCEPT ![w] = Down]
    /\ UNCHANGED <<period, queue, executions, due, bounds>>

(* A process dies where it is: the kill after the grace of the platform,    *)
(* the end of its memory, or a SIGTERM no handler awaits (the startup, and  *)
(* the API always). The lock of its job runs out; BullMQ gives it to        *)
(* another, or fails it when that happened before.                          *)
Die(p) ==
    /\ Fault
    /\ proc[p].phase # "down" /\ (p \in Calls => ~At(p, "idle"))
    /\ proc' = [proc EXCEPT ![p] = IF p \in Workers THEN Down
                                   ELSE [Down EXCEPT !.phase = "serving"]]
    /\ waiting' \in {waiting} \cup (IF proc[p].attempt > 0 THEN {Regained(p)} ELSE {})
    /\ UNCHANGED <<period, redis, registered, executions, due>>

-----------------------------------------------------------------------------
(* GetOperationalStatusService: the issues of the jobs.                     *)
StuckRuns_Unseen == {}
StuckRuns == over30m
Critical == failed24h \/ StuckRuns # {}

RunnerStep(p) ==
    \/ Check(p) \/ Create(p) \/ AuditStart(p) \/ Run(p)
    \/ SweepLogsError(p) \/ RunThrows(p)
    \/ Finish(p) \/ AuditFinish(p) \/ MarkFailed(p) \/ Answer(p)
WorkerStep(w) == Start(w) \/ RegisterSchedules(w) \/ Exit(w)

Next ==
    \/ \E p \in Processes : RunnerStep(p) \/ StatementFails(p) \/ Die(p)
    \/ \E w \in Workers : WorkerStep(w) \/ Terminate(w) \/ LoseLock(w)
    \/ \E w \in Workers, n \in Schedules, k \in 1..Attempts : TakeJob(w, n, k)
    \/ \E c \in Calls, n \in Routes : CallRoute(c, n)
    \/ \E n \in Schedules : Schedule(n)
    \/ \E r \in References : HalfAnHour(r)
    \/ SweepIsDue \/ ADay \/ NextPeriod \/ RedisDown \/ RedisUp

(* A live process goes on, the platform starts a worker that exited, Redis  *)
(* is brought back, its schedules tick, its line is served in order, and    *)
(* time passes.                                                             *)
Fairness ==
    /\ WF_vars(RedisUp)
    /\ \A p \in Processes : WF_vars(RunnerStep(p))
    /\ \A w \in Workers : WF_vars(WorkerStep(w))
    /\ \A n \in Schedules :
          /\ WF_vars(Schedule(n))
          /\ SF_vars(\E w \in Workers, k \in 1..Attempts : TakeJob(w, n, k))
    /\ \A r \in References : WF_vars(HalfAnHour(r))

Spec == Init /\ [][Next]_vars
FairSpec == Spec /\ Fairness

-----------------------------------------------------------------------------
(* What the jobs promise.                                                   *)

(* Without a death or a failed statement no execution stays RUNNING with    *)
(* nobody to end it, through errors of the jobs, lost locks excepted, the   *)
(* outages of Redis and the deploys of the worker (shutdown, the runner).   *)
RunningIsRun ==
    faults = 0 => \A r \in References :
        running[r] = Cardinality({p \in Processes : HasRow(p) /\ Ref(p) = r})

(* A job that is not repeated succeeds once for its reference, or once for  *)
(* each process that looked before the first of them had its row: whoever   *)
(* looks later never adds to them (InternalJobRunnerService.execute).       *)
SucceedsOnce ==
    \A r \in References :
        LET starters == {p \in Processes : Ref(p) = r /\ ~Repeats(proc[p].name)
                            /\ proc[p].at \in {"create", "started", "run", "finish"}}
        IN  success[r] + Cardinality(starters) <= Cardinality(Processes)

(* What is due is done in the end, or the operational status turns CRITICAL *)
(* (or the month is over): a row that nobody ends, which refuses every      *)
(* later run, does not go unseen (reconcile of worker.ts, the status).      *)
(* A Mesa whose closing fails is neither: the sweep logs the error, its run *)
(* is a SUCCESS and no issue is reported (CloseExpiredRankingsService). Of  *)
(* the sweep it is promised that a Mesa stays due unreported only while     *)
(* sweeps go on to log an error, again and again.                           *)
DueIsServedOrReported ==
    /\ \A r \in (({"open"} \cap Schedules) \cup {"ensure"}) \X Periods :
          r \in due ~> (r \notin due \/ Critical)
    /\ "sweep" \in Schedules =>
          \/ []<>(<<"sweep", 0>> \notin due \/ Critical)
          \/ []<><<\E p \in Processes : SweepLogsError(p)>>_vars
=============================================================================
