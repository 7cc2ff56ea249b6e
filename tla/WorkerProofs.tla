----------------------------- MODULE WorkerProofs -----------------------------
(***************************************************************************)
(* Proofs about Worker, for any number of workers, calls, schedules and     *)
(* attempts, and any bound on faults and deploys: the types, that without a *)
(* fault each RUNNING execution has a process that runs it, and how often a *)
(* job that is not repeated succeeds.                                       *)
(***************************************************************************)
EXTENDS Worker, FiniteSetTheorems, TLAPS

(* What a process, as x, counts for the reference r: an execution it will   *)
(* end, one that it began, or may begin, after it found none that had       *)
(* succeeded, and a success that it may still take back.                    *)
RowOf(x, r) ==
    x.at \in {"started", "run", "finish", "fail"} /\ Reference(x.name, x.period) = r
StarterOf(x, r) ==
    /\ x.at \in {"create", "started", "run", "finish"}
    /\ Reference(x.name, x.period) = r /\ ~Repeats(x.name)
EndedOf(x, r) ==
    x.at = "finished" /\ Reference(x.name, x.period) = r /\ ~Repeats(x.name)

Rows(r) == {p \in Processes : RowOf(proc[p], r)}
Starters(r) == {p \in Processes : StarterOf(proc[p], r)}
Ended(r) == {p \in Processes : EndedOf(proc[p], r)}
(* The number of processes, the bound of the counts.                       *)
Limit == Cardinality(Processes)

(* A worker that is down or starts runs nothing.                            *)
Resting(x) == x.phase \in {"down", "starting"} => x.at = "idle"

Accounted(r) ==
    /\ Cardinality(Rows(r)) <= running[r]
    /\ faults = 0 => running[r] = Cardinality(Rows(r))
Succeeded(r) ==
    /\ success[r] + Cardinality(Starters(r)) <= Limit
    /\ Cardinality(Ended(r)) <= success[r]

(* A process goes on as x.                                                  *)
Moves(p, x) == proc' = [proc EXCEPT ![p] = x]

Inv ==
    /\ TypeOK
    /\ \A w \in Workers : Resting(proc[w])
    /\ \A r \in References : Accounted(r) /\ Succeeded(r)

-----------------------------------------------------------------------------
LEMMA Counts ==
  ASSUME NEW S \in SUBSET Processes
  PROVE  IsFiniteSet(S) /\ Cardinality(S) \in Nat /\ Cardinality(S) <= Limit /\ Limit \in Nat
  <1>1. IsFiniteSet(Processes)
    BY WorkerAssumption DEF Processes
  <1> QED BY <1>1, FS_Subset, FS_CardinalityType DEF Limit

(* Two sets of processes that differ in p at most.                          *)
LEMMA CountsApart ==
  ASSUME NEW S \in SUBSET Processes, NEW T \in SUBSET Processes, NEW p,
         S \ {p} = T \ {p}
  PROVE  /\ (p \in S <=> p \in T) => Cardinality(T) = Cardinality(S)
         /\ p \in S /\ p \notin T => Cardinality(T) = Cardinality(S) - 1
         /\ p \notin S /\ p \in T => Cardinality(T) = Cardinality(S) + 1
  <1>1. /\ IsFiniteSet(S) /\ Cardinality(S) \in Nat
        /\ IsFiniteSet(T) /\ Cardinality(T) \in Nat
    BY Counts
  <1>2. CASE p \in S <=> p \in T
    <2>1. S = T
      BY <1>2
    <2> QED BY <1>2, <2>1
  <1>3. CASE p \in S /\ p \notin T
    <2>1. T = S \ {p}
      BY <1>3
    <2>2. Cardinality(S \ {p}) = Cardinality(S) - 1
      BY <1>1, <1>3, FS_RemoveElement
    <2> QED BY <1>3, <2>1, <2>2
  <1>4. CASE p \notin S /\ p \in T
    <2>1. T = S \cup {p}
      BY <1>4
    <2>2. Cardinality(S \cup {p}) = Cardinality(S) + 1
      BY <1>1, <1>4, FS_AddElement
    <2> QED BY <1>4, <2>1, <2>2
  <1> QED BY <1>2, <1>3, <1>4

(* One process goes on as x: what becomes of each count.                    *)
LEMMA MoveCounts ==
  ASSUME Inv, NEW p \in Processes, NEW x \in Process, Moves(p, x), NEW r \in References
  PROVE  /\ (RowOf(proc[p], r) <=> RowOf(x, r))
              => Cardinality(Rows(r)') = Cardinality(Rows(r))
         /\ RowOf(proc[p], r) /\ ~RowOf(x, r)
              => Cardinality(Rows(r)') = Cardinality(Rows(r)) - 1
         /\ ~RowOf(proc[p], r) /\ RowOf(x, r)
              => Cardinality(Rows(r)') = Cardinality(Rows(r)) + 1
         /\ (StarterOf(proc[p], r) <=> StarterOf(x, r))
              => Cardinality(Starters(r)') = Cardinality(Starters(r))
         /\ StarterOf(proc[p], r) /\ ~StarterOf(x, r)
              => Cardinality(Starters(r)') = Cardinality(Starters(r)) - 1
         /\ (EndedOf(proc[p], r) <=> EndedOf(x, r))
              => Cardinality(Ended(r)') = Cardinality(Ended(r))
         /\ EndedOf(proc[p], r) /\ ~EndedOf(x, r)
              => Cardinality(Ended(r)') = Cardinality(Ended(r)) - 1
         /\ ~EndedOf(proc[p], r) /\ EndedOf(x, r)
              => Cardinality(Ended(r)') = Cardinality(Ended(r)) + 1
         /\ Cardinality(Rows(r)) \in Nat /\ Cardinality(Rows(r)') \in Nat
         /\ Cardinality(Starters(r)) \in Nat /\ Cardinality(Starters(r)') \in Nat
         /\ Cardinality(Starters(r)') <= Limit /\ Limit \in Nat
         /\ Cardinality(Ended(r)) \in Nat /\ Cardinality(Ended(r)') \in Nat
  <1>1. proc'[p] = x /\ \A q \in Processes \ {p} : proc'[q] = proc[q]
    BY DEF Inv, TypeOK, Moves
  <1>2. /\ Rows(r) \in SUBSET Processes /\ Rows(r)' \in SUBSET Processes
        /\ Starters(r) \in SUBSET Processes /\ Starters(r)' \in SUBSET Processes
        /\ Ended(r) \in SUBSET Processes /\ Ended(r)' \in SUBSET Processes
    BY DEF Rows, Starters, Ended
  <1>3. /\ Rows(r) \ {p} = Rows(r)' \ {p}
        /\ (p \in Rows(r) <=> RowOf(proc[p], r)) /\ (p \in Rows(r)' <=> RowOf(x, r))
    BY <1>1 DEF Rows
  <1>4. /\ Starters(r) \ {p} = Starters(r)' \ {p}
        /\ (p \in Starters(r) <=> StarterOf(proc[p], r))
        /\ (p \in Starters(r)' <=> StarterOf(x, r))
    BY <1>1 DEF Starters
  <1>5. /\ Ended(r) \ {p} = Ended(r)' \ {p}
        /\ (p \in Ended(r) <=> EndedOf(proc[p], r)) /\ (p \in Ended(r)' <=> EndedOf(x, r))
    BY <1>1 DEF Ended
  <1>6. /\ Cardinality(Rows(r)) \in Nat /\ Cardinality(Rows(r)') \in Nat
        /\ Cardinality(Starters(r)) \in Nat /\ Cardinality(Starters(r)') \in Nat
        /\ Cardinality(Starters(r)') <= Limit /\ Limit \in Nat
        /\ Cardinality(Ended(r)) \in Nat /\ Cardinality(Ended(r)') \in Nat
    BY <1>2, Counts
  <1>7. /\ (RowOf(proc[p], r) <=> RowOf(x, r))
              => Cardinality(Rows(r)') = Cardinality(Rows(r))
        /\ RowOf(proc[p], r) /\ ~RowOf(x, r)
              => Cardinality(Rows(r)') = Cardinality(Rows(r)) - 1
        /\ ~RowOf(proc[p], r) /\ RowOf(x, r)
              => Cardinality(Rows(r)') = Cardinality(Rows(r)) + 1
    BY <1>2, <1>3, CountsApart
  <1>8. /\ (StarterOf(proc[p], r) <=> StarterOf(x, r))
              => Cardinality(Starters(r)') = Cardinality(Starters(r))
        /\ StarterOf(proc[p], r) /\ ~StarterOf(x, r)
              => Cardinality(Starters(r)') = Cardinality(Starters(r)) - 1
    BY <1>2, <1>4, CountsApart
  <1>9. /\ (EndedOf(proc[p], r) <=> EndedOf(x, r))
              => Cardinality(Ended(r)') = Cardinality(Ended(r))
        /\ EndedOf(proc[p], r) /\ ~EndedOf(x, r)
              => Cardinality(Ended(r)') = Cardinality(Ended(r)) - 1
        /\ ~EndedOf(proc[p], r) /\ EndedOf(x, r)
              => Cardinality(Ended(r)') = Cardinality(Ended(r)) + 1
    BY <1>2, <1>5, CountsApart
  <1> QED BY <1>6, <1>7, <1>8, <1>9

(* One that keeps its row, or loses it to a fault, begins nothing but where *)
(* nothing succeeded, and takes nothing back.                               *)
LEMMA QuietStep ==
  ASSUME Inv, TypeOK', NEW p \in Processes, NEW x \in Process,
         Moves(p, x), p \in Workers => Resting(x), UNCHANGED <<running, success>>,
         \A r \in References :
            /\ RowOf(x, r) => RowOf(proc[p], r)
            /\ faults' = 0 => faults = 0 /\ (RowOf(proc[p], r) => RowOf(x, r))
            /\ StarterOf(x, r) => StarterOf(proc[p], r) \/ success[r] = 0
            /\ EndedOf(x, r) => EndedOf(proc[p], r)
  PROVE  Inv'
  <1>1. \A w \in Workers : Resting(proc'[w])
    BY DEF Inv, TypeOK, Moves, Processes
  <1>2. ASSUME NEW r \in References PROVE Accounted(r)' /\ Succeeded(r)'
    <2>1. running[r] \in Nat /\ success[r] \in Nat
      BY DEF Inv, TypeOK
    <2>2. Accounted(r) /\ Succeeded(r)
      BY DEF Inv
    <2>3. Accounted(r)'
      <3>1. /\ Cardinality(Rows(r)) \in Nat /\ Cardinality(Rows(r)') \in Nat
            /\ (RowOf(proc[p], r) <=> RowOf(x, r))
                  => Cardinality(Rows(r)') = Cardinality(Rows(r))
            /\ RowOf(proc[p], r) /\ ~RowOf(x, r)
                  => Cardinality(Rows(r)') = Cardinality(Rows(r)) - 1
        BY MoveCounts
      <3>2. /\ RowOf(x, r) => RowOf(proc[p], r)
            /\ faults' = 0 => faults = 0 /\ (RowOf(proc[p], r) => RowOf(x, r))
        OBVIOUS
      <3>3. Cardinality(Rows(r)') <= Cardinality(Rows(r))
        <4>1. CASE RowOf(proc[p], r) <=> RowOf(x, r)
          BY <3>1, <4>1
        <4>2. CASE RowOf(proc[p], r) /\ ~RowOf(x, r)
          BY <3>1, <4>2
        <4> QED BY <3>2, <4>1, <4>2
      <3>4. ASSUME faults' = 0
            PROVE  faults = 0 /\ Cardinality(Rows(r)') = Cardinality(Rows(r))
        BY <3>1, <3>2, <3>4
      <3>5. Cardinality(Rows(r)') <= running[r]
        BY <2>1, <2>2, <3>1, <3>3 DEF Accounted
      <3> QED BY <2>2, <3>4, <3>5 DEF Accounted
    <2>4. Succeeded(r)'
      <3>1. /\ Cardinality(Starters(r)) \in Nat /\ Cardinality(Starters(r)') \in Nat
            /\ Cardinality(Starters(r)') <= Limit /\ Limit \in Nat
            /\ (StarterOf(proc[p], r) <=> StarterOf(x, r))
                  => Cardinality(Starters(r)') = Cardinality(Starters(r))
            /\ StarterOf(proc[p], r) /\ ~StarterOf(x, r)
                  => Cardinality(Starters(r)') = Cardinality(Starters(r)) - 1
        BY MoveCounts
      <3>2. /\ Cardinality(Ended(r)) \in Nat /\ Cardinality(Ended(r)') \in Nat
            /\ (EndedOf(proc[p], r) <=> EndedOf(x, r))
                  => Cardinality(Ended(r)') = Cardinality(Ended(r))
            /\ EndedOf(proc[p], r) /\ ~EndedOf(x, r)
                  => Cardinality(Ended(r)') = Cardinality(Ended(r)) - 1
        BY MoveCounts
      <3>3. Limit' = Limit
        BY DEF Limit
      <3>4. /\ StarterOf(x, r) => StarterOf(proc[p], r) \/ success[r] = 0
            /\ EndedOf(x, r) => EndedOf(proc[p], r)
        OBVIOUS
      <3>5. success[r] + Cardinality(Starters(r)') <= Limit
        <4>1. CASE StarterOf(proc[p], r) <=> StarterOf(x, r)
          BY <2>2, <3>1, <4>1 DEF Succeeded
        <4>2. CASE StarterOf(proc[p], r) /\ ~StarterOf(x, r)
          BY <2>1, <2>2, <3>1, <4>2 DEF Succeeded
        <4>3. CASE success[r] = 0
          BY <3>1, <4>3
        <4> QED BY <3>4, <4>1, <4>2, <4>3
      <3>6. Cardinality(Ended(r)') <= success[r]
        <4>1. CASE EndedOf(proc[p], r) <=> EndedOf(x, r)
          BY <2>2, <3>2, <4>1 DEF Succeeded
        <4>2. CASE EndedOf(proc[p], r) /\ ~EndedOf(x, r)
          BY <2>1, <2>2, <3>2, <4>2 DEF Succeeded
        <4> QED BY <3>4, <4>1, <4>2
      <3> QED BY <3>3, <3>5, <3>6 DEF Succeeded
    <2> QED BY <2>3, <2>4
  <1> QED BY <1>1, <1>2 DEF Inv

LEMMA InitInv == Init => Inv
  <1> SUFFICES ASSUME Init PROVE Inv
    OBVIOUS
  <1>1. \A p \in Processes : proc[p] \in Process /\ proc[p].at = "idle"
    BY WorkerAssumption DEF Init, Down, Process, Phases, Steps, JobNames, Periods
  <1>2. proc \in [Processes -> Process]
    BY <1>1 DEF Init
  <1>3. <<"open", 0>> \in References /\ 0 \in Periods
    BY WorkerAssumption DEF References, JobNames, Periods
  <1>4. TypeOK
    <2>1. waiting \in [Schedules -> SUBSET (1..Attempts)]
      BY DEF Init
    <2>2. running \in [References -> Nat] /\ success \in [References -> Nat]
      BY DEF Init
    <2>3. due \subseteq References
      BY <1>3 DEF Init
    <2>4. 0 \in 0..MaxFaults /\ 0 \in 0..MaxDeploys
      BY WorkerAssumption
    <2> QED BY <1>2, <1>3, <2>1, <2>2, <2>3, <2>4 DEF Init, TypeOK
  <1>5. ASSUME NEW r \in References PROVE Accounted(r) /\ Succeeded(r)
    <2>1. Rows(r) = {} /\ Starters(r) = {} /\ Ended(r) = {}
      BY <1>1 DEF Rows, Starters, Ended, RowOf, StarterOf, EndedOf
    <2>2. running[r] = 0 /\ success[r] = 0
      BY DEF Init
    <2>3. Limit \in Nat
      BY Counts
    <2> QED BY <2>1, <2>2, <2>3, FS_EmptySet DEF Accounted, Succeeded
  <1> QED BY <1>1, <1>4, <1>5 DEF Inv, Resting, Processes

-----------------------------------------------------------------------------
(* The types, action by action.                                             *)
LEMMA RefType ==
  ASSUME TypeOK, NEW p \in Processes
  PROVE  Ref(p) \in References /\ Work(proc[p].name, proc[p].period) \in References
  <1>1. proc[p].name \in JobNames /\ proc[p].period \in Periods
    BY DEF TypeOK, Process
  <1>2. 0 \in Periods /\ "ensure" \in JobNames
    BY WorkerAssumption DEF Periods, JobNames, Monthly
  <1> QED BY <1>1, <1>2 DEF Ref, Work, Reference, References

LEMMA MoveType ==
  ASSUME TypeOK, NEW p \in Processes, NEW x \in Process, Moves(p, x)
  PROVE  proc' \in [Processes -> Process] /\ proc'[p] = x
  BY DEF TypeOK, Moves

(* A step within a run.                                                     *)
LEMMA GoMoves ==
  ASSUME TypeOK, NEW p \in Processes, NEW step \in Steps, Go(p, step)
  PROVE  /\ proc'[p] \in Process /\ Moves(p, proc'[p])
         /\ proc' \in [Processes -> Process]
         /\ proc'[p].at = step /\ proc'[p].phase = proc[p].phase
         /\ proc'[p].name = proc[p].name /\ proc'[p].period = proc[p].period
         /\ Reference(proc'[p].name, proc'[p].period) = Ref(p)
  <1> DEFINE x == [proc[p] EXCEPT !.at = step]
  <1>1. proc[p] \in Process /\ x \in Process
    BY DEF TypeOK, Process
  <1>2. /\ x.at = step /\ x.phase = proc[p].phase
        /\ x.name = proc[p].name /\ x.period = proc[p].period
    BY <1>1 DEF Process
  <1>3. proc'[p] = x /\ proc' \in [Processes -> Process] /\ Moves(p, x)
    BY <1>1 DEF Go, TypeOK, Moves
  <1> QED BY <1>1, <1>2, <1>3 DEF Ref

(* A job begins.                                                            *)
LEMMA BeginMoves ==
  ASSUME TypeOK, NEW p \in Processes, NEW n \in JobNames, NEW k \in 0..Attempts,
         Begin(p, n, k)
  PROVE  /\ proc'[p] \in Process /\ Moves(p, proc'[p])
         /\ proc' \in [Processes -> Process]
         /\ proc'[p].at \in {"completed", "check"} /\ proc'[p].phase = proc[p].phase
  <1> DEFINE step == IF n = "open" /\ Reference(n, period) \notin due
                     THEN "completed" ELSE "check"
             x == [proc[p] EXCEPT !.at = step, !.name = n, !.period = period,
                                  !.attempt = k]
  <1>1. proc[p] \in Process /\ period \in Periods
    BY DEF TypeOK
  <1>2. step \in {"completed", "check"} /\ step \in Steps
    BY DEF Steps
  <1> HIDE DEF step
  <1>3. x \in Process /\ x.at = step /\ x.phase = proc[p].phase
    BY <1>1, <1>2 DEF Process
  <1>4. proc' = [proc EXCEPT ![p] = x]
    BY <1>1 DEF Begin, step, TypeOK, Process
  <1>5. proc'[p] = x /\ proc' \in [Processes -> Process]
    BY <1>3, <1>4 DEF TypeOK
  <1> QED BY <1>2, <1>3, <1>4, <1>5 DEF Moves

(* A process enters a phase, or is down.                                    *)
LEMMA PhaseMoves ==
  ASSUME TypeOK, NEW p \in Processes, NEW phase \in Phases,
         \/ proc' = [proc EXCEPT ![p].phase = phase]
         \/ proc' = [proc EXCEPT ![p] = [Down EXCEPT !.phase = phase]]
  PROVE  /\ proc'[p] \in Process /\ Moves(p, proc'[p])
         /\ proc' \in [Processes -> Process]
         /\ proc'[p].at \in {"idle", proc[p].at} /\ proc'[p].phase = phase
         /\ \A r : RowOf(proc'[p], r) => RowOf(proc[p], r)
         /\ \A r : StarterOf(proc'[p], r) => StarterOf(proc[p], r)
         /\ \A r : EndedOf(proc'[p], r) => EndedOf(proc[p], r)
  <1>1. proc[p] \in Process
    BY DEF TypeOK
  <1>2. CASE proc' = [proc EXCEPT ![p].phase = phase]
    <2> DEFINE x == [proc[p] EXCEPT !.phase = phase]
    <2>1. /\ x \in Process /\ x.at = proc[p].at /\ x.phase = phase
          /\ x.name = proc[p].name /\ x.period = proc[p].period
      BY <1>1 DEF Process
    <2>2. proc'[p] = x /\ Moves(p, x) /\ proc' \in [Processes -> Process]
      BY <1>2, <2>1 DEF TypeOK, Moves
    <2> QED BY <2>1, <2>2 DEF RowOf, StarterOf, EndedOf
  <1>3. CASE proc' = [proc EXCEPT ![p] = [Down EXCEPT !.phase = phase]]
    <2> DEFINE x == [Down EXCEPT !.phase = phase]
    <2>1. x \in Process /\ x.at = "idle" /\ x.phase = phase
      BY WorkerAssumption DEF Process, Down, Steps, JobNames, Periods
    <2>2. proc'[p] = x /\ Moves(p, x) /\ proc' \in [Processes -> Process]
      BY <1>3, <2>1 DEF TypeOK, Moves
    <2> QED BY <2>1, <2>2 DEF RowOf, StarterOf, EndedOf
  <1> QED BY <1>2, <1>3

(* The line of a job that returns to it.                                    *)
LEMMA WaitingType ==
  ASSUME TypeOK, NEW n \in JobNames, NEW k \in 1..Attempts
  PROVE  [waiting EXCEPT ![n] = @ \cup {k}] \in [Schedules -> SUBSET (1..Attempts)]
  BY DEF TypeOK
LEMMA RegainedType ==
  ASSUME TypeOK, NEW p \in Processes
  PROVE  /\ Requeued(p) \in [Schedules -> SUBSET (1..Attempts)]
         /\ proc[p].attempt > 0 => Regained(p) \in [Schedules -> SUBSET (1..Attempts)]
  <1>1. proc[p].name \in JobNames /\ proc[p].attempt \in 0..Attempts
    BY DEF TypeOK, Process
  <1>2. Attempts \in Nat
    BY WorkerAssumption
  <1>3. waiting \in [Schedules -> SUBSET (1..Attempts)]
    BY DEF TypeOK
  <1>4. ASSUME proc[p].attempt \in 1..(Attempts - 1)
        PROVE  [waiting EXCEPT ![proc[p].name] = @ \cup {proc[p].attempt + 1}]
                  \in [Schedules -> SUBSET (1..Attempts)]
    <2>1. proc[p].attempt + 1 \in 1..Attempts
      BY <1>2, <1>4
    <2> QED BY <1>1, <2>1, WaitingType
  <1>5. ASSUME proc[p].attempt > 0
        PROVE  Regained(p) \in [Schedules -> SUBSET (1..Attempts)]
    <2>1. proc[p].attempt \in 1..Attempts
      BY <1>1, <1>2, <1>5
    <2> QED BY <1>1, <2>1, WaitingType DEF Regained
  <1>6. Requeued(p) \in [Schedules -> SUBSET (1..Attempts)]
    BY <1>3, <1>4 DEF Requeued
  <1> QED BY <1>5, <1>6

-----------------------------------------------------------------------------
(* The world, which touches neither process nor execution.                  *)
LEMMA CalmStep ==
  ASSUME Inv, TypeOK', UNCHANGED <<proc, running, success, faults>>
  PROVE  Inv'
  BY DEF Inv, Accounted, Succeeded, Rows, Starters, Ended, Limit

LEMMA WorldKeeps ==
  ASSUME Inv, \/ SweepIsDue \/ NextPeriod \/ ADay \/ RedisDown \/ RedisUp
              \/ \E r \in References : HalfAnHour(r)
              \/ \E n \in Schedules : Schedule(n)
              \/ UNCHANGED vars
  PROVE  Inv'
  <1>1. TypeOK
    BY DEF Inv
  <1>2. MaxPeriod \in Nat /\ MaxDeploys \in Nat /\ 1 \in 1..Attempts
    BY WorkerAssumption
  <1>3. CASE SweepIsDue
    <2>1. <<"sweep", 0>> \in References
      BY <1>2 DEF References, JobNames, Periods
    <2>2. TypeOK'
      BY <1>1, <1>3, <2>1 DEF TypeOK, SweepIsDue, queue, executions, bounds
    <2> QED BY <1>3, <2>2, CalmStep DEF SweepIsDue, executions, bounds
  <1>4. CASE NextPeriod
    <2>1. period' \in Periods
      BY <1>1, <1>2, <1>4 DEF TypeOK, NextPeriod, Periods
    <2>2. <<"ensure", period + 1>> \in References
      BY <1>4, <2>1 DEF References, JobNames, Monthly, NextPeriod
    <2>3. TypeOK'
      BY <1>1, <1>4, <2>1, <2>2 DEF TypeOK, NextPeriod, queue, executions, bounds
    <2> QED BY <1>4, <2>3, CalmStep DEF NextPeriod, executions, bounds
  <1>5. CASE ADay
    <2>1. TypeOK'
      BY <1>1, <1>5 DEF TypeOK, ADay, queue, bounds
    <2> QED BY <1>5, <2>1, CalmStep DEF ADay, bounds
  <1>6. CASE RedisDown
    <2>1. deploys' \in 0..MaxDeploys
      BY <1>1, <1>2, <1>6 DEF TypeOK, RedisDown, Deploy
    <2>2. TypeOK'
      BY <1>1, <1>6, <2>1 DEF TypeOK, RedisDown, Deploy, executions
    <2> QED BY <1>6, <2>2, CalmStep DEF RedisDown, Deploy, executions
  <1>7. CASE RedisUp
    <2>1. TypeOK'
      BY <1>1, <1>7 DEF TypeOK, RedisUp, executions, bounds
    <2> QED BY <1>7, <2>1, CalmStep DEF RedisUp, executions, bounds
  <1>8. ASSUME NEW r \in References, HalfAnHour(r) PROVE Inv'
    <2>1. TypeOK'
      BY <1>1, <1>8 DEF TypeOK, HalfAnHour, queue, bounds
    <2> QED BY <1>8, <2>1, CalmStep DEF HalfAnHour, bounds
  <1>9. ASSUME NEW n \in Schedules, Schedule(n) PROVE Inv'
    <2>1. waiting' \in [Schedules -> SUBSET (1..Attempts)]
      BY <1>1, <1>2, <1>9 DEF TypeOK, Schedule
    <2>2. TypeOK'
      BY <1>1, <1>9, <2>1 DEF TypeOK, Schedule, executions, bounds
    <2> QED BY <1>9, <2>2, CalmStep DEF Schedule, executions, bounds
  <1>10. CASE UNCHANGED vars
    <2>1. TypeOK'
      BY <1>1, <1>10 DEF TypeOK, vars
    <2> QED BY <1>10, <2>1, CalmStep DEF vars
  <1> QED BY <1>3, <1>4, <1>5, <1>6, <1>7, <1>8, <1>9, <1>10

-----------------------------------------------------------------------------
(* The worker around its runs.                                              *)
LEMMA WorkerKeeps ==
  ASSUME Inv, NEW w \in Workers, WorkerStep(w) \/ Terminate(w) \/ LoseLock(w)
  PROVE  Inv'
  <1>1. TypeOK /\ w \in Processes /\ proc[w] \in Process /\ Resting(proc[w])
    BY DEF Inv, TypeOK, Processes
  <1>2. MaxFaults \in Nat /\ MaxDeploys \in Nat
    BY WorkerAssumption
  <1>3. CASE Start(w)
    <2>1. proc' = [proc EXCEPT ![w].phase = "starting"] /\ "starting" \in Phases
      BY <1>3 DEF Start, Phases
    <2>2. /\ proc'[w] \in Process /\ Moves(w, proc'[w])
          /\ proc' \in [Processes -> Process]
          /\ proc'[w].at \in {"idle", proc[w].at}
          /\ \A r : RowOf(proc'[w], r) => RowOf(proc[w], r)
          /\ \A r : StarterOf(proc'[w], r) => StarterOf(proc[w], r)
          /\ \A r : EndedOf(proc'[w], r) => EndedOf(proc[w], r)
      BY <1>1, <2>1, PhaseMoves
    <2>3. proc[w].at = "idle"
      BY <1>1, <1>3 DEF Start, Resting
    <2>4. Resting(proc'[w]) /\ \A r : ~RowOf(proc[w], r)
      BY <2>2, <2>3 DEF Resting, RowOf
    <2>5. TypeOK' /\ UNCHANGED <<running, success, faults>>
      BY <1>1, <1>3, <2>2 DEF TypeOK, Start, queue, executions, bounds
    <2> QED BY <1>1, <2>2, <2>4, <2>5, QuietStep
  <1>4. CASE RegisterSchedules(w)
    <2> DEFINE x == [proc[w] EXCEPT !.phase = "reconcile", !.at = "check",
                                    !.name = "reconcile", !.period = period]
    <2>1. /\ x \in Process /\ x.at = "check" /\ x.phase = "reconcile"
          /\ Moves(w, x)
      BY <1>1, <1>4 DEF RegisterSchedules, Moves, TypeOK, Process, Phases, Steps,
                        JobNames, Monthly
    <2> HIDE DEF x
    <2>2. proc' \in [Processes -> Process]
      BY <1>1, <2>1, MoveType
    <2>3. proc[w].at = "idle"
      BY <1>1, <1>4 DEF RegisterSchedules, Resting
    <2>4. /\ Resting(x) /\ \A r : ~RowOf(proc[w], r) /\ ~RowOf(x, r)
          /\ \A r : ~StarterOf(x, r) /\ ~EndedOf(x, r)
      BY <2>1, <2>3 DEF Resting, RowOf, StarterOf, EndedOf
    <2>5. TypeOK' /\ UNCHANGED <<running, success, faults>>
      BY <1>1, <1>4, <2>2 DEF TypeOK, RegisterSchedules, executions, bounds
    <2> QED BY <1>1, <2>1, <2>4, <2>5, QuietStep
  <1>5. CASE Exit(w)
    <2>1. /\ proc' = [proc EXCEPT ![w] = [Down EXCEPT !.phase = "down"]]
          /\ "down" \in Phases /\ proc[w].at = "idle"
      BY <1>5 DEF Exit, Drained, At, Down, Phases
    <2>2. /\ proc'[w] \in Process /\ Moves(w, proc'[w])
          /\ proc' \in [Processes -> Process]
          /\ proc'[w].at \in {"idle", proc[w].at}
          /\ \A r : RowOf(proc'[w], r) => RowOf(proc[w], r)
          /\ \A r : StarterOf(proc'[w], r) => StarterOf(proc[w], r)
          /\ \A r : EndedOf(proc'[w], r) => EndedOf(proc[w], r)
      BY <1>1, <2>1, PhaseMoves
    <2>3. Resting(proc'[w]) /\ \A r : ~RowOf(proc[w], r)
      BY <2>1, <2>2 DEF Resting, RowOf
    <2>4. TypeOK' /\ UNCHANGED <<running, success, faults>>
      BY <1>1, <1>5, <2>2 DEF TypeOK, Exit, queue, executions, bounds
    <2> QED BY <1>1, <2>2, <2>3, <2>4, QuietStep
  <1>6. CASE Terminate(w)
    <2> DEFINE x == [proc[w] EXCEPT !.phase = "closing"]
    <2>1. /\ x \in Process /\ x.at = proc[w].at /\ x.phase = "closing"
          /\ x.name = proc[w].name /\ x.period = proc[w].period /\ Moves(w, x)
      BY <1>1, <1>6 DEF Terminate, Moves, TypeOK, Process, Phases
    <2> HIDE DEF x
    <2>2. proc' \in [Processes -> Process]
      BY <1>1, <2>1, MoveType
    <2>3. /\ Resting(x) /\ \A r : RowOf(x, r) <=> RowOf(proc[w], r)
          /\ \A r : StarterOf(x, r) <=> StarterOf(proc[w], r)
          /\ \A r : EndedOf(x, r) <=> EndedOf(proc[w], r)
      BY <2>1 DEF Resting, RowOf, StarterOf, EndedOf
    <2>4. deploys' \in 0..MaxDeploys
      BY <1>1, <1>2, <1>6 DEF TypeOK, Terminate, Deploy
    <2>5. TypeOK' /\ UNCHANGED <<running, success, faults>>
      BY <1>1, <1>6, <2>2, <2>4 DEF TypeOK, Terminate, Deploy, queue, executions
    <2> QED BY <1>1, <2>1, <2>3, <2>5, QuietStep
  <1>7. CASE LoseLock(w)
    <2> DEFINE x == [proc[w] EXCEPT !.attempt = 0]
    <2>1. /\ x \in Process /\ x.at = proc[w].at /\ x.phase = proc[w].phase
          /\ x.name = proc[w].name /\ x.period = proc[w].period /\ Moves(w, x)
      BY <1>1, <1>7, WorkerAssumption DEF LoseLock, Moves, TypeOK, Process
    <2> HIDE DEF x
    <2>2. proc' \in [Processes -> Process]
      BY <1>1, <2>1, MoveType
    <2>3. /\ Resting(x) /\ \A r : RowOf(x, r) <=> RowOf(proc[w], r)
          /\ \A r : StarterOf(x, r) <=> StarterOf(proc[w], r)
          /\ \A r : EndedOf(x, r) <=> EndedOf(proc[w], r)
      BY <1>1, <2>1 DEF Resting, RowOf, StarterOf, EndedOf
    <2>4. faults' \in 0..MaxFaults /\ faults' # 0
      BY <1>1, <1>2, <1>7 DEF TypeOK, LoseLock, Fault
    <2>5. waiting' \in [Schedules -> SUBSET (1..Attempts)]
      BY <1>1, <1>7, RegainedType DEF LoseLock
    <2>6. TypeOK' /\ UNCHANGED <<running, success>>
      BY <1>1, <1>7, <2>2, <2>4, <2>5 DEF TypeOK, LoseLock, Fault, executions
    <2> QED BY <1>1, <2>1, <2>3, <2>4, <2>6, QuietStep
  <1> QED BY <1>3, <1>4, <1>5, <1>6, <1>7 DEF WorkerStep

-----------------------------------------------------------------------------
(* The beginning and the end of a run.                                      *)
LEMMA BeginKeeps ==
  ASSUME Inv, NEW p \in Processes, NEW n \in JobNames, NEW k \in 0..Attempts,
         Begin(p, n, k), At(p, "idle"), p \in Workers => proc[p].phase = "serving",
         TypeOK', UNCHANGED <<running, success, faults>>
  PROVE  Inv'
  <1>1. TypeOK
    BY DEF Inv
  <1>2. /\ proc'[p] \in Process /\ Moves(p, proc'[p])
        /\ proc'[p].at \in {"completed", "check"} /\ proc'[p].phase = proc[p].phase
    BY <1>1, BeginMoves
  <1>3. /\ \A r : ~RowOf(proc'[p], r) /\ ~RowOf(proc[p], r)
        /\ \A r : ~StarterOf(proc'[p], r) /\ ~EndedOf(proc'[p], r)
    BY <1>2 DEF At, RowOf, StarterOf, EndedOf
  <1>4. p \in Workers => Resting(proc'[p])
    BY <1>2 DEF Resting
  <1> QED BY <1>2, <1>3, <1>4, QuietStep

LEMMA TakeJobKeeps ==
  ASSUME Inv, NEW w \in Workers, NEW n \in Schedules, NEW k \in 1..Attempts,
         TakeJob(w, n, k)
  PROVE  Inv'
  <1>1. TypeOK /\ w \in Processes /\ n \in JobNames /\ k \in 0..Attempts
    BY WorkerAssumption DEF Inv, Processes
  <1>2. proc' \in [Processes -> Process]
    BY <1>1, BeginMoves DEF TakeJob
  <1>3. waiting' \in [Schedules -> SUBSET (1..Attempts)]
    BY <1>1 DEF TypeOK, TakeJob
  <1>4. TypeOK' /\ UNCHANGED <<running, success, faults>>
    BY <1>1, <1>2, <1>3 DEF TypeOK, TakeJob, executions, bounds
  <1> QED BY <1>1, <1>4, BeginKeeps DEF TakeJob

LEMMA CallRouteKeeps ==
  ASSUME Inv, NEW c \in Calls, NEW n \in Routes, CallRoute(c, n)
  PROVE  Inv'
  <1>1. TypeOK /\ c \in Processes /\ c \notin Workers /\ n \in JobNames /\ 0 \in 0..Attempts
    BY WorkerAssumption DEF Inv, Processes
  <1>2. proc' \in [Processes -> Process]
    BY <1>1, BeginMoves DEF CallRoute
  <1>3. TypeOK' /\ UNCHANGED <<running, success, faults>>
    BY <1>1, <1>2 DEF TypeOK, CallRoute, queue, executions, bounds
  <1> QED BY <1>1, <1>3, BeginKeeps DEF CallRoute

LEMMA AnswerKeeps ==
  ASSUME Inv, NEW p \in Processes, Answer(p)
  PROVE  Inv'
  <1> DEFINE phase == IF proc[p].phase = "closing" THEN "closing" ELSE "serving"
  <1>1. TypeOK /\ phase \in {"closing", "serving"} /\ phase \in Phases
    BY DEF Inv, Phases
  <1>2. proc' = [proc EXCEPT ![p] = [Down EXCEPT !.phase = phase]]
    BY DEF Answer
  <1> HIDE DEF phase
  <1>3. /\ proc'[p] \in Process /\ Moves(p, proc'[p])
        /\ proc' \in [Processes -> Process] /\ proc'[p].phase = phase
        /\ \A r : RowOf(proc'[p], r) => RowOf(proc[p], r)
        /\ \A r : StarterOf(proc'[p], r) => StarterOf(proc[p], r)
        /\ \A r : EndedOf(proc'[p], r) => EndedOf(proc[p], r)
    BY <1>1, <1>2, PhaseMoves
  <1>4. Resting(proc'[p]) /\ \A r : ~RowOf(proc[p], r)
    BY <1>1, <1>3 DEF Answer, Resting, RowOf
  <1>5. waiting' \in [Schedules -> SUBSET (1..Attempts)]
    BY <1>1, RegainedType DEF Answer
  <1>6. TypeOK' /\ UNCHANGED <<running, success, faults>>
    BY <1>1, <1>3, <1>5 DEF TypeOK, Answer, executions, bounds
  <1> QED BY <1>3, <1>4, <1>6, QuietStep

LEMMA DieKeeps ==
  ASSUME Inv, NEW p \in Processes, Die(p)
  PROVE  Inv'
  <1> DEFINE phase == IF p \in Workers THEN "down" ELSE "serving"
  <1>1. TypeOK /\ phase \in Phases
    BY DEF Inv, Phases
  <1>2. proc' = [proc EXCEPT ![p] = [Down EXCEPT !.phase = phase]]
    <2>1. Down = [Down EXCEPT !.phase = "down"]
      BY DEF Down
    <2> QED BY <2>1 DEF Die
  <1> HIDE DEF phase
  <1>3. /\ proc'[p] \in Process /\ Moves(p, proc'[p])
        /\ proc' \in [Processes -> Process]
        /\ \A r : RowOf(proc'[p], r) => RowOf(proc[p], r)
        /\ \A r : StarterOf(proc'[p], r) => StarterOf(proc[p], r)
        /\ \A r : EndedOf(proc'[p], r) => EndedOf(proc[p], r)
    BY <1>1, <1>2, PhaseMoves
  <1>4. proc'[p].at = "idle"
    BY <1>1, <1>2, <1>3 DEF TypeOK, Down
  <1>5. p \in Workers => Resting(proc'[p])
    BY <1>4 DEF Resting
  <1>6. faults' \in 0..MaxFaults /\ faults' # 0
    BY <1>1, WorkerAssumption DEF TypeOK, Die, Fault
  <1>7. waiting' \in [Schedules -> SUBSET (1..Attempts)]
    BY <1>1, RegainedType DEF TypeOK, Die
  <1>8. TypeOK' /\ UNCHANGED <<running, success>>
    BY <1>1, <1>3, <1>6, <1>7 DEF TypeOK, Die, Fault, executions
  <1> QED BY <1>3, <1>5, <1>6, <1>8, QuietStep

-----------------------------------------------------------------------------
(* Within a run.                                                            *)
WithRow == {"started", "run", "finish", "fail"}
(* Where an execution has begun and not ended.                             *)
Started == {"create", "started", "run", "finish"}

LEMMA GoKeeps ==
  ASSUME Inv, TypeOK', NEW p \in Processes, NEW step \in Steps, Go(p, step),
         ~At(p, "idle"), UNCHANGED <<running, success>>,
         step # "finished", step \in WithRow => proc[p].at \in WithRow,
         faults' = 0 => faults = 0 /\ (proc[p].at \in WithRow => step \in WithRow),
         step \in Started => \/ proc[p].at \in Started
                             \/ Repeats(proc[p].name)
                             \/ success[Ref(p)] = 0
  PROVE  Inv'
  <1>1. TypeOK
    BY DEF Inv
  <1>2. /\ proc'[p] \in Process /\ Moves(p, proc'[p])
        /\ proc'[p].at = step /\ proc'[p].phase = proc[p].phase
        /\ proc'[p].name = proc[p].name /\ proc'[p].period = proc[p].period
    BY <1>1, GoMoves
  <1>3. p \in Workers => Resting(proc'[p])
    BY <1>2 DEF Inv, Resting, At
  <1>4. ASSUME NEW r \in References
        PROVE  /\ RowOf(proc'[p], r) => RowOf(proc[p], r)
               /\ faults' = 0 => faults = 0 /\ (RowOf(proc[p], r) => RowOf(proc'[p], r))
               /\ StarterOf(proc'[p], r) => StarterOf(proc[p], r) \/ success[r] = 0
               /\ EndedOf(proc'[p], r) => EndedOf(proc[p], r)
    <2>1. RowOf(proc'[p], r) => RowOf(proc[p], r)
      BY <1>2 DEF RowOf, WithRow
    <2>2. faults' = 0 => faults = 0 /\ (RowOf(proc[p], r) => RowOf(proc'[p], r))
      BY <1>2 DEF RowOf, WithRow
    <2>3. StarterOf(proc'[p], r) => StarterOf(proc[p], r) \/ success[r] = 0
      BY <1>2 DEF StarterOf, Started, Ref
    <2>4. ~EndedOf(proc'[p], r)
      BY <1>2 DEF EndedOf
    <2> QED BY <2>1, <2>2, <2>3, <2>4
  <1> QED BY <1>2, <1>3, <1>4, QuietStep

LEMMA CheckKeeps ==
  ASSUME Inv, NEW p \in Processes, Check(p)
  PROVE  Inv'
  <1>1. TypeOK
    BY DEF Inv
  <1> DEFINE step == IF running[Ref(p)] > 0 THEN "failed"
                     ELSE IF AlreadyDone(p) THEN "completed" ELSE "create"
  <1>2. /\ step \in {"failed", "completed", "create"}
        /\ step = "create" => Repeats(proc[p].name) \/ ~(success[Ref(p)] > 0)
    BY DEF AlreadyDone
  <1>3. Go(p, step)
    BY DEF Check
  <1> HIDE DEF step
  <1>4. Ref(p) \in References /\ success[Ref(p)] \in Nat
    BY <1>1, RefType DEF TypeOK
  <1>5. /\ step \in Steps /\ step # "finished" /\ step \notin WithRow
        /\ step \in Started => step = "create"
    BY <1>2 DEF Steps, WithRow, Started
  <1>6. step \in Started => Repeats(proc[p].name) \/ success[Ref(p)] = 0
    BY <1>2, <1>4, <1>5
  <1>7. proc' \in [Processes -> Process]
    BY <1>1, <1>3, <1>5, GoMoves
  <1>8. TypeOK' /\ UNCHANGED <<running, success, faults>>
    BY <1>1, <1>7 DEF TypeOK, Check, queue, executions, bounds
  <1>9. ~At(p, "idle") /\ proc[p].at \notin WithRow
    BY DEF Check, At, WithRow
  <1> QED BY <1>3, <1>5, <1>6, <1>8, <1>9, GoKeeps

LEMMA RunKeeps ==
  ASSUME Inv, NEW p \in Processes,
         AuditStart(p) \/ Run(p) \/ SweepLogsError(p) \/ RunThrows(p) \/ AuditFinish(p)
  PROVE  Inv'
  <1>1. TypeOK
    BY DEF Inv
  <1>2. CASE AuditStart(p)
    <2>1. Go(p, "run") /\ "run" \in Steps /\ proc[p].at = "started"
      BY <1>2 DEF AuditStart, Steps, At
    <2>2. proc' \in [Processes -> Process]
      BY <1>1, <2>1, GoMoves
    <2>3. TypeOK' /\ UNCHANGED <<running, success, faults>>
      BY <1>1, <1>2, <2>2 DEF TypeOK, AuditStart, queue, executions, bounds
    <2> QED BY <2>1, <2>3, GoKeeps DEF At, WithRow, Started
  <1>3. CASE Run(p)
    <2>1. Go(p, "finish") /\ "finish" \in Steps /\ proc[p].at = "run"
      BY <1>3 DEF Run, Steps, At
    <2>2. proc' \in [Processes -> Process]
      BY <1>1, <2>1, GoMoves
    <2>3. TypeOK' /\ UNCHANGED <<running, success, faults>>
      BY <1>1, <1>3, <2>2 DEF TypeOK, Run, queue, executions, bounds
    <2> QED BY <2>1, <2>3, GoKeeps DEF At, WithRow, Started
  <1>4. CASE RunThrows(p)
    <2>1. Go(p, "fail") /\ "fail" \in Steps /\ proc[p].at = "run"
      BY <1>4 DEF RunThrows, Steps, At
    <2>2. proc' \in [Processes -> Process]
      BY <1>1, <2>1, GoMoves
    <2>3. TypeOK' /\ UNCHANGED <<running, success, faults>>
      BY <1>1, <1>4, <2>2 DEF TypeOK, RunThrows, queue, executions, bounds
    <2> QED BY <2>1, <2>3, GoKeeps DEF At, WithRow, Started
  <1>5. CASE AuditFinish(p)
    <2>1. Go(p, "completed") /\ "completed" \in Steps /\ proc[p].at = "finished"
      BY <1>5 DEF AuditFinish, Steps, At
    <2>2. proc' \in [Processes -> Process]
      BY <1>1, <2>1, GoMoves
    <2>3. TypeOK' /\ UNCHANGED <<running, success, faults>>
      BY <1>1, <1>5, <2>2 DEF TypeOK, AuditFinish, queue, executions, bounds
    <2> QED BY <2>1, <2>3, GoKeeps DEF At, WithRow, Started
  <1>6. CASE SweepLogsError(p)
    <2>1. Go(p, "finish") /\ "finish" \in Steps /\ proc[p].at = "run"
      BY <1>6 DEF SweepLogsError, Steps, At
    <2>2. proc' \in [Processes -> Process]
      BY <1>1, <2>1, GoMoves
    <2>3. TypeOK' /\ UNCHANGED <<running, success, faults>>
      BY <1>1, <1>6, <2>2 DEF TypeOK, SweepLogsError, queue, executions, bounds
    <2> QED BY <2>1, <2>3, GoKeeps DEF At, WithRow, Started
  <1> QED BY <1>2, <1>3, <1>4, <1>5, <1>6

-----------------------------------------------------------------------------
(* The steps that write an execution write that of their own reference.     *)
LEMMA OneReference ==
  ASSUME Inv, TypeOK', NEW p \in Processes, NEW step \in Steps, Go(p, step),
         ~At(p, "idle"), faults' = 0 => faults = 0, NEW own \in References, own = Ref(p),
         \A r \in References \ {own} : running'[r] = running[r] /\ success'[r] = success[r],
         Accounted(own)', Succeeded(own)'
  PROVE  Inv'
  <1>1. TypeOK
    BY DEF Inv
  <1>2. /\ proc'[p] \in Process /\ Moves(p, proc'[p]) /\ proc' \in [Processes -> Process]
        /\ proc'[p].at = step /\ proc'[p].phase = proc[p].phase
        /\ proc'[p].name = proc[p].name /\ proc'[p].period = proc[p].period
    BY <1>1, GoMoves
  <1>3. \A w \in Workers : Resting(proc'[w])
    BY <1>1, <1>2 DEF Inv, Resting, At, Moves, Processes, TypeOK
  <1>4. ASSUME NEW r \in References, r # own PROVE Accounted(r)' /\ Succeeded(r)'
    <2>1. /\ ~RowOf(proc[p], r) /\ ~RowOf(proc'[p], r)
          /\ ~StarterOf(proc[p], r) /\ ~StarterOf(proc'[p], r)
          /\ ~EndedOf(proc[p], r) /\ ~EndedOf(proc'[p], r)
      BY <1>2, <1>4 DEF RowOf, StarterOf, EndedOf, Ref
    <2>2. /\ Cardinality(Rows(r)') = Cardinality(Rows(r))
          /\ Cardinality(Starters(r)') = Cardinality(Starters(r))
          /\ Cardinality(Ended(r)') = Cardinality(Ended(r))
      BY <1>2, <2>1, MoveCounts
    <2>3. running'[r] = running[r] /\ success'[r] = success[r] /\ Limit' = Limit
      BY <1>4 DEF Limit
    <2>4. Accounted(r) /\ Succeeded(r)
      BY DEF Inv
    <2> QED BY <2>2, <2>3, <2>4 DEF Accounted, Succeeded
  <1> QED BY <1>3, <1>4 DEF Inv

(* What the step of a run makes of the counts of its reference.             *)
LEMMA OwnCounts ==
  ASSUME Inv, NEW p \in Processes, NEW step \in Steps, Go(p, step),
         NEW own \in References, own = Ref(p)
  PROVE  /\ RowOf(proc[p], own) <=> proc[p].at \in WithRow
         /\ RowOf(proc'[p], own) <=> step \in WithRow
         /\ StarterOf(proc[p], own) <=> proc[p].at \in Started /\ ~Repeats(proc[p].name)
         /\ StarterOf(proc'[p], own) <=> step \in Started /\ ~Repeats(proc[p].name)
         /\ EndedOf(proc[p], own) <=> proc[p].at = "finished" /\ ~Repeats(proc[p].name)
         /\ EndedOf(proc'[p], own) <=> step = "finished" /\ ~Repeats(proc[p].name)
         /\ proc'[p] \in Process /\ Moves(p, proc'[p]) /\ proc' \in [Processes -> Process]
         /\ running[own] \in Nat /\ success[own] \in Nat
         /\ Accounted(own) /\ Succeeded(own) /\ Limit' = Limit
  <1>1. TypeOK
    BY DEF Inv
  <1>2. /\ proc'[p] \in Process /\ Moves(p, proc'[p]) /\ proc' \in [Processes -> Process]
        /\ proc'[p].at = step /\ proc'[p].name = proc[p].name
        /\ proc'[p].period = proc[p].period
    BY <1>1, GoMoves
  <1>3. /\ RowOf(proc[p], own) <=> proc[p].at \in WithRow
        /\ RowOf(proc'[p], own) <=> step \in WithRow
    BY <1>2 DEF RowOf, WithRow, Ref
  <1>4. /\ StarterOf(proc[p], own) <=> proc[p].at \in Started /\ ~Repeats(proc[p].name)
        /\ StarterOf(proc'[p], own) <=> step \in Started /\ ~Repeats(proc[p].name)
    BY <1>2 DEF StarterOf, Started, Ref
  <1>5. /\ EndedOf(proc[p], own) <=> proc[p].at = "finished" /\ ~Repeats(proc[p].name)
        /\ EndedOf(proc'[p], own) <=> step = "finished" /\ ~Repeats(proc[p].name)
    BY <1>2 DEF EndedOf, Ref
  <1>6. running[own] \in Nat /\ success[own] \in Nat
    BY <1>1 DEF TypeOK
  <1>7. Accounted(own) /\ Succeeded(own) /\ Limit' = Limit
    BY DEF Inv, Limit
  <1> QED BY <1>2, <1>3, <1>4, <1>5, <1>6, <1>7

(* Its row is found RUNNING.                                                *)
LEMMA CreateKeeps ==
  ASSUME Inv, NEW p \in Processes, Create(p)
  PROVE  Inv'
  <1>1. TypeOK
    BY DEF Inv
  <1>2. PICK own \in References : own = Ref(p)
    BY <1>1, RefType
  <1>3. Go(p, "started") /\ "started" \in Steps /\ proc[p].at = "create"
    BY DEF Create, At, Steps
  <1>4. /\ ~RowOf(proc[p], own) /\ RowOf(proc'[p], own)
        /\ StarterOf(proc[p], own) <=> StarterOf(proc'[p], own)
        /\ ~EndedOf(proc[p], own) /\ ~EndedOf(proc'[p], own)
        /\ proc'[p] \in Process /\ Moves(p, proc'[p]) /\ proc' \in [Processes -> Process]
        /\ running[own] \in Nat /\ success[own] \in Nat
        /\ Accounted(own) /\ Succeeded(own) /\ Limit' = Limit
    BY <1>2, <1>3, OwnCounts DEF WithRow, Started
  <1>5. /\ Cardinality(Rows(own)') = Cardinality(Rows(own)) + 1
        /\ Cardinality(Starters(own)') = Cardinality(Starters(own))
        /\ Cardinality(Ended(own)') = Cardinality(Ended(own))
        /\ Cardinality(Rows(own)) \in Nat
    BY <1>4, MoveCounts
  <1>6. /\ running' = [running EXCEPT ![own] = @ + 1]
        /\ UNCHANGED <<success, faults>>
    BY <1>2 DEF Create, bounds
  <1>7. /\ running'[own] = running[own] + 1
        /\ \A r \in References \ {own} : running'[r] = running[r]
        /\ running' \in [References -> Nat]
    BY <1>1, <1>4, <1>6 DEF TypeOK
  <1>8. TypeOK'
    BY <1>1, <1>4, <1>7 DEF TypeOK, Create, queue, bounds
  <1>9. Accounted(own)'
    BY <1>4, <1>5, <1>6, <1>7 DEF Accounted
  <1>10. Succeeded(own)'
    BY <1>4, <1>5, <1>6 DEF Succeeded
  <1> QED BY <1>2, <1>3, <1>6, <1>7, <1>8, <1>9, <1>10, OneReference DEF At

(* It was RUNNING, with its row counted, so that the count stays natural.   *)
LEMMA OwnRow ==
  ASSUME Inv, NEW p \in Processes, NEW step \in Steps, Go(p, step),
         NEW own \in References, own = Ref(p), proc[p].at \in WithRow, step \notin WithRow
  PROVE  /\ Cardinality(Rows(own)') = Cardinality(Rows(own)) - 1
         /\ Cardinality(Rows(own)) \in Nat /\ Cardinality(Rows(own)') \in Nat
         /\ running[own] - 1 \in Nat
  <1>1. /\ RowOf(proc[p], own) /\ ~RowOf(proc'[p], own)
        /\ proc'[p] \in Process /\ Moves(p, proc'[p])
        /\ running[own] \in Nat /\ Accounted(own)
    BY OwnCounts
  <1>2. /\ Cardinality(Rows(own)') = Cardinality(Rows(own)) - 1
        /\ Cardinality(Rows(own)) \in Nat /\ Cardinality(Rows(own)') \in Nat
    BY <1>1, MoveCounts
  <1>3. running[own] - 1 \in Nat
    BY <1>1, <1>2 DEF Accounted
  <1> QED BY <1>2, <1>3

LEMMA FinishKeeps ==
  ASSUME Inv, NEW p \in Processes, Finish(p)
  PROVE  Inv'
  <1>1. TypeOK
    BY DEF Inv
  <1>2. PICK own \in References : own = Ref(p)
    BY <1>1, RefType
  <1>3. Go(p, "finished") /\ "finished" \in Steps /\ proc[p].at = "finish"
    BY DEF Finish, At, Steps
  <1> DEFINE more == Count(proc[p].name, 1)
  <1>4. /\ more = IF Repeats(proc[p].name) THEN 0 ELSE 1
        /\ more \in Nat
    BY DEF Count
  <1>5. /\ running' = [running EXCEPT ![own] = @ - 1]
        /\ success' = [success EXCEPT ![own] = @ + more]
        /\ UNCHANGED faults
    BY <1>2 DEF Finish, bounds
  <1> HIDE DEF more
  <1>6. /\ proc[p].at \in WithRow /\ "finished" \notin WithRow
        /\ proc[p].at \in Started /\ "finished" \notin Started
    BY <1>3 DEF WithRow, Started
  <1>7. /\ StarterOf(proc[p], own) <=> ~Repeats(proc[p].name)
        /\ ~StarterOf(proc'[p], own) /\ ~EndedOf(proc[p], own)
        /\ EndedOf(proc'[p], own) <=> ~Repeats(proc[p].name)
        /\ proc'[p] \in Process /\ Moves(p, proc'[p]) /\ proc' \in [Processes -> Process]
        /\ running[own] \in Nat /\ success[own] \in Nat
        /\ Accounted(own) /\ Succeeded(own) /\ Limit' = Limit
    BY <1>2, <1>3, <1>6, OwnCounts
  <1>8. /\ Cardinality(Rows(own)') = Cardinality(Rows(own)) - 1
        /\ Cardinality(Rows(own)) \in Nat /\ Cardinality(Rows(own)') \in Nat
        /\ running[own] - 1 \in Nat
    BY <1>2, <1>3, <1>6, OwnRow
  <1>9. /\ Cardinality(Starters(own)') = Cardinality(Starters(own)) - more
        /\ Cardinality(Ended(own)') = Cardinality(Ended(own)) + more
        /\ Cardinality(Starters(own)) \in Nat /\ Cardinality(Starters(own)') \in Nat
        /\ Cardinality(Ended(own)) \in Nat /\ Limit \in Nat
    <2>1. /\ Cardinality(Starters(own)) \in Nat /\ Cardinality(Starters(own)') \in Nat
          /\ Cardinality(Ended(own)) \in Nat /\ Limit \in Nat
      BY <1>7, MoveCounts
    <2>2. CASE Repeats(proc[p].name)
      <3>1. /\ Cardinality(Starters(own)') = Cardinality(Starters(own))
            /\ Cardinality(Ended(own)') = Cardinality(Ended(own))
        BY <1>7, <2>2, MoveCounts
      <3> QED BY <1>4, <2>1, <2>2, <3>1
    <2>3. CASE ~Repeats(proc[p].name)
      <3>1. /\ Cardinality(Starters(own)') = Cardinality(Starters(own)) - 1
            /\ Cardinality(Ended(own)') = Cardinality(Ended(own)) + 1
        BY <1>7, <2>3, MoveCounts
      <3> QED BY <1>4, <2>1, <2>3, <3>1
    <2> QED BY <2>2, <2>3
  <1>10. /\ running'[own] = running[own] - 1 /\ success'[own] = success[own] + more
         /\ \A r \in References \ {own} : running'[r] = running[r] /\ success'[r] = success[r]
         /\ running' \in [References -> Nat] /\ success' \in [References -> Nat]
    BY <1>1, <1>4, <1>5, <1>7, <1>8 DEF TypeOK
  <1>11. TypeOK'
    BY <1>1, <1>7, <1>10 DEF TypeOK, Finish, queue, bounds
  <1>12. Accounted(own)'
    BY <1>5, <1>7, <1>8, <1>10 DEF Accounted
  <1>13. Succeeded(own)'
    BY <1>4, <1>7, <1>9, <1>10 DEF Succeeded
  <1> QED BY <1>2, <1>3, <1>5, <1>10, <1>11, <1>12, <1>13, OneReference DEF At

LEMMA MarkFailedKeeps ==
  ASSUME Inv, NEW p \in Processes, MarkFailed(p)
  PROVE  Inv'
  <1>1. TypeOK
    BY DEF Inv
  <1>2. PICK own \in References : own = Ref(p)
    BY <1>1, RefType
  <1>3. Go(p, "failed") /\ "failed" \in Steps /\ proc[p].at = "fail"
    BY DEF MarkFailed, At, Steps
  <1>4. /\ proc[p].at \in WithRow /\ "failed" \notin WithRow
        /\ proc[p].at \notin Started /\ "failed" \notin Started
    BY <1>3 DEF WithRow, Started
  <1>5. /\ ~StarterOf(proc[p], own) /\ ~StarterOf(proc'[p], own)
        /\ ~EndedOf(proc[p], own) /\ ~EndedOf(proc'[p], own)
        /\ proc'[p] \in Process /\ Moves(p, proc'[p]) /\ proc' \in [Processes -> Process]
        /\ running[own] \in Nat /\ Accounted(own) /\ Succeeded(own) /\ Limit' = Limit
    BY <1>2, <1>3, <1>4, OwnCounts
  <1>6. /\ Cardinality(Rows(own)') = Cardinality(Rows(own)) - 1
        /\ Cardinality(Rows(own)) \in Nat /\ Cardinality(Rows(own)') \in Nat
        /\ running[own] - 1 \in Nat
    BY <1>2, <1>3, <1>4, OwnRow
  <1>7. /\ Cardinality(Starters(own)') = Cardinality(Starters(own))
        /\ Cardinality(Ended(own)') = Cardinality(Ended(own))
    BY <1>5, MoveCounts
  <1>8. /\ running' = [running EXCEPT ![own] = @ - 1]
        /\ UNCHANGED <<success, faults>>
    BY <1>2 DEF MarkFailed, bounds
  <1>9. /\ running'[own] = running[own] - 1
        /\ \A r \in References \ {own} : running'[r] = running[r]
        /\ running' \in [References -> Nat]
    BY <1>1, <1>6, <1>8 DEF TypeOK
  <1>10. TypeOK'
    BY <1>1, <1>5, <1>9 DEF TypeOK, MarkFailed, queue, bounds
  <1>11. Accounted(own)'
    BY <1>5, <1>6, <1>8, <1>9 DEF Accounted
  <1>12. Succeeded(own)'
    BY <1>5, <1>7, <1>8 DEF Succeeded
  <1> QED BY <1>2, <1>3, <1>8, <1>9, <1>10, <1>11, <1>12, OneReference DEF At

LEMMA StatementKeeps ==
  ASSUME Inv, NEW p \in Processes, StatementFails(p)
  PROVE  Inv'
  <1>1. TypeOK /\ MaxFaults \in Nat
    BY WorkerAssumption DEF Inv
  <1>2. faults' \in 0..MaxFaults /\ faults' # 0 /\ deploys' = deploys
    BY <1>1 DEF TypeOK, StatementFails, Fault
  <1>3. CASE proc[p].at \in {"check", "create", "started", "fail"} /\ Go(p, "failed")
             /\ UNCHANGED executions
    <2>1. "failed" \in Steps /\ "failed" \notin WithRow /\ "failed" \notin Started
      BY DEF Steps, WithRow, Started
    <2>2. proc' \in [Processes -> Process]
      BY <1>1, <1>3, <2>1, GoMoves
    <2>3. TypeOK' /\ UNCHANGED <<running, success>>
      BY <1>1, <1>2, <1>3, <2>2 DEF TypeOK, StatementFails, queue, executions
    <2> QED BY <1>2, <1>3, <2>1, <2>3, GoKeeps DEF At
  <1>4. CASE At(p, "finish") /\ Go(p, "fail") /\ UNCHANGED executions
    <2>1. /\ "fail" \in Steps /\ "fail" \notin Started /\ proc[p].at \in WithRow
          /\ proc[p].at = "finish"
      BY <1>4 DEF Steps, WithRow, Started, At
    <2>2. proc' \in [Processes -> Process]
      BY <1>1, <1>4, <2>1, GoMoves
    <2>3. TypeOK' /\ UNCHANGED <<running, success>>
      BY <1>1, <1>2, <1>4, <2>2 DEF TypeOK, StatementFails, queue, executions
    <2> QED BY <1>2, <1>4, <2>1, <2>3, GoKeeps DEF At
  <1>5. CASE /\ At(p, "finished")
             /\ success' = [success EXCEPT ![Ref(p)] = @ - Count(proc[p].name, 1)]
             /\ failed24h' = TRUE /\ Go(p, "failed") /\ UNCHANGED <<running, over30m>>
    <2>1. PICK own \in References : own = Ref(p)
      BY <1>1, RefType
    <2> DEFINE less == Count(proc[p].name, 1)
    <2>2. /\ less = IF Repeats(proc[p].name) THEN 0 ELSE 1
          /\ less \in Nat
      BY DEF Count
    <2>3. success' = [success EXCEPT ![own] = @ - less]
      BY <1>5, <2>1
    <2> HIDE DEF less
    <2>4. /\ "failed" \in Steps /\ proc[p].at = "finished"
          /\ proc[p].at \notin WithRow /\ "failed" \notin WithRow
          /\ proc[p].at \notin Started /\ "failed" \notin Started
      BY <1>5 DEF Steps, WithRow, Started, At
    <2>5. /\ ~RowOf(proc[p], own) /\ ~RowOf(proc'[p], own)
          /\ ~StarterOf(proc[p], own) /\ ~StarterOf(proc'[p], own)
          /\ EndedOf(proc[p], own) <=> ~Repeats(proc[p].name)
          /\ ~EndedOf(proc'[p], own)
          /\ proc'[p] \in Process /\ Moves(p, proc'[p]) /\ proc' \in [Processes -> Process]
          /\ running[own] \in Nat /\ success[own] \in Nat
          /\ Accounted(own) /\ Succeeded(own) /\ Limit' = Limit
      BY <1>5, <2>1, <2>4, OwnCounts
    <2>6. /\ Cardinality(Rows(own)') = Cardinality(Rows(own))
          /\ Cardinality(Starters(own)') = Cardinality(Starters(own))
          /\ Cardinality(Starters(own)) \in Nat /\ Limit \in Nat
          /\ Cardinality(Ended(own)) \in Nat /\ Cardinality(Ended(own)') \in Nat
      BY <2>5, MoveCounts
    <2>7. Cardinality(Ended(own)') = Cardinality(Ended(own)) - less
      <3>1. CASE Repeats(proc[p].name)
        <4>1. Cardinality(Ended(own)') = Cardinality(Ended(own))
          BY <2>5, <3>1, MoveCounts
        <4> QED BY <2>2, <2>6, <3>1, <4>1
      <3>2. CASE ~Repeats(proc[p].name)
        <4>1. Cardinality(Ended(own)') = Cardinality(Ended(own)) - 1
          BY <2>5, <3>2, MoveCounts
        <4> QED BY <2>2, <2>6, <3>2, <4>1
      <3> QED BY <3>1, <3>2
    <2>8. success[own] - less \in Nat
      BY <2>2, <2>5, <2>6, <2>7 DEF Succeeded
    <2>9. /\ success'[own] = success[own] - less
          /\ \A r \in References \ {own} : success'[r] = success[r]
          /\ success' \in [References -> Nat]
      BY <1>1, <2>3, <2>8 DEF TypeOK
    <2>10. TypeOK'
      BY <1>1, <1>2, <1>5, <2>5, <2>9 DEF TypeOK, StatementFails, queue
    <2>11. Accounted(own)'
      BY <1>2, <1>5, <2>5, <2>6 DEF Accounted
    <2>12. Succeeded(own)'
      BY <2>2, <2>5, <2>6, <2>7, <2>9 DEF Succeeded
    <2> QED BY <1>2, <1>5, <2>1, <2>4, <2>9, <2>10, <2>11, <2>12, OneReference DEF At
  <1> QED BY <1>3, <1>4, <1>5 DEF StatementFails

-----------------------------------------------------------------------------
(* Every step keeps the invariant.                                         *)
LEMMA StepInv == Inv /\ [Next]_vars => Inv'
  <1> SUFFICES ASSUME Inv, [Next]_vars PROVE Inv'
    OBVIOUS
  <1>1. ASSUME NEW p \in Processes, RunnerStep(p) \/ StatementFails(p) \/ Die(p)
        PROVE  Inv'
    BY <1>1, CheckKeeps, CreateKeeps, RunKeeps, FinishKeeps, MarkFailedKeeps,
       AnswerKeeps, StatementKeeps, DieKeeps DEF RunnerStep
  <1>2. ASSUME NEW w \in Workers, WorkerStep(w) \/ Terminate(w) \/ LoseLock(w)
        PROVE  Inv'
    BY <1>2, WorkerKeeps
  <1>3. ASSUME NEW w \in Workers, NEW n \in Schedules, NEW k \in 1..Attempts,
               TakeJob(w, n, k)
        PROVE  Inv'
    BY <1>3, TakeJobKeeps
  <1>4. ASSUME NEW c \in Calls, NEW n \in Routes, CallRoute(c, n) PROVE Inv'
    BY <1>4, CallRouteKeeps
  <1>5. CASE \/ SweepIsDue \/ NextPeriod \/ ADay \/ RedisDown \/ RedisUp
             \/ \E r \in References : HalfAnHour(r)
             \/ \E n \in Schedules : Schedule(n)
             \/ UNCHANGED vars
    BY <1>5, WorldKeeps
  <1> QED BY <1>1, <1>2, <1>3, <1>4, <1>5 DEF Next

LEMMA InvAlways == Spec => []Inv
  BY InitInv, StepInv, PTL DEF Spec

(* The types of the jobs, their queue and their executions: no execution is *)
(* ended, and no success taken back, more often than it was there.           *)
THEOREM TypeCorrect == Spec => []TypeOK
  <1>1. Inv => TypeOK
    BY DEF Inv
  <1> QED BY <1>1, InvAlways, PTL

(* As long as no process dies, no statement fails and no lock is lost, each *)
(* RUNNING execution has the one process that will end it, through every    *)
(* error of a job, outage of Redis and deploy of the worker                 *)
(* (InternalJobRunnerService.execute, shutdown of worker.ts).               *)
THEOREM RunningHasRunner == Spec => []RunningIsRun
  <1>1. Inv => RunningIsRun
    <2> SUFFICES ASSUME Inv, faults = 0, NEW r \in References
                 PROVE  running[r] = Cardinality({p \in Processes : HasRow(p) /\ Ref(p) = r})
      BY DEF RunningIsRun
    <2>1. {p \in Processes : HasRow(p) /\ Ref(p) = r} = Rows(r)
      BY DEF HasRow, Ref, Rows, RowOf
    <2> QED BY <2>1 DEF Inv, Accounted
  <1> QED BY <1>1, InvAlways, PTL

(* A job that is not repeated succeeds for its reference at most once for   *)
(* each process there is, those that looked before the first success had    *)
(* its row included: the look and the row are two statements of             *)
(* InternalJobRunnerService.execute, and nothing but the number of the      *)
(* processes bounds what passes between them.                               *)
THEOREM SuccessBounded == Spec => []SucceedsOnce
  <1>1. Inv => SucceedsOnce
    <2> SUFFICES ASSUME Inv, NEW r \in References
                 PROVE  success[r] + Cardinality({p \in Processes :
                           Ref(p) = r /\ ~Repeats(proc[p].name)
                           /\ proc[p].at \in {"create", "started", "run", "finish"}})
                        <= Cardinality(Processes)
      BY DEF SucceedsOnce
    <2>1. {p \in Processes : Ref(p) = r /\ ~Repeats(proc[p].name)
             /\ proc[p].at \in {"create", "started", "run", "finish"}} = Starters(r)
      BY DEF Ref, Starters, StarterOf
    <2> QED BY <2>1 DEF Inv, Succeeded, Limit
  <1> QED BY <1>1, InvAlways, PTL
=============================================================================
