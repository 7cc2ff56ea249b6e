-------------------------- MODULE DeploymentProofs --------------------------
(***************************************************************************)
(* Proofs about Deployment, for any number of pipelines, releases and      *)
(* migrations and any interleaving of their steps with deaths,             *)
(* cancellations, restores and a bootstrap: that the migration history     *)
(* tells the schema, why a migration may be refused, that nothing is       *)
(* removed without a backup, and what a bootstrap that ends leaves.        *)
(***************************************************************************)
EXTENDS Deployment, SumProofs

(* Sets of the values that occur.                                          *)
Migrations == Legacy \cup Successors
Objects == Created(Migrations) \cup UNION (AcceptedDrifts \cup UnknownDrifts)
History == [table : BOOLEAN, done : SUBSET Migrations, broken : SUBSET Migrations,
            schema : SUBSET Objects, late : BOOLEAN]
Steps == {"idle", "stopped", "sync", "synced", "stage", "snapshot", "cutover", "copy",
          "migrate", "applying", "migrated", "wait", "healthy",
          "permissions", "seed", "teams", "done"}
Job == [pc : Steps, rel : Releases \cup {None}, staged : Releases \cup {None},
        next : Migrations \cup {None}, alive : BOOLEAN, inBox : BOOLEAN, seen : History, ok : BOOLEAN]
Archived == [file : {None, "whole", "cut"}, manifest : {None, "whole"},
             checked : {None, "list", "sum"}, content : History]

(* A release the CI let through.                                           *)
Good(r) == r \in Releases /\ AuditPasses(r) /\ PolicyHolds(r)

(* What a pipeline or the bootstrap carries passed the CI, and so did what *)
(* any pipeline that is past the synchronisation finds in the directory.   *)
Passed(q) ==
    /\ At(q, "sync") => Good(job[q].rel)
    /\ job[q].pc \in {"synced", "stage"} => Good(codeDir)
    /\ job[q].pc \in {"snapshot", "cutover", "copy", "migrate", "applying"} =>
        Good(job[q].staged)
    /\ job[q].pc \in {"sync", "synced", "stage", "snapshot", "cutover"} => ~job[q].ok
    /\ At(q, "applying") => job[q].next \in Migrations

Typed ==
    /\ db \in [Databases -> History]
    /\ restored \in [Databases -> {"no", "clean", "over"}]
    /\ codeDir \in Releases
    /\ job \in [Processes -> Job]
    /\ lock \in [Databases -> Processes \cup {None}]
    /\ refused \subseteq Databases \X Releases \X Migrations
    /\ dump \in Archived
    /\ \A q \in Processes : Passed(q)

-----------------------------------------------------------------------------
(* What a set of migrations creates.                                       *)
LEMMA CreatedOf ==
  /\ \A A, B \in SUBSET Migrations : Created(A \cup B) = Created(A) \cup Created(B)
  /\ \A m \in Migrations : Created({m}) = Creates[m]
  /\ Created({}) = {}
  /\ \A A, B \in SUBSET Migrations : A \subseteq B => Created(A) \subseteq Created(B)
  /\ \A A \in SUBSET Migrations : Created(A) \subseteq Objects
  /\ \A m \in Migrations : Creates[m] \subseteq Objects
  BY DEF Created, Objects

(* A set of numbers that is not empty has a least member.                  *)
LEMMA LeastOf ==
  ASSUME NEW S \in SUBSET Nat, S # {}
  PROVE  \E i \in S : \A j \in S : i <= j
  <1> DEFINE R == OpToRel(<, Nat)
  <1>1. IsWellFoundedOn(R, Nat)
    BY NatLessThanWellFounded
  <1>2. \A m, n \in Nat : m < n => <<m, n>> \in R
    BY DEF OpToRel
  <1> HIDE DEF R
  <1>3. PICK i \in S : \A j \in S : <<j, i>> \notin R
    <2>1. S \subseteq Nat /\ S # {}
      OBVIOUS
    <2> QED BY <1>1, <2>1, WFMin
  <1>4. ASSUME NEW j \in S PROVE i <= j
    <2>1. i \in Nat /\ j \in Nat /\ ~(j < i)
      BY <1>2, <1>3
    <2> QED BY <2>1
  <1> QED BY <1>4

(* The migration that comes next is of the directory, is not done, and all *)
(* before it are.                                                          *)
LEMMA NextIs ==
  ASSUME DeploymentAssumption, NEW d, NEW r \in Releases, Pending(d, r) # {}
  PROVE  \E i \in DOMAIN Directory[r] :
           /\ NextMigration(d, r) = Directory[r][i]
           /\ NextMigration(d, r) \in Migrations \ db[d].done
           /\ \A j \in 1..(i - 1) : Directory[r][j] \in db[d].done
  <1>1. Directory[r] \in Seq(Migrations) /\ DOMAIN Directory[r] = 1..Len(Directory[r])
        /\ Len(Directory[r]) \in Nat
    BY DEF DeploymentAssumption, Migrations
  <1>2. Pending(d, r) \in SUBSET Nat
    BY <1>1 DEF Pending
  <1>3. \E i \in Pending(d, r) : \A j \in Pending(d, r) : i <= j
    BY <1>2, LeastOf
  <1>4. PICK i \in Pending(d, r) :
          NextMigration(d, r) = Directory[r][i] /\ \A j \in Pending(d, r) : i <= j
    BY <1>3 DEF NextMigration
  <1>5. i \in 1..Len(Directory[r]) /\ Directory[r][i] \notin db[d].done
    BY <1>1, <1>4 DEF Pending, IsPending
  <1>6. Directory[r][i] \in Migrations
    BY <1>1, <1>5
  <1>7. ASSUME NEW j \in 1..(i - 1) PROVE Directory[r][j] \in db[d].done
    <2>1. j \in 1..Len(Directory[r]) /\ ~(i <= j)
      BY <1>1, <1>5
    <2> QED BY <1>1, <1>4, <2>1 DEF Pending, IsPending
  <1> QED BY <1>1, <1>4, <1>5, <1>6, <1>7
LEMMA EmptyIsHistory ==
  /\ Empty \in History
  /\ \A done \in SUBSET Legacy, drift \in SUBSET Objects : Found(done, drift) \in History
  /\ FirstDatabases \subseteq History
  <1>1. Empty \in History
    BY DEF Empty, History
  <1>2. ASSUME NEW done \in SUBSET Legacy, NEW drift \in SUBSET Objects
        PROVE  Found(done, drift) \in History
    <2>1. Created(done) \subseteq Objects /\ done \in SUBSET Migrations
      BY CreatedOf DEF Migrations
    <2> QED BY <2>1, <1>1 DEF Found, Empty, History
  <1>3. \A drift \in AcceptedDrifts \cup UnknownDrifts : drift \in SUBSET Objects
    BY DEF Objects
  <1>4. [Empty EXCEPT !.schema = Baseline] \in History
    <2>1. Baseline \in SUBSET Objects
      BY CreatedOf DEF Baseline, Migrations
    <2> QED BY <2>1 DEF Empty, History
  <1>5. {} \in SUBSET Objects
    OBVIOUS
  <1> QED BY <1>1, <1>2, <1>3, <1>4, <1>5 DEF FirstDatabases

LEMMA IdleIsJob ==
  Idle \in Job /\ Stopped \in Job /\ Idle.pc = "idle" /\ Stopped.pc = "stopped"
  <1>1. Idle \in Job
    BY EmptyIsHistory DEF Idle, Job, Steps
  <1> QED BY <1>1 DEF Idle, Stopped, Job, Steps

LEMMA TypedInit == DeploymentAssumption /\ Init => Typed
  <1> SUFFICES ASSUME DeploymentAssumption, Init PROVE Typed
    OBVIOUS
  <1>1. PICK first \in FirstDatabases : db = [live |-> first, spare |-> Empty]
    BY DEF Init
  <1>2. db \in [Databases -> History]
    <2>1. first \in History /\ Empty \in History
      BY EmptyIsHistory
    <2> QED BY <1>1, <2>1 DEF Databases
  <1>3. \A q \in Processes : Passed(q)
    BY IdleIsJob DEF Init, Passed, At
  <1>4. codeDir \in Releases
    BY DEF Init, DeploymentAssumption
  <1>5. dump \in Archived
    BY EmptyIsHistory DEF Init, Archived
  <1> QED BY <1>2, <1>3, <1>4, <1>5, IdleIsJob DEF Init, Typed
(* What a step does to a process that is not the one it is of: nothing, or *)
(* it ends it; but for being alive and for finding its container.          *)
Still(q) ==
    \/ /\ job'[q].pc = job[q].pc /\ job'[q].rel = job[q].rel
       /\ job'[q].staged = job[q].staged /\ job'[q].seen = job[q].seen
       /\ job'[q].next = job[q].next /\ job'[q].ok = job[q].ok
    \/ job'[q].pc = "stopped"

LEMMA StopMoves ==
  ASSUME job \in [Processes -> Job], NEW p \in Processes, Stop(p)
  PROVE  /\ job' \in [Processes -> Job] /\ job'[p].pc = "stopped"
         /\ \A q \in Processes \ {p} : job'[q] = job[q]
  BY IdleIsJob DEF Stop

(* What a process carries along when it goes on.                           *)
Carries(p) ==
    /\ job'[p].rel = job[p].rel /\ job'[p].staged = job[p].staged
    /\ job'[p].seen = job[p].seen /\ job'[p].ok = job[p].ok /\ job'[p].inBox = job[p].inBox

LEMMA GotoMoves ==
  ASSUME job \in [Processes -> Job], NEW p \in Processes, NEW pc \in Steps, Goto(p, pc)
  PROVE  /\ job' \in [Processes -> Job] /\ job'[p] = [job[p] EXCEPT !.pc = pc]
         /\ job'[p].pc = pc /\ Carries(p)
         /\ \A q \in Processes \ {p} : job'[q] = job[q]
  <1>1. job'[p] = [job[p] EXCEPT !.pc = pc] /\ job[p] \in Job
        /\ \A q \in Processes \ {p} : job'[q] = job[q]
    BY DEF Goto
  <1>2. job'[p].pc = pc /\ Carries(p) /\ job'[p] \in Job
    BY <1>1 DEF Job, Carries
  <1>3. job' \in [Processes -> Job]
    BY <1>2 DEF Goto
  <1> QED BY <1>1, <1>2, <1>3

LEMMA EndMoves ==
  ASSUME job \in [Processes -> Job], NEW p \in Processes, NEW pc \in Steps, EndSession(p, pc)
  PROVE  /\ job' \in [Processes -> Job]
         /\ \/ job'[p] = [job[p] EXCEPT !.pc = pc] /\ job'[p].pc = pc /\ Carries(p)
            \/ job'[p].pc = "stopped"
         /\ \A q \in Processes \ {p} : job'[q] = job[q]
  BY StopMoves, GotoMoves DEF EndSession

LEMMA PushMoves ==
  ASSUME Typed, NEW p \in Pipes, NEW r \in Releases, Push(p, r)
  PROVE  /\ job' \in [Processes -> Job]
         /\ \A q \in Processes \ {p} : Still(q)
         /\ \/ job'[p].pc = "stopped"
            \/ job'[p].pc = "sync" /\ job'[p].rel = r /\ ~job'[p].ok /\ AuditPasses(r) /\ PolicyHolds(r)
  <1>1. p \in Processes
    BY DEF Processes
  <1>2. ASSUME NEW q \in Processes
        PROVE  /\ job'[q] \in Job
               /\ q # p => Still(q)
               /\ q = p => \/ job'[p].pc = "stopped"
                           \/ job'[p].pc = "sync" /\ job'[p].rel = r /\ ~job'[p].ok /\ AuditPasses(r) /\ PolicyHolds(r)
    <2>1. CASE q = p /\ AuditPasses(r) /\ PolicyHolds(r)
      <3>1. job'[q] = [Idle EXCEPT !.rel = r, !.alive = TRUE, !.pc = "sync"]
        BY <2>1 DEF Push
      <3>2. job'[q] \in Job
        BY <3>1, IdleIsJob DEF Job, Steps
      <3>3. job'[q].pc = "sync" /\ job'[q].rel = r /\ ~job'[q].ok
        BY <3>1, IdleIsJob DEF Idle
      <3> QED BY <2>1, <3>2, <3>3
    <2>2. CASE q = p /\ ~(AuditPasses(r) /\ PolicyHolds(r))
      <3>1. job'[q] = Stopped
        BY <2>2 DEF Push
      <3> QED BY <2>2, <3>1, IdleIsJob
    <2>3. CASE q # p /\ (q = Boot \/ At(q, "idle"))
      <3>1. job'[q] = job[q]
        BY <2>3 DEF Push
      <3> QED BY <2>3, <3>1 DEF Still, Typed
    <2>4. CASE q # p /\ ~(q = Boot \/ At(q, "idle"))
      <3>1. job'[q] = IF InSession(q) THEN [job[q] EXCEPT !.alive = FALSE] ELSE Stopped
        BY <2>4 DEF Push
      <3>2. job[q] \in Job
        BY DEF Typed
      <3>3. CASE InSession(q)
        BY <2>4, <3>1, <3>2, <3>3 DEF Still, Job
      <3>4. CASE ~InSession(q)
        BY <2>4, <3>1, <3>4, IdleIsJob DEF Still
      <3> QED BY <3>3, <3>4
    <2> QED BY <2>1, <2>2, <2>3, <2>4
  <1>3. job' = [q \in Processes |-> job'[q]]
    BY DEF Push
  <1> QED BY <1>1, <1>2, <1>3

LEMMA ContainerMoves ==
  ASSUME Typed, ContainerIsNew
  PROVE  job' \in [Processes -> Job] /\ \A q \in Processes : Still(q)
  <1>1. ASSUME NEW q \in Processes PROVE job'[q] \in Job /\ Still(q)
    <2>1. job'[q] = [job[q] EXCEPT !.inBox = FALSE] /\ job[q] \in Job
      BY DEF ContainerIsNew, Typed
    <2> QED BY <2>1 DEF Job, Still
  <1>2. job' = [q \in Processes |-> job'[q]]
    BY DEF ContainerIsNew
  <1> QED BY <1>1, <1>2
(* A step that leaves alone the databases and what the steps towards them  *)
(* rest on.                                                                *)
Risky == {"sync", "synced", "stage", "snapshot", "cutover", "copy", "migrate", "applying"}
(* A job that may change something stays where it is, leaves those steps,  *)
(* or goes on from the synchronisation.                                    *)
Kept(q) ==
    \/ Still(q) \/ job'[q].pc \notin Risky
    \/ At(q, "synced") /\ job'[q].pc = "stage" /\ job'[q].ok = job[q].ok
(* Steps that change no history and bring no process closer to changing    *)
(* one.                                                                    *)
Calm ==
    /\ UNCHANGED <<db, restored, codeDir, lock, refused>>
    /\ job' \in [Processes -> Job] /\ \A q \in Processes : Kept(q)

CalmActions ==
    \/ \E p \in Pipes : Preflight(p) \/ Trigger(p) \/ Wait(p)
    \/ BuildImage \/ ReplaceContainer \/ ContainerRestarts
    \/ Dump \/ DumpDies \/ UploadCutsShort \/ \E withManifest \in BOOLEAN : Verify(withManifest)
    \/ StartSeeds \/ PermissionFails \/ SeedTeam \/ BootDies
    \/ \E row \in Range(PermissionSteps) : SeedPermission(row)
    \/ \E row \in Range(SeedSteps) : Seed(row)
    \/ \E t \in Range(Catalogue), country \in {"home", "away"} : CreateTeam(t, country)

LEMMA StopIsCalm ==
  ASSUME Typed, NEW p \in Processes, Stop(p), UNCHANGED <<db, restored, codeDir, lock, refused>>
  PROVE  Calm
  BY StopMoves DEF Typed, Calm, Kept, Still

LEMMA GotoIsCalm ==
  ASSUME Typed, NEW p \in Processes, NEW pc \in Steps \ Risky, Goto(p, pc),
         UNCHANGED <<db, restored, codeDir, lock, refused>>
  PROVE  Calm
  <1>1. job' \in [Processes -> Job] /\ job'[p] = [job[p] EXCEPT !.pc = pc] /\ job[p] \in Job
        /\ \A q \in Processes \ {p} : job'[q] = job[q]
    BY GotoMoves DEF Typed
  <1>2. job'[p].pc \notin Risky
    BY <1>1 DEF Job
  <1> QED BY <1>1, <1>2 DEF Calm, Kept, Still

LEMMA SameJobIsCalm ==
  ASSUME Typed, UNCHANGED <<job, db, restored, codeDir, lock, refused>>
  PROVE  Calm
  BY DEF Typed, Calm, Kept, Still

LEMMA CalmSteps ==
  ASSUME Typed, CalmActions
  PROVE  Calm
  <1>0. Boot \in Processes /\ \A p \in Pipes : p \in Processes
    BY DEF Processes
  <1>1. ASSUME NEW p \in Pipes, Preflight(p) PROVE Calm
    <2>1. CASE Stop(p)
      BY <1>0, <1>1, <2>1, StopIsCalm DEF Preflight, server, backups
    <2>2. CASE job' = [job EXCEPT ![p].pc = "stage", ![p].inBox = TRUE]
      <3>1. job[p] \in Job /\ p \in Processes /\ job \in [Processes -> Job]
        BY <1>0 DEF Typed
      <3>2. job'[p] = [job[p] EXCEPT !.pc = "stage", !.inBox = TRUE]
            /\ \A q \in Processes \ {p} : job'[q] = job[q]
        BY <2>2, <3>1
      <3>3. job'[p].pc = "stage" /\ job'[p] \in Job /\ job'[p].ok = job[p].ok
        BY <3>1, <3>2 DEF Job, Steps
      <3>4. job' \in [Processes -> Job]
        BY <2>2, <3>1, <3>3
      <3> QED BY <1>1, <3>2, <3>3, <3>4 DEF Calm, Kept, Still, Preflight, server, backups
    <2> QED BY <1>1, <2>1, <2>2 DEF Preflight
  <1>2. ASSUME NEW p \in Pipes, Trigger(p) PROVE Calm
    <2>1. job[p] \in Job /\ p \in Processes /\ job \in [Processes -> Job]
      BY <1>0 DEF Typed
    <2>2. job'[p] = [job[p] EXCEPT !.pc = "wait", !.staged = None, !.inBox = FALSE]
          /\ \A q \in Processes \ {p} : job'[q] = job[q]
      BY <1>2, <2>1 DEF Trigger
    <2>3. job'[p].pc = "wait" /\ job'[p] \in Job
      BY <2>1, <2>2 DEF Job, Steps
    <2>4. job' \in [Processes -> Job]
      BY <1>2, <2>1, <2>3 DEF Trigger
    <2> QED BY <1>2, <2>2, <2>3, <2>4 DEF Calm, Kept, Still, Trigger, Risky, backups
  <1>3. ASSUME NEW p \in Pipes, Wait(p) PROVE Calm
    <2>1. "healthy" \in Steps \ Risky
      BY DEF Steps, Risky
    <2> QED BY <1>0, <1>3, <2>1, StopIsCalm, GotoIsCalm DEF Wait, server, backups
  <1>4. CASE BuildImage
    BY <1>4, SameJobIsCalm DEF BuildImage
  <1>5. CASE ReplaceContainer \/ ContainerRestarts
    <2>1. ContainerIsNew
      BY <1>5 DEF ReplaceContainer, ContainerRestarts
    <2> QED BY <2>1, ContainerMoves DEF Calm, Kept, ContainerIsNew
  <1>6. CASE Dump \/ DumpDies \/ UploadCutsShort \/ \E withManifest \in BOOLEAN : Verify(withManifest)
    BY <1>6, SameJobIsCalm DEF Dump, DumpDies, UploadCutsShort, Verify, server, backups
  <1>7. {"permissions", "seed", "teams", "done", "stopped"} \subseteq Steps \ Risky
    BY DEF Steps, Risky
  <1>8. CASE StartSeeds \/ PermissionFails
    BY <1>0, <1>7, <1>8, GotoIsCalm DEF StartSeeds, PermissionFails, server, backups
  <1>9. CASE BootDies
    BY <1>0, <1>9, StopIsCalm DEF BootDies, server, backups
  <1>10. CASE SeedTeam
    <2>1. \E pc \in {"stopped", "done", "teams"} : Goto(Boot, pc)
      BY <1>10 DEF SeedTeam
    <2> QED BY <1>0, <1>7, <1>10, <2>1, GotoIsCalm DEF SeedTeam, server, backups
  <1>11. ASSUME NEW row, SeedPermission(row) PROVE Calm
    <2>1. \E pc \in {"permissions", "seed"} : Goto(Boot, pc)
      BY <1>11 DEF SeedPermission, Seeding
    <2> QED BY <1>0, <1>7, <1>11, <2>1, GotoIsCalm DEF SeedPermission, server, backups
  <1>12. ASSUME NEW row, Seed(row) PROVE Calm
    <2>1. Stop(Boot) \/ \E pc \in {"seed", "teams"} : Goto(Boot, pc)
      BY <1>12 DEF Seed, Seeding
    <2> QED BY <1>0, <1>7, <1>12, <2>1, GotoIsCalm, StopIsCalm DEF Seed, server, backups
  <1>13. ASSUME NEW t, NEW country, CreateTeam(t, country) PROVE Calm
    BY <1>13, SameJobIsCalm DEF CreateTeam, server, backups
  <1> QED BY <1>1, <1>2, <1>3, <1>4, <1>5, <1>6, <1>8, <1>9, <1>10, <1>11, <1>12, <1>13 DEF CalmActions
(* Where the other steps lead the process they are of; the others are as   *)
(* they were.                                                              *)
Alone(p) ==
    /\ job' \in [Processes -> Job] /\ \A q \in Processes \ {p} : Still(q)

LEMMA SyncMoves ==
  ASSUME Typed, NEW p \in Pipes, Sync(p)
  PROVE  /\ Alone(p) /\ codeDir' = job[p].rel
         /\ job'[p].pc = "stopped" \/ (job'[p].pc = "synced" /\ job'[p].ok = job[p].ok)
  <1>1. p \in Processes /\ "synced" \in Steps /\ job[p] \in Job /\ job \in [Processes -> Job]
    BY DEF Processes, Steps, Typed
  <1>2. /\ job'[p] = [job[p] EXCEPT !.pc = "synced"] \/ job'[p].pc = "stopped"
        /\ job' \in [Processes -> Job] /\ \A q \in Processes \ {p} : job'[q] = job[q]
    BY <1>1, EndMoves DEF Sync
  <1> QED BY <1>1, <1>2 DEF Alone, Still, Sync, Job

LEMMA StageMoves ==
  ASSUME Typed, NEW p \in Pipes, Stage(p)
  PROVE  /\ Alone(p) /\ job'[p].staged = codeDir /\ job'[p].pc = "snapshot"
         /\ job'[p].ok = job[p].ok
  <1>1. p \in Processes /\ job[p] \in Job /\ job \in [Processes -> Job] /\ codeDir \in Releases
    BY DEF Processes, Typed
  <1>2. job'[p] = [job[p] EXCEPT !.staged = codeDir, !.pc = "snapshot"]
        /\ \A q \in Processes \ {p} : job'[q] = job[q]
    BY <1>1 DEF Stage
  <1>3. /\ job'[p] \in Job /\ job'[p].staged = codeDir /\ job'[p].pc = "snapshot"
        /\ job'[p].ok = job[p].ok
    BY <1>1, <1>2 DEF Job, Steps
  <1>4. job' \in [Processes -> Job]
    BY <1>1, <1>3 DEF Stage
  <1> QED BY <1>2, <1>3, <1>4 DEF Alone, Still

LEMMA SnapshotMoves ==
  ASSUME Typed, NEW p \in Pipes, Snapshot(p)
  PROVE  /\ Alone(p) /\ job'[p].staged = job[p].staged
         /\ job'[p].seen = db["live"] /\ job'[p].pc = "cutover"
         /\ job'[p].ok = job[p].ok
  <1>1. p \in Processes /\ job[p] \in Job /\ job \in [Processes -> Job] /\ db["live"] \in History
    BY DEF Processes, Typed, Databases
  <1>2. job'[p] = [job[p] EXCEPT !.seen = db["live"], !.pc = "cutover"]
        /\ \A q \in Processes \ {p} : job'[q] = job[q]
    BY <1>1 DEF Snapshot
  <1>3. /\ job'[p] \in Job /\ job'[p].staged = job[p].staged
        /\ job'[p].seen = db["live"] /\ job'[p].pc = "cutover"
         /\ job'[p].ok = job[p].ok
    BY <1>1, <1>2 DEF Job, Steps
  <1>4. job' \in [Processes -> Job]
    BY <1>1, <1>3 DEF Snapshot
  <1> QED BY <1>2, <1>3, <1>4 DEF Alone, Still

LEMMA CutoverMoves ==
  ASSUME Typed, NEW p \in Pipes, Cutover(p)
  PROVE  /\ Alone(p) /\ job'[p].staged = job[p].staged /\ job'[p].pc = "copy"
         /\ job'[p].inBox /\ job'[p].ok = CutoverSucceeds(db["live"], job[p].seen)
  <1>1. p \in Processes /\ job[p] \in Job /\ job \in [Processes -> Job] /\ Empty \in History
    BY EmptyIsHistory DEF Processes, Typed
  <1>2. CutoverSucceeds(db["live"], job[p].seen) \in BOOLEAN
    BY DEF CutoverSucceeds
  <1>3. job'[p] = [job[p] EXCEPT !.pc = "copy", !.ok = CutoverSucceeds(db["live"], job[p].seen),
                     !.seen = Empty]
        /\ \A q \in Processes \ {p} : job'[q] = job[q]
    BY <1>1 DEF Cutover
  <1>4. /\ job'[p] \in Job /\ job'[p].staged = job[p].staged /\ job'[p].pc = "copy"
        /\ job'[p].inBox = job[p].inBox /\ job'[p].ok = CutoverSucceeds(db["live"], job[p].seen)
    BY <1>1, <1>2, <1>3 DEF Job, Steps
  <1>5. job' \in [Processes -> Job]
    BY <1>1, <1>4 DEF Cutover
  <1> QED BY <1>3, <1>4, <1>5 DEF Alone, Still, Cutover

LEMMA CutoverDiesMoves ==
  ASSUME Typed, NEW p \in Pipes, CutoverDies(p)
  PROVE  /\ Alone(p) /\ job'[p].staged = job[p].staged /\ job'[p].pc = "copy"
         /\ job'[p].inBox /\ ~job'[p].ok
  <1>1. p \in Processes /\ job[p] \in Job /\ job \in [Processes -> Job] /\ Empty \in History
    BY EmptyIsHistory DEF Processes, Typed
  <1>2. job'[p] = [job[p] EXCEPT !.pc = "copy", !.seen = Empty]
        /\ \A q \in Processes \ {p} : job'[q] = job[q]
    BY <1>1 DEF CutoverDies
  <1>3. /\ job'[p] \in Job /\ job'[p].staged = job[p].staged /\ job'[p].pc = "copy"
        /\ job'[p].inBox = job[p].inBox /\ job'[p].ok = job[p].ok
    BY <1>1, <1>2 DEF Job, Steps
  <1>4. job' \in [Processes -> Job]
    BY <1>1, <1>3 DEF CutoverDies
  <1>5. ~job[p].ok
    BY <1>1 DEF Typed, Passed, CutoverDies, At
  <1> QED BY <1>2, <1>3, <1>4, <1>5 DEF Alone, Still, CutoverDies

LEMMA CopyMoves ==
  ASSUME Typed, NEW p \in Pipes, CopyBackup(p)
  PROVE  /\ Alone(p)
         /\ job'[p].pc \notin Risky \/ (job'[p].pc = "migrate" /\ job[p].ok
                                         /\ job'[p].staged = job[p].staged)
  <1>1. p \in Processes /\ job[p] \in Job /\ job \in [Processes -> Job] /\ "migrate" \in Steps
    BY DEF Processes, Typed, Steps
  <1>2. CASE job[p].ok
    <2>1. job' \in [Processes -> Job] /\ job'[p] = [job[p] EXCEPT !.pc = "migrate"]
          /\ \A q \in Processes \ {p} : job'[q] = job[q]
      BY <1>1, <1>2, GotoMoves DEF CopyBackup
    <2> QED BY <1>1, <1>2, <2>1 DEF Alone, Still, Job
  <1>3. CASE ~job[p].ok
    <2>1. Stop(p)
      BY <1>3 DEF CopyBackup
    <2> QED BY <1>1, <2>1, StopMoves DEF Alone, Still, Risky
  <1> QED BY <1>2, <1>3

LEMMA InspectMoves ==
  ASSUME Typed, NEW r \in Releases, NEW allow \in BOOLEAN, Inspect(r, allow)
  PROVE  /\ Alone(Boot) /\ job'[Boot].staged = r
         /\ job'[Boot].pc \in {"stopped", "migrate"} /\ Good(r)
  <1>1. Boot \in Processes /\ job[Boot] \in Job /\ job \in [Processes -> Job]
    BY DEF Processes, Typed
  <1>2. PICK pc \in {"stopped", "migrate"} :
          job' = [job EXCEPT ![Boot].rel = r, ![Boot].staged = r, ![Boot].pc = pc]
    BY DEF Inspect
  <1>3. job'[Boot] = [job[Boot] EXCEPT !.rel = r, !.staged = r, !.pc = pc]
        /\ \A q \in Processes \ {Boot} : job'[q] = job[q]
    BY <1>1, <1>2
  <1>4. job'[Boot] \in Job /\ job'[Boot].staged = r /\ job'[Boot].pc = pc
    BY <1>1, <1>3 DEF Job, Steps
  <1>5. job' \in [Processes -> Job]
    BY <1>1, <1>2, <1>4
  <1> QED BY <1>2, <1>3, <1>4, <1>5 DEF Alone, Still, Inspect, Good
(* A migration in its database: begun, with its SQL applied and the row not *)
(* finished, and finished.                                                  *)
Begun(h, m) == [h EXCEPT !.broken = {m}, !.table = TRUE]
(* A migration that died between its objects and its row, and one that was *)
(* applied.                                                                *)
Half(h, m) == [h EXCEPT !.schema = @ \cup Creates[m]]
Applied(h, m) ==
    [h EXCEPT !.schema = @ \cup Creates[m], !.broken = @ \ {m}, !.done = @ \cup {m}]

(* The steps of a migration, by what they do to its database.               *)
Others(d) ==
    \A e \in Databases \ {d} : db'[e] = db[e] /\ lock'[e] = lock[e]
(* p gives back the lock of d, or the locks stay as they are.              *)
Released(p, d) ==
    lock' = lock \/ (lock[d] \in {None, p} /\ lock' = [lock EXCEPT ![d] = None])
(* p begins the next migration that its release has for d.                 *)
Begins(p, d, r) ==
    /\ db[d].broken = {} /\ (db[d].table \/ db[d].schema = {}) /\ Pending(d, r) # {}
    /\ db' = [db EXCEPT ![d] = Begun(db[d], NextMigration(d, r))]
    /\ lock[d] \in {None, p} /\ lock' = [lock EXCEPT ![d] = p]
    /\ job'[p].pc = "applying" /\ job'[p].staged = job[p].staged
    /\ job'[p].next = NextMigration(d, r)

LEMMA MigrateStartMoves ==
  ASSUME DeploymentAssumption, Typed, NEW p \in Processes, MigrateStart(p)
  PROVE  /\ Alone(p) /\ UNCHANGED <<restored, codeDir, refused, dump>>
         /\ \/ /\ db' = db /\ job'[p].pc \notin Risky /\ Released(p, DatabaseOf(p))
               /\ At(p, "migrate")
               /\ job'[p].pc = "migrated" => Pending(DatabaseOf(p), job[p].staged) = {}
            \/ At(p, "migrate") /\ Begins(p, DatabaseOf(p), job[p].staged)
  <1> DEFINE d == DatabaseOf(p)  r == job[p].staged
  <1>1. job \in [Processes -> Job] /\ {"migrated", "applying"} \subseteq Steps
        /\ d \in Databases /\ db \in [Databases -> History]
    BY DEF Typed, Steps, DatabaseOf, Databases
  <1>0. At(p, "migrate") /\ UNCHANGED <<restored, codeDir, refused, dump>>
    BY DEF MigrateStart, server
  <1>2. CASE lock[d] \notin {None, p} /\ Stop(p) /\ UNCHANGED <<db, lock>>
    <2>1. Alone(p) /\ job'[p].pc = "stopped"
      BY <1>1, <1>2, StopMoves DEF Alone, Still
    <2> QED BY <1>0, <1>2, <2>1 DEF Released, Risky, At
  <1>3. CASE /\ lock[d] \in {None, p} /\ Stop(p) /\ lock' = [lock EXCEPT ![d] = None]
             /\ UNCHANGED db
    <2>1. Alone(p) /\ job'[p].pc = "stopped"
      BY <1>1, <1>3, StopMoves DEF Alone, Still
    <2> QED BY <1>0, <1>3, <2>1 DEF Released, Risky, At
  <1>4. CASE /\ lock[d] \in {None, p} /\ Pending(d, r) = {} /\ EndSession(p, "migrated")
             /\ lock' = [lock EXCEPT ![d] = None] /\ UNCHANGED db
    <2>1. /\ job' \in [Processes -> Job]
          /\ job'[p].pc \in {"migrated", "stopped"}
          /\ \A q \in Processes \ {p} : job'[q] = job[q]
      BY <1>1, <1>4, EndMoves
    <2>3. Alone(p)
      BY <2>1 DEF Alone, Still
    <2>4. /\ lock[d] \in {None, p} /\ Pending(d, r) = {} /\ db' = db
          /\ lock' = [lock EXCEPT ![d] = None]
      BY <1>4
    <2>5. job'[p].pc \notin Risky
      BY <2>1 DEF Risky
    <2>6. Released(p, d)
      BY <2>4 DEF Released
    <2>7. job'[p].pc = "migrated" => Pending(d, r) = {}
      BY <2>4
    <2> QED BY <1>0, <2>3, <2>4, <2>5, <2>6, <2>7
  <1>5. CASE /\ lock[d] \in {None, p} /\ db[d].broken = {}
             /\ (db[d].table \/ db[d].schema = {}) /\ Pending(d, r) # {}
             /\ db' = [db EXCEPT ![d].broken = {NextMigration(d, r)}, ![d].table = TRUE]
             /\ job' = [job EXCEPT ![p].pc = "applying", ![p].next = NextMigration(d, r)]
             /\ lock' = [lock EXCEPT ![d] = p]
    <2>1. job'[p] = [job[p] EXCEPT !.pc = "applying", !.next = NextMigration(d, r)]
          /\ \A q \in Processes \ {p} : job'[q] = job[q]
      BY <1>1, <1>5
    <2>2. NextMigration(d, r) \in Migrations
      <3>1. r \in Releases
        BY <1>0 DEF Typed, Passed, Good, At
      <3> QED BY <1>5, <3>1, NextIs
    <2>6. /\ job'[p] \in Job /\ job'[p].pc = "applying" /\ job'[p].staged = job[p].staged
          /\ job'[p].next = NextMigration(d, r)
      <3>1. job[p] \in Job /\ NextMigration(d, r) \in Migrations \cup {None}
            /\ "applying" \in Steps
        BY <1>1, <2>2
      <3> HIDE DEF d, r
      <3>2. [job[p] EXCEPT !.pc = "applying", !.next = NextMigration(d, r)] \in Job
        BY <3>1 DEF Job
      <3>3. /\ job'[p].pc = "applying" /\ job'[p].staged = job[p].staged
            /\ job'[p].next = NextMigration(d, r)
        BY <2>1, <3>1 DEF Job
      <3> QED BY <2>1, <3>2, <3>3
    <2>8. job' \in [Processes -> Job]
      <3>1. job' = [job EXCEPT ![p] = job'[p]]
        BY <1>1, <1>5, <2>1
      <3> QED BY <1>1, <2>6, <3>1
    <2>4. Alone(p)
      BY <2>1, <2>8 DEF Alone, Still
    <2>3. db' = [db EXCEPT ![d] = Begun(db[d], NextMigration(d, r))]
      BY <1>1, <1>5 DEF Begun
    <2>5. /\ lock[d] \in {None, p} /\ db[d].broken = {}
          /\ (db[d].table \/ db[d].schema = {}) /\ Pending(d, r) # {}
          /\ lock' = [lock EXCEPT ![d] = p]
      BY <1>5
    <2>7. Begins(p, d, r)
      BY <2>3, <2>5, <2>6 DEF Begins
    <2> QED BY <1>0, <2>4, <2>7
  <1> QED BY <1>2, <1>3, <1>4, <1>5 DEF MigrateStart

LEMMA ApplyMoves ==
  ASSUME Typed, NEW p \in Processes, Apply(p)
  PROVE  LET d == DatabaseOf(p)  m == job[p].next IN
         /\ Alone(p) /\ UNCHANGED <<restored, codeDir, dump>> /\ At(p, "applying")
         /\ \/ /\ Accepts(d, m) /\ db' = [db EXCEPT ![d] = Applied(db[d], m)]
               /\ job'[p].pc = "migrate" /\ job'[p].staged = job[p].staged
               /\ UNCHANGED <<lock, refused>>
            \/ /\ ~Accepts(d, m) /\ db' = db /\ job'[p].pc = "stopped"
               /\ refused' = refused \cup {<<d, job[p].staged, m>>} /\ lock' = [lock EXCEPT ![d] = None]
  <1> DEFINE d == DatabaseOf(p)  m == job[p].next
  <1>1. job \in [Processes -> Job] /\ "migrate" \in Steps
        /\ d \in Databases /\ db \in [Databases -> History] /\ job[p] \in Job
    BY DEF Typed, Steps, DatabaseOf, Databases
  <1>0. At(p, "applying") /\ UNCHANGED <<restored, codeDir, dump>>
    BY DEF Apply, server
  <1>2. CASE Accepts(d, m)
    <2>1. /\ db' = [db EXCEPT ![d] = [AfterSql(d, m) EXCEPT !.broken = @ \ {m},
                                                           !.done = @ \cup {m}]]
          /\ job' = [job EXCEPT ![p].pc = "migrate", ![p].next = None]
          /\ UNCHANGED <<lock, refused>>
      BY <1>2 DEF Apply
    <2>2. /\ job'[p] = [job[p] EXCEPT !.pc = "migrate", !.next = None]
          /\ \A q \in Processes \ {p} : job'[q] = job[q]
      BY <1>1, <2>1
    <2>3. job'[p] \in Job /\ job'[p].pc = "migrate" /\ job'[p].staged = job[p].staged
      <3>1. job[p] \in Job
        BY <1>1
      <3> QED BY <2>2, <3>1 DEF Job, Steps
    <2>8. job' \in [Processes -> Job]
      <3>1. job' = [job EXCEPT ![p] = job'[p]]
        BY <1>1, <2>1, <2>2
      <3> QED BY <1>1, <2>3, <3>1
    <2>5. Alone(p)
      BY <2>2, <2>8 DEF Alone, Still
    <2>4. [AfterSql(d, m) EXCEPT !.broken = @ \ {m}, !.done = @ \cup {m}] = Applied(db[d], m)
      BY <1>1 DEF AfterSql, Applied, History
    <2>6. db' = [db EXCEPT ![d] = Applied(db[d], m)] /\ UNCHANGED <<lock, refused>>
      BY <2>1, <2>4
    <2> QED BY <1>0, <1>2, <2>3, <2>5, <2>6
  <1>3. CASE ~Accepts(d, m)
    <2>1. /\ refused' = refused \cup {<<d, job[p].staged, m>>} /\ Stop(p)
          /\ lock' = [lock EXCEPT ![d] = None] /\ UNCHANGED db
      BY <1>3 DEF Apply
    <2>2. Alone(p) /\ job'[p].pc = "stopped"
      BY <1>1, <2>1, StopMoves DEF Alone, Still
    <2> QED BY <1>0, <1>3, <2>1, <2>2
  <1> QED BY <1>2, <1>3

LEMMA InterruptedMoves ==
  ASSUME Typed, NEW p \in Processes, MigrateDies(p) \/ (p \in Pipes /\ ContainerGone(p))
  PROVE  LET d == DatabaseOf(p)  m == job[p].next IN
         /\ Alone(p) /\ UNCHANGED <<restored, codeDir, refused, dump>> /\ job'[p].pc = "stopped"
         /\ lock' = [lock EXCEPT ![d] = IF @ = p THEN None ELSE @]
         /\ \/ db' = db
            \/ /\ At(p, "applying") /\ Accepts(d, m)
               /\ db' = [db EXCEPT ![d] = Half(db[d], m)]
  <1>1. job \in [Processes -> Job] /\ db \in [Databases -> History] /\ DatabaseOf(p) \in Databases
    BY DEF Typed, DatabaseOf, Databases
  <1>2. Stop(p) /\ Interrupted(p) /\ UNCHANGED <<restored, codeDir, refused, dump>>
    BY DEF MigrateDies, ContainerGone, server
  <1>3. Alone(p) /\ job'[p].pc = "stopped"
    BY <1>1, <1>2, StopMoves DEF Alone, Still
  <1> DEFINE d == DatabaseOf(p)  m == job[p].next
  <1>4. lock' = [lock EXCEPT ![d] = IF @ = p THEN None ELSE @]
    BY <1>2 DEF Interrupted
  <1>5. \/ db' = db
        \/ At(p, "applying") /\ Accepts(d, m) /\ db' = [db EXCEPT ![d] = AfterSql(d, m)]
    BY <1>2 DEF Interrupted
  <1>7. UNCHANGED <<restored, codeDir, refused, dump>>
    BY <1>2
  <1>8. CASE db' = db
    BY <1>3, <1>4, <1>7, <1>8
  <1>9. CASE At(p, "applying") /\ Accepts(d, m) /\ db' = [db EXCEPT ![d] = AfterSql(d, m)]
    BY <1>3, <1>4, <1>7, <1>9 DEF AfterSql, Half
  <1> QED BY <1>5, <1>8, <1>9
(* The history a restore brings back.                                      *)
Loaded(h, from, objects) ==
    [schema |-> h.schema \cup objects, table |-> h.table \/ from.table, late |-> from.late,
     done |-> IF from.table THEN from.done ELSE h.done,
     broken |-> IF from.table THEN from.broken ELSE h.broken]

LEMMA RestoreMoves ==
  ASSUME Typed, NEW d \in Databases, NEW alike, NEW lifted, Restore(d, alike, lifted)
  PROVE  /\ UNCHANGED <<job, codeDir, lock, refused, dump>>
         /\ dump.file # None /\ lock[d] = None /\ restored[d] = "no"
         /\ \E objects \in SUBSET dump.content.schema :
              /\ (objects = dump.content.schema) <=> (dump.file = "whole")
              /\ db' = [db EXCEPT ![d] = Loaded(db[d], dump.content, objects)]
         /\ restored' \in [Databases -> {"no", "clean", "over"}]
         /\ \A e \in Databases \ {d} : restored'[e] = restored[e]
         /\ restored'[d] = "over" \/
              /\ restored'[d] = "clean" /\ ~db[d].table /\ db[d].schema = {}
              /\ dump.checked = "sum"
              /\ \A p \in Processes : DatabaseOf(p) = d => job[p].pc # "migrate"
  <1>1. /\ UNCHANGED <<job, codeDir, lock, refused, dump>>
        /\ dump.file # None /\ lock[d] = None /\ restored[d] = "no"
    BY DEF Restore, server
  <1>2. PICK objects \in SUBSET dump.content.schema :
          /\ (objects = dump.content.schema) <=> (dump.file = "whole")
          /\ RestoreInto(d, objects)
    BY DEF Restore
  <1>3. db' = [db EXCEPT ![d] = Loaded(db[d], dump.content, objects)]
    BY <1>2 DEF RestoreInto, Loaded
  <1>4. /\ restored' \in [Databases -> {"no", "clean", "over"}]
        /\ \A e \in Databases \ {d} : restored'[e] = restored[e]
    BY DEF Restore, Typed
  <1>5. \/ restored'[d] = "over"
        \/ /\ restored'[d] = "clean" /\ ~db[d].table /\ db[d].schema = {}
           /\ dump.checked = "sum"
           /\ \A p \in Processes : ~(DatabaseOf(p) = d /\ At(p, "migrate"))
    BY DEF Restore, Typed
  <1> QED BY <1>1, <1>2, <1>3, <1>4, <1>5 DEF At

LEMMA LoadedIsHistory ==
  ASSUME NEW h \in History, NEW from \in History, NEW objects \in SUBSET from.schema
  PROVE  Loaded(h, from, objects) \in History
  BY DEF Loaded, History

LEMMA CutoverIsHistory ==
  ASSUME NEW h \in History
  PROVE  [h EXCEPT !.done = (@ \cup {Base}) \ Legacy, !.broken = @ \ Legacy] \in History
  BY DEF History, Migrations, Successors

(* The history the cutover leaves.                                         *)
Rebased(h) == [h EXCEPT !.done = (@ \cup {Base}) \ Legacy, !.broken = @ \ Legacy]

LEMMA CutoverReplaces ==
  ASSUME Typed, NEW p, Cutover(p)
  PROVE  /\ db' = IF ReplacesHistory(db["live"], job[p].seen)
                  THEN [db EXCEPT !["live"] = Rebased(db["live"])] ELSE db
         /\ UNCHANGED <<restored, codeDir, lock, refused, dump>>
  <1>1. db \in [Databases -> History] /\ "live" \in Databases
    BY DEF Typed, Databases
  <1>2. [db EXCEPT !.live.done = (@ \cup {Base}) \ Legacy, !.live.broken = @ \ Legacy]
        = [db EXCEPT !["live"] = Rebased(db["live"])]
    BY <1>1 DEF Rebased
  <1> QED BY <1>2 DEF Cutover, server

(* A row the old release wrote.                                            *)
Late(h) == [h EXCEPT !.late = TRUE]

LEMMA WriteNullWrites ==
  ASSUME Typed, WriteNull
  PROVE  /\ db' = [db EXCEPT !["live"] = Late(db["live"])] /\ db["live"].done # {}
         /\ UNCHANGED <<job, restored, codeDir, lock, refused, dump>>
  <1>1. db \in [Databases -> History] /\ "live" \in Databases
    BY DEF Typed, Databases
  <1>2. [db EXCEPT !.live.late = TRUE] = [db EXCEPT !["live"] = Late(db["live"])]
    BY <1>1 DEF Late
  <1> QED BY <1>2 DEF WriteNull, server

LEMMA MigratedIsHistory ==
  ASSUME NEW h \in History, NEW m \in Migrations
  PROVE  Begun(h, m) \in History /\ Half(h, m) \in History /\ Applied(h, m) \in History
  <1>1. Creates[m] \subseteq Objects
    BY CreatedOf
  <1> QED BY <1>1 DEF Begun, Half, Applied, History
LEMMA PassedCalm ==
  ASSUME Typed, NEW q \in Processes, Still(q) \/ job'[q].pc \notin Risky,
         UNCHANGED codeDir
  PROVE  Passed(q)'
  <1>1. CASE job'[q].pc \notin Risky
    BY <1>1 DEF Risky, Passed, At
  <1>2. CASE Still(q)
    BY <1>2 DEF Typed, Passed, At, Still
  <1> QED BY <1>1, <1>2

LEMMA PassedWhenPassed ==
  ASSUME Typed, NEW q \in Processes, Still(q), Good(codeDir) => Good(codeDir)'
  PROVE  Passed(q)'
  BY DEF Typed, Passed, At, Still

LEMMA DumpTyped ==
  ASSUME Typed, Next
  PROVE  dump' \in Archived
  <1>0. dump \in Archived /\ db["live"] \in History
    BY DEF Typed, Databases
  <1>1. CASE Dump \/ DumpDies
    BY <1>0, <1>1 DEF Dump, DumpDies, Archived
  <1>2. CASE UploadCutsShort
    BY <1>0, <1>2 DEF UploadCutsShort, Archived
  <1>3. CASE \E withManifest \in BOOLEAN : Verify(withManifest)
    BY <1>0, <1>3 DEF Verify, Archived
  <1>4. CASE UNCHANGED dump
    BY <1>0, <1>4
  <1>5. CASE Pipeline
    BY <1>4, <1>5 DEF Pipeline, Push, Sync, Preflight, Stage, Snapshot, Cutover, CutoverDies,
        CopyBackup, Trigger, Wait, ContainerGone
  <1>6. CASE Migrate
    BY <1>4, <1>6 DEF Migrate, MigrateStart, Apply, MigrateDies
  <1>7. CASE Container
    BY <1>4, <1>7 DEF Container, BuildImage, ReplaceContainer, ContainerRestarts, ContainerIsNew,
        WriteNull
  <1>8. CASE Bootstrap
    BY <1>4, <1>8 DEF Bootstrap, Inspect, StartSeeds, SeedPermission, PermissionFails, Seed,
        SeedTeam, BootDies, CreateTeam
  <1>9. CASE \E d \in Databases, alike, lifted \in BOOLEAN : Restore(d, alike, lifted)
    BY <1>4, <1>9 DEF Restore
  <1> QED BY <1>1, <1>2, <1>3, <1>5, <1>6, <1>7, <1>8, <1>9 DEF Next, Archive

(* Every step is calm, or one of these.                                    *)
Steep ==
    \/ \E p \in Pipes :
        \/ \E r \in Releases : Push(p, r)
        \/ Sync(p) \/ Stage(p) \/ Snapshot(p) \/ Cutover(p) \/ CutoverDies(p) \/ CopyBackup(p)
    \/ \E p \in Processes :
        \/ MigrateStart(p) \/ Apply(p) \/ MigrateDies(p) \/ (p \in Pipes /\ ContainerGone(p))
    \/ WriteNull
    \/ \E d \in Databases, alike, lifted \in BOOLEAN : Restore(d, alike, lifted)
    \/ \E r \in Releases, allow \in BOOLEAN : Inspect(r, allow)

(* Every step is of one of these kinds.                                    *)
LEMMA StepKinds ==
  ASSUME Typed, [Next]_vars
  PROVE  Calm \/ Steep
  <1>1. CASE Next
    <2>1. ASSUME CalmActions PROVE Calm
      BY <2>1, CalmSteps
    <2>2. \A p \in Pipes : p \in Processes
      BY DEF Processes
    <2>3. CASE Pipeline
      BY <2>1, <2>2, <2>3 DEF Pipeline, CalmActions, Steep
    <2>4. CASE Migrate
      BY <2>4 DEF Migrate, Steep
    <2>5. CASE Container
      BY <2>1, <2>5 DEF Container, CalmActions, Steep
    <2>6. CASE Archive
      BY <2>1, <2>6 DEF Archive, CalmActions, Steep
    <2>7. CASE Bootstrap
      BY <2>1, <2>7 DEF Bootstrap, CalmActions, Steep
    <2> QED BY <1>1, <2>3, <2>4, <2>5, <2>6, <2>7 DEF Next
  <1>2. CASE UNCHANGED vars
    BY <1>2, SameJobIsCalm DEF vars
  <1> QED BY <1>1, <1>2
(* Types are kept by every step.                                           *)
LEMMA TypedNext ==
  ASSUME DeploymentAssumption, Typed, [Next]_vars
  PROVE  Typed'
  <1>0. /\ db \in [Databases -> History] /\ restored \in [Databases -> {"no", "clean", "over"}]
        /\ codeDir \in Releases /\ lock \in [Databases -> Processes \cup {None}]
        /\ refused \subseteq Databases \X Releases \X Migrations /\ "live" \in Databases
        /\ Boot \in Processes /\ job \in [Processes -> Job]
        /\ \A p \in Processes : DatabaseOf(p) \in Databases
        /\ \A p \in Pipes : p \in Processes
    BY DEF Typed, Databases, Processes, DatabaseOf
  <1>1. dump' \in Archived
    <2>1. CASE UNCHANGED vars
      BY <2>1 DEF vars, Typed
    <2> QED BY <2>1, DumpTyped
  <1> DEFINE Rest == /\ restored' \in [Databases -> {"no", "clean", "over"}]
                     /\ job' \in [Processes -> Job] /\ codeDir' \in Releases
                     /\ lock' \in [Databases -> Processes \cup {None}]
                     /\ refused' \subseteq Databases \X Releases \X Migrations
                     /\ \A q \in Processes : Passed(q)'
  <1>2. SUFFICES db' \in [Databases -> History] /\ Rest
    BY <1>1 DEF Typed
  <1>3. CASE Calm
    <2>1. ASSUME NEW q \in Processes PROVE Passed(q)'
      <3>1. CASE At(q, "synced") /\ job'[q].pc = "stage" /\ job'[q].ok = job[q].ok
        BY <1>3, <3>1 DEF Calm, Passed, At, Typed
      <3> QED BY <1>3, <3>1, PassedCalm DEF Calm, Kept
    <2> QED BY <1>0, <1>3, <2>1 DEF Calm
  (* The steps of one process that leave the databases alone.              *)
  <1>4. ASSUME NEW p \in Processes, Alone(p), Passed(p)', UNCHANGED <<restored, codeDir>>,
               lock' \in [Databases -> Processes \cup {None}],
               refused' \subseteq Databases \X Releases \X Migrations
        PROVE  Rest
    <2>1. ASSUME NEW q \in Processes PROVE Passed(q)'
      <3>1. CASE q = p
        BY <1>4, <3>1
      <3>2. CASE q # p
        <4>1. Still(q) /\ codeDir' = codeDir
          BY <1>4, <3>2 DEF Alone
        <4> QED BY <4>1, PassedCalm
      <3> QED BY <3>1, <3>2
    <2> QED BY <1>0, <1>4, <2>1 DEF Alone
  <1>5. ASSUME NEW p \in Pipes, NEW r \in Releases, Push(p, r) PROVE db' = db /\ Rest
    <2>1. /\ job' \in [Processes -> Job] /\ \A q \in Processes \ {p} : Still(q)
          /\ \/ job'[p].pc = "stopped"
             \/ /\ job'[p].pc = "sync" /\ job'[p].rel = r /\ ~job'[p].ok
                /\ AuditPasses(r) /\ PolicyHolds(r)
      BY <1>5, PushMoves
    <2>2. Passed(p)'
      BY <2>1 DEF Passed, At, Good
    <2>3. UNCHANGED <<db, restored, codeDir, lock, refused>>
      BY <1>5 DEF Push, server
    <2> QED BY <1>0, <1>4, <2>1, <2>2, <2>3 DEF Alone
  <1>6. ASSUME NEW p \in Pipes, Sync(p) PROVE db' = db /\ Rest
    <2>1. /\ Alone(p) /\ codeDir' = job[p].rel
          /\ job'[p].pc = "stopped" \/ (job'[p].pc = "synced" /\ job'[p].ok = job[p].ok)
      BY <1>6, SyncMoves
    <2>2. Good(job[p].rel) /\ ~job[p].ok /\ UNCHANGED <<db, restored, lock, refused>>
      BY <1>0, <1>6 DEF Sync, Typed, Passed, At, backups
    <2>3. ASSUME NEW q \in Processes PROVE Passed(q)'
      <3>1. CASE q = p
        BY <2>1, <2>2, <3>1 DEF Passed, At
      <3>2. CASE q # p
        <4>1. Good(codeDir)' /\ Still(q)
          BY <2>1, <2>2, <3>2 DEF Alone, Good, AuditPasses, PolicyHolds
        <4> QED BY <4>1, PassedWhenPassed
      <3> QED BY <3>1, <3>2
    <2> QED BY <1>0, <2>1, <2>2, <2>3 DEF Alone, Good
  <1>7. ASSUME NEW p \in Pipes, Stage(p) PROVE db' = db /\ Rest
    <2>1. /\ Alone(p) /\ job'[p].staged = codeDir /\ job'[p].pc = "snapshot"
          /\ job'[p].ok = job[p].ok
      BY <1>7, StageMoves
    <2>2. Good(codeDir) /\ ~job[p].ok /\ UNCHANGED <<db, restored, codeDir, lock, refused>>
      BY <1>0, <1>7 DEF Stage, Typed, Passed, At, server, backups
    <2>3. Passed(p)'
      BY <2>1, <2>2 DEF Passed, At
    <2> QED BY <1>0, <1>4, <2>1, <2>2, <2>3
  <1>8. ASSUME NEW p \in Pipes, Snapshot(p) PROVE db' = db /\ Rest
    <2>1. /\ Alone(p) /\ job'[p].staged = job[p].staged /\ job'[p].pc = "cutover"
          /\ job'[p].ok = job[p].ok
      BY <1>8, SnapshotMoves
    <2>2. Good(job[p].staged) /\ ~job[p].ok /\ UNCHANGED <<db, restored, codeDir, lock, refused>>
      BY <1>0, <1>8 DEF Snapshot, Typed, Passed, At, server, backups
    <2>3. Passed(p)'
      BY <2>1, <2>2 DEF Passed, At
    <2> QED BY <1>0, <1>4, <2>1, <2>2, <2>3
  <1>9. ASSUME NEW p \in Pipes, Cutover(p) PROVE db' \in [Databases -> History] /\ Rest
    <2>1. Alone(p) /\ job'[p].staged = job[p].staged /\ job'[p].pc = "copy"
      BY <1>9, CutoverMoves
    <2>2. Good(job[p].staged)
      BY <1>0, <1>9 DEF Cutover, Typed, Passed, At
    <2>3. Passed(p)'
      BY <2>1, <2>2 DEF Passed, At
    <2>4. /\ db' = IF ReplacesHistory(db["live"], job[p].seen)
                   THEN [db EXCEPT !["live"] = Rebased(db["live"])] ELSE db
          /\ UNCHANGED <<restored, codeDir, lock, refused, dump>>
      BY <1>9, CutoverReplaces
    <2>5. Rebased(db["live"]) \in History
      BY <1>0, CutoverIsHistory DEF Rebased
    <2> QED BY <1>0, <1>4, <2>1, <2>3, <2>4, <2>5
  <1>10. ASSUME NEW p \in Pipes, CutoverDies(p) PROVE db' = db /\ Rest
    <2>1. Alone(p) /\ job'[p].staged = job[p].staged /\ job'[p].pc = "copy"
      BY <1>10, CutoverDiesMoves
    <2>2. Good(job[p].staged) /\ UNCHANGED <<db, restored, codeDir, lock, refused>>
      BY <1>0, <1>10 DEF CutoverDies, Typed, Passed, At, server
    <2>3. Passed(p)'
      BY <2>1, <2>2 DEF Passed, At
    <2> QED BY <1>0, <1>4, <2>1, <2>2, <2>3
  <1>11. ASSUME NEW p \in Pipes, CopyBackup(p) PROVE db' = db /\ Rest
    <2>1. /\ Alone(p)
          /\ job'[p].pc \notin Risky \/ (job'[p].pc = "migrate" /\ job[p].ok
                                          /\ job'[p].staged = job[p].staged)
      BY <1>11, CopyMoves
    <2>2. Good(job[p].staged) /\ UNCHANGED <<db, restored, codeDir, lock, refused>>
      BY <1>0, <1>11 DEF CopyBackup, Typed, Passed, At, server
    <2>3. Passed(p)'
      BY <2>1, <2>2 DEF Passed, At, Risky
    <2> QED BY <1>0, <1>4, <2>1, <2>2, <2>3
  <1>12. ASSUME NEW p \in Processes, MigrateStart(p)
         PROVE  db' \in [Databases -> History] /\ Rest
    <2> DEFINE d == DatabaseOf(p)  r == job[p].staged
    <2>1. /\ Alone(p) /\ UNCHANGED <<restored, codeDir, refused, dump>> /\ At(p, "migrate")
          /\ \/ db' = db /\ job'[p].pc \notin Risky /\ Released(p, d)
             \/ Begins(p, d, r)
      BY <1>12, MigrateStartMoves
    <2>2. Good(r) /\ r \in Releases
      BY <2>1 DEF Typed, Passed, At, Good
    <2>3. CASE db' = db /\ job'[p].pc \notin Risky /\ Released(p, d)
      <3>1. Passed(p)'
        BY <2>3 DEF Passed, At, Risky
      <3>2. lock' \in [Databases -> Processes \cup {None}]
        BY <1>0, <2>3 DEF Released
      <3> QED BY <1>0, <1>4, <2>1, <2>3, <3>1, <3>2
    <2>4. CASE Begins(p, d, r)
      <3>1. NextMigration(d, r) \in Migrations
        BY <2>2, <2>4, NextIs DEF Begins
      <3>2. Passed(p)'
        BY <2>2, <2>4, <3>1 DEF Passed, At, Begins
      <3>3. lock' \in [Databases -> Processes \cup {None}]
        BY <1>0, <2>4 DEF Begins
      <3>4. db' = [db EXCEPT ![d] = Begun(db[d], NextMigration(d, r))]
        BY <2>4 DEF Begins
      <3>5. Begun(db[d], NextMigration(d, r)) \in History
        BY <1>0, <3>1, MigratedIsHistory
      <3>6. db' \in [Databases -> History]
        BY <1>0, <3>4, <3>5
      <3> QED BY <1>0, <1>4, <2>1, <3>2, <3>3, <3>6
    <2> QED BY <2>1, <2>3, <2>4
  <1>13. ASSUME NEW p \in Processes, Apply(p)
         PROVE  db' \in [Databases -> History] /\ Rest
    <2> DEFINE d == DatabaseOf(p)  m == job[p].next
    <2>1. /\ Alone(p) /\ UNCHANGED <<restored, codeDir, dump>> /\ At(p, "applying")
          /\ \/ /\ Accepts(d, m) /\ db' = [db EXCEPT ![d] = Applied(db[d], m)]
                /\ job'[p].pc = "migrate" /\ job'[p].staged = job[p].staged
                /\ UNCHANGED <<lock, refused>>
             \/ /\ ~Accepts(d, m) /\ db' = db /\ job'[p].pc = "stopped"
                /\ refused' = refused \cup {<<d, job[p].staged, m>>} /\ lock' = [lock EXCEPT ![d] = None]
      BY <1>13, ApplyMoves
    <2>2. Good(job[p].staged) /\ m \in Migrations /\ d \in Databases
      BY <1>0, <2>1 DEF Typed, Passed, At
    <2>3. Passed(p)'
      BY <2>1, <2>2 DEF Passed, At
    <2>4. Applied(db[d], m) \in History
      BY <1>0, <2>2, MigratedIsHistory
    <2>5. db' \in [Databases -> History]
      BY <1>0, <2>1, <2>4
    <2>6. lock' \in [Databases -> Processes \cup {None}]
      BY <1>0, <2>1
    <2>7. refused' \subseteq Databases \X Releases \X Migrations
      BY <1>0, <2>1, <2>2 DEF Good
    <2> QED BY <1>4, <2>1, <2>3, <2>5, <2>6, <2>7
  <1>14. ASSUME NEW p \in Processes, MigrateDies(p) \/ (p \in Pipes /\ ContainerGone(p))
         PROVE  db' \in [Databases -> History] /\ Rest
    <2> DEFINE d == DatabaseOf(p)  m == job[p].next
    <2>1. /\ Alone(p) /\ UNCHANGED <<restored, codeDir, refused, dump>> /\ job'[p].pc = "stopped"
          /\ lock' = [lock EXCEPT ![d] = IF @ = p THEN None ELSE @]
          /\ \/ db' = db
             \/ At(p, "applying") /\ db' = [db EXCEPT ![d] = Half(db[d], m)]
      BY <1>14, InterruptedMoves
    <2>2. At(p, "applying") => m \in Migrations
      BY DEF Typed, Passed
    <2>3. Passed(p)'
      BY <2>1 DEF Passed, At
    <2>4. At(p, "applying") => Half(db[d], m) \in History
      BY <1>0, <2>2, MigratedIsHistory
    <2>5. db' \in [Databases -> History]
      BY <1>0, <2>1, <2>4
    <2>6. lock' \in [Databases -> Processes \cup {None}]
      BY <1>0, <2>1
    <2>7. refused' \subseteq Databases \X Releases \X Migrations
      BY <1>0, <2>1
    <2> QED BY <1>4, <2>1, <2>3, <2>5, <2>6, <2>7
  <1>15. ASSUME UNCHANGED <<job, codeDir, lock, refused>>,
                restored' \in [Databases -> {"no", "clean", "over"}]
         PROVE  Rest
    <2>1. \A q \in Processes : Passed(q)'
      BY <1>15 DEF Typed, Passed, At
    <2> QED BY <1>0, <1>15, <2>1
  <1>16. CASE WriteNull
    <2>1. /\ db' = [db EXCEPT !["live"] = Late(db["live"])]
          /\ UNCHANGED <<job, restored, codeDir, lock, refused, dump>>
      BY <1>16, WriteNullWrites
    <2>2. Late(db["live"]) \in History
      <3>1. db["live"] \in History
        BY <1>0
      <3> QED BY <3>1 DEF Late, History
    <2> QED BY <1>0, <1>15, <2>1, <2>2
  <1>17. ASSUME NEW d \in Databases, NEW alike, NEW lifted, Restore(d, alike, lifted)
         PROVE  db' \in [Databases -> History] /\ Rest
    <2>1. /\ UNCHANGED <<job, codeDir, lock, refused, dump>>
          /\ restored' \in [Databases -> {"no", "clean", "over"}]
      BY <1>17, RestoreMoves
    <2>2. PICK objects \in SUBSET dump.content.schema :
            /\ (objects = dump.content.schema) <=> (dump.file = "whole")
            /\ db' = [db EXCEPT ![d] = Loaded(db[d], dump.content, objects)]
      BY <1>17, RestoreMoves
    <2>3. dump.content \in History
      BY DEF Typed, Archived
    <2>4. Loaded(db[d], dump.content, objects) \in History
      BY <1>0, <2>3, LoadedIsHistory
    <2> QED BY <1>0, <1>15, <2>1, <2>2, <2>4
  <1>18. ASSUME NEW r \in Releases, NEW allow \in BOOLEAN, Inspect(r, allow) PROVE db' = db /\ Rest
    <2>1. /\ Alone(Boot) /\ job'[Boot].staged = r
          /\ job'[Boot].pc \in {"stopped", "migrate"} /\ Good(r)
      BY <1>18, InspectMoves
    <2>2. Passed(Boot)'
      BY <2>1 DEF Passed, At
    <2>3. UNCHANGED <<db, restored, codeDir, lock, refused>>
      BY <1>18 DEF Inspect, server
    <2> QED BY <1>0, <1>4, <2>1, <2>2, <2>3
  <1>19. CASE Steep
    <2> HIDE DEF Rest
    <2> QED BY <1>0, <1>5, <1>6, <1>7, <1>8, <1>9, <1>10, <1>11, <1>12, <1>13, <1>14, <1>16,
               <1>17, <1>18, <1>19 DEF Steep
  <1> QED BY <1>3, <1>19, StepKinds
(* What HistoryTellsSchema says of a database; and what is true of one     *)
(* whose history the cutover has replaced or that began with the baseline. *)
Fits(h, left) == h.schema \ Created(h.done \cup left) \in AcceptedDrifts
(* A history that tells its schema: the objects it names exist, and with   *)
(* the baseline nothing else does but an accepted drift. Modern is one of  *)
(* the new chain alone.                                                    *)
Tells(h) ==
    /\ Created(h.done) \subseteq h.schema
    /\ Base \in h.done => \E left \in SUBSET h.broken : Fits(h, left)
Modern(h) ==
    /\ Named(h) \cap Legacy = {} /\ Created(h.done) \subseteq h.schema
    /\ \E left \in SUBSET h.broken : Fits(h, left)

(* A database in which a migration of a release is under way, those before *)
(* it in the release being done.                                           *)
Follows(h, r, m) ==
    \E i \in DOMAIN Directory[r] :
        Directory[r][i] = m /\ {Directory[r][j] : j \in 1..(i - 1)} \subseteq h.done
Ready(h, r, m) ==
    /\ Modern(h) /\ h.table /\ h.broken = {m} /\ m \in Successors \ h.done /\ Fits(h, {})
    /\ Follows(h, r, m)

LEMMA ModernTells ==
  ASSUME NEW h \in History, Modern(h)
  PROVE  Tells(h)
  BY DEF Modern, Tells

LEMMA ConsolidatedIsModern ==
  ASSUME NEW h \in History, Tells(h), Consolidated(h)
  PROVE  Modern(h)
  BY DEF Modern, Tells, Consolidated

LEMMA EmptyIsModern ==
  ASSUME DeploymentAssumption, NEW h \in History, Named(h) = {}, h.schema = {}
  PROVE  Modern(h)
  <1>1. Created(h.done) = {} /\ Created(h.done \cup {}) = {}
    BY CreatedOf DEF Named
  <1>2. Fits(h, {}) /\ {} \in SUBSET h.broken
    BY <1>1 DEF Fits, DeploymentAssumption
  <1> QED BY <1>1, <1>2 DEF Modern

LEMMA BegunIsReady ==
  ASSUME DeploymentAssumption, Typed, NEW d \in Databases, NEW r, Good(r),
         Modern(db[d]), db[d].broken = {}, Pending(d, r) # {}
  PROVE  Ready(Begun(db[d], NextMigration(d, r)), r, NextMigration(d, r))
  <1> DEFINE m == NextMigration(d, r)  h == db[d]
  <1>1. h \in History /\ r \in Releases
    BY DEF Typed, Good
  <1>2. PICK i \in DOMAIN Directory[r] :
          /\ m = Directory[r][i] /\ m \in Migrations \ h.done
          /\ \A j \in 1..(i - 1) : Directory[r][j] \in h.done
    BY <1>1, NextIs
  <1>3. Directory[r] \in Seq(Migrations) /\ DOMAIN Directory[r] = 1..Len(Directory[r])
        /\ Len(Directory[r]) \in Nat
    BY <1>1 DEF DeploymentAssumption, Migrations
  <1>4. m \in Successors
    BY <1>2 DEF Good, PolicyHolds, Migrations, Range
  <1>5. Begun(h, m).done = h.done /\ Begun(h, m).schema = h.schema
        /\ Begun(h, m).broken = {m} /\ Begun(h, m).table
    BY <1>1 DEF Begun, History
  <1>6. Fits(h, {})
    <2>1. PICK left \in SUBSET h.broken : Fits(h, left)
      BY DEF Modern
    <2>2. left = {}
      OBVIOUS
    <2> QED BY <2>1, <2>2
  <1>7. Follows(Begun(h, m), r, m)
    BY <1>2, <1>5 DEF Follows
  <1>13. Named(Begun(h, m)) \cap Legacy = {}
    BY <1>4, <1>5 DEF Modern, Named, Successors, DeploymentAssumption
  <1>14. Fits(Begun(h, m), {})
    BY <1>5, <1>6 DEF Fits
  <1>15. Created(Begun(h, m).done) \subseteq Begun(h, m).schema
    BY <1>5 DEF Modern
  <1> QED BY <1>2, <1>4, <1>5, <1>7, <1>13, <1>14, <1>15 DEF Ready, Modern

(* What a migration under way creates is not there, but for what another   *)
(* migration or an accepted drift creates; what it must find is there, but *)
(* for what its chain lacks and the audit does not look for.               *)
LEMMA ReadyIsExplained ==
  ASSUME DeploymentAssumption, NEW h \in History, NEW r, Good(r), NEW m, Ready(h, r, m)
  PROVE  /\ m \in Migrations /\ m \notin Legacy
         /\ Clashes(m) \/ Creates[m] \cap h.schema = {}
         /\ Lacks(r, m) \/ Needs[m] \subseteq h.schema
  <1>1. m \in Successors \ h.done /\ m \in Migrations /\ m \notin Legacy
    BY DEF Ready, Successors, Migrations, DeploymentAssumption
  <1>2. ASSUME NEW x \in Creates[m], x \in h.schema PROVE Clashes(m)
    <2>1. CASE x \in Created(h.done)
      <3>1. PICK n \in h.done : x \in Creates[n]
        BY <2>1 DEF Created
      <3>2. n \in Successors \ {m}
        BY <1>1, <3>1 DEF Ready, Modern, Named, History, Migrations
      <3>3. x \in Created(Successors \ {m})
        BY <3>1, <3>2 DEF Created
      <3> QED BY <1>2, <3>3 DEF Clashes
    <2>2. CASE x \notin Created(h.done)
      <3>1. h.done \cup {} = h.done
        OBVIOUS
      <3>2. x \in h.schema \ Created(h.done \cup {})
        BY <1>2, <2>2, <3>1
      <3>3. x \in UNION AcceptedDrifts
        BY <3>2 DEF Ready, Fits
      <3> QED BY <1>2, <3>3 DEF Clashes
    <2> QED BY <2>1, <2>2
  <1>3. ASSUME NEW x \in Needs[m], x \notin h.schema PROVE Lacks(r, m)
    <2>1. PICK i \in DOMAIN Directory[r] :
            Directory[r][i] = m /\ {Directory[r][j] : j \in 1..(i - 1)} \subseteq h.done
      BY DEF Ready, Follows
    <2> DEFINE before == {Directory[r][j] : j \in 1..(i - 1)}
    <2>2. i \in Nat
      <3>1. Directory[r] \in Seq(Legacy \cup Successors)
        BY DEF DeploymentAssumption, Good
      <3>2. DOMAIN Directory[r] = 1..Len(Directory[r]) /\ Len(Directory[r]) \in Nat
        BY <3>1
      <3> QED BY <3>2
    <2>3. before \in SUBSET Migrations /\ h.done \in SUBSET Migrations /\ {m} \in SUBSET Migrations
      BY <1>1, <2>1 DEF History
    <2>4. x \notin Created(before)
      <3>1. Created(before) \subseteq Created(h.done) /\ Created(h.done) \subseteq h.schema
        BY <2>1, <2>3, CreatedOf DEF Ready, Modern
      <3> QED BY <1>3, <3>1
    <2>5. x \notin Creates[m]
      BY <1>1, <1>3 DEF DeploymentAssumption
    <2>6. x \notin Alters[m]
      <3>1. Alters[m] \subseteq Created({Directory[r][j] : j \in 1..i})
        BY <2>1 DEF Good, AuditPasses
      <3>2. {Directory[r][j] : j \in 1..i} \subseteq before \cup {m}
        <4>1. ASSUME NEW j \in 1..i PROVE Directory[r][j] \in before \cup {m}
          <5>1. j = i \/ j \in 1..(i - 1)
            BY <2>2
          <5> QED BY <2>1, <5>1
        <4> QED BY <4>1
      <3> HIDE DEF before
      <3>3. Created({Directory[r][j] : j \in 1..i}) \subseteq Created(before \cup {m})
        BY <2>3, <3>2, CreatedOf
      <3>4. Created(before \cup {m}) = Created(before) \cup Creates[m]
        <4>1. m \in Migrations /\ {m} \in SUBSET Migrations
          BY <1>1
        <4>2. Created(before \cup {m}) = Created(before) \cup Created({m})
          BY <2>3, <4>1, CreatedOf
        <4> QED BY <4>1, <4>2, CreatedOf
      <3> QED BY <2>4, <2>5, <3>1, <3>3, <3>4
    <2> QED BY <1>3, <2>1, <2>4, <2>6 DEF Lacks
  <1> QED BY <1>1, <1>2, <1>3

LEMMA AppliedIsModern ==
  ASSUME DeploymentAssumption, NEW h \in History, NEW r, NEW m, Ready(h, r, m),
         Creates[m] \cap h.schema = {}
  PROVE  Modern(Applied(h, m))
  <1>1. m \in Migrations /\ m \notin Legacy
    BY DEF Ready, Successors, Migrations, DeploymentAssumption
  <1>2. /\ Applied(h, m).done = h.done \cup {m} /\ Applied(h, m).broken = h.broken \ {m}
        /\ Applied(h, m).schema = h.schema \cup Creates[m]
    BY DEF Applied, History
  <1>3. Created(h.done \cup {m}) = Created(h.done) \cup Creates[m]
    <2>1. h.done \in SUBSET Migrations /\ {m} \in SUBSET Migrations
      BY <1>1 DEF History
    <2>2. Created(h.done \cup {m}) = Created(h.done) \cup Created({m})
      BY <2>1, CreatedOf
    <2>3. Created({m}) = Creates[m]
      BY <1>1, CreatedOf
    <2> QED BY <2>2, <2>3
  <1>4. (h.schema \cup Creates[m]) \ (Created(h.done) \cup Creates[m]) = h.schema \ Created(h.done)
    BY <1>1
  <1>5. Fits(Applied(h, m), {})
    <2>1. (h.done \cup {m}) \cup {} = h.done \cup {m} /\ h.done \cup {} = h.done
      OBVIOUS
    <2> QED BY <1>2, <1>3, <1>4, <2>1 DEF Ready, Fits
  <1>6. Named(Applied(h, m)) \cap Legacy = {}
    BY <1>1, <1>2 DEF Ready, Modern, Named
  <1>7. Created(Applied(h, m).done) \subseteq Applied(h, m).schema
    BY <1>2, <1>3 DEF Ready, Modern
  <1> QED BY <1>5, <1>6, <1>7 DEF Modern

LEMMA HalfIsModern ==
  ASSUME DeploymentAssumption, NEW h \in History, NEW r, NEW m, Ready(h, r, m),
         Creates[m] \cap h.schema = {}
  PROVE  Modern(Half(h, m))
  <1>1. m \in Migrations /\ m \notin Legacy
    BY DEF Ready, Successors, Migrations, DeploymentAssumption
  <1>2. /\ Half(h, m).done = h.done /\ Half(h, m).broken = h.broken
        /\ Half(h, m).schema = h.schema \cup Creates[m]
    BY DEF Half, History
  <1>3. Created(h.done \cup {m}) = Created(h.done) \cup Creates[m]
    <2>1. h.done \in SUBSET Migrations /\ {m} \in SUBSET Migrations
      BY <1>1 DEF History
    <2>2. Created(h.done \cup {m}) = Created(h.done) \cup Created({m})
      BY <2>1, CreatedOf
    <2>3. Created({m}) = Creates[m]
      BY <1>1, CreatedOf
    <2> QED BY <2>2, <2>3
  <1>4. (h.schema \cup Creates[m]) \ (Created(h.done) \cup Creates[m]) = h.schema \ Created(h.done)
    BY <1>1
  <1>5. Fits(Half(h, m), {m}) /\ {m} \in SUBSET Half(h, m).broken
    <2>1. h.done \cup {} = h.done
      OBVIOUS
    <2> QED BY <1>2, <1>3, <1>4, <2>1 DEF Ready, Fits
  <1>6. Named(Half(h, m)) \cap Legacy = {} /\ Created(Half(h, m).done) \subseteq Half(h, m).schema
    BY <1>1, <1>2 DEF Ready, Modern, Named
  <1> QED BY <1>5, <1>6 DEF Modern

LEMMA LateKeeps ==
  ASSUME NEW h \in History
  PROVE  /\ Late(h) \in History /\ Named(Late(h)) = Named(h) /\ Late(h).schema = h.schema
         /\ Late(h).table = h.table /\ Late(h).late
         /\ Modern(h) => Modern(Late(h))
         /\ Tells(h) => Tells(Late(h))
         /\ \A r, m : Ready(h, r, m) => Ready(Late(h), r, m)
  <1>1. /\ Late(h) \in History /\ Late(h).done = h.done /\ Late(h).broken = h.broken
        /\ Late(h).schema = h.schema /\ Late(h).table = h.table /\ Late(h).late
    BY DEF Late, History
  <1> HIDE DEF Late
  <1>2. \A left : Fits(Late(h), left) <=> Fits(h, left)
    BY <1>1 DEF Fits
  <1> QED BY <1>1, <1>2 DEF Modern, Tells, Ready, Follows, Named

LEMMA RebasedIsModern ==
  ASSUME DeploymentAssumption, NEW h \in History, NEW seen \in History, ReplacesHistory(h, seen)
  PROVE  Modern(Rebased(h)) /\ Rebased(h).table = h.table /\ Rebased(h).schema = h.schema
         /\ Rebased(h).late = h.late /\ h.done # {} /\ Base \in Rebased(h).done
  <1>1. /\ Rebased(h).done = (h.done \cup {Base}) \ Legacy /\ Rebased(h).broken = h.broken \ Legacy
        /\ Rebased(h).schema = h.schema /\ Rebased(h).table = h.table /\ Rebased(h).late = h.late
    BY DEF Rebased, History
  <1> HIDE DEF Rebased
  <1>2. Named(h) \subseteq Legacy \cup {Base} /\ (Base \in h.done \/ Legacy \subseteq h.done)
    BY DEF ReplacesHistory, WritesBackup, RecognizedHistory
  <1>3. Rebased(h).done = {Base} /\ h.done # {}
    BY <1>1, <1>2 DEF DeploymentAssumption, Named
  <1>4. PICK drift \in AcceptedDrifts : h.schema = Baseline \cup drift
    BY DEF ReplacesHistory, KnownFingerprint
  <1>5. drift \cap Baseline = {}
    BY DEF DeploymentAssumption
  <1>6. Created({Base}) = Baseline
    <2>1. Base \in Migrations
      BY DEF Migrations, Successors
    <2> QED BY <2>1, CreatedOf DEF DeploymentAssumption
  <1>7. Fits(Rebased(h), {})
    <2>1. Rebased(h).done \cup {} = {Base}
      BY <1>3
    <2>2. (Baseline \cup drift) \ Baseline = drift
      BY <1>5
    <2>3. Rebased(h).schema \ Created(Rebased(h).done \cup {}) = drift
      BY <1>1, <1>4, <1>6, <2>1, <2>2
    <2> QED BY <2>3 DEF Fits
  <1>8. Named(Rebased(h)) \cap Legacy = {}
    BY <1>1, <1>3 DEF Named, DeploymentAssumption
  <1>9. Created(Rebased(h).done) \subseteq Rebased(h).schema
    BY <1>1, <1>3, <1>4, <1>6
  <1> QED BY <1>1, <1>3, <1>7, <1>8, <1>9 DEF Modern

LEMMA ModernIsNotReplaced ==
  ASSUME DeploymentAssumption, NEW h \in History, Modern(h), NEW seen
  PROVE  ~ReplacesHistory(h, seen)
  <1>1. SUFFICES ASSUME ReplacesHistory(h, seen) PROVE FALSE
    OBVIOUS
  <1>2. Base \in h.done \/ Legacy \subseteq h.done
    BY <1>1 DEF ReplacesHistory, WritesBackup, RecognizedHistory, Consolidated
  <1>3. Base \in h.done
    BY <1>2 DEF Modern, Named, DeploymentAssumption
  <1> QED BY <1>1, <1>3 DEF ReplacesHistory, Consolidated, Modern
-----------------------------------------------------------------------------
(* A database without a migration table has no history.                    *)
Bare(h) == ~h.table => Named(h) = {} /\ ~h.late

(* Why a migration of a release was refused.                               *)
Explained(h, r, m) == Lacks(r, m) \/ Clashes(m) \/ (m \in Requires /\ h.late /\ h.table)

(* What is known of a database, of a dump and of a pipeline that has begun *)
(* to migrate: the databases the pipelines share change under a lock, so   *)
(* nobody else migrates one that a pipeline is migrating.                  *)
DatabaseHolds(d) ==
    /\ restored[d] # "over" =>
        /\ Tells(db[d]) /\ Bare(db[d])
        /\ \A r \in Releases, m \in Migrations :
            <<d, r, m>> \in refused => Explained(db[d], r, m)
    /\ d = "spare" /\ restored[d] = "no" => Modern(db[d])

(* What a process that is about to change the history knows of it: what    *)
(* the cutover saw is there unless a history has begun, a history that is  *)
(* about to be migrated is modern, and one that is being migrated is of    *)
(* the process that holds the lock. Nothing migrates a restored database   *)
(* but pipelines.                                                          *)
Seeing(q) ==
    q \in Pipes /\ At(q, "cutover") =>
        /\ Named(db["live"]) = {} => job[q].seen.schema = db["live"].schema
        /\ job[q].seen.schema = {} /\ ~job[q].seen.table => Modern(db["live"])
(* What a pipeline in the middle of a migration has seen of its database.  *)
Migrating(q) ==
    LET d == DatabaseOf(q) IN
    /\ (q \in Pipes /\ At(q, "copy") /\ job[q].ok) \/ job[q].pc \in {"migrate", "applying"} =>
        Modern(db[d])
    /\ At(q, "applying") => lock[d] = q /\ Ready(db[d], job[q].staged, job[q].next)
    /\ d = "spare" /\ restored[d] = "clean" => job[q].pc \notin {"migrate", "applying"}
ProcessHolds(q) == restored[DatabaseOf(q)] # "over" => Seeing(q) /\ Migrating(q)

(* The dump is of the live database, before any restore.                   *)
DumpHolds ==
    /\ dump.file = None => dump.content = Empty /\ \A d \in Databases : restored[d] = "no"
    /\ Tells(dump.content) /\ Bare(dump.content)
    /\ dump.checked = "sum" => dump.file = "whole"
    /\ restored["live"] = "no" => /\ dump.content.schema \subseteq db["live"].schema
                                  /\ dump.content.table => db["live"].table

(* The invariant of the migration history.                                 *)
Inv ==
    /\ Typed /\ DumpHolds
    /\ \A d \in Databases : DatabaseHolds(d)
    /\ \A q \in Processes : ProcessHolds(q)

(* What no step but a restore takes back.                                  *)
Forward(h, g) ==
    /\ Modern(h) => Modern(g)
    /\ h.schema \subseteq g.schema /\ (h.table => g.table) /\ (h.late => g.late)
    /\ Named(g) = {} => Named(h) = {} /\ g.schema = h.schema

LEMMA SameForward ==
  ASSUME NEW h PROVE Forward(h, h)
  BY DEF Forward

LEMMA LateForward ==
  ASSUME NEW h \in History, h.table PROVE Forward(h, Late(h)) /\ Bare(Late(h))
  BY LateKeeps DEF Forward, Bare

LEMMA RebasedForward ==
  ASSUME DeploymentAssumption, NEW h \in History, NEW seen \in History, ReplacesHistory(h, seen),
         Bare(h)
  PROVE  Forward(h, Rebased(h)) /\ Bare(Rebased(h)) /\ Tells(Rebased(h))
  <1>1. /\ Modern(Rebased(h)) /\ Rebased(h).table = h.table /\ Rebased(h).schema = h.schema
        /\ Rebased(h).late = h.late /\ h.done # {} /\ Base \in Rebased(h).done
    BY RebasedIsModern
  <1>2. h.table
    BY <1>1 DEF Bare, Named
  <1>3. Named(Rebased(h)) # {}
    BY <1>1 DEF Named
  <1>4. Rebased(h) \in History
    BY CutoverIsHistory DEF Rebased
  <1> HIDE DEF Rebased
  <1>5. Tells(Rebased(h))
    BY <1>1, <1>4, ModernTells
  <1> QED BY <1>1, <1>2, <1>3, <1>5 DEF Forward, Bare

LEMMA BegunForward ==
  ASSUME NEW h \in History, NEW m \in Migrations, h.broken = {}
  PROVE  /\ \A r : Ready(Begun(h, m), r, m) => Forward(h, Begun(h, m)) /\ Tells(Begun(h, m))
         /\ Tells(h) => Tells(Begun(h, m))
         /\ Bare(Begun(h, m)) /\ Begun(h, m).table
  <1>1. /\ Begun(h, m).done = h.done /\ Begun(h, m).broken = {m} /\ Begun(h, m).table
        /\ Begun(h, m).schema = h.schema /\ Begun(h, m).late = h.late
        /\ Begun(h, m) \in History
    BY DEF Begun, History
  <1> HIDE DEF Begun
  <1>2. \A r : Ready(Begun(h, m), r, m) => Modern(Begun(h, m))
    BY DEF Ready
  <1>3. Named(Begun(h, m)) # {}
    BY <1>1 DEF Named
  <1>4. \A left : Fits(Begun(h, m), left) <=> Fits(h, left)
    BY <1>1 DEF Fits
  <1>5. Tells(h) => Tells(Begun(h, m))
    BY <1>1, <1>4 DEF Tells
  <1>6. Modern(Begun(h, m)) => Tells(Begun(h, m))
    BY <1>1, ModernTells
  <1> QED BY <1>1, <1>2, <1>3, <1>5, <1>6 DEF Forward, Bare

LEMMA AppliedForward ==
  ASSUME DeploymentAssumption, NEW h \in History, NEW r, NEW m, Ready(h, r, m),
         Creates[m] \cap h.schema = {}
  PROVE  Forward(h, Applied(h, m)) /\ Tells(Applied(h, m)) /\ Bare(Applied(h, m))
  <1>1. m \in Migrations
    BY DEF Ready, Successors, Migrations
  <1>2. /\ Applied(h, m).done = h.done \cup {m} /\ Applied(h, m).broken = h.broken \ {m}
        /\ Applied(h, m).schema = h.schema \cup Creates[m] /\ Applied(h, m).table = h.table
        /\ Applied(h, m).late = h.late
    BY DEF Applied, History
  <1>3. Applied(h, m) \in History
    BY <1>1, MigratedIsHistory
  <1>4. Modern(Applied(h, m))
    BY AppliedIsModern
  <1> HIDE DEF Applied
  <1>5. Tells(Applied(h, m)) /\ Named(Applied(h, m)) # {}
    BY <1>2, <1>3, <1>4, ModernTells DEF Named
  <1> QED BY <1>2, <1>4, <1>5 DEF Forward, Bare, Ready

LEMMA HalfForward ==
  ASSUME DeploymentAssumption, NEW h \in History, NEW r, NEW m, Ready(h, r, m),
         Creates[m] \cap h.schema = {}
  PROVE  Forward(h, Half(h, m)) /\ Tells(Half(h, m)) /\ Bare(Half(h, m))
  <1>1. m \in Migrations
    BY DEF Ready, Successors, Migrations
  <1>2. /\ Half(h, m).done = h.done /\ Half(h, m).broken = h.broken
        /\ Half(h, m).schema = h.schema \cup Creates[m] /\ Half(h, m).table = h.table
        /\ Half(h, m).late = h.late
    BY DEF Half, History
  <1>3. Half(h, m) \in History
    BY <1>1, MigratedIsHistory
  <1>4. Modern(Half(h, m))
    BY HalfIsModern
  <1> HIDE DEF Half
  <1>5. Tells(Half(h, m)) /\ Named(Half(h, m)) # {}
    BY <1>2, <1>3, <1>4, ModernTells DEF Named, Ready
  <1> QED BY <1>2, <1>4, <1>5 DEF Forward, Bare, Ready
(* The steps but a restore go forward in every database, and disturb no    *)
(* migration of another process; what they add to what was refused is      *)
(* explained.                                                              *)
Advances(d) == Tells(db'[d]) /\ Bare(db'[d]) /\ Forward(db[d], db'[d])
(* What a step leaves a process that is in the middle of a migration: the  *)
(* lock and the database, but for rows that come late.                     *)
Undisturbed(q) ==
    LET d == DatabaseOf(q) IN
    At(q, "applying") /\ restored[d] # "over" =>
        lock'[d] = lock[d] /\ db'[d] \in {db[d], Late(db[d])}
Refuses(d) ==
    \A r \in Releases, m \in Migrations :
        <<d, r, m>> \in refused' => <<d, r, m>> \in refused \/ Explained(db'[d], r, m)
(* A step of p takes nothing back in any database, refuses no migration    *)
(* without an explanation and disturbs nobody else.                        *)
Advancing(p) ==
    /\ UNCHANGED restored
    /\ \A d \in Databases : restored[d] # "over" => Advances(d) /\ Refuses(d)
    /\ \A q \in Processes \ {p} : Undisturbed(q)

LEMMA NothingAdvances ==
  ASSUME Inv, UNCHANGED <<db, restored, refused, lock>>, NEW p
  PROVE  Advancing(p)
  <1>1. \A d \in Databases : restored[d] # "over" => Advances(d) /\ Refuses(d)
    BY SameForward DEF Inv, DatabaseHolds, Advances, Refuses
  <1> QED BY <1>1 DEF Advancing, Undisturbed

LEMMA LockedOut ==
  ASSUME DeploymentAssumption, Inv, NEW p \in Processes, NEW q \in Processes \ {p}, At(q, "applying"),
         restored[DatabaseOf(q)] # "over"
  PROVE  lock[DatabaseOf(q)] = q /\ q # None /\ lock[DatabaseOf(q)] \notin {None, p}
  <1>1. lock[DatabaseOf(q)] = q
    BY DEF Inv, ProcessHolds, Migrating
  <1>2. q # None
    BY DEF Processes, DeploymentAssumption, Boot, None
  <1> QED BY <1>1, <1>2

LEMMA CutoverAdvances ==
  ASSUME DeploymentAssumption, Inv, NEW p \in Pipes, Cutover(p)
  PROVE  Advancing(p)
  <1>1. /\ db' = IF ReplacesHistory(db["live"], job[p].seen)
                 THEN [db EXCEPT !["live"] = Rebased(db["live"])] ELSE db
        /\ UNCHANGED <<restored, codeDir, lock, refused, dump>>
    BY CutoverReplaces DEF Inv
  <1>2. db["live"] \in History /\ job[p].seen \in History /\ "live" \in Databases
        /\ db \in [Databases -> History]
    BY DEF Inv, Typed, Databases, Processes, Job
  <1>3. CASE ~ReplacesHistory(db["live"], job[p].seen)
    <2>1. UNCHANGED <<db, restored, refused, lock>>
      BY <1>1, <1>3
    <2> QED BY <2>1, NothingAdvances
  <1>4. CASE ReplacesHistory(db["live"], job[p].seen)
    <2>1. db' = [db EXCEPT !["live"] = Rebased(db["live"])]
      BY <1>1, <1>4
    <2>2. /\ db'["live"] = Rebased(db["live"])
          /\ \A d \in Databases \ {"live"} : db'[d] = db[d]
      BY <1>2, <2>1
    <2>3. ASSUME restored["live"] # "over" PROVE Advances("live")
      <3>1. Bare(db["live"])
        BY <1>2, <2>3 DEF Inv, DatabaseHolds
      <3> QED BY <1>2, <1>4, <2>2, <3>1, RebasedForward DEF Advances
    <2>4. ASSUME NEW d \in Databases \ {"live"}, restored[d] # "over" PROVE Advances(d)
      BY <2>2, <2>4, SameForward DEF Inv, DatabaseHolds, Advances
    <2>5. \A d \in Databases : Refuses(d)
      BY <1>1 DEF Refuses
    <2>6. ASSUME NEW q \in Processes \ {p}, At(q, "applying"), restored[DatabaseOf(q)] # "over"
          PROVE  db'[DatabaseOf(q)] = db[DatabaseOf(q)]
      <3>1. Ready(db[DatabaseOf(q)], job[q].staged, job[q].next)
        BY <2>6 DEF Inv, ProcessHolds, Migrating
      <3>2. Modern(db[DatabaseOf(q)])
        BY <3>1 DEF Ready
      <3>3. DatabaseOf(q) # "live"
        BY <1>2, <1>4, <3>2, ModernIsNotReplaced
      <3>4. DatabaseOf(q) \in Databases
        BY DEF DatabaseOf, Databases
      <3> QED BY <2>2, <3>3, <3>4
    <2> QED BY <1>1, <2>3, <2>4, <2>5, <2>6 DEF Advancing, Undisturbed
  <1> QED BY <1>3, <1>4

LEMMA MigrateStartAdvances ==
  ASSUME DeploymentAssumption, Inv, NEW p \in Processes, MigrateStart(p)
  PROVE  /\ Advancing(p)
         /\ job'[p].pc = "applying" /\ restored[DatabaseOf(p)] # "over" =>
              lock'[DatabaseOf(p)] = p /\ Ready(db'[DatabaseOf(p)], job'[p].staged, job'[p].next)
  <1> DEFINE d == DatabaseOf(p)  r == job[p].staged  m == NextMigration(d, r)
  <1>1. /\ UNCHANGED <<restored, codeDir, refused, dump>> /\ At(p, "migrate")
        /\ \/ db' = db /\ job'[p].pc \notin Risky /\ Released(p, d)
           \/ Begins(p, d, r)
    BY MigrateStartMoves DEF Inv
  <1>2. /\ d \in Databases /\ db \in [Databases -> History] /\ db[d] \in History
        /\ lock \in [Databases -> Processes \cup {None}] /\ Good(r)
    BY <1>1 DEF Inv, Typed, Databases, DatabaseOf, Passed, At
  <1>3. \A e \in Databases : Refuses(e)
    BY <1>1 DEF Refuses
  <1>4. CASE db' = db /\ job'[p].pc \notin Risky /\ Released(p, d)
    <2>1. \A e \in Databases : restored[e] # "over" => Advances(e)
      BY <1>4, SameForward DEF Inv, DatabaseHolds, Advances
    <2>2. \A q \in Processes \ {p} : Undisturbed(q)
      <3>1. ASSUME NEW q \in Processes \ {p}, At(q, "applying"), restored[DatabaseOf(q)] # "over"
            PROVE  lock'[DatabaseOf(q)] = lock[DatabaseOf(q)]
        <4>1. lock[DatabaseOf(q)] \notin {None, p}
          BY <3>1, LockedOut
        <4>2. CASE lock' = lock
          BY <4>2
        <4>3. CASE lock[d] \in {None, p} /\ lock' = [lock EXCEPT ![d] = None]
          <5>1. DatabaseOf(q) # d /\ DatabaseOf(q) \in Databases
            BY <4>1, <4>3 DEF DatabaseOf, Databases
          <5> QED BY <1>2, <4>3, <5>1
        <4> QED BY <1>4, <4>2, <4>3 DEF Released
      <3> QED BY <1>4, <3>1 DEF Undisturbed
    <2>3. job'[p].pc # "applying"
      BY <1>4 DEF Risky
    <2> QED BY <1>1, <1>3, <2>1, <2>2, <2>3 DEF Advancing
  <1>5. CASE Begins(p, d, r)
    <2>1. /\ db[d].broken = {} /\ Pending(d, r) # {} /\ lock[d] \in {None, p}
          /\ db' = [db EXCEPT ![d] = Begun(db[d], m)] /\ lock' = [lock EXCEPT ![d] = p]
          /\ job'[p].next = m /\ job'[p].staged = r
      BY <1>5 DEF Begins
    <2>2. /\ db'[d] = Begun(db[d], m) /\ lock'[d] = p
          /\ \A e \in Databases \ {d} : db'[e] = db[e] /\ lock'[e] = lock[e]
      BY <1>2, <2>1
    <2>3. m \in Migrations
      BY <1>2, <2>1, NextIs DEF Good
    <2>4. ASSUME restored[d] # "over" PROVE Ready(db'[d], r, m)
      <3>1. Modern(db[d])
        BY <1>1, <2>4 DEF Inv, ProcessHolds, Migrating, At
      <3> QED BY <1>2, <2>1, <2>2, <3>1, BegunIsReady DEF Inv
    <2>5. ASSUME restored[d] # "over" PROVE Advances(d)
      BY <1>2, <2>1, <2>2, <2>3, <2>4, <2>5, BegunForward DEF Advances
    <2>6. ASSUME NEW e \in Databases \ {d}, restored[e] # "over" PROVE Advances(e)
      BY <2>2, <2>6, SameForward DEF Inv, DatabaseHolds, Advances
    <2>7. \A q \in Processes \ {p} : Undisturbed(q)
      <3>1. ASSUME NEW q \in Processes \ {p}, At(q, "applying"), restored[DatabaseOf(q)] # "over"
            PROVE  DatabaseOf(q) \in Databases \ {d}
        BY <1>2, <2>1, <3>1, LockedOut DEF DatabaseOf, Databases
      <3> QED BY <2>2, <3>1 DEF Undisturbed
    <2> QED BY <1>1, <1>3, <2>1, <2>2, <2>4, <2>5, <2>6, <2>7 DEF Advancing
  <1> QED BY <1>1, <1>4, <1>5
LEMMA ApplyAdvances ==
  ASSUME DeploymentAssumption, Inv, NEW p \in Processes, Apply(p)
  PROVE  /\ Advancing(p)
         /\ job'[p].pc = "migrate" /\ restored[DatabaseOf(p)] # "over" =>
              Modern(db'[DatabaseOf(p)])
  <1> DEFINE d == DatabaseOf(p)  r == job[p].staged  m == job[p].next
  <1>1. /\ UNCHANGED <<restored, codeDir, dump>> /\ At(p, "applying")
        /\ \/ /\ Accepts(d, m) /\ db' = [db EXCEPT ![d] = Applied(db[d], m)]
              /\ job'[p].pc = "migrate" /\ UNCHANGED <<lock, refused>>
           \/ /\ ~Accepts(d, m) /\ db' = db /\ job'[p].pc = "stopped"
              /\ refused' = refused \cup {<<d, r, m>>} /\ lock' = [lock EXCEPT ![d] = None]
    BY ApplyMoves DEF Inv
  <1>2. /\ d \in Databases /\ db \in [Databases -> History] /\ db[d] \in History
        /\ lock \in [Databases -> Processes \cup {None}] /\ m \in Migrations /\ Good(r)
    BY <1>1 DEF Inv, Typed, Databases, DatabaseOf, Passed, At
  <1>3. restored[d] # "over" => lock[d] = p /\ Ready(db[d], r, m)
    BY <1>1 DEF Inv, ProcessHolds, Migrating
  <1>4. ASSUME NEW q \in Processes \ {p}, At(q, "applying"), restored[DatabaseOf(q)] # "over"
        PROVE  DatabaseOf(q) \in Databases \ {d}
    <2>1. lock[DatabaseOf(q)] = q
      BY <1>4, LockedOut
    <2> QED BY <1>3, <1>4, <2>1 DEF DatabaseOf, Databases
  <1>5. CASE /\ Accepts(d, m) /\ db' = [db EXCEPT ![d] = Applied(db[d], m)]
             /\ job'[p].pc = "migrate" /\ UNCHANGED <<lock, refused>>
    <2>1. /\ db'[d] = Applied(db[d], m) /\ \A e \in Databases \ {d} : db'[e] = db[e]
      BY <1>2, <1>5
    <2>2. ASSUME restored[d] # "over" PROVE Advances(d) /\ Modern(db'[d])
      BY <1>2, <1>3, <1>5, <2>1, <2>2, AppliedForward, AppliedIsModern DEF Advances, Accepts
    <2>3. ASSUME NEW e \in Databases \ {d}, restored[e] # "over" PROVE Advances(e)
      BY <2>1, <2>3, SameForward DEF Inv, DatabaseHolds, Advances
    <2>4. \A e \in Databases : Refuses(e)
      BY <1>5 DEF Refuses
    <2>5. \A q \in Processes \ {p} : Undisturbed(q)
      BY <1>4, <1>5, <2>1 DEF Undisturbed
    <2> QED BY <1>1, <2>2, <2>3, <2>4, <2>5 DEF Advancing
  <1>6. CASE /\ ~Accepts(d, m) /\ db' = db /\ job'[p].pc = "stopped"
             /\ refused' = refused \cup {<<d, r, m>>} /\ lock' = [lock EXCEPT ![d] = None]
    <2>1. \A e \in Databases : restored[e] # "over" => Advances(e)
      BY <1>6, SameForward DEF Inv, DatabaseHolds, Advances
    <2>2. ASSUME restored[d] # "over" PROVE Explained(db'[d], r, m)
      <3>1. Clashes(m) \/ Creates[m] \cap db[d].schema = {}
        BY <1>2, <1>3, <2>2, ReadyIsExplained
      <3>2. Lacks(r, m) \/ Needs[m] \subseteq db[d].schema
        BY <1>2, <1>3, <2>2, ReadyIsExplained
      <3>3. db[d].table
        BY <1>3, <2>2 DEF Ready
      <3> QED BY <1>6, <3>1, <3>2, <3>3 DEF Accepts, Explained
    <2>3. \A e \in Databases : restored[e] # "over" => Refuses(e)
      BY <1>6, <2>2 DEF Refuses
    <2>4. \A q \in Processes \ {p} : Undisturbed(q)
      <3>1. ASSUME NEW q \in Processes \ {p}, At(q, "applying"), restored[DatabaseOf(q)] # "over"
            PROVE  lock'[DatabaseOf(q)] = lock[DatabaseOf(q)]
        BY <1>2, <1>4, <1>6, <3>1
      <3> QED BY <1>6, <3>1 DEF Undisturbed
    <2> QED BY <1>1, <1>6, <2>1, <2>3, <2>4 DEF Advancing
  <1> QED BY <1>1, <1>5, <1>6

LEMMA InterruptedAdvances ==
  ASSUME DeploymentAssumption, Inv, NEW p \in Processes,
         MigrateDies(p) \/ (p \in Pipes /\ ContainerGone(p))
  PROVE  Advancing(p)
  <1> DEFINE d == DatabaseOf(p)  m == job[p].next
  <1>1. /\ UNCHANGED <<restored, codeDir, refused, dump>> /\ job'[p].pc = "stopped"
        /\ lock' = [lock EXCEPT ![d] = IF @ = p THEN None ELSE @]
        /\ \/ db' = db
           \/ At(p, "applying") /\ Accepts(d, m) /\ db' = [db EXCEPT ![d] = Half(db[d], m)]
    BY InterruptedMoves DEF Inv
  <1>2. /\ d \in Databases /\ db \in [Databases -> History] /\ db[d] \in History
        /\ lock \in [Databases -> Processes \cup {None}]
    BY DEF Inv, Typed, Databases, DatabaseOf
  <1>3. \A e \in Databases : Refuses(e)
    BY <1>1 DEF Refuses
  <1>4. ASSUME NEW q \in Processes \ {p}, At(q, "applying"), restored[DatabaseOf(q)] # "over"
        PROVE  lock'[DatabaseOf(q)] = lock[DatabaseOf(q)] /\ lock[DatabaseOf(q)] = q
               /\ DatabaseOf(q) \in Databases
    <2>1. lock[DatabaseOf(q)] = q /\ DatabaseOf(q) \in Databases
      BY <1>4, LockedOut DEF DatabaseOf, Databases
    <2> QED BY <1>1, <1>2, <1>4, <2>1
  <1>5. CASE db' = db
    <2>1. \A e \in Databases : restored[e] # "over" => Advances(e)
      BY <1>5, SameForward DEF Inv, DatabaseHolds, Advances
    <2>2. \A q \in Processes \ {p} : Undisturbed(q)
      BY <1>4, <1>5 DEF Undisturbed
    <2> QED BY <1>1, <1>3, <2>1, <2>2 DEF Advancing
  <1>6. CASE At(p, "applying") /\ Accepts(d, m) /\ db' = [db EXCEPT ![d] = Half(db[d], m)]
    <2>1. /\ db'[d] = Half(db[d], m) /\ \A e \in Databases \ {d} : db'[e] = db[e]
      BY <1>2, <1>6
    <2>2. restored[d] # "over" => lock[d] = p /\ Ready(db[d], job[p].staged, m)
      BY <1>6 DEF Inv, ProcessHolds, Migrating
    <2>3. ASSUME restored[d] # "over" PROVE Advances(d)
      BY <1>2, <1>6, <2>1, <2>2, <2>3, HalfForward DEF Advances, Accepts
    <2>4. ASSUME NEW e \in Databases \ {d}, restored[e] # "over" PROVE Advances(e)
      BY <2>1, <2>4, SameForward DEF Inv, DatabaseHolds, Advances
    <2>5. \A q \in Processes \ {p} : Undisturbed(q)
      <3>1. ASSUME NEW q \in Processes \ {p}, At(q, "applying"), restored[DatabaseOf(q)] # "over"
            PROVE  db'[DatabaseOf(q)] = db[DatabaseOf(q)]
        <4>1. DatabaseOf(q) # d
          BY <1>4, <2>2, <3>1
        <4> QED BY <1>4, <2>1, <3>1, <4>1
      <3> QED BY <1>4, <3>1 DEF Undisturbed
    <2> QED BY <1>1, <1>3, <2>3, <2>4, <2>5 DEF Advancing
  <1> QED BY <1>1, <1>5, <1>6

LEMMA WriteNullAdvances ==
  ASSUME DeploymentAssumption, Inv, WriteNull, NEW p
  PROVE  Advancing(p)
  <1>1. /\ db' = [db EXCEPT !["live"] = Late(db["live"])] /\ db["live"].done # {}
        /\ UNCHANGED <<job, restored, codeDir, lock, refused, dump>>
    BY WriteNullWrites DEF Inv
  <1>2. "live" \in Databases /\ db \in [Databases -> History] /\ db["live"] \in History
    BY DEF Inv, Typed, Databases
  <1>3. /\ db'["live"] = Late(db["live"]) /\ \A e \in Databases \ {"live"} : db'[e] = db[e]
    BY <1>1, <1>2
  <1>4. ASSUME restored["live"] # "over" PROVE Advances("live")
    <2>1. Bare(db["live"]) /\ Tells(db["live"])
      BY <1>2, <1>4 DEF Inv, DatabaseHolds
    <2>2. db["live"].table
      BY <1>1, <2>1 DEF Bare, Named
    <2> QED BY <1>2, <1>3, <2>1, <2>2, LateForward, LateKeeps DEF Advances
  <1>5. ASSUME NEW e \in Databases \ {"live"}, restored[e] # "over" PROVE Advances(e)
    BY <1>3, <1>5, SameForward DEF Inv, DatabaseHolds, Advances
  <1>6. \A e \in Databases : Refuses(e)
    BY <1>1 DEF Refuses
  <1>7. \A q \in Processes : Undisturbed(q)
    BY <1>1, <1>3 DEF Undisturbed, DatabaseOf, Databases
  <1> QED BY <1>1, <1>4, <1>5, <1>6, <1>7 DEF Advancing
LEMMA StillHolds ==
  ASSUME DeploymentAssumption, Inv, NEW p, Advancing(p), NEW q \in Processes \ {p}, Kept(q)
  PROVE  ProcessHolds(q)'
  <1> DEFINE d == DatabaseOf(q)
  <1>1. SUFFICES ASSUME restored[d] # "over" PROVE Seeing(q)' /\ Migrating(q)'
    BY DEF Advancing, ProcessHolds
  <1>2. d \in Databases /\ Seeing(q) /\ Migrating(q) /\ restored' = restored
        /\ db[d] \in History
    BY <1>1 DEF Inv, ProcessHolds, DatabaseOf, Databases, Advancing, Typed
  <1>3. Forward(db[d], db'[d]) /\ Undisturbed(q)
    BY <1>1, <1>2 DEF Advancing, Advances
  <1>4. CASE job'[q].pc \notin Risky \/ job'[q].pc \in {"stage", "stopped"}
    BY <1>4 DEF Seeing, Migrating, At, Risky
  <1>5. CASE job'[q].pc # "stopped" /\ Still(q)
    <2>1. /\ job'[q].pc = job[q].pc /\ job'[q].seen = job[q].seen /\ job'[q].ok = job[q].ok
          /\ job'[q].next = job[q].next /\ job'[q].staged = job[q].staged
      BY <1>5 DEF Still
    <2>2. Seeing(q)'
      <3>1. ASSUME q \in Pipes, job[q].pc = "cutover"
            PROVE  /\ Named(db'["live"]) = {} => job[q].seen.schema = db'["live"].schema
                   /\ job[q].seen.schema = {} /\ ~job[q].seen.table => Modern(db'["live"])
        <4>1. d = "live"
          BY <3>1 DEF DatabaseOf, DeploymentAssumption
        <4> QED BY <1>2, <1>3, <3>1, <4>1 DEF Seeing, Forward, At
      <3>2. CASE q \in Pipes /\ job[q].pc = "cutover"
        BY <2>1, <3>1, <3>2 DEF Seeing, At
      <3>3. CASE ~(q \in Pipes /\ job[q].pc = "cutover")
        BY <2>1, <3>3 DEF Seeing, At
      <3> QED BY <3>2, <3>3
    <2>3. Migrating(q)'
      <3>1. (q \in Pipes /\ At(q, "copy") /\ job[q].ok) \/ job[q].pc \in {"migrate", "applying"} =>
              Modern(db'[d])
        BY <1>2, <1>3 DEF Migrating, Forward
      <3>2. ASSUME At(q, "applying") PROVE lock'[d] = q /\ Ready(db'[d], job[q].staged, job[q].next)
        BY <1>1, <1>2, <1>3, <3>2, LateKeeps DEF Migrating, Undisturbed
      <3> QED BY <1>2, <2>1, <3>1, <3>2 DEF Migrating, At
    <2> QED BY <2>2, <2>3
  <1> QED BY <1>4, <1>5 DEF Kept

LEMMA DatabaseHoldsNext ==
  ASSUME Inv, NEW p, Advancing(p), NEW d \in Databases
  PROVE  DatabaseHolds(d)'
  <1>1. CASE restored[d] = "over"
    BY <1>1 DEF Advancing, DatabaseHolds
  <1>2. CASE restored[d] # "over"
    <2>1. Tells(db'[d]) /\ Bare(db'[d]) /\ Forward(db[d], db'[d]) /\ Refuses(d)
          /\ restored' = restored
      BY <1>2 DEF Advancing, Advances
    <2>2. /\ \A r \in Releases, m \in Migrations :
               <<d, r, m>> \in refused => Explained(db[d], r, m)
          /\ d = "spare" /\ restored[d] = "no" => Modern(db[d])
      BY <1>2 DEF Inv, DatabaseHolds
    <2>3. ASSUME NEW r \in Releases, NEW m \in Migrations, <<d, r, m>> \in refused'
          PROVE  Explained(db'[d], r, m)
      BY <2>1, <2>2, <2>3 DEF Refuses, Forward, Explained
    <2>4. d = "spare" /\ restored'[d] = "no" => Modern(db'[d])
      BY <2>1, <2>2 DEF Forward
    <2> QED BY <2>1, <2>3, <2>4 DEF DatabaseHolds
  <1> QED BY <1>1, <1>2

LEMMA DumpHoldsNext ==
  ASSUME Inv, NEW p, Advancing(p), UNCHANGED dump
  PROVE  DumpHolds'
  <1>1. UNCHANGED restored /\ (restored["live"] # "over" => Forward(db["live"], db'["live"]))
    BY DEF Advancing, Advances, Databases
  <1>2. restored["live"] = "no" => /\ dump.content.schema \subseteq db'["live"].schema
                                   /\ dump.content.table => db'["live"].table
    BY <1>1 DEF Inv, DumpHolds, Forward
  <1> QED BY <1>1, <1>2 DEF Inv, DumpHolds

LEMMA DumpHoldsArchive ==
  ASSUME Inv, Dump \/ DumpDies \/ UploadCutsShort \/ \E withManifest \in BOOLEAN : Verify(withManifest)
  PROVE  DumpHolds'
  <1>1. UNCHANGED <<db, restored>> /\ dump \in Archived /\ db["live"] \in History
    BY DEF Inv, Typed, Databases, Dump, DumpDies, UploadCutsShort, Verify
  <1>2. CASE Dump \/ DumpDies
    <2>1. dump.file = None /\ dump'.content = db["live"] /\ dump'.file # None
          /\ dump'.checked # "sum"
      BY <1>2 DEF Dump, DumpDies, None
    <2>2. restored["live"] = "no" /\ Tells(db["live"]) /\ Bare(db["live"])
      BY <2>1 DEF Inv, DumpHolds, DatabaseHolds, Databases
    <2> QED BY <1>1, <2>1, <2>2 DEF DumpHolds
  <1>3. CASE UploadCutsShort
    <2>1. dump' = [dump EXCEPT !.file = "cut"] /\ dump.checked = None /\ dump.file = "whole"
      BY <1>3 DEF UploadCutsShort
    <2>2. dump'.content = dump.content /\ dump'.checked = None /\ dump'.file = "cut"
      BY <1>1, <2>1 DEF Archived
    <2> QED BY <1>1, <2>2 DEF DumpHolds, Inv, None
  <1>4. ASSUME NEW withManifest \in BOOLEAN, Verify(withManifest) PROVE DumpHolds'
    <2>1. /\ dump.file # None /\ dump'.content = dump.content /\ dump'.file = dump.file
          /\ dump'.checked = IF withManifest THEN "sum" ELSE "list"
          /\ withManifest => dump.manifest # None /\ dump.file = dump.manifest
      BY <1>1, <1>4 DEF Verify, Archived
    <2>2. dump'.checked = "sum" => dump'.file = "whole"
      BY <1>1, <2>1 DEF Archived
    <2> QED BY <1>1, <2>1, <2>2 DEF DumpHolds, Inv
  <1> QED BY <1>2, <1>3, <1>4
LEMMA HistoriesEqual ==
  ASSUME NEW h \in History, NEW g \in History,
         h.table = g.table, h.late = g.late, h.schema = g.schema, h.done = g.done,
         h.broken = g.broken
  PROVE  h = g
  BY DEF History

LEMMA RestoreHolds ==
  ASSUME DeploymentAssumption, Inv, NEW d \in Databases, NEW alike, NEW lifted,
         Restore(d, alike, lifted)
  PROVE  /\ DumpHolds'
         /\ \A e \in Databases : DatabaseHolds(e)'
         /\ \A q \in Processes : ProcessHolds(q)'
  <1>1. /\ UNCHANGED <<job, codeDir, lock, refused, dump>>
        /\ dump.file # None /\ lock[d] = None /\ restored[d] = "no"
        /\ restored' \in [Databases -> {"no", "clean", "over"}]
        /\ \A e \in Databases \ {d} : restored'[e] = restored[e]
    BY RestoreMoves DEF Inv
  <1>2. PICK objects \in SUBSET dump.content.schema :
          /\ (objects = dump.content.schema) <=> (dump.file = "whole")
          /\ db' = [db EXCEPT ![d] = Loaded(db[d], dump.content, objects)]
    BY RestoreMoves DEF Inv
  <1>3. restored'[d] = "over" \/
          /\ restored'[d] = "clean" /\ ~db[d].table /\ db[d].schema = {}
          /\ dump.checked = "sum"
          /\ \A p \in Processes : DatabaseOf(p) = d => job[p].pc # "migrate"
    BY RestoreMoves DEF Inv
  <1>4. /\ db \in [Databases -> History] /\ db[d] \in History /\ dump.content \in History
        /\ \A e \in Databases \ {d} : db'[e] = db[e]
        /\ db'[d] = Loaded(db[d], dump.content, objects) /\ db'[d] \in History
    <2>1. db \in [Databases -> History] /\ db[d] \in History /\ dump.content \in History
      BY DEF Inv, Typed, Archived
    <2>2. Loaded(db[d], dump.content, objects) \in History
      BY <2>1, LoadedIsHistory
    <2> QED BY <1>2, <2>1, <2>2
  <1>5. DumpHolds'
    <2>1. restored'["live"] = "no" => db'["live"] = db["live"] /\ restored["live"] = "no"
      BY <1>1, <1>3, <1>4 DEF Databases
    <2> QED BY <1>1, <2>1 DEF Inv, DumpHolds
  <1>6. ASSUME NEW e \in Databases \ {d} PROVE DatabaseHolds(e)'
    BY <1>1, <1>4 DEF Inv, DatabaseHolds
  <1>7. ASSUME NEW q \in Processes, db'[DatabaseOf(q)] = db[DatabaseOf(q)],
               restored'[DatabaseOf(q)] = restored[DatabaseOf(q)] \/
                 (restored'[DatabaseOf(q)] = "clean" /\ restored[DatabaseOf(q)] = "no"
                   /\ DatabaseOf(q) # "spare")
        PROVE  ProcessHolds(q)'
    <2>1. DatabaseOf(q) \in Databases /\ (q \in Pipes => DatabaseOf(q) = "live")
      BY DEF DatabaseOf, Databases, DeploymentAssumption
    <2>2. CASE restored[DatabaseOf(q)] = "over"
      BY <1>7, <2>2 DEF ProcessHolds
    <2>3. CASE restored[DatabaseOf(q)] # "over"
      <3>1. Seeing(q) /\ Migrating(q)
        BY <2>3 DEF Inv, ProcessHolds
      <3>2. Seeing(q)'
        BY <1>1, <1>7, <2>1, <3>1 DEF Seeing, At
      <3>3. Migrating(q)'
        BY <1>1, <1>7, <2>1, <3>1 DEF Migrating, At
      <3> QED BY <3>2, <3>3 DEF ProcessHolds
    <2> QED BY <2>2, <2>3
  <1>8. ASSUME NEW q \in Processes, DatabaseOf(q) # d PROVE ProcessHolds(q)'
    <2>1. DatabaseOf(q) \in Databases \ {d}
      BY <1>8 DEF DatabaseOf, Databases
    <2> QED BY <1>1, <1>4, <1>7, <2>1
  <1>9. CASE restored'[d] = "over"
    <2>1. DatabaseHolds(d)'
      BY <1>9 DEF DatabaseHolds
    <2>2. ASSUME NEW q \in Processes, DatabaseOf(q) = d PROVE ProcessHolds(q)'
      BY <1>9, <2>2 DEF ProcessHolds
    <2> QED BY <1>5, <1>6, <1>8, <2>1, <2>2
  <1>10. CASE /\ restored'[d] = "clean" /\ ~db[d].table /\ db[d].schema = {}
              /\ dump.checked = "sum"
              /\ \A p \in Processes : DatabaseOf(p) = d => job[p].pc # "migrate"
    <2> DEFINE from == dump.content
    <2>1. Tells(from) /\ Bare(from) /\ dump.file = "whole" /\ objects = from.schema
      BY <1>2, <1>10 DEF Inv, DumpHolds
    <2>2. /\ Tells(db[d]) /\ Bare(db[d])
          /\ \A r \in Releases, m \in Migrations :
              <<d, r, m>> \in refused => Explained(db[d], r, m)
      BY <1>1 DEF Inv, DatabaseHolds
    <2>3. db[d].done = {} /\ db[d].broken = {} /\ ~db[d].late
      BY <1>10, <2>2 DEF Bare, Named
    <2>4. /\ db'[d].schema = from.schema /\ db'[d].table = from.table /\ db'[d].late = from.late
          /\ db'[d].done = from.done /\ db'[d].broken = from.broken
      <3>1. ~from.table => from.done = {} /\ from.broken = {}
        BY <2>1 DEF Bare, Named
      <3>2. from.table \in BOOLEAN /\ db[d].table \in BOOLEAN
        BY <1>4 DEF History
      <3> HIDE DEF from
      <3>3. db'[d] = Loaded(db[d], from, from.schema)
        BY <1>4, <2>1 DEF from
      <3>4. db[d].table = FALSE /\ db[d].schema = {}
        BY <1>10, <3>2
      <3>5. db'[d].schema = from.schema /\ db'[d].late = from.late
        BY <3>3, <3>4 DEF Loaded
      <3>6. db'[d].table = (db[d].table \/ from.table)
        BY <3>3 DEF Loaded
      <3>7. db'[d].table = from.table
        BY <3>2, <3>4, <3>6
      <3>8. /\ db'[d].done = IF from.table THEN from.done ELSE db[d].done
            /\ db'[d].broken = IF from.table THEN from.broken ELSE db[d].broken
        BY <3>3 DEF Loaded
      <3> QED BY <2>3, <3>1, <3>2, <3>5, <3>7, <3>8
    <2>5. DatabaseHolds(d)'
      <3>1. \A r \in Releases, m \in Migrations :
              <<d, r, m>> \in refused' => Explained(db'[d], r, m)
        BY <1>1, <1>10, <2>2 DEF Explained
      <3>2. Named(db'[d]) = Named(from)
        BY <2>4 DEF Named
      <3>3. \A left : Fits(db'[d], left) <=> Fits(from, left)
        BY <2>4 DEF Fits
      <3>4. Tells(db'[d]) /\ Bare(db'[d])
        BY <2>1, <2>4, <3>2, <3>3 DEF Tells, Bare
      <3> QED BY <1>10, <3>1, <3>4 DEF DatabaseHolds
    <2>6. CASE d = "live"
      <3>1. from.schema = {} /\ ~from.table
        BY <1>1, <1>10, <2>6 DEF Inv, DumpHolds
      <3>2. ~from.late /\ from.done = {} /\ from.broken = {}
        BY <2>1, <3>1 DEF Bare, Named
      <3>3. db'[d] = db[d]
        <4>1. db'[d].table = FALSE /\ db[d].table = FALSE /\ db'[d].late = FALSE /\ db[d].late = FALSE
          BY <1>4, <1>10, <2>3, <2>4, <3>1, <3>2 DEF History
        <4>2. /\ db'[d].schema = db[d].schema /\ db'[d].done = db[d].done
              /\ db'[d].broken = db[d].broken
          BY <1>10, <2>3, <2>4, <3>1, <3>2
        <4> QED BY <1>4, <4>1, <4>2, HistoriesEqual
      <3>4. ASSUME NEW q \in Processes, DatabaseOf(q) = d PROVE ProcessHolds(q)'
        BY <1>1, <1>7, <1>10, <2>6, <3>3, <3>4
      <3> QED BY <1>5, <1>6, <1>8, <2>5, <3>4
    <2>7. CASE d = "spare"
      <3>1. ASSUME NEW q \in Processes, DatabaseOf(q) = d PROVE ProcessHolds(q)'
        <4>1. q = Boot /\ q \notin Pipes /\ q # None
          BY <2>7, <3>1 DEF DatabaseOf, DeploymentAssumption, Processes, Boot, None
        <4>2. job[q].pc # "applying"
          BY <1>1, <3>1, <4>1 DEF Inv, ProcessHolds, Migrating, At
        <4>3. job'[q].pc \notin {"migrate", "applying"}
          BY <1>1, <1>10, <3>1, <4>2
        <4>4. Seeing(q)' /\ Migrating(q)'
          BY <4>1, <4>3 DEF Seeing, Migrating, At
        <4> QED BY <4>4 DEF ProcessHolds
      <3> QED BY <1>5, <1>6, <1>8, <2>5, <3>1
    <2> QED BY <2>6, <2>7 DEF Databases
  <1> QED BY <1>3, <1>9, <1>10
LEMMA InvInit == DeploymentAssumption /\ Init => Inv
  <1> SUFFICES ASSUME DeploymentAssumption, Init PROVE Inv
    OBVIOUS
  <1>0. Typed
    BY TypedInit
  <1>1. PICK first \in FirstDatabases : db = [live |-> first, spare |-> Empty]
    BY DEF Init
  <1>2. db["live"] = first /\ db["spare"] = Empty /\ first \in History /\ Empty \in History
    BY <1>1, EmptyIsHistory
  <1>3. /\ Empty.done = {} /\ Empty.broken = {} /\ ~Empty.late /\ Empty.schema = {}
        /\ Empty.table = FALSE
    BY DEF Empty
  <1>4. Tells(Empty) /\ Bare(Empty) /\ Modern(Empty)
    BY <1>2, <1>3, EmptyIsModern, ModernTells DEF Bare, Named
  <1>5. Tells(first) /\ Bare(first)
    <2>1. CASE first = Empty
      BY <1>4, <2>1
    <2>2. CASE first = [Empty EXCEPT !.schema = Baseline]
      <3>1. first.done = {} /\ first.broken = {} /\ ~first.late /\ Created({}) = {}
        BY <2>2, CreatedOf DEF Empty
      <3> QED BY <3>1 DEF Tells, Bare, Named
    <2>3. ASSUME NEW done \in SUBSET Legacy, NEW drift, first = Found(done, drift)
          PROVE  Tells(first) /\ Bare(first)
      <3>1. /\ first.done = done /\ first.table /\ first.schema = Created(done) \cup drift
        BY <2>3 DEF Found, Empty
      <3>2. Base \notin first.done
        BY <3>1 DEF DeploymentAssumption
      <3> QED BY <3>1, <3>2 DEF Tells, Bare
    <2>4. CASE first \in {Found(Legacy, drift) : drift \in AcceptedDrifts \cup UnknownDrifts}
      <3>1. PICK drift \in AcceptedDrifts \cup UnknownDrifts : first = Found(Legacy, drift)
        BY <2>4
      <3>2. Legacy \in SUBSET Legacy
        OBVIOUS
      <3> QED BY <2>3, <3>1, <3>2
    <2>5. CASE first \in {Found(Legacy \ {l}, {}) : l \in Legacy}
      <3>1. PICK l \in Legacy : first = Found(Legacy \ {l}, {})
        BY <2>5
      <3>2. Legacy \ {l} \in SUBSET Legacy
        OBVIOUS
      <3> QED BY <2>3, <3>1, <3>2
    <2> QED BY <1>1, <2>1, <2>2, <2>4, <2>5 DEF FirstDatabases
  <1>6. ASSUME NEW d \in Databases PROVE DatabaseHolds(d)
    <2>1. restored[d] = "no" /\ refused = {}
      BY DEF Init
    <2>2. Tells(db[d]) /\ Bare(db[d]) /\ (d = "spare" => Modern(db[d]))
      BY <1>2, <1>4, <1>5 DEF Databases
    <2> QED BY <2>1, <2>2 DEF DatabaseHolds
  <1>7. ASSUME NEW q \in Processes PROVE ProcessHolds(q)
    BY IdleIsJob DEF Init, ProcessHolds, Seeing, Migrating, At
  <1>8. DumpHolds
    BY <1>3, <1>4 DEF Init, DumpHolds, None
  <1> QED BY <1>0, <1>6, <1>7, <1>8 DEF Inv

LEMMA DumpChanges ==
  ASSUME [Next]_vars
  PROVE  \/ UNCHANGED dump
         \/ Dump \/ DumpDies \/ UploadCutsShort \/ \E withManifest \in BOOLEAN : Verify(withManifest)
  <1>1. CASE UNCHANGED vars
    BY <1>1 DEF vars
  <1>2. CASE Pipeline
    BY <1>2 DEF Pipeline, Push, Sync, Preflight, Stage, Snapshot, Cutover, CutoverDies,
        CopyBackup, Trigger, Wait, ContainerGone
  <1>3. CASE Migrate
    BY <1>3 DEF Migrate, MigrateStart, Apply, MigrateDies
  <1>4. CASE Container
    BY <1>4 DEF Container, BuildImage, ReplaceContainer, ContainerRestarts, ContainerIsNew, WriteNull
  <1>5. CASE Bootstrap
    BY <1>5 DEF Bootstrap, Inspect, StartSeeds, SeedPermission, PermissionFails, Seed,
        SeedTeam, BootDies, CreateTeam
  <1>6. CASE Archive
    BY <1>6 DEF Archive, Restore
  <1> QED BY <1>1, <1>2, <1>3, <1>4, <1>5, <1>6 DEF Next

(* Every step keeps the invariant.                                         *)
LEMMA InvNext ==
  ASSUME DeploymentAssumption, Inv, [Next]_vars
  PROVE  Inv'
  <1>0. /\ Typed /\ Typed' /\ Boot \in Processes /\ None \notin Processes
        /\ (\A p \in Pipes : p \in Processes /\ DatabaseOf(p) = "live")
        /\ db \in [Databases -> History] /\ {"live", "spare"} = Databases
        /\ restored \in [Databases -> {"no", "clean", "over"}]
    BY TypedNext DEF Inv, Processes, DeploymentAssumption, Boot, None, DatabaseOf, Databases, Typed
  <1>1. SUFFICES /\ DumpHolds'
                 /\ \A d \in Databases : DatabaseHolds(d)'
                 /\ \A q \in Processes : ProcessHolds(q)'
    BY <1>0 DEF Inv
  (* A step of one process, which advances.                                *)
  <1>2. ASSUME NEW p, Advancing(p), \A q \in Processes \ {p} : Kept(q),
               p \in Processes => ProcessHolds(p)', UNCHANGED dump
        PROVE  /\ DumpHolds'
               /\ \A d \in Databases : DatabaseHolds(d)'
               /\ \A q \in Processes : ProcessHolds(q)'
    BY <1>2, StillHolds, DatabaseHoldsNext, DumpHoldsNext
  <1>3. ASSUME NEW p, job'[p].pc \notin {"cutover", "copy", "migrate", "applying"}
        PROVE  ProcessHolds(p)'
    BY <1>3 DEF ProcessHolds, Seeing, Migrating, At
  <1>4. ASSUME NEW p, Alone(p) PROVE \A q \in Processes \ {p} : Kept(q)
    BY <1>4 DEF Alone, Kept
  <1>5. CASE Calm
    <2>1. Advancing(None) /\ \A q \in Processes : Kept(q) /\ ProcessHolds(q)'
      <3>1. Advancing(None)
        BY <1>5, NothingAdvances DEF Calm
      <3> QED BY <1>0, <1>5, <3>1, StillHolds DEF Calm
    <2>2. DumpHolds'
      <3>1. CASE UNCHANGED dump
        BY <2>1, <3>1, DumpHoldsNext
      <3>2. CASE Dump \/ DumpDies \/ UploadCutsShort \/ \E withManifest \in BOOLEAN : Verify(withManifest)
        BY <3>2, DumpHoldsArchive
      <3> QED BY <3>1, <3>2, DumpChanges
    <2> QED BY <2>1, <2>2, DatabaseHoldsNext
  <1>6. ASSUME NEW p \in Pipes, NEW r \in Releases, Push(p, r) PROVE Inv'
    <2>1. /\ \A q \in Processes \ {p} : Still(q)
          /\ job'[p].pc \in {"stopped", "sync"}
      BY <1>0, <1>6, PushMoves
    <2>2. Advancing(p) /\ UNCHANGED dump
      BY <1>6, NothingAdvances DEF Push, server
    <2> QED BY <1>0, <1>2, <1>3, <2>1, <2>2 DEF Kept, Inv
  <1>7. ASSUME NEW p \in Pipes, Sync(p) \/ Stage(p) PROVE Inv'
    <2>1. Alone(p) /\ job'[p].pc \in {"stopped", "synced", "snapshot"}
      BY <1>0, <1>7, SyncMoves, StageMoves
    <2>2. Advancing(p) /\ UNCHANGED dump
      BY <1>7, NothingAdvances DEF Sync, Stage, server, backups
    <2> QED BY <1>0, <1>2, <1>3, <1>4, <2>1, <2>2 DEF Inv
  <1>8. ASSUME NEW p \in Pipes, Snapshot(p) PROVE Inv'
    <2>1. Alone(p) /\ job'[p].pc = "cutover" /\ job'[p].seen = db["live"]
      BY <1>0, <1>8, SnapshotMoves
    <2>2. Advancing(p) /\ UNCHANGED <<dump, db, restored>>
      BY <1>8, NothingAdvances DEF Snapshot, server, backups
    <2>3. ProcessHolds(p)'
      <3>1. ASSUME restored["live"] # "over", db["live"].schema = {}, ~db["live"].table
            PROVE  Modern(db["live"])
        <4>1. Named(db["live"]) = {} /\ db["live"] \in History
          BY <1>0, <3>1 DEF Inv, DatabaseHolds, Bare
        <4> QED BY <3>1, <4>1, EmptyIsModern
      <3>2. restored["live"] # "over" => Seeing(p)'
        BY <2>1, <2>2, <3>1 DEF Seeing, At
      <3>3. Migrating(p)'
        BY <2>1 DEF Migrating, At
      <3> QED BY <1>0, <2>2, <3>2, <3>3 DEF ProcessHolds
    <2> QED BY <1>0, <1>2, <1>4, <2>1, <2>2, <2>3 DEF Inv
  <1>9. ASSUME NEW p \in Pipes, Cutover(p) PROVE Inv'
    <2>1. /\ Alone(p) /\ job'[p].pc = "copy"
          /\ job'[p].ok = CutoverSucceeds(db["live"], job[p].seen)
      BY <1>0, <1>9, CutoverMoves
    <2>2. Advancing(p)
      BY <1>9, CutoverAdvances
    <2>3. /\ db' = IF ReplacesHistory(db["live"], job[p].seen)
                   THEN [db EXCEPT !["live"] = Rebased(db["live"])] ELSE db
          /\ UNCHANGED <<restored, codeDir, lock, refused, dump>>
      BY <1>0, <1>9, CutoverReplaces
    <2>4. ASSUME restored["live"] # "over", CutoverSucceeds(db["live"], job[p].seen)
          PROVE  Modern(db'["live"])
      <3>1. /\ db["live"] \in History /\ job[p].seen \in History /\ Tells(db["live"])
            /\ Seeing(p) /\ At(p, "cutover")
        BY <1>0, <1>9, <2>4 DEF Inv, ProcessHolds, DatabaseHolds, Typed, Job, Cutover
      <3>2. Modern(db["live"]) => Modern(db'["live"])
        BY <1>0, <2>2, <2>4 DEF Advancing, Advances, Forward
      <3>3. CASE FreshDatabase(db["live"], job[p].seen)
        <4>1. CASE ~job[p].seen.table
          BY <3>1, <3>2, <3>3, <4>1 DEF Seeing, FreshDatabase
        <4>2. CASE Named(db["live"]) = {}
          <5>1. db["live"].schema = {}
            BY <3>1, <3>3, <4>2 DEF Seeing, FreshDatabase
          <5> QED BY <3>1, <3>2, <4>2, <5>1, EmptyIsModern
        <4> QED BY <3>3, <4>1, <4>2 DEF FreshDatabase
      <3>4. CASE Consolidated(db["live"])
        BY <3>1, <3>2, <3>4, ConsolidatedIsModern
      <3>5. CASE ReplacesHistory(db["live"], job[p].seen)
        <4>1. db'["live"] = Rebased(db["live"])
          BY <1>0, <2>3, <3>5
        <4> QED BY <3>1, <3>5, <4>1, RebasedIsModern
      <3> QED BY <2>4, <3>3, <3>4, <3>5 DEF CutoverSucceeds
    <2>5. ProcessHolds(p)'
      BY <1>0, <2>1, <2>3, <2>4 DEF ProcessHolds, Seeing, Migrating, At
    <2> QED BY <1>0, <1>2, <1>4, <2>1, <2>2, <2>3, <2>5 DEF Inv
  <1>10. ASSUME NEW p \in Pipes, CutoverDies(p) PROVE Inv'
    <2>1. Alone(p) /\ job'[p].pc = "copy" /\ ~job'[p].ok
      BY <1>0, <1>10, CutoverDiesMoves
    <2>2. Advancing(p) /\ UNCHANGED dump
      BY <1>10, NothingAdvances DEF CutoverDies, server
    <2>3. ProcessHolds(p)'
      BY <2>1 DEF ProcessHolds, Seeing, Migrating, At
    <2> QED BY <1>0, <1>2, <1>4, <2>1, <2>2, <2>3 DEF Inv
  <1>11. ASSUME NEW p \in Pipes, CopyBackup(p) PROVE Inv'
    <2>1. /\ Alone(p)
          /\ job'[p].pc \notin Risky \/ (job'[p].pc = "migrate" /\ job[p].ok)
      BY <1>0, <1>11, CopyMoves
    <2>2. Advancing(p) /\ UNCHANGED <<dump, db, restored>> /\ At(p, "copy")
      BY <1>11, NothingAdvances DEF CopyBackup, server
    <2>3. ProcessHolds(p)'
      <3>1. CASE job'[p].pc \notin Risky
        BY <1>3, <3>1 DEF Risky
      <3>2. CASE job'[p].pc = "migrate" /\ job[p].ok
        <4>1. restored["live"] # "over" => Modern(db["live"])
          BY <1>0, <2>2, <3>2 DEF Inv, ProcessHolds, Migrating
        <4> QED BY <1>0, <2>2, <3>2, <4>1 DEF ProcessHolds, Seeing, Migrating, At
      <3> QED BY <2>1, <3>1, <3>2
    <2> QED BY <1>0, <1>2, <1>4, <2>1, <2>2, <2>3 DEF Inv
  <1>12. ASSUME NEW p \in Processes, MigrateStart(p) PROVE Inv'
    <2> DEFINE d == DatabaseOf(p)
    <2>1. /\ Alone(p) /\ UNCHANGED <<restored, dump>> /\ At(p, "migrate")
          /\ job'[p].pc \notin Risky \/ job'[p].pc = "applying"
      BY <1>0, <1>12, MigrateStartMoves DEF Begins
    <2>2. /\ Advancing(p)
          /\ job'[p].pc = "applying" /\ restored[d] # "over" =>
                lock'[d] = p /\ Ready(db'[d], job'[p].staged, job'[p].next)
      BY <1>12, MigrateStartAdvances
    <2>3. ProcessHolds(p)'
      <3>1. CASE job'[p].pc \notin Risky
        BY <1>3, <3>1 DEF Risky
      <3>2. CASE job'[p].pc = "applying"
        <4>1. ASSUME restored[d] # "over"
              PROVE  /\ lock'[d] = p /\ Ready(db'[d], job'[p].staged, job'[p].next) /\ Modern(db'[d])
                     /\ ~(d = "spare" /\ restored[d] = "clean")
          BY <2>1, <2>2, <3>2, <4>1 DEF Ready, Inv, ProcessHolds, Migrating, At
        <4> QED BY <2>1, <3>2, <4>1 DEF ProcessHolds, Seeing, Migrating, At
      <3> QED BY <2>1, <3>1, <3>2
    <2> QED BY <1>0, <1>2, <1>4, <2>1, <2>2, <2>3 DEF Inv
  <1>13. ASSUME NEW p \in Processes, Apply(p) PROVE Inv'
    <2> DEFINE d == DatabaseOf(p)
    <2>1. /\ Alone(p) /\ UNCHANGED <<restored, dump>> /\ At(p, "applying")
          /\ job'[p].pc \in {"stopped", "migrate"}
      BY <1>0, <1>13, ApplyMoves
    <2>2. /\ Advancing(p)
          /\ job'[p].pc = "migrate" /\ restored[d] # "over" => Modern(db'[d])
      BY <1>13, ApplyAdvances
    <2>3. ProcessHolds(p)'
      <3>1. CASE job'[p].pc = "stopped"
        BY <1>3, <3>1
      <3>2. CASE job'[p].pc = "migrate"
        <4>1. ASSUME restored[d] # "over"
              PROVE  Modern(db'[d]) /\ ~(d = "spare" /\ restored[d] = "clean")
          BY <2>1, <2>2, <3>2, <4>1 DEF Inv, ProcessHolds, Migrating, At
        <4> QED BY <2>1, <3>2, <4>1 DEF ProcessHolds, Seeing, Migrating, At
      <3> QED BY <2>1, <3>1, <3>2
    <2> QED BY <1>0, <1>2, <1>4, <2>1, <2>2, <2>3 DEF Inv
  <1>14. ASSUME NEW p \in Processes, MigrateDies(p) \/ (p \in Pipes /\ ContainerGone(p))
         PROVE  Inv'
    <2>1. Alone(p) /\ UNCHANGED <<restored, dump>> /\ job'[p].pc = "stopped"
      BY <1>0, <1>14, InterruptedMoves
    <2>2. Advancing(p)
      BY <1>14, InterruptedAdvances
    <2> QED BY <1>0, <1>2, <1>3, <1>4, <2>1, <2>2 DEF Inv
  <1>15. CASE WriteNull
    <2>1. UNCHANGED <<job, dump>>
      BY <1>0, <1>15, WriteNullWrites
    <2>2. Advancing(None)
      BY <1>15, WriteNullAdvances
    <2> QED BY <1>0, <1>2, <2>1, <2>2 DEF Inv, Kept, Still
  <1>16. ASSUME NEW d \in Databases, NEW alike, NEW lifted, Restore(d, alike, lifted) PROVE Inv'
    BY <1>0, <1>16, RestoreHolds DEF Inv
  <1>17. ASSUME NEW r \in Releases, NEW allow \in BOOLEAN, Inspect(r, allow) PROVE Inv'
    <2>1. Alone(Boot) /\ job'[Boot].pc \in {"stopped", "migrate"}
      BY <1>0, <1>17, InspectMoves
    <2>2. Advancing(Boot) /\ UNCHANGED <<dump, db, restored>> /\ restored["spare"] = "no"
      BY <1>17, NothingAdvances DEF Inspect, server, backups
    <2>3. Modern(db["spare"]) /\ Boot \notin Pipes /\ DatabaseOf(Boot) = "spare"
      BY <1>0, <2>2 DEF Inv, DatabaseHolds, DeploymentAssumption, DatabaseOf
    <2>4. ProcessHolds(Boot)'
      BY <2>1, <2>2, <2>3 DEF ProcessHolds, Seeing, Migrating, At
    <2> QED BY <1>0, <1>2, <1>4, <2>1, <2>2, <2>4 DEF Inv
  <1>18. CASE Steep
    BY <1>0, <1>6, <1>7, <1>8, <1>9, <1>10, <1>11, <1>12, <1>13, <1>14, <1>15, <1>16, <1>17, <1>18
       DEF Steep, Inv
  <1> QED BY <1>0, <1>5, <1>18, StepKinds

(* Whatever dies and whoever runs at the same time, every database but one *)
(* restored over something tells in its history what is in its schema.     *)
THEOREM HistoriesTell == Spec => []HistoryTellsSchema
  <1>1. Inv => HistoryTellsSchema
    BY DEF Inv, DatabaseHolds, HistoryTellsSchema, Tells, Fits
  <1> QED BY <1>1, InvInit, InvNext, DeploymentAssumption, PTL DEF Spec

(* A database refuses the SQL of a migration only for what the audit of    *)
(* its chain does not look at, or for a row that the release that served   *)
(* wrote without the column after the backfill: no interleaving, death or  *)
(* cutover adds a reason.                                                  *)
THEOREM RefusalsExplained == Spec => []RefusalsAreExplained
  <1>1. ASSUME Inv PROVE RefusalsAreExplained
    <2>1. ASSUME NEW refusal \in refused
          PROVE  LET d == refusal[1]  r == refusal[2]  m == refusal[3] IN
                 restored[d] # "over" => Explained(db[d], r, m)
      <3>1. PICK d \in Databases, r \in Releases, m \in Migrations : refusal = <<d, r, m>>
        BY <1>1, <2>1 DEF Inv, Typed
      <3>2. restored[d] # "over" => Explained(db[d], r, m)
        BY <1>1, <2>1, <3>1 DEF Inv, DatabaseHolds
      <3> QED BY <3>1, <3>2
    <2> QED BY <2>1 DEF RefusalsAreExplained, Explained
  <1> QED BY <1>1, InvInit, InvNext, DeploymentAssumption, PTL DEF Spec
-----------------------------------------------------------------------------
(* A pipeline that will copy its backup out of the container that runs.    *)
Copying(q) == At(q, "copy") /\ job[q].inBox

(* Each backup in the container is on the server or will be copied there;  *)
(* and a row that production had is there or in a backup.                  *)
BackupsHold ==
    ~stranded =>
        /\ \A b \in kept : b \in host \/ \E p \in Pipes : Copying(p) /\ b[1] = p
        /\ restored["live"] = "no" =>
            \A m \in found :
                m \in Named(db["live"]) \/ \E b \in kept \cup host : m \in b[2]

LEMMA CopyingStays ==
  ASSUME DeploymentAssumption, Typed, [Next]_vars, NEW q \in Pipes, Copying(q), ~CopyBackup(q),
         ~ContainerIsNew
  PROVE  Copying(q)'
  <1>0. /\ job \in [Processes -> Job] /\ q \in Processes /\ q # Boot /\ job[q] \in Job
        /\ job[q].pc = "copy" /\ job[q].inBox
    BY DEF Typed, Processes, DeploymentAssumption, Copying, At
  <1>1. SUFFICES ASSUME job'[q] # job[q] PROVE Copying(q)'
    BY DEF Copying, At
  <1>2. ASSUME NEW p \in Pipes, NEW r \in Releases, Push(p, r) PROVE Copying(q)'
    <2>1. p # q
      BY <1>0, <1>2 DEF Push, At
    <2>2. job'[q] = [job[q] EXCEPT !.alive = FALSE]
      BY <1>0, <1>1, <1>2, <2>1 DEF Push, At, InSession
    <2> QED BY <1>0, <2>2 DEF Copying, At, Job
  <1>3. ASSUME NEW p \in Pipes,
               \/ Sync(p) \/ Preflight(p) \/ Stage(p) \/ Snapshot(p) \/ Cutover(p)
               \/ CutoverDies(p) \/ CopyBackup(p) \/ Trigger(p) \/ Wait(p) \/ ContainerGone(p)
        PROVE FALSE
    <2>1. p = q
      BY <1>0, <1>1, <1>3 DEF Sync, Preflight, Stage, Snapshot, Cutover, CutoverDies, CopyBackup,
          Trigger, Wait, ContainerGone, EndSession, Goto, Stop
    <2> QED BY <1>0, <1>3, <2>1 DEF Sync, Preflight, Stage, Snapshot, Cutover, CutoverDies,
          Trigger, Wait, ContainerGone, At
  <1>4. ASSUME NEW p \in Processes, MigrateStart(p) \/ Apply(p) \/ MigrateDies(p) PROVE FALSE
    <2>1. p = q
      BY <1>0, <1>1, <1>4 DEF MigrateStart, Apply, MigrateDies, EndSession, Goto, Stop
    <2> QED BY <1>0, <1>4, <2>1 DEF MigrateStart, Apply, MigrateDies, At
  <1>5. CASE Pipeline
    BY <1>2, <1>3, <1>5 DEF Pipeline
  <1>6. CASE Migrate
    BY <1>4, <1>6 DEF Migrate
  <1>7. CASE Container
    BY <1>1, <1>7 DEF Container, BuildImage, ReplaceContainer, ContainerRestarts, WriteNull
  <1>8. CASE Archive
    BY <1>1, <1>8 DEF Archive, Dump, DumpDies, UploadCutsShort, Verify, Restore
  <1>9. CASE Bootstrap
    <2>0. ASSUME NEW v, job' = [job EXCEPT ![Boot] = v] PROVE FALSE
      BY <1>0, <1>1, <2>0
    <2>1. ASSUME NEW pc, Goto(Boot, pc) PROVE FALSE
      BY <1>0, <1>1, <2>1 DEF Goto
    <2>2. Stop(Boot) => FALSE
      BY <2>0 DEF Stop
    <2>3. ASSUME NEW r \in Releases, NEW allowExisting \in BOOLEAN, Inspect(r, allowExisting)
          PROVE  FALSE
      BY <1>0, <1>1, <2>3 DEF Inspect
    <2>4. StartSeeds \/ (\E row \in Range(PermissionSteps) : SeedPermission(row)) => FALSE
      BY <2>1 DEF StartSeeds, SeedPermission, Seeding
    <2>5. PermissionFails \/ (\E row \in Range(SeedSteps) : Seed(row)) => FALSE
      BY <2>1, <2>2 DEF PermissionFails, Seed, Seeding
    <2>6. SeedTeam \/ BootDies => FALSE
      BY <2>1, <2>2 DEF SeedTeam, BootDies
    <2>7. ASSUME NEW t, NEW country, CreateTeam(t, country) PROVE FALSE
      BY <1>1, <2>7 DEF CreateTeam
    <2> QED BY <1>9, <2>3, <2>4, <2>5, <2>6, <2>7 DEF Bootstrap
  <1>10. CASE UNCHANGED vars
    BY <1>1, <1>10 DEF vars
  <1> QED BY <1>5, <1>6, <1>7, <1>8, <1>9, <1>10 DEF Next

LEMMA NamedGrows ==
  ASSUME DeploymentAssumption, Typed, [Next]_vars, \A p \in Pipes : ~Cutover(p), restored'["live"] = "no"
  PROVE  Named(db["live"]) \subseteq Named(db'["live"])
  <1>0. /\ db \in [Databases -> History] /\ "live" \in Databases
        /\ \A d \in Databases : db[d] \in History
        /\ restored \in [Databases -> {"no", "clean", "over"}]
        /\ \A p \in Processes : DatabaseOf(p) \in Databases
    BY DEF Typed, Databases, DatabaseOf
  <1>1. CASE db' = db
    BY <1>1
  <1>2. CASE Calm
    BY <1>1, <1>2 DEF Calm
  <1>3. ASSUME NEW p \in Pipes, NEW r \in Releases, Push(p, r) PROVE db' = db
    BY <1>3 DEF Push
  <1>4. ASSUME NEW p \in Pipes,
               Sync(p) \/ Stage(p) \/ Snapshot(p) \/ CutoverDies(p) \/ CopyBackup(p)
        PROVE  db' = db
    BY <1>4 DEF Sync, Stage, Snapshot, CutoverDies, CopyBackup
  <1>5. ASSUME NEW r \in Releases, NEW allow \in BOOLEAN, Inspect(r, allow) PROVE db' = db
    BY <1>5 DEF Inspect
  <1>6. ASSUME NEW d \in Databases, NEW g, db' = [db EXCEPT ![d] = g], Named(db[d]) \subseteq Named(g)
        PROVE  Named(db["live"]) \subseteq Named(db'["live"])
    BY <1>0, <1>6
  <1>7. ASSUME NEW p \in Processes, MigrateStart(p) \/ Apply(p) \/ MigrateDies(p)
                                      \/ (p \in Pipes /\ ContainerGone(p))
        PROVE  Named(db["live"]) \subseteq Named(db'["live"])
    <2>1. \A m : db[DatabaseOf(p)].broken = {} =>
            Named(db[DatabaseOf(p)]) \subseteq Named(Begun(db[DatabaseOf(p)], m))
      BY <1>0 DEF Named, Begun, History
    <2>2. \A m : Named(db[DatabaseOf(p)]) \subseteq Named(Applied(db[DatabaseOf(p)], m))
      BY <1>0 DEF Named, Applied, History
    <2>3. \A m : Named(db[DatabaseOf(p)]) \subseteq Named(Half(db[DatabaseOf(p)], m))
      BY <1>0 DEF Named, Half, History
    <2>4. CASE MigrateStart(p)
      BY <1>0, <1>1, <1>6, <2>1, <2>4, MigrateStartMoves DEF Begins
    <2>5. CASE Apply(p)
      BY <1>0, <1>1, <1>6, <2>2, <2>5, ApplyMoves
    <2>6. CASE MigrateDies(p) \/ (p \in Pipes /\ ContainerGone(p))
      BY <1>0, <1>1, <1>6, <2>3, <2>6, InterruptedMoves
    <2> QED BY <1>7, <2>4, <2>5, <2>6
  <1>8. CASE WriteNull
    <2>1. Named(Late(db["live"])) = Named(db["live"])
      BY <1>0, LateKeeps
    <2> QED BY <1>0, <1>6, <1>8, <2>1, WriteNullWrites
  <1>9. ASSUME NEW d \in Databases, NEW alike, NEW lifted, Restore(d, alike, lifted)
        PROVE  db'["live"] = db["live"]
    <2>1. d # "live"
      BY <1>0, <1>9, RestoreMoves
    <2> QED BY <1>0, <1>9, <2>1, RestoreMoves
  <1>10. CASE Steep
    BY <1>1, <1>3, <1>4, <1>5, <1>7, <1>8, <1>9, <1>10 DEF Steep
  <1> QED BY <1>2, <1>10, StepKinds
LEMMA BackupSteps ==
  ASSUME [Next]_vars
  PROVE  \/ UNCHANGED backups
         \/ \E p \in Pipes : Cutover(p) \/ CutoverDies(p) \/ CopyBackup(p)
         \/ ContainerIsNew
  <1>1. CASE Pipeline
    BY <1>1 DEF Pipeline, Push, Sync, Preflight, Stage, Snapshot, Trigger, Wait, ContainerGone
  <1>2. CASE Migrate
    BY <1>2 DEF Migrate, MigrateStart, Apply, MigrateDies
  <1>3. CASE Container
    BY <1>3 DEF Container, BuildImage, ReplaceContainer, ContainerRestarts, WriteNull
  <1>4. CASE Archive
    BY <1>4 DEF Archive, Dump, DumpDies, UploadCutsShort, Verify, Restore
  <1>5. CASE Bootstrap
    BY <1>5 DEF Bootstrap, Inspect, StartSeeds, SeedPermission, PermissionFails, Seed, SeedTeam,
        BootDies, CreateTeam
  <1>6. CASE UNCHANGED vars
    BY <1>6 DEF vars, backups
  <1> QED BY <1>1, <1>2, <1>3, <1>4, <1>5, <1>6 DEF Next

LEMMA NotRestoredYet ==
  ASSUME Typed, [Next]_vars, restored'["live"] = "no"
  PROVE  restored["live"] = "no"
  <1>1. CASE UNCHANGED restored
    BY <1>1
  <1>2. ASSUME NEW d \in Databases, NEW alike, NEW lifted, Restore(d, alike, lifted)
        PROVE  restored["live"] = "no"
    <2>1. "live" \in Databases
      BY DEF Databases
    <2> QED BY <1>2, <2>1, RestoreMoves
  <1>3. CASE Pipeline
    BY <1>1, <1>3 DEF Pipeline, Push, Sync, Preflight, Stage, Snapshot, Cutover, CutoverDies,
        CopyBackup, Trigger, Wait, ContainerGone
  <1>4. CASE Migrate
    BY <1>1, <1>4 DEF Migrate, MigrateStart, Apply, MigrateDies
  <1>5. CASE Container
    BY <1>1, <1>5 DEF Container, BuildImage, ReplaceContainer, ContainerRestarts, ContainerIsNew,
        WriteNull
  <1>6. CASE Archive
    BY <1>1, <1>2, <1>6 DEF Archive, Dump, DumpDies, UploadCutsShort, Verify
  <1>7. CASE Bootstrap
    BY <1>1, <1>7 DEF Bootstrap, Inspect, StartSeeds, SeedPermission, PermissionFails, Seed, SeedTeam,
        BootDies, CreateTeam
  <1>8. CASE UNCHANGED vars
    BY <1>1, <1>8 DEF vars
  <1> QED BY <1>3, <1>4, <1>5, <1>6, <1>7, <1>8 DEF Next

LEMMA BackupsHoldInit == DeploymentAssumption /\ Init => BackupsHold
  <1> SUFFICES ASSUME DeploymentAssumption, Init PROVE BackupsHold
    OBVIOUS
  <1>1. found = db["live"].done /\ kept = {}
    BY DEF Init
  <1> QED BY <1>1 DEF BackupsHold, Named

(* The backup of the process that cuts over has what it removes.           *)
LEMMA CutoverKeepsRows ==
  ASSUME Typed, NEW p \in Pipes, Cutover(p)
  PROVE  \A m \in Named(db["live"]) :
            m \in Named(db'["live"]) \/ \E b \in kept' : m \in b[2]
  <1> DEFINE h == db["live"]  seen == job[p].seen
  <1>1. "live" \in Databases /\ db \in [Databases -> History] /\ h \in History
    BY DEF Typed, Databases
  <1>2. CASE ReplacesHistory(h, seen)
    <2>1. kept' = kept \cup {<<p, Named(h)>>}
      BY <1>2 DEF Cutover, Backup, ReplacesHistory
    <2>2. <<p, Named(h)>> \in kept' /\ <<p, Named(h)>>[2] = Named(h)
      BY <2>1
    <2> QED BY <2>2
  <1>3. CASE ~ReplacesHistory(h, seen)
    <2>1. db' = db
      BY <1>3, CutoverReplaces
    <2> QED BY <2>1
  <1> QED BY <1>2, <1>3

LEMMA BackupsGrow ==
  ASSUME Typed, [Next]_vars, ~ContainerIsNew
  PROVE  /\ host \subseteq host' /\ kept \subseteq kept'
         /\ \A b \in kept' : b \in kept \/ \E p \in Pipes : Copying(p)' /\ b[1] = p
  <1>1. CASE UNCHANGED backups
    BY <1>1 DEF backups
  <1>2. ASSUME NEW p \in Pipes, Cutover(p) \/ CutoverDies(p)
        PROVE  /\ host \subseteq host' /\ kept \subseteq kept'
               /\ \A b \in kept' : b \in kept \/ \E q \in Pipes : Copying(q)' /\ b[1] = q
    <2>1. host' = host /\ kept' \in {kept, kept \cup Backup(p, db["live"], job[p].seen)}
      BY <1>2 DEF Cutover, CutoverDies
    <2>2. \A b \in Backup(p, db["live"], job[p].seen) : b[1] = p
      BY DEF Backup
    <2>3. Copying(p)'
      BY <1>2, CutoverMoves, CutoverDiesMoves DEF Copying, At
    <2> QED BY <2>1, <2>2, <2>3
  <1>3. ASSUME NEW p \in Pipes, CopyBackup(p) PROVE host \subseteq host' /\ kept' = kept
    BY <1>3 DEF CopyBackup
  <1> QED BY <1>1, <1>2, <1>3, BackupSteps

(* Every step keeps it.                                                    *)
LEMMA BackupsHoldNext ==
  DeploymentAssumption /\ Typed /\ BackupsHold /\ [Next]_vars => BackupsHold'
  <1> SUFFICES ASSUME DeploymentAssumption, Typed, BackupsHold, [Next]_vars, ~stranded'
               PROVE  BackupsHold'
    BY DEF BackupsHold
  <1>0. /\ found' = found /\ ~stranded
        /\ restored'["live"] = "no" => restored["live"] = "no"
    <2>1. found' = found /\ (stranded' = stranded \/ ContainerIsNew)
      BY BackupSteps DEF backups, Cutover, CutoverDies, CopyBackup, ContainerIsNew
    <2>2. ~stranded
      BY <2>1 DEF ContainerIsNew
    <2>3. ASSUME restored'["live"] = "no" PROVE restored["live"] = "no"
      BY <2>3, NotRestoredYet
    <2> QED BY <2>1, <2>2, <2>3
  <1>1. \A b \in kept : b \in host \/ \E p \in Pipes : Copying(p) /\ b[1] = p
    BY <1>0 DEF BackupsHold
  (* The backups, in the container and on the server.                      *)
  <1>2. /\ \A b \in kept' : b \in host' \/ \E p \in Pipes : Copying(p)' /\ b[1] = p
        /\ kept \cup host \subseteq kept' \cup host'
    <2>1. CASE ContainerIsNew
      <3>1. ~\E p \in Pipes : Copying(p)
        BY <2>1 DEF ContainerIsNew, Copying
      <3> QED BY <1>1, <2>1, <3>1 DEF ContainerIsNew
    <2>2. CASE ~ContainerIsNew
      <3>1. /\ host \subseteq host' /\ kept \subseteq kept'
            /\ \A b \in kept' : b \in kept \/ \E p \in Pipes : Copying(p)' /\ b[1] = p
        BY <2>2, BackupsGrow
      <3>2. ASSUME NEW b \in kept, NEW p \in Pipes, Copying(p), b[1] = p
            PROVE  b \in host' \/ Copying(p)'
        <4>1. CASE CopyBackup(p)
          BY <3>2, <4>1 DEF CopyBackup
        <4>2. CASE ~CopyBackup(p)
          BY <2>2, <3>2, <4>2, CopyingStays
        <4> QED BY <4>1, <4>2
      <3> QED BY <1>1, <3>1, <3>2
    <2> QED BY <2>1, <2>2
  (* The rows, in the database and in the backups.                         *)
  <1>3. ASSUME restored'["live"] = "no", NEW m \in found
        PROVE  m \in Named(db'["live"]) \/ \E b \in kept' \cup host' : m \in b[2]
    <2>1. m \in Named(db["live"]) \/ \E b \in kept \cup host : m \in b[2]
      BY <1>0, <1>3 DEF BackupsHold
    <2>2. CASE \E p \in Pipes : Cutover(p)
      BY <1>2, <2>1, <2>2, CutoverKeepsRows
    <2>3. CASE ~\E p \in Pipes : Cutover(p)
      BY <1>2, <1>3, <2>1, <2>3, NamedGrows
    <2> QED BY <2>2, <2>3
  <1> QED BY <1>0, <1>2, <1>3 DEF BackupsHold

(* A row of the legacy history that is not in the database is in a backup  *)
(* on the server, or in the container and about to be copied.              *)
THEOREM RowsAreBackedUp == Spec => []RemovedRowsAreBackedUp
  <1>1. BackupsHold => RemovedRowsAreBackedUp
    BY DEF BackupsHold, RemovedRowsAreBackedUp
  <1>2. Typed /\ [Next]_vars /\ DeploymentAssumption => Typed'
    BY TypedNext
  <1> QED BY <1>1, <1>2, TypedInit, BackupsHoldInit, BackupsHoldNext, DeploymentAssumption, PTL
      DEF Spec
-----------------------------------------------------------------------------
(* The bootstrap. Its migrations are applied once it is past them, and of   *)
(* each list of rows and teams those before the next one are there.         *)
PastMigrations == {"migrated", "permissions", "seed", "teams", "done"}
TeamRows == [id : {0, 1}, home : Nat, away : Nat]
Chosen ==
    /\ job[Boot].pc \in {"migrate", "applying"} \cup PastMigrations =>
        job[Boot].rel = job[Boot].staged
    /\ job[Boot].pc \in PastMigrations /\ restored["spare"] = "no" =>
        Range(Directory[job[Boot].staged]) \subseteq db["spare"].done
    /\ job[Boot].pc \in {"migrate", "applying", "migrated"} => boot.at = 1
Rows ==
    /\ At(Boot, "permissions") =>
        boot.at \in 1..5 /\ \A i \in 1..5 : i < boot.at => PermissionSteps[i] \in seeded
    /\ job[Boot].pc \in {"seed", "teams", "done"} /\ ~boot.swallowed =>
        \A i \in 1..5 : PermissionSteps[i] \in seeded
    /\ At(Boot, "seed") =>
        boot.at \in 1..3 /\ \A i \in 1..3 : i < boot.at => SeedSteps[i] \in seeded
    /\ job[Boot].pc \in {"teams", "done"} => \A i \in 1..3 : SeedSteps[i] \in seeded
TeamsHold ==
    /\ teams \in [Range(Catalogue) -> TeamRows]
    /\ At(Boot, "teams") =>
        /\ boot.at \in 1..Len(Catalogue)
        /\ \A i \in 1..Len(Catalogue) : i < boot.at => teams[Catalogue[i]].id = 1
    /\ At(Boot, "done") => \A i \in 1..Len(Catalogue) : teams[Catalogue[i]].id = 1
BootHolds ==
    /\ boot \in [at : Nat, swallowed : BOOLEAN, runs : Nat]
    /\ Chosen /\ Rows /\ TeamsHold

LEMMA BootHoldsInit == DeploymentAssumption /\ Init => BootHolds
  <1> SUFFICES ASSUME DeploymentAssumption, Init PROVE BootHolds
    OBVIOUS
  <1>1. job[Boot].pc = "idle"
    BY DEF Init, Processes, Idle
  <1>2. boot = [at |-> 0, swallowed |-> FALSE, runs |-> 0]
        /\ teams = [t \in Range(Catalogue) |-> [id |-> 0, home |-> 0, away |-> 0]]
    BY DEF Init
  <1>3. teams \in [Range(Catalogue) -> TeamRows]
    BY <1>2 DEF TeamRows
  <1>4. boot \in [at : Nat, swallowed : BOOLEAN, runs : Nat]
    BY <1>2
  <1> QED BY <1>1, <1>3, <1>4 DEF BootHolds, Chosen, Rows, TeamsHold, PastMigrations, At

(* What a step that is not of the bootstrap leaves it.                      *)
Aside ==
    /\ UNCHANGED <<boot, seeded, teams>>
    /\ \/ /\ job'[Boot].pc = job[Boot].pc /\ job'[Boot].rel = job[Boot].rel
          /\ job'[Boot].staged = job[Boot].staged
       \/ job'[Boot].pc = "stopped"
    /\ restored'["spare"] = "no" => restored["spare"] = "no" /\ db'["spare"] = db["spare"]

LEMMA AsideHolds ==
  ASSUME BootHolds, Aside
  PROVE  BootHolds'
  <1>1. CASE job'[Boot].pc = "stopped"
    BY <1>1 DEF Aside, BootHolds, Chosen, Rows, TeamsHold, PastMigrations, At
  <1>2. CASE /\ job'[Boot].pc = job[Boot].pc /\ job'[Boot].rel = job[Boot].rel
             /\ job'[Boot].staged = job[Boot].staged
    <2>1. Chosen'
      BY <1>2 DEF Aside, BootHolds, Chosen
    <2>2. Rows'
      BY <1>2 DEF Aside, BootHolds, Rows, At
    <2>3. TeamsHold'
      BY <1>2 DEF Aside, BootHolds, TeamsHold, At
    <2> QED BY <2>1, <2>2, <2>3 DEF Aside, BootHolds
  <1> QED BY <1>1, <1>2 DEF Aside

(* The steps of a bootstrap.                                               *)
BootSteps ==
    \/ MigrateStart(Boot) \/ Apply(Boot) \/ MigrateDies(Boot)
    \/ Bootstrap

LEMMA StepsOfBoot ==
  ASSUME DeploymentAssumption, Typed, [Next]_vars
  PROVE  Aside \/ BootSteps
  <1>0. /\ Boot \in Processes /\ Boot \notin Pipes /\ job \in [Processes -> Job]
        /\ \A p \in Pipes : p \in Processes /\ p # Boot /\ DatabaseOf(p) = "live"
        /\ {"live", "spare"} \subseteq Databases /\ db \in [Databases -> History]
        /\ restored \in [Databases -> {"no", "clean", "over"}]
    BY DEF Typed, Processes, DeploymentAssumption, DatabaseOf, Databases
  <1>1. ASSUME NEW p \in Pipes, \A q \in Processes \ {p} : Still(q), UNCHANGED <<restored, seeds>>,
               db'["spare"] = db["spare"]
        PROVE  Aside
    BY <1>0, <1>1 DEF Aside, Still, seeds
  <1>2. ASSUME NEW p \in Pipes, NEW r \in Releases, Push(p, r) PROVE Aside
    <2>1. \A q \in Processes \ {p} : Still(q)
      BY <1>2, PushMoves
    <2>2. UNCHANGED <<restored, seeds, db>>
      BY <1>2 DEF Push
    <2> QED BY <1>1, <2>1, <2>2
  <1>3. ASSUME NEW p \in Pipes, Sync(p) \/ Stage(p) \/ Snapshot(p) \/ CutoverDies(p) \/ CopyBackup(p)
        PROVE  Aside
    <2>1. Alone(p)
      BY <1>3, SyncMoves, StageMoves, SnapshotMoves, CutoverDiesMoves, CopyMoves
    <2>2. UNCHANGED <<restored, seeds, db>>
      BY <1>3 DEF Sync, Stage, Snapshot, CutoverDies, CopyBackup
    <2> QED BY <1>1, <2>1, <2>2 DEF Alone
  <1>4. ASSUME NEW p \in Pipes, Cutover(p) PROVE Aside
    <2>1. Alone(p)
      BY <1>4, CutoverMoves
    <2>2. db'["spare"] = db["spare"]
      BY <1>0, <1>4, CutoverReplaces
    <2>3. UNCHANGED <<restored, seeds>>
      BY <1>4 DEF Cutover
    <2> QED BY <1>1, <2>1, <2>2, <2>3 DEF Alone
  <1>5. ASSUME NEW p \in Pipes, Preflight(p) \/ Trigger(p) \/ Wait(p) PROVE Aside
    <2>1. job'[Boot] = job[Boot]
      BY <1>0, <1>5 DEF Preflight, Trigger, Wait, Goto, Stop
    <2>2. UNCHANGED <<restored, seeds, db>>
      BY <1>5 DEF Preflight, Trigger, Wait
    <2> QED BY <2>1, <2>2 DEF Aside, seeds
  <1>6. ASSUME NEW p \in Pipes, ContainerGone(p) \/ MigrateStart(p) \/ Apply(p) \/ MigrateDies(p)
        PROVE  Aside
    <2>1. /\ Alone(p)
          /\ db' = db \/ \E h : db' = [db EXCEPT !["live"] = h]
      BY <1>0, <1>6, MigrateStartMoves, ApplyMoves, InterruptedMoves DEF Begins
    <2>2. db'["spare"] = db["spare"]
      BY <1>0, <2>1
    <2>3. UNCHANGED <<restored, seeds>>
      BY <1>6 DEF ContainerGone, MigrateStart, Apply, MigrateDies
    <2> QED BY <1>1, <2>1, <2>2, <2>3 DEF Alone
  <1>7. CASE Container
    <2>1. UNCHANGED <<restored, seeds>>
      BY <1>7 DEF Container, BuildImage, ReplaceContainer, ContainerRestarts, ContainerIsNew, WriteNull
    <2>2. db'["spare"] = db["spare"]
      BY <1>0, <1>7, WriteNullWrites
      DEF Container, BuildImage, ReplaceContainer, ContainerRestarts, ContainerIsNew
    <2>3. job' = job \/ ContainerIsNew
      BY <1>7 DEF Container, BuildImage, ReplaceContainer, ContainerRestarts, WriteNull
    <2> QED BY <1>0, <2>1, <2>2, <2>3, ContainerMoves DEF Aside, Still, seeds
  <1>8. CASE Archive
    <2>1. ASSUME NEW d \in Databases, NEW alike, NEW lifted, Restore(d, alike, lifted)
          PROVE  restored'["spare"] = "no" => restored["spare"] = "no" /\ db'["spare"] = db["spare"]
      <3>1. CASE d = "spare"
        BY <1>0, <2>1, <3>1, RestoreMoves
      <3>2. CASE d # "spare"
        BY <1>0, <2>1, <3>2, RestoreMoves
      <3> QED BY <3>1, <3>2
    <2>2. UNCHANGED <<job, seeds>>
      BY <1>8 DEF Archive, Dump, DumpDies, UploadCutsShort, Verify, Restore
    <2>3. restored'["spare"] = "no" => restored["spare"] = "no" /\ db'["spare"] = db["spare"]
      BY <1>8, <2>1 DEF Archive, Dump, DumpDies, UploadCutsShort, Verify
    <2> QED BY <2>2, <2>3 DEF Aside, seeds
  <1>9. CASE UNCHANGED vars
    BY <1>9 DEF vars, Aside, seeds
  <1>10. CASE Migrate
    BY <1>6, <1>10 DEF Migrate, BootSteps, Processes
  <1>11. CASE Pipeline
    BY <1>2, <1>3, <1>4, <1>5, <1>6, <1>11 DEF Pipeline
  <1> QED BY <1>7, <1>8, <1>9, <1>10, <1>11 DEF Next, BootSteps
LEMMA BootMigrates ==
  ASSUME DeploymentAssumption, Typed, BootHolds, MigrateStart(Boot) \/ Apply(Boot) \/ MigrateDies(Boot)
  PROVE  BootHolds'
  <1> DEFINE r == job[Boot].staged
  <1>0. /\ Boot \in Processes /\ job \in [Processes -> Job] /\ job[Boot] \in Job
        /\ DatabaseOf(Boot) = "spare" /\ UNCHANGED <<boot, seeded, teams, restored>>
        /\ job[Boot].pc \in {"migrate", "applying"}
    BY DEF Typed, Processes, DatabaseOf, seeds, MigrateStart, Apply, MigrateDies, At
  <1>1. /\ boot \in [at : Nat, swallowed : BOOLEAN, runs : Nat] /\ boot.at = 1
        /\ job[Boot].rel = job[Boot].staged
    BY <1>0 DEF BootHolds, Chosen
  <1>2. ASSUME job'[Boot].pc = "stopped" PROVE BootHolds'
    BY <1>0, <1>2 DEF BootHolds, Chosen, Rows, TeamsHold, PastMigrations, At
  <1>3. ASSUME job'[Boot].pc \in {"migrate", "applying", "migrated"},
               job'[Boot].rel = job[Boot].rel, job'[Boot].staged = job[Boot].staged,
               job'[Boot].pc = "migrated" => Range(Directory[r]) \subseteq db'["spare"].done
        PROVE  BootHolds'
    <2>1. Chosen'
      BY <1>0, <1>1, <1>3 DEF Chosen, PastMigrations
    <2>2. Rows'
      BY <1>3 DEF Rows, At
    <2>3. TeamsHold'
      BY <1>0, <1>3 DEF BootHolds, TeamsHold, At
    <2> QED BY <1>0, <1>1, <2>1, <2>2, <2>3 DEF BootHolds
  <1>4. CASE MigrateStart(Boot)
    <2>1. CASE Stop(Boot)
      BY <1>0, <1>2, <2>1, StopMoves
    <2>2. CASE EndSession(Boot, "migrated") /\ Pending("spare", r) = {} /\ db' = db
      <3>1. Goto(Boot, "migrated") /\ "migrated" \in Steps
        BY <2>2 DEF EndSession, Steps
      <3>2. job'[Boot].pc = "migrated" /\ Carries(Boot)
        BY <1>0, <3>1, GotoMoves
      <3>3. Range(Directory[r]) \subseteq db["spare"].done
        BY <2>2 DEF Pending, IsPending, Range
      <3> QED BY <1>3, <2>2, <3>2, <3>3 DEF Carries
    <2>3. ASSUME NEW m, job' = [job EXCEPT ![Boot].pc = "applying", ![Boot].next = m] PROVE BootHolds'
      <3>1. job'[Boot] = [job[Boot] EXCEPT !.pc = "applying", !.next = m]
        BY <1>0, <2>3
      <3>2. job'[Boot].pc = "applying" /\ job'[Boot].rel = job[Boot].rel
            /\ job'[Boot].staged = job[Boot].staged
        BY <1>0, <3>1 DEF Job
      <3> QED BY <1>3, <3>2
    <2> QED BY <1>0, <1>4, <2>1, <2>2, <2>3 DEF MigrateStart
  <1>5. CASE Apply(Boot)
    <2>1. CASE Stop(Boot)
      BY <1>0, <1>2, <2>1, StopMoves
    <2>2. CASE job' = [job EXCEPT ![Boot].pc = "migrate", ![Boot].next = None]
      <3>1. job'[Boot] = [job[Boot] EXCEPT !.pc = "migrate", !.next = None]
        BY <1>0, <2>2
      <3>2. job'[Boot].pc = "migrate" /\ job'[Boot].rel = job[Boot].rel
            /\ job'[Boot].staged = job[Boot].staged
        BY <1>0, <3>1 DEF Job
      <3> QED BY <1>3, <3>2
    <2> QED BY <1>5, <2>1, <2>2 DEF Apply
  <1>6. CASE MigrateDies(Boot)
    BY <1>0, <1>2, <1>6, StopMoves DEF MigrateDies
  <1> QED BY <1>4, <1>5, <1>6

LEMMA StepsOfSeeds ==
  /\ Len(PermissionSteps) = 5 /\ Len(SeedSteps) = 3
  /\ Range(PermissionSteps) = {PermissionSteps[i] : i \in 1..5}
  /\ Range(SeedSteps) = {SeedSteps[i] : i \in 1..3}
  <1>1. Len(PermissionSteps) = 5 /\ DOMAIN PermissionSteps = 1..5
    BY DEF PermissionSteps
  <1>2. Len(SeedSteps) = 3 /\ DOMAIN SeedSteps = 1..3
    BY DEF SeedSteps
  <1> QED BY <1>1, <1>2 DEF Range

LEMMA BootSeeds ==
  ASSUME DeploymentAssumption, Typed, BootHolds,
         \/ \E r \in Releases, allowExisting \in BOOLEAN : Inspect(r, allowExisting)
         \/ StartSeeds
         \/ \E row \in Range(PermissionSteps) : SeedPermission(row)
         \/ PermissionFails
         \/ \E row \in Range(SeedSteps) : Seed(row)
         \/ BootDies
  PROVE  BootHolds'
  <1>0. /\ Boot \in Processes /\ job \in [Processes -> Job] /\ job[Boot] \in Job
        /\ UNCHANGED <<db, teams, restored>>
        /\ boot \in [at : Nat, swallowed : BOOLEAN, runs : Nat]
        /\ {"permissions", "seed", "teams", "stopped"} \subseteq Steps
        /\ teams \in [Range(Catalogue) -> TeamRows]
    BY DEF Typed, Processes, BootHolds, TeamsHold, Steps, seeds, Inspect, StartSeeds, SeedPermission, PermissionFails,
       Seed, BootDies, Seeding
  <1>2. ASSUME job'[Boot].pc = "stopped", boot' \in [at : Nat, swallowed : BOOLEAN, runs : Nat]
        PROVE BootHolds'
    BY <1>0, <1>2 DEF BootHolds, Chosen, Rows, TeamsHold, PastMigrations, At
  <1>3. ASSUME NEW pc \in {"permissions", "seed", "teams"}, Goto(Boot, pc),
               job[Boot].pc \in PastMigrations
        PROVE  Chosen' /\ job'[Boot].pc = pc
    <2>0. pc \in Steps
      BY DEF Steps
    <2>1. job'[Boot].pc = pc /\ Carries(Boot)
      BY <1>0, <1>3, <2>0, GotoMoves
    <2> QED BY <1>0, <1>3, <2>1 DEF BootHolds, Chosen, PastMigrations, Carries
  <1>4. ASSUME NEW r \in Releases, NEW allow \in BOOLEAN, Inspect(r, allow) PROVE BootHolds'
    <2>1. /\ job'[Boot].staged = r /\ job'[Boot].pc \in {"stopped", "migrate"}
      BY <1>4, InspectMoves
    <2>2. PICK pc \in {"stopped", "migrate"} :
            job' = [job EXCEPT ![Boot].rel = r, ![Boot].staged = r, ![Boot].pc = pc]
      BY <1>4 DEF Inspect
    <2>3. job'[Boot] = [job[Boot] EXCEPT !.rel = r, !.staged = r, !.pc = pc]
      BY <1>0, <2>2
    <2>4. job'[Boot].rel = r
      BY <1>0, <2>3 DEF Job
    <2>5. boot' = [at |-> 1, swallowed |-> FALSE, runs |-> boot.runs + 1]
      BY <1>4 DEF Inspect
    <2>6. boot' \in [at : Nat, swallowed : BOOLEAN, runs : Nat] /\ boot'.at = 1
      BY <1>0, <2>5
    <2>7. CASE job'[Boot].pc = "migrate"
      BY <1>0, <2>1, <2>4, <2>6, <2>7 DEF BootHolds, Chosen, Rows, TeamsHold, PastMigrations, At
    <2> QED BY <1>2, <2>1, <2>6, <2>7
  <1>5. CASE StartSeeds
    <2>1. Goto(Boot, "permissions") /\ job[Boot].pc = "migrated" /\ UNCHANGED <<boot, seeded>>
      BY <1>5 DEF StartSeeds, At, seeds
    <2>2. Chosen' /\ job'[Boot].pc = "permissions"
      BY <1>3, <2>1 DEF PastMigrations
    <2>3. boot.at = 1
      BY <2>1 DEF BootHolds, Chosen
    <2> QED BY <1>0, <2>1, <2>2, <2>3 DEF BootHolds, Rows, TeamsHold, At
  <1>6. ASSUME NEW row \in Range(PermissionSteps), SeedPermission(row) PROVE BootHolds'
    <2>1. /\ job[Boot].pc = "permissions" /\ row = PermissionSteps[boot.at]
          /\ seeded' = seeded \cup {row} /\ boot.at \in 1..5
          /\ \A i \in 1..5 : i < boot.at => PermissionSteps[i] \in seeded
      BY <1>6 DEF SeedPermission, Seeding, At, BootHolds, Rows
    <2>2. /\ boot' = [boot EXCEPT !.at = IF @ = 5 THEN 1 ELSE @ + 1]
          /\ Goto(Boot, IF boot.at = 5 THEN "seed" ELSE "permissions")
      BY <1>6, StepsOfSeeds DEF SeedPermission, Seeding
    <2>3. boot' \in [at : Nat, swallowed : BOOLEAN, runs : Nat]
          /\ boot'.at = IF boot.at = 5 THEN 1 ELSE boot.at + 1
      <3>1. PICK n \in Nat : n = IF boot.at = 5 THEN 1 ELSE boot.at + 1
        BY <1>0
      <3>2. boot' = [boot EXCEPT !.at = n]
        BY <1>0, <2>2, <3>1
      <3> QED BY <1>0, <3>1, <3>2
    <2>4. \A i \in 1..5 : i <= boot.at => PermissionSteps[i] \in seeded'
      BY <1>0, <2>1
    <2>5. CASE boot.at = 5
      <3>1. Chosen' /\ job'[Boot].pc = "seed"
        BY <1>3, <2>1, <2>2, <2>5 DEF PastMigrations
      <3>2. Rows'
        BY <2>3, <2>4, <2>5, <3>1 DEF Rows, At
      <3> QED BY <1>0, <2>3, <3>1, <3>2 DEF BootHolds, TeamsHold, At
    <2>6. CASE boot.at # 5
      <3>1. Chosen' /\ job'[Boot].pc = "permissions"
        BY <1>3, <2>1, <2>2, <2>6 DEF PastMigrations
      <3>2. Rows'
        BY <1>0, <2>1, <2>3, <2>4, <2>6, <3>1 DEF Rows, At
      <3> QED BY <1>0, <2>3, <3>1, <3>2 DEF BootHolds, TeamsHold, At
    <2> QED BY <2>5, <2>6
  <1>7. CASE PermissionFails
    <2>1. /\ Goto(Boot, "seed") /\ job[Boot].pc = "permissions"
          /\ boot' = [boot EXCEPT !.at = 1, !.swallowed = TRUE]
      BY <1>7 DEF PermissionFails, At
    <2>2. Chosen' /\ job'[Boot].pc = "seed"
      BY <1>3, <2>1 DEF PastMigrations
    <2>3. boot' \in [at : Nat, swallowed : BOOLEAN, runs : Nat] /\ boot'.at = 1 /\ boot'.swallowed
      BY <1>0, <2>1
    <2>4. Rows'
      BY <2>2, <2>3 DEF Rows, At
    <2> QED BY <1>0, <2>2, <2>3, <2>4 DEF BootHolds, TeamsHold, At
  <1>8. ASSUME NEW row \in Range(SeedSteps), Seed(row) PROVE BootHolds'
    <2>1. /\ job[Boot].pc = "seed" /\ row = SeedSteps[boot.at] /\ boot.at \in 1..3
          /\ \A i \in 1..3 : i < boot.at => SeedSteps[i] \in seeded
          /\ ~boot.swallowed => \A i \in 1..5 : PermissionSteps[i] \in seeded
      BY <1>8 DEF Seed, At, BootHolds, Rows
    <2>2. CASE Stop(Boot) /\ UNCHANGED seeds
      <3>1. job'[Boot].pc = "stopped" /\ boot' = boot
        BY <1>0, <2>2, StopMoves DEF seeds
      <3> QED BY <1>0, <1>2, <3>1
    <2>3. CASE Seeding(SeedSteps, "seed", "teams", row)
      <3>1. /\ boot' = [boot EXCEPT !.at = IF @ = 3 THEN 1 ELSE @ + 1]
            /\ Goto(Boot, IF boot.at = 3 THEN "teams" ELSE "seed") /\ seeded' = seeded \cup {row}
        BY <2>3, StepsOfSeeds DEF Seeding
      <3>2. boot' \in [at : Nat, swallowed : BOOLEAN, runs : Nat]
            /\ boot'.at = (IF boot.at = 3 THEN 1 ELSE boot.at + 1) /\ boot'.swallowed = boot.swallowed
        <4>1. PICK n \in Nat : n = IF boot.at = 3 THEN 1 ELSE boot.at + 1
          BY <1>0
        <4>2. boot' = [boot EXCEPT !.at = n]
          BY <1>0, <3>1, <4>1
        <4> QED BY <1>0, <4>1, <4>2
      <3>3. /\ \A i \in 1..3 : i <= boot.at => SeedSteps[i] \in seeded'
            /\ ~boot.swallowed => \A i \in 1..5 : PermissionSteps[i] \in seeded'
        BY <1>0, <2>1, <3>1
      <3>4. CASE boot.at = 3
        <4>1. Chosen' /\ job'[Boot].pc = "teams"
          BY <1>3, <2>1, <3>1, <3>4 DEF PastMigrations
        <4>2. Rows'
          BY <3>2, <3>3, <3>4, <4>1 DEF Rows, At
        <4>3. Len(Catalogue) \in Nat \ {0}
          BY DEF DeploymentAssumption
        <4>4. TeamsHold'
          BY <1>0, <3>2, <3>4, <4>1, <4>3 DEF TeamsHold, At
        <4> QED BY <3>2, <4>1, <4>2, <4>4 DEF BootHolds
      <3>5. CASE boot.at # 3
        <4>1. Chosen' /\ job'[Boot].pc = "seed"
          BY <1>3, <2>1, <3>1, <3>5 DEF PastMigrations
        <4>2. Rows'
          BY <1>0, <2>1, <3>2, <3>3, <3>5, <4>1 DEF Rows, At
        <4> QED BY <1>0, <3>2, <4>1, <4>2 DEF BootHolds, TeamsHold, At
      <3> QED BY <3>4, <3>5
    <2> QED BY <1>8, <2>2, <2>3 DEF Seed
  <1>9. CASE BootDies
    <2>1. job'[Boot].pc = "stopped" /\ boot' = boot
      BY <1>0, <1>9, StopMoves DEF BootDies, seeds
    <2> QED BY <1>0, <1>2, <2>1
  <1> QED BY <1>4, <1>5, <1>6, <1>7, <1>8, <1>9
LEMMA CatalogueIs ==
  ASSUME DeploymentAssumption
  PROVE  /\ Len(Catalogue) \in Nat \ {0} /\ DOMAIN Catalogue = 1..Len(Catalogue)
         /\ Range(Catalogue) = {Catalogue[i] : i \in 1..Len(Catalogue)}
  <1>1. Len(Catalogue) \in Nat \ {0} /\ DOMAIN Catalogue = 1..Len(Catalogue)
    BY DEF DeploymentAssumption
  <1> QED BY <1>1 DEF Range

LEMMA AdoptedIs ==
  ASSUME teams \in [Range(Catalogue) -> TeamRows], NEW t \in Range(Catalogue)
  PROVE  Adopted(t) \in TeamRows /\ (teams[t].id = 1 => Adopted(t) = teams[t])
  <1>1. PICK row \in TeamRows : row = teams[t]
    OBVIOUS
  <1>2. /\ [row EXCEPT !.id = 1] \in TeamRows
        /\ [row EXCEPT !.id = 1, !.home = 0] \in TeamRows
        /\ [row EXCEPT !.id = 1, !.away = 0] \in TeamRows
    BY DEF TeamRows
  <1>3. CASE row.id = 0 /\ row.home + row.away = 0
    <2>1. row.home # 1 /\ ~(row.home = 0 /\ row.away = 1)
      BY <1>3 DEF TeamRows
    <2>2. Adopted(t) = [row EXCEPT !.id = 1]
      BY <1>1, <1>3, <2>1, Zenon DEF Adopted
    <2> QED BY <1>1, <1>2, <1>3, <2>2
  <1>4. CASE row.id = 0 /\ row.home = 1
    <2>1. row.home + row.away # 0 /\ row.home # 0
      BY <1>4 DEF TeamRows
    <2>2. Adopted(t) = [row EXCEPT !.id = 1, !.home = 0]
      BY <1>1, <1>4, <2>1, Zenon DEF Adopted
    <2> QED BY <1>1, <1>2, <1>4, <2>2
  <1>5. CASE row.id = 0 /\ row.home = 0 /\ row.away = 1
    <2>1. row.home + row.away # 0 /\ row.home # 1
      BY <1>5 DEF TeamRows
    <2>2. Adopted(t) = [row EXCEPT !.id = 1, !.away = 0]
      BY <1>1, <1>5, <2>1, Zenon DEF Adopted
    <2> QED BY <1>1, <1>2, <1>5, <2>2
  <1>6. CASE /\ ~(row.id = 0 /\ row.home + row.away = 0) /\ ~(row.id = 0 /\ row.home = 1)
             /\ ~(row.id = 0 /\ row.home = 0 /\ row.away = 1)
    <2>1. Adopted(t) = row
      BY <1>1, <1>6, Zenon DEF Adopted
    <2> QED BY <1>1, <2>1
  <1> QED BY <1>3, <1>4, <1>5, <1>6

LEMMA BootSeedsTeam ==
  ASSUME DeploymentAssumption, Typed, BootHolds, SeedTeam
  PROVE  BootHolds'
  <1> DEFINE n == Len(Catalogue)  t == Catalogue[boot.at]
  <1>0. /\ Boot \in Processes /\ job \in [Processes -> Job] /\ job[Boot] \in Job
        /\ UNCHANGED <<db, seeded, restored>> /\ job[Boot].pc = "teams"
        /\ boot \in [at : Nat, swallowed : BOOLEAN, runs : Nat] /\ boot.at \in 1..n
        /\ teams \in [Range(Catalogue) -> TeamRows] /\ n \in Nat \ {0}
        /\ \A i \in 1..n : i < boot.at => teams[Catalogue[i]].id = 1
        /\ \A i \in 1..n : Catalogue[i] \in Range(Catalogue)
        /\ t \in Range(Catalogue)
    BY CatalogueIs DEF Typed, Processes, BootHolds, TeamsHold, SeedTeam, At
  <1>1. teams' = [teams EXCEPT ![t] = Adopted(t)]
    BY DEF SeedTeam
  <1>2. Adopted(t) \in TeamRows /\ (teams[t].id = 1 => Adopted(t) = teams[t])
    BY <1>0, AdoptedIs
  <1>3. /\ teams' \in [Range(Catalogue) -> TeamRows] /\ teams'[t] = Adopted(t)
        /\ \A i \in 1..n : i < boot.at => teams'[Catalogue[i]].id = 1
    BY <1>0, <1>1, <1>2
  <1>4. PICK m \in Nat : m = IF boot.at = n THEN 1 ELSE boot.at + 1
    BY <1>0
  <1>5. boot' = [boot EXCEPT !.at = m]
    BY <1>0, <1>4 DEF SeedTeam
  <1>6. boot' \in [at : Nat, swallowed : BOOLEAN, runs : Nat] /\ boot'.at = m
        /\ boot'.swallowed = boot.swallowed
    BY <1>0, <1>5
  <1>7. PICK pc \in {"stopped", "done", "teams"} :
            pc = IF Adopted(t).id = 0 THEN "stopped" ELSE IF boot.at = n THEN "done" ELSE "teams"
    OBVIOUS
  <1>8. Goto(Boot, pc) /\ pc \in Steps
    BY <1>7 DEF SeedTeam, Steps
  <1>9. job'[Boot].pc = pc /\ Carries(Boot)
    BY <1>0, <1>8, GotoMoves
  <1>10. Chosen' /\ Rows'
    BY <1>0, <1>6, <1>7, <1>9 DEF BootHolds, Chosen, Rows, PastMigrations, Carries, At
  <1>11. TeamsHold'
    <2>1. CASE pc = "stopped"
      BY <1>3, <1>9, <2>1 DEF TeamsHold, At
    <2>2. CASE pc # "stopped"
      <3>1. teams'[t].id = 1
        BY <1>2, <1>3, <1>7, <2>2 DEF TeamRows
      <3>2. \A i \in 1..n : i <= boot.at => teams'[Catalogue[i]].id = 1
        BY <1>0, <1>3, <3>1
      <3>3. CASE boot.at = n
        BY <1>0, <1>3, <1>7, <1>9, <2>2, <3>2, <3>3 DEF TeamsHold, At
      <3>4. CASE boot.at # n
        BY <1>0, <1>3, <1>4, <1>6, <1>7, <1>9, <2>2, <3>2, <3>4 DEF TeamsHold, At
      <3> QED BY <3>3, <3>4
    <2> QED BY <2>1, <2>2
  <1> QED BY <1>6, <1>10, <1>11 DEF BootHolds

LEMMA BootWithTeamsByHand ==
  ASSUME DeploymentAssumption, Typed, BootHolds, NEW t \in Range(Catalogue),
         NEW country \in {"home", "away"}, CreateTeam(t, country)
  PROVE  BootHolds'
  <1>0. /\ UNCHANGED <<db, job, boot, seeded, restored>>
        /\ teams \in [Range(Catalogue) -> TeamRows] /\ teams[t] \in TeamRows
    BY DEF BootHolds, TeamsHold, CreateTeam
  <1>1. PICK row \in TeamRows : teams' = [teams EXCEPT ![t] = row] /\ row.id = teams[t].id
    <2>1. CASE country = "home"
      <3>1. teams' = [teams EXCEPT ![t] = [teams[t] EXCEPT !.home = @ + 1]]
        BY <1>0, <2>1 DEF CreateTeam
      <3>2. \A row \in TeamRows : [row EXCEPT !.home = @ + 1] \in TeamRows
                                   /\ [row EXCEPT !.home = @ + 1].id = row.id
        BY DEF TeamRows
      <3> QED BY <1>0, <3>1, <3>2
    <2>2. CASE country = "away"
      <3>1. teams' = [teams EXCEPT ![t] = [teams[t] EXCEPT !.away = @ + 1]]
        BY <1>0, <2>2 DEF CreateTeam
      <3>2. \A row \in TeamRows : [row EXCEPT !.away = @ + 1] \in TeamRows
                                   /\ [row EXCEPT !.away = @ + 1].id = row.id
        BY DEF TeamRows
      <3> QED BY <1>0, <3>1, <3>2
    <2> QED BY <2>1, <2>2
  <1>2. /\ teams' \in [Range(Catalogue) -> TeamRows]
        /\ \A u \in Range(Catalogue) : teams'[u].id = teams[u].id
    BY <1>0, <1>1
  <1>3. \A i \in 1..Len(Catalogue) : Catalogue[i] \in Range(Catalogue)
    BY CatalogueIs
  <1>4. Chosen' /\ Rows' /\ boot' \in [at : Nat, swallowed : BOOLEAN, runs : Nat]
    BY <1>0 DEF BootHolds, Chosen, Rows, At
  <1>5. TeamsHold'
    BY <1>0, <1>2, <1>3 DEF BootHolds, TeamsHold, At
  <1> QED BY <1>4, <1>5 DEF BootHolds

(* Every step keeps what is known of a bootstrap.                          *)
LEMMA BootHoldsNext ==
  ASSUME DeploymentAssumption, Typed, BootHolds, [Next]_vars
  PROVE  BootHolds'
  <1>1. CASE Aside
    BY <1>1, AsideHolds
  <1>2. CASE Bootstrap
    BY <1>2, BootSeeds, BootSeedsTeam, BootWithTeamsByHand DEF Bootstrap
  <1> QED BY <1>1, <1>2, StepsOfBoot, BootMigrates DEF BootSteps

(* A bootstrap that completed has left in the database every migration of   *)
(* its release, every row of the seeds and every team of the catalogue.     *)
THEOREM BootstrapCompletes == Spec => []BootstrapIsComplete
  <1>1. DeploymentAssumption /\ BootHolds => BootstrapIsComplete
    <2> SUFFICES ASSUME DeploymentAssumption, BootHolds, At(Boot, "done"), ~boot.swallowed,
                        restored["spare"] = "no"
                 PROVE  /\ Range(Directory[job[Boot].rel]) \subseteq db["spare"].done
                        /\ Range(PermissionSteps) \cup Range(SeedSteps) \subseteq seeded
                        /\ \A t \in Range(Catalogue) : teams[t].id = 1
      BY DEF BootstrapIsComplete
    <2>1. Range(Directory[job[Boot].rel]) \subseteq db["spare"].done
      BY DEF BootHolds, Chosen, PastMigrations, At
    <2>2. Range(PermissionSteps) \cup Range(SeedSteps) \subseteq seeded
      BY StepsOfSeeds DEF BootHolds, Rows, At
    <2>3. \A t \in Range(Catalogue) : teams[t].id = 1
      <3>1. \A i \in 1..Len(Catalogue) : teams[Catalogue[i]].id = 1
        BY DEF BootHolds, TeamsHold
      <3>2. Range(Catalogue) = {Catalogue[i] : i \in 1..Len(Catalogue)}
        BY CatalogueIs DEF Range
      <3> QED BY <3>1, <3>2
    <2> QED BY <2>1, <2>2, <2>3
  <1>2. DeploymentAssumption /\ Typed /\ BootHolds /\ [Next]_vars => Typed' /\ BootHolds'
    BY TypedNext, BootHoldsNext
  <1> QED BY <1>1, <1>2, TypedInit, BootHoldsInit, DeploymentAssumption, PTL DEF Spec
=============================================================================
