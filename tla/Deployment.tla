----------------------------- MODULE Deployment -----------------------------
(***************************************************************************)
(* How a release and its migrations reach the production database.          *)
(*                                                                         *)
(*  - The deploy pipeline: its remote sessions on the server, the container *)
(*    they work in, the cutover that replaces the legacy migration history  *)
(*    by one baseline, and prisma migrate deploy.                           *)
(*  - The bootstrap of an empty database, with its seeds.                   *)
(*  - The dump of a database, its verification and its restore.             *)
(*                                                                         *)
(* A schema is a set of objects: what each migration creates. Everything    *)
(* may die between two steps, and a pipeline that a newer one cancels keeps *)
(* the remote session it has open and gets no other.                        *)
(***************************************************************************)
EXTENDS Naturals, FiniteSets, Sequences, SequencesExt

CONSTANTS
    Legacy, Base, New,      \* migrations: before, of and after the baseline
    Creates, Needs,         \* objects a migration creates, and must find there
    Alters,                 \* tables it alters or references, by name
    Backfills, Requires,    \* those that fill a column, those that require it
    Structure,              \* objects assertRequiredStructure looks for
    AcceptedDrifts,         \* objects by which an accepted schema differs
    UnknownDrifts,          \* and those by which another does
    Releases, Directory,    \* the migrations of a release, in order
    LeavesNull,             \* the releases that do not fill the column
    FirstRelease,           \* the one that serves at first
    Pipes, Catalogue,       \* deploy pipelines; the teams of the seed
    MaxFaults, MaxBoots     \* bounds

Boot == "boot"
None == "none"
Processes == Pipes \cup {Boot}
Databases == {"live", "spare"}
DatabaseOf(p) == IF p = Boot THEN "spare" ELSE "live"
Created(ms) == UNION {Creates[m] : m \in ms}
Baseline == Created(Legacy)
Successors == {Base} \cup New

(* The baseline creates what the legacy chain created, the tables that are  *)
(* required among it; an accepted schema has besides it what its drift says; *)
(* what a migration must find it does not create. Nothing is assumed of the *)
(* order of a chain, or of what two migrations create: the CI reads no more *)
(* than AuditPasses and PolicyHolds and applies no chain to a database.     *)
ASSUME DeploymentAssumption ==
    /\ Pipes \cap {Boot, None} = {} /\ None \notin Releases
    /\ Base \notin Legacy \cup New /\ Legacy \cap New = {} /\ Legacy # {}
    /\ Creates[Base] = Baseline /\ Structure \subseteq Baseline
    /\ \A m \in Successors : Needs[m] \cap Creates[m] = {}
    /\ {} \in AcceptedDrifts /\ \A drift \in AcceptedDrifts : drift \cap Baseline = {}
    /\ FirstRelease \in Releases
    /\ \A r \in Releases : Directory[r] \in Seq(Legacy \cup Successors)
    /\ Catalogue \in Seq(Range(Catalogue)) /\ Catalogue # <<>>
    /\ MaxFaults \in Nat /\ MaxBoots \in Nat

VARIABLES
    db,        \* the databases
    restored,  \* databases restored: not; onto an empty one, that nothing was
               \* about to migrate; or over something
    codeDir,   \* release in the directory EasyPanel builds from
    queued,    \* a build was asked for
    image,     \* release built and not started yet
    box,       \* release the API container runs
    kept,      \* history backups in the container: <<pipeline, rows>>
    host,      \* history backups in /var/backups of the server
    stranded,  \* a container went away before its backup was copied
    found,     \* the history production had
    job,       \* the processes
    lock,      \* advisory lock of prisma migrate, by database
    refused,   \* migrations of a release whose SQL a database refused
    dump,      \* a dump of the live database, and its manifest
    boot,      \* progress of the bootstrap
    seeded,    \* rows of the seeds in the spare database
    teams,     \* teams of the spare database, by catalogue entry
    faults

vars == <<db, restored, codeDir, queued, image, box, kept, host, stranded, found, job,
          lock, refused, dump, boot, seeded, teams, faults>>
server == <<codeDir, queued, image, box>>
backups == <<kept, host, stranded, found>>
seeds == <<boot, seeded, teams>>

Empty == [table |-> FALSE, done |-> {}, broken |-> {}, schema |-> {}, late |-> FALSE]

(* What production may be when the pipeline first meets it: empty; with     *)
(* tables and no history; or with the legacy history, whole or not, and a   *)
(* schema that differs from it or not.                                      *)
Found(done, drift) ==
    [Empty EXCEPT !.table = TRUE, !.done = done, !.schema = Created(done) \cup drift]
FirstDatabases ==
    {Empty, [Empty EXCEPT !.schema = Baseline]}
    \cup {Found(Legacy, drift) : drift \in AcceptedDrifts \cup UnknownDrifts}
    \cup {Found(Legacy \ {l}, {}) : l \in Legacy}

Idle == [pc |-> "idle", rel |-> None, staged |-> None, next |-> None, alive |-> FALSE,
         inBox |-> FALSE, seen |-> Empty, ok |-> FALSE]

Init ==
    /\ \E first \in FirstDatabases : db = [live |-> first, spare |-> Empty]
    /\ restored = [d \in Databases |-> "no"]
    /\ codeDir = FirstRelease /\ box = codeDir /\ queued \in BOOLEAN /\ image = None
    /\ kept = {} /\ host = {} /\ stranded = FALSE /\ found = db.live.done
    /\ job = [p \in Processes |-> Idle]
    /\ lock = [d \in Databases |-> None] /\ refused = {}
    /\ dump = [file |-> None, manifest |-> None, checked |-> None, content |-> Empty]
    /\ boot = [at |-> 0, swallowed |-> FALSE, runs |-> 0]
    /\ seeded = {} /\ teams = [t \in Range(Catalogue) |-> [id |-> 0, home |-> 0, away |-> 0]]
    /\ faults = 0

At(p, pc) == job[p].pc = pc
Goto(p, pc) == job' = [job EXCEPT ![p].pc = pc]
Stopped == [Idle EXCEPT !.pc = "stopped"]
Stop(p) == job' = [job EXCEPT ![p] = Stopped]

(* A session of a cancelled pipeline goes on to its end; nothing follows.   *)
InSession(p) ==
    job[p].pc \in {"sync", "stage", "snapshot", "cutover", "copy", "migrate", "applying"}
EndSession(p, pc) == IF p = Boot \/ job[p].alive THEN Goto(p, pc) ELSE Stop(p)
Fault == faults < MaxFaults /\ faults' = faults + 1

-----------------------------------------------------------------------------
(* The CI jobs. The audit reads the text of the chain: a table that a       *)
(* migration alters or references is created by it or before it. A missing  *)
(* column, a backfill of one, an object that is there twice escape it. By   *)
(* the policy the baseline is there and no legacy migration is.             *)
\* Mutant: the audit only reports.
AuditPasses_ReportOnly(r) == TRUE

AuditPasses(r) ==
    \A i \in DOMAIN Directory[r] :
        Alters[Directory[r][i]] \subseteq Created({Directory[r][j] : j \in 1..i})

PolicyHolds(r) == Base \in Range(Directory[r]) /\ Range(Directory[r]) \cap Legacy = {}

(* A push to main, or an old run started again. The concurrency group       *)
(* cancels the pipeline under way.                                          *)
Push(p, r) ==
    /\ At(p, "idle")
    /\ job' = [q \in Processes |->
                CASE q = p /\ AuditPasses(r) /\ PolicyHolds(r) ->
                        [Idle EXCEPT !.rel = r, !.alive = TRUE, !.pc = "sync"]
                  [] q = p /\ ~(AuditPasses(r) /\ PolicyHolds(r)) -> Stopped
                  [] q # p /\ (q = Boot \/ At(q, "idle")) -> job[q]
                  [] OTHER -> IF InSession(q) THEN [job[q] EXCEPT !.alive = FALSE] ELSE Stopped]
    /\ UNCHANGED <<db, restored, server, backups, lock, refused, dump, seeds, faults>>

Sync(p) ==
    /\ At(p, "sync")
    /\ codeDir' = job[p].rel
    /\ EndSession(p, "synced")
    /\ UNCHANGED <<db, restored, queued, image, box, backups, lock, refused, dump, seeds, faults>>

(* A new remote session: it finds the container and its preflight passes,   *)
(* or it ends there.                                                        *)
Preflight(p) ==
    /\ At(p, "synced")
    /\ Stop(p) \/ job' = [job EXCEPT ![p].pc = "stage", ![p].inBox = TRUE]
    /\ UNCHANGED <<db, restored, server, backups, lock, refused, dump, seeds, faults>>

(* docker cp of the migrations in the directory, whoever synced it last.    *)
Stage(p) ==
    /\ At(p, "stage") /\ job[p].inBox
    /\ job' = [job EXCEPT ![p].staged = codeDir, ![p].pc = "snapshot"]
    /\ UNCHANGED <<db, restored, server, backups, lock, refused, dump, seeds, faults>>

-----------------------------------------------------------------------------
(* The cutover reads whether the history table exists and what the schema   *)
(* is, and only then locks the table.                                       *)
Snapshot(p) ==
    /\ At(p, "snapshot") /\ job[p].inBox
    /\ job' = [job EXCEPT ![p].seen = db.live, ![p].pc = "cutover"]
    /\ UNCHANGED <<db, restored, server, backups, lock, refused, dump, seeds, faults>>

Named(h) == h.done \cup h.broken
Consolidated(h) == Base \in h.done /\ Named(h) \cap Legacy = {}
RecognizedHistory(h) ==
    \/ Consolidated(h)
    \/ Named(h) \subseteq Legacy \cup {Base} /\ (Base \in h.done \/ Legacy \subseteq h.done)

\* Mutant: the schema is not compared.
KnownFingerprint_Any(seen) == TRUE

RequiredStructure(seen) == Structure \subseteq seen.schema
KnownFingerprint(seen) == \E drift \in AcceptedDrifts : seen.schema = Baseline \cup drift

FreshDatabase(h, seen) ==
    seen.schema = {} /\ (~seen.table \/ Named(h) = {})

(* The history is backed up into a file before any check that may refuse    *)
(* it, and the file outlives the rollback.                                  *)
WritesBackup(h, seen) ==
    \/ FreshDatabase(h, seen)
    \/ seen.table /\ RecognizedHistory(h) /\ RequiredStructure(seen)
\* Mutant: the rows are read after the legacy ones are deleted.
Backup_After(p, h, seen) ==
    IF WritesBackup(h, seen) THEN {<<p, Named(h) \ Legacy>>} ELSE {}

Backup(p, h, seen) == IF WritesBackup(h, seen) THEN {<<p, Named(h)>>} ELSE {}

(* Under the lock: one row for the baseline, none for the legacy, provided  *)
(* the schema is one that was validated and did not change meanwhile.       *)
ReplacesHistory(h, seen) ==
    /\ WritesBackup(h, seen) /\ ~FreshDatabase(h, seen) /\ ~Consolidated(h)
    /\ KnownFingerprint(seen) /\ h.schema = seen.schema
\* Mutant: the status that set +e lets pass is not looked at.
CutoverSucceeds_Ignored(h, seen) == TRUE

CutoverSucceeds(h, seen) ==
    /\ WritesBackup(h, seen)
    /\ FreshDatabase(h, seen) \/ Consolidated(h) \/ ReplacesHistory(h, seen)

Cutover(p) ==
    LET h == db.live  seen == job[p].seen IN
    /\ At(p, "cutover") /\ job[p].inBox
    /\ kept' = kept \cup Backup(p, h, seen)
    /\ db' = IF ReplacesHistory(h, seen)
             THEN [db EXCEPT !.live.done = (@ \cup {Base}) \ Legacy,
                             !.live.broken = @ \ Legacy]
             ELSE db
    /\ job' = [job EXCEPT ![p].pc = "copy", ![p].ok = CutoverSucceeds(h, seen),
                          ![p].seen = Empty]
    /\ UNCHANGED <<restored, server, host, stranded, found, lock, refused, dump, seeds, faults>>

(* The process or its transaction dies: rolled back, with the file or not.  *)
CutoverDies(p) ==
    /\ At(p, "cutover") /\ job[p].inBox /\ Fault
    /\ kept' \in {kept, kept \cup Backup(p, db.live, job[p].seen)}
    /\ job' = [job EXCEPT ![p].pc = "copy", ![p].seen = Empty]
    /\ UNCHANGED <<db, restored, server, host, stranded, found, lock, refused, dump, seeds>>

(* The file is copied out whatever the outcome, and only then does a failed *)
(* cutover end the session.                                                 *)
CopyBackup(p) ==
    /\ At(p, "copy") /\ job[p].inBox
    /\ host' = host \cup {b \in kept : b[1] = p}
    /\ IF job[p].ok THEN Goto(p, "migrate") ELSE Stop(p)
    /\ UNCHANGED <<db, restored, server, kept, stranded, found, lock, refused, dump, seeds, faults>>

-----------------------------------------------------------------------------
(* prisma migrate deploy. It refuses a database with an unfinished row, or  *)
(* with tables and no history, and then applies what is pending in order: a *)
(* row, the SQL, the row finished.                                          *)
IsPending(d, r, i) == Directory[r][i] \notin db[d].done
Pending(d, r) == {i \in DOMAIN Directory[r] : IsPending(d, r, i)}
NextMigration(d, r) ==
    Directory[r][CHOOSE i \in Pending(d, r) : \A j \in Pending(d, r) : i <= j]
HasMigrations(p) == p = Boot \/ job[p].inBox

MigrateStart(p) ==
    LET d == DatabaseOf(p)  r == job[p].staged IN
    /\ At(p, "migrate") /\ HasMigrations(p)
    /\ \/ lock[d] \notin {None, p} /\ Stop(p) /\ UNCHANGED <<db, lock>>
       \/ /\ lock[d] \in {None, p}
          /\ db[d].broken # {} \/ (~db[d].table /\ db[d].schema # {})
          /\ Stop(p) /\ lock' = [lock EXCEPT ![d] = None]
          /\ UNCHANGED db
       \/ /\ lock[d] \in {None, p}
          /\ db[d].broken = {} /\ (db[d].table \/ db[d].schema = {})
          /\ \/ /\ Pending(d, r) = {}
                /\ EndSession(p, "migrated") /\ lock' = [lock EXCEPT ![d] = None]
                /\ UNCHANGED db
             \/ /\ Pending(d, r) # {}
                /\ db' = [db EXCEPT ![d].broken = {NextMigration(d, r)}, ![d].table = TRUE]
                /\ job' = [job EXCEPT ![p].pc = "applying", ![p].next = NextMigration(d, r)]
                /\ lock' = [lock EXCEPT ![d] = p]
    /\ UNCHANGED <<restored, server, backups, refused, dump, seeds, faults>>

Accepts(d, m) ==
    /\ Needs[m] \subseteq db[d].schema /\ Creates[m] \cap db[d].schema = {}
    /\ m \in Requires => ~db[d].late
AfterSql(d, m) ==
    [db[d] EXCEPT !.schema = @ \cup Creates[m]]

Apply(p) ==
    LET d == DatabaseOf(p)  m == job[p].next IN
    /\ At(p, "applying") /\ HasMigrations(p)
    /\ IF Accepts(d, m)
       THEN /\ db' = [db EXCEPT ![d] = [AfterSql(d, m) EXCEPT !.broken = @ \ {m},
                                                             !.done = @ \cup {m}]]
            /\ job' = [job EXCEPT ![p].pc = "migrate", ![p].next = None]
            /\ UNCHANGED <<lock, refused>>
       ELSE /\ refused' = refused \cup {<<d, job[p].staged, m>>}
            /\ Stop(p) /\ lock' = [lock EXCEPT ![d] = None]
            /\ UNCHANGED db
    /\ UNCHANGED <<restored, server, backups, dump, seeds, faults>>

(* Its connection releases the lock when it dies, and its row remains, with *)
(* the SQL applied or not.                                                  *)
Interrupted(p) ==
    LET d == DatabaseOf(p)  m == job[p].next IN
    /\ lock' = [lock EXCEPT ![d] = IF @ = p THEN None ELSE @]
    /\ \/ UNCHANGED db
       \/ At(p, "applying") /\ Accepts(d, m) /\ db' = [db EXCEPT ![d] = AfterSql(d, m)]
MigrateDies(p) ==
    /\ job[p].pc \in {"migrate", "applying"} /\ Fault
    /\ Interrupted(p) /\ Stop(p)
    /\ UNCHANGED <<restored, server, backups, refused, dump, seeds>>

-----------------------------------------------------------------------------
(* deployService only asks for a build; EasyPanel builds what the directory *)
(* holds when it gets there and replaces the container.                     *)
Trigger(p) ==
    /\ At(p, "migrated") /\ p # Boot
    /\ queued' = TRUE
    /\ job' = [job EXCEPT ![p].pc = "wait", ![p].staged = None, ![p].inBox = FALSE]
    /\ UNCHANGED <<db, restored, codeDir, image, box, backups, lock, refused, dump, seeds, faults>>

BuildImage ==
    /\ queued /\ image = None
    /\ queued' = FALSE /\ image' = codeDir
    /\ UNCHANGED <<db, restored, codeDir, box, backups, job, lock, refused, dump, seeds, faults>>

ContainerIsNew ==
    /\ stranded' = (stranded \/ \E p \in Pipes : At(p, "copy") /\ job[p].inBox)
    /\ kept' = {}
    /\ job' = [p \in Processes |-> [job[p] EXCEPT !.inBox = FALSE]]
    /\ UNCHANGED <<db, restored, codeDir, queued, host, found, lock, refused, dump, seeds>>

ReplaceContainer ==
    /\ image # None
    /\ box' = image /\ image' = None
    /\ ContainerIsNew /\ UNCHANGED faults
ContainerRestarts == Fault /\ ContainerIsNew /\ UNCHANGED <<image, box>>

(* docker exec and docker cp into a container that is gone end the session; *)
(* what ran in it died with it.                                             *)
ContainerGone(p) ==
    /\ p \in Pipes /\ InSession(p) /\ ~At(p, "sync") /\ ~job[p].inBox
    /\ Stop(p)
    /\ Interrupted(p)
    /\ UNCHANGED <<restored, server, backups, refused, dump, seeds, faults>>

Wait(p) ==
    /\ At(p, "wait")
    /\ Stop(p) \/ (box = job[p].rel /\ Goto(p, "healthy"))
    /\ UNCHANGED <<db, restored, server, backups, lock, refused, dump, seeds, faults>>

(* The release that serves creates a row without the column, when it was    *)
(* backfilled and is not required yet. Earlier ones are backfilled.         *)
WriteNull ==
    /\ box \in LeavesNull /\ ~db.live.late
    /\ db.live.done \cap Backfills # {} /\ Created(Requires) \cap db.live.schema = {}
    /\ db' = [db EXCEPT !.live.late = TRUE]
    /\ UNCHANGED <<restored, server, backups, job, lock, refused, dump, seeds, faults>>

-----------------------------------------------------------------------------
(* pg_dump of the live database and the manifest with the sum of the file;  *)
(* a dump that dies leaves a file cut short and no manifest.                *)
Dump ==
    /\ dump.file = None
    /\ dump' = [file |-> "whole", manifest |-> "whole", checked |-> None, content |-> db.live]
    /\ UNCHANGED <<db, restored, server, backups, job, lock, refused, seeds, faults>>
DumpDies ==
    /\ dump.file = None /\ Fault
    /\ dump' = [file |-> "cut", manifest |-> None, checked |-> None, content |-> db.live]
    /\ UNCHANGED <<db, restored, server, backups, job, lock, refused, seeds>>
UploadCutsShort ==
    /\ dump.file = "whole" /\ dump.checked = None /\ Fault
    /\ dump' = [dump EXCEPT !.file = "cut"]
    /\ UNCHANGED <<db, restored, server, backups, job, lock, refused, seeds>>

(* Both forms list the contents, which come first in the file; the sum is   *)
(* compared only when the manifest is given.                                *)
Verify(withManifest) ==
    /\ dump.file # None
    /\ withManifest => dump.manifest # None /\ dump.file = dump.manifest
    /\ dump' = [dump EXCEPT !.checked = IF withManifest THEN "sum" ELSE "list"]
    /\ UNCHANGED <<db, restored, server, backups, job, lock, refused, seeds, faults>>

(* pg_restore --clean replaces the objects the dump knows and leaves others *)
(* there. A file cut short ends it before the last objects.                 *)
RestoreInto(d, objects) ==
    LET from == dump.content IN
    db' = [db EXCEPT ![d] =
            [schema |-> @.schema \cup objects,
             table |-> @.table \/ from.table, late |-> from.late,
             done |-> IF from.table THEN from.done ELSE @.done,
             broken |-> IF from.table THEN from.broken ELSE @.broken]]

(* The live database is refused as a target when it is spelled as           *)
(* DATABASE_URL is and nobody lifts the refusal.                            *)
Restore(d, spelledAlike, lifted) ==
    /\ dump.file # None /\ lock[d] = None
    /\ d = "live" /\ spelledAlike => lifted
    /\ restored[d] = "no"
    /\ \E objects \in SUBSET dump.content.schema :
        /\ (objects = dump.content.schema) <=> (dump.file = "whole")
        /\ RestoreInto(d, objects)
    /\ restored' = [restored EXCEPT ![d] =
                     IF \/ db[d].table \/ db[d].schema # {} \/ dump.checked # "sum"
                        \/ \E p \in Processes : DatabaseOf(p) = d /\ At(p, "migrate")
                     THEN "over" ELSE "clean"]
    /\ UNCHANGED <<server, backups, job, lock, refused, dump, seeds, faults>>

-----------------------------------------------------------------------------
(* The bootstrap of a database, from a checkout of a release: refused if it *)
(* has tables and --allow-existing is not given.                            *)
Inspect(r, allowExisting) ==
    /\ job[Boot].pc \in {"idle", "stopped", "done"} /\ boot.runs < MaxBoots
    /\ AuditPasses(r) /\ PolicyHolds(r) /\ restored.spare = "no"
    /\ job' = [job EXCEPT ![Boot].rel = r, ![Boot].staged = r,
                 ![Boot].pc = IF db.spare.schema # {} /\ ~allowExisting
                              THEN "stopped" ELSE "migrate"]
    /\ boot' = [at |-> 1, swallowed |-> FALSE, runs |-> boot.runs + 1]
    /\ UNCHANGED <<db, restored, server, backups, lock, refused, dump, seeded, teams, faults>>

(* Rows of seed-admin-permissions.js and of seed.js, in order; each is an   *)
(* upsert. The permissions that are there are granted to the roles.         *)
PermissionSteps == <<"permission", "ADMIN", "SUPERADMIN", "ADMIN grants", "SUPERADMIN grants">>
SeedSteps == <<"administrator", "role of administrator", "packages">>

\* Mutant: a row that is there means that the seed has run.
Seeding_Once(steps, pc, next, row) ==
    /\ row = steps[boot.at]
    /\ seeded' = seeded \cup {row}
    /\ LET over == boot.at = Len(steps) \/ row \in seeded IN
       /\ boot' = [boot EXCEPT !.at = IF over THEN 1 ELSE @ + 1]
       /\ Goto(Boot, IF over THEN next ELSE pc)
    /\ UNCHANGED teams

Seeding(steps, pc, next, row) ==
    /\ row = steps[boot.at]
    /\ seeded' = seeded \cup {row}
    /\ boot' = [boot EXCEPT !.at = IF @ = Len(steps) THEN 1 ELSE @ + 1]
    /\ Goto(Boot, IF boot.at = Len(steps) THEN next ELSE pc)
    /\ UNCHANGED teams

StartSeeds ==
    /\ At(Boot, "migrated") /\ Goto(Boot, "permissions")
    /\ UNCHANGED <<db, restored, server, backups, lock, refused, dump, seeds, faults>>

SeedPermission(row) ==
    /\ At(Boot, "permissions")
    /\ Seeding(PermissionSteps, "permissions", "seed", row)
    /\ UNCHANGED <<db, restored, server, backups, lock, refused, dump, faults>>

(* main().catch(console.error): the script still exits with 0.              *)
PermissionFails ==
    /\ At(Boot, "permissions") /\ Fault
    /\ Goto(Boot, "seed")
    /\ boot' = [boot EXCEPT !.at = 1, !.swallowed = TRUE]
    /\ UNCHANGED <<db, restored, server, backups, lock, refused, dump, seeded, teams>>

Seed(row) ==
    LET roleless == row = "role of administrator" /\ "ADMIN" \notin seeded IN
    /\ At(Boot, "seed") /\ row = SeedSteps[boot.at]
    /\ \/ ~roleless /\ Seeding(SeedSteps, "seed", "teams", row)
       \/ roleless /\ Stop(Boot) /\ UNCHANGED seeds
    /\ UNCHANGED <<db, restored, server, backups, lock, refused, dump, faults>>

(* findExistingTeam: the row with the seed's id; or else the only one of    *)
(* that name, or the only one of its country; or else there is none.        *)
Adopted(t) ==
    LET rows == teams[t]  new == rows.id = 0 IN
    CASE new /\ rows.home + rows.away = 0      -> [rows EXCEPT !.id = 1]
      [] new /\ rows.home = 1                  -> [rows EXCEPT !.id = 1, !.home = 0]
      [] new /\ rows.home = 0 /\ rows.away = 1 -> [rows EXCEPT !.id = 1, !.away = 0]
      [] OTHER                                 -> rows

SeedTeam ==
    LET t == Catalogue[boot.at]  last == boot.at = Len(Catalogue) IN
    /\ At(Boot, "teams")
    /\ teams' = [teams EXCEPT ![t] = Adopted(t)]
    /\ boot' = [boot EXCEPT !.at = IF last THEN 1 ELSE @ + 1]
    /\ Goto(Boot, IF Adopted(t).id = 0 THEN "stopped" ELSE IF last THEN "done" ELSE "teams")
    /\ UNCHANGED <<db, restored, server, backups, lock, refused, dump, seeded, faults>>

BootDies ==
    /\ job[Boot].pc \in {"permissions", "seed", "teams"} /\ Fault
    /\ Stop(Boot)
    /\ UNCHANGED <<db, restored, server, backups, lock, refused, dump, seeds>>

(* Meanwhile an administrator of that database creates teams by hand.       *)
CreateTeam(t, country) ==
    /\ Base \in db.spare.done /\ teams[t].home + teams[t].away < 2
    /\ teams' = [teams EXCEPT ![t][country] = @ + 1]
    /\ UNCHANGED <<db, restored, server, backups, job, lock, refused, dump, boot, seeded, faults>>

-----------------------------------------------------------------------------
Pipeline ==
    \E p \in Pipes :
        \/ \E r \in Releases : Push(p, r)
        \/ Sync(p) \/ Preflight(p) \/ Stage(p)
        \/ Snapshot(p) \/ Cutover(p) \/ CutoverDies(p) \/ CopyBackup(p)
        \/ Trigger(p) \/ Wait(p) \/ ContainerGone(p)
Migrate == \E p \in Processes : MigrateStart(p) \/ Apply(p) \/ MigrateDies(p)
Container == BuildImage \/ ReplaceContainer \/ ContainerRestarts \/ WriteNull
Archive ==
    \/ Dump \/ DumpDies \/ UploadCutsShort
    \/ \E withManifest \in BOOLEAN : Verify(withManifest)
    \/ \E d \in Databases, alike, lifted \in BOOLEAN : Restore(d, alike, lifted)
Bootstrap ==
    \/ \E r \in Releases, allowExisting \in BOOLEAN : Inspect(r, allowExisting)
    \/ StartSeeds
    \/ \E row \in Range(PermissionSteps) : SeedPermission(row)
    \/ PermissionFails
    \/ \E row \in Range(SeedSteps) : Seed(row)
    \/ SeedTeam \/ BootDies
    \/ \E t \in Range(Catalogue), country \in {"home", "away"} : CreateTeam(t, country)

Next == Pipeline \/ Migrate \/ Container \/ Archive \/ Bootstrap
Spec == Init /\ [][Next]_vars

-----------------------------------------------------------------------------
(* Whatever dies and whoever runs at the same time, what a history says was *)
(* applied is in the schema; and once it names the baseline, the schema     *)
(* holds nothing else but what an unfinished migration left or a validated  *)
(* difference. So also after a restore of a file verified against its       *)
(* manifest, onto an empty database that nothing is about to migrate.       *)
HistoryTellsSchema ==
    \A d \in Databases :
        restored[d] # "over" =>
            /\ Created(db[d].done) \subseteq db[d].schema
            /\ Base \in db[d].done =>
                \E left \in SUBSET db[d].broken :
                    db[d].schema \ Created(db[d].done \cup left) \in AcceptedDrifts

(* A row of the legacy history is deleted only with a copy of it on the     *)
(* server, or in the container that still runs and from which the pipeline  *)
(* will take it; unless that container went away in between.                *)
RemovedRowsAreBackedUp ==
    restored.live = "no" /\ ~stranded =>
        \A m \in found :
            m \in Named(db.live) \/ \E backup \in kept \cup host : m \in backup[2]

(* No interleaving of pipelines, cancelled or run again, of cutovers,        *)
(* deaths, builds and bootstraps makes a database refuse the SQL of a       *)
(* migration, which leaves a row that blocks every later deploy. Whatever   *)
(* is refused is so for what the audit of the chain does not look at (it    *)
(* lacks an object other than a table it alters or references, or another   *)
(* migration or an accepted drift has what it creates), or for a row that   *)
(* the release that serves wrote without a column after its backfill.       *)
Lacks(r, m) ==
    \E i \in DOMAIN Directory[r] :
        /\ Directory[r][i] = m
        /\ ~(Needs[m] \subseteq Alters[m] \cup Created({Directory[r][j] : j \in 1..(i - 1)}))
Clashes(m) == Creates[m] \cap (Created(Successors \ {m}) \cup UNION AcceptedDrifts) # {}

RefusalsAreExplained ==
    \A refusal \in refused :
        LET d == refusal[1]  r == refusal[2]  m == refusal[3] IN
        \/ restored[d] = "over"
        \/ Lacks(r, m) \/ Clashes(m)
        \/ m \in Requires /\ db[d].late

(* A bootstrap that says it completed leaves every migration, permission,   *)
(* grant, package and team, whatever an earlier one left half done and      *)
(* whatever was created by hand; unless the failure of the permissions was  *)
(* swallowed.                                                               *)
BootstrapIsComplete ==
    At(Boot, "done") /\ ~boot.swallowed /\ restored.spare = "no" =>
        /\ Range(Directory[job[Boot].rel]) \subseteq db.spare.done
        /\ Range(PermissionSteps) \cup Range(SeedSteps) \subseteq seeded
        /\ \A t \in Range(Catalogue) : teams[t].id = 1
=============================================================================
