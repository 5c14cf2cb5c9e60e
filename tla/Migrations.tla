----------------------------- MODULE Migrations -----------------------------
(***************************************************************************)
(* What runs the schema migrations (infrastructure/mysql/migrate.ts,       *)
(* migration-partial-ddl.ts, migrate-orphan-gate.ts).  DDL does not roll   *)
(* back: every statement takes effect by itself, a migration is recorded   *)
(* after its last one, and a failed migration drops the tables and the     *)
(* triggers it created in that attempt.                                    *)
(***************************************************************************)
EXTENDS MigrationSteps

CONSTANTS Spared,   \* bound: the migrations during which nothing goes wrong, by number
          MayCrash,     \* the process may stop, and a cleanup may fail
          MaxFaults,    \* bound: failures and crashes
          MaxRollbacks  \* bound: rollbacks
MigrationsAssumption ==
  Spared \subseteq 1..42 /\ MayCrash \in BOOLEAN /\ MaxFaults \in Nat /\ MaxRollbacks \in Nat


-----------------------------------------------------------------------------
VARIABLES schema,     \* the objects that exist
          recorded,   \* knex_migrations: the batch of every migration recorded, in order
          job,        \* the command that runs
          before,     \* the tables when it began the migration
          met,        \* what refused a statement: "nothing", "schema", or "orphan" (its table exists)
          faults, rollbacks
vars == <<schema, recorded, job, before, met, faults, rollbacks>>

None == [kind |-> "none", at |-> 0, made |-> <<>>, batch |-> 0]

MigrationsInit ==
  /\ schema = {} /\ recorded = <<>> /\ job = None /\ before = {} /\ met = "nothing"
  /\ faults = 0 /\ rollbacks = 0

(* assertNoOrphanPartialSchema: the tables of six migrations, each must be *)
(* recorded when one of its tables exists                                  *)
Sentinels == {1, 3, 9, 10, 12, 20}
InspectOrphanPartialSchema ==
  {k \in Sentinels : k > Len(recorded) /\ TablesOf({s.obj : s \in ToSet(MigrationList[k].up)}) \cap schema # {}}

LastBatch == IF recorded = <<>> THEN 0 ELSE Last(recorded)
Start(kind, batch) == [None EXCEPT !.kind = kind, !.at = 1, !.batch = batch]

(* migrateLatest: the gate, then every migration that is not recorded      *)
MigrateLatest ==
  /\ job.kind = "none" /\ Len(recorded) < N
  /\ InspectOrphanPartialSchema = {}
  /\ job' = Start("up", LastBatch + 1)
  /\ before' = TablesOf(schema)
  /\ UNCHANGED <<schema, recorded, met, faults, rollbacks>>

(* migrateRollback undoes the last batch, migrateRollbackAll every one     *)
Rollback(lowest) ==
  /\ job.kind = "none" /\ recorded # <<>> /\ rollbacks < MaxRollbacks
  /\ job' = Start("down", lowest)
  /\ rollbacks' = rollbacks + 1
  /\ UNCHANGED <<schema, recorded, before, met, faults>>
MigrateRollback == Rollback(LastBatch)
MigrateRollbackAll == Rollback(1)

Current == IF job.kind = "up" THEN MigrationList[Len(recorded) + 1].up ELSE MigrationList[Len(recorded)].down
AtStatement == job.kind \in {"up", "down"} /\ job.at <= Len(Current)

(* dropThisRunOnly follows an up that fails; a down just stops             *)
DropInOrder(made) == made
DropThisRunOnly(made) ==
  LET triggers == SelectSeq(made, LAMBDA s : s.obj[2] # "table")
      tables == SelectSeq(made, LAMBDA s : s.obj[2] = "table")
  IN  Reverse(triggers) \o Reverse(tables)
LeaveAsIs(made) == None
Fail(made) ==
  IF job.kind = "up" THEN [job EXCEPT !.kind = "cleanup", !.made = DropThisRunOnly(made)] ELSE None

(* tracker.createTable, createTrigger: recorded once it has been created   *)
Tracked(s) == IF s.tracked /\ job.kind = "up" THEN Append(job.made, s) ELSE job.made
TrackedFirst(s) == Tracked(s)
TrackedOnRefusal(s) == job.made

StatementRuns ==
  /\ AtStatement
  /\ LET s == Current[job.at]
     IN  /\ Skips(schema, s) \/ Accepts(schema, s)
         /\ schema' = IF Skips(schema, s) THEN schema ELSE Effect(schema, s)
         /\ job' = [job EXCEPT !.at = @ + 1, !.made = Tracked(s)]
  /\ UNCHANGED <<recorded, before, met, faults, rollbacks>>

StatementRefused ==
  /\ AtStatement
  /\ LET s == Current[job.at]
     IN  /\ ~Skips(schema, s) /\ ~Accepts(schema, s)
         /\ met' = IF job.kind = "up" /\ s.op = "create" /\ s.obj \in TablesOf(schema) THEN "orphan" ELSE "schema"
         /\ job' = Fail(TrackedOnRefusal(s))
  /\ UNCHANGED <<schema, recorded, before, faults, rollbacks>>

StatementFails ==
  /\ AtStatement /\ job.kind = "up" /\ Len(recorded) + 1 \notin Spared /\ faults < MaxFaults
  /\ faults' = faults + 1
  /\ job' = Fail(job.made)
  /\ UNCHANGED <<schema, recorded, before, met, rollbacks>>

(* one drop after the other; an error is collected, not thrown             *)
CleanupDrops ==
  /\ job.kind = "cleanup" /\ job.made # <<>>
  /\ LET o == Head(job.made).obj
         gone == IF o[2] = "table" THEN {p \in schema : p[1] = o[1]} ELSE {o}
     IN  schema' = IF Held(schema, gone) THEN schema ELSE schema \ gone
  /\ job' = [job EXCEPT !.made = Tail(@)]
  /\ UNCHANGED <<recorded, before, met, faults, rollbacks>>
CleanupDropFails ==
  /\ MayCrash /\ job.kind = "cleanup" /\ job.made # <<>> /\ faults < MaxFaults
  /\ faults' = faults + 1
  /\ job' = [job EXCEPT !.made = Tail(@)]
  /\ UNCHANGED <<schema, recorded, before, met, rollbacks>>
CleanupEnds ==
  /\ job.kind = "cleanup" /\ job.made = <<>>
  /\ job' = None
  /\ UNCHANGED <<schema, recorded, before, met, faults, rollbacks>>

(* knex records or deletes the row of a migration after its last statement *)
(* and goes on with the next                                               *)
Record ==
  /\ job.kind = "up" /\ job.at > Len(Current)
  /\ recorded' = Append(recorded, job.batch)
  /\ job' = IF Len(recorded') = N THEN None ELSE Start("up", job.batch)
  /\ before' = TablesOf(schema)
  /\ UNCHANGED <<schema, met, faults, rollbacks>>
Unrecord ==
  /\ job.kind = "down" /\ job.at > Len(Current)
  /\ recorded' = Front(recorded)
  /\ job' = IF recorded' = <<>> \/ Last(recorded') < job.batch THEN None ELSE Start("down", job.batch)
  /\ UNCHANGED <<schema, before, met, faults, rollbacks>>

Crash ==
  /\ MayCrash /\ job.kind # "none" /\ Len(recorded) + 1 \notin Spared /\ faults < MaxFaults
  /\ faults' = faults + 1
  /\ job' = None
  /\ UNCHANGED <<schema, recorded, before, met, rollbacks>>

Runner ==
  \/ MigrateLatest \/ StatementRuns \/ StatementRefused \/ CleanupDrops \/ CleanupEnds \/ Record \/ Unrecord
MigrationsNext ==
  \/ Runner \/ MigrateRollback \/ MigrateRollbackAll
  \/ StatementFails \/ CleanupDropFails \/ Crash
MigrationsSpec == MigrationsInit /\ [][MigrationsNext]_vars
(* a failed command is issued again                                        *)
MigrationsFairSpec == MigrationsSpec /\ WF_vars(Runner)

-----------------------------------------------------------------------------
(* Migrating, undoing any batch or all of them, and migrating again never  *)
(* asks MySQL for something it must refuse - a table whose parent is not   *)
(* there yet or a parent dropped before its children - and neither does    *)
(* the attempt that follows a failed one that cleaned up after itself.     *)
NothingRefused == met = "nothing"

(* Between two commands every recorded migration is in place as a whole,   *)
(* and what a failed attempt has left over is only what the next attempt   *)
(* looks for first.                                                        *)
LeftoversHarmless ==
  job.kind = "none" =>
    LET n == Len(recorded)
    IN  /\ SchemaAfter(n) \subseteq schema
        /\ \A o \in schema \ SchemaAfter(n) :
             \E s \in ToSet(MigrationList[n + 1].up) : s.obj = o /\ s.guarded

(* No attempt, failed or not, whatever an earlier one left behind, drops a *)
(* table that was there when it began.                                     *)
KeepsTables == job.kind \in {"up", "cleanup"} => before \subseteq schema'

(* After finitely many failures every migration is applied.                *)
IsMigrated == job.kind = "none" /\ Len(recorded) = N

=============================================================================
