------------------------------- MODULE Migrations -------------------------------
(***************************************************************************)
(* MigrationRunner: several processes of the migrator, of the same release  *)
(* or of different ones, that migrate, try out and inspect one database.    *)
(* up runs all its statements in one transaction, under an advisory lock of *)
(* the transaction; dryRun runs them in one it rolls back, without the lock *)
(* and with its plan made on another connection.                            *)
(*                                                                         *)
(* A file is its checksum.  What PostgreSQL does is modelled where the code *)
(* depends on it: a reader sees what was committed; one who creates a table *)
(* that a transaction in progress has created waits for it, and fails if it *)
(* commits; statements of one migration exclude one another the same way.   *)
(***************************************************************************)
EXTENDS Naturals

CONSTANTS
  Runner,        \* processes of the migrator
  LastMigration, \* names of migrations, in the order of their paths
  Repeatable,    \* those under repeatable/
  FileOf,        \* Runner -> name -> checksum in its image, 0 for no file
  MaxFailures,   \* bound: statements that fail and processes that die
  NoRunner

\* loadMigrations: the .sql files found below the root, in the order of their paths; of
\* each its checksum (FileOf), and that it lies under repeatable/ (Repeatable).
Migration == 1..LastMigration

ASSUME MigrationsAssumption ==
  /\ LastMigration \in Nat /\ Repeatable \subseteq Migration
  /\ FileOf \in [Runner -> [Migration -> Nat]]
  /\ NoRunner \notin Runner /\ MaxFailures \in Nat

VARIABLES
  tableExists,   \* _migrations is there for all to see
  creator,       \* whose open transaction has created it
  lock,          \* who holds the advisory lock
  ledger,        \* _migrations: name -> checksum, 0 for no row
  schema,        \* name -> checksum of the file whose statements took effect last
  ranAgain,      \* history: versioned migrations that took effect twice
  job,           \* what each process is doing
  failed         \* count of Fail

dbVars == <<tableExists, creator, lock, ledger, schema, ranAgain>>

commandVars == <<dbVars, job>>

migrationVars == <<commandVars, failed>>

Nothing == [m \in Migration |-> 0]

NoJob == [cmd |-> "none", at |-> "none", waits |-> FALSE, next |-> 1,
          planned |-> {}, ran |-> Nothing]

MigrationsTypeOK ==
  /\ tableExists \in BOOLEAN
  /\ creator \in Runner \cup {NoRunner} /\ lock \in Runner \cup {NoRunner}
  /\ ledger \in [Migration -> Nat] /\ schema \in [Migration -> Nat]
  /\ ranAgain \subseteq Migration \ Repeatable
  /\ job \in [Runner ->
       [cmd : {"none", "up", "dry_run", "inspect"}, at : {"none", "create", "plan", "lock", "apply", "run"},
        waits : BOOLEAN, next : 1..(LastMigration + 1),
        planned : SUBSET Migration, ran : [Migration -> Nat]]]
  /\ ~tableExists => ledger = Nothing
  /\ failed \in 0..MaxFailures

-----------------------------------------------------------------------------
(* The end of a transaction of r.                                          *)

\* Those who wait for the table go on, or fail because it is there now.
WithoutWaiters(r, committed) ==
  [q \in Runner |->
     IF q = r \/ (job[q].waits /\ creator = r /\ committed) THEN NoJob
     ELSE IF job[q].waits /\ creator = r THEN [job[q] EXCEPT !.waits = FALSE]
     ELSE job[q]]

Other(owner, r) == IF owner = r THEN NoRunner ELSE owner

\* Faulty: the lock belongs to the session, and outlives the transaction.
RollBackUnlessLocked(r) ==
  /\ job' = WithoutWaiters(r, FALSE)
  /\ creator' = Other(creator, r)
  /\ UNCHANGED <<tableExists, lock, ledger, schema, ranAgain>>

RollBack(r) ==
  /\ job' = WithoutWaiters(r, FALSE)
  /\ creator' = Other(creator, r) /\ lock' = Other(lock, r)
  /\ UNCHANGED <<tableExists, ledger, schema, ranAgain>>

\* The row of m after the upsert.
Recorded(m, ran) == IF ran = 0 THEN ledger[m] ELSE ran

Commit(r) ==
  LET ran == job[r].ran IN
  /\ job[r].cmd = "up" /\ job[r].at = "apply" /\ job[r].next > LastMigration
  /\ job' = WithoutWaiters(r, TRUE)
  /\ tableExists' = TRUE
  /\ creator' = Other(creator, r) /\ lock' = Other(lock, r)
  /\ ledger' = [m \in Migration |-> Recorded(m, ran[m])]
  /\ schema' = [m \in Migration |-> IF ran[m] = 0 THEN schema[m] ELSE ran[m]]
  /\ ranAgain' = ranAgain \cup {m \in Migration \ Repeatable : ran[m] # 0 /\ schema[m] # 0}

-----------------------------------------------------------------------------
(* The commands.                                                           *)

Goto(r, at) == job' = [job EXCEPT ![r].at = at]

\* plan and status only inspect.
Start(r, cmd) ==
  /\ job[r].cmd = "none"
  /\ job' = [job EXCEPT ![r].cmd = cmd, ![r].at = IF cmd = "inspect" THEN "plan" ELSE "create"]
  /\ UNCHANGED dbVars

\* ensureLedger in the transaction, before the lock is asked for.
CreateLedger(r) ==
  /\ job[r].at = "create" /\ ~job[r].waits
  /\ IF ~tableExists /\ creator # NoRunner
       THEN job' = [job EXCEPT ![r].waits = TRUE] /\ UNCHANGED creator
       ELSE /\ Goto(r, IF job[r].cmd = "up" THEN "lock" ELSE "plan")
            /\ creator' = IF tableExists THEN creator ELSE r
  /\ UNCHANGED <<tableExists, lock, ledger, schema, ranAgain>>

\* Faulty: no lock.
PassLock(r) ==
  /\ job[r].at = "lock"
  /\ Goto(r, "apply")
  /\ UNCHANGED dbVars

TakeLock(r) ==
  /\ job[r].at = "lock" /\ lock = NoRunner
  /\ lock' = r
  /\ Goto(r, "apply")
  /\ UNCHANGED <<tableExists, creator, ledger, schema, ranAgain>>

\* applied, on a connection of its own, and the choice plan makes of it.  That
\* connection waits for whoever is creating the table, its own process included.
Plan(r) ==
  LET planned == {m \in Migration : /\ FileOf[r][m] # 0
                                    /\ ledger[m] = 0 \/ (m \in Repeatable /\ ledger[m] # FileOf[r][m])}
  IN
  /\ job[r].at = "plan" /\ ~job[r].waits
  /\ IF ~tableExists /\ creator # NoRunner
       THEN job' = [job EXCEPT ![r].waits = TRUE] /\ UNCHANGED tableExists
       ELSE /\ tableExists' = TRUE
            /\ job' = IF job[r].cmd = "inspect" THEN [job EXCEPT ![r] = NoJob]
                      ELSE [job EXCEPT ![r].at = "apply", ![r].planned = planned]
  /\ UNCHANGED <<creator, lock, ledger, schema, ranAgain>>

Drifted(r, m) ==
  job[r].cmd = "up" /\ FileOf[r][m] # 0 /\ ledger[m] \notin {0, FileOf[r][m]} /\ m \notin Repeatable

Skipped(r, m) ==
  \/ FileOf[r][m] = 0
  \/ job[r].cmd = "up" /\ ledger[m] = FileOf[r][m]
  \/ job[r].cmd = "dry_run" /\ m \notin job[r].planned

\* The row is read, and then the statements run: they wait while another
\* transaction has run them.
CheckNext(r) ==
  LET m == job[r].next IN
  /\ job[r].at = "apply" /\ m <= LastMigration
  /\ ~Drifted(r, m)
  /\ job' = IF Skipped(r, m) THEN [job EXCEPT ![r].next = m + 1] ELSE [job EXCEPT ![r].at = "run"]
  /\ UNCHANGED dbVars

RunNext(r) ==
  LET m == job[r].next IN
  /\ job[r].at = "run"
  /\ \A q \in Runner \ {r} : job[q].ran[m] = 0
  /\ job' = [job EXCEPT ![r].at = "apply", ![r].next = m + 1, ![r].ran[m] = FileOf[r][m]]
  /\ UNCHANGED dbVars

\* checksum drift: an error.
StopAtDrift(r) ==
  /\ job[r].at = "apply" /\ job[r].next <= LastMigration
  /\ Drifted(r, job[r].next)
  /\ RollBack(r)

EndDryRun(r) ==
  /\ job[r].cmd = "dry_run" /\ job[r].at = "apply" /\ job[r].next > LastMigration
  /\ RollBack(r)

\* A statement fails, or the process dies.
Fail(r) ==
  /\ job[r].cmd # "none" /\ failed < MaxFailures
  /\ failed' = failed + 1
  /\ RollBack(r)

-----------------------------------------------------------------------------
MigrationsInit ==
  /\ tableExists = FALSE
  /\ creator = NoRunner /\ lock = NoRunner
  /\ ledger = Nothing /\ schema = Nothing
  /\ ranAgain = {}
  /\ job = [r \in Runner |-> NoJob]
  /\ failed = 0

Advance(r) ==
  \/ CreateLedger(r) \/ TakeLock(r) \/ Plan(r) \/ CheckNext(r) \/ RunNext(r)
  \/ StopAtDrift(r) \/ EndDryRun(r) \/ Commit(r)

MigrationsNext ==
  \E r \in Runner :
    \/ /\ Advance(r) \/ \E cmd \in {"up", "dry_run", "inspect"} : Start(r, cmd)
       /\ UNCHANGED failed
    \/ Fail(r)

\* Strong, because PostgreSQL serves those who wait for a lock in their order.
MigrationsFairness == \A r \in Runner : SF_commandVars(Advance(r))

-----------------------------------------------------------------------------
\* However many migrators run, fail and run again, a versioned migration takes
\* effect once.
VersionedOnce == ranAgain = {}

\* An up that ends well leaves every file of its release recorded and in effect as it
\* is in that release, those it had found applied and passed over included: no other
\* release that is migrated at the same time puts its own in between.
UpIsWhole ==
  [][\A r \in Runner : Commit(r) =>
       \A m \in Migration : FileOf[r][m] # 0 =>
         ledger'[m] = FileOf[r][m] /\ schema'[m] = FileOf[r][m]]_migrationVars

\* Every command ends, unless a dry run had to create _migrations: then its plan
\* waits on a second connection for the transaction of the first, and every other
\* command waits for that.
EventuallyEnded ==
  \A r \in Runner :
    job[r].cmd # "none" ~> \/ job[r].cmd = "none"
                           \/ \E q \in Runner : creator = q /\ job[q].cmd = "dry_run"

=============================================================================
