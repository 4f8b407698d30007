----------------------------- MODULE RuntimeProofs -----------------------------
(***************************************************************************)
(* For every number of processes, tasks, rows and subscribers: what the    *)
(* migrator, the workflow tasks, the tailer of the event log, the event    *)
(* stream and the lists promise.  Each is a component of its own, with an  *)
(* inductive invariant of its own.                                         *)
(***************************************************************************)
EXTENDS EventBroker, EventTailer, Migrations, WorkflowTasks, Listing,
        UnitSumsProofs, SequenceTheorems, TLAPS

-----------------------------------------------------------------------------
(* Workflow tasks: a start is paid for by the creation or by a retry.      *)

\* A task that was never created was never started.
TasksInv ==
  /\ TasksTypeOK
  /\ \A t \in Task : task[t] = NoTask => started[t] = 0
  /\ RunsAreCounted

\* Initially there is no task.
LEMMA TasksInitFits == TasksInit => TasksInv
BY DEF TasksInit, TasksInv, TasksTypeOK, RunsAreCounted, NoTask

\* What a choice on one task has to show of it, with s and n its new contract and
\* its new count of starts.
TaskFits(t, s, n) ==
  /\ s \in [status : {"TaskPending", "TaskRunning", "TaskCompleted", "TaskFailed", "TaskCancelled"},
            attempts : 0..MaxAttempts]
  /\ n \in Nat
  /\ n + (IF s.status = "TaskPending" THEN 1 ELSE 0) <= s.attempts + 1

\* The other tasks are as they were.
LEMMA TaskMoves ==
  ASSUME TasksInv, NEW t \in Task, NEW s, NEW n, TaskFits(t, s, n),
         task' = [task EXCEPT ![t] = s], started' = [started EXCEPT ![t] = n]
  PROVE  TasksInv'
<1>1. s # NoTask
  BY DEF TaskFits, NoTask
<1>2. TasksTypeOK'
  BY DEF TasksInv, TasksTypeOK, TaskFits
<1>3. \A u \in Task : task'[u] = NoTask => started'[u] = 0
  BY <1>1 DEF TasksInv, TasksTypeOK
<1>4. \A u \in Task :
        started'[u] + (IF task'[u].status = "TaskPending" THEN 1 ELSE 0) <= task'[u].attempts + 1
  BY DEF TasksInv, TasksTypeOK, TaskFits, RunsAreCounted
<1> QED
  BY <1>2, <1>3, <1>4 DEF TasksInv, RunsAreCounted

\* Every choice keeps the count.
LEMMA TasksStepFits == TasksInv /\ [TasksNext]_taskVars => TasksInv'
<1> SUFFICES ASSUME TasksInv, [TasksNext]_taskVars
             PROVE  TasksInv'
  OBVIOUS
<1>1. CASE UNCHANGED taskVars
  BY <1>1 DEF TasksInv, TasksTypeOK, RunsAreCounted, taskVars
<1>2. ASSUME NEW t \in Task, CreateTask(t)
      PROVE  TasksInv'
  <2>1. TaskFits(t, Created, started[t])
    BY <1>2, TasksAssumption DEF TaskFits, Created, CreateTask, Active, TasksInv, TasksTypeOK
  <2>2. started' = [started EXCEPT ![t] = started[t]]
    BY <1>2 DEF CreateTask, TasksInv, TasksTypeOK
  <2> QED
    BY <1>2, <2>1, <2>2, TaskMoves DEF CreateTask
<1>3. ASSUME NEW t \in Task, NEW now_ \in Time, StartTask(t, now_)
      PROVE  TasksInv'
  <2> DEFINE s == [task[t] EXCEPT !.status = "TaskRunning"]
  <2>1. TaskFits(t, s, started[t] + 1)
    BY <1>3 DEF TaskFits, StartTask, TasksInv, TasksTypeOK, NoTask, RunsAreCounted
  <2>2. task' = [task EXCEPT ![t] = s] /\ started' = [started EXCEPT ![t] = started[t] + 1]
    BY <1>3 DEF StartTask
  <2> QED
    BY <2>1, <2>2, TaskMoves
<1>4. ASSUME NEW t \in Task, EndTask(t)
      PROVE  TasksInv'
  <2>1. PICK status \in {"TaskCompleted", "TaskFailed", "TaskCancelled"} :
               task' = [task EXCEPT ![t].status = status]
    BY <1>4 DEF EndTask
  <2> DEFINE s == [task[t] EXCEPT !.status = status]
  <2>2. TaskFits(t, s, started[t])
    BY <1>4, <2>1 DEF TaskFits, EndTask, Active, TasksInv, TasksTypeOK, NoTask, RunsAreCounted
  <2>3. task' = [task EXCEPT ![t] = s] /\ started' = [started EXCEPT ![t] = started[t]]
    BY <1>4, <2>1 DEF EndTask, TasksInv, TasksTypeOK
  <2> QED
    BY <2>2, <2>3, TaskMoves
<1>5. ASSUME NEW t \in Task, RetryTask(t)
      PROVE  TasksInv'
  <2>1. TaskFits(t, Retried(t), started[t])
    BY <1>5, TasksAssumption
       DEF TaskFits, Retried, RetryTask, Active, TasksInv, TasksTypeOK, NoTask, RunsAreCounted
  <2>2. started' = [started EXCEPT ![t] = started[t]]
    BY <1>5 DEF RetryTask, TasksInv, TasksTypeOK
  <2> QED
    BY <1>5, <2>1, <2>2, TaskMoves DEF RetryTask
<1> QED
  BY <1>1, <1>2, <1>3, <1>4, <1>5 DEF TasksNext

\* However a task is ended, canceled and revived, it is started at most once, and
\* once more for each retry that was counted.
THEOREM TaskRunsAreCounted == TasksInit /\ [][TasksNext]_taskVars => []RunsAreCounted
<1>1. TasksInv => RunsAreCounted
  BY DEF TasksInv
<1> QED
  BY <1>1, TasksInitFits, TasksStepFits, PTL

-----------------------------------------------------------------------------
(* Migrations: who runs statements for good holds the lock, so the ledger  *)
(* he read is the ledger he writes to.                                     *)

\* What a job can be.
Jobs ==
  [cmd : {"none", "up", "dry_run", "inspect"}, at : {"none", "create", "plan", "lock", "apply", "run"},
   waits : BOOLEAN, next : 1..(LastMigration + 1),
   planned : SUBSET Migration, ran : [Migration -> Nat]]

\* What a job j of r is up to, with the lock and the ledger as they are: statements
\* run between apply and run, those of up under the lock, and what up has run, or is
\* about to run, and may run once only, has no row.
JobFits(r, j) ==
  /\ j \in Jobs
  /\ j.cmd = "none" => j = NoJob
  /\ j.at = "lock" => j.cmd = "up"
  /\ j.at = "plan" => j.cmd \in {"dry_run", "inspect"}
  /\ j.at \in {"apply", "run"} => j.cmd \in {"up", "dry_run"}
  /\ j.waits => j.at \in {"create", "plan"}
  /\ j.at \in {"apply", "run"} /\ j.cmd = "up" => lock = r
  /\ j.at = "run" => j.next <= LastMigration /\ FileOf[r][j.next] # 0
  /\ j.at = "run" /\ j.cmd = "up" /\ j.next \notin Repeatable => ledger[j.next] = 0
  /\ \A m \in Migration : j.ran[m] # 0 =>
       /\ j.at \in {"apply", "run"} /\ m < j.next
       /\ j.cmd = "up" /\ m \notin Repeatable => ledger[m] = 0

\* _migrations tells what the schema is.
LedgerIsTrue == ledger = schema

MigrationsInv ==
  /\ MigrationsTypeOK
  /\ \A r \in Runner : JobFits(r, job[r])
  /\ LedgerIsTrue
  /\ VersionedOnce

\* A job that has nothing to do has done nothing.
LEMMA NoJobFits == ASSUME NEW r \in Runner PROVE JobFits(r, NoJob)
BY MigrationsAssumption DEF JobFits, Jobs, NoJob, Nothing, Migration

\* Initially nobody migrates and there is no table.
LEMMA MigrationsInitFits == MigrationsInit => MigrationsInv
<1> SUFFICES ASSUME MigrationsInit PROVE MigrationsInv
  OBVIOUS
<1>1. Nothing \in [Migration -> Nat]
  BY DEF Nothing
<1>2. \A r \in Runner : job[r] = NoJob /\ JobFits(r, job[r])
  BY NoJobFits DEF MigrationsInit
<1>3. NoJob \in Jobs
  BY <1>1, MigrationsAssumption DEF NoJob, Jobs
<1>4. MigrationsTypeOK
  <2>1. job \in [Runner -> Jobs]
    BY <1>3 DEF MigrationsInit
  <2>2. failed \in 0..MaxFailures
    BY MigrationsAssumption DEF MigrationsInit
  <2> QED
    BY <1>1, <2>1, <2>2 DEF MigrationsInit, MigrationsTypeOK, Jobs
<1> QED
  BY <1>2, <1>4 DEF MigrationsInit, MigrationsInv, LedgerIsTrue, VersionedOnce

\* A step of r that leaves the ledger alone, and the lock to those who have it.
LEMMA RunnerMoves ==
  ASSUME MigrationsInv, NEW r \in Runner, NEW j,
         job' = [job EXCEPT ![r] = j], JobFits(r, j)',
         tableExists' \in BOOLEAN, tableExists => tableExists',
         creator' \in Runner \cup {NoRunner}, lock' \in Runner \cup {NoRunner},
         lock # NoRunner => lock' = lock,
         UNCHANGED <<ledger, schema, ranAgain, failed>>
  PROVE  MigrationsInv'
<1>1. j \in Jobs
  BY DEF JobFits, Jobs
<1>2. MigrationsTypeOK'
  BY <1>1 DEF MigrationsInv, MigrationsTypeOK, Jobs, Nothing
<1>3. ASSUME NEW q \in Runner PROVE JobFits(q, job[q])'
  <2>1. CASE q = r
    <3>1. job'[q] = j
      BY <2>1 DEF MigrationsInv, MigrationsTypeOK
    <3> QED
      BY <2>1, <3>1 DEF JobFits, Jobs
  <2>2. CASE q # r
    <3>1. job'[q] = job[q]
      BY <2>2 DEF MigrationsInv, MigrationsTypeOK
    <3>2. JobFits(q, job[q]) /\ q # NoRunner
      BY MigrationsAssumption DEF MigrationsInv
    <3> QED
      BY <3>1, <3>2 DEF JobFits, Jobs, NoJob
  <2> QED
    BY <2>1, <2>2
<1> QED
  BY <1>2, <1>3 DEF MigrationsInv, LedgerIsTrue, VersionedOnce

\* The jobs of the others after a transaction of r has ended.
LEMMA WaitersGoOn ==
  ASSUME MigrationsInv, NEW r \in Runner, NEW kept \in BOOLEAN,
         NEW q \in Runner, job' = WithoutWaiters(r, kept)
  PROVE  /\ job'[q] \in {NoJob, job[q], [job[q] EXCEPT !.waits = FALSE]}
         /\ q = r => job'[q] = NoJob
BY DEF WithoutWaiters

\* A transaction of r has ended, and the ledger has changed only where nobody who
\* holds the lock has looked.
LEMMA TransactionEnds ==
  ASSUME MigrationsInv, NEW r \in Runner, NEW kept \in BOOLEAN,
         job' = WithoutWaiters(r, kept),
         lock' = Other(lock, r),
         ledger' = ledger \/ lock = r
  PROVE  \A q \in Runner : job'[q] \in Jobs /\ JobFits(q, job[q])'
<1> SUFFICES ASSUME NEW q \in Runner
             PROVE  job'[q] \in Jobs /\ JobFits(q, job[q])'
  OBVIOUS
<1> DEFINE open == [job[q] EXCEPT !.waits = FALSE]
<1>1. /\ job'[q] \in {NoJob, job[q], open}
      /\ q = r => job'[q] = NoJob
  BY WaitersGoOn
<1>2. JobFits(q, job[q])
  BY DEF MigrationsInv
<1>3. CASE job'[q] = NoJob
  BY <1>3, MigrationsAssumption DEF JobFits, Jobs, NoJob, Nothing, Migration
<1>4. ASSUME q # r, NEW j, j \in {job[q], open}, job'[q] = j
      PROVE  job'[q] \in Jobs /\ JobFits(q, job[q])'
  <2>1. /\ j \in Jobs
        /\ j.cmd = job[q].cmd /\ j.at = job[q].at /\ j.next = job[q].next /\ j.ran = job[q].ran
        /\ j.waits => job[q].waits
    BY <1>2, <1>4 DEF JobFits, Jobs
  <2>2. j.cmd = "none" => j = NoJob
    BY <1>2, <1>4, <2>1 DEF JobFits, Jobs, NoJob
  <2>3. lock = q => lock' = q /\ ledger' = ledger
    BY <1>4 DEF Other
  <2> QED
    BY <1>2, <1>4, <2>1, <2>2, <2>3 DEF JobFits, Jobs
<1> QED
  BY <1>1, <1>3, <1>4

\* A transaction that is rolled back leaves the ledger, and the schema, as they were.
LEMMA RollBackFits ==
  ASSUME MigrationsInv, NEW r \in Runner, RollBack(r), failed' \in 0..MaxFailures
  PROVE  MigrationsInv'
<1>1. \A q \in Runner : job'[q] \in Jobs /\ JobFits(q, job[q])'
  BY TransactionEnds DEF RollBack
<1>2. job' \in [Runner -> Jobs]
  BY <1>1 DEF RollBack, WithoutWaiters
<1>3. creator' \in Runner \cup {NoRunner} /\ lock' \in Runner \cup {NoRunner}
  BY DEF RollBack, Other, MigrationsInv, MigrationsTypeOK
<1>4. MigrationsTypeOK'
  BY <1>2, <1>3 DEF RollBack, MigrationsInv, MigrationsTypeOK, Jobs, Nothing
<1> QED
  BY <1>1, <1>4 DEF RollBack, MigrationsInv, LedgerIsTrue, VersionedOnce

\* A commit records what it ran, and nothing that may run once had run before.
LEMMA CommitFits ==
  ASSUME MigrationsInv, NEW r \in Runner, Commit(r), UNCHANGED failed
  PROVE  MigrationsInv'
<1> DEFINE ran == job[r].ran
<1>1. JobFits(r, job[r]) /\ lock = r /\ ran \in [Migration -> Nat]
  BY DEF MigrationsInv, JobFits, Jobs, Commit
<1>2. \A q \in Runner : job'[q] \in Jobs /\ JobFits(q, job[q])'
  BY <1>1, TransactionEnds DEF Commit
<1>3. job' \in [Runner -> Jobs]
  BY <1>2 DEF Commit, WithoutWaiters
<1>4. creator' \in Runner \cup {NoRunner} /\ lock' \in Runner \cup {NoRunner}
  BY DEF Commit, Other, MigrationsInv, MigrationsTypeOK
<1>5. ledger' \in [Migration -> Nat] /\ schema' \in [Migration -> Nat] /\ ledger' = schema'
  BY <1>1 DEF Commit, Recorded, MigrationsInv, MigrationsTypeOK, LedgerIsTrue
<1>6. ranAgain' = {}
  <2>1. \A m \in Migration \ Repeatable : ran[m] # 0 => schema[m] = 0
    BY <1>1 DEF JobFits, MigrationsInv, LedgerIsTrue, Commit
  <2> QED
    BY <2>1 DEF Commit, MigrationsInv, VersionedOnce
<1>7. MigrationsTypeOK'
  BY <1>3, <1>4, <1>5, <1>6 DEF Commit, MigrationsInv, MigrationsTypeOK, Jobs
<1> QED
  BY <1>2, <1>5, <1>6, <1>7 DEF MigrationsInv, LedgerIsTrue, VersionedOnce

\* Every step of a migrator keeps what the others rely on.
LEMMA MigrationsStepFits == MigrationsInv /\ [MigrationsNext]_migrationVars => MigrationsInv'
<1> SUFFICES ASSUME MigrationsInv, [MigrationsNext]_migrationVars
             PROVE  MigrationsInv'
  OBVIOUS
<1> USE DEF Goto, dbVars
<1>1. CASE UNCHANGED migrationVars
  <2>1. \A r \in Runner : JobFits(r, job[r])'
    BY <1>1 DEF migrationVars, commandVars, MigrationsInv, JobFits, Jobs, NoJob
  <2> QED
    BY <1>1, <2>1 DEF migrationVars, commandVars, MigrationsInv, MigrationsTypeOK, LedgerIsTrue,
                      VersionedOnce
<1>2. ASSUME NEW r \in Runner, UNCHANGED failed,
             Advance(r) \/ \E cmd \in {"up", "dry_run", "inspect"} : Start(r, cmd)
      PROVE  MigrationsInv'
  <2>0. JobFits(r, job[r]) /\ job[r] \in Jobs /\ r # NoRunner /\ failed' \in 0..MaxFailures
    BY <1>2, MigrationsAssumption DEF MigrationsInv, MigrationsTypeOK, JobFits
  <2>1. ASSUME NEW cmd \in {"up", "dry_run", "inspect"}, Start(r, cmd) PROVE MigrationsInv'
    <3>1. PICK j : /\ job' = [job EXCEPT ![r] = j]
                   /\ j = [job[r] EXCEPT !.cmd = cmd, !.at = IF cmd = "inspect" THEN "plan" ELSE "create"]
      BY <2>1 DEF Start
    <3>2. /\ j \in Jobs /\ j.cmd = cmd /\ ~j.waits /\ j.ran = Nothing
          /\ j.at = IF cmd = "inspect" THEN "plan" ELSE "create"
      <4>1. job[r] = NoJob
        BY <2>0, <2>1 DEF Start, JobFits
      <4>2. job[r].ran = Nothing /\ job[r].waits = FALSE
        BY <4>1 DEF NoJob
      <4> QED
        BY <2>0, <3>1, <4>2 DEF Jobs
    <3>3. JobFits(r, j)'
      BY <3>2 DEF JobFits, Nothing
    <3> QED
      BY <1>2, <2>1, <3>1, <3>3, RunnerMoves DEF Start, MigrationsInv, MigrationsTypeOK
  <2>2. CASE CreateLedger(r)
    <3>1. PICK j : /\ job' = [job EXCEPT ![r] = j]
                   /\ j \in {[job[r] EXCEPT !.waits = TRUE],
                             [job[r] EXCEPT !.at = IF job[r].cmd = "up" THEN "lock" ELSE "plan"]}
      BY <2>2 DEF CreateLedger
    <3>2. /\ j \in Jobs /\ j.cmd = job[r].cmd /\ j.ran = job[r].ran
          /\ j.at \in {"create", IF job[r].cmd = "up" THEN "lock" ELSE "plan"}
          /\ job[r].cmd # "none" /\ (j.waits => j.at = "create")
      <4>1. job[r].cmd # "none"
        BY <2>0, <2>2 DEF CreateLedger, JobFits, NoJob
      <4>2. job[r].at = "create" /\ job[r].waits = FALSE
        BY <2>0, <2>2 DEF CreateLedger, Jobs
      <4>3. CASE j = [job[r] EXCEPT !.waits = TRUE]
        BY <2>0, <4>1, <4>2, <4>3 DEF Jobs
      <4>4. CASE j = [job[r] EXCEPT !.at = IF job[r].cmd = "up" THEN "lock" ELSE "plan"]
        BY <2>0, <4>1, <4>2, <4>4 DEF Jobs
      <4> QED
        BY <3>1, <4>3, <4>4
    <3>3. JobFits(r, j)'
      BY <2>0, <2>2, <3>2 DEF CreateLedger, JobFits, Jobs
    <3> QED
      BY <1>2, <2>2, <3>1, <3>3, RunnerMoves DEF CreateLedger, MigrationsInv, MigrationsTypeOK
  <2>3. CASE TakeLock(r)
    <3>1. PICK j : /\ job' = [job EXCEPT ![r] = j]
                   /\ j = [job[r] EXCEPT !.at = "apply"]
      BY <2>3 DEF TakeLock
    <3>2. job[r].waits = FALSE
      BY <2>0, <2>3 DEF TakeLock, JobFits
    <3>3. /\ j \in Jobs /\ j.cmd = "up" /\ j.ran = job[r].ran /\ j.at = "apply" /\ ~j.waits
      BY <2>0, <2>3, <3>1, <3>2 DEF TakeLock, JobFits, Jobs, NoJob
    <3>4. JobFits(r, j)'
      BY <2>0, <2>3, <3>3 DEF TakeLock, JobFits
    <3> QED
      BY <1>2, <2>3, <3>1, <3>4, RunnerMoves DEF TakeLock, MigrationsInv, MigrationsTypeOK
  <2>4. CASE Plan(r)
    <3> DEFINE planned == {m \in Migration : /\ FileOf[r][m] # 0
                                             /\ ledger[m] = 0 \/ (m \in Repeatable /\ ledger[m] # FileOf[r][m])}
    <3>1. PICK j : /\ job' = [job EXCEPT ![r] = j]
                   /\ \/ j = [job[r] EXCEPT !.waits = TRUE]
                      \/ job[r].cmd = "inspect" /\ j = NoJob
                      \/ job[r].cmd # "inspect" /\ j = [job[r] EXCEPT !.at = "apply", !.planned = planned]
      BY <2>4 DEF Plan
    <3>2. JobFits(r, j)'
      <4>1. CASE j = NoJob
        BY <4>1, MigrationsAssumption DEF JobFits, Jobs, NoJob, Nothing, Migration
      <4>2. CASE j = [job[r] EXCEPT !.waits = TRUE]
        BY <2>0, <2>4, <4>2 DEF Plan, JobFits, Jobs, NoJob
      <4>3. CASE job[r].cmd # "inspect" /\ j = [job[r] EXCEPT !.at = "apply", !.planned = planned]
        <5>1. planned \subseteq Migration
          OBVIOUS
        <5> HIDE DEF planned
        <5> QED
          BY <2>0, <2>4, <4>3, <5>1 DEF Plan, JobFits, Jobs, NoJob
      <4> QED
        BY <3>1, <4>1, <4>2, <4>3
    <3>3. tableExists' \in BOOLEAN /\ (tableExists => tableExists')
      BY <2>4 DEF Plan, MigrationsInv, MigrationsTypeOK
    <3> QED
      BY <1>2, <2>4, <3>1, <3>2, <3>3, RunnerMoves DEF Plan, MigrationsInv, MigrationsTypeOK
  <2>5. CASE CheckNext(r)
    <3> DEFINE m == job[r].next
    <3>1. m \in Migration /\ m + 1 \in 1..(LastMigration + 1)
      BY <2>0, <2>5, MigrationsAssumption DEF CheckNext, Jobs, Migration
    <3>2. PICK j : /\ job' = [job EXCEPT ![r] = j]
                   /\ \/ j = [job[r] EXCEPT !.next = m + 1]
                      \/ ~Skipped(r, m) /\ j = [job[r] EXCEPT !.at = "run"]
      BY <2>5 DEF CheckNext
    <3>3. JobFits(r, j)'
      <4>1. CASE j = [job[r] EXCEPT !.next = m + 1]
        <5>1. /\ j \in Jobs /\ j.cmd = job[r].cmd /\ j.ran = job[r].ran /\ j.at = "apply" /\ ~j.waits
              /\ j.next = m + 1
          BY <2>0, <2>5, <3>1, <4>1 DEF CheckNext, JobFits, Jobs
        <5>2. \A n \in Migration : n < m => n < j.next
          BY <3>1, <5>1, MigrationsAssumption DEF Migration
        <5> QED
          BY <2>0, <2>5, <5>1, <5>2 DEF CheckNext, JobFits, NoJob
      <4>2. CASE ~Skipped(r, m) /\ j = [job[r] EXCEPT !.at = "run"]
        BY <2>0, <2>5, <3>1, <4>2 DEF CheckNext, JobFits, Jobs, NoJob, Skipped, Drifted
      <4> QED
        BY <3>2, <4>1, <4>2
    <3> QED
      BY <1>2, <2>5, <3>2, <3>3, RunnerMoves DEF CheckNext, MigrationsInv, MigrationsTypeOK
  <2>6. CASE RunNext(r)
    <3> DEFINE m == job[r].next
    <3>1. m \in Migration /\ m + 1 \in 1..(LastMigration + 1) /\ FileOf[r][m] \in Nat
      BY <2>0, <2>6, MigrationsAssumption DEF RunNext, JobFits, Jobs, Migration
    <3>2. PICK j : /\ job' = [job EXCEPT ![r] = j]
                   /\ j = [job[r] EXCEPT !.at = "apply", !.next = m + 1, !.ran[m] = FileOf[r][m]]
      BY <2>6 DEF RunNext
    <3>3. /\ j \in Jobs /\ j.at = "apply" /\ j.cmd = job[r].cmd /\ j.next = m + 1 /\ ~j.waits
          /\ j.ran = [job[r].ran EXCEPT ![m] = FileOf[r][m]]
      BY <2>0, <2>6, <3>1, <3>2 DEF RunNext, JobFits, Jobs
    <3>4. ASSUME NEW n \in Migration, j.ran[n] # 0
          PROVE  n < j.next /\ (j.cmd = "up" /\ n \notin Repeatable => ledger[n] = 0)
      <4>1. CASE n = m
        <5>1. n < j.next
          BY <3>1, <3>3, <4>1, MigrationsAssumption DEF Migration
        <5> QED
          BY <2>0, <2>6, <3>3, <4>1, <5>1 DEF RunNext, JobFits
      <4>2. CASE n # m
        <5>1. job[r].ran[n] # 0
          BY <2>0, <3>1, <3>3, <3>4, <4>2 DEF Jobs
        <5>2. n < m
          BY <2>0, <5>1 DEF JobFits
        <5>3. n < j.next
          BY <3>1, <3>3, <5>2, MigrationsAssumption DEF Migration
        <5> QED
          BY <2>0, <3>3, <5>1, <5>3 DEF JobFits
      <4> QED
        BY <4>1, <4>2
    <3>5. JobFits(r, j)'
      BY <2>0, <2>6, <3>3, <3>4 DEF RunNext, JobFits, NoJob
    <3> QED
      BY <1>2, <2>6, <3>2, <3>5, RunnerMoves DEF RunNext, MigrationsInv, MigrationsTypeOK
  <2>7. CASE StopAtDrift(r) \/ EndDryRun(r)
    BY <2>0, <2>7, RollBackFits DEF StopAtDrift, EndDryRun
  <2>8. CASE Commit(r)
    BY <1>2, <2>8, CommitFits
  <2> QED
    BY <1>2, <2>1, <2>2, <2>3, <2>4, <2>5, <2>6, <2>7, <2>8 DEF Advance
<1>3. ASSUME NEW r \in Runner, Fail(r)
      PROVE  MigrationsInv'
  <2>1. failed' \in 0..MaxFailures
    BY <1>3, MigrationsAssumption DEF Fail, MigrationsInv, MigrationsTypeOK
  <2> QED
    BY <1>3, <2>1, RollBackFits DEF Fail
<1> QED
  BY <1>1, <1>2, <1>3 DEF MigrationsNext

\* However many migrators of whatever releases run, fail and run again: the table
\* and the jobs have their shapes, and who runs statements for good holds the lock.
THEOREM MigrationsInvariantHolds ==
  MigrationsInit /\ [][MigrationsNext]_migrationVars => []MigrationsInv
BY MigrationsInitFits, MigrationsStepFits, PTL

\* A versioned migration takes effect once.
THEOREM VersionedRunOnce ==
  MigrationsInit /\ [][MigrationsNext]_migrationVars => []VersionedOnce
<1>1. MigrationsInv => VersionedOnce
  BY DEF MigrationsInv
<1> QED
  BY <1>1, MigrationsInvariantHolds, PTL

\* Before its first check a command has come past no file, and the rows of those that
\* an up has come past, run or passed over, would be those of its release were it to
\* commit now.
PassedFits(r) ==
  /\ job[r].at \notin {"apply", "run"} => job[r].next = 1
  /\ job[r].at \in {"apply", "run"} /\ job[r].cmd = "up" =>
       \A m \in Migration :
         m < job[r].next /\ FileOf[r][m] # 0 => Recorded(m, job[r].ran[m]) = FileOf[r][m]

PassedInv == \A r \in Runner : PassedFits(r)

\* Whoever holds the lock keeps what it has read when the transaction of another ends.
LEMMA PassedThroughEnds ==
  ASSUME MigrationsInv, PassedInv, NEW r \in Runner, NEW kept \in BOOLEAN,
         job' = WithoutWaiters(r, kept), ledger' = ledger \/ lock = r
  PROVE  PassedInv'
<1> SUFFICES ASSUME NEW q \in Runner PROVE PassedFits(q)'
  BY DEF PassedInv
<1>1. JobFits(q, job[q]) /\ PassedFits(q) /\ job[q] \in Jobs
  BY DEF MigrationsInv, PassedInv, JobFits
<1>2. job'[q] \in {NoJob, job[q], [job[q] EXCEPT !.waits = FALSE]} /\ (q = r => job'[q] = NoJob)
  BY WaitersGoOn
<1>3. CASE job'[q] = NoJob
  BY <1>3 DEF PassedFits, NoJob
<1>4. CASE q # r /\ job'[q] \in {job[q], [job[q] EXCEPT !.waits = FALSE]}
  <2>1. /\ job'[q].at = job[q].at /\ job'[q].cmd = job[q].cmd
        /\ job'[q].next = job[q].next /\ job'[q].ran = job[q].ran
    BY <1>1, <1>4 DEF Jobs
  <2>2. job[q].at \in {"apply", "run"} /\ job[q].cmd = "up" => ledger' = ledger
    BY <1>1, <1>4 DEF JobFits
  <2> QED
    BY <1>1, <2>1, <2>2 DEF PassedFits, Recorded
<1> QED
  BY <1>2, <1>3, <1>4

\* An up passes over a file only where the row says it is the one of its release.
LEMMA PassedStepFits ==
  MigrationsInv /\ PassedInv /\ [MigrationsNext]_migrationVars => PassedInv'
<1> SUFFICES ASSUME MigrationsInv, PassedInv, [MigrationsNext]_migrationVars
             PROVE  PassedInv'
  OBVIOUS
<1> USE DEF Goto, dbVars
<1>1. CASE UNCHANGED migrationVars
  BY <1>1 DEF migrationVars, commandVars, PassedInv, PassedFits, Recorded
<1>2. ASSUME NEW r \in Runner, RollBack(r) \/ Commit(r)
      PROVE  PassedInv'
  <2>1. Commit(r) => lock = r
    BY DEF MigrationsInv, JobFits, Commit
  <2> QED
    BY <1>2, <2>1, PassedThroughEnds DEF RollBack, Commit
<1>3. ASSUME NEW r \in Runner,
             \/ CreateLedger(r) \/ TakeLock(r) \/ Plan(r) \/ CheckNext(r) \/ RunNext(r)
             \/ \E cmd \in {"up", "dry_run", "inspect"} : Start(r, cmd)
      PROVE  PassedInv'
  <2> DEFINE m == job[r].next
  <2>0. /\ JobFits(r, job[r]) /\ PassedFits(r) /\ job[r] \in Jobs
        /\ job \in [Runner -> Jobs] /\ job[r].ran \in [Migration -> Nat]
    BY DEF MigrationsInv, MigrationsTypeOK, PassedInv, JobFits, Jobs
  <2>1. /\ ledger' = ledger
        /\ \A q \in Runner : q # r => job'[q] = job[q]
    BY <1>3, <2>0 DEF CreateLedger, TakeLock, Plan, CheckNext, RunNext, Start
  <2>2. ASSUME PassedFits(r)' PROVE PassedInv'
    BY <2>1, <2>2 DEF PassedInv, PassedFits, Recorded
  <2>3. CASE \E cmd \in {"up", "dry_run", "inspect"} : Start(r, cmd)
    <3>1. job'[r].at \in {"create", "plan"} /\ job'[r].next = job[r].next /\ job[r].at = "none"
      BY <2>0, <2>3 DEF Start, Jobs, JobFits, NoJob
    <3> QED
      BY <2>0, <2>2, <3>1 DEF PassedFits
  <2>4. CASE CreateLedger(r)
    <3>1. job'[r].at \in {"create", "lock", "plan"} /\ job'[r].next = job[r].next /\ job[r].at = "create"
      BY <2>0, <2>4 DEF CreateLedger, Jobs
    <3> QED
      BY <2>0, <2>2, <3>1 DEF PassedFits
  <2>5. CASE TakeLock(r)
    <3>1. job'[r].next = 1 /\ job'[r].at = "apply"
      BY <2>0, <2>5 DEF TakeLock, Jobs, PassedFits
    <3>2. \A n \in Migration : ~(n < 1)
      BY MigrationsAssumption DEF Migration
    <3> QED
      BY <2>2, <3>1, <3>2 DEF PassedFits
  <2>6. CASE Plan(r)
    <3>1. job[r].at = "plan" /\ job[r].cmd # "up"
      BY <2>0, <2>6 DEF Plan, JobFits
    <3>2. CASE job'[r] = NoJob
      BY <2>2, <3>2 DEF PassedFits, NoJob
    <3>3. CASE /\ job'[r].next = job[r].next /\ job'[r].cmd = job[r].cmd
      BY <2>0, <2>2, <3>1, <3>3 DEF PassedFits
    <3>4. job'[r] = NoJob \/ (job'[r].next = job[r].next /\ job'[r].cmd = job[r].cmd)
      BY <2>0, <2>6 DEF Plan, Jobs
    <3> QED
      BY <3>2, <3>3, <3>4
  <2>7. CASE CheckNext(r)
    <3>1. m \in Migration /\ job[r].at = "apply"
      BY <2>0, <2>7, MigrationsAssumption DEF CheckNext, Jobs, Migration
    <3>2. CASE job' = [job EXCEPT ![r].at = "run"]
      <4>1. job'[r].at = "run" /\ job'[r].next = m /\ job'[r].cmd = job[r].cmd /\ job'[r].ran = job[r].ran
        BY <2>0, <3>2 DEF Jobs
      <4> QED
        BY <2>0, <2>1, <2>2, <3>1, <4>1 DEF PassedFits, Recorded
    <3>3. CASE Skipped(r, m) /\ job' = [job EXCEPT ![r].next = m + 1]
      <4>1. job'[r].at = "apply" /\ job'[r].next = m + 1 /\ job'[r].cmd = job[r].cmd /\ job'[r].ran = job[r].ran
        BY <2>0, <3>1, <3>3 DEF Jobs
      <4>2. job[r].cmd = "up" /\ FileOf[r][m] # 0 => Recorded(m, job[r].ran[m]) = FileOf[r][m]
        <5>1. job[r].ran[m] = 0
          BY <2>0, <3>1, MigrationsAssumption DEF JobFits, Migration
        <5> QED
          BY <3>3, <5>1 DEF Skipped, Recorded
      <4>3. \A n \in Migration : n < m + 1 => n < m \/ n = m
        BY <3>1, MigrationsAssumption DEF Migration
      <4> QED
        BY <2>0, <2>1, <2>2, <3>1, <4>1, <4>2, <4>3 DEF PassedFits, Recorded
    <3> QED
      BY <2>7, <3>2, <3>3 DEF CheckNext
  <2>8. CASE RunNext(r)
    <3>1. m \in Migration /\ job[r].at = "run"
      BY <2>0, <2>8, MigrationsAssumption DEF RunNext, JobFits, Jobs, Migration
    <3>2. /\ job'[r].at = "apply" /\ job'[r].next = m + 1 /\ job'[r].cmd = job[r].cmd
          /\ job'[r].ran = [job[r].ran EXCEPT ![m] = FileOf[r][m]]
      BY <2>0, <2>8 DEF RunNext, Jobs
    <3>3. \A n \in Migration : n < m + 1 => n < m \/ n = m
      BY <3>1, MigrationsAssumption DEF Migration
    <3>4. \A n \in Migration : n # m => job'[r].ran[n] = job[r].ran[n]
      BY <2>0, <3>2
    <3> DEFINE row(n) == IF job'[r].ran[n] = 0 THEN ledger'[n] ELSE job'[r].ran[n]
    <3>5. FileOf[r][m] # 0 => row(m) = FileOf[r][m]
      BY <2>0, <3>1, <3>2
    <3>6. \A n \in Migration :
            n < m /\ FileOf[r][n] # 0 /\ job[r].cmd = "up" => row(n) = FileOf[r][n]
      <4>1. ASSUME NEW n \in Migration, n < m PROVE n # m
        BY <3>1, <4>1, MigrationsAssumption DEF Migration
      <4> QED
        BY <2>0, <2>1, <3>1, <3>4, <4>1 DEF Recorded, PassedFits
    <3>7. ASSUME job[r].cmd = "up", NEW n \in Migration, n < m + 1, FileOf[r][n] # 0
          PROVE  row(n) = FileOf[r][n]
      BY <3>3, <3>5, <3>6, <3>7
    <3> HIDE DEF m
    <3>8. \A n \in Migration :
            n < job'[r].next /\ FileOf[r][n] # 0 /\ job'[r].cmd = "up" => row(n) = FileOf[r][n]
      BY <3>2, <3>7
    <3> QED
      BY <2>2, <3>2, <3>8 DEF PassedFits, Recorded
  <2> QED
    BY <1>3, <2>3, <2>4, <2>5, <2>6, <2>7, <2>8
<1> QED
  BY <1>1, <1>2, <1>3 DEF MigrationsNext, Advance, Fail, StopAtDrift, EndDryRun

\* An up that commits leaves each file of its release recorded and in effect as it is in
\* that release (the advisory lock is held from before the first check to the commit).
THEOREM UpsAreWhole ==
  MigrationsInit /\ [][MigrationsNext]_migrationVars => UpIsWhole
<1> DEFINE Whole ==
      \A r \in Runner : Commit(r) =>
        \A m \in Migration : FileOf[r][m] # 0 =>
          ledger'[m] = FileOf[r][m] /\ schema'[m] = FileOf[r][m]
<1>1. MigrationsInit => PassedInv
  BY DEF MigrationsInit, PassedInv, PassedFits, NoJob
<1>2. MigrationsInv /\ PassedInv /\ [MigrationsNext]_migrationVars => [Whole]_migrationVars
  <2> SUFFICES ASSUME MigrationsInv, PassedInv, NEW r \in Runner, Commit(r),
                      NEW m \in Migration, FileOf[r][m] # 0
               PROVE  ledger'[m] = FileOf[r][m] /\ schema'[m] = FileOf[r][m]
    OBVIOUS
  <2>1. m < job[r].next
    BY MigrationsAssumption DEF Commit, Migration, MigrationsInv, MigrationsTypeOK
  <2>2. Recorded(m, job[r].ran[m]) = FileOf[r][m]
    BY <2>1 DEF Commit, PassedInv, PassedFits
  <2>3. ledger[m] = schema[m]
    BY DEF MigrationsInv, LedgerIsTrue
  <2> QED
    BY <2>2, <2>3 DEF Commit, Recorded
<1> QED
  BY <1>1, <1>2, MigrationsInvariantHolds, MigrationsInitFits, MigrationsStepFits, PassedStepFits,
     PTL DEF UpIsWhole

-----------------------------------------------------------------------------
(* The tailer of the event log: what its cursor has passed was published,  *)
(* or was overtaken.                                                       *)

\* The greatest of a bounded set of numbers is one of them, and none is greater.
LEMMA MaxOf ==
  ASSUME NEW n \in Nat, NEW S, S \subseteq 0..n, S # {}
  PROVE  Max(S) \in S /\ \A y \in S : y <= Max(S)
<1>1. \E m \in S : \A y \in S : m >= y
  BY GreatestOf
<1>2. Max(S) \in S /\ \A y \in S : Max(S) >= y
  BY <1>1 DEF Max
<1> QED
  BY <1>2

\* A date is not after the time it was cut from.
LEMMA DateIsEarlier ==
  ASSUME NEW t \in Nat
  PROVE  AsDate(t) \in Nat /\ AsDate(t) <= t
<1>1. Millisecond \in Nat /\ Millisecond > 0
  BY TailerAssumption
<1>2. t \div Millisecond \in Nat /\ t = Millisecond * (t \div Millisecond) + (t % Millisecond)
      /\ t % Millisecond \in 0..(Millisecond - 1)
  BY <1>1
<1>3. \A q \in Nat : q * Millisecond = Millisecond * q /\ q * Millisecond \in Nat
  BY <1>1
<1> QED
  BY <1>1, <1>2, <1>3 DEF AsDate

TailerShape ==
  /\ now \in 0..MaxTime /\ lastSeen \in 0..MaxTime
  /\ stamp \in [Event -> 0..MaxTime]
  /\ poll \in [Poll -> [at : {"idle", "connect", "answer"}, rows : SUBSET Event]]
  /\ committed \cup forwarded \cup overtaken \subseteq Event

\* The cursor is the date of a row that was committed.
CursorFits ==
  /\ \A e \in committed : stamp[e] # 0
  /\ lastSeen = 0 \/ \E f \in committed : lastSeen = AsDate(stamp[f])

\* Of two rows with one stamp, the first that was committed was overtaken, if a
\* cursor can be at that stamp.
TiesAreOvertaken ==
  \A e, f \in committed : e # f /\ stamp[e] = stamp[f] /\ Passes(f, e) => e \in overtaken

\* What an answer would move the cursor past is in it, or in nobody's way: rows that
\* were committed since it was queried are overtaken if they are older.
AnswersFit ==
  \A p \in Poll : poll[p].at = "answer" =>
    /\ poll[p].rows \subseteq committed
    /\ \A e \in committed :
         e \in poll[p].rows \cup forwarded \cup overtaken \/ \A f \in poll[p].rows : ~Passes(f, e)

TailerInv ==
  /\ TailerShape
  /\ CursorFits
  /\ TiesAreOvertaken
  /\ AnswersFit
  /\ LostOnlyIfOvertaken

\* Initially nothing is written.
LEMMA TailerInitFits == TailerInit => TailerInv
<1> SUFFICES ASSUME TailerInit PROVE TailerInv
  OBVIOUS
<1>1. TailerShape
  BY TailerAssumption DEF TailerInit, TailerShape, NoPoll
<1>2. \A p \in Poll : poll[p].at = "idle"
  BY DEF TailerInit, NoPoll
<1> QED
  BY <1>1, <1>2 DEF TailerInit, TailerInv, CursorFits, TiesAreOvertaken, AnswersFit, LostOnlyIfOvertaken

\* Where the cursor comes to: it stays, or it is the date of a row of the answer that
\* none of its rows is after.
LEMMA CursorOf ==
  ASSUME TailerInv, NEW X, X \subseteq committed
  PROVE  /\ CursorAfter(X) \in 0..MaxTime
         /\ \/ X = {} /\ CursorAfter(X) = lastSeen
            \/ \E f \in X : CursorAfter(X) = AsDate(stamp[f])
<1>1. CASE X = {}
  BY <1>1 DEF CursorAfter, TailerInv, TailerShape
<1>2. CASE X # {}
  <2> DEFINE S == {stamp[e] : e \in X}
  <2>1. S \subseteq 0..MaxTime /\ S # {} /\ MaxTime \in Nat
    BY <1>2, TailerAssumption DEF TailerInv, TailerShape
  <2>2. Max(S) \in S
    BY <2>1, MaxOf
  <2>3. PICK f \in X : Max(S) = stamp[f]
    BY <2>2
  <2>4. CursorAfter(X) = AsDate(stamp[f])
    BY <1>2, <2>3 DEF CursorAfter
  <2>5. stamp[f] \in 0..MaxTime
    BY <2>1
  <2>6. AsDate(stamp[f]) \in 0..MaxTime
    BY <2>1, <2>5, DateIsEarlier
  <2> QED
    BY <2>4, <2>6
<1> QED
  BY <1>1, <1>2

\* Steps that write no row, publish none, and let no poll have an answer it had not.
LEMMA TailerWaits ==
  ASSUME TailerInv, now' \in 0..MaxTime, lastSeen' \in {lastSeen, 0},
         poll' \in [Poll -> [at : {"idle", "connect", "answer"}, rows : SUBSET Event]],
         \A p \in Poll : poll'[p] = poll[p] \/ poll'[p].at # "answer",
         UNCHANGED <<stamp, committed, overtaken, forwarded>>
  PROVE  TailerInv'
<1>1. TailerShape'
  BY TailerAssumption DEF TailerInv, TailerShape
<1>2. CursorFits'
  BY DEF TailerInv, CursorFits, AsDate
<1>3. TiesAreOvertaken' /\ AnswersFit'
  BY DEF TailerInv, TiesAreOvertaken, AnswersFit, Passes, AsDate
<1>4. LostOnlyIfOvertaken'
  <2>1. \A e \in committed : stamp[e] \in 0..MaxTime /\ stamp[e] # 0
    BY DEF TailerInv, TailerShape, CursorFits
  <2> QED
    BY <2>1, TailerAssumption DEF TailerInv, LostOnlyIfOvertaken
<1> QED
  BY <1>1, <1>2, <1>3, <1>4 DEF TailerInv

\* A row that is inserted is not yet committed.
LEMMA InsertFits ==
  ASSUME TailerInv, NEW e \in Event, InsertEvent(e)
  PROVE  TailerInv'
<1>1. e \notin committed
  BY DEF InsertEvent, TailerInv, CursorFits
<1>2. \A f \in committed : stamp'[f] = stamp[f]
  BY <1>1 DEF InsertEvent, TailerInv, TailerShape
<1>3. TailerShape'
  BY DEF InsertEvent, cursorVars, TailerInv, TailerShape
<1>4. CursorFits'
  BY <1>2 DEF InsertEvent, cursorVars, TailerInv, CursorFits, AsDate
<1>5. \A f, g \in committed : Passes(f, g)' <=> Passes(f, g)
  BY <1>2 DEF Passes, AsDate
<1>6. TiesAreOvertaken'
  BY <1>2, <1>5 DEF InsertEvent, TailerInv, TiesAreOvertaken
<1>7. AnswersFit'
  BY <1>2, <1>5 DEF InsertEvent, cursorVars, TailerInv, AnswersFit
<1>8. LostOnlyIfOvertaken'
  BY <1>2 DEF InsertEvent, cursorVars, TailerInv, LostOnlyIfOvertaken
<1> QED
  BY <1>3, <1>4, <1>6, <1>7, <1>8 DEF TailerInv

\* A row that is committed too late is overtaken, and so is the one it ties with.
LEMMA CommitEventFits ==
  ASSUME TailerInv, NEW e \in Event, CommitEvent(e)
  PROVE  TailerInv'
<1>0. /\ committed' = committed \cup {e} /\ stamp' = stamp /\ lastSeen' = lastSeen
      /\ poll' = poll /\ forwarded' = forwarded /\ now' = now
      /\ overtaken \subseteq overtaken' /\ overtaken' \subseteq overtaken \cup committed \cup {e}
  BY DEF CommitEvent
<1>1. \A f, g \in Event : Passes(f, g)' <=> Passes(f, g)
  BY <1>0 DEF Passes, AsDate
<1>2. \A g \in committed : Passes(g, e) => e \in overtaken'
  BY DEF CommitEvent
<1>3. \A f \in committed : stamp[f] = stamp[e] /\ Passes(e, f) => f \in overtaken'
  BY DEF CommitEvent
<1>4. committed \subseteq Event /\ stamp[e] # 0 /\ stamp[e] \in 0..MaxTime
  BY DEF CommitEvent, TailerInv, TailerShape
<1>5. TailerShape'
  BY <1>0, <1>4 DEF TailerInv, TailerShape
<1>6. CursorFits'
  BY <1>0, <1>4 DEF TailerInv, CursorFits, AsDate
<1>7. TiesAreOvertaken'
  <2> SUFFICES ASSUME NEW f \in committed \cup {e}, NEW g \in committed \cup {e},
                      f # g, stamp[f] = stamp[g], Passes(g, f)
               PROVE  f \in overtaken'
    BY <1>0, <1>1, <1>4 DEF TiesAreOvertaken
  <2> QED
    BY <1>0, <1>2, <1>3 DEF TailerInv, TiesAreOvertaken
<1>8. AnswersFit'
  <2> SUFFICES ASSUME NEW p \in Poll, poll[p].at = "answer"
               PROVE  /\ poll[p].rows \subseteq committed'
                      /\ \A d \in committed' :
                           d \in poll[p].rows \cup forwarded' \cup overtaken'
                             \/ \A f \in poll[p].rows : ~Passes(f, d)'
    BY <1>0 DEF AnswersFit
  <2>1. poll[p].rows \subseteq committed
    BY DEF TailerInv, AnswersFit
  <2>2. \A d \in committed :
          d \in poll[p].rows \cup forwarded \cup overtaken \/ \A f \in poll[p].rows : ~Passes(f, d)
    BY DEF TailerInv, AnswersFit
  <2>3. e \in overtaken' \/ \A f \in poll[p].rows : ~Passes(f, e)
    BY <1>2, <2>1
  <2> QED
    BY <1>0, <1>1, <1>4, <2>1, <2>2, <2>3
<1>9. LostOnlyIfOvertaken'
  <2>1. \A d \in committed : d \in forwarded' \/ stamp'[d] > lastSeen' \/ d \in overtaken'
    BY <1>0 DEF TailerInv, LostOnlyIfOvertaken
  <2>2. stamp[e] > lastSeen \/ e \in overtaken'
    <3>1. CASE lastSeen = 0
      BY <1>4, <3>1, TailerAssumption
    <3>2. ASSUME NEW f \in committed, lastSeen = AsDate(stamp[f])
          PROVE  stamp[e] > lastSeen \/ e \in overtaken'
      <4>1. lastSeen \in Nat /\ stamp[e] \in Nat
        BY <1>4, TailerAssumption DEF TailerInv, TailerShape
      <4>2. lastSeen >= stamp[e] => Passes(f, e)
        BY <3>2 DEF Passes
      <4> QED
        BY <1>2, <4>1, <4>2
    <3> QED
      BY <3>1, <3>2 DEF TailerInv, CursorFits
  <2> QED
    BY <1>0, <2>1, <2>2 DEF LostOnlyIfOvertaken
<1> QED
  BY <1>5, <1>6, <1>7, <1>8, <1>9 DEF TailerInv

\* What the query leaves out is older than the cursor, or newer than what it takes, or
\* ties with a row it takes.
LEMMA QueryFits ==
  ASSUME TailerInv, NEW p \in Poll, QueryLog(p)
  PROVE  TailerInv'
<1>1. PICK X \in SUBSET Unseen :
        OldestUnseen(X) /\ poll' = [poll EXCEPT ![p] = [at |-> "answer", rows |-> X]]
  BY DEF QueryLog
<1>2. X \subseteq committed /\ X \subseteq Event
  BY DEF Unseen, TailerInv, TailerShape
<1>3. ASSUME NEW e \in committed, e \notin X \cup forwarded \cup overtaken, NEW f \in X
      PROVE  ~Passes(f, e)
  <2>1. stamp[e] \in Nat /\ stamp[f] \in Nat /\ lastSeen \in Nat
    BY <1>2, TailerAssumption DEF TailerInv, TailerShape
  <2>2. e \in Unseen
    BY <1>3, <2>1 DEF Unseen, TailerInv, LostOnlyIfOvertaken
  <2>3. stamp[f] <= stamp[e] /\ e # f
    BY <1>1, <1>3, <2>2 DEF OldestUnseen
  <2>4. AsDate(stamp[f]) \in Nat /\ AsDate(stamp[f]) <= stamp[f]
    BY <2>1, DateIsEarlier
  <2>5. ~(stamp[e] = stamp[f] /\ Passes(f, e))
    BY <1>2, <1>3, <2>3 DEF TailerInv, TiesAreOvertaken
  <2> QED
    BY <2>1, <2>3, <2>4, <2>5 DEF Passes
<1>4. UNCHANGED <<now, stamp, committed, overtaken, lastSeen, forwarded>>
  BY DEF QueryLog, logVars
<1>5. TailerShape'
  BY <1>1, <1>2, <1>4 DEF TailerInv, TailerShape
<1>6. CursorFits' /\ TiesAreOvertaken' /\ LostOnlyIfOvertaken'
  BY <1>4 DEF TailerInv, CursorFits, TiesAreOvertaken, LostOnlyIfOvertaken, Passes, AsDate
<1>7. \A f, g : Passes(f, g)' <=> Passes(f, g)
  BY <1>4 DEF Passes, AsDate
<1>8. AnswersFit'
  <2> SUFFICES ASSUME NEW q \in Poll, poll'[q].at = "answer"
               PROVE  /\ poll'[q].rows \subseteq committed
                      /\ \A e \in committed :
                           e \in poll'[q].rows \cup forwarded \cup overtaken
                             \/ \A f \in poll'[q].rows : ~Passes(f, e)
    BY <1>4, <1>7 DEF AnswersFit
  <2>1. CASE q = p
    <3>1. poll'[q].rows = X
      BY <1>1, <2>1 DEF TailerInv, TailerShape
    <3> QED
      BY <1>2, <1>3, <3>1
  <2>2. CASE q # p
    <3>1. poll'[q] = poll[q]
      BY <1>1, <2>2 DEF TailerInv, TailerShape
    <3> QED
      BY <3>1 DEF TailerInv, AnswersFit
  <2> QED
    BY <2>1, <2>2
<1> QED
  BY <1>5, <1>6, <1>8 DEF TailerInv

\* What the cursor moves past is published with it, or was in nobody's way.
LEMMA PublishFits ==
  ASSUME TailerInv, NEW p \in Poll, PublishRows(p)
  PROVE  TailerInv'
<1> DEFINE X == poll[p].rows
<1>1. X \subseteq committed /\ X \subseteq Event /\ poll[p].at = "answer"
  BY DEF PublishRows, TailerInv, AnswersFit, TailerShape
<1>2. /\ lastSeen' = CursorAfter(X) /\ forwarded' = forwarded \cup X
      /\ poll' = [poll EXCEPT ![p] = NoPoll]
      /\ UNCHANGED <<now, stamp, committed, overtaken>>
  BY DEF PublishRows, logVars
<1>3. /\ CursorAfter(X) \in 0..MaxTime
      /\ \/ X = {} /\ CursorAfter(X) = lastSeen
         \/ \E f \in X : CursorAfter(X) = AsDate(stamp[f])
  BY <1>1, CursorOf
<1> HIDE DEF X
<1>4. TailerShape'
  BY <1>1, <1>2, <1>3 DEF TailerInv, TailerShape, NoPoll
<1>5. CursorFits'
  BY <1>1, <1>2, <1>3 DEF TailerInv, CursorFits, AsDate
<1>6. TiesAreOvertaken' /\ AnswersFit'
  <2>1. \A q \in Poll : poll'[q] = poll[q] \/ poll'[q].at # "answer"
    BY <1>2 DEF TailerInv, TailerShape, NoPoll
  <2> QED
    BY <1>2, <2>1 DEF TailerInv, TiesAreOvertaken, AnswersFit, Passes, AsDate
<1>7. LostOnlyIfOvertaken'
  <2> SUFFICES ASSUME NEW e \in committed, e \notin forwarded \cup X, e \notin overtaken
               PROVE  stamp[e] > CursorAfter(X)
    BY <1>2 DEF LostOnlyIfOvertaken
  <2>1. stamp[e] \in Nat /\ CursorAfter(X) \in Nat
    BY <1>3, TailerAssumption DEF TailerInv, TailerShape
  <2>2. CASE CursorAfter(X) = lastSeen
    BY <2>2 DEF TailerInv, LostOnlyIfOvertaken
  <2>3. ASSUME NEW f \in X, CursorAfter(X) = AsDate(stamp[f])
        PROVE  stamp[e] > CursorAfter(X)
    <3>1. ~Passes(f, e)
      BY <1>1 DEF TailerInv, AnswersFit, X
    <3> QED
      BY <2>1, <2>3, <3>1 DEF Passes
  <2> QED
    BY <1>3, <2>2, <2>3
<1> QED
  BY <1>4, <1>5, <1>6, <1>7 DEF TailerInv

\* Every step of the database and of the tailer.
LEMMA TailerStepFits == TailerInv /\ [TailerNext]_tailerVars => TailerInv'
<1> SUFFICES ASSUME TailerInv, [TailerNext]_tailerVars
             PROVE  TailerInv'
  OBVIOUS
<1>0. /\ now \in 0..MaxTime
      /\ poll \in [Poll -> [at : {"idle", "connect", "answer"}, rows : SUBSET Event]]
  BY DEF TailerInv, TailerShape
<1>1. CASE UNCHANGED tailerVars
  BY <1>0, <1>1, TailerWaits DEF tailerVars
<1>2. CASE AdvanceClock
  BY <1>0, <1>2, TailerWaits, TailerAssumption DEF AdvanceClock, cursorVars
<1>3. CASE StartTailer \/ StopTailer
  BY <1>0, <1>3, TailerWaits DEF StartTailer, StopTailer, logVars
<1>4. ASSUME NEW p \in Poll, TimerPoll(p) \/ \E e \in Event : Notified(p, e)
      PROVE  TailerInv'
  <2>1. BeginPoll(p) /\ UNCHANGED <<now, stamp, committed, overtaken, lastSeen, forwarded>>
    BY <1>4 DEF TimerPoll, Notified, logVars
  <2> QED
    BY <1>0, <2>1, TailerWaits DEF BeginPoll
<1>5. ASSUME NEW p \in Poll, PollFails(p)
      PROVE  TailerInv'
  BY <1>0, <1>5, TailerWaits DEF PollFails, logVars, NoPoll
<1> QED
  BY <1>1, <1>2, <1>3, <1>4, <1>5, InsertFits, CommitEventFits, QueryFits, PublishFits
     DEF TailerNext, PollStep

\* A committed row below the cursor that was not published was overtaken by another
\* commit: the limit of a poll, dates of milliseconds, overlapping polls that move the
\* cursor back and polls that fail lose nothing.
THEOREM OnlyOvertakenAreLost == TailerInit /\ [][TailerNext]_tailerVars => []LostOnlyIfOvertaken
<1>1. TailerInv => LostOnlyIfOvertaken
  BY DEF TailerInv
<1> QED
  BY <1>1, TailerInitFits, TailerStepFits, PTL

-----------------------------------------------------------------------------
(* The event stream: of the publications a client could expect, what it was *)
(* not sent is told of, waits in its queue, or lies below a marker that is  *)
(* due.                                                                    *)

PublishedRow == [id : Nat, type : EventType]

Subscriptions ==
  [open : BOOLEAN, queue : Seq(Nat), overflowed : BOOLEAN, lastSeen : Nat, waiting : BOOLEAN]

Climbs(queue) == \A i, j \in DOMAIN queue : i < j => queue[i] < queue[j]

Above(queue, sent) == \A i \in DOMAIN queue : \A f \in sent : f < queue[i]

UpTo(sent, n) == \A f \in sent : f <= n

\* There are n publications; the client has subscription s, remembers id, was sent those
\* of sent, was told up to mark, and expects those of due; inOrder if it was never taken
\* back to an earlier publication of an id.
NoneMissed(due, sent, mark, id) == \A e \in due : e <= id => e \in sent \/ e <= mark

Pending(due, sent, mark, s) ==
  \A e \in due :
    \/ e \in sent \/ e <= mark
    \/ \E i \in DOMAIN s.queue : s.queue[i] = e
    \/ s.overflowed /\ e <= s.lastSeen

StreamFits(n, s, id, sent, mark, due, inOrder) ==
  /\ id <= n /\ s.lastSeen <= n /\ \A i \in DOMAIN s.queue : s.queue[i] <= n
  /\ Climbs(s.queue)
  /\ inOrder => Above(s.queue, sent) /\ UpTo(sent, id)
  /\ inOrder /\ s.overflowed => UpTo(sent, s.lastSeen)
  /\ NoneMissed(due, sent, mark, id)
  /\ s.open => Pending(due, sent, mark, s)

RingFits ==
  /\ ring \in Seq(Nat) /\ Len(ring) <= Len(published)
  /\ \A i \in 1..Len(ring) : ring[i] = Len(published) - Len(ring) + i

BrokerShape ==
  /\ published \in Seq(PublishedRow)
  /\ subscriber \in [Client -> Subscriptions]
  /\ remembered \in [Client -> Nat] /\ received \in [Client -> SUBSET Nat]
  /\ firstEvent \in [Client -> Nat] /\ toldUpTo \in [Client -> Nat]
  /\ unresumed \subseteq Client /\ rewound \subseteq Client

\* A client that never subscribed was sent nothing.
Newcomer(c) ==
  /\ subscriber[c].open => firstEvent[c] # 0
  /\ firstEvent[c] = 0 => remembered[c] = 0 /\ received[c] = {}

Streams(c) ==
  StreamFits(Len(published), subscriber[c], remembered[c], received[c], toldUpTo[c], Expected(c),
             c \notin rewound)

BrokerInv ==
  /\ BrokerShape /\ RingFits
  /\ \A c \in Client : Newcomer(c)
  /\ \A c \in Client \ unresumed : Streams(c)

\* One more event in the queue: nothing is lost that a marker will not tell of.
LEMMA EnqueuedFits ==
  ASSUME NEW n \in Nat, NEW s \in Subscriptions, NEW id \in Nat, NEW sent \in SUBSET Nat,
         NEW mark \in Nat, NEW due \in SUBSET Nat, NEW more, more \subseteq due \cup {n + 1},
         NEW inOrder \in BOOLEAN, StreamFits(n, s, id, sent, mark, due, inOrder)
  PROVE  StreamFits(n + 1, Enqueued(s, n + 1), id, sent, mark, more, inOrder)
<1>0. SubscriberCapacity \in Nat \ {0}
  BY BrokerAssumption
<1>1. PICK q \in Seq(Nat) : q = s.queue
  BY DEF Subscriptions
<1>2. PICK l \in Nat : l = Len(q)
  OBVIOUS
<1>3. inOrder => UpTo(sent, n)
  BY DEF StreamFits, UpTo
<1>4. PICK u : u = Enqueued(s, n + 1)
  OBVIOUS
<1>5. PICK p \in Seq(Nat), k \in Nat :
        /\ k = Len(p) /\ u.queue = Append(p, n + 1) /\ u.lastSeen = n + 1 /\ u.open = s.open
        /\ \/ p = q /\ u.overflowed = s.overflowed
           \/ u.overflowed = TRUE /\ l # 0 /\ k = l - 1 /\ \A i \in 1..k : p[i] = q[i + 1]
  <2>1. CASE l >= SubscriberCapacity
    <3>1. l # 0
      BY <1>0, <2>1
    <3>2. Tail(q) \in Seq(Nat) /\ Len(Tail(q)) = l - 1 /\ \A i \in 1..(l - 1) : Tail(q)[i] = q[i + 1]
      BY <1>2, <3>1, TailOf
    <3>3. /\ u.queue = Append(Tail(q), n + 1) /\ u.lastSeen = n + 1 /\ u.open = s.open
          /\ u.overflowed = TRUE
      BY <1>1, <1>2, <1>4, <2>1 DEF Enqueued, Subscriptions
    <3>4. l - 1 \in Nat
      BY <3>1
    <3> QED
      BY <3>1, <3>2, <3>3, <3>4
  <2>2. CASE ~(l >= SubscriberCapacity)
    <3>1. /\ u.queue = Append(q, n + 1) /\ u.lastSeen = n + 1 /\ u.open = s.open
          /\ u.overflowed = s.overflowed
      BY <1>1, <1>2, <1>4, <2>2 DEF Enqueued, Subscriptions
    <3> QED
      BY <1>2, <3>1
  <2> QED
    BY <2>1, <2>2
<1>6. /\ DOMAIN u.queue = 1..(k + 1) /\ u.queue[k + 1] = n + 1
      /\ \A i \in 1..k : u.queue[i] = p[i]
      /\ \A i \in 1..(k + 1) : i = k + 1 \/ i \in 1..k
      /\ k + 1 \in 1..(k + 1) /\ \A i \in 1..k : i \in 1..(k + 1)
  BY <1>5, AppendTo
<1>7. /\ DOMAIN q = 1..l /\ DOMAIN p = 1..k
      /\ \A i \in 1..l : q[i] \in Nat
  BY <1>2, <1>5
<1>8. /\ \A i \in 1..k : \E j \in 1..l : p[i] = q[j]
      /\ \A i, j \in 1..k : i < j => p[i] < p[j]
  <2>1. \A i, j \in 1..l : i < j => q[i] < q[j]
    BY <1>1, <1>7 DEF StreamFits, Climbs
  <2>2. CASE p = q
    BY <1>7, <2>1, <2>2, <1>2, <1>5
  <2>3. CASE l # 0 /\ k = l - 1 /\ \A i \in 1..k : p[i] = q[i + 1]
    <3>1. \A i \in 1..k : i + 1 \in 1..l
      BY <2>3
    <3>2. \A i, j \in 1..k : i < j => i + 1 < j + 1
      OBVIOUS
    <3> QED
      BY <2>1, <2>3, <3>1, <3>2
  <2> QED
    BY <1>5, <2>2, <2>3
<1>9. \A j \in 1..l : q[j] <= n /\ (inOrder => \A f \in sent : f < q[j])
  BY <1>1, <1>7 DEF StreamFits, Above
<1>10. \A i \in 1..k : p[i] \in Nat /\ p[i] <= n /\ (inOrder => \A f \in sent : f < p[i])
  BY <1>7, <1>8, <1>9
<1>11. \A i \in DOMAIN u.queue : u.queue[i] <= n + 1
  <2> SUFFICES ASSUME NEW i \in 1..(k + 1) PROVE u.queue[i] <= n + 1
    BY <1>6
  <2>1. CASE i = k + 1
    BY <1>6, <2>1
  <2>2. CASE i \in 1..k
    <3>1. p[i] \in Nat /\ p[i] <= n /\ u.queue[i] = p[i]
      BY <1>6, <1>10, <2>2
    <3> QED
      BY <3>1
  <2> QED
    BY <1>6, <2>1, <2>2
<1>12. Climbs(u.queue)
  <2> SUFFICES ASSUME NEW i \in 1..(k + 1), NEW j \in 1..(k + 1), i < j
               PROVE  u.queue[i] < u.queue[j]
    BY <1>6 DEF Climbs
  <2>1. i \in 1..k
    OBVIOUS
  <2>2. CASE j = k + 1
    <3>1. p[i] \in Nat /\ p[i] <= n /\ u.queue[i] = p[i] /\ u.queue[j] = n + 1
      BY <1>6, <1>10, <2>1, <2>2
    <3> QED
      BY <3>1
  <2>3. CASE j # k + 1
    <3>1. j \in 1..k
      BY <2>3
    <3> QED
      BY <1>6, <1>8, <2>1, <3>1
  <2> QED
    BY <2>2, <2>3
<1>13. inOrder => Above(u.queue, sent)
  <2> SUFFICES ASSUME inOrder, NEW i \in 1..(k + 1), NEW f \in sent
               PROVE  f < u.queue[i]
    BY <1>6 DEF Above
  <2>1. CASE i = k + 1
    BY <1>3, <1>6, <2>1 DEF UpTo
  <2>2. CASE i # k + 1
    <3>1. i \in 1..k
      BY <2>2
    <3> QED
      BY <1>6, <1>10, <3>1
  <2> QED
    BY <2>1, <2>2
<1>14. inOrder => UpTo(sent, id) /\ UpTo(sent, n + 1)
  BY <1>3 DEF StreamFits, UpTo
<1>15. NoneMissed(more, sent, mark, id)
  BY DEF StreamFits, NoneMissed
<1>16. ASSUME u.open PROVE Pending(more, sent, mark, u)
  <2> SUFFICES ASSUME NEW e \in more, e \notin sent, ~(e <= mark)
               PROVE  \/ \E i \in DOMAIN u.queue : u.queue[i] = e
                      \/ u.overflowed /\ e <= u.lastSeen
    BY DEF Pending
  <2>1. CASE e = n + 1
    <3>1. k + 1 \in DOMAIN u.queue /\ u.queue[k + 1] = e
      BY <1>6, <2>1
    <3> QED
      BY <3>1
  <2>2. CASE e \in due
    <3>0. e \in Nat
      BY <2>2
    <3>1. \/ \E i \in DOMAIN q : q[i] = e
          \/ s.overflowed /\ e <= s.lastSeen
      BY <1>1, <1>5, <1>16, <2>2 DEF StreamFits, Pending
    <3>2. CASE s.overflowed /\ e <= s.lastSeen
      <4>1. s.lastSeen \in Nat /\ s.lastSeen <= n
        BY DEF Subscriptions, StreamFits
      <4>2. e <= n + 1
        BY <3>0, <3>2, <4>1
      <4> QED
        BY <1>5, <3>2, <4>2
    <3>3. CASE \E i \in DOMAIN q : q[i] = e
      <4>1. PICK i \in 1..l : q[i] = e
        BY <1>7, <3>3
      <4>2. CASE p = q
        <5>1. i \in 1..k
          BY <1>2, <1>5, <4>2
        <5>2. i \in DOMAIN u.queue /\ u.queue[i] = e
          BY <1>6, <4>1, <4>2, <5>1
        <5> QED
          BY <5>2
      <4>3. CASE u.overflowed = TRUE
        <5>1. e <= n + 1
          BY <1>9, <3>0, <4>1
        <5> QED
          BY <1>5, <4>3, <5>1
      <4> QED
        BY <1>5, <4>2, <4>3
    <3> QED
      BY <3>1, <3>2, <3>3
  <2> QED
    BY <2>1, <2>2
<1> QED
  BY <1>4, <1>5, <1>11, <1>12, <1>13, <1>14, <1>15, <1>16 DEF StreamFits

\* The marker is sent: what lies below it has been told of.
LEMMA MarkerFits ==
  ASSUME NEW n \in Nat, NEW s \in Subscriptions, NEW id \in Nat, NEW sent \in SUBSET Nat,
         NEW mark \in Nat, NEW due \in SUBSET Nat,
         NEW inOrder \in BOOLEAN, StreamFits(n, s, id, sent, mark, due, inOrder),
         s.open, s.overflowed,
         NEW u, u = [s EXCEPT !.overflowed = FALSE],
         NEW top \in Nat, top >= mark, top >= s.lastSeen
  PROVE  StreamFits(n, u, s.lastSeen, sent, top, due, inOrder)
<1>1. /\ u.queue = s.queue /\ u.overflowed = FALSE /\ u.lastSeen = s.lastSeen
      /\ s.lastSeen \in Nat
  BY DEF Subscriptions
<1>2. NoneMissed(due, sent, top, s.lastSeen)
  BY <1>1 DEF NoneMissed
<1>3. Pending(due, sent, top, u)
  <2> SUFFICES ASSUME NEW e \in due, e \notin sent, ~(e <= top)
               PROVE  \E i \in DOMAIN s.queue : s.queue[i] = e
    BY <1>1 DEF Pending
  <2>1. e \in Nat /\ ~(e <= mark) /\ ~(e <= s.lastSeen)
    BY <1>1
  <2> QED
    BY <2>1 DEF StreamFits, Pending
<1> QED
  BY <1>1, <1>2, <1>3 DEF StreamFits

\* The oldest event of the queue is sent.
LEMMA EventFits ==
  ASSUME NEW n \in Nat, NEW s \in Subscriptions, NEW id \in Nat, NEW sent \in SUBSET Nat,
         NEW mark \in Nat, NEW due \in SUBSET Nat,
         NEW inOrder \in BOOLEAN, StreamFits(n, s, id, sent, mark, due, inOrder),
         s.open, ~s.overflowed, s.queue # <<>>,
         NEW u, u = [s EXCEPT !.queue = Tail(@)]
  PROVE  StreamFits(n, u, Head(s.queue), sent \cup {Head(s.queue)}, mark, due, inOrder)
<1>1. PICK q \in Seq(Nat), l \in Nat : q = s.queue /\ l = Len(q) /\ l # 0
  BY DEF Subscriptions
<1>2. PICK p \in Seq(Nat), h \in Nat : p = Tail(q) /\ h = Head(q)
  BY <1>1, TailOf
<1>3. /\ h = q[1] /\ DOMAIN p = 1..(l - 1) /\ DOMAIN q = 1..l
      /\ \A i \in 1..(l - 1) : p[i] = q[i + 1] /\ i + 1 \in 1..l /\ 1 < i + 1
      /\ \A i \in 1..l : q[i] \in Nat
      /\ 1 \in 1..l
  <2>1. /\ h = q[1] /\ DOMAIN p = 1..(l - 1)
        /\ \A i \in 1..(l - 1) : p[i] = q[i + 1]
    BY <1>1, <1>2, TailOf
  <2>2. DOMAIN q = 1..l /\ \A i \in 1..l : q[i] \in Nat
    BY <1>1
  <2>3. /\ \A i \in 1..(l - 1) : i + 1 \in 1..l /\ 1 < i + 1
        /\ 1 \in 1..l
    BY <1>1
  <2> QED
    BY <2>1, <2>2, <2>3
<1>4. /\ u.queue = p /\ u.overflowed = s.overflowed /\ u.lastSeen = s.lastSeen
  BY <1>1, <1>2 DEF Subscriptions
<1>5. /\ \A i \in 1..l : q[i] <= n
      /\ \A i, j \in 1..l : i < j => q[i] < q[j]
      /\ inOrder => \A i \in 1..l : \A f \in sent : f < q[i]
  BY <1>1, <1>3 DEF StreamFits, Climbs, Above
<1>6. h <= n /\ \A i \in DOMAIN p : p[i] <= n /\ h < p[i] /\ (inOrder => \A f \in sent : f < p[i])
  BY <1>3, <1>5
<1>7. Climbs(p)
  <2> SUFFICES ASSUME NEW i \in 1..(l - 1), NEW j \in 1..(l - 1), i < j PROVE p[i] < p[j]
    BY <1>3 DEF Climbs
  <2>1. i + 1 < j + 1
    OBVIOUS
  <2> QED
    BY <1>3, <1>5, <2>1
<1>8. ASSUME inOrder PROVE UpTo(sent \cup {h}, h)
  <2>1. \A f \in sent : f < h /\ f \in Nat
    BY <1>3, <1>5, <1>8
  <2>2. \A f \in sent \cup {h} : f <= h
    BY <2>1
  <2> QED
    BY <2>2 DEF UpTo
<1>9. inOrder => Above(p, sent \cup {h})
  BY <1>6 DEF Above
<1>10. ASSUME NEW e \in due, e \notin sent, e # h, ~(e <= mark)
       PROVE  \E i \in DOMAIN p : p[i] = e
  <2>1. PICK i \in 1..l : q[i] = e
    BY <1>1, <1>3, <1>10 DEF StreamFits, Pending
  <2>2. i # 1
    BY <1>3, <1>10, <2>1
  <2>3. i - 1 \in 1..(l - 1) /\ (i - 1) + 1 = i
    BY <2>2
  <2> QED
    BY <1>3, <2>1, <2>3
<1>11. NoneMissed(due, sent \cup {h}, mark, h)
  <2> SUFFICES ASSUME NEW e \in due, e \notin sent, e # h, ~(e <= mark), e <= h PROVE FALSE
    BY DEF NoneMissed
  <2>1. PICK i \in DOMAIN p : p[i] = e
    BY <1>10
  <2>2. h < e /\ e \in Nat
    BY <1>6, <2>1
  <2> QED
    BY <2>2
<1>12. Pending(due, sent \cup {h}, mark, u)
  BY <1>4, <1>10 DEF Pending
<1> QED
  BY <1>1, <1>2, <1>4, <1>6, <1>7, <1>8, <1>9, <1>11, <1>12 DEF StreamFits

\* The ring holds the last events, without a gap.
LEMMA RingGoesOn ==
  ASSUME RingFits, NEW n \in Nat, n = Len(published), NEW row \in PublishedRow,
         published \in Seq(PublishedRow), published' = Append(published, row),
         ring' = Latest(Append(ring, n + 1), RingCapacity)
  PROVE  RingFits'
<1>0. RingCapacity \in Nat \ {0}
  BY BrokerAssumption
<1>1. PICK l \in Nat : /\ l = Len(ring) /\ l <= n /\ ring \in Seq(Nat)
                       /\ \A i \in 1..l : ring[i] = n - l + i
  BY DEF RingFits
<1>2. PICK r \in Seq(Nat) : /\ r = Append(ring, n + 1) /\ Len(r) = l + 1
                            /\ \A i \in 1..l : r[i] = ring[i]
                            /\ r[l + 1] = n + 1
  <2>1. n + 1 \in Nat /\ ring \in Seq(Nat) /\ l = Len(ring)
    BY <1>1
  <2>2. /\ Append(ring, n + 1) \in Seq(Nat) /\ Len(Append(ring, n + 1)) = l + 1
        /\ Append(ring, n + 1)[l + 1] = n + 1
        /\ \A i \in 1..l : Append(ring, n + 1)[i] = ring[i]
    BY <2>1, AppendTo
  <2> QED
    BY <2>2
<1>3. \A i \in 1..(l + 1) : r[i] = n - l + i
  <2> SUFFICES ASSUME NEW i \in 1..(l + 1) PROVE r[i] = n - l + i
    OBVIOUS
  <2>1. CASE i = l + 1
    BY <1>2, <2>1
  <2>2. CASE i # l + 1
    <3>1. i \in 1..l
      BY <2>2
    <3> QED
      BY <1>1, <1>2, <3>1
  <2> QED
    BY <2>1, <2>2
<1>4. Len(published') = n + 1
  BY AppendTo
<1>5. CASE l + 1 > RingCapacity
  <2>1. PICK d \in Nat : l + 1 = d + RingCapacity
    <3>1. (l + 1) - RingCapacity \in Nat
      BY <1>0, <1>5
    <3> QED
      BY <1>0, <3>1
  <2>2. ring' = SubSeq(r, d + 1, d + RingCapacity)
    <3>1. Len(r) - RingCapacity + 1 = d + 1 /\ Len(r) = d + RingCapacity /\ Len(r) > RingCapacity
      BY <1>0, <1>2, <1>5, <2>1
    <3> QED
      BY <1>2, <3>1 DEF Latest
  <2>3. /\ ring' \in Seq(Nat) /\ Len(ring') = RingCapacity
        /\ \A i \in 1..RingCapacity : ring'[i] = r[d + i] /\ d + i \in 1..(l + 1)
    <3>1. /\ d + 1 \in 1..Len(r) /\ d + RingCapacity \in 0..Len(r)
          /\ (d + RingCapacity) - (d + 1) + 1 = RingCapacity /\ d + 1 <= d + RingCapacity
      BY <1>0, <1>2, <2>1
    <3>2. \A i \in 1..RingCapacity : i \in 1..((d + RingCapacity) - (d + 1) + 1) /\ (d + 1) + i - 1 = d + i
      BY <1>0
    <3>3. \A i \in 1..RingCapacity : d + i \in 1..(l + 1)
      BY <1>0, <2>1
    <3>4. /\ SubSeq(r, d + 1, d + RingCapacity) \in Seq(Nat)
          /\ Len(SubSeq(r, d + 1, d + RingCapacity)) = RingCapacity
          /\ \A i \in 1..RingCapacity : SubSeq(r, d + 1, d + RingCapacity)[i] = r[d + i]
      <4>1. d + 1 \in Int /\ d + RingCapacity \in Int /\ DOMAIN r = 1..Len(r)
        BY <1>0, <1>2
      <4>2. \A i \in (d + 1)..(d + RingCapacity) : i \in DOMAIN r
        BY <1>0, <3>1, <4>1
      <4>3. \A i \in (d + 1)..(d + RingCapacity) : r[i] \in Nat
        BY <4>2
      <4>4. /\ SubSeq(r, d + 1, d + RingCapacity) \in Seq(Nat)
            /\ Len(SubSeq(r, d + 1, d + RingCapacity)) =
                 (IF d + 1 <= d + RingCapacity THEN (d + RingCapacity) - (d + 1) + 1 ELSE 0)
            /\ \A i \in 1..((d + RingCapacity) - (d + 1) + 1) :
                 SubSeq(r, d + 1, d + RingCapacity)[i] = r[(d + 1) + i - 1]
        BY <4>1, <4>3, SubSeqProperties
      <4> QED
        BY <3>1, <3>2, <4>4
    <3> QED
      BY <2>2, <3>3, <3>4
  <2>4. \A i \in 1..RingCapacity : n - l + (d + i) = (n + 1) - RingCapacity + i
    BY <1>0, <2>1
  <2>5. RingCapacity <= n + 1
    BY <1>0, <1>1, <2>1
  <2>6. \A i \in 1..RingCapacity : ring'[i] = (n + 1) - RingCapacity + i
    BY <1>3, <2>3, <2>4
  <2> QED
    BY <1>4, <2>3, <2>5, <2>6 DEF RingFits
<1>6. CASE ~(l + 1 > RingCapacity)
  <2>1. ring' = r
    BY <1>2, <1>6 DEF Latest
  <2>2. \A i \in 1..(l + 1) : n - l + i = (n + 1) - (l + 1) + i
    OBVIOUS
  <2>3. Len(ring') = l + 1 /\ ring' \in Seq(Nat) /\ l + 1 <= n + 1
    <3>1. l + 1 <= n + 1
      BY <1>1
    <3> QED
      BY <1>2, <2>1, <3>1
  <2>4. \A i \in 1..(l + 1) : ring'[i] = (n + 1) - (l + 1) + i
    BY <1>3, <2>1, <2>2
  <2> QED
    BY <1>4, <2>3, <2>4 DEF RingFits
<1> QED
  BY <1>5, <1>6

\* What the ring holds after the id of a publication it holds: the later ones that match,
\* and none before, unless an earlier one has that id.
LEMMA ReplayFits ==
  ASSUME RingFits, NEW n \in Nat, n = Len(published), NEW c \in Client,
         NEW j \in 1..Len(ring), NEW id, id = ring[j],
         NEW places, places \subseteq ReplayedAfter(id),
         \A i \in ReplayedAfter(id) : i \in places <=> Matches(c, published[ring[i]].type),
         NEW q, q = Filtered(ring, places)
  PROVE  /\ q \in Seq(Nat) /\ Climbs(q)
         /\ \A i \in DOMAIN q : q[i] <= n
         /\ (\A i \in DOMAIN ring : ring[i] < id => ~SameId(ring[i], id))
              => \A i \in DOMAIN q : id < q[i]
         /\ \A e \in 1..n : e > id /\ Matches(c, published[e].type) => \E i \in DOMAIN q : q[i] = e
<1>1. PICK l \in Nat : /\ l = Len(ring) /\ l <= n /\ ring \in Seq(Nat) /\ DOMAIN ring = 1..l
                       /\ \A i \in 1..l : ring[i] = n - l + i
  BY DEF RingFits
<1>2. places \in SUBSET DOMAIN ring
  BY DEF ReplayedAfter
<1>3. PICK k, asc : k \in Nat /\ k = Cardinality(places) /\ asc = Ascending(places)
  BY <1>1, <1>2, FilteredKeeps
<1>4. /\ q \in Seq(Nat) /\ Len(q) = k /\ Sorts(asc, places)
      /\ \A i \in 1..k : q[i] = ring[asc[i]]
      /\ \A x \in places : \E i \in 1..k : q[i] = ring[x]
  <2>1. ring \in Seq(Nat)
    BY <1>1
  <2>2. /\ Filtered(ring, places) \in Seq(Nat)
        /\ Len(Filtered(ring, places)) = Cardinality(places)
        /\ Sorts(Ascending(places), places)
        /\ \A i \in 1..Cardinality(places) : Filtered(ring, places)[i] = ring[Ascending(places)[i]]
        /\ \A x \in places : \E i \in 1..Cardinality(places) : Filtered(ring, places)[i] = ring[x]
    BY <1>2, <2>1, FilteredKeeps
  <2> QED
    BY <1>3, <2>2
<1>5. /\ \A i \in 1..k : asc[i] \in places
      /\ \A i, h \in 1..k : i < h => asc[i] < asc[h]
      /\ DOMAIN q = 1..k
  <2>1. DOMAIN q = 1..k
    BY <1>4
  <2>2. asc \in [1..k -> places] /\ \A i, h \in 1..k : i < h => asc[i] < asc[h]
    BY <1>3, <1>4 DEF Sorts
  <2> QED
    BY <2>1, <2>2
<1>6. \A i \in places : i \in 1..l /\ \E h \in 1..(i - 1) : SameId(ring[h], id)
  BY <1>1, <1>2 DEF ReplayedAfter, SameId
<1>7. \A i, h \in 1..l : i < h => ring[i] < ring[h]
  BY <1>1
<1>8. \A i \in 1..l : ring[i] <= n
  BY <1>1
<1>9. Climbs(q)
  <2> SUFFICES ASSUME NEW i \in 1..k, NEW h \in 1..k, i < h PROVE q[i] < q[h]
    BY <1>5 DEF Climbs
  <2>1. asc[i] \in 1..l /\ asc[h] \in 1..l /\ asc[i] < asc[h]
    BY <1>5, <1>6
  <2> QED
    BY <1>4, <1>7, <2>1
<1>10. ASSUME NEW i \in DOMAIN q
       PROVE  /\ q[i] <= n
              /\ (\A x \in DOMAIN ring : ring[x] < id => ~SameId(ring[x], id)) => id < q[i]
  <2>1. asc[i] \in 1..l /\ q[i] = ring[asc[i]]
    BY <1>4, <1>5, <1>6, <1>10
  <2>2. PICK h \in 1..(asc[i] - 1) : SameId(ring[h], id)
    BY <1>5, <1>6, <1>10
  <2>3. h \in 1..l /\ h < asc[i] /\ ring[h] < ring[asc[i]]
    BY <1>7, <2>1, <2>2
  <2>4. ring[h] \in Nat /\ id \in Nat /\ ring[asc[i]] \in Nat
    BY <1>1, <2>1, <2>3
  <2>5. (\A x \in DOMAIN ring : ring[x] < id => ~SameId(ring[x], id)) => id <= ring[h]
    <3>1. h \in DOMAIN ring
      BY <1>1, <2>3
    <3>2. (\A x \in DOMAIN ring : ring[x] < id => ~SameId(ring[x], id)) => ~(ring[h] < id)
      BY <2>2, <3>1
    <3> QED
      BY <2>4, <3>2
  <2> QED
    BY <1>8, <2>1, <2>3, <2>4, <2>5
<1>11. ASSUME NEW e \in 1..n, e > id, Matches(c, published[e].type)
       PROVE  \E i \in DOMAIN q : q[i] = e
  <2>1. PICK x \in 1..l : ring[x] = e /\ x > j
    <3>1. id = n - l + j /\ j \in 1..l
      BY <1>1
    <3>2. e - (n - l) \in 1..l /\ e - (n - l) > j /\ n - l + (e - (n - l)) = e
      BY <1>1, <1>11, <3>1
    <3> QED
      BY <1>1, <3>2
  <2>2. j \in 1..(x - 1) /\ SameId(ring[j], id)
    BY <1>1, <2>1 DEF SameId
  <2>3. x \in places
    BY <1>1, <1>11, <2>1, <2>2 DEF ReplayedAfter
  <2> QED
    BY <1>4, <1>5, <2>1, <2>3
<1> QED
  BY <1>4, <1>9, <1>10, <1>11

\* A client that comes for the first time, or with an id that the ring holds.
LEMMA SubscribeFits ==
  ASSUME BrokerInv, NEW c \in Client, Subscribe(c)
  PROVE  /\ subscriber' \in [Client -> Subscriptions]
         /\ Newcomer(c)'
         /\ c \notin unresumed' => Streams(c)'
<1>0. PICK n \in Nat : n = Len(published) /\ published \in Seq(PublishedRow) /\ DOMAIN published = 1..n
  BY DEF BrokerInv, BrokerShape
<1>1. PICK id \in ResumesAt(c) :
        /\ ~subscriber[c].open
        /\ subscriber' = [subscriber EXCEPT ![c] =
             [NotSubscribed EXCEPT
                !.open = TRUE,
                !.queue = Filtered(ring, {i \in (IF id = 0 THEN {} ELSE ReplayedAfter(id)) :
                                            Matches(c, published[ring[i]].type)})]]
        /\ firstEvent' = [firstEvent EXCEPT ![c] = IF @ = 0 THEN Len(published) + 1 ELSE @]
        /\ unresumed' = unresumed \cup
             (IF firstEvent[c] # 0 /\ ~Contains(ring, id) THEN {c} ELSE {})
        /\ rewound' = rewound \cup
             (IF id # 0 /\ \E i \in DOMAIN ring : ring[i] < id /\ SameId(ring[i], id) THEN {c} ELSE {})
        /\ UNCHANGED <<feeds, published, ring, remembered, received, toldUpTo>>
  BY DEF Subscribe
<1>2. PICK places : places = {i \in (IF id = 0 THEN {} ELSE ReplayedAfter(id)) :
                                Matches(c, published[ring[i]].type)}
  OBVIOUS
<1>3. PICK q : q = Filtered(ring, places)
  OBVIOUS
<1>4. q \in Seq(Nat) /\ Len(q) = Cardinality(places)
  <2>1. places \in SUBSET DOMAIN ring /\ ring \in Seq(Nat)
    BY <1>2 DEF ReplayedAfter, BrokerInv, RingFits
  <2> QED
    BY <1>3, <2>1, FilteredKeeps
<1>5. PICK u : u = [NotSubscribed EXCEPT !.open = TRUE, !.queue = q]
  OBVIOUS
<1>6. /\ u \in Subscriptions /\ u.open = TRUE /\ u.queue = q
      /\ u.overflowed = FALSE /\ u.lastSeen = 0
  BY <1>4, <1>5 DEF NotSubscribed, Subscriptions
<1>7. subscriber' = [subscriber EXCEPT ![c] = u]
  BY <1>1, <1>2, <1>3, <1>5
<1>8. subscriber' \in [Client -> Subscriptions] /\ subscriber'[c] = u
  BY <1>6, <1>7 DEF BrokerInv, BrokerShape
<1>9. /\ firstEvent'[c] = (IF firstEvent[c] = 0 THEN n + 1 ELSE firstEvent[c])
      /\ firstEvent'[c] # 0
      /\ published' = published /\ remembered'[c] = remembered[c] /\ received'[c] = received[c]
      /\ toldUpTo'[c] = toldUpTo[c]
  BY <1>0, <1>1 DEF BrokerInv, BrokerShape
<1>10. Newcomer(c)'
  BY <1>9 DEF Newcomer
<1>11. ASSUME c \notin unresumed' PROVE Streams(c)'
  <2>0. /\ c \notin unresumed /\ (firstEvent[c] = 0 \/ Contains(ring, id))
        /\ remembered[c] \in Nat /\ received[c] \in SUBSET Nat /\ toldUpTo[c] \in Nat
        /\ firstEvent[c] \in Nat
        /\ firstEvent[c] = 0 => remembered[c] = 0 /\ received[c] = {}
    BY <1>1, <1>11 DEF BrokerInv, BrokerShape, Newcomer
  <2>1. PICK due : due = Expected(c)'
    OBVIOUS
  <2>a. PICK inOrder \in BOOLEAN : inOrder = (c \notin rewound')
    OBVIOUS
  <2>2. SUFFICES StreamFits(n, u, remembered[c], received[c], toldUpTo[c], due, inOrder)
    BY <1>0, <1>8, <1>9, <2>1, <2>a DEF Streams
  <2>3. CASE firstEvent[c] = 0
    <3>1. due = {}
      BY <1>0, <1>9, <2>1, <2>3 DEF Expected
    <3>2. id = 0
      BY <2>0, <2>3 DEF ResumesAt, TenantStream, FeedConnection
    <3>3. places = {}
      BY <1>2, <3>2
    <3>4. Len(q) = 0
      BY <1>4, <3>3, FS_EmptySet
    <3>5. DOMAIN q = {}
      BY <1>4, <3>4
    <3> QED
      BY <1>6, <2>0, <2>3, <3>1, <3>5
         DEF StreamFits, Climbs, Above, UpTo, NoneMissed, Pending
  <2>4. CASE firstEvent[c] # 0
    <3>1. PICK j \in 1..Len(ring) : ring[j] = id
      BY <2>0, <2>4 DEF Contains
    <3>2. id # 0 /\ id \in Nat /\ RingFits
      BY <3>1 DEF BrokerInv, RingFits
    <3>3. remembered[c] = id
      BY <3>2 DEF ResumesAt, TenantStream, FeedConnection
    <3>4. /\ places \subseteq ReplayedAfter(id)
          /\ \A i \in ReplayedAfter(id) : i \in places <=> Matches(c, published[ring[i]].type)
      BY <1>2, <3>2
    <3>5. /\ Climbs(q)
          /\ \A i \in DOMAIN q : q[i] <= n
          /\ (\A i \in DOMAIN ring : ring[i] < id => ~SameId(ring[i], id))
               => \A i \in DOMAIN q : id < q[i]
          /\ \A e \in 1..n : e > id /\ Matches(c, published[e].type) => \E i \in DOMAIN q : q[i] = e
      BY <1>0, <1>3, <3>1, <3>2, <3>4, ReplayFits, SMTT(60)
    <3>6. due = Expected(c)
      BY <1>1, <1>9, <2>1, <2>4 DEF Expected, Matches, TypesOf
    <3>7. StreamFits(n, subscriber[c], id, received[c], toldUpTo[c], due, c \notin rewound)
      BY <1>0, <2>0, <3>3, <3>6 DEF BrokerInv, Streams
    <3>b. inOrder => /\ c \notin rewound
                     /\ \A i \in DOMAIN ring : ring[i] < id => ~SameId(ring[i], id)
      BY <1>1, <2>a, <3>2
    <3>c. inOrder => UpTo(received[c], id)
      BY <3>7, <3>b DEF StreamFits
    <3>8. inOrder => Above(q, received[c])
      <4> SUFFICES ASSUME inOrder, NEW i \in DOMAIN q, NEW f \in received[c] PROVE f < q[i]
        BY DEF Above
      <4>1. f <= id /\ id < q[i] /\ f \in Nat /\ id \in Nat /\ q[i] \in Nat
        BY <1>4, <2>0, <3>2, <3>5, <3>b, <3>c DEF UpTo
      <4> QED
        BY <4>1
    <3>9. Pending(due, received[c], toldUpTo[c], u)
      <4> SUFFICES ASSUME NEW e \in due, e \notin received[c], ~(e <= toldUpTo[c])
                   PROVE  \E i \in DOMAIN q : q[i] = e
        BY <1>6 DEF Pending
      <4>1. e \in 1..n /\ Matches(c, published[e].type)
        BY <1>0, <3>6 DEF Expected
      <4>2. ~(e <= id)
        BY <3>7 DEF StreamFits, NoneMissed
      <4> QED
        BY <3>2, <3>5, <4>1, <4>2
    <3>10. id <= n
      BY <3>7 DEF StreamFits
    <3> QED
      BY <1>0, <1>6, <3>3, <3>5, <3>7, <3>8, <3>9, <3>10, <3>c DEF StreamFits
  <2> QED
    BY <2>3, <2>4
<1> QED
  BY <1>8, <1>10, <1>11

\* Initially nothing is published and nobody subscribed.
LEMMA BrokerInitFits == BrokerInit => BrokerInv
<1> SUFFICES ASSUME BrokerInit PROVE BrokerInv
  OBVIOUS
<1>1. NotSubscribed \in Subscriptions
  BY DEF NotSubscribed, Subscriptions
<1>2. BrokerShape
  BY <1>1 DEF BrokerInit, BrokerShape
<1>3. RingFits
  BY DEF BrokerInit, RingFits
<1>4. ASSUME NEW c \in Client PROVE Newcomer(c) /\ Streams(c)
  <2>1. Expected(c) = {}
    BY DEF BrokerInit, Expected
  <2> QED
    BY <2>1 DEF BrokerInit, Newcomer, Streams, StreamFits, NotSubscribed, Climbs, Above, UpTo,
                NoneMissed
<1> QED
  BY <1>2, <1>3, <1>4 DEF BrokerInv

\* What is kept of a client, and how many events there are.
LEMMA ClientIs ==
  ASSUME BrokerShape, NEW c \in Client
  PROVE  /\ subscriber[c] \in Subscriptions /\ remembered[c] \in Nat
         /\ received[c] \in SUBSET Nat /\ toldUpTo[c] \in Nat /\ Len(published) \in Nat
BY DEF BrokerShape

\* An event is published.
LEMMA PublishEventFits ==
  ASSUME BrokerInv, NEW row \in Rows, Publish(row)
  PROVE  BrokerInv'
<1>0. PICK n \in Nat : n = Len(published) /\ published \in Seq(PublishedRow) /\ DOMAIN published = 1..n
  BY DEF BrokerInv, BrokerShape
<1>a. row \in PublishedRow
  <2>1. CASE row \in ToSet(published)
    BY <1>0, <2>1 DEF ToSet
  <2>2. CASE row \in [id : {n + 1}, type : EventType]
    BY <2>2 DEF PublishedRow
  <2> QED
    BY <1>0, <2>1, <2>2 DEF Rows
<1>1. /\ published' = Append(published, row)
      /\ ring' = Latest(Append(ring, n + 1), RingCapacity)
      /\ subscriber' = [c \in Client |->
           IF subscriber[c].open /\ Matches(c, row.type) THEN Enqueued(subscriber[c], n + 1)
                                                     ELSE subscriber[c]]
      /\ UNCHANGED clientVars
  BY <1>0 DEF Publish
<1>2. /\ published' \in Seq(PublishedRow) /\ Len(published') = n + 1 /\ DOMAIN published' = 1..(n + 1)
      /\ published'[n + 1] = row /\ \A e \in 1..n : published'[e] = published[e]
  BY <1>0, <1>a, <1>1, AppendTo
<1>3. RingFits'
  BY <1>0, <1>a, <1>1, RingGoesOn DEF BrokerInv
<1>4. ASSUME NEW c \in Client
      PROVE  /\ Enqueued(subscriber[c], n + 1) \in Subscriptions
             /\ Enqueued(subscriber[c], n + 1).open = subscriber[c].open
  <2>1. PICK s \in Subscriptions : s = subscriber[c]
    BY DEF BrokerInv, BrokerShape
  <2>2. PICK q \in Seq(Nat), l \in Nat : q = s.queue /\ l = Len(q)
    BY DEF Subscriptions
  <2>3. l # 0 => Append(Tail(q), n + 1) \in Seq(Nat)
    <3>1. n + 1 \in Nat
      OBVIOUS
    <3>2. l # 0 => Tail(q) \in Seq(Nat)
      BY <2>2, TailOf
    <3> QED
      BY <3>1, <3>2
  <2>4. Append(q, n + 1) \in Seq(Nat)
    OBVIOUS
  <2>5. SubscriberCapacity \in Nat \ {0}
    BY BrokerAssumption
  <2>6. CASE l >= SubscriberCapacity
    <3>1. l # 0
      BY <2>5, <2>6
    <3>2. PICK p \in Seq(Nat) : p = Append(Tail(q), n + 1)
      BY <2>3, <3>1
    <3>3. Enqueued(s, n + 1) = [s EXCEPT !.queue = p, !.overflowed = TRUE,
                                         !.lastSeen = n + 1, !.waiting = FALSE]
      BY <2>2, <2>6, <3>2 DEF Enqueued
    <3>4. n + 1 \in Nat
      OBVIOUS
    <3> QED
      BY <2>1, <3>3, <3>4 DEF Subscriptions
  <2>7. CASE ~(l >= SubscriberCapacity)
    <3>1. PICK p \in Seq(Nat) : p = Append(q, n + 1)
      BY <2>4
    <3>2. Enqueued(s, n + 1) = [s EXCEPT !.queue = p, !.lastSeen = n + 1, !.waiting = FALSE]
      BY <2>2, <2>7, <3>1 DEF Enqueued
    <3>3. n + 1 \in Nat
      OBVIOUS
    <3> QED
      BY <2>1, <3>2, <3>3 DEF Subscriptions
  <2> QED
    BY <2>6, <2>7
<1>5. subscriber' \in [Client -> Subscriptions]
  BY <1>1, <1>4 DEF BrokerInv, BrokerShape
<1>6. BrokerShape'
  BY <1>1, <1>2, <1>5 DEF BrokerInv, BrokerShape, clientVars
<1>7. ASSUME NEW c \in Client PROVE Newcomer(c)'
  BY <1>1, <1>4 DEF BrokerInv, Newcomer, clientVars
<1>8. ASSUME NEW c \in Client \ unresumed PROVE Streams(c)'
  <2>1. PICK s \in Subscriptions, id \in Nat, sent \in SUBSET Nat, mark \in Nat :
          /\ s = subscriber[c] /\ id = remembered[c] /\ sent = received[c] /\ mark = toldUpTo[c]
    BY DEF BrokerInv, BrokerShape
  <2>2. PICK due : due = Expected(c)
    OBVIOUS
  <2>a. PICK inOrder \in BOOLEAN : inOrder = (c \notin rewound)
    OBVIOUS
  <2>3. StreamFits(n, s, id, sent, mark, due, inOrder) /\ due \in SUBSET Nat /\ due \subseteq 1..n
    <3>1. Streams(c)
      BY DEF BrokerInv
    <3>2. due \subseteq 1..n
      BY <1>0, <2>2 DEF Expected
    <3> QED
      BY <1>0, <2>1, <2>2, <2>a, <3>1, <3>2 DEF Streams
  <2>4. PICK more : more = Expected(c)'
    OBVIOUS
  <2>5. more \subseteq due \cup {n + 1} /\ (~Matches(c, row.type) => more \subseteq due)
    <3> SUFFICES ASSUME NEW e \in more
                 PROVE  e \in due \/ (e = n + 1 /\ Matches(c, row.type))
      OBVIOUS
    <3>1. /\ e \in 1..(n + 1) /\ firstEvent[c] # 0 /\ e >= firstEvent[c]
          /\ Matches(c, published'[e].type)
      BY <1>1, <1>2, <2>4 DEF Expected, Matches, TypesOf, clientVars
    <3>2. CASE e = n + 1
      BY <1>2, <3>1, <3>2
    <3>3. CASE e # n + 1
      <4>1. e \in 1..n
        BY <3>1, <3>3
      <4> QED
        BY <1>0, <1>2, <2>2, <3>1, <4>1 DEF Expected
    <3> QED
      BY <3>2, <3>3
  <2>6. SUFFICES StreamFits(n + 1, subscriber'[c], id, sent, mark, more, inOrder)
    BY <1>1, <1>2, <2>1, <2>4, <2>a DEF Streams, clientVars
  <2>7. CASE s.open /\ Matches(c, row.type)
    <3>1. subscriber'[c] = Enqueued(s, n + 1)
      BY <1>1, <2>1, <2>7
    <3> QED
      <4>1. more \subseteq due \cup {n + 1}
        BY <2>5
      <4>2. StreamFits(n + 1, Enqueued(s, n + 1), id, sent, mark, more, inOrder)
        BY <2>3, <4>1, EnqueuedFits, ZenonT(60)
      <4> QED
        BY <3>1, <4>2
  <2>8. CASE ~(s.open /\ Matches(c, row.type))
    <3>1. subscriber'[c] = s
      BY <1>1, <2>1, <2>8
    <3>2. id <= n + 1 /\ s.lastSeen <= n + 1 /\ \A i \in DOMAIN s.queue : s.queue[i] <= n + 1
      <4>1. /\ id <= n /\ s.lastSeen <= n /\ s.lastSeen \in Nat
            /\ \A i \in DOMAIN s.queue : s.queue[i] <= n /\ s.queue[i] \in Nat
        BY <2>3 DEF StreamFits, Subscriptions
      <4> QED
        BY <4>1
    <3>3. NoneMissed(more, sent, mark, id)
      <4>1. id <= n
        BY <2>3 DEF StreamFits
      <4>2. ~(n + 1 <= id)
        BY <4>1
      <4> QED
        BY <2>3, <2>5, <4>2 DEF StreamFits, NoneMissed
    <3>4. s.open => Pending(more, sent, mark, s)
      BY <2>3, <2>5, <2>8 DEF StreamFits, Pending
    <3> QED
      BY <2>3, <3>1, <3>2, <3>3, <3>4 DEF StreamFits
  <2> QED
    BY <2>7, <2>8
<1> QED
  BY <1>1, <1>3, <1>6, <1>7, <1>8 DEF BrokerInv, clientVars

\* Of one client c something changes, and nothing of the others.
LEMMA ClientMoves ==
  ASSUME BrokerInv, NEW c \in Client, UNCHANGED <<feeds, published, ring>>,
         BrokerShape', Newcomer(c)', c \notin unresumed' => Streams(c)',
         unresumed \subseteq unresumed', rewound \subseteq rewound', rewound' \subseteq rewound \cup {c},
         \A d \in Client : d # c =>
           /\ subscriber'[d] = subscriber[d] /\ remembered'[d] = remembered[d]
           /\ received'[d] = received[d] /\ firstEvent'[d] = firstEvent[d]
           /\ toldUpTo'[d] = toldUpTo[d]
  PROVE  BrokerInv'
<1>1. ASSUME NEW d \in Client, d # c
      PROVE  Newcomer(d)' /\ (d \notin unresumed' => Streams(d)')
  <2>1. Expected(d)' = Expected(d)
    BY <1>1 DEF Expected, Matches, TypesOf
  <2> QED
    BY <1>1, <2>1 DEF BrokerInv, Newcomer, Streams
<1>2. RingFits'
  BY DEF BrokerInv, RingFits
<1> QED
  BY <1>1, <1>2 DEF BrokerInv

\* A connection that ended has nothing in it.
LEMMA ClosedFits ==
  ASSUME BrokerInv, NEW c \in Client, subscriber'[c] = NotSubscribed,
         UNCHANGED <<feeds, published, remembered, received, firstEvent, toldUpTo, unresumed, rewound>>
  PROVE  Newcomer(c)' /\ (c \notin unresumed' => Streams(c)')
<1>1. /\ subscriber'[c].open = FALSE /\ subscriber'[c].queue = <<>>
      /\ subscriber'[c].overflowed = FALSE /\ subscriber'[c].lastSeen = 0
  BY DEF NotSubscribed
<1>2. Expected(c)' = Expected(c) /\ Len(published) \in Nat
  BY DEF Expected, Matches, TypesOf, BrokerInv, BrokerShape
<1> QED
  BY <1>1, <1>2 DEF BrokerInv, Newcomer, Streams, StreamFits, Climbs, Above

\* Every step of the server and of the clients.
LEMMA BrokerStepFits == BrokerInv /\ [BrokerNext]_brokerVars => BrokerInv'
<1> SUFFICES ASSUME BrokerInv, [BrokerNext]_brokerVars
             PROVE  BrokerInv'
  OBVIOUS
<1>0. BrokerShape
  BY DEF BrokerInv
<1>1. CASE UNCHANGED brokerVars
  BY <1>1 DEF brokerVars, BrokerInv, BrokerShape, RingFits, Newcomer, Streams, Expected,
              Matches, TypesOf
<1>2. ASSUME NEW c \in Client, Subscribe(c)
      PROVE  BrokerInv'
  <2>1. /\ subscriber' \in [Client -> Subscriptions] /\ Newcomer(c)'
        /\ c \notin unresumed' => Streams(c)'
    BY <1>2, SubscribeFits
  <2>2. /\ UNCHANGED <<feeds, published, ring, remembered, received, toldUpTo>>
        /\ \E s : subscriber' = [subscriber EXCEPT ![c] = s]
        /\ \E e \in Nat : firstEvent' = [firstEvent EXCEPT ![c] = e]
        /\ unresumed' = unresumed \/ unresumed' = unresumed \cup {c}
        /\ rewound' = rewound \/ rewound' = rewound \cup {c}
    <3>1. Len(published) + 1 \in Nat /\ firstEvent[c] \in Nat
      BY <1>0 DEF BrokerShape
    <3> QED
      BY <1>2, <3>1 DEF Subscribe
  <2>3. BrokerShape'
    BY <1>0, <2>1, <2>2 DEF BrokerShape
  <2> QED
    BY <1>0, <2>1, <2>2, <2>3, ClientMoves DEF BrokerShape
<1>3. ASSUME NEW c \in Client, YieldMarker(c)
      PROVE  BrokerInv'
  <2>1. PICK s \in Subscriptions, id \in Nat, sent \in SUBSET Nat, mark \in Nat, n \in Nat :
          /\ s = subscriber[c] /\ id = remembered[c] /\ sent = received[c] /\ mark = toldUpTo[c]
          /\ n = Len(published)
    BY <1>0, ClientIs
  <2>2. PICK u : u = [s EXCEPT !.overflowed = FALSE]
    OBVIOUS
  <2>3. u \in Subscriptions /\ u.open = s.open /\ s.lastSeen \in Nat /\ s.open /\ s.overflowed
    BY <1>3, <2>1, <2>2 DEF YieldMarker, Subscriptions
  <2>4. PICK top \in Nat : top = Max({mark, s.lastSeen}) /\ top >= mark /\ top >= s.lastSeen
    <3>1. \A x, y \in Nat : \E z \in {x, y} : \A v \in {x, y} : z >= v
      OBVIOUS
    <3>2. \E z \in {mark, s.lastSeen} : \A v \in {mark, s.lastSeen} : z >= v
      BY <2>3, <3>1
    <3>3. /\ Max({mark, s.lastSeen}) \in {mark, s.lastSeen}
          /\ \A v \in {mark, s.lastSeen} : Max({mark, s.lastSeen}) >= v
      BY <3>2 DEF Max
    <3> QED
      BY <2>3, <3>3
  <2>5. /\ subscriber' = [subscriber EXCEPT ![c] = u]
        /\ remembered' = [remembered EXCEPT ![c] = s.lastSeen]
        /\ toldUpTo' = [toldUpTo EXCEPT ![c] = top]
        /\ UNCHANGED <<feeds, published, ring, received, firstEvent, unresumed, rewound>>
    BY <1>3, <2>1, <2>2, <2>4 DEF YieldMarker
  <2>6. BrokerShape'
    BY <1>0, <2>3, <2>5 DEF BrokerShape
  <2>7. Newcomer(c)'
    BY <1>0, <2>1, <2>3, <2>5 DEF BrokerInv, BrokerShape, Newcomer
  <2>8. ASSUME c \notin unresumed' PROVE Streams(c)'
    <3>1. PICK due : due = Expected(c)
      OBVIOUS
    <3>2. due \in SUBSET Nat /\ Expected(c)' = due
      BY <2>5, <3>1 DEF Expected, Matches, TypesOf
    <3>a. PICK inOrder \in BOOLEAN : inOrder = (c \notin rewound)
      OBVIOUS
    <3>3. StreamFits(n, s, id, sent, mark, due, inOrder)
      BY <2>1, <2>5, <2>8, <3>1, <3>a DEF BrokerInv, Streams
    <3>4. StreamFits(n, u, s.lastSeen, sent, top, due, inOrder)
      BY <2>2, <2>3, <2>4, <3>2, <3>3, MarkerFits
    <3> QED
      BY <1>0, <2>1, <2>5, <3>2, <3>4, <3>a DEF BrokerShape, Streams
  <2> QED
    BY <2>5, <2>6, <2>7, <2>8, <1>0, ClientMoves DEF BrokerShape
<1>4. ASSUME NEW c \in Client, YieldEvent(c)
      PROVE  BrokerInv'
  <2>1. PICK s \in Subscriptions, id \in Nat, sent \in SUBSET Nat, mark \in Nat, n \in Nat :
          /\ s = subscriber[c] /\ id = remembered[c] /\ sent = received[c] /\ mark = toldUpTo[c]
          /\ n = Len(published)
    BY <1>0, ClientIs
  <2>2. PICK u : u = [s EXCEPT !.queue = Tail(@)]
    OBVIOUS
  <2>3. s.open /\ ~s.overflowed /\ s.queue # <<>> /\ s.queue \in Seq(Nat)
    BY <1>4, <2>1 DEF YieldEvent, Subscriptions
  <2>4. PICK h \in Nat : h = Head(s.queue)
    BY <2>3
  <2>5. Tail(s.queue) \in Seq(Nat)
    BY <2>3
  <2>6. u \in Subscriptions /\ u.open = s.open
    BY <2>2, <2>5 DEF Subscriptions
  <2>7. /\ subscriber' = [subscriber EXCEPT ![c] = u]
        /\ remembered' = [remembered EXCEPT ![c] = h]
        /\ received' = [received EXCEPT ![c] = sent \cup {h}]
        /\ UNCHANGED <<feeds, published, ring, firstEvent, toldUpTo, unresumed, rewound>>
    BY <1>4, <2>1, <2>2, <2>4 DEF YieldEvent
  <2>8. BrokerShape'
    BY <1>0, <2>6, <2>7 DEF BrokerShape
  <2>9. Newcomer(c)'
    BY <1>0, <2>1, <2>3, <2>7 DEF BrokerInv, BrokerShape, Newcomer
  <2>10. ASSUME c \notin unresumed' PROVE Streams(c)'
    <3>1. PICK due : due = Expected(c)
      OBVIOUS
    <3>2. due \in SUBSET Nat /\ Expected(c)' = due
      BY <2>7, <3>1 DEF Expected, Matches, TypesOf
    <3>a. PICK inOrder \in BOOLEAN : inOrder = (c \notin rewound)
      OBVIOUS
    <3>3. StreamFits(n, s, id, sent, mark, due, inOrder)
      BY <2>1, <2>7, <2>10, <3>1, <3>a DEF BrokerInv, Streams
    <3>4. StreamFits(n, u, h, sent \cup {h}, mark, due, inOrder)
      <4>1. StreamFits(n, u, Head(s.queue), sent \cup {Head(s.queue)}, mark, due, inOrder)
        BY <2>2, <2>3, <3>2, <3>3, EventFits, ZenonT(60)
      <4> QED
        BY <2>4, <4>1
    <3> QED
      BY <1>0, <2>1, <2>7, <3>2, <3>4, <3>a DEF BrokerShape, Streams
  <2> QED
    BY <2>7, <2>8, <2>9, <2>10, <1>0, ClientMoves DEF BrokerShape
<1>5. ASSUME NEW c \in Client, AwaitEvent(c)
      PROVE  BrokerInv'
  <2>1. PICK s \in Subscriptions : s = subscriber[c]
    BY <1>0 DEF BrokerShape
  <2>2. PICK u \in Subscriptions :
          /\ subscriber' = [subscriber EXCEPT ![c] = u]
          /\ u.open = s.open /\ u.queue = s.queue /\ u.overflowed = s.overflowed
          /\ u.lastSeen = s.lastSeen
    <3>1. PICK u : u = [s EXCEPT !.waiting = TRUE]
      OBVIOUS
    <3>2. subscriber' = [subscriber EXCEPT ![c] = u]
      BY <1>5, <2>1, <3>1 DEF AwaitEvent
    <3>3. /\ u \in Subscriptions
          /\ u.open = s.open /\ u.queue = s.queue /\ u.overflowed = s.overflowed
          /\ u.lastSeen = s.lastSeen
      BY <3>1 DEF Subscriptions
    <3> QED
      BY <3>2, <3>3
  <2>3. UNCHANGED <<published, ring, clientVars>>
    BY <1>5 DEF AwaitEvent
  <2>4. BrokerShape'
    BY <1>0, <2>2, <2>3 DEF BrokerShape, clientVars
  <2>5. Newcomer(c)'
    BY <1>0, <2>1, <2>2, <2>3 DEF BrokerInv, BrokerShape, Newcomer, clientVars
  <2>6. ASSUME c \notin unresumed' PROVE Streams(c)'
    <3>1. Expected(c)' = Expected(c)
      BY <2>3 DEF Expected, Matches, TypesOf, clientVars
    <3>2. subscriber'[c] = u
      BY <1>0, <2>2 DEF BrokerShape
    <3>3. Streams(c)
      BY <2>3, <2>6 DEF BrokerInv, clientVars
    <3> QED
      BY <2>1, <2>2, <2>3, <3>1, <3>2, <3>3 DEF Streams, StreamFits, Pending, clientVars
  <2> QED
    BY <2>2, <2>3, <2>4, <2>5, <2>6, <1>0, ClientMoves DEF BrokerShape, clientVars
<1>6. ASSUME NEW c \in Client, Disconnect(c)
      PROVE  BrokerInv'
  <2>1. /\ subscriber' = [subscriber EXCEPT ![c] = NotSubscribed]
        /\ UNCHANGED <<published, ring, clientVars>>
    BY <1>6 DEF Disconnect
  <2>2. NotSubscribed \in Subscriptions
    BY DEF NotSubscribed, Subscriptions
  <2>3. BrokerShape' /\ subscriber'[c] = NotSubscribed
    BY <1>0, <2>1, <2>2 DEF BrokerShape, clientVars
  <2>4. Newcomer(c)' /\ (c \notin unresumed' => Streams(c)')
    BY <2>1, <2>3, ClosedFits DEF clientVars
  <2> QED
    BY <2>1, <2>3, <2>4, <1>0, ClientMoves DEF BrokerShape, clientVars
<1>7. CASE RestartServer
  <2>1. /\ subscriber' = [c \in Client |-> NotSubscribed] /\ ring' = <<>>
        /\ UNCHANGED <<published, clientVars>>
    BY <1>7 DEF RestartServer
  <2>2. NotSubscribed \in Subscriptions
    BY DEF NotSubscribed, Subscriptions
  <2>3. BrokerShape'
    BY <1>0, <2>1, <2>2 DEF BrokerShape, clientVars
  <2>4. RingFits'
    BY <1>0, <2>1 DEF BrokerShape, RingFits
  <2>5. ASSUME NEW c \in Client PROVE Newcomer(c)' /\ (c \notin unresumed' => Streams(c)')
    BY <2>1, ClosedFits DEF clientVars
  <2> QED
    BY <2>3, <2>4, <2>5 DEF BrokerInv
<1> QED
  BY <1>1, <1>2, <1>3, <1>4, <1>5, <1>6, <1>7, PublishEventFits DEF BrokerNext, Iterate

\* Nothing older than what a client would resume from is missing without a word.
THEOREM LossesAreTold == BrokerInit /\ [][BrokerNext]_brokerVars => []LossIsTold
<1>1. BrokerInv => LossIsTold
  BY DEF BrokerInv, Streams, StreamFits, NoneMissed, LossIsTold
<1> QED
  BY <1>1, BrokerInitFits, BrokerStepFits, PTL

\* No publication comes late or twice to a client whose ids the ring holds once.
THEOREM StreamsAreInOrder == BrokerInit /\ [][BrokerNext]_brokerVars => []InOrder
<1>1. BrokerInv => InOrder
  BY DEF BrokerInv, Streams, StreamFits, Climbs, Above, InOrder, ToSet
<1> QED
  BY <1>1, BrokerInitFits, BrokerStepFits, PTL

-----------------------------------------------------------------------------
(* Lists: a page is cut from rows above the cursor.                        *)

\* What a list keeps of a sequence is in it, and passes.
LEMMA FilteredPass ==
  ASSUME NEW A, NEW s \in Seq(A), NEW places \in SUBSET DOMAIN s
  PROVE  /\ Filtered(s, places) \in Seq(A)
         /\ \A i \in DOMAIN Filtered(s, places) : \E j \in places : Filtered(s, places)[i] = s[j]
<1>1. /\ Filtered(s, places) \in Seq(A)
      /\ Len(Filtered(s, places)) = Cardinality(places)
      /\ Sorts(Ascending(places), places)
      /\ \A i \in 1..Cardinality(places) : Filtered(s, places)[i] = s[Ascending(places)[i]]
  BY FilteredKeeps
<1>2. DOMAIN Filtered(s, places) = 1..Cardinality(places)
  BY <1>1
<1>3. \A i \in 1..Cardinality(places) : Ascending(places)[i] \in places
  BY <1>1 DEF Sorts
<1> QED
  BY <1>1, <1>2, <1>3

\* The first rows of a list are rows of it, and there are some if there were any.
LEMMA FirstRows ==
  ASSUME NEW A, NEW s \in Seq(A), NEW n \in Nat \ {0}
  PROVE  /\ FirstOf(s, n) \in Seq(A) /\ Len(FirstOf(s, n)) <= n
         /\ \A i \in DOMAIN FirstOf(s, n) : i \in DOMAIN s /\ FirstOf(s, n)[i] = s[i]
         /\ FirstOf(s, n) # <<>> => Last(FirstOf(s, n)) = s[Len(FirstOf(s, n))]
<1>1. CASE Len(s) > n
  <2>1. /\ SubSeq(s, 1, n) \in Seq(A) /\ Len(SubSeq(s, 1, n)) = n
        /\ \A i \in 1..n : SubSeq(s, 1, n)[i] = s[i] /\ i \in DOMAIN s
    BY <1>1
  <2> QED
    BY <1>1, <2>1 DEF FirstOf, Last
<1>2. CASE ~(Len(s) > n)
  BY <1>2 DEF FirstOf, Last
<1> QED
  BY <1>1, <1>2

\* Whatever rows there are: a page of balances holds rows above the cursor only.
LEMMA BalancesAbove ==
  ASSUME NEW cursor \in Nat
  PROVE  /\ BalancesPage(cursor).rows \in Seq(Nat)
         /\ BalancesPage(cursor).hasMore = (Len(BalancesPage(cursor).rows) > PageLimit)
         /\ \A i \in DOMAIN BalancesPage(cursor).rows : BalancesPage(cursor).rows[i] > cursor
<1> DEFINE found == {i \in DOMAIN SqlOrder : SqlOrder[i] \in balances}
           fetched == FirstPlaces(found, PageLimit + 1)
           places == FirstPlaces(After(fetched, cursor), PageLimit)
<1>1. SqlOrder \in Seq(Nat)
  BY ListingAssumption
<1>2. fetched \in SUBSET DOMAIN SqlOrder
  BY DEF FirstPlaces
<1>3. places \in SUBSET DOMAIN SqlOrder /\ \A i \in places : SqlOrder[i] > cursor
  BY <1>2 DEF FirstPlaces, After
<1>4. BalancesPage(cursor) =
        [rows |-> Filtered(SqlOrder, places), hasMore |-> Len(Filtered(SqlOrder, places)) > PageLimit,
         refused |-> FALSE]
  BY DEF BalancesPage
<1> HIDE DEF found, fetched, places
<1>5. PICK rows : rows = Filtered(SqlOrder, places)
  OBVIOUS
<1>6. rows \in Seq(Nat) /\ \A i \in DOMAIN rows : \E j \in places : rows[i] = SqlOrder[j]
  BY <1>1, <1>3, <1>5, FilteredPass
<1>7. \A i \in DOMAIN rows : rows[i] > cursor
  BY <1>3, <1>6
<1>8. BalancesPage(cursor).rows = rows /\ BalancesPage(cursor).hasMore = (Len(rows) > PageLimit)
  BY <1>4, <1>5
<1> QED
  BY <1>6, <1>7, <1>8

\* Accounts are numbered from 1, the newest first.
LEMMA AccountsAbove ==
  ASSUME NEW cursor \in Nat, accounts \in Nat
  PROVE  /\ AccountsPage(cursor).rows \in Seq(Nat \ {0})
         /\ AccountsPage(cursor).hasMore => AccountsPage(cursor).rows # <<>>
         /\ ~AccountsPage(cursor).refused => cursor = 0
<1> DEFINE all == [i \in 1..accounts |-> accounts + 1 - i]
<1>1. PageLimit \in Nat \ {0}
  BY ListingAssumption
<1>2. all \in Seq(Nat \ {0}) /\ Len(all) = accounts
  <2>1. all \in [1..accounts -> Nat \ {0}]
    OBVIOUS
  <2> HIDE DEF all
  <2> QED
    BY <2>1
<1> HIDE DEF all
<1>3. FirstOf(all, PageLimit) \in Seq(Nat \ {0})
  BY <1>1, <1>2, FirstRows
<1>4. ASSUME accounts > PageLimit PROVE FirstOf(all, PageLimit) # <<>>
  <2>1. FirstOf(all, PageLimit) = SubSeq(all, 1, PageLimit)
    BY <1>2, <1>4 DEF FirstOf
  <2>2. Len(SubSeq(all, 1, PageLimit)) = PageLimit
    BY <1>1, <1>2, <1>4
  <2>3. Len(FirstOf(all, PageLimit)) # 0
    BY <1>1, <2>1, <2>2
  <2> SUFFICES ASSUME FirstOf(all, PageLimit) = <<>> PROVE FALSE
    OBVIOUS
  <2>4. Len(<<>>) = 0
    OBVIOUS
  <2> QED
    BY ONLY <2>3, <2>4, FirstOf(all, PageLimit) = <<>>
<1>5. /\ AccountsPage(cursor).rows = FirstOf(all, PageLimit)
      /\ AccountsPage(cursor).hasMore = (accounts > PageLimit)
      /\ AccountsPage(cursor).refused = (cursor # 0)
  BY DEF AccountsPage, all
<1> QED
  BY <1>3, <1>4, <1>5

\* A walk's cursor is a number, and so is that of accounts.
ListingInv ==
  /\ accounts \in Nat
  /\ walk \in [of : {"balances", "accounts"}, by : {"sdk", "hand"}, cursor : Nat,
               state : {"none", "walking", "ended", "refused"}]

\* The next cursor is a number above this one.
LEMMA PageClimbs ==
  ASSUME ListingInv, ~Page.refused, Goes(Page)
  PROVE  Last(Page.rows) \in Nat /\ Last(Page.rows) > walk.cursor
<1>0. walk.cursor \in Nat /\ walk.of \in {"balances", "accounts"}
  BY DEF ListingInv
<1>1. CASE walk.of = "balances"
  <2>1. Page = BalancesPage(walk.cursor)
    BY <1>1 DEF Page
  <2>2. PICK rows : /\ rows = Page.rows /\ rows \in Seq(Nat)
                    /\ \A i \in DOMAIN rows : rows[i] > walk.cursor
    BY <1>0, <2>1, BalancesAbove
  <2>3. Page.hasMore = (Len(rows) > PageLimit)
    BY <1>0, <2>1, <2>2, BalancesAbove
  <2>4. PageLimit \in Nat
    BY ListingAssumption
  <2>5. CASE rows = <<>>
    <3>1. Len(rows) = 0
      BY <2>5
    <3>2. ~(Len(rows) > PageLimit)
      BY <2>4, <3>1
    <3>3. ~Page.hasMore
      BY <2>3, <3>2, Zenon
    <3> QED
      BY <2>2, <2>5, <3>3, Goes(Page) DEF Goes
  <2>6. rows # <<>> => Len(rows) \in DOMAIN rows
    BY <2>2
  <2>7. Last(rows) = rows[Len(rows)]
    BY DEF Last
  <2> QED
    BY <2>2, <2>5, <2>6, <2>7
<1>2. CASE walk.of = "accounts"
  <2>1. Page = AccountsPage(walk.cursor)
    BY <1>2 DEF Page
  <2>2. /\ Page.rows \in Seq(Nat \ {0})
        /\ Page.hasMore => Page.rows # <<>>
        /\ walk.cursor = 0
    BY <1>0, <2>1, AccountsAbove DEF ListingInv
  <2>3. PICK rows : rows = Page.rows /\ rows \in Seq(Nat \ {0}) /\ rows # <<>>
    BY <2>2 DEF Goes
  <2>4. Last(rows) = rows[Len(rows)] /\ Len(rows) \in DOMAIN rows
    BY <2>3 DEF Last
  <2>5. rows[Len(rows)] \in Nat \ {0}
    BY <2>3, <2>4
  <2> QED
    BY <2>2, <2>3, <2>4, <2>5
<1> QED
  BY <1>0, <1>1, <1>2

\* Reading goes on only upwards: whatever rows are added while a list is read, the
\* last row of a page that is followed by another lies above the cursor (applyCursor,
\* autoPagingIter), so one walk asks at most once for each row there can be.
THEOREM PagesAreAbove == ListingInit /\ [][ListingNext]_listingVars => []PagesClimb
<1>1. ListingInit => ListingInv
  BY DEF ListingInit, ListingInv, NoWalk
<1>2. ListingInv /\ [ListingNext]_listingVars => ListingInv'
  <2> SUFFICES ASSUME ListingInv, [ListingNext]_listingVars PROVE ListingInv'
    OBVIOUS
  <2> USE DEF ListingInv
  <2>1. CASE UNCHANGED listingVars
    BY <2>1 DEF listingVars
  <2>2. ASSUME NEW id \in BalanceIds, AddBalance(id) PROVE ListingInv'
    BY <2>2 DEF AddBalance
  <2>3. CASE CreateAccount
    BY <2>3 DEF CreateAccount
  <2>4. ASSUME NEW of \in {"balances", "accounts"}, NEW by \in {"sdk", "hand"}, StartWalk(of, by)
        PROVE  ListingInv'
    BY <2>4 DEF StartWalk
  <2>5. CASE LoadPage
    <3>1. Goes(Page) /\ ~Page.refused => Last(Page.rows) \in Nat
      BY PageClimbs
    <3> QED
      BY <2>5, <3>1 DEF LoadPage
  <2>6. CASE RefusePage
    BY <2>6 DEF RefusePage
  <2> QED
    BY <2>1, <2>2, <2>3, <2>4, <2>5, <2>6 DEF ListingNext
<1>3. ListingInv => PagesClimb
  BY PageClimbs DEF PagesClimb
<1> QED
  BY <1>1, <1>2, <1>3, PTL
=============================================================================
