------------------------------ MODULE WorkflowTasks ------------------------------
(***************************************************************************)
(* WorkflowTask: tasks the operator starts, ends and retries on the ledger. *)
(* As for Holdings, a task is the chain of contracts its choices create.    *)
(* Only StartTask and RetryTask look at anything: a task can be completed,  *)
(* failed, canceled or retried in any status.                               *)
(***************************************************************************)
EXTENDS Naturals

CONSTANTS
  Task,
  MaxAttempts,     \* maxAttempts of all tasks
  ScheduledFor,    \* Task -> Time; None is a time that no time is before
  Time

ASSUME TasksAssumption ==
  MaxAttempts \in Nat /\ Time \subseteq Nat /\ ScheduledFor \in [Task -> Nat]

VARIABLES
  task,            \* the active contract of each task, or its absence
  started          \* history: how often StartTask succeeded

taskVars == <<task, started>>

NoTask == [status |-> "absent", attempts |-> 0]

Created == [status |-> "TaskPending", attempts |-> 0]

\* In particular the ensure clause: no choice runs into it.
TasksTypeOK ==
  /\ task \in [Task ->
       [status : {"TaskPending", "TaskRunning", "TaskCompleted", "TaskFailed", "TaskCancelled"},
        attempts : 0..MaxAttempts] \cup {NoTask}]
  /\ started \in [Task -> Nat]

Active(t) == task[t] # NoTask

CreateTask(t) ==
  /\ ~Active(t)
  /\ task' = [task EXCEPT ![t] = Created]
  /\ UNCHANGED started

\* isDue, by the time the caller passes.
StartTask(t, now) ==
  /\ task[t].status = "TaskPending"
  /\ ScheduledFor[t] <= now
  /\ task' = [task EXCEPT ![t].status = "TaskRunning"]
  /\ started' = [started EXCEPT ![t] = @ + 1]

\* CompleteTask, FailTask, CancelTask.
EndTask(t) ==
  /\ Active(t)
  /\ \E status \in {"TaskCompleted", "TaskFailed", "TaskCancelled"} :
       task' = [task EXCEPT ![t].status = status]
  /\ UNCHANGED started

\* Faulty: only the retry of a failed task is counted.
Uncounted(t) ==
  [status |-> "TaskPending",
   attempts |-> task[t].attempts + (IF task[t].status = "TaskFailed" THEN 1 ELSE 0)]

Retried(t) == [status |-> "TaskPending", attempts |-> task[t].attempts + 1]

RetryTask(t) ==
  /\ Active(t) /\ task[t].attempts < MaxAttempts
  /\ task' = [task EXCEPT ![t] = Retried(t)]
  /\ UNCHANGED started

TasksInit == task = [t \in Task |-> NoTask] /\ started = [t \in Task |-> 0]

TasksNext ==
  \E t \in Task :
    CreateTask(t) \/ EndTask(t) \/ RetryTask(t) \/ \E now \in Time : StartTask(t, now)

-----------------------------------------------------------------------------
\* However a task is ended, canceled and revived, it runs once and then once for
\* each retry that was counted, so at most maxAttempts + 1 times.
RunsAreCounted ==
  \A t \in Task :
    started[t] + (IF task[t].status = "TaskPending" THEN 1 ELSE 0) <= task[t].attempts + 1

=============================================================================
