---------------------------- MODULE CommandQueue ----------------------------
(***************************************************************************)
(* The path of a command from the API to the ledger: the rows that         *)
(* enqueueIntent writes, the ledger-command workers that claim and submit  *)
(* them, and, external, the participant that executes them.                *)
(*                                                                         *)
(* A worker's every SQL statement outside claimPending is a transaction of *)
(* its own, so another worker, a crash or the ledger can come between any  *)
(* two of them.  An exception outside processClaim's try block ends the    *)
(* worker's loop and with it the process: it is a crash here.              *)
(*                                                                         *)
(* available_at is abstracted to whether it has passed: a "waiting" row has *)
(* status 'received' and an available_at in the future.  lease_token,      *)
(* leased_until and locked_until are written by a claim and never read, so *)
(* they are left out.  participant_id is 'default' on every row, so the    *)
(* per-participant limit is the limit.                                     *)
(***************************************************************************)
EXTENDS Naturals, FiniteSets, Sequences

CONSTANTS
  Request,         \* ledger_command_requests rows, as numbers in created_at order
  Worker,          \* ledger-command processes
  Limit,           \* participantConcurrency: rows claimed by one poll
  Mismatched,      \* rows whose operation stores another command_id
  Profiled,        \* rows whose command_type PackageProfileSelector knows
  MaxAttempts,     \* bound: a request is not retried beyond this many attempts
  MaxCrashes       \* bound: crashes of all workers together

ASSUME QueueAssumption ==
  /\ Request \subseteq Nat /\ IsFiniteSet(Request)
  /\ Limit \in Nat \ {0}
  /\ Mismatched \subseteq Request
  /\ Profiled \subseteq Request
  /\ MaxAttempts \in Nat \ {0}
  /\ MaxCrashes \in Nat

VARIABLES
  row,             \* ledger_command_requests.status
  op,              \* operations.status
  attempts,        \* submission ids in ledger_command_attempts, per request
  pc,              \* where each worker is
  locked,          \* rows the worker's open claim transaction has locked
  batch,           \* rows it claimed and has not finished, in order
  submission,      \* the submission id it generated for the first of them
  wire,            \* submissions the participant has not dealt with
  reply,           \* what the participant answered the worker's last call
  executed,        \* command ids the participant has executed
  effects,         \* history: how often a request's command took effect
  crashes          \* history: how many workers have crashed

tables == <<row, op, attempts>>

workers == <<pc, locked, batch, submission>>

ledger == <<wire, reply, executed, effects>>

queueVars == <<tables, workers, ledger, crashes>>

RowStatus ==
  {"absent", "received", "waiting", "claimed", "submitted", "unknown", "failed"}

OpStatus == {"absent", "received", "submitted", "unknown", "failed"}

Steps == {"idle", "selected", "take", "identify", "insert", "markOp", "markRow",
          "build", "await", "retryRow", "retryOp", "failRow", "failOp"}

Submission == 1..MaxAttempts

\* Commands as the participant gets them.  Beside command_id and submission_id they
\* hold application_id, act_as and a payload, which are left out: no attempt changes
\* them.  A field that is missing would be read as empty; none is.
Message == [request : Request, submission : Submission]

\* In particular, overlapping claims never attempt a request more often than
\* its retries were bounded to.
CommandTypeOK ==
  /\ row \in [Request -> RowStatus]
  /\ op \in [Request -> OpStatus]
  /\ attempts \in [Request -> SUBSET Submission]
  /\ pc \in [Worker -> Steps]
  /\ locked \in [Worker -> SUBSET Request]
  /\ batch \in [Worker -> Seq(Request)]
  /\ submission \in [Worker -> Submission \cup {0}]
  /\ wire \subseteq Message
  /\ reply \in [Worker -> {"none", "ok", "duplicate", "rejected"}]
  /\ effects \in [Request -> Nat]
  /\ crashes \in 0..MaxCrashes

-----------------------------------------------------------------------------
(* The API.                                                                *)

\* One transaction writes the operation and the request.  created_at is the
\* start of the transaction, so requests need not appear in that order.
EnqueueIntent(r) ==
  /\ row[r] = "absent"
  /\ row' = [row EXCEPT ![r] = "received"]
  /\ op' = [op EXCEPT ![r] = "received"]
  /\ UNCHANGED <<attempts, workers, ledger, crashes>>

\* The second that retryRequest put between now and available_at has passed.
Elapse(r) ==
  /\ row[r] = "waiting"
  /\ Cardinality(attempts[r]) < MaxAttempts
  /\ row' = [row EXCEPT ![r] = "received"]
  /\ UNCHANGED <<op, attempts, workers, ledger, crashes>>

-----------------------------------------------------------------------------
(* claimPending: one transaction, FOR UPDATE SKIP LOCKED.                  *)

\* Faulty: the rows are read without locking them.
ClaimableUnlocked(w) == {r \in Request : row[r] = "received"}

Claimable(w) ==
  {r \in Request : row[r] = "received" /\ \A v \in Worker \ {w} : r \notin locked[v]}

\* The n oldest of a set of rows.
Oldest(S, n) == {r \in S : Cardinality({q \in S : q < r}) < n}

InOrder(s) == \A i, j \in DOMAIN s : i < j => s[i] < s[j]

Goto(w, step) == pc' = [pc EXCEPT ![w] = step]

\* SELECT ... LIMIT limit * 4 FOR UPDATE SKIP LOCKED; finding nothing ends the poll.
SelectPending(w) ==
  /\ pc[w] = "idle"
  /\ Claimable(w) # {}
  /\ locked' = [locked EXCEPT ![w] = Oldest(Claimable(w), 4 * Limit)]
  /\ Goto(w, "selected")
  /\ UNCHANGED <<tables, batch, submission, ledger, crashes>>

\* Of the selected rows the first "limit" are claimed, the rest unlocked.
CommitClaim(w) ==
  LET claimed == Oldest(locked[w], Limit) IN
  /\ pc[w] = "selected"
  /\ row' = [r \in Request |-> IF r \in claimed THEN "claimed" ELSE row[r]]
  /\ \E s \in [1..Cardinality(claimed) -> claimed] :
       InOrder(s) /\ batch' = [batch EXCEPT ![w] = s]
  /\ locked' = [locked EXCEPT ![w] = {}]
  /\ Goto(w, "take")
  /\ UNCHANGED <<op, attempts, submission, ledger, crashes>>

-----------------------------------------------------------------------------
(* processClaim, one statement at a time.                                  *)

Current(w) == Head(batch[w])

\* A claim is finished: the next one, or the end of the poll.
Take(w) ==
  /\ pc[w] = "take"
  /\ Goto(w, IF batch[w] = <<>> THEN "idle" ELSE "identify")
  /\ UNCHANGED <<tables, locked, batch, submission, ledger, crashes>>

\* Faulty: leaving one claim leaves the loop over all of them.
FinishAll(w) ==
  /\ batch' = [batch EXCEPT ![w] = <<>>]
  /\ Goto(w, "take")
  /\ UNCHANGED <<locked, submission>>

Finish(w) ==
  /\ batch' = [batch EXCEPT ![w] = Tail(@)]
  /\ Goto(w, "take")
  /\ UNCHANGED <<locked, submission>>

\* SubmissionIdentity.newId: an id no attempt has.
NewId(r) == Cardinality(attempts[r]) + 1

IdentityMatches(r) == r \notin Mismatched

EnsureCommandIdentity(w) ==
  /\ pc[w] = "identify"
  /\ IF IdentityMatches(Current(w))
       THEN /\ submission' = [submission EXCEPT ![w] = NewId(Current(w))]
            /\ Goto(w, "insert")
       ELSE /\ Goto(w, "failRow")
            /\ UNCHANGED submission
  /\ UNCHANGED <<tables, locked, batch, ledger, crashes>>

\* Faulty: the attempt is not written.
InsertNothing(w) ==
  /\ pc[w] = "insert"
  /\ Goto(w, "markOp")
  /\ UNCHANGED <<tables, locked, batch, submission, ledger, crashes>>

InsertAttempt(w) ==
  /\ pc[w] = "insert"
  /\ attempts' = [attempts EXCEPT ![Current(w)] = @ \cup {submission[w]}]
  /\ Goto(w, "markOp")
  /\ UNCHANGED <<row, op, locked, batch, submission, ledger, crashes>>

\* An update of operations that fails is ignored, here and below.
UpdateOperation(r, status) ==
  \/ op' = [op EXCEPT ![r] = status]
  \/ UNCHANGED op

MarkOperationSubmitted(w) ==
  /\ pc[w] = "markOp"
  /\ UpdateOperation(Current(w), "submitted")
  /\ Goto(w, "markRow")
  /\ UNCHANGED <<row, attempts, locked, batch, submission, ledger, crashes>>

MarkRequestSubmitted(w) ==
  /\ pc[w] = "markRow"
  /\ row' = [row EXCEPT ![Current(w)] = "submitted"]
  /\ Goto(w, "build")
  /\ UNCHANGED <<op, attempts, locked, batch, submission, ledger, crashes>>

\* PackageProfileSelector.select finds a profile, by command_type; it throws otherwise.
HasProfile(r) == r \in Profiled

\* The ids of the claim and the attempt in hand, with the payload of the row.
BuildCommands(w) == [request |-> Current(w), submission |-> submission[w]]

\* A command that can be built is sent, and the worker waits without a deadline.
BuildAndSend(w) ==
  /\ pc[w] = "build"
  /\ IF HasProfile(Current(w))
       THEN /\ wire' = wire \cup {BuildCommands(w)}
            /\ reply' = [reply EXCEPT ![w] = "none"]
            /\ Goto(w, "await")
       ELSE /\ Goto(w, "retryRow")
            /\ UNCHANGED <<wire, reply>>
  /\ UNCHANGED <<tables, locked, batch, submission, executed, effects, crashes>>

\* An accepted command is left as it is: nothing marks the row completed.
Accepted(w) ==
  /\ pc[w] = "await"
  /\ reply[w] = "ok"
  /\ Finish(w)
  /\ UNCHANGED <<tables, ledger, crashes>>

\* Faulty: every other answer is final.
ThrownAsFailure(w) ==
  /\ pc[w] = "await"
  /\ reply[w] \in {"duplicate", "rejected"}
  /\ Goto(w, "failRow")
  /\ UNCHANGED <<tables, locked, batch, submission, ledger, crashes>>

\* Every other answer is thrown: a duplicate and a final rejection like an
\* outcome that is not known.
Thrown(w) ==
  /\ pc[w] = "await"
  /\ reply[w] \in {"duplicate", "rejected"}
  /\ Goto(w, "retryRow")
  /\ UNCHANGED <<tables, locked, batch, submission, ledger, crashes>>

\* The call breaks, whatever becomes of the submission.  No completion tells
\* the worker more: EmptyCompletionClient never has one.
CallBreaks(w) ==
  /\ pc[w] = "await"
  /\ reply[w] = "none"
  /\ Goto(w, "retryRow")
  /\ UNCHANGED <<tables, locked, batch, submission, ledger, crashes>>

\* Where the update fails, the fallback takes the row out of the queue.
RetryRow(w) ==
  /\ pc[w] = "retryRow"
  /\ \E s \in {"waiting", "unknown"} : row' = [row EXCEPT ![Current(w)] = s]
  /\ Goto(w, "retryOp")
  /\ UNCHANGED <<op, attempts, locked, batch, submission, ledger, crashes>>

RetryOperation(w) ==
  /\ pc[w] = "retryOp"
  /\ UpdateOperation(Current(w), "unknown")
  /\ Finish(w)
  /\ UNCHANGED <<row, attempts, ledger, crashes>>

FailRow(w) ==
  /\ pc[w] = "failRow"
  /\ row' = [row EXCEPT ![Current(w)] = "failed"]
  /\ Goto(w, "failOp")
  /\ UNCHANGED <<op, attempts, locked, batch, submission, ledger, crashes>>

FailOperation(w) ==
  /\ pc[w] = "failOp"
  /\ UpdateOperation(Current(w), "failed")
  /\ Finish(w)
  /\ UNCHANGED <<row, attempts, ledger, crashes>>

\* The process dies, between any two statements, and starts again: its open
\* transaction is rolled back and what it had in hand is forgotten.
Crash(w) ==
  /\ crashes < MaxCrashes
  /\ pc[w] # "idle"
  /\ crashes' = crashes + 1
  /\ Goto(w, "idle")
  /\ locked' = [locked EXCEPT ![w] = {}]
  /\ batch' = [batch EXCEPT ![w] = <<>>]
  /\ UNCHANGED <<tables, submission, ledger>>

-----------------------------------------------------------------------------
(* The participant, external: it executes a command id once.               *)

\* Faulty: the command id is derived from the submission as well.
CommandIdPerAttempt(m) == <<m.request, m.submission>>

\* CommandIdentity.deriveCommandId: of the operation, the same in every attempt.
CommandId(m) == m.request

\* The answer reaches the worker that still waits for this submission.
Answer(m, outcome) ==
  reply' = [w \in Worker |->
    IF /\ pc[w] = "await"
       /\ Current(w) = m.request
       /\ submission[w] = m.submission
    THEN outcome ELSE reply[w]]

Execute(m) ==
  /\ CommandId(m) \notin executed
  /\ executed' = executed \cup {CommandId(m)}
  /\ effects' = [effects EXCEPT ![m.request] = @ + 1]
  /\ Answer(m, "ok")

\* A rejection that is final, as when the command cannot be interpreted; one that may
\* be tried again is, to the worker, a call that broke.
Reject(m) ==
  /\ CommandId(m) \notin executed
  /\ Answer(m, "rejected")
  /\ UNCHANGED <<executed, effects>>

Deduplicate(m) ==
  /\ CommandId(m) \in executed
  /\ Answer(m, "duplicate")
  /\ UNCHANGED <<executed, effects>>

Lose(m) == UNCHANGED <<reply, executed, effects>>

Participant(m) ==
  /\ m \in wire
  /\ wire' = wire \ {m}
  /\ \/ Execute(m)
     \/ Reject(m)
     \/ Deduplicate(m)
     \/ Lose(m)
  /\ UNCHANGED <<tables, workers, crashes>>

-----------------------------------------------------------------------------
Work(w) ==
  \/ SelectPending(w) \/ CommitClaim(w) \/ Take(w)
  \/ EnsureCommandIdentity(w) \/ InsertAttempt(w)
  \/ MarkOperationSubmitted(w) \/ MarkRequestSubmitted(w)
  \/ BuildAndSend(w) \/ Accepted(w) \/ Thrown(w) \/ CallBreaks(w)
  \/ RetryRow(w) \/ RetryOperation(w)
  \/ FailRow(w) \/ FailOperation(w)

QueueInit ==
  /\ row = [r \in Request |-> "absent"]
  /\ op = [r \in Request |-> "absent"]
  /\ attempts = [r \in Request |-> {}]
  /\ pc = [w \in Worker |-> "idle"]
  /\ locked = [w \in Worker |-> {}]
  /\ batch = [w \in Worker |-> <<>>]
  /\ submission = [w \in Worker |-> 0]
  /\ wire = {}
  /\ reply = [w \in Worker |-> "none"]
  /\ executed = {}
  /\ effects = [r \in Request |-> 0]
  /\ crashes = 0

\* A process is what main() wires together: one poller on the database, and the gRPC
\* submitter that resolveSubmitter gives outside tests, with EmptyCompletionClient.
QueueNext ==
  \/ \E r \in Request : EnqueueIntent(r) \/ Elapse(r)
  \/ \E w \in Worker : Work(w) \/ Crash(w)
  \/ \E m \in wire : Participant(m)

\* A worker's loop never rests and time passes.  That a call which is not
\* answered breaks in the end (part of Work) is assumed of the network: the
\* worker itself sets no deadline.
QueueFairness ==
  /\ \A w \in Worker : WF_queueVars(Work(w))
  /\ \A r \in Request : WF_queueVars(Elapse(r))

QueueSpec == QueueInit /\ [][QueueNext]_queueVars /\ QueueFairness

-----------------------------------------------------------------------------
\* The worker holds r: it may still send it to the ledger or write its status.
Holds(w, r) ==
  /\ r \in {batch[w][i] : i \in DOMAIN batch[w]}
  /\ ~(r = Current(w) /\ pc[w] = "retryOp")

\* No request is ever in the hands of two workers, across claims, retries and
\* crashes: "avoid duplicate concurrent submissions".  The claim transaction
\* and the status 'claimed' alone ensure it, for the lease is never read.
OneSubmitter ==
  \A r \in Request : Cardinality({w \in Worker : Holds(w, r)}) <= 1

\* Whatever reaches the participant has its attempt in the table before, so a
\* completion can be correlated after any crash.
AttemptsRecorded == \A m \in wire : m.submission \in attempts[m.request]

\* A command that took effect, or that a submission still on its way could let take
\* effect, is never reported failed, by its row or its operation, whatever other
\* attempts were answered and whichever worker answers late.
FailedWithoutEffect ==
  \A r \in Request : "failed" \in {row[r], op[r]} =>
    effects[r] = 0 /\ \A m \in wire : m.request # r

\* Through crashes, broken calls and retries the command of a request takes
\* effect at most once, and not after the request was failed.
Once == INSTANCE CommandOnce WITH
  phase <- [r \in Request |->
    IF row[r] \in {"absent", "failed"} THEN row[r] ELSE "open"]

\* As a property of QueueSpec (claims, retries and the participant).
ImplementsCommandOnce == Once!OnceSpec

\* As long as no worker crashes and no more requests are open than one poll
\* claims, every request is attempted or failed in the end, beside requests
\* that are retried again and again (pollOnce works through all it claimed).
EventuallyAttempted ==
  \A r \in Request :
    row[r] = "received" ~> attempts[r] # {} \/ row[r] = "failed" \/ crashes > 0

\* Phase_04_Ledger_Command_Runtime.md gives a claimed request back after its
\* lease expired.
ClaimedRecovers == \A r \in Request : row[r] = "claimed" ~> row[r] # "claimed"

\* Phase_04_Ledger_Command_Runtime.md: a duplicate is treated as accepted.
DuplicateIsAccepted ==
  [][\A w \in Worker :
       pc[w] = "await" /\ reply[w] = "duplicate" => pc'[w] # "retryRow"]_queueVars

\* Phase_04_Ledger_Command_Runtime.md: a final rejection is marked as a final failure,
\* not retried.
RejectedIsFinal ==
  [][\A w \in Worker :
       pc[w] = "await" /\ reply[w] = "rejected" => pc'[w] # "retryRow"]_queueVars

=============================================================================
