------------------------------ MODULE IntentApi ------------------------------
(***************************************************************************)
(* A mutating POST of the API: the idempotency middleware around a handler *)
(* that enqueues an intent, against the idempotency_keys and operations    *)
(* tables (the database mode; the in-memory mode is for tests).            *)
(*                                                                         *)
(* Every HTTP request is a process of its own, in whichever API server: a  *)
(* client's retry is another request with the same key.  Each of its       *)
(* database calls is a step and can fail: with its transaction rolled      *)
(* back, or committed with the acknowledgement lost.  The server can die   *)
(* between any two steps.                                                  *)
(*                                                                         *)
(* The claim transaction reads and writes one row it has locked, so it is  *)
(* one step after the advisory lock was taken.  locked_until is written    *)
(* and never read, and nothing deletes expired rows; both are left out.    *)
(* An operation is named by the request that created it.                   *)
(***************************************************************************)
EXTENDS Naturals, FiniteSets

CONSTANTS
  Request,         \* HTTP requests
  Scope,           \* a tenant with an Idempotency-Key: the primary key
  LockOf,          \* Scope -> its advisory lock, the hash of the key alone
  Body,            \* canonical request hashes
  NoRequest        \* no operation, no request

ASSUME ApiAssumption ==
  /\ NoRequest \notin Request
  /\ LockOf \in [Scope -> {LockOf[s] : s \in Scope}]

Lock == {LockOf[s] : s \in Scope}

VARIABLES
  call,            \* what each request asked for
  pc,              \* where each request is
  holder,          \* Lock -> the request that holds the advisory lock
  row,             \* idempotency_keys
  operations,      \* the requests that created an operation
  answer,          \* what each request was answered
  troubled         \* history: requests that saw a call fail after their commit

apiVars == <<call, pc, holder, row, operations, answer, troubled>>

NoRow == [status |-> "absent", body |-> NoRequest, operation |-> NoRequest, response |-> NoRequest]

Rows ==
  [status : {"in_progress", "completed"}, body : Body,
   operation : Request \cup {NoRequest}, response : Request \cup {NoRequest}] \cup {NoRow}

NoAnswer == [kind |-> "none", operation |-> NoRequest]

Answers ==
  [kind : {"none", "stored", "processing", "conflict", "ok", "error"},
   operation : Request \cup {NoRequest}]

\* Having claimed the key, a request is the owner of its row.
OwnerSteps == {"handler", "send", "undo", "release"}

Steps == {"new", "lock", "claim", "reply", "done"} \cup OwnerSteps

\* In particular, a row has one of the statuses its table allows.
ApiTypeOK ==
  /\ call \in [Request -> [scope : Scope, body : Body]]
  /\ pc \in [Request -> Steps]
  /\ holder \in [Lock -> Request \cup {NoRequest}]
  /\ row \in [Scope -> Rows]
  /\ operations \subseteq Request
  /\ answer \in [Request -> Answers]
  /\ troubled \subseteq Request

ScopeOf(a) == call[a].scope

RowOf(a) == row[ScopeOf(a)]

Goto(a, step) == pc' = [pc EXCEPT ![a] = step]

Reply(a, kind, op) ==
  /\ answer' = [answer EXCEPT ![a] = [kind |-> kind, operation |-> op]]
  /\ Goto(a, "done")

-----------------------------------------------------------------------------
(* preHandler: IdempotencyStore.claim.                                     *)

Receive(a) ==
  /\ pc[a] = "new"
  /\ Goto(a, "lock")
  /\ UNCHANGED <<call, holder, row, operations, answer, troubled>>

\* pg_try_advisory_xact_lock; without it the request is told "processing".
TryLock(a) ==
  LET l == LockOf[ScopeOf(a)] IN
  /\ pc[a] = "lock"
  /\ \/ /\ holder[l] = NoRequest
        /\ holder' = [holder EXCEPT ![l] = a]
        /\ Goto(a, "claim")
        /\ UNCHANGED answer
     \/ /\ holder[l] # NoRequest
        /\ Reply(a, "processing", NoRequest)
        /\ UNCHANGED holder
  /\ UNCHANGED <<call, row, operations, troubled>>

Unlock(a) == holder' = [l \in Lock |-> IF holder[l] = a THEN NoRequest ELSE holder[l]]

\* Faulty: the body is not compared.
SameBodyIgnored(a) == RowOf(a) # NoRow

SameBody(a) == RowOf(a).body = call[a].body

\* Faulty: a row whose operation is not bound yet counts as abandoned.
UnclaimedOrUnbound(a) == RowOf(a).operation = NoRequest

Unclaimed(a) == RowOf(a) = NoRow

Inserted(a) ==
  row' = [row EXCEPT ![ScopeOf(a)] =
    [status |-> "in_progress", body |-> call[a].body,
     operation |-> NoRequest, response |-> NoRequest]]

ClaimNew(a) ==
  /\ Unclaimed(a)
  /\ Inserted(a)
  /\ Goto(a, "handler")
  /\ UNCHANGED answer

\* The transaction is rolled back, or its commit is not acknowledged.
ClaimFails(a) ==
  /\ Reply(a, "error", NoRequest)
  /\ \/ UNCHANGED row
     \/ Unclaimed(a) /\ Inserted(a)

Conflict(a) ==
  /\ ~Unclaimed(a)
  /\ ~SameBody(a)
  /\ Reply(a, "conflict", NoRequest)
  /\ UNCHANGED row

Replay(a) ==
  /\ ~Unclaimed(a)
  /\ SameBody(a)
  /\ RowOf(a).status = "completed"
  /\ Reply(a, "stored", RowOf(a).response)
  /\ UNCHANGED row

StillInProgress(a) ==
  /\ ~Unclaimed(a)
  /\ SameBody(a)
  /\ RowOf(a).status = "in_progress"
  /\ Reply(a, "processing", RowOf(a).operation)
  /\ UNCHANGED row

\* The commit, or the rollback after an error, gives the advisory lock back.
Claim(a) ==
  /\ pc[a] = "claim"
  /\ Unlock(a)
  /\ \/ ClaimNew(a)
     \/ Conflict(a)
     \/ Replay(a)
     \/ StillInProgress(a)
     \/ ClaimFails(a)
  /\ UNCHANGED <<call, operations, troubled>>

-----------------------------------------------------------------------------
(* The handler: enqueueIntent in one transaction.                          *)

\* bindClaimToOperation, and complete, are updates of a row that may not exist.
Update(s, r) == row' = [row EXCEPT ![s] = IF @ = NoRow THEN NoRow ELSE r]

Committed(a) ==
  /\ operations' = operations \cup {a}
  /\ Update(ScopeOf(a), [RowOf(a) EXCEPT !.operation = a])

Enqueue(a) ==
  /\ pc[a] = "handler"
  /\ Committed(a)
  /\ Goto(a, "send")
  /\ UNCHANGED <<call, holder, answer, troubled>>

\* The body does not parse, or the transaction is rolled back.
Throw(a) ==
  /\ pc[a] = "handler"
  /\ Goto(a, "release")
  /\ UNCHANGED <<call, holder, row, operations, answer, troubled>>

\* The commit is not acknowledged, or presenting the intent fails after it.
ThrowAfterCommit(a) ==
  /\ pc[a] = "handler"
  /\ Committed(a)
  /\ troubled' = troubled \cup {a}
  /\ Goto(a, "release")
  /\ UNCHANGED <<call, holder, answer>>

-----------------------------------------------------------------------------
(* onSend and onError.                                                     *)

Completed(a) ==
  Update(ScopeOf(a), [RowOf(a) EXCEPT !.status = "completed", !.response = a])

Complete(a) ==
  /\ pc[a] = "send"
  /\ Completed(a)
  /\ Goto(a, "reply")
  /\ UNCHANGED <<call, holder, operations, answer, troubled>>

\* complete throws, whether or not the row was updated.
CompleteFails(a) ==
  /\ pc[a] = "send"
  /\ Completed(a) \/ UNCHANGED row
  /\ troubled' = troubled \cup {a}
  /\ Goto(a, "undo")
  /\ UNCHANGED <<call, holder, operations, answer>>

\* Faulty: deletes a completed row as well.
DeletedAlways(a) == row' = [row EXCEPT ![ScopeOf(a)] = NoRow]

\* delete ... where status <> 'completed', whoever claimed the row.
Deleted(a) ==
  row' = [row EXCEPT ![ScopeOf(a)] = IF @.status = "completed" THEN @ ELSE NoRow]

\* onSend's catch: the answer of the handler is sent all the same.
Undo(a) ==
  /\ pc[a] = "undo"
  /\ \/ Deleted(a) /\ Goto(a, "reply") /\ UNCHANGED answer
     \/ Reply(a, "error", NoRequest) /\ (Deleted(a) \/ UNCHANGED row)
  /\ UNCHANGED <<call, holder, operations, troubled>>

Answered(a) ==
  /\ pc[a] = "reply"
  /\ Reply(a, "ok", a)
  /\ UNCHANGED <<call, holder, row, operations, troubled>>

\* onError; a release that fails is an error as well.
Release(a) ==
  /\ pc[a] = "release"
  /\ Deleted(a) \/ UNCHANGED row
  /\ Reply(a, "error", NoRequest)
  /\ UNCHANGED <<call, holder, operations, troubled>>

\* The server dies: the request's open transaction is rolled back, and the
\* client sees its connection break.
Crash(a) ==
  /\ pc[a] \notin {"new", "done"}
  /\ Unlock(a)
  /\ Reply(a, "error", NoRequest)
  /\ UNCHANGED <<call, row, operations, troubled>>

-----------------------------------------------------------------------------
ApiInit ==
  /\ call \in [Request -> [scope : Scope, body : Body]]
  /\ pc = [a \in Request |-> "new"]
  /\ holder = [l \in Lock |-> NoRequest]
  /\ row = [s \in Scope |-> NoRow]
  /\ operations = {}
  /\ answer = [a \in Request |-> NoAnswer]
  /\ troubled = {}

ApiNext ==
  \E a \in Request :
    \/ Receive(a) \/ TryLock(a) \/ Claim(a)
    \/ Enqueue(a) \/ Throw(a) \/ ThrowAfterCommit(a)
    \/ Complete(a) \/ CompleteFails(a) \/ Undo(a) \/ Answered(a) \/ Release(a)
    \/ Crash(a)

ApiSpec == ApiInit /\ [][ApiNext]_apiVars

-----------------------------------------------------------------------------
\* The request is between its claim and the end of the claim.
Owner(a) == pc[a] \in OwnerSteps

\* Of all requests with one tenant and key, through retries, failures, releases
\* and crashes, at most one runs the handler at a time, and while it has not
\* completed, the row it claimed is there, with its body: no release, which
\* deletes whatever row the key has, ever deletes another request's claim.
OneOwner ==
  \A a \in Request :
    Owner(a) =>
      /\ RowOf(a) # NoRow
      /\ RowOf(a).body = call[a].body
      /\ \A b \in Request : Owner(b) /\ ScopeOf(b) = ScopeOf(a) => b = a

\* A stored answer is given only to a request with the same tenant, key and
\* body as the request that earned it, and the operation in it exists.
ReplayIsFaithful ==
  \A a \in Request :
    answer[a].kind = "stored" =>
      /\ answer[a].operation \in operations
      /\ call[answer[a].operation] = call[a]

\* A second operation for a key is created only after a request that had
\* committed the first saw a later call fail: without such a failure, crashes,
\* broken connections and races never duplicate an operation.
DuplicatesAreTroubled ==
  \A a, b \in operations \ troubled : ScopeOf(a) = ScopeOf(b) => a = b

\* What was stored for replay stays as it is: neither a late completion nor a
\* release that follows a lost acknowledgement touches it.
CompletedIsFinal ==
  [][\A s \in Scope : row[s].status = "completed" => row'[s] = row[s]]_apiVars

\* Phase_03_DB_Idempotency.md: a retry "must not create a new operation for the
\* same idempotent mutation".
OneOperationPerMutation == \A a, b \in operations : call[a] = call[b] => a = b

=============================================================================
