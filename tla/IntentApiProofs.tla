--------------------------- MODULE IntentApiProofs ---------------------------
(***************************************************************************)
(* Proofs about IntentApi for any number of requests, keys, tenants and    *)
(* bodies.  The argument is one inductive invariant, ApiInvariant: a       *)
(* request that claimed a key owns the row alone until it is done with it  *)
(* (OneOwner); an untroubled operation stays bound to its row for ever     *)
(* (UntroubledIsBound); the rest says what an owner's place in the handler *)
(* says of the tables.                                                     *)
(*                                                                         *)
(* At the end, about the API's event log: a row that cannot be rendered is *)
(* there because its tenant replayed an event of its mode (RowsExplained). *)
(***************************************************************************)
EXTENDS IntentApi, EventLog, TLAPS

\* Where a request is says whether it has created its operation.
OperationsByStep ==
  \A a \in Request :
    /\ pc[a] \in {"new", "lock", "claim", "handler"} => a \notin operations
    /\ pc[a] \in {"send", "undo", "reply"} => a \in operations
    /\ pc[a] \in {"undo", "release"} /\ a \in operations => a \in troubled

\* Nothing is stored for replay before the owner has sent its answer.
OwnersInProgress ==
  \A a \in Request : pc[a] \in {"handler", "send"} => RowOf(a).status = "in_progress"

\* A stored answer is that of a request for the same row and body.
StoredIsFaithful ==
  \A s \in Scope :
    row[s].status = "completed" =>
      /\ row[s].response \in operations
      /\ call[row[s].response] = [scope |-> s, body |-> row[s].body]

\* The row of an operation whose request saw no failure is bound to it, and
\* no other request owns the row.
UntroubledIsBound ==
  \A a \in operations \ troubled :
    /\ RowOf(a).operation = a
    /\ \A b \in Request : Owner(b) /\ ScopeOf(b) = ScopeOf(a) => b = a

ApiInvariant ==
  /\ ApiTypeOK
  /\ OneOwner
  /\ OperationsByStep
  /\ OwnersInProgress
  /\ StoredIsFaithful
  /\ ReplayIsFaithful
  /\ UntroubledIsBound

-----------------------------------------------------------------------------
(* The shape of a row before and after a step.                             *)

\* An absent row is told from the others by its status.
LEMMA RowShape ==
  ASSUME ApiTypeOK, NEW s \in Scope
  PROVE  /\ row[s] \in Rows
         /\ row[s] = NoRow <=> row[s].status = "absent"
         /\ row[s] # NoRow =>
              /\ row[s].status \in {"in_progress", "completed"}
              /\ row[s].body \in Body
              /\ row[s].operation \in Request \cup {NoRequest}
              /\ row[s].response \in Request \cup {NoRequest}
BY DEF ApiTypeOK, Rows, NoRow

\* A request names a tenant with a key, its advisory lock, and a body.
LEMMA TypesOfCall ==
  ASSUME ApiTypeOK, NEW a \in Request
  PROVE  /\ ScopeOf(a) \in Scope
         /\ call[a].body \in Body
         /\ LockOf[ScopeOf(a)] \in Lock
BY DEF ApiTypeOK, ScopeOf, Lock

\* No step leaves the types of the tables.
LEMMA TypesStep ==
  ASSUME ApiTypeOK, ApiNext
  PROVE  ApiTypeOK'
<1>1. PICK a \in Request :
        \/ Receive(a) \/ TryLock(a) \/ Claim(a)
        \/ Enqueue(a) \/ Throw(a) \/ ThrowAfterCommit(a)
        \/ Complete(a) \/ CompleteFails(a) \/ Undo(a) \/ Answered(a) \/ Release(a)
        \/ Crash(a)
  BY DEF ApiNext
<1> DEFINE s == ScopeOf(a)
<1>2. s \in Scope /\ call[a].body \in Body /\ LockOf[s] \in Lock
  BY TypesOfCall
<1>3. row[s] \in Rows
  BY <1>2, RowShape
<1>4. CASE Receive(a)
  BY <1>4 DEF Receive, Goto, ApiTypeOK, Steps
<1>5. CASE TryLock(a)
  <2>1. holder' \in [Lock -> Request \cup {NoRequest}]
    BY <1>2, <1>5 DEF TryLock, ApiTypeOK
  <2>2. pc' \in [Request -> Steps]
    BY <1>5 DEF TryLock, Goto, Reply, ApiTypeOK, Steps
  <2>3. answer' \in [Request -> Answers]
    BY <1>5 DEF TryLock, Reply, ApiTypeOK, Answers
  <2> QED
    BY <1>5, <2>1, <2>2, <2>3 DEF TryLock, ApiTypeOK
<1>6. CASE Claim(a)
  <2>1. holder' \in [Lock -> Request \cup {NoRequest}]
    BY <1>6 DEF Claim, Unlock, ApiTypeOK
  <2>2. row' \in [Scope -> Rows]
    BY <1>2, <1>6 DEF Claim, ClaimNew, Conflict, Replay, StillInProgress, ClaimFails,
                     Inserted, ApiTypeOK, Rows
  <2>3. pc' \in [Request -> Steps]
    BY <1>6 DEF Claim, ClaimNew, Conflict, Replay, StillInProgress, ClaimFails,
                Reply, Goto, ApiTypeOK, Steps, OwnerSteps
  <2>4. ~Unclaimed(a) => RowOf(a).operation \in Request \cup {NoRequest}
                         /\ RowOf(a).response \in Request \cup {NoRequest}
    BY <1>2, RowShape DEF Unclaimed, RowOf
  <2>5. answer' \in [Request -> Answers]
    BY <1>6, <2>4 DEF Claim, ClaimNew, Conflict, Replay, StillInProgress, ClaimFails,
                      Reply, ApiTypeOK, Answers
  <2> QED
    BY <1>6, <2>1, <2>2, <2>3, <2>5 DEF Claim, ApiTypeOK
<1>7. Committed(a) => row' \in [Scope -> Rows] /\ operations' \subseteq Request
  BY <1>2, <1>3 DEF Committed, Update, RowOf, ApiTypeOK, Rows, NoRow
<1>8. Completed(a) => row' \in [Scope -> Rows]
  <2> DEFINE r == [row[s] EXCEPT !.status = "completed", !.response = a]
  <2>1. row[s] # NoRow => r \in Rows
    BY <1>3 DEF Rows
  <2>2. NoRow \in Rows
    BY DEF Rows
  <2> QED
    BY <1>2, <2>1, <2>2 DEF Completed, Update, RowOf, ApiTypeOK
<1>9. Deleted(a) => row' \in [Scope -> Rows]
  BY <1>2, <1>3 DEF Deleted, ApiTypeOK, Rows
<1>10. CASE Enqueue(a)
  BY <1>7, <1>10 DEF Enqueue, Goto, ApiTypeOK, Steps, OwnerSteps
<1>11. CASE Throw(a)
  BY <1>11 DEF Throw, Goto, ApiTypeOK, Steps, OwnerSteps
<1>12. CASE ThrowAfterCommit(a)
  BY <1>7, <1>12 DEF ThrowAfterCommit, Goto, ApiTypeOK, Steps, OwnerSteps
<1>13. CASE Complete(a)
  BY <1>8, <1>13 DEF Complete, Goto, ApiTypeOK, Steps
<1>14. CASE CompleteFails(a)
  BY <1>8, <1>14 DEF CompleteFails, Goto, ApiTypeOK, Steps, OwnerSteps
<1>15. CASE Undo(a)
  <2>1. row' \in [Scope -> Rows]
    BY <1>9, <1>15 DEF Undo, ApiTypeOK
  <2>2. pc' \in [Request -> Steps]
    BY <1>15 DEF Undo, Goto, Reply, ApiTypeOK, Steps
  <2>3. answer' \in [Request -> Answers]
    BY <1>15 DEF Undo, Reply, ApiTypeOK, Answers
  <2> QED
    BY <1>15, <2>1, <2>2, <2>3 DEF Undo, ApiTypeOK
<1>16. CASE Answered(a)
  BY <1>16 DEF Answered, Goto, Reply, ApiTypeOK, Steps, Answers
<1>17. CASE Release(a)
  BY <1>9, <1>17 DEF Release, Goto, Reply, ApiTypeOK, Steps, Answers
<1>18. CASE Crash(a)
  BY <1>18 DEF Crash, Unlock, Goto, Reply, ApiTypeOK, Steps, Answers
<1> QED
  BY <1>1, <1>4, <1>5, <1>6, <1>10, <1>11, <1>12, <1>13, <1>14, <1>15, <1>16, <1>17, <1>18

-----------------------------------------------------------------------------
(* The steps of a request, by what they do to its row.                     *)

\* What a step of a does to the row of a.
Keeps(a)     == row' = row
Inserts(a)   == Unclaimed(a) /\ Inserted(a)
Deletes(a)   == Deleted(a)

\* What was asked, and the place and answer of every other request, is kept.
KeepsOthers(a) ==
  /\ call' = call
  /\ \A b \in Request \ {a} : pc'[b] = pc[b] /\ answer'[b] = answer[b]

\* The request has not claimed the row, and does not.
Asks(a) ==
  /\ pc[a] \in {"new", "lock", "claim"}
  /\ pc'[a] \in {"lock", "claim", "done"}
  /\ Keeps(a)
  /\ UNCHANGED <<operations, troubled>>
  /\ answer'[a].kind = "stored" =>
       \/ answer'[a] = answer[a]
       \/ /\ RowOf(a).status = "completed"
          /\ SameBody(a)
          /\ answer'[a].operation = RowOf(a).response

\* The row is inserted; when that goes unnoticed, nobody owns it.
Claims(a) ==
  /\ pc[a] = "claim"
  /\ pc'[a] \in {"handler", "done"}
  /\ Inserts(a)
  /\ UNCHANGED <<operations, troubled>>
  /\ answer'[a] = answer[a] \/ answer'[a].kind # "stored"

Handles(a) ==
  /\ pc[a] = "handler"
  /\ \/ Committed(a) /\ pc'[a] = "send" /\ troubled' = troubled
     \/ Committed(a) /\ pc'[a] = "release" /\ troubled' = troubled \cup {a}
     \/ Keeps(a) /\ pc'[a] = "release" /\ UNCHANGED <<operations, troubled>>
  /\ answer' = answer

Sends(a) ==
  /\ pc[a] = "send"
  /\ \/ Completed(a) /\ pc'[a] = "reply" /\ troubled' = troubled
     \/ Completed(a) /\ pc'[a] = "undo" /\ troubled' = troubled \cup {a}
     \/ Keeps(a) /\ pc'[a] = "undo" /\ troubled' = troubled \cup {a}
  /\ UNCHANGED <<operations, answer>>

Cleans(a) ==
  /\ pc[a] \in {"undo", "release"}
  /\ pc'[a] \in {"reply", "done"}
  /\ pc[a] = "release" => pc'[a] = "done"
  /\ Keeps(a) \/ Deletes(a)
  /\ UNCHANGED <<operations, troubled>>
  /\ answer'[a] = answer[a] \/ answer'[a].kind # "stored"

\* The request is answered, or its server dies, and the row is left as it is.
Leaves(a) ==
  /\ pc[a] \in OwnerSteps \cup {"reply"}
  /\ pc'[a] = "done"
  /\ Keeps(a)
  /\ UNCHANGED <<operations, troubled>>
  /\ answer'[a].kind # "stored"

\* Every step of ApiNext is one of these steps of one request.
LEMMA StepEffect ==
  ASSUME ApiTypeOK, ApiNext
  PROVE  \E a \in Request :
           /\ KeepsOthers(a)
           /\ \/ Asks(a) \/ Claims(a) \/ Handles(a) \/ Sends(a) \/ Cleans(a) \/ Leaves(a)
<1>1. PICK a \in Request :
        \/ Receive(a) \/ TryLock(a) \/ Claim(a)
        \/ Enqueue(a) \/ Throw(a) \/ ThrowAfterCommit(a)
        \/ Complete(a) \/ CompleteFails(a) \/ Undo(a) \/ Answered(a) \/ Release(a)
        \/ Crash(a)
  BY DEF ApiNext
<1>2. pc \in [Request -> Steps] /\ answer \in [Request -> Answers]
  BY DEF ApiTypeOK
<1>3. CASE Receive(a)
  BY <1>2, <1>3 DEF Receive, Goto, Keeps, KeepsOthers, Asks
<1>4. CASE TryLock(a)
  BY <1>2, <1>4 DEF TryLock, Goto, Reply, Keeps, KeepsOthers, Asks
<1>5. CASE Claim(a)
  BY <1>2, <1>5 DEF Claim, ClaimNew, Conflict, Replay, StillInProgress, ClaimFails,
                    Goto, Reply, Keeps, Inserts, KeepsOthers, Asks, Claims
<1>6. CASE Enqueue(a)
  BY <1>2, <1>6 DEF Enqueue, Goto, KeepsOthers, Handles
<1>7. CASE Throw(a)
  BY <1>2, <1>7 DEF Throw, Goto, Keeps, KeepsOthers, Handles
<1>8. CASE ThrowAfterCommit(a)
  BY <1>2, <1>8 DEF ThrowAfterCommit, Goto, KeepsOthers, Handles
<1>9. CASE Complete(a)
  BY <1>2, <1>9 DEF Complete, Goto, KeepsOthers, Sends
<1>10. CASE CompleteFails(a)
  BY <1>2, <1>10 DEF CompleteFails, Goto, Keeps, KeepsOthers, Sends
<1>11. CASE Undo(a)
  BY <1>2, <1>11 DEF Undo, Goto, Reply, Keeps, Deletes, KeepsOthers, Cleans
<1>12. CASE Answered(a)
  BY <1>2, <1>12 DEF Answered, Goto, Reply, Keeps, KeepsOthers, Leaves
<1>13. CASE Release(a)
  BY <1>2, <1>13 DEF Release, Goto, Reply, Keeps, Deletes, KeepsOthers, Cleans
<1>14. CASE Crash(a)
  BY <1>2, <1>14 DEF Crash, Goto, Reply, Keeps, Steps, KeepsOthers, Asks, Leaves
<1> QED
  BY <1>1, <1>3, <1>4, <1>5, <1>6, <1>7, <1>8, <1>9, <1>10, <1>11, <1>12, <1>13, <1>14

\* What the updates of a row leave in it.  They leave the other rows alone.
LEMMA RowEffect ==
  ASSUME ApiTypeOK, NEW a \in Request, NEW s \in Scope, s = ScopeOf(a)
  PROVE  /\ Inserts(a) \/ Committed(a) \/ Completed(a) \/ Deletes(a)
              => \A r \in Scope \ {s} : row'[r] = row[r]
         /\ Inserts(a) =>
              /\ row[s] = NoRow
              /\ row'[s] # NoRow
              /\ row'[s].status = "in_progress"
              /\ row'[s].body = call[a].body
         /\ Committed(a) /\ row[s] # NoRow =>
              /\ row'[s] # NoRow
              /\ row'[s].status = row[s].status
              /\ row'[s].body = row[s].body
              /\ row'[s].operation = a
              /\ row'[s].response = row[s].response
         /\ Completed(a) /\ row[s] # NoRow =>
              /\ row'[s] # NoRow
              /\ row'[s].status = "completed"
              /\ row'[s].body = row[s].body
              /\ row'[s].operation = row[s].operation
              /\ row'[s].response = a
         /\ Deletes(a) =>
              IF row[s].status = "completed" THEN row'[s] = row[s] ELSE row'[s] = NoRow
<1>1. row \in [Scope -> Rows] /\ NoRow.status = "absent"
  BY DEF ApiTypeOK, NoRow
<1>2. Inserts(a) =>
        /\ \A r \in Scope \ {s} : row'[r] = row[r]
        /\ row[s] = NoRow
        /\ row'[s].status = "in_progress"
        /\ row'[s].body = call[a].body
  BY <1>1 DEF Inserts, Inserted, Unclaimed, RowOf
<1>3. row[s] # NoRow =>
        row[s] \in [status : {"in_progress", "completed"}, body : Body,
                    operation : Request \cup {NoRequest}, response : Request \cup {NoRequest}]
  BY <1>1 DEF Rows
<1>4. ASSUME Committed(a)
      PROVE  /\ \A r \in Scope \ {s} : row'[r] = row[r]
             /\ row[s] # NoRow => row'[s] = [row[s] EXCEPT !.operation = a]
  BY <1>1, <1>4 DEF Committed, Update, RowOf
<1>5. ASSUME Completed(a)
      PROVE  /\ \A r \in Scope \ {s} : row'[r] = row[r]
             /\ row[s] # NoRow =>
                  row'[s] = [row[s] EXCEPT !.status = "completed", !.response = a]
  BY <1>1, <1>5 DEF Completed, Update, RowOf
<1>6. Deletes(a) =>
        /\ \A r \in Scope \ {s} : row'[r] = row[r]
        /\ IF row[s].status = "completed" THEN row'[s] = row[s] ELSE row'[s] = NoRow
  BY <1>1 DEF Deletes, Deleted
<1>7. Committed(a) /\ row[s] # NoRow =>
        /\ row'[s] # NoRow
        /\ row'[s].status = row[s].status
        /\ row'[s].body = row[s].body
        /\ row'[s].operation = a
        /\ row'[s].response = row[s].response
  BY <1>1, <1>3, <1>4
<1>8. Completed(a) /\ row[s] # NoRow =>
        /\ row'[s] # NoRow
        /\ row'[s].status = "completed"
        /\ row'[s].body = row[s].body
        /\ row'[s].operation = row[s].operation
        /\ row'[s].response = a
  BY <1>1, <1>3, <1>5
<1> QED
  BY <1>1, <1>2, <1>4, <1>5, <1>6, <1>7, <1>8

-----------------------------------------------------------------------------
(* ApiInvariant is inductive.                                              *)

\* One request owns a row, and its step is the only one that changes it.
LEMMA OneOwnerStep ==
  ASSUME ApiInvariant, NEW a \in Request, KeepsOthers(a),
         Asks(a) \/ Claims(a) \/ Handles(a) \/ Sends(a) \/ Cleans(a) \/ Leaves(a)
  PROVE  OneOwner'
<1> DEFINE s == ScopeOf(a)
<1>1. ApiTypeOK /\ OneOwner /\ s \in Scope
  BY TypesOfCall DEF ApiInvariant
<1>2. \A b \in Request : ScopeOf(b)' = ScopeOf(b) /\ ScopeOf(b) \in Scope
  BY TypesOfCall DEF KeepsOthers, ScopeOf, ApiInvariant
<1>3. \A b \in Request \ {a} : Owner(b)' = Owner(b)
  BY DEF KeepsOthers, Owner
<1>4. CASE Keeps(a) /\ (Owner(a)' => Owner(a))
  BY <1>1, <1>2, <1>3, <1>4 DEF OneOwner, Keeps, RowOf, KeepsOthers
<1>5. CASE Claims(a)
  <2>1. \A b \in Request : Owner(b) => ScopeOf(b) # s
    BY <1>1, <1>5, RowEffect DEF Claims, OneOwner, RowOf
  <2>2. \A b \in Request \ {a} : Owner(b) => RowOf(b)' = RowOf(b)
    BY <1>1, <1>2, <1>5, <2>1, RowEffect DEF Claims, RowOf
  <2>3. RowOf(a)' # NoRow /\ RowOf(a)'.body = call[a].body
    BY <1>1, <1>2, <1>5, RowEffect DEF Claims, RowOf
  <2> QED
    BY <1>1, <1>2, <1>3, <2>1, <2>2, <2>3 DEF OneOwner, KeepsOthers
<1>6. CASE Owner(a) /\ (Committed(a) \/ Completed(a))
  <2>1. \A b \in Request \ {a} : Owner(b) => ScopeOf(b) # s
    BY <1>1, <1>6 DEF OneOwner
  <2>2. \A b \in Request \ {a} : Owner(b) => RowOf(b)' = RowOf(b)
    BY <1>1, <1>2, <1>6, <2>1, RowEffect DEF RowOf
  <2>3. RowOf(a)' # NoRow /\ RowOf(a)'.body = call[a].body
    BY <1>1, <1>2, <1>6, RowEffect DEF RowOf, OneOwner
  <2> QED
    BY <1>1, <1>2, <1>3, <2>1, <2>2, <2>3 DEF OneOwner, KeepsOthers
<1>7. CASE Owner(a) /\ ~Owner(a)' /\ Deletes(a)
  <2>1. \A b \in Request \ {a} : Owner(b) => ScopeOf(b) # s
    BY <1>1, <1>7 DEF OneOwner
  <2>2. \A b \in Request \ {a} : Owner(b) => RowOf(b)' = RowOf(b)
    BY <1>1, <1>2, <1>7, <2>1, RowEffect DEF RowOf
  <2> QED
    BY <1>1, <1>2, <1>3, <1>7, <2>2 DEF OneOwner, KeepsOthers
<1>8. CASE Asks(a)
  BY <1>4, <1>8 DEF Asks, Owner, OwnerSteps
<1>9. CASE Handles(a)
  BY <1>4, <1>6, <1>9 DEF Handles, Owner, OwnerSteps
<1>10. CASE Sends(a)
  BY <1>4, <1>6, <1>10 DEF Sends, Owner, OwnerSteps
<1>11. CASE Cleans(a)
  BY <1>4, <1>7, <1>11 DEF Cleans, Owner, OwnerSteps
<1>12. CASE Leaves(a)
  BY <1>4, <1>12 DEF Leaves, Owner, OwnerSteps
<1> QED
  BY <1>5, <1>8, <1>9, <1>10, <1>11, <1>12

\* A step of a request leaves the rows of the other owners alone.
LEMMA OthersKeepRows ==
  ASSUME ApiTypeOK, OneOwner, NEW a \in Request, KeepsOthers(a),
         Asks(a) \/ Claims(a) \/ Handles(a) \/ Sends(a) \/ Cleans(a) \/ Leaves(a),
         NEW b \in Request \ {a}, Owner(b)
  PROVE  RowOf(b)' = RowOf(b)
<1> DEFINE s == ScopeOf(a)
<1>1. s \in Scope /\ ScopeOf(b) \in Scope /\ ScopeOf(b)' = ScopeOf(b)
  BY TypesOfCall DEF KeepsOthers, ScopeOf
<1>2. CASE Keeps(a)
  BY <1>1, <1>2 DEF Keeps, RowOf
<1>3. CASE ScopeOf(b) # s /\ (Inserts(a) \/ Committed(a) \/ Completed(a) \/ Deletes(a))
  BY <1>1, <1>3, RowEffect DEF RowOf
<1>4. Claims(a) => ScopeOf(b) # s
  BY <1>1, RowEffect DEF Claims, OneOwner, RowOf
<1>5. Owner(a) => ScopeOf(b) # s
  BY DEF OneOwner
<1> QED
  BY <1>2, <1>3, <1>4, <1>5
  DEF Asks, Claims, Handles, Sends, Cleans, Leaves, Owner, OwnerSteps

\* An operation appears in the handler's step and nowhere else.
LEMMA OperationsByStepStep ==
  ASSUME ApiInvariant, NEW a \in Request, KeepsOthers(a),
         Asks(a) \/ Claims(a) \/ Handles(a) \/ Sends(a) \/ Cleans(a) \/ Leaves(a)
  PROVE  OperationsByStep'
<1>1. OperationsByStep
  BY DEF ApiInvariant
<1>2. /\ operations \subseteq operations' /\ operations' \subseteq operations \cup {a}
      /\ troubled \subseteq troubled'
  BY DEF Asks, Claims, Handles, Sends, Cleans, Leaves, Committed
<1>3. \A b \in Request \ {a} :
        /\ pc'[b] \in {"new", "lock", "claim", "handler"} => b \notin operations'
        /\ pc'[b] \in {"send", "undo", "reply"} => b \in operations'
        /\ pc'[b] \in {"undo", "release"} /\ b \in operations' => b \in troubled'
  BY <1>1, <1>2 DEF OperationsByStep, KeepsOthers
<1>4. /\ pc'[a] \in {"new", "lock", "claim", "handler"} => a \notin operations'
      /\ pc'[a] \in {"send", "undo", "reply"} => a \in operations'
      /\ pc'[a] \in {"undo", "release"} /\ a \in operations' => a \in troubled'
  BY <1>1 DEF OperationsByStep, Asks, Claims, Handles, Sends, Cleans, Leaves, Committed
<1> QED
  BY <1>3, <1>4 DEF OperationsByStep

\* Only the owner completes its row, and it then is past the handler.
LEMMA OwnersInProgressStep ==
  ASSUME ApiInvariant, NEW a \in Request, KeepsOthers(a),
         Asks(a) \/ Claims(a) \/ Handles(a) \/ Sends(a) \/ Cleans(a) \/ Leaves(a)
  PROVE  OwnersInProgress'
<1>1. ApiTypeOK /\ OneOwner /\ OwnersInProgress
  BY DEF ApiInvariant
<1>2. ScopeOf(a) \in Scope /\ ScopeOf(a)' = ScopeOf(a)
  BY <1>1, TypesOfCall DEF KeepsOthers, ScopeOf
<1>3. ASSUME NEW b \in Request \ {a}, pc'[b] \in {"handler", "send"}
      PROVE  RowOf(b)'.status = "in_progress"
  <2>1. pc[b] \in {"handler", "send"} /\ Owner(b)
    BY <1>3 DEF KeepsOthers, Owner, OwnerSteps
  <2>2. RowOf(b)' = RowOf(b)
    BY <1>1, <2>1, OthersKeepRows
  <2> QED
    BY <1>1, <2>1, <2>2 DEF OwnersInProgress
<1>4. ASSUME pc'[a] \in {"handler", "send"}
      PROVE  RowOf(a)'.status = "in_progress"
  <2>1. CASE Claims(a)
    BY <1>1, <1>2, <2>1, RowEffect DEF Claims, RowOf
  <2>2. CASE Handles(a)
    <3>1. Committed(a) /\ Owner(a) /\ RowOf(a).status = "in_progress"
      BY <1>1, <1>4, <2>2 DEF Handles, Owner, OwnerSteps, OwnersInProgress
    <3> QED
      BY <1>1, <1>2, <3>1, RowEffect DEF OneOwner, RowOf
  <2> QED
    BY <1>4, <2>1, <2>2 DEF Asks, Sends, Cleans, Leaves
<1> QED
  BY <1>3, <1>4 DEF OwnersInProgress

\* A row is completed once, by its owner, with the owner's answer.
LEMMA CompletedByOwner ==
  ASSUME ApiInvariant, NEW a \in Request, KeepsOthers(a),
         Asks(a) \/ Claims(a) \/ Handles(a) \/ Sends(a) \/ Cleans(a) \/ Leaves(a),
         NEW s \in Scope
  PROVE  /\ row[s].status = "completed" => row'[s] = row[s]
         /\ row'[s].status = "completed" /\ row'[s] # row[s] =>
              /\ s = ScopeOf(a)
              /\ a \in operations
              /\ row'[s].response = a
              /\ row'[s].body = call[a].body
<1>1. ApiTypeOK /\ OneOwner /\ OwnersInProgress /\ OperationsByStep
  BY DEF ApiInvariant
<1>2. ScopeOf(a) \in Scope
  BY <1>1, TypesOfCall
<1>3. NoRow.status = "absent"
  BY DEF NoRow
<1>4. CASE Keeps(a)
  BY <1>4 DEF Keeps
<1>5. CASE s # ScopeOf(a) /\ (Inserts(a) \/ Committed(a) \/ Completed(a) \/ Deletes(a))
  BY <1>1, <1>2, <1>5, RowEffect
<1>6. CASE s = ScopeOf(a) /\ Inserts(a)
  BY <1>1, <1>3, <1>6, RowEffect
<1>7. CASE s = ScopeOf(a) /\ Handles(a) /\ Committed(a)
  <2>1. row[s] # NoRow /\ row[s].status = "in_progress"
    BY <1>1, <1>7 DEF Handles, OneOwner, Owner, OwnerSteps, OwnersInProgress, RowOf
  <2> QED
    BY <1>1, <1>7, <2>1, RowEffect
<1>8. CASE s = ScopeOf(a) /\ Sends(a) /\ Completed(a)
  <2>1. row[s] # NoRow /\ row[s].status = "in_progress" /\ row[s].body = call[a].body
    BY <1>1, <1>8 DEF Sends, OneOwner, Owner, OwnerSteps, OwnersInProgress, RowOf
  <2>2. a \in operations
    BY <1>1, <1>8 DEF Sends, OperationsByStep
  <2> QED
    BY <1>1, <1>8, <2>1, <2>2, RowEffect
<1>9. CASE s = ScopeOf(a) /\ Deletes(a)
  BY <1>1, <1>3, <1>9, RowEffect
<1> QED
  BY <1>4, <1>5, <1>6, <1>7, <1>8, <1>9 DEF Asks, Claims, Handles, Sends, Cleans, Leaves

\* What is stored in a row stays the answer of an operation with its body.
LEMMA StoredIsFaithfulStep ==
  ASSUME ApiInvariant, NEW a \in Request, KeepsOthers(a),
         Asks(a) \/ Claims(a) \/ Handles(a) \/ Sends(a) \/ Cleans(a) \/ Leaves(a)
  PROVE  StoredIsFaithful'
<1>1. ApiTypeOK /\ StoredIsFaithful /\ call' = call
  BY DEF ApiInvariant, KeepsOthers
<1>2. operations \subseteq operations'
  BY DEF Asks, Claims, Handles, Sends, Cleans, Leaves, Committed
<1>3. call[a] = [scope |-> ScopeOf(a), body |-> call[a].body]
  BY <1>1 DEF ApiTypeOK, ScopeOf
<1>4. ASSUME NEW s \in Scope, row'[s].status = "completed"
      PROVE  /\ row'[s].response \in operations'
             /\ call'[row'[s].response] = [scope |-> s, body |-> row'[s].body]
  <2>1. CASE row'[s] = row[s]
    BY <1>1, <1>2, <1>4, <2>1 DEF StoredIsFaithful
  <2>2. CASE row'[s] # row[s]
    BY <1>1, <1>2, <1>3, <1>4, <2>2, CompletedByOwner
  <2> QED
    BY <2>1, <2>2
<1> QED
  BY <1>4 DEF StoredIsFaithful

\* A request is given a stored answer only of a row with its body.
LEMMA ReplayIsFaithfulStep ==
  ASSUME ApiInvariant, NEW a \in Request, KeepsOthers(a),
         Asks(a) \/ Claims(a) \/ Handles(a) \/ Sends(a) \/ Cleans(a) \/ Leaves(a)
  PROVE  ReplayIsFaithful'
<1>1. ApiTypeOK /\ StoredIsFaithful /\ ReplayIsFaithful /\ call' = call
  BY DEF ApiInvariant, KeepsOthers
<1>2. operations \subseteq operations'
  BY DEF Asks, Claims, Handles, Sends, Cleans, Leaves, Committed
<1>3. \A b \in Request : answer'[b] = answer[b] /\ answer'[b].kind = "stored" =>
        answer'[b].operation \in operations' /\ call'[answer'[b].operation] = call'[b]
  BY <1>1, <1>2 DEF ReplayIsFaithful
<1>4. ASSUME answer'[a].kind = "stored", answer'[a] # answer[a]
      PROVE  answer'[a].operation \in operations' /\ call'[answer'[a].operation] = call'[a]
  <2>1. RowOf(a).status = "completed" /\ SameBody(a) /\ answer'[a].operation = RowOf(a).response
    BY <1>4 DEF Asks, Claims, Handles, Sends, Cleans, Leaves
  <2>2. call[a] = [scope |-> ScopeOf(a), body |-> RowOf(a).body] /\ ScopeOf(a) \in Scope
    BY <1>1, <2>1 DEF ApiTypeOK, ScopeOf, SameBody
  <2> QED
    BY <1>1, <1>2, <2>1, <2>2 DEF StoredIsFaithful, RowOf
<1>5. \A b \in Request \ {a} : answer'[b] = answer[b]
  BY DEF KeepsOthers
<1> QED
  BY <1>3, <1>4, <1>5 DEF ReplayIsFaithful

\* An operation stays bound to its row until a call of its request fails.
LEMMA UntroubledIsBoundStep ==
  ASSUME ApiInvariant, NEW a \in Request, KeepsOthers(a),
         Asks(a) \/ Claims(a) \/ Handles(a) \/ Sends(a) \/ Cleans(a) \/ Leaves(a)
  PROVE  UntroubledIsBound'
<1> DEFINE s == ScopeOf(a)
<1>1. ApiTypeOK /\ OneOwner /\ OperationsByStep /\ UntroubledIsBound
  BY DEF ApiInvariant
<1>2. \A b \in Request : ScopeOf(b)' = ScopeOf(b) /\ ScopeOf(b) \in Scope
  BY <1>1, TypesOfCall DEF KeepsOthers, ScopeOf
<1>3. \A b \in Request \ {a} : Owner(b)' = Owner(b)
  BY DEF KeepsOthers, Owner
<1>4. Owner(a)' => Owner(a) \/ Claims(a)
  BY DEF Asks, Handles, Sends, Cleans, Leaves, Owner, OwnerSteps
<1>5. operations' \subseteq Request
  BY <1>1 DEF Asks, Claims, Handles, Sends, Cleans, Leaves, Committed, ApiTypeOK
<1>6. ASSUME NEW b \in operations' \ troubled'
      PROVE  /\ RowOf(b)'.operation = b
             /\ \A c \in Request : Owner(c)' /\ ScopeOf(c)' = ScopeOf(b)' => c = b
  <2>1. CASE b \notin operations
    <3>1. b = a /\ Owner(a) /\ Committed(a)
      BY <1>6, <2>1 DEF Asks, Claims, Handles, Sends, Cleans, Leaves, Committed, Owner, OwnerSteps
    <3>2. RowOf(a)'.operation = a
      BY <1>1, <1>2, <3>1, RowEffect DEF OneOwner, RowOf
    <3> QED
      BY <1>1, <1>2, <1>3, <1>4, <3>1, <3>2 DEF OneOwner
  <2>2. CASE b \in operations
    <3>1. b \in operations \ troubled /\ b \in Request
      BY <1>6, <2>2, <1>1 DEF Asks, Claims, Handles, Sends, Cleans, Leaves, ApiTypeOK
    <3>2. /\ RowOf(b).operation = b
          /\ \A c \in Request : Owner(c) /\ ScopeOf(c) = ScopeOf(b) => c = b
      BY <1>1, <3>1 DEF UntroubledIsBound
    <3>3. RowOf(b) # NoRow
      BY <3>1, <3>2, ApiAssumption DEF NoRow
    <3>4. CASE ScopeOf(b) # s
      <4>1. RowOf(b)' = RowOf(b)
        BY <1>1, <1>2, <3>1, <3>4, RowEffect
        DEF Asks, Claims, Handles, Sends, Cleans, Leaves, Keeps, RowOf
      <4> QED
        BY <1>2, <1>3, <3>1, <3>2, <3>4, <4>1
    <3>5. CASE ScopeOf(b) = s
      <4>1. ~Claims(a)
        BY <1>1, <1>2, <3>3, <3>5, RowEffect DEF Claims, RowOf
      <4>2. \A c \in Request : Owner(c)' /\ ScopeOf(c)' = ScopeOf(b)' => c = b
        BY <1>2, <1>3, <1>4, <3>1, <3>2, <4>1
      <4>3. Owner(a) => a = b
        BY <3>2, <3>5
      <4>4. ~Handles(a) /\ ~Cleans(a)
        BY <1>1, <3>1, <4>3 DEF Handles, Cleans, OperationsByStep, Owner, OwnerSteps
      <4>5. Keeps(a) \/ Completed(a)
        BY <4>1, <4>4 DEF Asks, Sends, Leaves
      <4>6. RowOf(b)'.operation = b
        BY <1>1, <1>2, <3>1, <3>2, <3>3, <3>5, <4>5, RowEffect DEF Keeps, RowOf
      <4> QED
        BY <4>2, <4>6
    <3> QED
      BY <3>4, <3>5
  <2> QED
    BY <2>1, <2>2
<1> QED
  BY <1>5, <1>6 DEF UntroubledIsBound

\* The invariant holds initially.
LEMMA ApiInvariantInit == ApiInit => ApiInvariant
<1> SUFFICES ASSUME ApiInit PROVE ApiInvariant
  OBVIOUS
<1>1. ApiTypeOK
  BY DEF ApiInit, ApiTypeOK, Rows, Answers, NoAnswer, Steps, Lock
<1>2. \A a \in Request : pc[a] = "new" /\ answer[a].kind = "none"
  BY DEF ApiInit, NoAnswer
<1>3. \A s \in Scope : row[s].status = "absent"
  BY DEF ApiInit, NoRow
<1>4. operations = {}
  BY DEF ApiInit
<1> QED
  BY <1>1, <1>2, <1>3, <1>4
  DEF ApiInvariant, OneOwner, Owner, OwnerSteps, OperationsByStep, OwnersInProgress,
      StoredIsFaithful, ReplayIsFaithful, UntroubledIsBound

\* Every step keeps the invariant.
LEMMA ApiInvariantStep == ApiInvariant /\ [ApiNext]_apiVars => ApiInvariant'
<1> SUFFICES ASSUME ApiInvariant, [ApiNext]_apiVars PROVE ApiInvariant'
  OBVIOUS
<1>1. CASE ApiNext
  <2>1. ApiTypeOK'
    BY <1>1, TypesStep DEF ApiInvariant
  <2>2. PICK a \in Request :
          /\ KeepsOthers(a)
          /\ Asks(a) \/ Claims(a) \/ Handles(a) \/ Sends(a) \/ Cleans(a) \/ Leaves(a)
    BY <1>1, StepEffect DEF ApiInvariant
  <2> QED
    BY <2>1, <2>2, OneOwnerStep, OperationsByStepStep, OwnersInProgressStep,
       StoredIsFaithfulStep, ReplayIsFaithfulStep, UntroubledIsBoundStep
    DEF ApiInvariant
<1>2. CASE UNCHANGED apiVars
  BY <1>2 DEF apiVars, ApiInvariant, ApiTypeOK, OneOwner, OperationsByStep, OwnersInProgress,
              StoredIsFaithful, ReplayIsFaithful, UntroubledIsBound, Owner, RowOf, ScopeOf
<1> QED
  BY <1>1, <1>2

-----------------------------------------------------------------------------
(* The theorems.                                                           *)

\* ApiInvariant is an invariant of every behaviour of the API servers.
THEOREM ApiInvariantHolds == ApiSpec => []ApiInvariant
BY ApiInvariantInit, ApiInvariantStep, PTL DEF ApiSpec

\* The tables keep their types: a row has one of the two statuses the table
\* allows, and names requests only.
THEOREM ApiTypesHold == ApiSpec => []ApiTypeOK
<1>1. ApiInvariant => ApiTypeOK
  BY DEF ApiInvariant
<1> QED
  BY <1>1, ApiInvariantHolds, PTL

\* Of all requests with one tenant and key at most one runs the handler, and
\* the row it claimed is there until it completed.
THEOREM OneOwnerHolds == ApiSpec => []OneOwner
<1>1. ApiInvariant => OneOwner
  BY DEF ApiInvariant
<1> QED
  BY <1>1, ApiInvariantHolds, PTL

\* A stored answer is that of an operation of the same tenant, key and body.
THEOREM ReplaysAreFaithful == ApiSpec => []ReplayIsFaithful
<1>1. ApiInvariant => ReplayIsFaithful
  BY DEF ApiInvariant
<1> QED
  BY <1>1, ApiInvariantHolds, PTL

\* A key has two operations only if a request that committed one of them saw a
\* later call fail.
THEOREM UntroubledOnce == ApiSpec => []DuplicatesAreTroubled
<1>1. ApiInvariant => DuplicatesAreTroubled
  BY DEF ApiInvariant, UntroubledIsBound, DuplicatesAreTroubled, RowOf
<1> QED
  BY <1>1, ApiInvariantHolds, PTL

\* A completed row is never changed or deleted.
THEOREM CompletedStaysFinal == ApiSpec => CompletedIsFinal
<1> DEFINE Final == \A s \in Scope : row[s].status = "completed" => row'[s] = row[s]
<1>1. ApiInvariant /\ [ApiNext]_apiVars => [Final]_apiVars
  <2> SUFFICES ASSUME ApiInvariant, ApiNext PROVE Final
    OBVIOUS
  <2>1. PICK a \in Request :
          /\ KeepsOthers(a)
          /\ Asks(a) \/ Claims(a) \/ Handles(a) \/ Sends(a) \/ Cleans(a) \/ Leaves(a)
    BY StepEffect DEF ApiInvariant
  <2> QED
    BY <2>1, CompletedByOwner
<1> QED
  BY <1>1, ApiInvariantHolds, PTL DEF ApiSpec, CompletedIsFinal

-----------------------------------------------------------------------------
(* The event log.                                                          *)

\* The tenant of a POST that was not sent.
Nobody == CHOOSE t \in Tenant : TRUE

Posts ==
  [at : {"new", "replied", "refused", "failed"} \cup Waiting,
   tenant : Tenant \cup {Nobody}, event : Nat]

\* p replays an event that is there.
Replays(p) == posted[p].event \in DOMAIN eventLog /\ posted[p].tenant \in Tenant

\* A row is of a type of the registry, or was written by a POST of its tenant that
\* replays an event of its mode.
RowsExplained ==
  \A e \in DOMAIN eventLog :
    \/ eventLog[e].type \in EventTypes
    \/ \E p \in replayed : /\ posted[p].tenant = eventLog[e].tenant
                           /\ eventLog[posted[p].event].live = eventLog[e].live

EventLogInv ==
  /\ eventLog \in Seq(EventRows)
  /\ posted \in [Poster -> Posts]
  /\ replayed \subseteq Poster
  /\ \A p \in Poster : posted[p].at = "insert" \/ p \in replayed => Replays(p)
  /\ \A p \in replayed : posted[p].at # "new"
  /\ RowsExplained

\* Initially there are no rows and no POSTs.
LEMMA EventLogInitFits == EventLogInit => EventLogInv
BY DEF EventLogInit, EventLogInv, Posts, Nobody, RowsExplained, Replays

\* POST p goes on to q, and the log stays.
LEMMA PostMoves ==
  ASSUME EventLogInv, NEW p \in Poster, NEW q \in Posts, posted' = [posted EXCEPT ![p] = q],
         UNCHANGED <<eventLog, replayed>>,
         q.at = "insert" => q.event \in DOMAIN eventLog /\ q.tenant \in Tenant,
         p \in replayed => q.at # "new" /\ q.event = posted[p].event /\ q.tenant = posted[p].tenant
  PROVE  EventLogInv'
<1>1. \A r \in Poster : posted'[r] = IF r = p THEN q ELSE posted[r]
  BY DEF EventLogInv
<1>2. posted' \in [Poster -> Posts]
  BY DEF EventLogInv
<1>3. \A r \in replayed : posted'[r].event = posted[r].event /\ posted'[r].tenant = posted[r].tenant
  BY <1>1 DEF EventLogInv
<1>4. RowsExplained'
  BY <1>3 DEF EventLogInv, RowsExplained
<1>5. \A r \in Poster : posted'[r].at = "insert" \/ r \in replayed => Replays(r)'
  BY <1>1 DEF EventLogInv, Replays
<1>6. \A r \in replayed : posted'[r].at # "new"
  BY <1>1 DEF EventLogInv
<1> QED
  BY <1>2, <1>4, <1>5, <1>6 DEF EventLogInv, Posts, EventRows

\* A row is added, and POSTs go on as they ask for what they asked for.
LEMMA RowIsAdded ==
  ASSUME EventLogInv, NEW row_ \in EventRows, eventLog' = Append(eventLog, row_),
         posted' \in [Poster -> Posts], replayed' \subseteq Poster, replayed \subseteq replayed',
         \A p \in Poster : posted[p].at # "new" =>
           posted'[p].event = posted[p].event /\ posted'[p].tenant = posted[p].tenant,
         \A p \in Poster : posted'[p].at = "insert" \/ p \in replayed' =>
           posted[p].at = "insert" \/ p \in replayed,
         \A p \in replayed' : posted'[p].at # "new",
         \/ row_.type \in EventTypes
         \/ \E p \in replayed' : /\ posted[p].tenant = row_.tenant
                                 /\ eventLog[posted[p].event].live = row_.live
  PROVE  EventLogInv'
<1> DEFINE n == Len(eventLog)
<1>1. n \in Nat /\ DOMAIN eventLog = 1..n
  BY DEF EventLogInv
<1>2. /\ eventLog' \in Seq(EventRows) /\ DOMAIN eventLog' = 1..(n + 1) /\ eventLog'[n + 1] = row_
      /\ \A e \in 1..n : eventLog'[e] = eventLog[e]
  BY <1>1 DEF EventLogInv
<1>3. \A e \in DOMAIN eventLog' : e \in DOMAIN eventLog \/ e = n + 1
  BY <1>1, <1>2
<1>4. \A p \in replayed' : /\ posted'[p].event = posted[p].event /\ posted'[p].tenant = posted[p].tenant
                           /\ posted[p].event \in DOMAIN eventLog /\ posted[p].tenant \in Tenant
  BY DEF EventLogInv, Replays
<1>5. \A p \in Poster : posted'[p].at = "insert" \/ p \in replayed' => Replays(p)'
  <2> SUFFICES ASSUME NEW p \in Poster, posted'[p].at = "insert" \/ p \in replayed'
               PROVE  Replays(p)'
    OBVIOUS
  <2>1. posted[p].at # "new" /\ Replays(p)
    BY DEF EventLogInv
  <2>2. posted'[p].event = posted[p].event /\ posted'[p].tenant = posted[p].tenant
    BY <2>1
  <2> QED
    BY <1>1, <1>2, <2>1, <2>2 DEF Replays
<1>6. RowsExplained'
  <2> SUFFICES ASSUME NEW e \in DOMAIN eventLog', eventLog'[e].type \notin EventTypes
               PROVE  \E p \in replayed' : /\ posted'[p].tenant = eventLog'[e].tenant
                                           /\ eventLog'[posted'[p].event].live = eventLog'[e].live
    BY DEF RowsExplained
  <2>1. CASE e = n + 1
    BY <1>1, <1>2, <1>4, <2>1
  <2>2. CASE e \in DOMAIN eventLog
    <3>1. eventLog'[e] = eventLog[e]
      BY <1>1, <1>2, <2>2
    <3>2. PICK p \in replayed : /\ posted[p].tenant = eventLog[e].tenant
                                /\ eventLog[posted[p].event].live = eventLog[e].live
      BY <2>2, <3>1 DEF EventLogInv, RowsExplained
    <3> QED
      BY <1>1, <1>2, <1>4, <3>1, <3>2
  <2> QED
    BY <1>3, <2>1, <2>2
<1> QED
  BY <1>2, <1>5, <1>6 DEF EventLogInv, Posts, EventRows

\* What stands in the table is a row.
LEMMA RowOfLog ==
  ASSUME EventLogInv, NEW e \in DOMAIN eventLog
  PROVE  eventLog[e] \in EventRows
BY DEF EventLogInv

\* Every step of the API and of those who write events.
LEMMA EventLogStepFits == EventLogInv /\ [EventLogNext]_eventLogVars => EventLogInv'
<1> SUFFICES ASSUME EventLogInv, [EventLogNext]_eventLogVars
             PROVE  EventLogInv'
  OBVIOUS
<1>1. CASE UNCHANGED eventLogVars
  BY <1>1 DEF eventLogVars, EventLogInv, RowsExplained, Replays, Posts, EventRows
<1>2. ASSUME NEW type \in Emitted, NEW t \in Tenant, NEW live \in BOOLEAN, Emit(type, t, live)
      PROVE  EventLogInv'
  <2>1. PICK new : new = [type |-> type, tenant |-> t, live |-> live]
    OBVIOUS
  <2>2. new \in EventRows /\ new.type \in EventTypes
    BY <2>1, EventLogAssumption DEF EventRows
  <2>3. eventLog' = Append(eventLog, new) /\ UNCHANGED <<posted, replayed>>
    BY <1>2, <2>1 DEF Emit
  <2> QED
    BY <2>2, <2>3, RowIsAdded DEF EventLogInv
<1>3. ASSUME NEW p \in Poster, NEW t \in Tenant, NEW e \in Event, PostReplay(p, t, e)
      PROVE  EventLogInv'
  <2>1. PICK q : q = [at |-> IF keyStatus[t] = "free" THEN "select" ELSE "refused",
                      tenant |-> t, event |-> e]
    OBVIOUS
  <2>2. q \in Posts /\ q.at \in {"select", "refused"}
    BY <2>1, EventLogAssumption DEF Posts, Waiting, Event
  <2>3. p \notin replayed
    BY <1>3 DEF PostReplay, EventLogInv
  <2> QED
    BY <1>3, <2>1, <2>2, <2>3, PostMoves DEF PostReplay
<1>4. ASSUME NEW p \in Poster, SelectOriginal(p) \/ RenderReplay(p)
      PROVE  EventLogInv'
  <2>1. posted[p] \in Posts
    BY DEF EventLogInv
  <2>2. PICK to \in {"insert", "failed", "replied"} :
          /\ posted' = [posted EXCEPT ![p].at = to]
          /\ to = "insert" => Found(posted[p].tenant, posted[p].event) /\ posted[p].at = "select"
    BY <1>4 DEF SelectOriginal, RenderReplay, At, Fail
  <2>3. PICK q : q = [posted[p] EXCEPT !.at = to]
    OBVIOUS
  <2>4. q \in Posts /\ q.at = to /\ q.event = posted[p].event /\ q.tenant = posted[p].tenant
    BY <2>1, <2>3 DEF Posts, Waiting
  <2>5. to = "insert" => q.event \in DOMAIN eventLog /\ q.tenant \in Tenant
    BY <2>2, <2>4, RowOfLog DEF Found, EventRows
  <2>6. UNCHANGED <<eventLog, replayed>>
    BY <1>4 DEF SelectOriginal, RenderReplay
  <2> QED
    BY <2>2, <2>3, <2>4, <2>5, <2>6, PostMoves
<1>5. ASSUME NEW p \in Poster, InsertReplay(p)
      PROVE  EventLogInv'
  <2>1. posted[p] \in Posts /\ posted[p].at = "insert" /\ Replays(p)
    BY <1>5 DEF EventLogInv, InsertReplay
  <2>2. PICK new : new = ReplayRow(p)
    OBVIOUS
  <2>3. new \in EventRows /\ new.tenant = posted[p].tenant /\ new.live = eventLog[posted[p].event].live
    <3>1. eventLog[posted[p].event].live \in BOOLEAN /\ posted[p].tenant \in Tenant
      BY <2>1, RowOfLog DEF Replays, EventRows
    <3> QED
      BY <2>2, <3>1 DEF ReplayRow, EventRows
  <2>4. eventLog' = Append(eventLog, new) /\ replayed' = replayed \cup {p}
    BY <1>5, <2>2 DEF InsertReplay
  <2>5. \A r \in Poster : posted'[r] = IF r = p THEN [posted[p] EXCEPT !.at = "render"] ELSE posted[r]
    BY <1>5 DEF InsertReplay, At, EventLogInv
  <2>6. /\ posted' \in [Poster -> Posts] /\ posted'[p].at = "render"
        /\ posted'[p].event = posted[p].event /\ posted'[p].tenant = posted[p].tenant
    BY <1>5, <2>1, <2>5 DEF InsertReplay, At, EventLogInv, Posts, Waiting
  <2>7. /\ replayed' \subseteq Poster /\ replayed \subseteq replayed'
        /\ \A r \in Poster : posted[r].at # "new" =>
             posted'[r].event = posted[r].event /\ posted'[r].tenant = posted[r].tenant
        /\ \A r \in Poster : posted'[r].at = "insert" \/ r \in replayed' =>
             posted[r].at = "insert" \/ r \in replayed
        /\ \A r \in replayed' : posted'[r].at # "new"
    BY <2>1, <2>4, <2>5, <2>6 DEF EventLogInv
  <2>8. \E r \in replayed' : /\ posted[r].tenant = new.tenant
                             /\ eventLog[posted[r].event].live = new.live
    BY <2>3, <2>4
  <2> QED
    BY <2>3, <2>4, <2>6, <2>7, <2>8, RowIsAdded
<1> QED
  BY <1>1, <1>2, <1>3, <1>4, <1>5 DEF EventLogNext

\* A tenant's list fails in one mode only after it replayed an event of that mode
\* itself, and not when it asks for types of the registry.
THEOREM BreakageStaysAtHome == EventLogSpec => []BreakageIsContained
<1>1. EventLogInv => BreakageIsContained
  <2> SUFFICES ASSUME EventLogInv, NEW t \in Tenant, NEW live \in BOOLEAN
               PROVE  /\ ~ListEvents(t, live, {}).ok =>
                           \E p \in replayed :
                             posted[p].tenant = t /\ eventLog[posted[p].event].live = live
                      /\ ListEvents(t, live, EventTypes).ok
    BY DEF BreakageIsContained
  <2>1. \A types : ListEvents(t, live, types).ok <=>
          \A e \in Latest(Matching(t, live, types)) : Renders(eventLog[e].type)
    BY DEF ListEvents
  <2>2. \A types : Latest(Matching(t, live, types)) \subseteq Matching(t, live, types)
    BY DEF Latest
  <2>3. <<"account", "created">> \in EventTypes
    BY DEF EventTypes, IntentTypes, Of
  <2>4. \A e \in Matching(t, live, EventTypes) : Renders(eventLog[e].type)
    BY <2>3 DEF Matching, Renders
  <2>5. ASSUME NEW e \in Matching(t, live, {}), ~Renders(eventLog[e].type)
        PROVE  \E p \in replayed : posted[p].tenant = t /\ eventLog[posted[p].event].live = live
    BY <2>5 DEF Matching, Renders, EventLogInv, RowsExplained
  <2> QED
    BY <2>1, <2>2, <2>4, <2>5
<1> QED
  BY <1>1, EventLogInitFits, EventLogStepFits, PTL DEF EventLogSpec

=============================================================================
