--------------------------- MODULE WebhookDelivery ---------------------------
(***************************************************************************)
(* Webhook deliveries: the rows of webhook_deliveries, the dispatchers that *)
(* poll them, POST them and write what became of them, and the operations   *)
(* of the API on deliveries and endpoints.                                  *)
(*                                                                         *)
(* A dispatcher is one process with one thread.  Its claim is a read: it    *)
(* locks and marks nothing, so what it knows of a delivery (attempt number, *)
(* endpoint) is as old as its batch.  Rows are claimed by due time; whether *)
(* the time of a row has come is its field "due", the times themselves are  *)
(* left out and a batch is any Batch of the due rows, in any order.         *)
(*                                                                         *)
(* A customer's endpoint answers as it likes, and an answer may be lost     *)
(* after the POST was accepted.  Nothing in the repository inserts          *)
(* deliveries when an event occurs: those there are at the start, Initial,  *)
(* and the ones operators add.                                              *)
(***************************************************************************)
EXTENDS Naturals, FiniteSets

CONSTANTS
  Dispatcher,      \* webhook-dispatcher processes
  Delivery,        \* ids of rows of webhook_deliveries
  Initial,         \* the deliveries there are at the start
  Endpoint,        \* webhook endpoints
  Batch,           \* batchSize, 32 in the code
  MaxAttempts,     \* RetrySchedule.maxAttempts, 10 in the code
  MaxCrashes,      \* bound: processes that die other than by a malformed URL
  MaxOperations,   \* bound: operations of the API
  None             \* no endpoint

ASSUME WebhookAssumption ==
  /\ Initial \subseteq Delivery
  /\ Batch \in Nat \ {0}
  /\ MaxAttempts \in Nat \ {0}
  /\ MaxCrashes \in Nat
  /\ MaxOperations \in Nat
  /\ None \notin Endpoint

VARIABLES
  delivery,        \* webhook_deliveries
  endpoint,        \* webhook_endpoints
  step,            \* where each dispatcher is
  batch,           \* the claims each dispatcher still has to deliver
  current,         \* the claim it has posted
  answer,          \* what became of that POST
  crashes,         \* count of Crash steps
  operations,      \* count of operations of the API
  tries,           \* history: POSTs made for each delivery, up to MaxAttempts
  accepted,        \* history: deliveries an endpoint has accepted
  repeated,        \* history: deliveries posted again after that
  contested        \* history: see Contested below

hookVars == <<delivery, endpoint, step, batch, current, answer, crashes,
              operations, tries, accepted, repeated, contested>>

rowVars == <<delivery, contested>>
workVars == <<step, batch, current, answer>>
countVars == <<crashes, operations>>
postVars == <<tries, accepted, repeated>>

NoDelivery ==
  [status |-> "absent", attempt |-> 0, due |-> FALSE, endpoint |-> None, logged |-> FALSE]

\* logged: the event the row names is in event_log.
NewDelivery(e, logged) ==
  [status |-> "pending", attempt |-> 0, due |-> TRUE, endpoint |-> e, logged |-> logged]

FinalStatus ==
  {"delivered", "dlq", "failed_permanent", "configuration_error", "dropped"}

Deliveries ==
  [status : FinalStatus \cup {"pending"}, attempt : 0..MaxAttempts, due : BOOLEAN,
   endpoint : Endpoint, logged : BOOLEAN] \cup {NoDelivery}

Claims ==
  [id : Delivery, attempt : 0..MaxAttempts, signed : BOOLEAN, wellFormed : BOOLEAN]

NoClaim == [id |-> None, attempt |-> 0, signed |-> FALSE, wellFormed |-> FALSE]

Answers == {"ok", "rejected", "failed"}

\* In particular no attempt number exceeds the maximum.
HookTypeOK ==
  /\ delivery \in [Delivery -> Deliveries]
  /\ endpoint \in [Endpoint -> [enabled : BOOLEAN, signed : BOOLEAN, wellFormed : BOOLEAN]]
  /\ step \in [Dispatcher -> {"poll", "deliver", "record", "catch", "down"}]
  /\ batch \in [Dispatcher -> SUBSET Claims]
  /\ current \in [Dispatcher -> Claims \cup {NoClaim}]
  /\ answer \in [Dispatcher -> Answers \cup {"none"}]
  /\ crashes \in 0..MaxCrashes /\ operations \in 0..MaxOperations
  /\ tries \in [Delivery -> 0..MaxAttempts]
  /\ accepted \cup repeated \cup contested \subseteq Delivery

Pending(x) == delivery[x].status = "pending"

\* Final: no status says that somebody is still at it.
Final(x) == delivery[x].status \in FinalStatus

\* Dispatchers that have claimed x and not yet written what became of it.
Holding(x) == {d \in Dispatcher : \E c \in batch[d] : c.id = x}

Contested(X) == contested' = contested \cup X

-----------------------------------------------------------------------------
(* claimBatch: a read without a lock.                                      *)

\* Faulty: deliveries that are not pending are read as well.
ClaimableInAnyStatus(x) ==
  /\ delivery[x].status # "absent" /\ delivery[x].due /\ delivery[x].logged
  /\ endpoint[delivery[x].endpoint].enabled

Claimable(x) ==
  /\ Pending(x) /\ delivery[x].due /\ delivery[x].logged
  /\ endpoint[delivery[x].endpoint].enabled

Claim(x) ==
  LET e == endpoint[delivery[x].endpoint] IN
  [id |-> x, attempt |-> delivery[x].attempt, signed |-> e.signed, wellFormed |-> e.wellFormed]

ClaimBatch(d) ==
  LET ready == {x \in Delivery : Claimable(x)} IN
  /\ step[d] = "poll"
  /\ ready # {}
  /\ \E X \in SUBSET ready :
       /\ Cardinality(X) = (IF Cardinality(ready) < Batch THEN Cardinality(ready) ELSE Batch)
       /\ batch' = [batch EXCEPT ![d] = {Claim(x) : x \in X}]
       /\ Contested({x \in X : Holding(x) # {}})
  /\ step' = [step EXCEPT ![d] = "deliver"]
  /\ UNCHANGED <<delivery, endpoint, current, answer, countVars, postVars>>

-----------------------------------------------------------------------------
(* deliver, handleResponse, retryOrDlq, updateStatus.                      *)

\* updateStatus: where id = ?, whatever the row says by now.
UpdateStatus(c, status, attempt) ==
  delivery' = [delivery EXCEPT ![c.id].status = status, ![c.id].attempt = attempt]

\* Faulty: starts the count again.
RetryForever(c) ==
  delivery' = [delivery EXCEPT ![c.id].status = "pending", ![c.id].attempt = 1, ![c.id].due = FALSE]

\* Faulty: gives up one attempt early.
GiveUpEarly(c) ==
  IF c.attempt + 2 >= MaxAttempts
    THEN UpdateStatus(c, "dlq", c.attempt + 1)
    ELSE delivery' = [delivery EXCEPT ![c.id].status = "pending",
                        ![c.id].attempt = c.attempt + 1, ![c.id].due = FALSE]

RetryOrDlq(c) ==
  IF c.attempt + 1 >= MaxAttempts
    THEN UpdateStatus(c, "dlq", c.attempt + 1)
    ELSE delivery' = [delivery EXCEPT ![c.id].status = "pending",
                        ![c.id].attempt = c.attempt + 1, ![c.id].due = FALSE]

HandleResponse(c, a) ==
  \/ a = "ok" /\ UpdateStatus(c, "delivered", c.attempt + 1)
  \/ a = "rejected" /\ UpdateStatus(c, "failed_permanent", c.attempt + 1)
  \/ a = "failed" /\ RetryOrDlq(c)

Idle(d) ==
  /\ current' = [current EXCEPT ![d] = NoClaim]
  /\ answer' = [answer EXCEPT ![d] = "none"]

\* On to the next delivery of the batch, or to the next poll.
Finish(d, c) ==
  /\ batch' = [batch EXCEPT ![d] = @ \ {c}]
  /\ step' = [step EXCEPT ![d] = IF batch[d] = {c} THEN "poll" ELSE "deliver"]
  /\ Idle(d)

\* The endpoint had no signing secret when the batch was read.
Unsigned(d) ==
  /\ step[d] = "deliver"
  /\ \E c \in batch[d] :
       /\ ~c.signed
       /\ UpdateStatus(c, "configuration_error", c.attempt)
       /\ Finish(d, c)
  /\ UNCHANGED <<endpoint, countVars, postVars, contested>>

Sent(c) == [tries EXCEPT ![c.id] = IF @ < MaxAttempts THEN @ + 1 ELSE @]

\* The POST.  "failed" is 429, 5xx, a redirect, or no answer in ten seconds.
Post(d) ==
  /\ step[d] = "deliver"
  /\ \E c \in batch[d], a \in Answers, took \in BOOLEAN :
       /\ c.signed /\ c.wellFormed
       /\ a = "ok" => took
       /\ a = "rejected" => ~took
       /\ current' = [current EXCEPT ![d] = c]
       /\ answer' = [answer EXCEPT ![d] = a]
       /\ tries' = Sent(c)
       /\ repeated' = repeated \cup ({c.id} \cap accepted)
       /\ accepted' = accepted \cup (IF took THEN {c.id} ELSE {})
       /\ Contested(IF took /\ a = "failed" THEN {c.id} ELSE {})
  /\ step' = [step EXCEPT ![d] = "record"]
  /\ UNCHANGED <<delivery, endpoint, batch, countVars>>

Record(d) ==
  /\ step[d] = "record"
  /\ HandleResponse(current[d], answer[d])
  /\ Finish(d, current[d])
  /\ UNCHANGED <<endpoint, countVars, postVars, contested>>

\* The database fails inside the try, with the write committed or not.
RecordFails(d) ==
  /\ step[d] = "record"
  /\ HandleResponse(current[d], answer[d]) \/ UNCHANGED delivery
  /\ step' = [step EXCEPT ![d] = "catch"]
  /\ answer' = [answer EXCEPT ![d] = "none"]
  /\ Contested({current[d].id})
  /\ UNCHANGED <<endpoint, batch, current, countVars, postVars>>

\* catch (t: Exception): whatever the answer was, the delivery is retried.
Catch(d) ==
  /\ step[d] = "catch"
  /\ RetryOrDlq(current[d])
  /\ Finish(d, current[d])
  /\ UNCHANGED <<endpoint, countVars, postVars, contested>>

Down(d) ==
  /\ step' = [step EXCEPT ![d] = "down"]
  /\ batch' = [batch EXCEPT ![d] = {}]
  /\ Idle(d)
  /\ Contested({x \in Delivery : current[d].id = x})

\* URI.create throws outside the try: the exception ends runForever and main.
Malformed(d) ==
  /\ step[d] = "deliver"
  /\ \E c \in batch[d] : c.signed /\ ~c.wellFormed
  /\ Down(d)
  /\ UNCHANGED <<delivery, endpoint, countVars, postVars>>

\* The process dies, or the database fails outside the try.
Crash(d) ==
  /\ step[d] # "down"
  /\ crashes < MaxCrashes
  /\ crashes' = crashes + 1
  /\ Down(d)
  /\ UNCHANGED <<delivery, endpoint, operations, postVars>>

Restart(d) ==
  /\ step[d] = "down"
  /\ step' = [step EXCEPT ![d] = "poll"]
  /\ UNCHANGED <<delivery, endpoint, batch, current, answer, countVars, postVars, contested>>

\* The time of the next attempt comes.
Elapse(x) ==
  /\ Pending(x) /\ ~delivery[x].due
  /\ delivery' = [delivery EXCEPT ![x].due = TRUE]
  /\ UNCHANGED <<endpoint, workVars, countVars, postVars, contested>>

-----------------------------------------------------------------------------
(* The API.                                                                *)

Operator ==
  /\ operations < MaxOperations
  /\ operations' = operations + 1
  /\ UNCHANGED <<workVars, crashes, postVars>>

\* enableEndpoint, disableEndpoint, and deleteEndpoint, which disables.
SetEnabled(e) ==
  /\ endpoint' = [endpoint EXCEPT ![e].enabled = ~@]
  /\ Operator /\ UNCHANGED rowVars

\* updateEndpoint: no route validates the URL.
UpdateEndpoint(e) ==
  /\ endpoint' = [endpoint EXCEPT ![e].wellFormed = ~@]
  /\ Operator /\ UNCHANGED rowVars

RotateSecret(e) ==
  /\ endpoint' = [endpoint EXCEPT ![e].signed = TRUE]
  /\ Operator /\ UNCHANGED rowVars

Insert(x, row) ==
  /\ delivery[x] = NoDelivery
  /\ delivery' = [delivery EXCEPT ![x] = row]
  /\ Operator /\ UNCHANGED <<endpoint, contested>>

\* requeueDelivery: a new row; the old one, whatever its status, stays.
Requeue(x) ==
  \E old \in Delivery :
    /\ delivery[old] # NoDelivery
    /\ Insert(x, NewDelivery(delivery[old].endpoint, delivery[old].logged))

\* enqueueTestPing: the event it names was never logged.
TestPing(x) == \E e \in Endpoint : Insert(x, NewDelivery(e, FALSE))

\* dropDelivery looks at no status.
Drop(x) ==
  /\ delivery[x] # NoDelivery
  /\ delivery' = [delivery EXCEPT ![x].status = "dropped"]
  /\ Contested(IF Holding(x) # {} THEN {x} ELSE {})
  /\ Operator /\ UNCHANGED endpoint

-----------------------------------------------------------------------------
HookInit ==
  /\ endpoint \in [Endpoint -> [enabled : {TRUE}, signed : BOOLEAN, wellFormed : {TRUE}]]
  /\ \E to \in [Initial -> Endpoint] :
       delivery = [x \in Delivery |-> IF x \in Initial THEN NewDelivery(to[x], TRUE)
                                                       ELSE NoDelivery]
  /\ step = [d \in Dispatcher |-> "poll"]
  /\ batch = [d \in Dispatcher |-> {}]
  /\ current = [d \in Dispatcher |-> NoClaim]
  /\ answer = [d \in Dispatcher |-> "none"]
  /\ crashes = 0 /\ operations = 0
  /\ tries = [x \in Delivery |-> 0]
  /\ accepted = {} /\ repeated = {} /\ contested = {}

Dispatch(d) ==
  \/ ClaimBatch(d) \/ Unsigned(d) \/ Post(d) \/ Record(d) \/ RecordFails(d) \/ Catch(d)
  \/ Malformed(d) \/ Restart(d)

HookNext ==
  \/ \E d \in Dispatcher : Dispatch(d) \/ Crash(d)
  \/ \E e \in Endpoint : SetEnabled(e) \/ UpdateEndpoint(e) \/ RotateSecret(e)
  \/ \E x \in Delivery : Elapse(x) \/ Requeue(x) \/ TestPing(x) \/ Drop(x)

HookFairness ==
  /\ \A d \in Dispatcher : WF_hookVars(Dispatch(d))
  /\ \A x \in Delivery : WF_hookVars(Elapse(x))

HookSpec == HookInit /\ [][HookNext]_hookVars /\ HookFairness

-----------------------------------------------------------------------------
\* The attempt number of a delivery never runs ahead of the POSTs made for it,
\* however many dispatchers write it from what they once read: in particular no
\* delivery is given up (dlq) before MaxAttempts POSTs were tried.
AttemptsWereMade ==
  \A x \in Delivery :
    /\ delivery[x].attempt <= tries[x]
    /\ delivery[x].status = "dlq" => tries[x] = MaxAttempts

\* "delivered" is said only of what an endpoint accepted, whichever dispatcher
\* wrote it last; and what was accepted is posted again only if two dispatchers
\* held it at once, its answer or the write of its outcome was lost, it was
\* dropped in flight, or its dispatcher died: retries alone repeat nothing.
AcceptedOnce ==
  /\ \A x \in Delivery : delivery[x].status = "delivered" => x \in accepted
  /\ repeated \subseteq contested

\* But for those cases a final status is final: the late write of a dispatcher
\* never revives a delivery, except that an operator may drop it.
FinalUnlessContested ==
  [][\A x \in Delivery \ contested' :
       Final(x) => delivery'[x].status \in {delivery[x].status, "dropped"}]_hookVars

\* Once endpoints stay enabled with a valid URL, every logged delivery leaves
\* "pending" for good, two racing dispatchers and a crash notwithstanding: the
\* attempt numbers they overwrite each other's with still grow.
Healthy == \A e \in Endpoint : endpoint[e].enabled /\ endpoint[e].wellFormed

EventuallySettled ==
  <>[]Healthy => <>[](\A x \in Delivery : delivery[x].logged => ~Pending(x))

=============================================================================
