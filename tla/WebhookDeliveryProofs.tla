------------------------- MODULE WebhookDeliveryProofs -------------------------
(***************************************************************************)
(* For every set of dispatchers, deliveries and bounds: attempt numbers    *)
(* never run ahead of the POSTs, "delivered" is said of what was accepted, *)
(* and what is posted again after it was accepted, or revived after it was *)
(* final, was contested.                                                   *)
(*                                                                         *)
(* A claim is a copy, so the invariant says what is still true of copies,  *)
(* however old: their attempt number is below the maximum and not above    *)
(* the POSTs made (ClaimsFit).  Of a delivery that is not contested it     *)
(* says much more (Alone): one dispatcher holds it, it is pending while    *)
(* it is held, and if it was accepted the holder is about to say so.       *)
(***************************************************************************)
EXTENDS WebhookDelivery, TLAPS

Holds(d, x) == \E c \in batch[d] : c.id = x

\* Where a dispatcher is and what it has in hand agree.
DispatcherShape ==
  \A d \in Dispatcher :
    /\ step[d] \in {"poll", "down"} => batch[d] = {}
    /\ step[d] \in {"record", "catch"} => current[d] \in batch[d]
    /\ step[d] = "record" => answer[d] \in Answers
    /\ \A b, c \in batch[d] : b.id = c.id => b = c

\* What a row says was done.
RowsFit ==
  \A x \in Delivery :
    /\ delivery[x].attempt <= tries[x]
    /\ delivery[x].status = "dlq" => tries[x] = MaxAttempts
    /\ delivery[x].status = "pending" => delivery[x].attempt < MaxAttempts
    /\ delivery[x].status = "delivered" => x \in accepted

\* What a claim, however old, still says of its delivery.
ClaimsFit ==
  \A d \in Dispatcher :
    /\ \A c \in batch[d] : /\ delivery[c.id] # NoDelivery
                           /\ c.attempt < MaxAttempts /\ c.attempt <= tries[c.id]
    /\ step[d] \in {"record", "catch"} => current[d].attempt < tries[current[d].id]
    /\ step[d] = "record" /\ answer[d] = "ok" => current[d].id \in accepted
    /\ step[d] = "catch" => current[d].id \in contested

\* Somebody is about to write that x was delivered.
Answered(x) ==
  \E d \in Dispatcher : step[d] = "record" /\ current[d].id = x /\ answer[d] = "ok"

\* A delivery that is not contested.
Alone ==
  \A x \in Delivery \ contested :
    /\ \A d, e \in Dispatcher : Holds(d, x) /\ Holds(e, x) => d = e
    /\ \A d \in Dispatcher : Holds(d, x) => Pending(x)
    /\ x \in accepted => Final(x) \/ Answered(x)

HookInv ==
  /\ HookTypeOK
  /\ DispatcherShape
  /\ RowsFit
  /\ ClaimsFit
  /\ Alone
  /\ repeated \subseteq contested

-----------------------------------------------------------------------------
(* Rows and claims.                                                        *)

\* A row that is a delivery.
Row == Deliveries \ {NoDelivery}

\* The fields of a row that is a delivery.
LEMMA RowFields ==
  ASSUME NEW v \in Row
  PROVE  /\ v \in [status : FinalStatus \cup {"pending"}, attempt : 0..MaxAttempts,
                   due : BOOLEAN, endpoint : Endpoint, logged : BOOLEAN]
         /\ v.status \in FinalStatus \cup {"pending"} /\ v.attempt \in 0..MaxAttempts
         /\ v.endpoint \in Endpoint
BY DEF Row, Deliveries

\* A record with these fields is a row: it has a status that no free row has.
LEMMA RowBuilt ==
  ASSUME NEW v \in [status : FinalStatus \cup {"pending"}, attempt : 0..MaxAttempts,
                   due : BOOLEAN, endpoint : Endpoint, logged : BOOLEAN]
  PROVE  v \in Row
<1>1. v.status # "absent" /\ NoDelivery.status = "absent"
  BY DEF FinalStatus, NoDelivery
<1> QED
  BY <1>1 DEF Row, Deliveries

\* A new delivery is a row.
LEMMA NewRow ==
  ASSUME NEW e \in Endpoint, NEW logged \in BOOLEAN
  PROVE  /\ NewDelivery(e, logged) \in Row
         /\ NewDelivery(e, logged).status = "pending" /\ NewDelivery(e, logged).attempt = 0
<1>1. 0 \in 0..MaxAttempts
  BY WebhookAssumption
<1>2. NewDelivery(e, logged) \in
        [status : FinalStatus \cup {"pending"}, attempt : 0..MaxAttempts,
         due : BOOLEAN, endpoint : Endpoint, logged : BOOLEAN]
  BY <1>1 DEF NewDelivery
<1> QED
  BY <1>2, RowBuilt DEF NewDelivery

\* What the invariant says of a claim, in one place.
LEMMA ClaimFields ==
  ASSUME HookTypeOK, ClaimsFit, NEW d \in Dispatcher, NEW c \in batch[d]
  PROVE  /\ c \in Claims /\ c.id \in Delivery /\ c.attempt \in 0..MaxAttempts
         /\ MaxAttempts \in Nat /\ c.attempt < MaxAttempts /\ c.attempt <= tries[c.id]
         /\ tries[c.id] \in 0..MaxAttempts /\ delivery[c.id] \in Row
<1>1. c \in Claims /\ c.id \in Delivery /\ c.attempt \in 0..MaxAttempts
  BY DEF HookTypeOK, Claims
<1> QED
  BY <1>1, WebhookAssumption DEF HookTypeOK, ClaimsFit, Row

\* The row as updateStatus or the retry leaves it.
Outcome(c, a, v) ==
  /\ delivery' = [delivery EXCEPT ![c.id] = v]
  /\ v.attempt = c.attempt + 1
  /\ v.status = "dlq" => tries[c.id] = MaxAttempts
  /\ v.status = "pending" => v.attempt < MaxAttempts
  /\ v.status = "delivered" <=> a = "ok"

\* handleResponse counts the POST that was made, and gives up only at the maximum.
LEMMA ResponseOutcome ==
  ASSUME HookTypeOK, ClaimsFit, NEW d \in Dispatcher, NEW c \in batch[d],
         c.attempt < tries[c.id], NEW a \in Answers, HandleResponse(c, a)
  PROVE  \E v \in Row : Outcome(c, a, v)
<1> DEFINE w(status, due) ==
      [delivery[c.id] EXCEPT !.status = status, !.attempt = c.attempt + 1, !.due = due]
<1>1. /\ c.id \in Delivery /\ c.attempt + 1 \in 0..MaxAttempts /\ MaxAttempts \in Nat
      /\ c.attempt \in Nat /\ tries[c.id] \in 0..MaxAttempts
      /\ delivery[c.id] \in [status : FinalStatus \cup {"pending"}, attempt : 0..MaxAttempts,
                             due : BOOLEAN, endpoint : Endpoint, logged : BOOLEAN]
  BY ClaimFields, RowFields
<1>2. \A status \in FinalStatus \cup {"pending"}, due \in BOOLEAN :
        /\ w(status, due) \in Row
        /\ w(status, due).status = status /\ w(status, due).attempt = c.attempt + 1
  BY <1>1, RowBuilt
<1>3. ASSUME NEW status \in FinalStatus, UpdateStatus(c, status, c.attempt + 1)
      PROVE  delivery' = [delivery EXCEPT ![c.id] = w(status, delivery[c.id].due)]
  BY <1>1, <1>3 DEF UpdateStatus, HookTypeOK
<1>4. CASE a = "ok" /\ UpdateStatus(c, "delivered", c.attempt + 1)
  <2>1. Outcome(c, a, w("delivered", delivery[c.id].due))
    BY <1>1, <1>2, <1>3, <1>4 DEF Outcome, FinalStatus
  <2> QED
    BY <1>1, <1>2, <2>1 DEF FinalStatus
<1>5. CASE a = "rejected" /\ UpdateStatus(c, "failed_permanent", c.attempt + 1)
  <2>1. Outcome(c, a, w("failed_permanent", delivery[c.id].due))
    BY <1>1, <1>2, <1>3, <1>5 DEF Outcome, FinalStatus
  <2> QED
    BY <1>1, <1>2, <2>1 DEF FinalStatus
<1>6. CASE a = "failed" /\ c.attempt + 1 >= MaxAttempts /\ UpdateStatus(c, "dlq", c.attempt + 1)
  <2>1. tries[c.id] = MaxAttempts
    BY <1>1, <1>6
  <2>2. Outcome(c, a, w("dlq", delivery[c.id].due))
    BY <1>1, <1>2, <1>3, <1>6, <2>1 DEF Outcome, FinalStatus
  <2> QED
    BY <1>1, <1>2, <2>2 DEF FinalStatus
<1>7. CASE /\ a = "failed" /\ ~(c.attempt + 1 >= MaxAttempts)
           /\ delivery' = [delivery EXCEPT ![c.id].status = "pending",
                             ![c.id].attempt = c.attempt + 1, ![c.id].due = FALSE]
  <2>1. delivery' = [delivery EXCEPT ![c.id] = w("pending", FALSE)]
    BY <1>1, <1>7 DEF HookTypeOK
  <2>2. c.attempt + 1 < MaxAttempts
    BY <1>1, <1>7
  <2>3. a # "ok" /\ w("pending", FALSE).status = "pending"
        /\ w("pending", FALSE).attempt = c.attempt + 1
    BY <1>2, <1>7
  <2> HIDE DEF w
  <2>4. Outcome(c, a, w("pending", FALSE))
    BY <2>1, <2>2, <2>3 DEF Outcome
  <2> QED
    BY <1>2, <2>4
<1> QED
  BY <1>4, <1>5, <1>6, <1>7 DEF HandleResponse, RetryOrDlq

\* Who is answered holds the delivery.
LEMMA AnsweredHolds ==
  ASSUME DispatcherShape, NEW x, Answered(x)
  PROVE  \E d \in Dispatcher : /\ Holds(d, x) /\ step[d] = "record"
                               /\ current[d].id = x /\ answer[d] = "ok"
BY DEF DispatcherShape, Answered, Holds

\* A delivery that is held, is not contested and has no answer was never accepted.
LEMMA HeldNotAccepted ==
  ASSUME DispatcherShape, Alone, NEW d \in Dispatcher, NEW x \in Delivery \ contested,
         Holds(d, x), ~(step[d] = "record" /\ current[d].id = x /\ answer[d] = "ok")
  PROVE  x \notin accepted
<1> SUFFICES ASSUME x \in accepted PROVE FALSE
  OBVIOUS
<1>1. Pending(x) /\ ~Final(x)
  BY DEF Alone, Pending, Final, FinalStatus
<1>2. Answered(x)
  BY <1>1 DEF Alone
<1> QED
  BY <1>2, AnsweredHolds DEF Alone

-----------------------------------------------------------------------------
(* Each step keeps the invariant.                                          *)

\* A dispatcher writes the row of a claim and drops the claim.
LEMMA FinishKeeps ==
  ASSUME HookInv, NEW d \in Dispatcher, NEW c \in batch[d], Finish(d, c),
         step[d] = "deliver" \/ current[d] = c,
         NEW v \in Row, delivery' = [delivery EXCEPT ![c.id] = v],
         v.attempt <= tries[c.id], v.status = "dlq" => tries[c.id] = MaxAttempts,
         v.status = "pending" => v.attempt < MaxAttempts,
         v.status = "delivered" => c.id \in accepted,
         c.id \in accepted \ contested => v.status \in FinalStatus,
         UNCHANGED <<endpoint, countVars, postVars, contested>>
  PROVE  HookInv'
<1> DEFINE x == c.id
<1>0. /\ HookTypeOK /\ DispatcherShape /\ RowsFit /\ ClaimsFit /\ Alone
      /\ repeated \subseteq contested
      /\ UNCHANGED <<endpoint, crashes, operations, tries, accepted, repeated, contested>>
  BY DEF HookInv, countVars, postVars
<1>1. x \in Delivery /\ Holds(d, x)
  BY <1>0, ClaimFields DEF Holds
<1>2. /\ \A e \in Dispatcher : e # d => /\ step'[e] = step[e] /\ batch'[e] = batch[e]
                                       /\ current'[e] = current[e] /\ answer'[e] = answer[e]
      /\ step'[d] \in {"poll", "deliver"} /\ batch'[d] = batch[d] \ {c}
      /\ step'[d] = "poll" => batch'[d] = {}
      /\ \A y \in Delivery : delivery'[y] = IF y = x THEN v ELSE delivery[y]
  BY <1>0 DEF HookTypeOK, Finish, Idle
<1>3. HookTypeOK'
  <2>1. delivery' \in [Delivery -> Deliveries]
    BY <1>0, <1>1 DEF HookTypeOK, Row
  <2>2. /\ step' \in [Dispatcher -> {"poll", "deliver", "record", "catch", "down"}]
        /\ batch' \in [Dispatcher -> SUBSET Claims]
    BY <1>0 DEF HookTypeOK, Finish
  <2>3. /\ current' \in [Dispatcher -> Claims \cup {NoClaim}]
        /\ answer' \in [Dispatcher -> Answers \cup {"none"}]
    BY <1>0 DEF HookTypeOK, Finish, Idle
  <2> QED
    BY <1>0, <2>1, <2>2, <2>3 DEF HookTypeOK
<1>4. DispatcherShape'
  BY <1>0, <1>2 DEF DispatcherShape
<1>5. RowsFit'
  BY <1>0, <1>2 DEF RowsFit
<1>6. ClaimsFit'
  <2>1. \A e \in Dispatcher : batch'[e] \subseteq batch[e] /\ \A b \in batch[e] : b.id \in Delivery
    BY <1>0, <1>2, ClaimFields
  <2>2. \A y \in Delivery : delivery[y] # NoDelivery => delivery'[y] # NoDelivery
    BY <1>2 DEF Row
  <2> QED
    BY <1>0, <1>2, <2>1, <2>2 DEF ClaimsFit
<1>7. Alone'
  <2> SUFFICES ASSUME NEW y \in Delivery \ contested
               PROVE  /\ \A e, f \in Dispatcher : Holds(e, y)' /\ Holds(f, y)' => e = f
                      /\ \A e \in Dispatcher : Holds(e, y)' => Pending(y)'
                      /\ y \in accepted => Final(y)' \/ Answered(y)'
    BY <1>0 DEF Alone
  <2>1. \A e \in Dispatcher : Holds(e, y)' => Holds(e, y)
    BY <1>2 DEF Holds
  <2>2. CASE y = x
    <3>1. ~Holds(d, y)'
      BY <1>0, <1>2, <2>2 DEF Holds, DispatcherShape
    <3>2. \A e \in Dispatcher : ~Holds(e, y)'
      BY <1>0, <1>1, <2>1, <2>2, <3>1 DEF Alone
    <3>3. y \in accepted => Final(y)'
      BY <1>2, <2>2 DEF Final
    <3> QED
      BY <3>2, <3>3
  <2>3. CASE y # x
    <3>1. (Pending(y)' <=> Pending(y)) /\ (Final(y)' <=> Final(y))
      BY <1>2, <2>3 DEF Pending, Final
    <3>2. Answered(y) => Answered(y)'
      BY <1>2, <2>3 DEF Answered
    <3> QED
      BY <1>0, <2>1, <3>1, <3>2 DEF Alone
  <2> QED
    BY <2>2, <2>3
<1> QED
  BY <1>0, <1>3, <1>4, <1>5, <1>6, <1>7 DEF HookInv

\* A claim without a signing secret is given up as it was read.
LEMMA UnsignedKeeps ==
  ASSUME HookInv, NEW d \in Dispatcher, Unsigned(d)
  PROVE  HookInv'
<1>0. HookTypeOK /\ ClaimsFit
  BY DEF HookInv
<1>1. PICK c \in batch[d] : UpdateStatus(c, "configuration_error", c.attempt) /\ Finish(d, c)
  BY DEF Unsigned
<1>2. /\ c.id \in Delivery /\ c.attempt \in 0..MaxAttempts /\ c.attempt <= tries[c.id]
      /\ delivery[c.id] \in [status : FinalStatus \cup {"pending"}, attempt : 0..MaxAttempts,
                             due : BOOLEAN, endpoint : Endpoint, logged : BOOLEAN]
  BY <1>0, ClaimFields, RowFields
<1> DEFINE v == [delivery[c.id] EXCEPT !.status = "configuration_error", !.attempt = c.attempt]
<1>3. delivery' = [delivery EXCEPT ![c.id] = v]
  BY <1>0, <1>1, <1>2 DEF UpdateStatus, HookTypeOK
<1>4. v \in Row /\ v.status = "configuration_error" /\ v.attempt = c.attempt
  BY <1>2, RowBuilt DEF FinalStatus
<1>5. v.status \in FinalStatus \ {"dlq", "delivered", "pending"}
  BY <1>4 DEF FinalStatus
<1>6. step[d] = "deliver" /\ UNCHANGED <<endpoint, countVars, postVars, contested>>
  BY DEF Unsigned
<1> HIDE DEF v
<1> QED
  BY <1>1, <1>2, <1>3, <1>4, <1>5, <1>6, FinishKeeps

\* What a dispatcher knows of the claim it posted.
LEMMA CurrentFields ==
  ASSUME HookInv, NEW d \in Dispatcher, step[d] \in {"record", "catch"}
  PROVE  /\ current[d] \in batch[d] /\ current[d].id \in Delivery
         /\ current[d].attempt < tries[current[d].id]
         /\ current[d].attempt + 1 <= tries[current[d].id]
         /\ Holds(d, current[d].id)
<1>1. current[d] \in batch[d] /\ current[d].attempt < tries[current[d].id]
  BY DEF HookInv, DispatcherShape, ClaimsFit
<1>2. /\ current[d].id \in Delivery
      /\ current[d].attempt \in 0..MaxAttempts /\ tries[current[d].id] \in 0..MaxAttempts
      /\ MaxAttempts \in Nat
  BY <1>1, ClaimFields DEF HookInv
<1> QED
  BY <1>1, <1>2 DEF Holds

\* The answer is written.
LEMMA RecordKeeps ==
  ASSUME HookInv, NEW d \in Dispatcher, Record(d)
  PROVE  HookInv'
<1> DEFINE c == current[d]
<1>0. /\ HookTypeOK /\ DispatcherShape /\ ClaimsFit /\ Alone
      /\ step[d] = "record" /\ HandleResponse(c, answer[d]) /\ Finish(d, c)
      /\ UNCHANGED <<endpoint, countVars, postVars, contested>>
  BY DEF HookInv, Record
<1>1. /\ c \in batch[d] /\ c.id \in Delivery /\ c.attempt < tries[c.id]
      /\ c.attempt + 1 <= tries[c.id] /\ Holds(d, c.id) /\ answer[d] \in Answers
  BY <1>0, CurrentFields DEF DispatcherShape
<1>2. PICK v \in Row : Outcome(c, answer[d], v)
  BY <1>0, <1>1, ResponseOutcome
<1>3. v.status = "delivered" => c.id \in accepted
  BY <1>0, <1>2 DEF Outcome, ClaimsFit
<1>4. c.id \in accepted \ contested => v.status \in FinalStatus
  <2>1. c.id \in accepted \ contested => answer[d] = "ok"
    BY <1>0, <1>1, HeldNotAccepted
  <2> QED
    BY <1>2, <2>1 DEF Outcome, FinalStatus
<1> QED
  BY <1>0, <1>1, <1>2, <1>3, <1>4, FinishKeeps DEF Outcome

\* After a failure of the database the delivery is retried, whatever the answer was.
LEMMA CatchKeeps ==
  ASSUME HookInv, NEW d \in Dispatcher, Catch(d)
  PROVE  HookInv'
<1> DEFINE c == current[d]
<1>0. /\ HookTypeOK /\ DispatcherShape /\ ClaimsFit /\ Alone
      /\ step[d] = "catch" /\ HandleResponse(c, "failed") /\ Finish(d, c)
      /\ UNCHANGED <<endpoint, countVars, postVars, contested>>
  BY DEF HookInv, Catch, HandleResponse
<1>1. /\ c \in batch[d] /\ c.id \in Delivery /\ c.attempt < tries[c.id]
      /\ c.attempt + 1 <= tries[c.id] /\ c.id \in contested
  BY <1>0, CurrentFields DEF ClaimsFit
<1>2. PICK v \in Row : Outcome(c, "failed", v)
  BY <1>0, <1>1, ResponseOutcome DEF Answers
<1> QED
  BY <1>0, <1>1, <1>2, FinishKeeps DEF Outcome

\* The write of the answer fails, after it took effect or before: the delivery is
\* contested from here on.
LEMMA RecordFailsKeeps ==
  ASSUME HookInv, NEW d \in Dispatcher, RecordFails(d)
  PROVE  HookInv'
<1> DEFINE c == current[d]
           x == current[d].id
<1>0. /\ HookTypeOK /\ DispatcherShape /\ RowsFit /\ ClaimsFit /\ Alone
      /\ repeated \subseteq contested /\ step[d] = "record"
      /\ UNCHANGED <<endpoint, batch, current, crashes, operations, tries, accepted, repeated>>
      /\ step' = [step EXCEPT ![d] = "catch"] /\ answer' = [answer EXCEPT ![d] = "none"]
      /\ contested' = contested \cup {x}
  BY DEF HookInv, RecordFails, countVars, postVars, Contested
<1>1. /\ c \in batch[d] /\ x \in Delivery /\ c.attempt < tries[x]
      /\ c.attempt + 1 <= tries[x] /\ answer[d] \in Answers
  BY <1>0, CurrentFields DEF DispatcherShape
<1>2. \E v \in Row : /\ delivery' = [delivery EXCEPT ![x] = v]
                     /\ v.attempt <= tries[x] /\ (v.status = "dlq" => tries[x] = MaxAttempts)
                     /\ (v.status = "pending" => v.attempt < MaxAttempts)
                     /\ (v.status = "delivered" => x \in accepted)
  <2>1. CASE HandleResponse(c, answer[d])
    <3>1. PICK v \in Row : Outcome(c, answer[d], v)
      BY <1>0, <1>1, <2>1, ResponseOutcome
    <3> QED
      BY <1>0, <1>1, <3>1 DEF Outcome, ClaimsFit
  <2>2. CASE UNCHANGED delivery
    <3>1. delivery[x] \in Row /\ delivery' = [delivery EXCEPT ![x] = delivery[x]]
      BY <1>0, <1>1, <2>2, ClaimFields DEF HookTypeOK
    <3> QED
      BY <1>0, <1>1, <3>1 DEF RowsFit
  <2> QED
    BY <2>1, <2>2 DEF RecordFails
<1>3. PICK v \in Row : /\ delivery' = [delivery EXCEPT ![x] = v]
                      /\ v.attempt <= tries[x] /\ (v.status = "dlq" => tries[x] = MaxAttempts)
                      /\ (v.status = "pending" => v.attempt < MaxAttempts)
                      /\ (v.status = "delivered" => x \in accepted)
  BY <1>2
<1>4. /\ \A y \in Delivery : delivery'[y] = IF y = x THEN v ELSE delivery[y]
      /\ \A e \in Dispatcher : step'[e] = IF e = d THEN "catch" ELSE step[e]
      /\ \A e \in Dispatcher : e # d => answer'[e] = answer[e]
  BY <1>0, <1>3 DEF HookTypeOK
<1>5. HookTypeOK'
  <2>1. delivery' \in [Delivery -> Deliveries]
    BY <1>0, <1>1, <1>3 DEF HookTypeOK, Row
  <2>2. /\ step' \in [Dispatcher -> {"poll", "deliver", "record", "catch", "down"}]
        /\ answer' \in [Dispatcher -> Answers \cup {"none"}]
    BY <1>0 DEF HookTypeOK
  <2> QED
    BY <1>0, <1>1, <2>1, <2>2 DEF HookTypeOK
<1>6. DispatcherShape' /\ RowsFit'
  BY <1>0, <1>3, <1>4 DEF DispatcherShape, RowsFit
<1>7. ClaimsFit'
  <2>1. \A e \in Dispatcher : \A b \in batch[e] : b.id \in Delivery
    BY <1>0, ClaimFields
  <2>2. \A y \in Delivery : delivery[y] # NoDelivery => delivery'[y] # NoDelivery
    BY <1>4 DEF Row
  <2> QED
    BY <1>0, <1>4, <2>1, <2>2 DEF ClaimsFit
<1>8. Alone'
  <2> SUFFICES ASSUME NEW y \in Delivery \ contested, y # x
               PROVE  /\ \A e, f \in Dispatcher : Holds(e, y)' /\ Holds(f, y)' => e = f
                      /\ \A e \in Dispatcher : Holds(e, y)' => Pending(y)'
                      /\ y \in accepted => Final(y)' \/ Answered(y)'
    BY <1>0 DEF Alone
  <2>1. \A e \in Dispatcher : Holds(e, y)' <=> Holds(e, y)
    BY <1>0 DEF Holds
  <2>2. (Pending(y)' <=> Pending(y)) /\ (Final(y)' <=> Final(y))
    BY <1>4 DEF Pending, Final
  <2>3. Answered(y) => Answered(y)'
    BY <1>0, <1>4 DEF Answered
  <2> QED
    BY <1>0, <2>1, <2>2, <2>3 DEF Alone
<1> QED
  BY <1>0, <1>5, <1>6, <1>7, <1>8 DEF HookInv

\* A POST: it counts, and what it repeats was contested before.
LEMMA PostKeeps ==
  ASSUME HookInv, NEW d \in Dispatcher, Post(d)
  PROVE  HookInv'
<1>0. /\ HookTypeOK /\ DispatcherShape /\ RowsFit /\ ClaimsFit /\ Alone
      /\ repeated \subseteq contested /\ step[d] = "deliver"
      /\ UNCHANGED <<delivery, endpoint, batch, crashes, operations>>
      /\ step' = [step EXCEPT ![d] = "record"]
  BY DEF HookInv, Post, countVars
<1>1. PICK c \in batch[d], a \in Answers, took \in BOOLEAN :
        /\ a = "ok" => took
        /\ a = "rejected" => ~took
        /\ current' = [current EXCEPT ![d] = c] /\ answer' = [answer EXCEPT ![d] = a]
        /\ tries' = Sent(c)
        /\ repeated' = repeated \cup ({c.id} \cap accepted)
        /\ accepted' = accepted \cup (IF took THEN {c.id} ELSE {})
        /\ contested' = contested \cup (IF took /\ a = "failed" THEN {c.id} ELSE {})
  BY DEF Post, Contested
<1> DEFINE x == c.id
<1>2. /\ c \in Claims /\ x \in Delivery /\ c.attempt \in 0..MaxAttempts /\ MaxAttempts \in Nat
      /\ c.attempt < MaxAttempts /\ c.attempt <= tries[x] /\ tries[x] \in 0..MaxAttempts
  BY <1>0, ClaimFields
<1>3. /\ \A e \in Dispatcher : e # d => /\ step'[e] = step[e]
                                       /\ current'[e] = current[e] /\ answer'[e] = answer[e]
      /\ step'[d] = "record" /\ current'[d] = c /\ answer'[d] = a
  BY <1>0, <1>1 DEF HookTypeOK
<1>4. /\ \A y \in Delivery : tries'[y] \in 0..MaxAttempts /\ tries[y] <= tries'[y]
      /\ c.attempt < tries'[x]
      /\ tries' \in [Delivery -> 0..MaxAttempts]
  BY <1>0, <1>1, <1>2 DEF HookTypeOK, Sent
<1>5. x \notin contested => x \notin accepted
  BY <1>0, <1>2, HeldNotAccepted DEF Holds
<1>6. HookTypeOK'
  <2>1. /\ step' \in [Dispatcher -> {"poll", "deliver", "record", "catch", "down"}]
        /\ current' \in [Dispatcher -> Claims \cup {NoClaim}]
        /\ answer' \in [Dispatcher -> Answers \cup {"none"}]
    BY <1>0, <1>1, <1>2 DEF HookTypeOK
  <2>2. accepted' \cup repeated' \cup contested' \subseteq Delivery
    BY <1>0, <1>1, <1>2 DEF HookTypeOK
  <2> QED
    BY <1>0, <1>4, <2>1, <2>2 DEF HookTypeOK
<1>7. DispatcherShape'
  BY <1>0, <1>1, <1>3 DEF DispatcherShape
<1>8. RowsFit'
  <2>1. \A y \in Delivery : /\ delivery[y].attempt \in 0..MaxAttempts
                            /\ tries[y] \in 0..MaxAttempts
    <3>1. \A v \in Deliveries : v.attempt \in 0..MaxAttempts
      BY <1>2 DEF Deliveries, NoDelivery
    <3> QED
      BY <1>0, <3>1 DEF HookTypeOK
  <2>2. ASSUME NEW y \in Delivery
        PROVE  delivery[y].attempt <= tries'[y] /\ (tries[y] = MaxAttempts => tries'[y] = MaxAttempts)
    <3>1. /\ delivery[y].attempt \in Nat /\ tries[y] \in Nat /\ tries'[y] \in Nat
          /\ tries[y] <= tries'[y] /\ tries'[y] <= MaxAttempts
      BY <1>2, <1>4, <2>1
    <3>2. delivery[y].attempt <= tries[y]
      BY <1>0 DEF RowsFit
    <3> QED
      BY <1>2, <3>1, <3>2
  <2>3. accepted \subseteq accepted'
    BY <1>1
  <2> QED
    BY <1>0, <2>2, <2>3 DEF RowsFit
<1>9. ClaimsFit'
  <2>1. ASSUME NEW e \in Dispatcher, NEW b \in batch[e]
        PROVE  b.attempt <= tries'[b.id]
    <3>1. b.id \in Delivery /\ b.attempt \in 0..MaxAttempts /\ b.attempt <= tries[b.id]
      BY <1>0, ClaimFields
    <3>2. b.attempt \in Nat /\ tries[b.id] \in Nat /\ tries'[b.id] \in Nat /\ tries[b.id] <= tries'[b.id]
      BY <1>0, <1>2, <1>4, <3>1 DEF HookTypeOK
    <3> QED
      BY <3>1, <3>2
  <2>2. ASSUME NEW e \in Dispatcher, e # d, step[e] \in {"record", "catch"}
        PROVE  current[e].attempt < tries'[current[e].id]
    <3>1. /\ current[e] \in batch[e] /\ current[e].attempt < tries[current[e].id]
          /\ current[e].id \in Delivery
      BY <2>2, CurrentFields
    <3>2. current[e].attempt \in 0..MaxAttempts
      BY <1>0, <3>1, ClaimFields
    <3>3. /\ current[e].attempt \in Nat /\ tries[current[e].id] \in Nat
          /\ tries'[current[e].id] \in Nat /\ tries[current[e].id] <= tries'[current[e].id]
      BY <1>0, <1>2, <1>4, <3>1, <3>2 DEF HookTypeOK
    <3> QED
      BY <3>1, <3>3
  <2>3. a = "ok" => x \in accepted'
    BY <1>1
  <2>4. accepted \subseteq accepted' /\ contested \subseteq contested'
    BY <1>1
  <2> QED
    BY <1>0, <1>3, <1>4, <2>1, <2>2, <2>3, <2>4 DEF ClaimsFit
<1>10. Alone'
  <2> SUFFICES ASSUME NEW y \in Delivery \ contested'
               PROVE  /\ \A e, f \in Dispatcher : Holds(e, y)' /\ Holds(f, y)' => e = f
                      /\ \A e \in Dispatcher : Holds(e, y)' => Pending(y)'
                      /\ y \in accepted' => Final(y)' \/ Answered(y)'
    BY DEF Alone
  <2>1. y \notin contested
    BY <1>1
  <2>2. /\ \A e \in Dispatcher : Holds(e, y)' <=> Holds(e, y)
        /\ (Pending(y)' <=> Pending(y)) /\ (Final(y)' <=> Final(y))
    BY <1>0 DEF Holds, Pending, Final
  <2>3. CASE y \in accepted
    <3>1. Answered(y) => Answered(y)'
      BY <1>0, <1>3 DEF Answered
    <3> QED
      BY <1>0, <2>1, <2>2, <2>3, <3>1 DEF Alone
  <2>4. CASE y \notin accepted
    <3>1. y \in accepted' => y = x /\ a = "ok"
      BY <1>1, <2>4 DEF Answers
    <3>2. y = x /\ a = "ok" => Answered(y)'
      BY <1>3 DEF Answered
    <3> QED
      BY <1>0, <2>1, <2>2, <3>1, <3>2 DEF Alone
  <2> QED
    BY <2>3, <2>4
<1>11. repeated' \subseteq contested'
  BY <1>0, <1>1, <1>5
<1> QED
  BY <1>6, <1>7, <1>8, <1>9, <1>10, <1>11 DEF HookInv

\* A claim copies rows that nobody wrote meanwhile; a row that another dispatcher
\* holds is contested from here on.
LEMMA ClaimKeeps ==
  ASSUME HookInv, NEW d \in Dispatcher, ClaimBatch(d)
  PROVE  HookInv'
<1>0. /\ HookTypeOK /\ DispatcherShape /\ RowsFit /\ ClaimsFit /\ Alone
      /\ repeated \subseteq contested /\ step[d] = "poll" /\ batch[d] = {}
      /\ UNCHANGED <<delivery, endpoint, current, answer, crashes, operations, tries,
                     accepted, repeated>>
      /\ step' = [step EXCEPT ![d] = "deliver"]
  BY DEF HookInv, ClaimBatch, countVars, postVars, DispatcherShape
<1>1. PICK X \in SUBSET {x \in Delivery : Claimable(x)} :
        /\ batch' = [batch EXCEPT ![d] = {Claim(x) : x \in X}]
        /\ contested' = contested \cup {x \in X : Holding(x) # {}}
  BY DEF ClaimBatch, Contested
<1>2. ASSUME NEW x \in X
      PROVE  /\ x \in Delivery /\ Pending(x) /\ delivery[x] # NoDelivery
             /\ Claim(x) \in Claims /\ Claim(x).id = x
             /\ Claim(x).attempt = delivery[x].attempt
  <2>1. x \in Delivery /\ Pending(x)
    BY <1>1, <1>2 DEF Claimable
  <2>2. delivery[x] # NoDelivery
    BY <2>1 DEF Pending, NoDelivery
  <2>3. delivery[x] \in Row
    BY <1>0, <2>1, <2>2 DEF HookTypeOK, Row
  <2>4. /\ delivery[x].attempt \in 0..MaxAttempts
        /\ endpoint[delivery[x].endpoint] \in [enabled : BOOLEAN, signed : BOOLEAN, wellFormed : BOOLEAN]
    BY <1>0, <2>3, RowFields DEF HookTypeOK
  <2> QED
    BY <2>1, <2>2, <2>4 DEF Claim, Claims
<1>3. /\ \A e \in Dispatcher : e # d => step'[e] = step[e] /\ batch'[e] = batch[e]
      /\ step'[d] = "deliver" /\ batch'[d] = {Claim(x) : x \in X}
  BY <1>0, <1>1 DEF HookTypeOK
<1>4. HookTypeOK'
  <2>1. /\ step' \in [Dispatcher -> {"poll", "deliver", "record", "catch", "down"}]
        /\ batch' \in [Dispatcher -> SUBSET Claims]
    BY <1>0, <1>1, <1>2 DEF HookTypeOK
  <2> QED
    BY <1>0, <1>1, <2>1 DEF HookTypeOK
<1>5. DispatcherShape'
  BY <1>0, <1>2, <1>3 DEF DispatcherShape
<1>6. RowsFit'
  BY <1>0 DEF RowsFit
<1>7. ClaimsFit'
  <2>1. ASSUME NEW b \in batch'[d]
        PROVE  delivery[b.id] # NoDelivery /\ b.attempt < MaxAttempts /\ b.attempt <= tries[b.id]
    <3>1. PICK x \in X : b = Claim(x)
      BY <1>3, <2>1
    <3> QED
      BY <1>0, <1>2, <3>1 DEF RowsFit, Pending
  <2>2. contested \subseteq contested'
    BY <1>1
  <2> QED
    BY <1>0, <1>3, <2>1, <2>2 DEF ClaimsFit
<1>8. Alone'
  <2> SUFFICES ASSUME NEW y \in Delivery \ contested'
               PROVE  /\ \A e, f \in Dispatcher : Holds(e, y)' /\ Holds(f, y)' => e = f
                      /\ \A e \in Dispatcher : Holds(e, y)' => Pending(y)'
                      /\ y \in accepted => Final(y)' \/ Answered(y)'
    BY <1>0 DEF Alone
  <2>1. y \notin contested /\ (y \in X => \A e \in Dispatcher : ~Holds(e, y))
    BY <1>1 DEF Holding, Holds
  <2>2. \A e \in Dispatcher : e # d => (Holds(e, y)' <=> Holds(e, y))
    BY <1>3 DEF Holds
  <2>3. Holds(d, y)' <=> y \in X
    BY <1>2, <1>3 DEF Holds
  <2>4. (Pending(y)' <=> Pending(y)) /\ (Final(y)' <=> Final(y))
    BY <1>0 DEF Pending, Final
  <2>5. Answered(y) => Answered(y)'
    BY <1>0, <1>3 DEF Answered
  <2> QED
    BY <1>0, <1>2, <2>1, <2>2, <2>3, <2>4, <2>5 DEF Alone
<1>9. repeated' \subseteq contested'
  BY <1>0, <1>1
<1> QED
  BY <1>4, <1>5, <1>6, <1>7, <1>8, <1>9 DEF HookInv

\* A dispatcher stops: what it had posted is contested, the rest is forgotten.
LEMMA DownKeeps ==
  ASSUME HookInv, NEW d \in Dispatcher, Down(d), crashes' \in 0..MaxCrashes,
         UNCHANGED <<delivery, endpoint, operations, postVars>>
  PROVE  HookInv'
<1>0. /\ HookTypeOK /\ DispatcherShape /\ RowsFit /\ ClaimsFit /\ Alone
      /\ repeated \subseteq contested
      /\ UNCHANGED <<delivery, endpoint, operations, tries, accepted, repeated>>
      /\ contested' = contested \cup {x \in Delivery : current[d].id = x}
  BY DEF HookInv, Down, postVars, Contested
<1>1. /\ \A e \in Dispatcher : e # d => /\ step'[e] = step[e] /\ batch'[e] = batch[e]
                                       /\ current'[e] = current[e] /\ answer'[e] = answer[e]
      /\ step'[d] = "down" /\ batch'[d] = {}
  BY <1>0 DEF HookTypeOK, Down, Idle
<1>2. HookTypeOK'
  <2>1. /\ step' \in [Dispatcher -> {"poll", "deliver", "record", "catch", "down"}]
        /\ batch' \in [Dispatcher -> SUBSET Claims]
    BY <1>0 DEF HookTypeOK, Down
  <2>2. /\ current' \in [Dispatcher -> Claims \cup {NoClaim}]
        /\ answer' \in [Dispatcher -> Answers \cup {"none"}]
    BY <1>0 DEF HookTypeOK, Down, Idle
  <2> QED
    BY <1>0, <2>1, <2>2 DEF HookTypeOK
<1>3. DispatcherShape' /\ RowsFit'
  BY <1>0, <1>1 DEF DispatcherShape, RowsFit
<1>4. ClaimsFit'
  BY <1>0, <1>1 DEF ClaimsFit
<1>5. Alone'
  <2> SUFFICES ASSUME NEW y \in Delivery \ contested, current[d].id # y
               PROVE  /\ \A e, f \in Dispatcher : Holds(e, y)' /\ Holds(f, y)' => e = f
                      /\ \A e \in Dispatcher : Holds(e, y)' => Pending(y)'
                      /\ y \in accepted => Final(y)' \/ Answered(y)'
    BY <1>0 DEF Alone
  <2>1. \A e \in Dispatcher : Holds(e, y)' => Holds(e, y)
    BY <1>1 DEF Holds
  <2>2. (Pending(y)' <=> Pending(y)) /\ (Final(y)' <=> Final(y))
    BY <1>0 DEF Pending, Final
  <2>3. Answered(y) => Answered(y)'
    BY <1>1 DEF Answered
  <2> QED
    BY <1>0, <2>1, <2>2, <2>3 DEF Alone
<1> QED
  BY <1>0, <1>2, <1>3, <1>4, <1>5 DEF HookInv

\* A step that leaves dispatchers and rows alone, but for what a row says of its time.
LEMMA QuietKeeps ==
  ASSUME HookInv, delivery' \in [Delivery -> Deliveries],
         \A x \in Delivery : /\ delivery'[x].status = delivery[x].status
                            /\ delivery'[x].attempt = delivery[x].attempt,
         endpoint' \in [Endpoint -> [enabled : BOOLEAN, signed : BOOLEAN, wellFormed : BOOLEAN]],
         operations' \in 0..MaxOperations,
         UNCHANGED <<workVars, crashes, postVars, contested>>
  PROVE  HookInv'
<1>0. /\ HookTypeOK /\ DispatcherShape /\ RowsFit /\ ClaimsFit /\ Alone
      /\ repeated \subseteq contested
      /\ UNCHANGED <<step, batch, current, answer, crashes, tries, accepted, repeated, contested>>
  BY DEF HookInv, workVars, postVars
<1>1. HookTypeOK' /\ DispatcherShape' /\ RowsFit'
  BY <1>0 DEF HookTypeOK, DispatcherShape, RowsFit
<1>2. ClaimsFit'
  <2>1. \A e \in Dispatcher : \A b \in batch[e] : b.id \in Delivery
    BY <1>0, ClaimFields
  <2>2. ASSUME NEW x \in Delivery, delivery[x] # NoDelivery PROVE delivery'[x] # NoDelivery
    <3>1. delivery[x].status # "absent"
      BY <1>0, <2>2, RowFields DEF HookTypeOK, Row, FinalStatus
    <3> QED
      BY <3>1 DEF NoDelivery
  <2> QED
    BY <1>0, <2>1, <2>2 DEF ClaimsFit
<1>3. Alone'
  <2>1. \A x \in Delivery : (Pending(x)' <=> Pending(x)) /\ (Final(x)' <=> Final(x))
    BY DEF Pending, Final
  <2>2. /\ \A e \in Dispatcher, x \in Delivery : Holds(e, x)' <=> Holds(e, x)
        /\ \A x \in Delivery : Answered(x)' <=> Answered(x)
    BY <1>0 DEF Holds, Answered
  <2> QED
    BY <1>0, <2>1, <2>2 DEF Alone
<1> QED
  BY <1>0, <1>1, <1>2, <1>3 DEF HookInv

\* A dispatcher that is down has nothing in hand.
LEMMA RestartKeeps ==
  ASSUME HookInv, NEW d \in Dispatcher, Restart(d)
  PROVE  HookInv'
<1>0. /\ HookTypeOK /\ DispatcherShape /\ RowsFit /\ ClaimsFit /\ Alone
      /\ repeated \subseteq contested /\ step[d] = "down"
      /\ step' = [step EXCEPT ![d] = "poll"]
      /\ UNCHANGED <<delivery, endpoint, batch, current, answer, crashes, operations,
                     tries, accepted, repeated, contested>>
  BY DEF HookInv, Restart, countVars, postVars
<1>1. \A e \in Dispatcher : step'[e] = IF e = d THEN "poll" ELSE step[e]
  BY <1>0 DEF HookTypeOK
<1>2. HookTypeOK' /\ DispatcherShape' /\ RowsFit' /\ ClaimsFit'
  BY <1>0, <1>1 DEF HookTypeOK, DispatcherShape, RowsFit, ClaimsFit
<1>3. Alone'
  <2>1. \A x \in Delivery : /\ (Pending(x)' <=> Pending(x)) /\ (Final(x)' <=> Final(x))
                            /\ \A e \in Dispatcher : Holds(e, x)' <=> Holds(e, x)
                            /\ (Answered(x) => Answered(x)')
    BY <1>0, <1>1 DEF Pending, Final, Holds, Answered
  <2> QED
    BY <1>0, <2>1 DEF Alone
<1> QED
  BY <1>0, <1>2, <1>3 DEF HookInv

\* An operator adds a row: nobody holds a row that is free, and none was accepted.
LEMMA InsertKeeps ==
  ASSUME HookInv, NEW x \in Delivery, NEW e \in Endpoint, NEW logged \in BOOLEAN,
         Insert(x, NewDelivery(e, logged))
  PROVE  HookInv'
<1> DEFINE v == NewDelivery(e, logged)
<1>0. /\ HookTypeOK /\ DispatcherShape /\ RowsFit /\ ClaimsFit /\ Alone
      /\ repeated \subseteq contested /\ delivery[x] = NoDelivery
      /\ delivery' = [delivery EXCEPT ![x] = v]
      /\ operations' = operations + 1 /\ operations < MaxOperations
      /\ UNCHANGED <<endpoint, step, batch, current, answer, crashes, tries, accepted,
                     repeated, contested>>
  BY DEF HookInv, Insert, Operator, workVars, postVars
<1>1. /\ v \in Row /\ v.status = "pending" /\ v.attempt = 0 /\ MaxAttempts \in Nat \ {0}
      /\ \A y \in Delivery : delivery'[y] = IF y = x THEN v ELSE delivery[y]
  <2>1. v \in Row /\ v.status = "pending" /\ v.attempt = 0
    BY NewRow
  <2> HIDE DEF v
  <2> QED
    BY <1>0, <2>1, WebhookAssumption DEF HookTypeOK
<1>2. \A d \in Dispatcher : ~Holds(d, x)
  BY <1>0 DEF ClaimsFit, Holds
<1>3. HookTypeOK'
  BY <1>0, <1>1, WebhookAssumption DEF HookTypeOK, Row
<1>4. DispatcherShape'
  BY <1>0 DEF DispatcherShape
<1>5. RowsFit'
  <2>1. 0 <= tries[x]
    BY <1>0, <1>1 DEF HookTypeOK
  <2> QED
    BY <1>0, <1>1, <2>1 DEF RowsFit
<1>6. ClaimsFit'
  <2>1. \A d \in Dispatcher : \A b \in batch[d] : b.id \in Delivery
    BY <1>0, ClaimFields
  <2> QED
    BY <1>0, <1>1, <2>1 DEF ClaimsFit, Row
<1>7. Alone'
  <2> SUFFICES ASSUME NEW y \in Delivery \ contested
               PROVE  /\ \A f, g \in Dispatcher : Holds(f, y)' /\ Holds(g, y)' => f = g
                      /\ \A f \in Dispatcher : Holds(f, y)' => Pending(y)'
                      /\ y \in accepted => Final(y)' \/ Answered(y)'
    BY <1>0 DEF Alone
  <2>1. /\ \A f \in Dispatcher : Holds(f, y)' <=> Holds(f, y)
        /\ Answered(y)' <=> Answered(y)
    BY <1>0 DEF Holds, Answered
  <2>2. CASE y = x
    <3>1. ~Final(y) /\ ~Answered(y)
      BY <1>0, <1>2, <2>2, AnsweredHolds DEF Final, FinalStatus, NoDelivery
    <3> QED
      BY <1>0, <1>2, <2>1, <2>2, <3>1 DEF Alone
  <2>3. CASE y # x
    <3>1. (Pending(y)' <=> Pending(y)) /\ (Final(y)' <=> Final(y))
      BY <1>1, <2>3 DEF Pending, Final
    <3> QED
      BY <1>0, <2>1, <3>1 DEF Alone
  <2> QED
    BY <2>2, <2>3
<1> QED
  BY <1>0, <1>3, <1>4, <1>5, <1>6, <1>7 DEF HookInv

\* An operator drops a delivery, in whatever status: one in flight is contested.
LEMMA DropKeeps ==
  ASSUME HookInv, NEW x \in Delivery, Drop(x)
  PROVE  HookInv'
<1> DEFINE v == [delivery[x] EXCEPT !.status = "dropped"]
<1>0. /\ HookTypeOK /\ DispatcherShape /\ RowsFit /\ ClaimsFit /\ Alone
      /\ repeated \subseteq contested /\ delivery[x] # NoDelivery
      /\ contested' = contested \cup (IF Holding(x) # {} THEN {x} ELSE {})
      /\ operations' = operations + 1 /\ operations < MaxOperations
      /\ UNCHANGED <<endpoint, step, batch, current, answer, crashes, tries, accepted, repeated>>
  BY DEF HookInv, Drop, Operator, Contested, workVars, postVars
<1>1. /\ delivery[x] \in Row
      /\ delivery[x] \in [status : FinalStatus \cup {"pending"}, attempt : 0..MaxAttempts,
                          due : BOOLEAN, endpoint : Endpoint, logged : BOOLEAN]
  BY <1>0, RowFields DEF HookTypeOK, Row
<1>2. v \in Row /\ v.status = "dropped" /\ v.attempt = delivery[x].attempt
  BY <1>1, RowBuilt DEF FinalStatus
<1>3. /\ delivery' = [delivery EXCEPT ![x] = v]
      /\ \A y \in Delivery : delivery'[y] = IF y = x THEN v ELSE delivery[y]
  BY <1>0 DEF HookTypeOK, Drop
<1> HIDE DEF v
<1>4. HookTypeOK'
  BY <1>0, <1>2, <1>3, WebhookAssumption DEF HookTypeOK, Row
<1>5. DispatcherShape' /\ RowsFit'
  BY <1>0, <1>2, <1>3 DEF DispatcherShape, RowsFit
<1>6. ClaimsFit'
  <2>1. \A d \in Dispatcher : \A b \in batch[d] : b.id \in Delivery
    BY <1>0, ClaimFields
  <2> QED
    BY <1>0, <1>2, <1>3, <2>1 DEF ClaimsFit, Row
<1>7. Alone'
  <2> SUFFICES ASSUME NEW y \in Delivery \ contested'
               PROVE  /\ \A f, g \in Dispatcher : Holds(f, y)' /\ Holds(g, y)' => f = g
                      /\ \A f \in Dispatcher : Holds(f, y)' => Pending(y)'
                      /\ y \in accepted => Final(y)' \/ Answered(y)'
    BY <1>0 DEF Alone
  <2>1. /\ y \notin contested
        /\ \A f \in Dispatcher : Holds(f, y)' <=> Holds(f, y)
        /\ Answered(y)' <=> Answered(y)
    BY <1>0 DEF Holds, Answered
  <2>2. CASE y = x
    <3>1. \A f \in Dispatcher : ~Holds(f, y)
      BY <1>0, <2>2 DEF Holding, Holds
    <3>2. Final(y)'
      BY <1>2, <1>3, <2>2 DEF Final, FinalStatus
    <3> QED
      BY <2>1, <3>1, <3>2
  <2>3. CASE y # x
    <3>1. (Pending(y)' <=> Pending(y)) /\ (Final(y)' <=> Final(y))
      BY <1>3, <2>3 DEF Pending, Final
    <3> QED
      BY <1>0, <2>1, <3>1 DEF Alone
  <2> QED
    BY <2>2, <2>3
<1> QED
  BY <1>0, <1>4, <1>5, <1>6, <1>7 DEF HookInv

\* What the invariant says at the start.
LEMMA HookInitInvariant == HookInit => HookInv
<1> SUFFICES ASSUME HookInit PROVE HookInv
  OBVIOUS
<1>1. PICK to \in [Initial -> Endpoint] :
        delivery = [x \in Delivery |-> IF x \in Initial THEN NewDelivery(to[x], TRUE) ELSE NoDelivery]
  BY DEF HookInit
<1>2. \A e \in Endpoint : NewDelivery(e, TRUE) \in Row
  BY NewRow
<1>3. delivery \in [Delivery -> Deliveries]
  BY <1>1, <1>2 DEF Row, Deliveries
<1>4. HookTypeOK
  <2>1. 0 \in 0..MaxAttempts /\ 0 \in 0..MaxCrashes /\ 0 \in 0..MaxOperations
    BY WebhookAssumption
  <2>2. endpoint \in [Endpoint -> [enabled : BOOLEAN, signed : BOOLEAN, wellFormed : BOOLEAN]]
    BY DEF HookInit
  <2> QED
    BY <1>3, <2>1, <2>2 DEF HookInit, HookTypeOK
<1>5. \A x \in Delivery : delivery[x].attempt = 0 /\ delivery[x].status \in {"absent", "pending"}
  BY <1>1 DEF NewDelivery, NoDelivery
<1>6. DispatcherShape /\ ClaimsFit /\ Alone
  BY DEF HookInit, DispatcherShape, ClaimsFit, Alone, Holds
<1>7. RowsFit
  <2>1. 0 <= 0 /\ 0 < MaxAttempts
    BY WebhookAssumption
  <2>2. \A x \in Delivery : tries[x] = 0
    BY DEF HookInit
  <2> QED
    BY <1>5, <2>1, <2>2 DEF RowsFit
<1> QED
  BY <1>4, <1>6, <1>7 DEF HookInit, HookInv

\* Every step of a dispatcher or an operator keeps the invariant.
LEMMA HookStepInvariant == HookInv /\ [HookNext]_hookVars => HookInv'
<1> SUFFICES ASSUME HookInv, [HookNext]_hookVars PROVE HookInv'
  OBVIOUS
<1>0. HookTypeOK
  BY DEF HookInv
<1>1. ASSUME NEW d \in Dispatcher, Malformed(d) \/ Crash(d) PROVE HookInv'
  <2>1. /\ Down(d) /\ crashes' \in 0..MaxCrashes
        /\ UNCHANGED <<delivery, endpoint, operations, postVars>>
    BY <1>0, <1>1, WebhookAssumption DEF Malformed, Crash, HookTypeOK, countVars
  <2> QED
    BY <2>1, DownKeeps
<1>2. ASSUME NEW d \in Dispatcher, Dispatch(d) PROVE HookInv'
  BY <1>1, <1>2, ClaimKeeps, UnsignedKeeps, PostKeeps, RecordKeeps, RecordFailsKeeps,
     CatchKeeps, RestartKeeps DEF Dispatch
<1>3. ASSUME NEW e \in Endpoint, SetEnabled(e) \/ UpdateEndpoint(e) \/ RotateSecret(e)
      PROVE  HookInv'
  <2>1. endpoint' \in [Endpoint -> [enabled : BOOLEAN, signed : BOOLEAN, wellFormed : BOOLEAN]]
    <3>1. endpoint[e] \in [enabled : BOOLEAN, signed : BOOLEAN, wellFormed : BOOLEAN]
      BY <1>0 DEF HookTypeOK
    <3>2. PICK u \in [enabled : BOOLEAN, signed : BOOLEAN, wellFormed : BOOLEAN] :
            endpoint' = [endpoint EXCEPT ![e] = u]
      BY <1>3, <3>1 DEF SetEnabled, UpdateEndpoint, RotateSecret
    <3> QED
      BY <1>0, <3>2 DEF HookTypeOK
  <2>2. /\ UNCHANGED <<delivery, contested, workVars, crashes, postVars>>
        /\ operations' \in 0..MaxOperations
    BY <1>0, <1>3, WebhookAssumption
    DEF SetEnabled, UpdateEndpoint, RotateSecret, rowVars, Operator, HookTypeOK
  <2> QED
    BY <1>0, <2>1, <2>2, QuietKeeps DEF HookTypeOK
<1>4. ASSUME NEW x \in Delivery, Elapse(x) PROVE HookInv'
  <2>1. delivery[x] \in Row
    BY <1>0, <1>4 DEF Elapse, Pending, HookTypeOK, Row, NoDelivery
  <2> DEFINE v == [delivery[x] EXCEPT !.due = TRUE]
  <2>2. v \in Row /\ v.status = delivery[x].status /\ v.attempt = delivery[x].attempt
    BY <2>1, RowFields, RowBuilt
  <2>3. /\ delivery' = [delivery EXCEPT ![x] = v]
        /\ UNCHANGED <<endpoint, workVars, crashes, operations, postVars, contested>>
    BY <1>0, <1>4 DEF Elapse, HookTypeOK, countVars
  <2> HIDE DEF v
  <2>4. /\ delivery' \in [Delivery -> Deliveries]
        /\ \A y \in Delivery : /\ delivery'[y].status = delivery[y].status
                               /\ delivery'[y].attempt = delivery[y].attempt
    BY <1>0, <2>2, <2>3 DEF HookTypeOK, Row
  <2> QED
    BY <1>0, <2>3, <2>4, QuietKeeps DEF HookTypeOK
<1>5. ASSUME NEW x \in Delivery, Requeue(x) PROVE HookInv'
  <2>1. PICK old \in Delivery :
          /\ delivery[old] # NoDelivery
          /\ Insert(x, NewDelivery(delivery[old].endpoint, delivery[old].logged))
    BY <1>5 DEF Requeue
  <2>2. delivery[old].endpoint \in Endpoint /\ delivery[old].logged \in BOOLEAN
    BY <1>0, <2>1, RowFields DEF HookTypeOK, Row
  <2> QED
    BY <2>1, <2>2, InsertKeeps
<1>6. ASSUME NEW x \in Delivery, TestPing(x) PROVE HookInv'
  BY <1>6, InsertKeeps DEF TestPing
<1>7. ASSUME NEW x \in Delivery, Drop(x) PROVE HookInv'
  BY <1>7, DropKeeps
<1>8. CASE UNCHANGED hookVars
  BY <1>0, <1>8, QuietKeeps DEF hookVars, workVars, postVars, HookTypeOK
<1> QED
  BY <1>1, <1>2, <1>3, <1>4, <1>5, <1>6, <1>7, <1>8 DEF HookNext

\* The inductive invariant of the deliveries.
THEOREM HookInvariantHolds == HookSpec => []HookInv
BY HookInitInvariant, HookStepInvariant, PTL DEF HookSpec

-----------------------------------------------------------------------------
(* What the invariant says of the code.                                    *)

\* Rows, claims and histories have their types: no attempt number exceeds the
\* maximum, whatever claims overwrite (retryOrDlq).
THEOREM HookTypesHold == HookSpec => []HookTypeOK
<1>1. HookInv => HookTypeOK
  BY DEF HookInv
<1> QED
  BY <1>1, HookInvariantHolds, PTL

\* An attempt number never runs ahead of the POSTs, and a delivery is given up
\* only when the maximum was made, however many dispatchers write from what they
\* once read (claimBatch takes no lock).
THEOREM AttemptsAreMade == HookSpec => []AttemptsWereMade
<1>1. HookInv => AttemptsWereMade
  BY DEF HookInv, RowsFit, AttemptsWereMade
<1> QED
  BY <1>1, HookInvariantHolds, PTL

\* "delivered" is said only of what an endpoint accepted, and only what was
\* contested is posted again after that.
THEOREM AcceptedIsNotRepeated == HookSpec => []AcceptedOnce
<1>1. HookInv => AcceptedOnce
  BY DEF HookInv, RowsFit, AcceptedOnce
<1> QED
  BY <1>1, HookInvariantHolds, PTL

\* A dispatcher that finishes a claim writes the row of a delivery that is pending
\* or contested.
LEMMA FinishWritesPending ==
  ASSUME HookInv, NEW d \in Dispatcher, NEW c \in batch[d],
         NEW x \in Delivery \ contested, Final(x)
  PROVE  c.id # x
<1> SUFFICES ASSUME c.id = x PROVE FALSE
  OBVIOUS
<1>1. Holds(d, x)
  BY DEF Holds
<1>2. Pending(x)
  BY <1>1 DEF HookInv, Alone
<1> QED
  BY <1>2 DEF Pending, Final, FinalStatus

\* A delivery whose fate is not contested keeps its final status, unless it is
\* dropped: a late write revives nothing.
THEOREM FinalStaysFinal == HookSpec => FinalUnlessContested
<1>1. HookInv /\ [HookNext]_hookVars
        => [\A x \in Delivery \ contested' :
              Final(x) => delivery'[x].status \in {delivery[x].status, "dropped"}]_hookVars
  <2> SUFFICES ASSUME HookInv, HookNext, NEW x \in Delivery \ contested', Final(x)
               PROVE  delivery'[x].status \in {delivery[x].status, "dropped"}
    OBVIOUS
  <2>0. delivery \in [Delivery -> Deliveries]
    BY DEF HookInv, HookTypeOK
  <2>1. contested \subseteq contested'
    BY DEF HookNext, Dispatch, ClaimBatch, Unsigned, Post, Record, RecordFails, Catch,
       Malformed, Crash, Restart, Down, SetEnabled, UpdateEndpoint, RotateSecret, Elapse,
       Requeue, TestPing, Insert, Drop, Contested, rowVars
  <2>2. ASSUME NEW d \in Dispatcher, NEW c \in batch[d], NEW v,
               delivery' = [delivery EXCEPT ![c.id] = v]
        PROVE  delivery'[x] = delivery[x]
    <3>1. c.id # x
      BY <2>1, FinishWritesPending
    <3> QED
      BY <2>0, <2>2, <3>1
  <2>3. ASSUME NEW d \in Dispatcher, NEW c \in batch[d], NEW status, NEW n,
               UpdateStatus(c, status, n)
        PROVE  delivery'[x] = delivery[x]
    <3>1. delivery' = [delivery EXCEPT ![c.id] = [delivery[c.id] EXCEPT !.status = status, !.attempt = n]]
      BY <2>0, <2>3 DEF UpdateStatus
    <3> QED
      BY <2>2, <3>1
  <2>4. ASSUME NEW d \in Dispatcher, NEW c \in batch[d], NEW a, HandleResponse(c, a)
        PROVE  delivery'[x] = delivery[x]
    <3>1. c.id # x
      BY <2>1, FinishWritesPending
    <3> QED
      BY <2>0, <2>4, <3>1 DEF HandleResponse, RetryOrDlq, UpdateStatus
  <2>5. ASSUME NEW d \in Dispatcher, Unsigned(d) PROVE delivery'[x] = delivery[x]
    BY <2>3, <2>5 DEF Unsigned
  <2>6. ASSUME NEW d \in Dispatcher, Record(d) \/ RecordFails(d) \/ Catch(d)
        PROVE  delivery'[x] = delivery[x]
    <3>1. current[d] \in batch[d]
      BY <2>6 DEF HookInv, DispatcherShape, Record, RecordFails, Catch
    <3>2. UNCHANGED delivery \/ \E a : HandleResponse(current[d], a)
      BY <2>6 DEF Record, RecordFails, Catch, HandleResponse
    <3> QED
      BY <2>4, <3>1, <3>2
  <2>7. NoDelivery.status \notin FinalStatus
    BY DEF NoDelivery, FinalStatus
  <2>8. ASSUME NEW y \in Delivery, Elapse(y) \/ Drop(y)
        PROVE  delivery'[x].status \in {delivery[x].status, "dropped"}
    <3>1. CASE x # y
      BY <2>0, <2>8, <3>1 DEF Elapse, Drop
    <3>2. CASE x = y
      <4>1. delivery[x] \in [status : FinalStatus \cup {"pending"}, attempt : 0..MaxAttempts,
                            due : BOOLEAN, endpoint : Endpoint, logged : BOOLEAN]
        BY <2>0, <2>7, RowFields DEF Final, Row
      <4>2. CASE Drop(y)
        BY <2>0, <3>2, <4>1, <4>2 DEF Drop
      <4>3. CASE Elapse(y)
        BY <2>0, <3>2, <4>1, <4>3 DEF Elapse
      <4> QED
        BY <2>8, <4>2, <4>3
    <3> QED
      BY <3>1, <3>2
  <2>9. ASSUME NEW y \in Delivery, Requeue(y) \/ TestPing(y)
        PROVE  delivery'[x] = delivery[x]
    <3>1. x # y
      <4>1. delivery[y] = NoDelivery
        BY <2>9 DEF Requeue, TestPing, Insert
      <4> QED
        BY <2>7, <4>1 DEF Final
    <3> QED
      BY <2>0, <2>9, <3>1 DEF Requeue, TestPing, Insert
  <2>10. ASSUME NEW d \in Dispatcher,
               ClaimBatch(d) \/ Post(d) \/ Malformed(d) \/ Restart(d) \/ Crash(d)
        PROVE  UNCHANGED delivery
    BY <2>10 DEF ClaimBatch, Post, Malformed, Restart, Crash
  <2>11. ASSUME NEW e \in Endpoint, SetEnabled(e) \/ UpdateEndpoint(e) \/ RotateSecret(e)
         PROVE  UNCHANGED delivery
    BY <2>11 DEF SetEnabled, UpdateEndpoint, RotateSecret, rowVars
  <2> QED
    BY <2>5, <2>6, <2>8, <2>9, <2>10, <2>11 DEF HookNext, Dispatch
<1> QED
  BY <1>1, HookInvariantHolds, PTL DEF HookSpec, FinalUnlessContested

===============================================================================
