-------------------------------- MODULE EventLog --------------------------------
(***************************************************************************)
(* The table event_log as the API's /v1/events routes see it: lists, single *)
(* events, and POST /v1/events/:id/replay (or resend), which writes an      *)
(* event of its own, against the registry of event types that every event  *)
(* must be in to be rendered.                                               *)
(*                                                                         *)
(* A type is its family and what happened, <<"hold", "created">>.  Events   *)
(* are named by their place in the table, which is the order of created_at; *)
(* nothing deletes or changes them.  Of the middleware around a replay only *)
(* what it does with the key is here, without failing calls: IntentApi has  *)
(* the rest.                                                                *)
(***************************************************************************)
EXTENDS Naturals, Sequences, FiniteSets, FiniteSetsExt

-----------------------------------------------------------------------------
(* EVENT_TYPE_REGISTRY.                                                    *)

Of(family, happenings) == {<<family, h>> : h \in happenings}

IntentHappenings == {"requires_action", "processing", "succeeded", "failed", "canceled"}

IntentTypes ==
  Of("account", {"created", "updated"})
    \cup Of("asset", {"created", "updated", "suspended"})
    \cup Of("issue_intent", IntentHappenings)
    \cup Of("redeem_intent", IntentHappenings)

HoldTypes ==
  Of("transfer_intent", IntentHappenings)
    \cup Of("hold", {"created", "released", "consumed", "expired"})
    \cup Of("webhook_endpoint", {"created", "secret_rotated", "disabled"})
    \cup Of("api_key", {"created", "revoked", "rotated"})

OfficeTypes ==
  Of("export_job", {"queued", "succeeded", "failed"})
    \cup Of("file", {"uploaded", "scanned", "deleted"})
    \cup Of("evidence_file", {"linked", "verified"})
    \cup Of("compliance_decision", {"approved", "rejected", "requires_action"})
    \cup Of("onboarding", {"completed", "failed"})
    \cup Of("invoice", {"created", "paid", "uncollectible"})
    \cup Of("usage", {"threshold_reached"})

ProjectionTypes ==
  Of("balance", {"updated"})
    \cup Of("holding", {"created", "updated", "closed"})
    \cup Of("transfer", {"created", "succeeded", "failed", "canceled"})
    \cup Of("request", {"rate_limit_hit"})
    \cup Of("webhook_delivery", {"failed", "succeeded"})
    \cup Of("template_version", {"activated"})
    \cup Of("search_index", {"rebuilt"})

EventTypes == IntentTypes \cup HoldTypes \cup OfficeTypes \cup ProjectionTypes

ReplayRequested == <<"event", "replay_requested">>

-----------------------------------------------------------------------------
CONSTANTS
  Tenant,
  Poster,        \* POST requests
  Emitted,       \* types of the events others write
  PageSize,      \* 100
  MaxEvents      \* bound of the table

ASSUME EventLogAssumption ==
  /\ Emitted \subseteq EventTypes
  /\ PageSize \in Nat \ {0} /\ MaxEvents \in Nat

VARIABLES
  eventLog,      \* rows, oldest first
  posted,        \* each POST: where it is, whose it is, what it asks to replay
  keyStatus,     \* tenant -> status of the one Idempotency-Key its POSTs carry
  replayed       \* history: the POSTs that wrote a row

eventLogVars == <<eventLog, posted, keyStatus, replayed>>

Event == 1..MaxEvents

EventRows == [type : EventTypes \cup {ReplayRequested}, tenant : Tenant, live : BOOLEAN]

Waiting == {"select", "insert", "render"}

EventLogTypeOK ==
  /\ eventLog \in Seq(EventRows) /\ Len(eventLog) <= MaxEvents
  /\ posted \in [Poster -> [at : {"new", "replied", "refused", "failed"} \cup Waiting,
                            tenant : Tenant, event : Event]]
  /\ keyStatus \in [Tenant -> {"free", "in_progress", "completed"}]
  /\ replayed \subseteq Poster

\* renderEvent's first line: another type is an error, whatever it is rendered for.
Renders(type) == type \in EventTypes

-----------------------------------------------------------------------------
(* Reading: the result of a list is its events, or the error of one.       *)

\* Those of one tenant and mode; no types stands for all.
Matching(t, live, types) ==
  {e \in DOMAIN eventLog :
     /\ eventLog[e].tenant = t
     /\ eventLog[e].live = live
     /\ types = {} \/ eventLog[e].type \in types}

\* order by created_at desc limit 100
Latest(events) == {e \in events : Quantify(events, LAMBDA f : f > e) < PageSize}

ListEvents(t, live, types) ==
  LET page == Latest(Matching(t, live, types)) IN
  IF \A e \in page : Renders(eventLog[e].type) THEN [ok |-> TRUE, events |-> page]
  ELSE [ok |-> FALSE, events |-> {}]

\* The mode of the caller's key is not asked for.
Found(t, e) == e \in DOMAIN eventLog /\ eventLog[e].tenant = t

-----------------------------------------------------------------------------
(* enqueueReplay.                                                          *)

At(p, step) == posted' = [posted EXCEPT ![p].at = step]

\* The middleware claims the key, or refuses.  The hash it compares has the
\* template of the path, so which event is asked for does not count.
PostReplay(p, t, e) ==
  /\ posted[p].at = "new"
  /\ e \in 1..(Len(eventLog) + 1)
  /\ posted' = [posted EXCEPT ![p] =
       [at |-> IF keyStatus[t] = "free" THEN "select" ELSE "refused",
        tenant |-> t, event |-> e]]
  /\ keyStatus' = [keyStatus EXCEPT ![t] = IF @ = "free" THEN "in_progress" ELSE @]
  /\ UNCHANGED <<eventLog, replayed>>

\* onError gives the key back.
Fail(p) ==
  /\ At(p, "failed")
  /\ keyStatus' = [keyStatus EXCEPT ![posted[p].tenant] = "free"]

\* The original is selected and rendered into the payload.
SelectOriginal(p) ==
  /\ posted[p].at = "select"
  /\ IF Found(posted[p].tenant, posted[p].event) /\ Renders(eventLog[posted[p].event].type)
       THEN At(p, "insert") /\ UNCHANGED keyStatus
       ELSE Fail(p)
  /\ UNCHANGED <<eventLog, replayed>>

\* Faulty: the row keeps the default of its column, test mode.
TestReplayRow(p) == [type |-> ReplayRequested, tenant |-> posted[p].tenant, live |-> FALSE]

ReplayRow(p) ==
  [type |-> ReplayRequested, tenant |-> posted[p].tenant,
   live |-> eventLog[posted[p].event].live]

InsertReplay(p) ==
  /\ posted[p].at = "insert"
  /\ Len(eventLog) < MaxEvents
  /\ eventLog' = Append(eventLog, ReplayRow(p))
  /\ replayed' = replayed \cup {p}
  /\ At(p, "render")
  /\ UNCHANGED keyStatus

\* What was inserted is rendered for the answer, which onSend stores.
RenderReplay(p) ==
  /\ posted[p].at = "render"
  /\ IF Renders(ReplayRequested)
       THEN /\ At(p, "replied")
            /\ keyStatus' = [keyStatus EXCEPT ![posted[p].tenant] = "completed"]
       ELSE Fail(p)
  /\ UNCHANGED <<eventLog, replayed>>

\* Whoever writes events (nothing in the repository does yet).
Emit(type, t, live) ==
  /\ Len(eventLog) < MaxEvents
  /\ eventLog' = Append(eventLog, [type |-> type, tenant |-> t, live |-> live])
  /\ UNCHANGED <<posted, keyStatus, replayed>>

-----------------------------------------------------------------------------
EventLogInit ==
  /\ eventLog = <<>>
  /\ posted = [p \in Poster |-> [at |-> "new", tenant |-> CHOOSE t \in Tenant : TRUE,
                                 event |-> 1]]
  /\ keyStatus = [t \in Tenant |-> "free"]
  /\ replayed = {}

EventLogNext ==
  \/ \E type \in Emitted, t \in Tenant, live \in BOOLEAN : Emit(type, t, live)
  \/ \E p \in Poster :
       \/ \E t \in Tenant, e \in Event : PostReplay(p, t, e)
       \/ SelectOriginal(p) \/ InsertReplay(p) \/ RenderReplay(p)

EventLogSpec == EventLogInit /\ [][EventLogNext]_eventLogVars

-----------------------------------------------------------------------------
\* A tenant's list fails in one mode only after it replayed an event of that mode
\* itself, and even then not when it asks for types of the registry: replays by
\* other tenants, or in the other mode, break nobody's list.
BreakageIsContained ==
  \A t \in Tenant, live \in BOOLEAN :
    /\ ~ListEvents(t, live, {}).ok =>
         \E p \in replayed :
           posted[p].tenant = t /\ eventLog[posted[p].event].live = live
    /\ ListEvents(t, live, EventTypes).ok

\* event-repo.test.ts: 'enqueueReplay is idempotent per tenant and key'.
ReplayedOncePerKey ==
  \A p, q \in replayed :
    posted[p].tenant = posted[q].tenant /\ posted[p].event = posted[q].event => p = q

=============================================================================
