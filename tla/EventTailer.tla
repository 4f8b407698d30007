------------------------------ MODULE EventTailer ------------------------------
(***************************************************************************)
(* EventLogTailer: how the rows of event_log of one tenant and mode reach   *)
(* the broker.  Transactions stamp their rows with the time they began and  *)
(* commit in any order; a commit notifies the tailer if it listens, which   *)
(* then starts a poll, whether or not another is under way; a tailer that   *)
(* could not listen polls again and again.                                  *)
(*                                                                         *)
(* Time is in microseconds, Millisecond of which make one (a bound: 1000).  *)
(* The cursor lastSeen is a JavaScript date, so it is the stamp of the last *)
(* row cut to milliseconds.  A poll queries with the cursor of that moment  *)
(* and publishes, and moves the cursor, when the answer comes.              *)
(***************************************************************************)
EXTENDS Naturals, FiniteSets, FiniteSetsExt

CONSTANTS
  Event,             \* rows of event_log
  Poll,              \* polls that may be under way at once
  Limit,             \* rows a poll asks for, 512 in the code
  Millisecond,       \* ticks of the clock in a millisecond
  MaxTime,           \* bound: the clock
  MaxPollFailures    \* bound: polls that fail

ASSUME TailerAssumption ==
  /\ Limit \in Nat \ {0} /\ Millisecond \in Nat \ {0}
  /\ MaxTime \in Nat /\ MaxPollFailures \in Nat

VARIABLES
  now,               \* the clock of the database
  stamp,             \* created_at of the rows inserted so far
  committed,         \* the rows whose transaction has committed
  notified,          \* rows whose notification is on its way
  mode,              \* how the tailer learns of rows
  lastSeen,          \* its cursor
  poll,              \* what each poll is doing
  failures,          \* count of failed polls
  forwarded,         \* the rows published to the broker
  overtaken          \* history: see CommitEvent

tailerVars == <<now, stamp, committed, notified, mode, lastSeen, poll, failures,
                forwarded, overtaken>>

logVars == <<now, stamp, committed, overtaken>>

cursorVars == <<notified, mode, lastSeen, poll, failures, forwarded>>

NoPoll == [at |-> "idle", rows |-> {}]

\* In particular no answer has more rows than were asked for.
TailerTypeOK ==
  /\ now \in 0..MaxTime
  /\ stamp \in [Event -> 0..MaxTime]
  /\ notified \subseteq Event
  /\ mode \in {"down", "listening", "polling", "stopped"}
  /\ lastSeen \in 0..MaxTime
  /\ poll \in [Poll -> [at : {"idle", "connect", "answer"}, rows : SUBSET Event]]
  /\ \A p \in Poll : Cardinality(poll[p].rows) <= Limit
  /\ failures \in 0..MaxPollFailures
  /\ committed \cup forwarded \cup overtaken \subseteq Event

-----------------------------------------------------------------------------
(* event_log.                                                              *)

\* A date holds whole milliseconds.
AsDate(t) == (t \div Millisecond) * Millisecond

AdvanceClock ==
  /\ now < MaxTime
  /\ now' = now + 1
  /\ UNCHANGED <<stamp, committed, overtaken, cursorVars>>

\* created_at defaults to now(), the start of the transaction.
InsertEvent(e) ==
  /\ stamp[e] = 0 /\ now > 0
  /\ stamp' = [stamp EXCEPT ![e] = now]
  /\ UNCHANGED <<now, committed, overtaken, cursorVars>>

\* A cursor that has reached f is past e.
Passes(f, e) == AsDate(stamp[f]) >= stamp[e]

\* The trigger's notification leaves with the commit.  A row is overtaken if one
\* that passes it is committed already, or has the very same stamp.
CommitEvent(e) ==
  /\ stamp[e] # 0 /\ e \notin committed
  /\ committed' = committed \cup {e}
  /\ notified' = IF mode = "listening" THEN notified \cup {e} ELSE notified
  /\ overtaken' = overtaken \cup {f \in committed : stamp[f] = stamp[e] /\ Passes(e, f)}
                            \cup {f \in {e} : \E g \in committed : Passes(g, f)}
  /\ UNCHANGED <<now, stamp, mode, lastSeen, poll, failures, forwarded>>

-----------------------------------------------------------------------------
(* EventLogTailer.                                                         *)

\* start: LISTEN, or fall back on polling.  Nothing polls at once.
StartTailer ==
  /\ mode = "down"
  /\ mode' \in {"listening", "polling"}
  /\ UNCHANGED <<logVars, notified, lastSeen, poll, failures, forwarded>>

StopTailer ==
  /\ mode \in {"listening", "polling"}
  /\ mode' = "stopped"
  /\ notified' = {}
  /\ UNCHANGED <<logVars, lastSeen, poll, failures, forwarded>>

BeginPoll(p) == poll' = [poll EXCEPT ![p] = [at |-> "connect", rows |-> {}]]

\* handleNotification: a poll of its own for every notification.
Notified(p, e) ==
  /\ e \in notified
  /\ poll[p].at = "idle"
  /\ notified' = notified \ {e}
  /\ BeginPoll(p)
  /\ UNCHANGED <<logVars, mode, lastSeen, failures, forwarded>>

\* schedulePoll: the next one starts when the last one has ended.
TimerPoll(p) ==
  /\ mode = "polling"
  /\ \A q \in Poll : poll[q].at = "idle"
  /\ BeginPoll(p)
  /\ UNCHANGED <<logVars, notified, mode, lastSeen, failures, forwarded>>

Unseen == {e \in committed : stamp[e] > lastSeen}

\* Faulty: no order.
AnyRows(X) == TRUE

\* order by created_at asc limit 512; equal stamps come in any order.
OldestUnseen(X) ==
  /\ Cardinality(X) = Min({Limit, Cardinality(Unseen)})
  /\ \A e \in X, f \in Unseen \ X : stamp[e] <= stamp[f]

\* The query is evaluated against what is committed by then.
QueryLog(p) ==
  /\ poll[p].at = "connect"
  /\ \E X \in SUBSET Unseen :
       /\ OldestUnseen(X)
       /\ poll' = [poll EXCEPT ![p] = [at |-> "answer", rows |-> X]]
  /\ UNCHANGED <<logVars, notified, mode, lastSeen, failures, forwarded>>

\* Faulty: the cursor of an answer without rows is the present.
CursorNow(X) == IF X = {} THEN AsDate(now) ELSE AsDate(Max({stamp[e] : e \in X}))

CursorAfter(X) == IF X = {} THEN lastSeen ELSE AsDate(Max({stamp[e] : e \in X}))

\* All rows of the answer are published in one turn; the cursor may go back.
PublishRows(p) ==
  /\ poll[p].at = "answer"
  /\ lastSeen' = CursorAfter(poll[p].rows)
  /\ forwarded' = forwarded \cup poll[p].rows
  /\ poll' = [poll EXCEPT ![p] = NoPoll]
  /\ UNCHANGED <<logVars, notified, mode, failures>>

\* Connecting or the query fails.  Nothing catches that for a notification, and
\* the process ends; a timer's poll is followed by the next one.
PollFails(p) ==
  /\ poll[p].at \in {"connect", "answer"}
  /\ failures < MaxPollFailures
  /\ failures' = failures + 1
  /\ IF mode # "listening"
       THEN poll' = [poll EXCEPT ![p] = NoPoll] /\ UNCHANGED <<notified, mode, lastSeen>>
       ELSE /\ poll' = [q \in Poll |-> NoPoll]
            /\ notified' = {}
            /\ mode' = "down"
            /\ lastSeen' = 0
  /\ UNCHANGED <<logVars, forwarded>>

-----------------------------------------------------------------------------
TailerInit ==
  /\ now = 0
  /\ stamp = [e \in Event |-> 0]
  /\ committed = {}
  /\ notified = {}
  /\ mode = "down"
  /\ lastSeen = 0
  /\ poll = [p \in Poll |-> NoPoll]
  /\ failures = 0
  /\ forwarded = {}
  /\ overtaken = {}

PollStep(p) == (\E e \in Event : Notified(p, e)) \/ TimerPoll(p) \/ QueryLog(p) \/ PublishRows(p)

TailerNext ==
  \/ AdvanceClock \/ StartTailer \/ StopTailer
  \/ \E e \in Event : InsertEvent(e) \/ CommitEvent(e)
  \/ \E p \in Poll : PollStep(p) \/ PollFails(p)

TailerFairness == \A p \in Poll : WF_tailerVars(PollStep(p))

-----------------------------------------------------------------------------
\* A committed row below the cursor that was not published, and so never will be,
\* was overtaken: the limit, milliseconds, overlapping polls that move the cursor
\* back, and failed polls lose nothing; commits in another order than that of
\* their stamps do.
LostOnlyIfOvertaken ==
  \A e \in committed : e \in forwarded \/ stamp[e] > lastSeen \/ e \in overtaken

\* A row the tailer was notified of, or that was committed when it polls, is
\* published in the end, unless it was overtaken, the tailer went down, or more
\* rows were newer than the cursor than one poll asks for.
EventuallyForwarded ==
  \A e \in Event :
    (e \in notified \/ (e \in committed /\ mode = "polling"))
      ~> (e \in forwarded \cup overtaken \/ mode \in {"down", "stopped"}
          \/ Cardinality(Unseen) > Limit)

=============================================================================
