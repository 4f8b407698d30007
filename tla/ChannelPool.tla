------------------------------- MODULE ChannelPool -------------------------------
(***************************************************************************)
(* The pool of gRPC channels of a ledger-command process (ChannelPool.kt):  *)
(* one channel per endpoint, made when it is asked for, and shut when       *)
(* nobody asked for it for IdleMillis.  Any thread may call get, closeIdle  *)
(* (which get calls first) and close at any time; only the operations of    *)
(* the ConcurrentHashMap are atomic.                                       *)
(*                                                                         *)
(* Channels are numbered in the order they are made.  Building one and      *)
(* shutting one cannot fail.  The counters of the metrics are left out.     *)
(***************************************************************************)
EXTENDS Naturals, FiniteSets

CONSTANTS
  Endpoint,        \* keys: an endpoint with its TLS profile
  PoolThread,
  IdleMillis,
  LastMilli,       \* bound of the clock
  MaxChannels      \* bound of the channels made

ASSUME PoolAssumption ==
  IdleMillis \in Nat \ {0} /\ LastMilli \in Nat /\ MaxChannels \in Nat

VARIABLES
  millis,          \* the clock
  entries,         \* endpoint -> its channel, 0 for none, and when it was last used
  built,           \* number of channels made
  shut,            \* channels that were shut
  thread,          \* what each thread is doing
  dropped          \* history: open channels that close took out of the pool

poolVars == <<millis, entries, built, shut, thread, dropped>>

Millis == 0..LastMilli

Channel == 1..MaxChannels

NoEntry == [channel |-> 0, lastUsed |-> 0]

\* `key` is what get was called for, `found` an idle channel and its key.
AtRest == [at |-> "rest", get |-> FALSE, key |-> CHOOSE k \in Endpoint : TRUE, now |-> 0,
           left |-> {}, found |-> 0, foundAt |-> CHOOSE k \in Endpoint : TRUE, closing |-> {}]

PoolTypeOK ==
  /\ millis \in Millis /\ built \in 0..MaxChannels /\ shut \subseteq Channel
  /\ entries \in [Endpoint -> [channel : {0} \cup Channel, lastUsed : Millis]]
  /\ thread \in [PoolThread ->
       [at : {"rest", "sweep", "remove", "shutdown", "compute", "close"},
        get : BOOLEAN, key : Endpoint, now : Millis, left : SUBSET Endpoint,
        found : {0} \cup Channel, foundAt : Endpoint, closing : SUBSET Channel]]
  /\ dropped \subseteq Channel

Open(c) == c # 0 /\ c \notin shut

Idle(now, entry) == entry # NoEntry /\ now - entry.lastUsed >= IdleMillis

-----------------------------------------------------------------------------
(* closeIdle, on its own or as the beginning of get(k).                    *)

CloseIdle(t, get, k) ==
  /\ thread[t].at = "rest"
  /\ thread' = [thread EXCEPT ![t] =
       [AtRest EXCEPT !.at = "sweep", !.get = get, !.key = k, !.now = millis,
                      !.left = Endpoint]]
  /\ UNCHANGED <<millis, entries, built, shut, dropped>>

\* forEach comes to an endpoint: the condition up to the removal.
Visit(t, k) ==
  /\ thread[t].at = "sweep" /\ k \in thread[t].left
  /\ thread' = [thread EXCEPT ![t].left = @ \ {k},
       ![t].at = IF Idle(thread[t].now, entries[k]) THEN "remove" ELSE "sweep",
       ![t].found = IF Idle(thread[t].now, entries[k]) THEN entries[k].channel ELSE 0,
       ![t].foundAt = k]
  /\ UNCHANGED <<millis, entries, built, shut, dropped>>

\* Faulty: remove(key), whatever entry the key has by now.
IsMapped(t) == entries[thread[t].foundAt] # NoEntry

\* remove(key, entry): the entry is still there, with whatever lastUsed by now.
IsStillThere(t) == entries[thread[t].foundAt].channel = thread[t].found

RemoveIdle(t) ==
  /\ thread[t].at = "remove"
  /\ IF IsStillThere(t)
       THEN /\ entries' = [entries EXCEPT ![thread[t].foundAt] = NoEntry]
            /\ thread' = [thread EXCEPT ![t].at = "shutdown"]
       ELSE /\ thread' = [thread EXCEPT ![t].at = "sweep"]
            /\ UNCHANGED entries
  /\ UNCHANGED <<millis, built, shut, dropped>>

ShutIdle(t) ==
  /\ thread[t].at = "shutdown"
  /\ shut' = shut \cup {thread[t].found}
  /\ thread' = [thread EXCEPT ![t].at = "sweep", ![t].found = 0]
  /\ UNCHANGED <<millis, entries, built, dropped>>

\* get goes on, and looks at the clock again.
EndSweep(t) ==
  /\ thread[t].at = "sweep" /\ thread[t].left = {}
  /\ thread' = [thread EXCEPT ![t] =
       IF @.get THEN [@ EXCEPT !.at = "compute", !.now = millis] ELSE AtRest]
  /\ UNCHANGED <<millis, entries, built, shut, dropped>>

-----------------------------------------------------------------------------
(* The rest of get: entries.compute.                                       *)

\* The entry that is there with a new time, or a new one.
Computed(t, k) ==
  [channel |-> IF Open(entries[k].channel) THEN entries[k].channel ELSE built + 1,
   lastUsed |-> thread[t].now]

Compute(t) ==
  LET k == thread[t].key
      c == Computed(t, k).channel
  IN
  /\ thread[t].at = "compute" /\ c <= MaxChannels
  /\ entries' = [entries EXCEPT ![k] = Computed(t, k)]
  /\ built' = IF c > built THEN c ELSE built
  /\ thread' = [thread EXCEPT ![t] = AtRest]
  /\ UNCHANGED <<millis, shut, dropped>>

-----------------------------------------------------------------------------
(* close.                                                                  *)

Pooled == {entries[k].channel : k \in Endpoint} \ {0}

Close(t) ==
  /\ thread[t].at = "rest"
  /\ thread' = [thread EXCEPT ![t] = [AtRest EXCEPT !.at = "close", !.closing = Pooled \ shut]]
  /\ UNCHANGED <<millis, entries, built, shut, dropped>>

\* Each channel is waited for before the next is shut.
ShutNext(t, c) ==
  /\ thread[t].at = "close" /\ c \in thread[t].closing
  /\ shut' = shut \cup {c}
  /\ thread' = [thread EXCEPT ![t].closing = @ \ {c}]
  /\ UNCHANGED <<millis, entries, built, dropped>>

\* clear drops channels that were made in the meantime as well.
Clear(t) ==
  /\ thread[t].at = "close" /\ thread[t].closing = {}
  /\ entries' = [k \in Endpoint |-> NoEntry]
  /\ dropped' = dropped \cup (Pooled \ shut)
  /\ thread' = [thread EXCEPT ![t] = AtRest]
  /\ UNCHANGED <<millis, built, shut>>

MilliPasses ==
  /\ millis < LastMilli
  /\ millis' = millis + 1
  /\ UNCHANGED <<entries, built, shut, thread, dropped>>

-----------------------------------------------------------------------------
PoolInit ==
  /\ millis = 0 /\ built = 0 /\ shut = {}
  /\ entries = [k \in Endpoint |-> NoEntry]
  /\ thread = [t \in PoolThread |-> AtRest]
  /\ dropped = {}

PoolNext ==
  \/ MilliPasses
  \/ \E t \in PoolThread :
       \/ \E get \in BOOLEAN, k \in Endpoint : CloseIdle(t, get, k)
       \/ \E k \in Endpoint : Visit(t, k)
       \/ RemoveIdle(t) \/ ShutIdle(t) \/ EndSweep(t) \/ Compute(t)
       \/ Close(t) \/ Clear(t)
       \/ \E c \in Channel : ShutNext(t, c)

-----------------------------------------------------------------------------
\* Sweeps that race with gets, and with each other, lose no channel: one that is
\* open is in the pool, where a later sweep finds it, or is about to be shut, but for
\* those made while close was under way.
NoneIsLost ==
  \A c \in 1..built :
    Open(c) =>
      \/ c \in Pooled \cup dropped
      \/ \E t \in PoolThread : thread[t].at = "shutdown" /\ thread[t].found = c

=============================================================================
