-------------------------------- MODULE KeyCache --------------------------------
(***************************************************************************)
(* The cache of Google's signing keys in one process (jwks.ts).  getKey     *)
(* takes the time, looks at the cache and, if it has to, waits for a fetch; *)
(* several calls may wait at once, and each puts the answer it gets into    *)
(* the cache when it comes, with the time at which the call began.          *)
(***************************************************************************)
EXTENDS Integers

CONSTANTS
  Kid,           \* ids of keys
  Call,          \* calls of getKey that may be under way at once
  Ttl,           \* CACHE_TTL_MS, 24 h
  LastTime       \* bound of the clock

ASSUME KeyCacheAssumption == Ttl \in Nat /\ LastTime \in Nat

VARIABLES
  clock,
  keySet,        \* the keys Google publishes
  since,         \* history: since when each key has been published, -1 if it is not
  cachedKeys,    \* the cached keys, with the time (history) at which they were served
  cachedAt,
  lookup         \* each call: what it asks, when it began, and what it was answered

keyCacheVars == <<clock, keySet, since, cachedKeys, cachedAt, lookup>>

Times == 0..LastTime

NoCall == [at |-> "idle", kid |-> CHOOSE k \in Kid : TRUE, began |-> 0,
           keys |-> {}, served |-> 0, found |-> FALSE]

KeyCacheTypeOK ==
  /\ clock \in Times /\ cachedAt \in Times
  /\ keySet \subseteq Kid /\ since \in [Kid -> Times \cup {-1}]
  /\ cachedKeys \in [keys : SUBSET Kid, served : Times]
  /\ lookup \in [Call -> [at : {"idle", "fetching", "answered", "returned"}, kid : Kid,
                        began : Times, keys : SUBSET Kid, served : Times, found : BOOLEAN]]

\* getKey's condition to fetch.
MustFetch(kid) == kid \notin cachedKeys.keys \/ clock - cachedAt > Ttl

\* Google changes its keys.
Rotate(keys) ==
  /\ keys # keySet
  /\ keySet' = keys
  /\ since' = [k \in Kid |-> IF k \notin keys THEN -1
                             ELSE IF since[k] = -1 THEN clock ELSE since[k]]
  /\ UNCHANGED <<clock, cachedKeys, cachedAt, lookup>>

\* getKey(kid) up to its fetch, or its return.
GetKey(c, kid) ==
  /\ lookup[c].at \in {"idle", "returned"}
  /\ lookup' = [lookup EXCEPT ![c] =
       IF MustFetch(kid)
         THEN [NoCall EXCEPT !.at = "fetching", !.kid = kid, !.began = clock]
         ELSE [at |-> "returned", kid |-> kid, began |-> clock, keys |-> {},
               served |-> cachedKeys.served, found |-> kid \in cachedKeys.keys]]
  /\ UNCHANGED <<clock, keySet, since, cachedKeys, cachedAt>>

Serve(c) ==
  /\ lookup[c].at = "fetching"
  /\ lookup' = [lookup EXCEPT ![c].at = "answered", ![c].keys = keySet, ![c].served = clock]
  /\ UNCHANGED <<clock, keySet, since, cachedKeys, cachedAt>>

\* Faulty: the cache is as new as the answer's arrival.
StampOf(c) == clock

\* What refreshKeys stores as cachedAt.
Stamp(c) == lookup[c].began

\* refreshKeys goes on with the answer, and getKey with the cache: no other answer
\* comes between the two, as nothing but its own promise does.
Refresh(c) ==
  /\ lookup[c].at = "answered"
  /\ cachedKeys' = [keys |-> lookup[c].keys, served |-> lookup[c].served]
  /\ cachedAt' = Stamp(c)
  /\ lookup' = [lookup EXCEPT ![c].at = "returned", ![c].keys = {},
                          ![c].found = lookup[c].kid \in lookup[c].keys]
  /\ UNCHANGED <<clock, keySet, since>>

\* The fetch rejects, or its answer is not ok.
FailFetch(c) ==
  /\ lookup[c].at \in {"fetching", "answered"}
  /\ lookup' = [lookup EXCEPT ![c] = NoCall]
  /\ UNCHANGED <<clock, keySet, since, cachedKeys, cachedAt>>

TickClock ==
  /\ clock < LastTime
  /\ clock' = clock + 1
  /\ UNCHANGED <<keySet, since, cachedKeys, cachedAt, lookup>>

KeyCacheInit ==
  /\ clock = 0 /\ keySet = {} /\ since = [k \in Kid |-> -1]
  /\ cachedKeys = [keys |-> {}, served |-> 0] /\ cachedAt = 0
  /\ lookup = [c \in Call |-> NoCall]

KeyCacheNext ==
  \/ \E keys \in SUBSET Kid : Rotate(keys)
  \/ \E c \in Call :
       \/ \E kid \in Kid : GetKey(c, kid)
       \/ Serve(c) \/ Refresh(c) \/ FailFetch(c)
  \/ TickClock

-----------------------------------------------------------------------------
\* What a call answers is true when answers come late and out of order and an older
\* one replaces a newer one: a key it found was among Google's keys no longer than
\* the cache's life before the call began, and a key published before the call
\* began, and since, is found, however new it is.
KeysAreCurrent ==
  [][\A c \in Call :
       lookup[c].at # "returned" /\ lookup'[c].at = "returned" =>
         /\ lookup'[c].found => lookup'[c].served >= lookup'[c].began - Ttl
         /\ since[lookup'[c].kid] \in 0..(lookup'[c].began - 1) => lookup'[c].found]_keyCacheVars

=============================================================================
