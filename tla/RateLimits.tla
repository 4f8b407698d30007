------------------------------- MODULE RateLimits -------------------------------
(***************************************************************************)
(* The two rate limiters: the hook of each API server, which keeps the      *)
(* times of a key's requests in a sliding window (rate-limit.ts), and       *)
(* InMemoryHierarchicalRateLimiter, which admits a request if each of its    *)
(* buckets can pay for it and fills a bucket only when it is looked at       *)
(* (buckets.ts; no server registers it yet).                                *)
(*                                                                         *)
(* The clock is that of the tokens: RefillRate are whole tokens per tick.   *)
(* A refused request changes nothing in the window.                         *)
(***************************************************************************)
EXTENDS Integers, Sequences, SequencesExt, FiniteSets, FiniteSetsExt, Filters

CONSTANTS
  Server,        \* API processes behind one load balancer
  Key,           \* API key and endpoint group
  Rpm,           \* requests per window, 60
  Window,        \* 60 s
  Bucket,        \* keys of BucketRule
  Capacity, RefillRate,   \* Bucket -> Nat
  Demand,        \* [buckets : sequence of Bucket, cost : Nat]: what check is asked
  MaxNow         \* bound of the clock

ASSUME RateLimitsAssumption ==
  /\ Rpm \in Nat \ {0} /\ Window \in Nat \ {0} /\ MaxNow \in Nat
  /\ Capacity \in [Bucket -> Nat] /\ RefillRate \in [Bucket -> Nat]
  /\ \A d \in Demand : d.buckets \in Seq(Bucket) /\ IsInjective(d.buckets) /\ d.cost \in Nat

VARIABLES
  time,
  hits,          \* per process and key: the times hits remembers
  admitted,      \* history: the times of all requests the process let through
  states,        \* per bucket: tokens and when they were counted; at = -1: no state yet
  fund           \* history: the tokens of a bucket that is filled at every tick

rateVars == <<time, hits, admitted, states, fund>>

NoState == [tokens |-> 0, at |-> -1]

\* In particular no bucket is ever overdrawn or overfull.
RateTypeOK ==
  /\ time \in 0..MaxNow
  /\ hits \in [Server -> [Key -> Seq(0..MaxNow)]]
  /\ admitted \in [Server -> [Key -> Seq(0..MaxNow)]]
  /\ \A b \in Bucket : states[b].tokens \in 0..Capacity[b] /\ states[b].at \in -1..MaxNow
  /\ \A b \in Bucket : fund[b] \in 0..Capacity[b]

Windowed(s, k) ==
  Filtered(hits[s][k], {i \in DOMAIN hits[s][k] : time - hits[s][k][i] < Window})

\* The preHandler hook lets a request through.
Admit(s, k) ==
  /\ Len(Windowed(s, k)) < Rpm
  /\ hits' = [hits EXCEPT ![s][k] = Append(Windowed(s, k), time)]
  /\ admitted' = [admitted EXCEPT ![s][k] = Append(@, time)]
  /\ UNCHANGED <<time, states, fund>>

RestartLimiter(s) ==
  /\ \E k \in Key : admitted[s][k] # <<>>
  /\ hits' = [hits EXCEPT ![s] = [k \in Key |-> <<>>]]
  /\ admitted' = [admitted EXCEPT ![s] = [k \in Key |-> <<>>]]
  /\ UNCHANGED <<time, states, fund>>

-----------------------------------------------------------------------------
Tokens(b) ==
  IF states[b].at = -1 THEN Capacity[b]
  ELSE Min({Capacity[b], states[b].tokens + (time - states[b].at) * RefillRate[b]})

\* Faulty: the tokens are counted again, from the same time, at the next look.
FilledAgain(b) == [states[b] EXCEPT !.tokens = Tokens(b)]

\* A bucket that has been looked at.
Filled(b) == [tokens |-> Tokens(b), at |-> time]

\* check: every bucket pays, or none.
Pay(d) ==
  /\ \A b \in ToSet(d.buckets) : Tokens(b) >= d.cost
  /\ states' = [b \in Bucket |->
       IF b \in ToSet(d.buckets) THEN [Filled(b) EXCEPT !.tokens = @ - d.cost] ELSE states[b]]
  /\ fund' = [b \in Bucket |-> IF b \in ToSet(d.buckets) THEN fund[b] - d.cost ELSE fund[b]]
  /\ UNCHANGED <<time, hits, admitted>>

\* The buckets up to the first that is short have been looked at; one that had no
\* state gets none.
Refuse(d) ==
  LET short == {i \in DOMAIN d.buckets : Tokens(d.buckets[i]) < d.cost}
      looked == {d.buckets[i] : i \in 1..Min(short)}
  IN /\ short # {}
     /\ states' = [b \in Bucket |->
          IF b \in looked /\ states[b].at # -1 THEN Filled(b) ELSE states[b]]
     /\ UNCHANGED <<time, hits, admitted, fund>>

-----------------------------------------------------------------------------
TickTime ==
  /\ time < MaxNow
  /\ time' = time + 1
  /\ fund' = [b \in Bucket |-> Min({Capacity[b], fund[b] + RefillRate[b]})]
  /\ UNCHANGED <<hits, admitted, states>>

RateInit ==
  /\ time = 0
  /\ hits = [s \in Server |-> [k \in Key |-> <<>>]] /\ admitted = hits
  /\ states = [b \in Bucket |-> NoState] /\ fund = Capacity

RateNext ==
  \/ \E s \in Server : RestartLimiter(s) \/ \E k \in Key : Admit(s, k)
  \/ \E d \in Demand : Pay(d) \/ Refuse(d)
  \/ TickTime

-----------------------------------------------------------------------------
\* In no span of a window's length, wherever it begins, does one process let more
\* than rpm requests of a key through; a restart of the process is forgotten time,
\* and each further process has a window of its own.
WindowHolds ==
  \A s \in Server, k \in Key :
    LET times == admitted[s][k] IN
    \A i \in DOMAIN times : i + Rpm \in DOMAIN times => times[i + Rpm] - times[i] >= Window

\* Counting a bucket's tokens when it is looked at comes to the same as filling it
\* at every tick, whatever requests are paid for or refused in between: none is
\* charged for a refused request, and no time is counted twice.
LazyIsEager == \A b \in Bucket : Tokens(b) = fund[b]

\* What the two limiters promise: no window holds too many requests, and no bucket
\* drifts from one that is filled all the time, or is overdrawn.
LimitsHold == RateTypeOK /\ WindowHolds /\ LazyIsEager

=============================================================================
