--------------------------------- MODULE MCLedger ---------------------------------
(***************************************************************************)
(* Transfers on the ledger, the queue that submits commands to it, its pool *)
(* of channels, and the reads that wait for an operation, which are checked *)
(* one at a time in one run: the initial state chooses.                    *)
(***************************************************************************)
EXTENDS MCPillarIntents, MCCommandQueue, StrongReads, ChannelPool

CONSTANT op1

MCOwnerOf == op1 :> t1

VARIABLE part

Init ==
  /\ PillarInit /\ QueueInit /\ ReadsInit /\ PoolInit
  /\ part \in {"intents", "queue", "reads", "pool"}

\* What the asset rules say matters only where intents move.
Start ==
  /\ Init
  /\ part # "intents" =>
       \A k \in RulesCid : /\ rules[k].status = "Active" /\ rules[k].transferEnabled
                           /\ rules[k].asset = AssetOf(ARef)

Next ==
  /\ UNCHANGED part
  /\ \/ part = "intents" /\ PillarNext /\ UNCHANGED <<queueVars, readsVars, poolVars>>
     \/ part = "queue" /\ QueueNext /\ UNCHANGED <<pillarVars, readsVars, poolVars>>
     \/ part = "reads" /\ ReadsNext /\ UNCHANGED <<pillarVars, queueVars, poolVars>>
     \/ part = "pool" /\ PoolNext /\ UNCHANGED <<pillarVars, queueVars, readsVars>>

vars == <<part, pillarVars, queueVars, readsVars, poolVars>>

Spec == Start /\ [][Next]_vars

\* Of the intents and of a queue that makes progress.  No worker has a step while the
\* intents move: their rows are absent then.
FairStart == Start /\ part \in {"intents", "queue"}

FairSpec == FairStart /\ [][Next]_vars /\ QueueFairness

=============================================================================
