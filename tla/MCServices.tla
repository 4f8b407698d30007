------------------------------- MODULE MCServices -------------------------------
(***************************************************************************)
(* Components that share no state, checked one at a time in one run: the    *)
(* initial state chooses which of them moves.  They are the Holdings, the  *)
(* API's idempotency, what it takes for the same request and its event log, *)
(* the signing keys it looks up, the rate limits, the validator registry    *)
(* and the web application's key wizard.                                   *)
(* Contracts and references of the ledger are named like the requests, scopes *)
(* and bodies of the API, so that one small symmetry serves both.           *)
(***************************************************************************)
EXTENDS MCIntentApi, MCHoldingLedger, MCEventLog, MCRequestHash,
        KeyCache, RateLimits, ValidatorRouting, KeyWizard

CONSTANTS g1, g2

\* An account's and a tenant's bucket, asked for one token and for two.
MCCapacity == g1 :> 2 @@ g2 :> 3

MCRefillRate == g1 :> 1 @@ g2 :> 2

MCDemand ==
  {[buckets |-> <<g1, g2>>, cost |-> 1], [buckets |-> <<g2, g1>>, cost |-> 2],
   [buckets |-> <<g2>>, cost |-> 2]}

VARIABLE part

Init ==
  /\ ApiInit /\ LedgerInit /\ EventLogInit /\ HashInit
  /\ KeyCacheInit /\ RateInit /\ RoutingInit /\ WizardInit
  /\ part \in {"api", "keys", "limits", "routing", "wizard", "ledger", "events", "hash"}
  \* What requests ask matters only where they move.
  /\ part # "api" => \A a, b \in Request : call[a] = call[b]
  /\ part # "hash" => firstUse = CHOOSE r \in HttpRequest : TRUE

Next ==
  /\ UNCHANGED part
  /\ \/ /\ part = "api" /\ ApiNext
        /\ UNCHANGED <<keyCacheVars, rateVars, routingVars, wizardVars, ledgerVars,
                       eventLogVars, hashVars>>
     \/ /\ part = "keys" /\ KeyCacheNext
        /\ UNCHANGED <<apiVars, rateVars, routingVars, wizardVars, ledgerVars,
                       eventLogVars, hashVars>>
     \/ /\ part = "limits" /\ RateNext
        /\ UNCHANGED <<apiVars, keyCacheVars, routingVars, wizardVars, ledgerVars,
                       eventLogVars, hashVars>>
     \/ /\ part = "routing" /\ RoutingNext
        /\ UNCHANGED <<apiVars, keyCacheVars, rateVars, wizardVars, ledgerVars,
                       eventLogVars, hashVars>>
     \/ /\ part = "wizard" /\ WizardNext
        /\ UNCHANGED <<apiVars, keyCacheVars, rateVars, routingVars, ledgerVars,
                       eventLogVars, hashVars>>
     \/ /\ part = "ledger" /\ LedgerNext
        /\ UNCHANGED <<apiVars, keyCacheVars, rateVars, routingVars, wizardVars,
                       eventLogVars, hashVars>>
     \/ /\ part = "events" /\ EventLogNext
        /\ UNCHANGED <<apiVars, keyCacheVars, rateVars, routingVars, wizardVars,
                       ledgerVars, hashVars>>
     \/ /\ part = "hash" /\ HashNext
        /\ UNCHANGED <<apiVars, keyCacheVars, rateVars, routingVars, wizardVars,
                       ledgerVars, eventLogVars>>

Spec ==
  Init /\ [][Next]_<<part, apiVars, keyCacheVars, rateVars, routingVars, wizardVars,
                     ledgerVars, eventLogVars, hashVars>>

=============================================================================
