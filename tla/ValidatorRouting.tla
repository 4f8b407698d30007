---------------------------- MODULE ValidatorRouting ----------------------------
(***************************************************************************)
(* The validator registry: which validator serves a tenant on a network.    *)
(* Its handlers change arrays in memory, one request at a time.  A caller   *)
(* may send ids, statuses and livemode in the body, and the code takes them.*)
(* Other fields of the rows, and the audit rows, are left out; a degraded   *)
(* validator is routed as an active one with a bad sample is.               *)
(***************************************************************************)
EXTENDS Naturals, Sequences, SequencesExt, FiniteSetsExt

CONSTANTS
  Provider, Validator, Subscriber, NetworkSlug,  \* Subscriber: tenants
  BindingId,
  NoValidator,
  LivemodeSent,  \* values of livemode callers send
  MaxBindings    \* bound: rows of bindings

ASSUME RoutingAssumption ==
  /\ "mainnet" \in NetworkSlug /\ NoValidator \notin Validator /\ MaxBindings \in Nat
  /\ LivemodeSent \subseteq BOOLEAN

VARIABLES
  verified,      \* providers that are verified
  validators,    \* Validator -> its row; status "none" before it is created
  bindings,      \* rows, in the order of their creation
  unhealthy      \* validators whose latest sample says so

routingVars == <<verified, validators, bindings, unhealthy>>

RoutingTypeOK ==
  /\ verified \subseteq Provider
  /\ validators \in [Validator -> [provider : Provider, network : NetworkSlug,
                                   status : {"none", "active", "disabled"}]]
  /\ bindings \in Seq([id : BindingId, tenant : Subscriber, network : NetworkSlug,
                       default : Validator, fallback : Validator \cup {NoValidator},
                       livemode : BOOLEAN, status : {"active", "paused"}])
  /\ Len(bindings) <= MaxBindings
  /\ unhealthy \subseteq Validator

\* Array.find: the first of the rows found; 0 if there is none.
Find(found) == IF found = {} THEN 0 ELSE Min(found)

-----------------------------------------------------------------------------
VerifyProvider(p) ==
  /\ verified' = verified \cup {p}
  /\ UNCHANGED <<validators, bindings, unhealthy>>

CreateValidator(v, p, n, status) ==
  /\ validators[v].status = "none"
  /\ validators' = [validators EXCEPT ![v] = [provider |-> p, network |-> n, status |-> status]]
  /\ UNCHANGED <<verified, bindings, unhealthy>>

\* assertActivation.
ActivateValidator(v) ==
  /\ validators[v].status # "none" /\ validators[v].provider \in verified
  /\ validators' = [validators EXCEPT ![v].status = "active"]
  /\ UNCHANGED <<verified, bindings, unhealthy>>

\* A sample of a validator's health.
SampleHealth(v, bad) ==
  /\ validators[v].status # "none"
  /\ unhealthy' = IF bad THEN unhealthy \cup {v} ELSE unhealthy \ {v}
  /\ UNCHANGED <<verified, validators, bindings>>

\* Faulty: a binding replaces the one with its id, not the one of its network.
ReplacedById(b) == Find({i \in DOMAIN bindings : bindings[i].id = b.id})

ReplacedBy(b) ==
  Find({i \in DOMAIN bindings :
          bindings[i].tenant = b.tenant /\ bindings[i].network = b.network})

\* POST /bindings: neither the validators nor assertBinding are asked.
UpsertBinding(b) ==
  /\ \/ ReplacedBy(b) # 0 /\ bindings' = [bindings EXCEPT ![ReplacedBy(b)] = b]
     \/ /\ ReplacedBy(b) = 0 /\ Len(bindings) < MaxBindings
        /\ bindings' = Append(bindings, b)
  /\ UNCHANGED <<verified, validators, unhealthy>>

PauseBinding(id) ==
  LET i == Find({i \in DOMAIN bindings : bindings[i].id = id}) IN
  /\ i # 0
  /\ bindings' = [bindings EXCEPT ![i].status = "paused"]
  /\ UNCHANGED <<verified, validators, unhealthy>>

RoutingInit ==
  /\ verified = {}
  /\ validators = [v \in Validator |-> [provider |-> CHOOSE p \in Provider : TRUE,
                                        network |-> "mainnet", status |-> "none"]]
  /\ bindings = <<>> /\ unhealthy = {}

RoutingNext ==
  \/ \E p \in Provider : VerifyProvider(p)
  \/ \E v \in Validator :
       \/ \E p \in Provider, n \in NetworkSlug, status \in {"disabled", "active"} :
            CreateValidator(v, p, n, status)
       \/ ActivateValidator(v)
       \/ \E bad \in BOOLEAN : SampleHealth(v, bad)
  \/ \E id \in BindingId :
       \/ \E t \in Subscriber, n \in NetworkSlug, default \in Validator,
             fallback \in Validator \cup {NoValidator}, live \in LivemodeSent,
             status \in {"active", "paused"} :
            UpsertBinding([id |-> id, tenant |-> t, network |-> n, default |-> default,
                           fallback |-> fallback, livemode |-> live, status |-> status])
       \/ PauseBinding(id)

-----------------------------------------------------------------------------
\* resolveValidatorForTenant: the validator, or NoValidator for an error.
RouteBy(i) ==
  LET primary == bindings[i].default
      down == validators[primary].status # "active" \/ primary \in unhealthy
      chosen == IF down /\ bindings[i].fallback # NoValidator THEN bindings[i].fallback ELSE primary
  IN IF /\ validators[primary].status # "none"
        /\ validators[chosen].status \notin {"none", "disabled"} THEN chosen ELSE NoValidator

BindingOf(t, n) ==
  Find({i \in DOMAIN bindings : /\ bindings[i].tenant = t /\ bindings[i].network = n
                                /\ bindings[i].status = "active"})

Route(t, n) == IF BindingOf(t, n) = 0 THEN NoValidator ELSE RouteBy(BindingOf(t, n))

\* While a binding is paused nothing serves its tenant on its network, whatever was
\* bound before or after it, until it is bound again: no second binding of the
\* same network is left to route by.
PausedIsUnrouted ==
  \A i \in DOMAIN bindings :
    bindings[i].status = "paused" => Route(bindings[i].tenant, bindings[i].network) = NoValidator

=============================================================================
