------------------------------ MODULE RequestContext ------------------------------
(***************************************************************************)
(* What the API finds out about a request before a route sees it, in the   *)
(* order of its hooks: whose key it carries (auth.ts), and the network it  *)
(* is for, with the tenant's binding and validator there (network.ts), each *)
(* by a query of its own, while operators change keys and bindings.        *)
(*                                                                         *)
(* A database is configured and demo data is off.  A key that expires is   *)
(* one whose expires_at comes to pass.  Versions, rate limits and what     *)
(* routes do are left out, but for GET /v1/network, which shows the context. *)
(***************************************************************************)
EXTENDS Naturals

CONSTANTS
  Visitor,         \* requests
  NetTenant,
  ApiKey,
  ValidatorId,
  Absent           \* no key, no row, no answer

NetworkId == {"devnet", "testnet", "mainnet"}

\* What a header or a cookie may ask for.
Asked == NetworkId \cup {"qa", "none"}

VARIABLES
  apiKey,          \* key -> row of api_keys
  bindings,        \* tenant -> network -> row of tenant_network_bindings, or Absent
  validators,      \* validator -> its status
  visit            \* what is known of each request

contextVars == <<apiKey, bindings, validators, visit>>

BindingRow == [status : {"active", "paused", "disabled"}, validator : ValidatorId]

ContextTypeOK ==
  /\ apiKey \in [ApiKey ->
       [tenant : NetTenant, status : {"active", "revoked", "expired"}, admin : BOOLEAN]]
  /\ bindings \in [NetTenant -> [NetworkId -> BindingRow \cup {Absent}]]
  /\ validators \in [ValidatorId -> {"active", "degraded", "disabled"}]
  /\ visit \in [Visitor ->
       [at : {"new", "auth", "default", "binding", "served", "refused", "failed"},
        public : BOOLEAN, restricted : BOOLEAN, key : ApiKey \cup {Absent},
        header : Asked, cookie : Asked,
        tenant : NetTenant \cup {Absent}, network : NetworkId \cup {Absent},
        validator : ValidatorId \cup {Absent},
        health : {"active", "degraded", "down", Absent}]]

\* The columns that migration 0133 creates; none adds another.
BindingColumns ==
  {"id", "tenant_id", "network_id", "default_validator_id", "fallback_validator_id",
   "livemode", "status", "created_at", "updated_at"}

At(v, step) == visit' = [visit EXCEPT ![v].at = step]

Refuse(v) == At(v, "refused")

-----------------------------------------------------------------------------
(* auth.ts                                                                 *)

\* A request for a public path (/v1/health, /v1/network) or not, for something
\* only admins may see (openapi.json, a ledger_trace) or not.
Arrive(v, public, restricted, key, header, cookie) ==
  /\ visit[v].at = "new"
  /\ ~(public /\ restricted)
  /\ visit' = [visit EXCEPT ![v] =
       [@ EXCEPT !.at = "auth", !.public = public, !.restricted = restricted,
                 !.key = key, !.header = header, !.cookie = cookie]]
  /\ UNCHANGED <<apiKey, bindings, validators>>

\* lookupApiKey: the row of an active key that has not expired.
LookupApiKey(key) == {k \in ApiKey : k = key /\ apiKey[k].status = "active"}

Requested(v) == IF visit[v].header # "none" THEN visit[v].header ELSE visit[v].cookie

\* Where resolveNetworkContext goes with a tenant, or none.
Resolve(v, tenant) ==
  LET n == IF Requested(v) = "none" THEN "devnet" ELSE Requested(v) IN
  IF Requested(v) = "none" /\ tenant # Absent
    THEN visit' = [visit EXCEPT ![v].at = "default", ![v].tenant = tenant]
  ELSE IF n \notin NetworkId
    THEN Refuse(v)
  ELSE visit' = [visit EXCEPT ![v].at = IF tenant = Absent THEN "served" ELSE "binding",
                              ![v].tenant = tenant, ![v].network = n]

Authenticate(v) ==
  /\ visit[v].at = "auth"
  /\ IF visit[v].key = Absent
       THEN IF visit[v].public THEN Resolve(v, Absent) ELSE Refuse(v)
       ELSE IF /\ LookupApiKey(visit[v].key) # {}
               /\ visit[v].restricted => apiKey[visit[v].key].admin
              THEN Resolve(v, apiKey[visit[v].key].tenant)
              ELSE Refuse(v)
  /\ UNCHANGED <<apiKey, bindings, validators>>

-----------------------------------------------------------------------------
(* network.ts, network-repo.ts                                             *)

ActiveBindings(t) ==
  {n \in NetworkId : bindings[t][n] # Absent /\ bindings[t][n].status = "active"}

\* The columns of tenant_network_bindings that resolveDefaultNetwork names.
DefaultColumns == {"network_id", "tenant_id", "is_default", "status"}

\* The database refuses a query for a column it does not have.
ResolveDefaultNetwork(v) ==
  /\ visit[v].at = "default"
  /\ IF DefaultColumns \subseteq BindingColumns
       THEN \E n \in ActiveBindings(visit[v].tenant) \cup {"devnet"} :
              visit' = [visit EXCEPT ![v].at = "binding", ![v].network = n]
       ELSE At(v, "failed")
  /\ UNCHANGED <<apiKey, bindings, validators>>

PublicStatus(status) == IF status = "disabled" THEN "down" ELSE status

ResolveBinding(v) ==
  LET row == bindings[visit[v].tenant][visit[v].network] IN
  /\ visit[v].at = "binding"
  /\ IF visit[v].network \in ActiveBindings(visit[v].tenant)
       THEN visit' = [visit EXCEPT ![v].at = "served", ![v].validator = row.validator,
                                   ![v].health = PublicStatus(validators[row.validator])]
       ELSE Refuse(v)
  /\ UNCHANGED <<apiKey, bindings, validators>>

\* GET /v1/network.
NetworkAnswer(v) ==
  [current |-> visit[v].network, livemode |-> visit[v].network = "mainnet",
   validator |-> visit[v].validator, status |-> visit[v].health]

-----------------------------------------------------------------------------
(* Operators, and time.                                                    *)

EndKey(k, status) ==
  /\ apiKey[k].status = "active" /\ status \in {"revoked", "expired"}
  /\ apiKey' = [apiKey EXCEPT ![k].status = status]
  /\ UNCHANGED <<bindings, validators, visit>>

SetBinding(t, n, row) ==
  /\ bindings' = [bindings EXCEPT ![t][n] = row]
  /\ UNCHANGED <<apiKey, validators, visit>>

SetValidator(w, status) ==
  /\ validators' = [validators EXCEPT ![w] = status]
  /\ UNCHANGED <<apiKey, bindings, visit>>

-----------------------------------------------------------------------------
ContextInit ==
  /\ apiKey \in [ApiKey -> [tenant : NetTenant, status : {"active"}, admin : BOOLEAN]]
  /\ bindings = [t \in NetTenant |-> [n \in NetworkId |-> Absent]]
  /\ validators = [w \in ValidatorId |-> "disabled"]
  /\ visit = [v \in Visitor |->
       [at |-> "new", public |-> FALSE, restricted |-> FALSE, key |-> Absent,
        header |-> "none", cookie |-> "none", tenant |-> Absent, network |-> Absent,
        validator |-> Absent, health |-> Absent]]

ContextNext ==
  \/ \E v \in Visitor :
       \/ \E public, restricted \in BOOLEAN, key \in ApiKey \cup {Absent},
             header, cookie \in Asked : Arrive(v, public, restricted, key, header, cookie)
       \/ Authenticate(v) \/ ResolveDefaultNetwork(v) \/ ResolveBinding(v)
  \/ \E k \in ApiKey, status \in {"revoked", "expired"} : EndKey(k, status)
  \/ \E t \in NetTenant, n \in NetworkId, row \in BindingRow : SetBinding(t, n, row)
  \/ \E w \in ValidatorId, status \in {"active", "degraded", "disabled"} : SetValidator(w, status)

ContextSpec == ContextInit /\ [][ContextNext]_contextVars

-----------------------------------------------------------------------------
\* docs/Dev/DECISIONS.md: header > cookie > tenant default binding > devnet; a
\* request whose tenant sends neither, and is bound to devnet alone, is not failed.
DefaultIsServed ==
  [][\A v \in Visitor :
       visit[v].at = "default" /\ ActiveBindings(visit[v].tenant) = {"devnet"}
         => visit'[v].at # "failed"]_contextVars

=============================================================================
