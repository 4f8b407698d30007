---------------------------- MODULE ServicesProofs ----------------------------
(***************************************************************************)
(* For every number of endpoints, readers, bindings and makings of keys:   *)
(* the pool of channels loses none, a strong read is strong, a paused      *)
(* binding routes nothing, the wizard shows new keys only, the cache of    *)
(* signing keys answers what Google's keys were, the rate limiters hold    *)
(* their limits, and the hash of a request tells what it means, however    *)
(* long its numbers.  Each is a component of its own, with an inductive    *)
(* invariant of its own.                                                   *)
(***************************************************************************)
EXTENDS KeyWizard, ValidatorRouting, StrongReads, ChannelPool, KeyCache, RateLimits,
        RequestHash, UnitSumsProofs

-----------------------------------------------------------------------------
(* The key wizard: makings are shown in the order they are made.           *)

\* Every making so far was shown once, no later one was, and from step 2 on the
\* fields pass.
WizardInv ==
  /\ WizardTypeOK
  /\ apiKeys <= made /\ clipboard <= made
  /\ \A k \in 1..MaxMakings : showings[k] = IF k <= made THEN 1 ELSE 0
  /\ page >= 2 => Field \subseteq good
  /\ page >= 3 => reviewed = Review
  /\ page = 4 => apiKeys # 0

\* Initially step 1 is empty and no keys were made.
LEMMA WizardInitFits == WizardInit => WizardInv
BY WizardAssumption DEF WizardInit, WizardInv, WizardTypeOK, DeploymentMode

\* Whatever the user clicks.
LEMMA WizardStepFits == WizardInv /\ [WizardNext]_wizardVars => WizardInv'
<1> SUFFICES ASSUME WizardInv, [WizardNext]_wizardVars
             PROVE  WizardInv'
  OBVIOUS
<1>0. MaxMakings \in Nat
  BY WizardAssumption
<1> USE <1>0 DEF WizardInv, WizardTypeOK, Review, keyVars, formVars
<1>1. CASE UNCHANGED wizardVars
  BY <1>1 DEF wizardVars
<1>2. ASSUME NEW f \in Field, NEW passes \in BOOLEAN, EditField(f, passes)
      PROVE  WizardInv'
  BY <1>2 DEF EditField
<1>3. ASSUME NEW mode \in DeploymentMode, SetDeploymentMode(mode)
      PROVE  WizardInv'
  BY <1>3 DEF SetDeploymentMode
<1>4. CASE Continue
  BY <1>4 DEF Continue, Turn, CanContinue
<1>5. CASE CreateKeys
  BY <1>5 DEF CreateKeys, Turn, NewKeys
<1>6. CASE CopyKey
  BY <1>6 DEF CopyKey
<1>7. CASE HandleBack
  BY <1>7 DEF HandleBack, Turn
<1>8. CASE LeavePage
  BY <1>8 DEF LeavePage, DeploymentMode
<1> QED
  BY <1>1, <1>2, <1>3, <1>4, <1>5, <1>6, <1>7, <1>8 DEF WizardNext

\* However often the user goes back and forth, leaves and comes back: what step 4
\* shows is new, and for a workspace that was checked and reviewed.
THEOREM WizardShowsNewKeys == WizardInit /\ [][WizardNext]_wizardVars => []ShowingIsRight
<1>1. WizardInv => ShowingIsRight
  BY WizardAssumption
     DEF WizardInv, WizardTypeOK, ShowingIsRight, ShownForWorkspace, ShownOnce, CopiedWasShown
<1> QED
  BY <1>1, WizardInitFits, WizardStepFits, PTL

-----------------------------------------------------------------------------
(* The validator registry: a tenant has one binding of a network.          *)

BindingRows ==
  [id : BindingId, tenant : Subscriber, network : NetworkSlug,
   default : Validator, fallback : Validator \cup {NoValidator},
   livemode : BOOLEAN, status : {"active", "paused"}]

\* However the rows of bindings came about, no two are for the same network.
RoutingInv ==
  /\ bindings \in Seq(BindingRows)
  /\ \A i, j \in DOMAIN bindings :
       bindings[i].tenant = bindings[j].tenant /\ bindings[i].network = bindings[j].network => i = j

\* find returns one of the rows that were found, if there is one.
LEMMA FindFinds ==
  ASSUME NEW S, S \subseteq Nat \ {0}
  PROVE  /\ Find(S) = 0 <=> S = {}
         /\ S # {} => Find(S) \in S
<1>1. CASE S = {}
  BY <1>1 DEF Find
<1>2. CASE S # {}
  <2>1. \E x \in S : \A y \in S : x <= y
    BY <1>2, LeastOf
  <2>2. Min(S) \in S
    BY <2>1 DEF Min
  <2> QED
    BY <1>2, <2>2 DEF Find
<1> QED
  BY <1>1, <1>2

\* Initially nothing is bound.
LEMMA RoutingInitFits == RoutingInit => RoutingInv
BY DEF RoutingInit, RoutingInv

\* A binding takes the place of the one of its network, and a row that is paused stays
\* where it is.
LEMMA RoutingStepFits == RoutingInv /\ [RoutingNext]_routingVars => RoutingInv'
<1> SUFFICES ASSUME RoutingInv, [RoutingNext]_routingVars
             PROVE  RoutingInv'
  OBVIOUS
<1>0. DOMAIN bindings \subseteq Nat \ {0} /\ DOMAIN bindings = 1..Len(bindings) /\ Len(bindings) \in Nat
  BY DEF RoutingInv
<1>1. CASE UNCHANGED bindings
  BY <1>1 DEF RoutingInv
<1>2. ASSUME NEW b \in BindingRows, UpsertBinding(b)
      PROVE  RoutingInv'
  <2> DEFINE S == {i \in DOMAIN bindings : bindings[i].tenant = b.tenant /\ bindings[i].network = b.network}
  <2>1. S \subseteq Nat \ {0} /\ ReplacedBy(b) = Find(S)
    BY <1>0 DEF ReplacedBy
  <2>2. CASE ReplacedBy(b) # 0 /\ bindings' = [bindings EXCEPT ![ReplacedBy(b)] = b]
    <3>1. PICK i \in S : i = ReplacedBy(b)
      BY <2>1, <2>2, FindFinds
    <3>2. bindings' = [bindings EXCEPT ![i] = b] /\ i \in DOMAIN bindings
      BY <2>2, <3>1
    <3>3. /\ bindings[i] \in BindingRows /\ bindings[i].tenant = b.tenant
          /\ bindings[i].network = b.network
      BY <3>1 DEF RoutingInv
    <3> QED
      BY <1>0, <3>2, <3>3 DEF RoutingInv
  <2>3. CASE ReplacedBy(b) = 0 /\ bindings' = Append(bindings, b)
    <3>1. \A i \in DOMAIN bindings :
            ~(bindings[i].tenant = b.tenant /\ bindings[i].network = b.network)
      <4>1. S = {}
        <5> HIDE DEF S
        <5> QED
          BY <2>1, <2>3, FindFinds
      <4> QED
        BY <4>1
    <3>2. /\ bindings' \in Seq(BindingRows) /\ DOMAIN bindings' = 1..(Len(bindings) + 1)
          /\ bindings'[Len(bindings) + 1] = b
          /\ \A i \in 1..Len(bindings) : bindings'[i] = bindings[i]
      BY <1>0, <2>3 DEF RoutingInv
    <3>3. \A i \in DOMAIN bindings' : i \in DOMAIN bindings \/ i = Len(bindings) + 1
      BY <1>0, <3>2
    <3> QED
      BY <1>0, <3>1, <3>2, <3>3 DEF RoutingInv
  <2> QED
    BY <1>2, <2>2, <2>3 DEF UpsertBinding
<1>3. ASSUME NEW id \in BindingId, PauseBinding(id)
      PROVE  RoutingInv'
  <2> DEFINE S == {i \in DOMAIN bindings : bindings[i].id = id}
  <2>1. S \subseteq Nat \ {0} /\ Find(S) # 0 /\ bindings' = [bindings EXCEPT ![Find(S)].status = "paused"]
    BY <1>0, <1>3 DEF PauseBinding
  <2>2. PICK i \in S : i = Find(S)
    BY <2>1, FindFinds
  <2>3. bindings' = [bindings EXCEPT ![i].status = "paused"] /\ i \in DOMAIN bindings
    BY <2>1, <2>2
  <2>4. bindings[i] \in BindingRows
    BY <2>3 DEF RoutingInv
  <2> DEFINE b == [bindings[i] EXCEPT !.status = "paused"]
  <2>5. /\ bindings' = [bindings EXCEPT ![i] = b] /\ b \in BindingRows
        /\ b.tenant = bindings[i].tenant /\ b.network = bindings[i].network
    BY <2>3, <2>4 DEF BindingRows
  <2> HIDE DEF b
  <2> QED
    BY <1>0, <2>3, <2>5 DEF RoutingInv
<1>4. ASSUME NEW id \in BindingId, NEW t \in Subscriber, NEW n \in NetworkSlug,
             NEW default \in Validator, NEW fallback \in Validator \cup {NoValidator},
             NEW live \in LivemodeSent, NEW status \in {"active", "paused"}
      PROVE  [id |-> id, tenant |-> t, network |-> n, default |-> default,
              fallback |-> fallback, livemode |-> live, status |-> status] \in BindingRows
  BY RoutingAssumption DEF BindingRows
<1>5. CASE UNCHANGED routingVars
  BY <1>1, <1>5 DEF routingVars
<1>6. ASSUME \/ \E p \in Provider : VerifyProvider(p)
             \/ \E v \in Validator :
                  \/ \E p \in Provider, n \in NetworkSlug, status \in {"disabled", "active"} :
                       CreateValidator(v, p, n, status)
                  \/ ActivateValidator(v)
                  \/ \E bad \in BOOLEAN : SampleHealth(v, bad)
      PROVE  RoutingInv'
  BY <1>1, <1>6 DEF VerifyProvider, CreateValidator, ActivateValidator, SampleHealth
<1> QED
  BY <1>2, <1>3, <1>4, <1>5, <1>6 DEF RoutingNext

\* While a binding is paused nothing serves its tenant on its network.
THEOREM PausedRoutesNothing == RoutingInit /\ [][RoutingNext]_routingVars => []PausedIsUnrouted
<1>1. RoutingInv => PausedIsUnrouted
  <2> SUFFICES ASSUME RoutingInv, NEW i \in DOMAIN bindings, bindings[i].status = "paused"
               PROVE  BindingOf(bindings[i].tenant, bindings[i].network) = 0
    BY DEF PausedIsUnrouted, Route
  <2>1. {j \in DOMAIN bindings : /\ bindings[j].tenant = bindings[i].tenant
                                 /\ bindings[j].network = bindings[i].network
                                 /\ bindings[j].status = "active"} = {}
    BY DEF RoutingInv
  <2> QED
    BY <2>1 DEF BindingOf, Find
<1> QED
  BY <1>1, RoutingInitFits, RoutingStepFits, PTL

-----------------------------------------------------------------------------
(* Strong reads.                                                           *)

Requests ==
  [at : {"idle", "cache", "load", "fill", "checkpoint", "sleep", "list", "done"},
   op : Operation \cup {NoOperation}, target : Offset, known : BOOLEAN,
   outdated : BOOLEAN, foreign : BOOLEAN, assumed : BOOLEAN, shows : Offset]

\* The reasons why a wait may have ended too early.
Excepted(q) == q.outdated \/ q.foreign \/ q.assumed

\* What a request q says of the world: its target is where the ledger has the
\* operation, or nothing; nothing only when the operation was not recorded when it
\* asked, or the cache was outdated; and past the wait the balances are that far,
\* unless the checkpoint was another tenant's or had no offset.
ReadFits(q) ==
  /\ q \in Requests
  /\ q.at = "idle" => ~q.known
  /\ q.at # "idle" => q.op \in Operation
  /\ q.at \in {"fill", "checkpoint", "sleep", "list"} => q.target \in {0, commitOffset[q.op]}
  /\ q.known => q.op \in recorded
  /\ q.known /\ q.at \in {"fill", "checkpoint", "sleep", "list"} =>
       q.target = commitOffset[q.op] \/ q.outdated
  /\ q.known /\ q.at = "list" =>
       projected[OwnerOf[q.op]] >= commitOffset[q.op] \/ Excepted(q)
  /\ q.known /\ q.at = "done" => q.shows >= commitOffset[q.op] \/ Excepted(q)

ReadsInv ==
  /\ ReadsTypeOK
  /\ \A o \in recorded : commitOffset[o] # 0
  /\ \A r \in Reader : ReadFits(request[r])

\* Nothing was asked.
LEMMA NoRequestFits == ReadFits(NoRequest)
BY ReadsAssumption DEF ReadFits, NoRequest, Requests, Offset

\* Initially the ledger and the cache are empty.
LEMMA ReadsInitFits == ReadsInit => ReadsInv
<1> SUFFICES ASSUME ReadsInit PROVE ReadsInv
  OBVIOUS
<1>1. 0 \in Offset
  BY ReadsAssumption DEF Offset
<1>2. NoRequest \in Requests
  BY NoRequestFits DEF ReadFits
<1>3. request \in [Reader -> Requests]
  BY <1>2 DEF ReadsInit
<1>4. ReadsTypeOK
  BY <1>1, <1>3 DEF ReadsInit, ReadsTypeOK, Requests
<1> QED
  BY <1>4, NoRequestFits DEF ReadsInit, ReadsInv

\* What the ledger and the projector may do meanwhile: offsets that are there stay,
\* and balances move on.
WorldGrows ==
  /\ recorded \subseteq recorded'
  /\ \A o \in Operation : commitOffset[o] # 0 => commitOffset'[o] = commitOffset[o]
  /\ \A t \in Tenant : projected'[t] >= projected[t]

\* What a request says stays true while the world grows.
LEMMA ReadStays ==
  ASSUME ReadsInv, WorldGrows, NEW q, ReadFits(q),
         commitOffset' \in [Operation -> Offset], projected' \in [Tenant -> Offset]
  PROVE  ReadFits(q)'
<1>1. \A o \in Operation : OwnerOf[o] \in Tenant
  BY ReadsAssumption
<1>2. \A o \in recorded : o \in Operation /\ commitOffset'[o] = commitOffset[o]
  BY DEF ReadsInv, ReadsTypeOK, WorldGrows
<1>3. q.at \in {"fill", "checkpoint", "sleep", "list"} => q.target \in {0, commitOffset'[q.op]}
  BY DEF ReadFits, WorldGrows
<1>4. q.known => q.op \in recorded' /\ commitOffset'[q.op] = commitOffset[q.op] /\ q.op \in Operation
  BY <1>2 DEF ReadFits, WorldGrows
<1>5. q.known => projected'[OwnerOf[q.op]] >= projected[OwnerOf[q.op]]
  BY <1>1, <1>4 DEF WorldGrows
<1>6. ASSUME q.known, q.at = "list"
      PROVE  projected'[OwnerOf[q.op]] >= commitOffset'[q.op] \/ Excepted(q)
  <2>1. /\ projected'[OwnerOf[q.op]] \in Nat /\ projected[OwnerOf[q.op]] \in Nat
        /\ commitOffset[q.op] \in Nat
    BY <1>1, <1>4, <1>6, ReadsAssumption DEF ReadsInv, ReadsTypeOK, Offset
  <2>2. projected[OwnerOf[q.op]] >= commitOffset[q.op] \/ Excepted(q)
    BY <1>6 DEF ReadFits
  <2> QED
    BY <1>4, <1>5, <1>6, <2>1, <2>2
<1> QED
  BY <1>3, <1>4, <1>6 DEF ReadFits, Excepted, Requests, Offset

\* A step of the ledger, of the projector, or of the cache by itself.
LEMMA WorldMoves ==
  ASSUME ReadsInv, WorldGrows, UNCHANGED request,
         ledgerEnd' \in Offset, commitOffset' \in [Operation -> Offset],
         projected' \in [Tenant -> Offset], lastWritten' \in Tenant \cup {NoTenant},
         recorded' \subseteq Operation, \A o \in recorded' : commitOffset'[o] # 0,
         cached' \subseteq cached, cachedOffset' \in [Operation -> Offset],
         \A o \in cached' : cachedOffset'[o] = cachedOffset[o]
  PROVE  ReadsInv'
<1>1. \A o \in cached' : cachedOffset'[o] \in {0, commitOffset'[o]}
  BY DEF ReadsInv, ReadsTypeOK, WorldGrows
<1>2. ReadsTypeOK'
  BY <1>1 DEF ReadsInv, ReadsTypeOK
<1>3. \A r \in Reader : ReadFits(request[r])'
  BY ReadStays DEF ReadsInv
<1> QED
  BY <1>2, <1>3 DEF ReadsInv

\* A step of reader r, that may fill the cache.
LEMMA ReaderMoves ==
  ASSUME ReadsInv, NEW r \in Reader, NEW q, request' = [request EXCEPT ![r] = q],
         UNCHANGED worldVars, ReadFits(q),
         \/ UNCHANGED cacheVars
         \/ \E o \in Operation : \E n \in {0, commitOffset[o]} :
              /\ cached' = cached \cup {o} /\ cachedOffset' = [cachedOffset EXCEPT ![o] = n]
  PROVE  ReadsInv'
<1>1. UNCHANGED <<ledgerEnd, commitOffset, recorded, projected, lastWritten>>
  BY DEF worldVars
<1>2. q \in Requests
  BY DEF ReadFits
<1>3. request' \in [Reader -> Requests]
  BY <1>2 DEF ReadsInv, ReadsTypeOK, Requests
<1>4. /\ cached' \subseteq Operation /\ cachedOffset' \in [Operation -> Offset]
      /\ \A o \in cached' : cachedOffset'[o] \in {0, commitOffset[o]}
  <2>1. 0 \in Offset
    BY ReadsAssumption DEF Offset
  <2> QED
    BY <2>1 DEF ReadsInv, ReadsTypeOK, cacheVars
<1>5. ReadsTypeOK'
  BY <1>1, <1>3, <1>4 DEF ReadsInv, ReadsTypeOK, Requests
<1>6. ASSUME NEW p \in Reader PROVE ReadFits(request[p])'
  <2>1. request'[p] = IF p = r THEN q ELSE request[p]
    BY DEF ReadsInv, ReadsTypeOK
  <2>2. ReadFits(request'[p])
    BY <2>1 DEF ReadsInv
  <2> QED
    BY <1>1, <2>2 DEF ReadFits
<1> QED
  BY <1>1, <1>5, <1>6 DEF ReadsInv

\* Every step of the ledger, the projector, the cache and the handlers.
LEMMA ReadsStepFits == ReadsInv /\ [ReadsNext]_readsVars => ReadsInv'
<1> SUFFICES ASSUME ReadsInv, [ReadsNext]_readsVars
             PROVE  ReadsInv'
  OBVIOUS
<1>0. /\ ledgerEnd \in Nat /\ ledgerEnd \in Offset /\ MaxOffset \in Nat /\ Offset = 0..MaxOffset
      /\ commitOffset \in [Operation -> Offset] /\ projected \in [Tenant -> Offset]
      /\ cachedOffset \in [Operation -> Offset] /\ recorded \subseteq Operation
      /\ \A o \in recorded : commitOffset[o] # 0
      /\ \A t \in Tenant : projected[t] \in Nat
      /\ lastWritten \in Tenant \cup {NoTenant}
  BY ReadsAssumption DEF ReadsInv, ReadsTypeOK, Offset
<1>1. CASE UNCHANGED readsVars
  <2>1. WorldGrows
    BY <1>0, <1>1 DEF readsVars, WorldGrows
  <2> QED
    BY <1>0, <1>1, <2>1, WorldMoves DEF readsVars
<1>2. CASE CommitOther
  <2>1. WorldGrows /\ ledgerEnd' \in Offset
    BY <1>0, <1>2 DEF CommitOther, WorldGrows
  <2> QED
    BY <1>0, <1>2, <2>1, WorldMoves DEF CommitOther, cacheVars
<1>3. ASSUME NEW o \in Operation, CommitOperation(o)
      PROVE  ReadsInv'
  <2>1. WorldGrows /\ ledgerEnd' \in Offset /\ commitOffset' \in [Operation -> Offset]
    BY <1>0, <1>3 DEF CommitOperation, WorldGrows
  <2>2. \A p \in recorded : commitOffset'[p] # 0
    BY <1>0, <1>3 DEF CommitOperation
  <2> QED
    BY <1>0, <1>3, <2>1, <2>2, WorldMoves DEF CommitOperation, cacheVars
<1>4. ASSUME NEW o \in Operation, RecordOperation(o)
      PROVE  ReadsInv'
  <2>1. WorldGrows
    BY <1>0, <1>4 DEF RecordOperation, WorldGrows
  <2> QED
    BY <1>0, <1>4, <2>1, WorldMoves DEF RecordOperation, cacheVars
<1>5. ASSUME NEW o \in Operation, ExpireCached(o)
      PROVE  ReadsInv'
  <2>1. WorldGrows
    BY <1>0, <1>5 DEF ExpireCached, worldVars, WorldGrows
  <2>2. 0 \in Offset
    BY <1>0
  <2> QED
    BY <1>0, <1>5, <2>1, <2>2, WorldMoves DEF ExpireCached, worldVars
<1>6. ASSUME NEW t \in Tenant, ProjectBalances(t)
      PROVE  ReadsInv'
  <2>1. PICK n \in (projected[t] + 1)..ledgerEnd : projected' = [projected EXCEPT ![t] = n]
    BY <1>6 DEF ProjectBalances
  <2>2. n \in Offset /\ n >= projected[t]
    BY <1>0
  <2>3. WorldGrows /\ projected' \in [Tenant -> Offset]
    BY <1>0, <1>6, <2>1, <2>2 DEF ProjectBalances, WorldGrows
  <2> QED
    BY <1>0, <1>6, <2>3, WorldMoves DEF ProjectBalances, cacheVars
<1>7. ASSUME NEW t \in Tenant, LeaseCheckpoint(t)
      PROVE  ReadsInv'
  <2>1. WorldGrows
    BY <1>0, <1>7 DEF LeaseCheckpoint, WorldGrows
  <2> QED
    BY <1>0, <1>7, <2>1, WorldMoves DEF LeaseCheckpoint, cacheVars
<1>8. ASSUME NEW r \in Reader, HandleRead(r) \/ \E o \in Operation : AskBalances(r, o)
      PROVE  ReadsInv'
  <2> USE DEF Excepted
  <2> DEFINE p == request[r]
  <2>0. ReadFits(p) /\ p \in Requests
    BY DEF ReadsInv, ReadFits
  <2>1. ASSUME NEW o \in Operation, AskBalances(r, o) PROVE ReadsInv'
    <3>0. PICK b \in BOOLEAN : b = (o \in recorded)
      <4>1. CASE o \in recorded
        <5>1. TRUE = (o \in recorded)
          BY <4>1
        <5> QED
          BY <5>1
      <4>2. CASE o \notin recorded
        <5>1. FALSE = (o \in recorded)
          BY <4>2
        <5> QED
          BY <5>1
      <4> QED
        BY <4>1, <4>2
    <3>1. PICK q : q = [NoRequest EXCEPT !.at = "cache", !.op = o, !.known = b]
      OBVIOUS
    <3>2. q \in Requests /\ q.at = "cache" /\ q.op = o /\ q.known = b
      <4>1. NoRequest \in Requests
        BY NoRequestFits DEF ReadFits
      <4> QED
        BY <3>1, <4>1 DEF Requests
    <3>3. ReadFits(q)
      BY <3>0, <3>2 DEF ReadFits
    <3> QED
      BY <2>1, <3>0, <3>1, <3>3, ReaderMoves DEF AskBalances, Step
  <2>2. ASSUME ReadCache(r), p.op \in cached, p.at = "cache",
               request' = [request EXCEPT ![r] =
                 [p EXCEPT !.at = "checkpoint", !.target = cachedOffset[p.op],
                           !.outdated = p.known /\ cachedOffset[p.op] = 0]]
        PROVE  ReadsInv'
    <3>1. PICK q : q = [p EXCEPT !.at = "checkpoint", !.target = cachedOffset[p.op],
                                 !.outdated = p.known /\ cachedOffset[p.op] = 0]
      OBVIOUS
    <3>2. p.op \in Operation /\ cachedOffset[p.op] \in {0, commitOffset[p.op]} /\ cachedOffset[p.op] \in Offset
      BY <1>0, <2>0, <2>2 DEF ReadFits, ReadsInv, ReadsTypeOK
    <3>3. /\ q \in Requests /\ q.at = "checkpoint" /\ q.op = p.op /\ q.known = p.known
          /\ q.target = cachedOffset[p.op] /\ q.outdated = (p.known /\ cachedOffset[p.op] = 0)
      BY <2>0, <3>1, <3>2 DEF Requests
    <3>4. ReadFits(q)
      BY <2>0, <2>2, <3>2, <3>3 DEF ReadFits
    <3> QED
      BY <2>2, <3>1, <3>4, ReaderMoves DEF ReadCache, Step
  <2>3. ASSUME ReadCache(r), p.at = "cache", request' = [request EXCEPT ![r] = [p EXCEPT !.at = "load"]]
        PROVE  ReadsInv'
    <3>1. PICK q : q = [p EXCEPT !.at = "load"]
      OBVIOUS
    <3>2. ReadFits(q)
      BY <2>0, <2>3, <3>1 DEF ReadFits, Requests
    <3> QED
      BY <2>3, <3>1, <3>2, ReaderMoves DEF ReadCache, Step
  <2>4. CASE LoadOperation(r)
    <3>1. PICK q : q = [p EXCEPT !.at = "fill", !.target = RowOffset(p.op)]
      OBVIOUS
    <3>2. p.op \in Operation /\ p.at = "load"
      BY <2>0, <2>4 DEF LoadOperation, Step, ReadFits
    <3>3. /\ RowOffset(p.op) \in Offset /\ RowOffset(p.op) \in {0, commitOffset[p.op]}
          /\ p.op \in recorded => RowOffset(p.op) = commitOffset[p.op]
      BY <1>0, <3>2 DEF RowOffset
    <3>4. ReadFits(q)
      BY <2>0, <3>1, <3>2, <3>3 DEF ReadFits, Requests
    <3> QED
      BY <2>4, <3>1, <3>4, ReaderMoves DEF LoadOperation, Step
  <2>5. CASE FillCache(r)
    <3>1. PICK q : q = [p EXCEPT !.at = "checkpoint"]
      OBVIOUS
    <3>2. p.at = "fill" /\ p.op \in Operation /\ p.target \in {0, commitOffset[p.op]}
      BY <2>0, <2>5 DEF FillCache, Step, ReadFits
    <3>3. ReadFits(q)
      BY <2>0, <3>1, <3>2 DEF ReadFits, Requests
    <3> QED
      BY <2>5, <3>1, <3>2, <3>3, ReaderMoves DEF FillCache, Step
  <2>6. ASSUME ReadCheckpoint(r), p.at = "checkpoint", Reached(p.target),
               request' = [request EXCEPT ![r] = [p EXCEPT !.at = "list",
                 !.foreign = p.target # 0 /\ lastWritten # OwnerOf[p.op],
                 !.assumed = p.target # 0 /\ WithoutOffset]]
        PROVE  ReadsInv'
    <3>1. PICK q : q = [p EXCEPT !.at = "list",
                                 !.foreign = p.target # 0 /\ lastWritten # OwnerOf[p.op],
                                 !.assumed = p.target # 0 /\ WithoutOffset]
      OBVIOUS
    <3>2. /\ q \in Requests /\ q.at = "list" /\ q.op = p.op /\ q.known = p.known
          /\ q.target = p.target /\ q.outdated = p.outdated
          /\ q.foreign = (p.target # 0 /\ lastWritten # OwnerOf[p.op])
          /\ q.assumed = (p.target # 0 /\ WithoutOffset)
      BY <2>0, <3>1 DEF Requests
    <3>3. p.op \in Operation /\ p.target \in {0, commitOffset[p.op]}
      BY <2>0, <2>6 DEF ReadFits
    <3>4. ASSUME p.known, ~p.outdated, ~q.foreign, ~q.assumed
          PROVE  projected[OwnerOf[p.op]] >= commitOffset[p.op]
      <4>1. p.target = commitOffset[p.op] /\ p.target # 0
        BY <1>0, <2>0, <2>6, <3>4 DEF ReadFits
      <4>2. lastWritten = OwnerOf[p.op] /\ lastWritten # NoTenant /\ ~WithoutOffset
        BY <3>2, <3>3, <3>4, <4>1, ReadsAssumption
      <4> QED
        BY <2>6, <4>1, <4>2 DEF Reached, AppliedOffset
    <3>5. ReadFits(q)
      BY <2>0, <2>6, <3>2, <3>3, <3>4 DEF ReadFits
    <3> QED
      BY <2>6, <3>1, <3>5, ReaderMoves DEF ReadCheckpoint, Step
  <2>7. ASSUME UNCHANGED cacheVars, UNCHANGED worldVars, NEW to \in {"sleep", "checkpoint"},
               p.at \in {"checkpoint", "sleep"}, request' = [request EXCEPT ![r] = [p EXCEPT !.at = to]]
        PROVE  ReadsInv'
    <3>1. PICK q : q = [p EXCEPT !.at = to]
      OBVIOUS
    <3>2. ReadFits(q)
      BY <2>0, <2>7, <3>1 DEF ReadFits, Requests
    <3> QED
      BY <2>7, <3>1, <3>2, ReaderMoves
  <2>8. CASE TimeOut(r) \/ AnswerRead(r)
    BY <2>8, NoRequestFits, ReaderMoves DEF TimeOut, AnswerRead, Step
  <2>9. CASE ListBalances(r)
    <3>1. PICK q : q = [p EXCEPT !.at = "done", !.shows = projected[OwnerOf[p.op]]]
      OBVIOUS
    <3>2. p.at = "list" /\ p.op \in Operation /\ projected[OwnerOf[p.op]] \in Offset
      BY <1>0, <2>0, <2>9, ReadsAssumption DEF ListBalances, Step, ReadFits
    <3>3. /\ q \in Requests /\ q.at = "done" /\ q.op = p.op /\ q.known = p.known
          /\ q.target = p.target /\ q.outdated = p.outdated /\ q.foreign = p.foreign
          /\ q.assumed = p.assumed
          /\ q.shows = projected[OwnerOf[p.op]]
      BY <2>0, <3>1, <3>2 DEF Requests
    <3>4. ReadFits(q)
      BY <2>0, <3>2, <3>3 DEF ReadFits
    <3> QED
      BY <2>9, <3>1, <3>4, ReaderMoves DEF ListBalances, Step
  <2>10. CASE TryAgain(r)
    BY <2>7, <2>10 DEF TryAgain, Step
  <2>11. CASE ReadCheckpoint(r)
    BY <2>6, <2>7, <2>11 DEF ReadCheckpoint, Step
  <2>12. CASE ReadCache(r)
    BY <2>2, <2>3, <2>12 DEF ReadCache, Step
  <2> QED
    BY <1>8, <2>1, <2>4, <2>5, <2>8, <2>9, <2>10, <2>11, <2>12 DEF HandleRead
<1> QED
  BY <1>1, <1>2, <1>3, <1>4, <1>5, <1>6, <1>7, <1>8 DEF ReadsNext

\* The balances returned for an operation that was recorded before they were asked for
\* include it, unless the cache was outdated, or the checkpoint another tenant's or
\* without an offset.
THEOREM StrongReadsAreStrong == ReadsInit /\ [][ReadsNext]_readsVars => []StrongReadIsStrong
<1>1. ReadsInv => StrongReadIsStrong
  BY DEF ReadsInv, ReadFits, Excepted, StrongReadIsStrong
<1> QED
  BY <1>1, ReadsInitFits, ReadsStepFits, PTL

-----------------------------------------------------------------------------
(* The pool of channels.                                                   *)

\* The endpoint of a thread that asks for none.
Anywhere == CHOOSE k \in Endpoint : TRUE

Threads ==
  [at : {"rest", "sweep", "remove", "shutdown", "compute", "close"},
   get : BOOLEAN, key : Endpoint \cup {Anywhere}, now : Millis, left : SUBSET Endpoint,
   found : {0} \cup Channel, foundAt : Endpoint \cup {Anywhere}, closing : SUBSET Channel]

PoolShape ==
  /\ millis \in Millis /\ built \in 0..MaxChannels
  /\ entries \in [Endpoint -> [channel : {0} \cup Channel, lastUsed : Millis]]
  /\ thread \in [PoolThread -> Threads]

\* No entry has a channel that was not made, and who sweeps was asked for an endpoint.
PoolInv ==
  /\ PoolShape
  /\ \A k \in Endpoint : entries[k].channel <= built
  /\ \A t \in PoolThread :
       thread[t].at \in {"sweep", "remove", "shutdown", "compute"} => Endpoint # {}
  /\ NoneIsLost

\* c is about to be shut.
Caught(c) == \E t \in PoolThread : thread[t].at = "shutdown" /\ thread[t].found = c

\* A thread at rest has nothing in hand.
LEMMA AtRestFits == AtRest \in Threads /\ AtRest.at = "rest"
BY PoolAssumption DEF AtRest, Threads, Anywhere, Millis

\* Initially the pool is empty and every thread at rest.
LEMMA PoolInitFits == PoolInit => PoolInv
<1> SUFFICES ASSUME PoolInit PROVE PoolInv
  OBVIOUS
<1>1. 0 \in Millis /\ built \in 0..MaxChannels
  BY PoolAssumption DEF Millis, PoolInit
<1>2. thread \in [PoolThread -> Threads] /\ \A t \in PoolThread : thread[t].at = "rest"
  BY AtRestFits DEF PoolInit
<1>3. PoolShape
  BY <1>1, <1>2 DEF PoolInit, PoolShape, NoEntry
<1>4. \A k \in Endpoint : entries[k].channel = 0
  BY DEF PoolInit, NoEntry
<1>5. NoneIsLost
  BY DEF PoolInit, NoneIsLost
<1> QED
  BY <1>2, <1>3, <1>4, <1>5 DEF PoolInit, PoolInv

\* The entries are of channels that were made.
EntriesFit ==
  /\ built \in 0..MaxChannels
  /\ entries \in [Endpoint -> [channel : {0} \cup Channel, lastUsed : Millis]]
  /\ \A k \in Endpoint : entries[k].channel <= built

\* When thread t goes on to q, every channel that is not shut is somewhere.
NoneSlips(t, q) ==
  \A c \in 1..built' : c \notin shut' =>
    \/ c \in Pooled' \cup dropped'
    \/ Caught(c) /\ (thread[t].at = "shutdown" => thread[t].found # c)
    \/ q.at = "shutdown" /\ q.found = c

\* A step of thread t, with q what it does next.
LEMMA ThreadMoves ==
  ASSUME PoolInv, NEW t \in PoolThread, NEW q \in Threads, thread' = [thread EXCEPT ![t] = q],
         q.at \in {"sweep", "remove", "shutdown", "compute"} => Endpoint # {},
         UNCHANGED millis, EntriesFit', NoneSlips(t, q)
  PROVE  PoolInv'
<1>1. \A s \in PoolThread : thread'[s] = IF s = t THEN q ELSE thread[s]
  BY DEF PoolInv, PoolShape
<1>2. PoolShape'
  BY DEF PoolInv, PoolShape, EntriesFit, Millis, Channel, Threads, Anywhere
<1>3. \A s \in PoolThread :
        thread'[s].at \in {"sweep", "remove", "shutdown", "compute"} => Endpoint # {}
  BY <1>1 DEF PoolInv
<1>4. ASSUME NEW c \in 1..built', c \notin shut', c \notin Pooled' \cup dropped'
      PROVE  Caught(c)'
  <2>1. CASE q.at = "shutdown" /\ q.found = c
    BY <1>1, <2>1 DEF Caught
  <2>2. CASE Caught(c) /\ (thread[t].at = "shutdown" => thread[t].found # c)
    <3>1. PICK s \in PoolThread : thread[s].at = "shutdown" /\ thread[s].found = c
      BY <2>2 DEF Caught
    <3>2. s # t
      BY <2>2, <3>1
    <3> QED
      BY <1>1, <3>1, <3>2 DEF Caught
  <2> QED
    BY <1>4, <2>1, <2>2 DEF NoneSlips
<1>5. NoneIsLost'
  BY <1>4 DEF NoneIsLost, Open, Caught
<1> QED
  BY <1>2, <1>3, <1>5 DEF PoolInv, EntriesFit

\* A step of thread t that leaves the entries alone, and has shut what it had caught.
LEMMA ThreadSteps ==
  ASSUME PoolInv, NEW t \in PoolThread, NEW q \in Threads, thread' = [thread EXCEPT ![t] = q],
         q.at \in {"sweep", "remove", "shutdown", "compute"} => Endpoint # {},
         UNCHANGED <<millis, entries, built>>,
         shut \subseteq shut', UNCHANGED dropped,
         thread[t].at = "shutdown" => thread[t].found \in shut'
  PROVE  PoolInv'
<1>1. EntriesFit'
  BY DEF PoolInv, PoolShape, EntriesFit, Channel, Millis
<1>2. \A c \in 1..built : c \notin shut => c \in Pooled \cup dropped \/ Caught(c)
  BY PoolAssumption DEF PoolInv, PoolShape, NoneIsLost, Open, Caught
<1>3. NoneSlips(t, q)
  BY <1>2 DEF NoneSlips, Pooled
<1> QED
  BY <1>1, <1>3, ThreadMoves

\* Every step of the clock and of the threads.
LEMMA PoolStepFits == PoolInv /\ [PoolNext]_poolVars => PoolInv'
<1> SUFFICES ASSUME PoolInv, [PoolNext]_poolVars
             PROVE  PoolInv'
  OBVIOUS
<1>0. /\ millis \in Millis /\ built \in 0..MaxChannels /\ MaxChannels \in Nat /\ built \in Nat
      /\ entries \in [Endpoint -> [channel : {0} \cup Channel, lastUsed : Millis]]
      /\ \A k \in Endpoint : entries[k].channel <= built
  BY PoolAssumption DEF PoolInv, PoolShape
<1>00. \A c \in 1..built : c \notin shut => c \in Pooled \cup dropped \/ Caught(c)
  BY DEF PoolInv, NoneIsLost, Open, Caught
<1>1. CASE UNCHANGED poolVars
  BY <1>1 DEF poolVars, PoolInv, PoolShape, NoneIsLost, Open, Pooled, Threads, Anywhere, Millis, Channel
<1>2. CASE MilliPasses
  <2>1. millis' \in Millis
    BY <1>0, <1>2, PoolAssumption DEF MilliPasses, Millis
  <2> QED
    BY <1>2, <2>1 DEF MilliPasses, PoolInv, PoolShape, NoneIsLost, Open, Pooled, Threads, Anywhere,
                      Millis, Channel
<1>3. ASSUME NEW t \in PoolThread
      PROVE  /\ \A get \in BOOLEAN, k \in Endpoint : CloseIdle(t, get, k) => PoolInv'
             /\ \A k \in Endpoint : Visit(t, k) => PoolInv'
             /\ RemoveIdle(t) \/ ShutIdle(t) \/ EndSweep(t) \/ Compute(t) \/ Close(t) \/ Clear(t) => PoolInv'
             /\ \A c \in Channel : ShutNext(t, c) => PoolInv'
  <2> DEFINE p == thread[t]
  <2>0. p \in Threads /\ (p.at \in {"sweep", "remove", "shutdown", "compute"} => Endpoint # {})
    BY DEF PoolInv, PoolShape
  <2>1. ASSUME NEW get \in BOOLEAN, NEW k \in Endpoint, CloseIdle(t, get, k) PROVE PoolInv'
    <3>1. PICK q : q = [AtRest EXCEPT !.at = "sweep", !.get = get, !.key = k, !.now = millis,
                                      !.left = Endpoint]
      OBVIOUS
    <3>2. q \in Threads /\ q.at = "sweep"
      BY <1>0, <3>1, AtRestFits DEF Threads
    <3> QED
      BY <2>1, <3>1, <3>2, ThreadSteps DEF CloseIdle
  <2>2. ASSUME NEW k \in Endpoint, Visit(t, k) PROVE PoolInv'
    <3>1. PICK q : q = [p EXCEPT !.left = @ \ {k},
                         !.at = IF Idle(p.now, entries[k]) THEN "remove" ELSE "sweep",
                         !.found = IF Idle(p.now, entries[k]) THEN entries[k].channel ELSE 0,
                         !.foundAt = k]
      OBVIOUS
    <3>2. q \in Threads /\ p.at = "sweep"
      BY <1>0, <2>0, <2>2, <3>1 DEF Visit, Threads
    <3>3. thread' = [thread EXCEPT ![t] = q]
      BY <2>2, <3>1 DEF Visit
    <3> QED
      BY <2>2, <3>2, <3>3, ThreadSteps DEF Visit
  <2>3. CASE RemoveIdle(t)
    <3>1. CASE IsStillThere(t)
      <4>1. PICK q : q = [p EXCEPT !.at = "shutdown"]
        OBVIOUS
      <4>2. q \in Threads /\ q.at = "shutdown" /\ q.found = p.found /\ p.at = "remove"
        BY <2>0, <2>3, <4>1 DEF RemoveIdle, Threads
      <4>3. p.foundAt \in Endpoint /\ entries[p.foundAt].channel = p.found
        BY <2>0, <3>1, <4>2 DEF IsStillThere, Threads, Anywhere
      <4>4. entries' = [entries EXCEPT ![p.foundAt] = NoEntry]
        BY <2>3, <3>1 DEF RemoveIdle
      <4>5. 0 \in Millis
        BY PoolAssumption DEF Millis
      <4>6. /\ entries' \in [Endpoint -> [channel : {0} \cup Channel, lastUsed : Millis]]
            /\ \A k \in Endpoint : entries'[k].channel <= built
        BY <1>0, <4>3, <4>4, <4>5 DEF NoEntry
      <4>7. \A c \in Pooled : c \in Pooled' \/ c = p.found
        BY <1>0, <4>3, <4>4 DEF Pooled
      <4>8. EntriesFit' /\ NoneSlips(t, q)
        BY <1>0, <1>00, <2>3, <4>2, <4>6, <4>7 DEF RemoveIdle, EntriesFit, NoneSlips, Channel, Millis
      <4> QED
        BY <2>0, <2>3, <3>1, <4>1, <4>2, <4>8, ThreadMoves DEF RemoveIdle
    <3>2. CASE ~IsStillThere(t)
      <4>1. PICK q : q = [p EXCEPT !.at = "sweep"]
        OBVIOUS
      <4>2. q \in Threads /\ p.at = "remove"
        BY <2>0, <2>3, <4>1 DEF RemoveIdle, Threads
      <4> QED
        BY <2>0, <2>3, <3>2, <4>1, <4>2, ThreadSteps DEF RemoveIdle
    <3> QED
      BY <3>1, <3>2
  <2>4. CASE ShutIdle(t)
    <3>1. PICK q : q = [p EXCEPT !.at = "sweep", !.found = 0]
      OBVIOUS
    <3>2. q \in Threads /\ p.at = "shutdown"
      BY <2>0, <2>4, <3>1 DEF ShutIdle, Threads
    <3> QED
      BY <2>0, <2>4, <3>1, <3>2, ThreadSteps DEF ShutIdle
  <2>5. CASE EndSweep(t)
    <3>1. PICK q : q = IF p.get THEN [p EXCEPT !.at = "compute", !.now = millis] ELSE AtRest
      OBVIOUS
    <3>2. q \in Threads /\ p.at = "sweep"
      BY <1>0, <2>0, <2>5, <3>1, AtRestFits DEF EndSweep, Threads
    <3>3. thread' = [thread EXCEPT ![t] = q]
      BY <2>5, <3>1 DEF EndSweep
    <3> QED
      BY <2>0, <2>5, <3>2, <3>3, ThreadSteps DEF EndSweep
  <2>6. CASE Compute(t)
    <3> DEFINE k == p.key
               e == Computed(t, k)
    <3>1. k \in Endpoint /\ p.at = "compute" /\ p.now \in Millis
      BY <2>0, <2>6 DEF Compute, Threads, Anywhere
    <3>2. /\ e = [channel |-> e.channel, lastUsed |-> p.now]
          /\ \/ Open(entries[k].channel) /\ e.channel = entries[k].channel
             \/ ~Open(entries[k].channel) /\ e.channel = built + 1
      BY DEF Computed
    <3>3. /\ entries' = [entries EXCEPT ![k] = e] /\ e.channel <= MaxChannels
          /\ built' = IF e.channel > built THEN e.channel ELSE built
      BY <2>6 DEF Compute
    <3>4. e.channel \in Nat \ {0} /\ (e.channel <= built \/ e.channel = built + 1)
      BY <1>0, <3>1, <3>2 DEF Open, Channel
    <3>5. e \in [channel : {0} \cup Channel, lastUsed : Millis]
      BY <1>0, <3>1, <3>2, <3>3, <3>4 DEF Channel
    <3> HIDE DEF e
    <3>6. built' \in 0..MaxChannels /\ built <= built' /\ e.channel <= built'
          /\ built' \in {built, built + 1} /\ (built' # built => built' = e.channel)
      BY <1>0, <3>3, <3>4
    <3>7. /\ entries' \in [Endpoint -> [channel : {0} \cup Channel, lastUsed : Millis]]
          /\ \A l \in Endpoint : entries'[l].channel <= built'
      <4>1. \A l \in Endpoint : entries[l].channel \in Nat
        BY <1>0 DEF Channel
      <4>2. \A l \in Endpoint : entries'[l] = IF l = k THEN e ELSE entries[l]
        BY <1>0, <3>3
      <4>3. \A l \in Endpoint : entries'[l].channel <= built'
        BY <1>0, <3>6, <4>1, <4>2
      <4> QED
        BY <1>0, <3>3, <3>5, <4>3
    <3>8. \A c \in Pooled : c \in Pooled' \/ c \in shut
      BY <1>0, <3>1, <3>2, <3>3 DEF Pooled, Open
    <3>9. e.channel \in Pooled'
      BY <1>0, <3>1, <3>3, <3>4 DEF Pooled
    <3>10. \A c \in 1..built' : c \in 1..built \/ c = e.channel
      BY <1>0, <3>6
    <3>11. EntriesFit' /\ NoneSlips(t, AtRest)
      BY <1>00, <2>6, <3>1, <3>6, <3>7, <3>8, <3>9, <3>10 DEF Compute, EntriesFit, NoneSlips, Channel, Millis
    <3> QED
      BY <2>6, <3>11, AtRestFits, ThreadMoves DEF Compute
  <2>7. CASE Close(t)
    <3>1. PICK q : q = [AtRest EXCEPT !.at = "close", !.closing = Pooled \ shut]
      OBVIOUS
    <3>2. Pooled \subseteq Channel
      BY <1>0 DEF Pooled
    <3>3. q \in Threads /\ q.at = "close" /\ p.at = "rest"
      BY <2>7, <3>1, <3>2, AtRestFits DEF Threads, Close
    <3> QED
      BY <2>7, <3>1, <3>3, ThreadSteps DEF Close
  <2>8. CASE Clear(t)
    <3>1. 0 \in Millis /\ p.at = "close"
      BY <2>8, PoolAssumption DEF Millis, Clear
    <3>2. /\ entries' \in [Endpoint -> [channel : {0} \cup Channel, lastUsed : Millis]]
          /\ \A k \in Endpoint : entries'[k].channel <= built
      BY <1>0, <2>8, <3>1 DEF Clear, NoEntry
    <3>3. EntriesFit' /\ NoneSlips(t, AtRest)
      BY <1>0, <1>00, <2>8, <3>1, <3>2 DEF Clear, EntriesFit, NoneSlips, Channel, Millis
    <3> QED
      BY <2>8, <3>3, AtRestFits, ThreadMoves DEF Clear
  <2>9. ASSUME NEW c \in Channel, ShutNext(t, c) PROVE PoolInv'
    <3>1. PICK q : q = [p EXCEPT !.closing = @ \ {c}]
      OBVIOUS
    <3>2. q \in Threads /\ q.at = "close" /\ p.at = "close"
      BY <2>0, <2>9, <3>1 DEF ShutNext, Threads
    <3> QED
      BY <2>9, <3>1, <3>2, ThreadSteps DEF ShutNext
  <2> QED
    BY <2>1, <2>2, <2>3, <2>4, <2>5, <2>6, <2>7, <2>8, <2>9
<1> QED
  BY <1>1, <1>2, <1>3 DEF PoolNext

\* Sweeps that race with gets, and with each other, lose no channel.
THEOREM NoChannelIsLost == PoolInit /\ [][PoolNext]_poolVars => []NoneIsLost
<1>1. PoolInv => NoneIsLost
  BY DEF PoolInv
<1> QED
  BY <1>1, PoolInitFits, PoolStepFits, PTL

-----------------------------------------------------------------------------
(* The cache of signing keys: a fetched set is as new as the call that asked *)
(* for it, or newer.                                                       *)

KeyLookups ==
  [at : {"idle", "fetching", "answered", "returned"}, kid : Kid \cup {NoCall.kid},
   began : Times, keys : SUBSET Kid, served : Times, found : BOOLEAN]

\* An answer holds every key that was published before it was served, and since.
Complete(l) ==
  \A k \in Kid : since[k] # -1 /\ since[k] < l.served => k \in l.keys

Fits(l) ==
  /\ l.began <= clock /\ l.served <= clock
  /\ l.at # "idle" => l.kid \in Kid
  /\ l.at = "answered" => l.began <= l.served /\ Complete(l)

KeyCacheInv ==
  /\ clock \in Times /\ keySet \subseteq Kid
  /\ cachedKeys \in [keys : SUBSET Kid, served : Times] /\ cachedKeys.served <= clock
  /\ cachedAt \in Times /\ cachedAt <= cachedKeys.served
  /\ since \in [Kid -> Times \cup {-1}]
  /\ \A k \in Kid : k \in keySet <=> since[k] # -1
  /\ lookup \in [Call -> KeyLookups]
  /\ \A c \in Call : Fits(lookup[c])

\* Initially nothing is published, cached or asked.
LEMMA KeyCacheInitFits == KeyCacheInit => KeyCacheInv
BY KeyCacheAssumption
   DEF KeyCacheInit, KeyCacheInv, KeyLookups, NoCall, Times, Fits, Complete

\* A call goes on to q, at the same time and with the same keys at Google.
LEMMA LookupMoves ==
  ASSUME KeyCacheInv, NEW c \in Call, NEW q \in KeyLookups, Fits(q),
         lookup' = [lookup EXCEPT ![c] = q], UNCHANGED <<clock, keySet, since>>,
         cachedKeys' \in [keys : SUBSET Kid, served : Times], cachedKeys'.served <= clock,
         cachedAt' \in Times, cachedAt' <= cachedKeys'.served
  PROVE  KeyCacheInv'
<1>1. lookup' \in [Call -> KeyLookups]
  BY DEF KeyCacheInv
<1>2. \A l : Fits(l) => Fits(l)'
  BY DEF Fits, Complete
<1>3. \A d \in Call : Fits(lookup'[d])
  BY DEF KeyCacheInv
<1>4. \A d \in Call : Fits(lookup[d])'
  BY <1>3 DEF Fits, Complete
<1> QED
  BY <1>1, <1>4 DEF KeyCacheInv

\* Google changes its keys, a call takes a step, or time passes.
LEMMA KeyCacheStepFits == KeyCacheInv /\ [KeyCacheNext]_keyCacheVars => KeyCacheInv'
<1> SUFFICES ASSUME KeyCacheInv, [KeyCacheNext]_keyCacheVars
             PROVE  KeyCacheInv'
  OBVIOUS
<1>0. LastTime \in Nat /\ clock \in Nat
  BY KeyCacheAssumption DEF KeyCacheInv, Times
<1> USE <1>0
<1>1. CASE UNCHANGED keyCacheVars
  BY <1>1 DEF keyCacheVars, KeyCacheInv, Fits, Complete
<1>2. ASSUME NEW keys \in SUBSET Kid, Rotate(keys)
      PROVE  KeyCacheInv'
  <2>1. /\ since' \in [Kid -> Times \cup {-1}]
        /\ \A k \in Kid : k \in keys <=> since'[k] # -1
        /\ \A k \in Kid : since'[k] = -1 \/ since'[k] = since[k] \/ since'[k] = clock
    BY <1>2 DEF Rotate, KeyCacheInv, Times
  <2>2. ASSUME NEW c \in Call
        PROVE  Fits(lookup[c])'
    BY <1>2, <2>1 DEF Rotate, Fits, Complete, KeyCacheInv, KeyLookups, Times
  <2> QED
    BY <1>2, <2>1, <2>2 DEF Rotate, KeyCacheInv
<1>3. ASSUME NEW c \in Call, NEW kid \in Kid, GetKey(c, kid)
      PROVE  KeyCacheInv'
  <2>1. PICK q : q = IF MustFetch(kid)
                       THEN [NoCall EXCEPT !.at = "fetching", !.kid = kid, !.began = clock]
                       ELSE [at |-> "returned", kid |-> kid, began |-> clock, keys |-> {},
                             served |-> cachedKeys.served, found |-> kid \in cachedKeys.keys]
    OBVIOUS
  <2>2. q \in KeyLookups /\ q.began = clock /\ q.served <= clock /\ q.kid = kid
        /\ q.at \in {"fetching", "returned"}
    <3>1. CASE MustFetch(kid)
      <4>1. q = [NoCall EXCEPT !.at = "fetching", !.kid = kid, !.began = clock]
        BY <2>1, <3>1
      <4>2. NoCall \in KeyLookups /\ NoCall.served = 0
        BY DEF NoCall, KeyLookups, Times
      <4>3. clock \in Times
        BY DEF KeyCacheInv
      <4> QED
        <5>1. q \in KeyLookups /\ q.served = 0
          BY <4>1, <4>2, <4>3 DEF KeyLookups
        <5>2. q.began = clock /\ q.kid = kid /\ q.at = "fetching"
          BY <4>1, <4>2 DEF KeyLookups
        <5> QED
          BY <5>1, <5>2, <4>3
    <3>2. CASE ~MustFetch(kid)
      <4>1. kid \in cachedKeys.keys
        BY <3>2 DEF MustFetch
      <4>2. q = [at |-> "returned", kid |-> kid, began |-> clock, keys |-> {},
                 served |-> cachedKeys.served, found |-> TRUE]
        BY <2>1, <3>2, <4>1
      <4> QED
        BY <4>2 DEF KeyCacheInv, KeyLookups
    <3> QED
      BY <3>1, <3>2
  <2>3. Fits(q)
    BY <2>2 DEF Fits
  <2> QED
    BY <1>3, <2>1, <2>2, <2>3, LookupMoves DEF GetKey, KeyCacheInv
<1>4. ASSUME NEW c \in Call, Serve(c)
      PROVE  KeyCacheInv'
  <2>1. PICK q : q = [lookup[c] EXCEPT !.at = "answered", !.keys = keySet, !.served = clock]
    OBVIOUS
  <2>2. lookup[c] \in KeyLookups /\ Fits(lookup[c])
    BY DEF KeyCacheInv
  <2>3. /\ q \in KeyLookups /\ q.at = "answered" /\ q.keys = keySet /\ q.served = clock
        /\ q.kid = lookup[c].kid /\ q.began = lookup[c].began
    BY <2>1, <2>2 DEF KeyCacheInv, KeyLookups
  <2>4. Fits(q)
    BY <1>4, <2>2, <2>3 DEF Serve, Fits, Complete, KeyCacheInv
  <2>5. lookup' = [lookup EXCEPT ![c] = q]
    BY <1>4, <2>1 DEF Serve
  <2> QED
    BY <1>4, <2>3, <2>4, <2>5, LookupMoves DEF Serve, KeyCacheInv
<1>5. ASSUME NEW c \in Call, Refresh(c)
      PROVE  KeyCacheInv'
  <2>1. PICK q : q = [lookup[c] EXCEPT !.at = "returned", !.keys = {},
                                       !.found = lookup[c].kid \in lookup[c].keys]
    OBVIOUS
  <2>2. lookup[c] \in KeyLookups /\ Fits(lookup[c])
    BY DEF KeyCacheInv
  <2>3. /\ q \in KeyLookups /\ q.at = "returned" /\ q.served = lookup[c].served
        /\ q.kid = lookup[c].kid /\ q.began = lookup[c].began
    <3>1. CASE lookup[c].kid \in lookup[c].keys
      BY <2>1, <2>2, <3>1 DEF KeyLookups
    <3>2. CASE lookup[c].kid \notin lookup[c].keys
      <4>1. (lookup[c].kid \in lookup[c].keys) = FALSE
        BY <3>2
      <4>2. q = [lookup[c] EXCEPT !.at = "returned", !.keys = {}, !.found = FALSE]
        BY <2>1, <4>1
      <4> QED
        BY <2>2, <4>2 DEF KeyLookups
    <3> QED
      BY <3>1, <3>2
  <2>4. Fits(q)
    BY <1>5, <2>2, <2>3 DEF Refresh, Fits
  <2>5. lookup' = [lookup EXCEPT ![c] = q]
    BY <1>5, <2>1 DEF Refresh
  <2>6. /\ cachedKeys' \in [keys : SUBSET Kid, served : Times]
        /\ cachedKeys'.served = lookup[c].served /\ cachedAt' = lookup[c].began
    BY <1>5, <2>2 DEF Refresh, Stamp, KeyLookups
  <2>7. cachedKeys'.served <= clock /\ cachedAt' <= cachedKeys'.served /\ cachedAt' \in Times
    BY <1>5, <2>2, <2>6 DEF Refresh, Fits, KeyLookups
  <2> QED
    BY <1>5, <2>3, <2>4, <2>5, <2>6, <2>7, LookupMoves DEF Refresh
<1>6. ASSUME NEW c \in Call, FailFetch(c)
      PROVE  KeyCacheInv'
  <2>1. PICK q : q = NoCall
    OBVIOUS
  <2>2. q \in KeyLookups /\ Fits(q)
    BY <2>1 DEF KeyLookups, NoCall, Times, Fits
  <2> QED
    BY <1>6, <2>1, <2>2, LookupMoves DEF FailFetch, KeyCacheInv
<1>7. CASE TickClock
  <2>1. clock' \in Times /\ clock <= clock'
    BY <1>7 DEF TickClock, Times
  <2>2. ASSUME NEW c \in Call
        PROVE  Fits(lookup[c])'
    BY <1>7, <2>1 DEF TickClock, KeyCacheInv, Times, KeyLookups, Fits, Complete
  <2> QED
    BY <1>7, <2>1, <2>2 DEF TickClock, KeyCacheInv, Times
<1> QED
  BY <1>1, <1>2, <1>3, <1>4, <1>5, <1>6, <1>7 DEF KeyCacheNext

\* An answer that comes late, or replaces a newer one, is no wrong answer: what a call
\* found was among Google's keys at most the cache's life ago, and what was published
\* before the call began is found.
THEOREM SigningKeysAreCurrent == KeyCacheInit /\ [][KeyCacheNext]_keyCacheVars => KeysAreCurrent
<1>1. ASSUME KeyCacheInv, [KeyCacheNext]_keyCacheVars, NEW c \in Call,
             lookup[c].at # "returned", lookup'[c].at = "returned"
      PROVE  /\ lookup'[c].found => lookup'[c].served >= lookup'[c].began - Ttl
             /\ since[lookup'[c].kid] \in 0..(lookup'[c].began - 1) => lookup'[c].found
  <2>0. /\ lookup[c] \in KeyLookups /\ Fits(lookup[c]) /\ lookup \in [Call -> KeyLookups]
        /\ clock \in Times /\ cachedAt \in Times /\ cachedKeys.served \in Times
        /\ cachedAt <= cachedKeys.served /\ Ttl \in Nat
        /\ since \in [Kid -> Times \cup {-1}]
    BY <1>1, KeyCacheAssumption DEF KeyCacheInv
  <2>1. CASE \E kid \in Kid : GetKey(c, kid)
    <3>1. PICK kid \in Kid : GetKey(c, kid)
      BY <2>1
    <3>2. CASE MustFetch(kid)
      BY <1>1, <2>0, <3>1, <3>2 DEF GetKey, NoCall
    <3>3. CASE ~MustFetch(kid)
      <4>1. /\ lookup'[c].served = cachedKeys.served /\ lookup'[c].began = clock
            /\ lookup'[c].found
        BY <2>0, <3>1, <3>3 DEF GetKey, MustFetch
      <4> QED
        BY <2>0, <3>3, <4>1 DEF MustFetch, Times
    <3> QED
      BY <3>2, <3>3
  <2>2. CASE Refresh(c)
    <3>1. /\ lookup'[c].served = lookup[c].served /\ lookup'[c].began = lookup[c].began
          /\ lookup'[c].kid = lookup[c].kid
          /\ lookup'[c].found = (lookup[c].kid \in lookup[c].keys)
      BY <2>0, <2>2 DEF Refresh, KeyLookups
    <3>2. lookup[c].began <= lookup[c].served /\ Complete(lookup[c]) /\ lookup[c].kid \in Kid
      BY <2>0, <2>2 DEF Refresh, Fits
    <3>3. lookup[c].began \in Int /\ lookup[c].served \in Int /\ since[lookup[c].kid] \in Int
      BY <2>0, <3>2 DEF KeyLookups, Times
    <3>4. since[lookup[c].kid] \in 0..(lookup[c].began - 1) => lookup[c].kid \in lookup[c].keys
      BY <3>2, <3>3 DEF Complete
    <3>5. lookup[c].served >= lookup[c].began - Ttl
      BY <2>0, <3>2, <3>3
    <3>6. lookup[c].kid \in lookup[c].keys => lookup'[c].found
      BY <3>1
    <3> QED
      BY <3>1, <3>4, <3>5, <3>6
  <2>3. CASE lookup'[c] = lookup[c] \/ lookup'[c].at # "returned"
    BY <1>1, <2>3
  <2>4. \/ lookup'[c] = lookup[c] \/ lookup'[c].at # "returned"
        \/ Refresh(c) \/ \E kid \in Kid : GetKey(c, kid)
    <3>1. \/ UNCHANGED lookup
          \/ \E d \in Call : \/ \E kid \in Kid : GetKey(d, kid)
                             \/ Serve(d) \/ Refresh(d) \/ FailFetch(d)
      BY <1>1 DEF KeyCacheNext, keyCacheVars, Rotate, TickClock
    <3>2. ASSUME NEW d \in Call, d # c, (\E kid \in Kid : GetKey(d, kid)) \/ Refresh(d)
          PROVE  lookup'[c] = lookup[c]
      BY <2>0, <3>2 DEF GetKey, Refresh
    <3>3. ASSUME NEW d \in Call, Serve(d) \/ FailFetch(d)
          PROVE  lookup'[c] = lookup[c] \/ lookup'[c].at # "returned"
      BY <2>0, <3>3 DEF Serve, FailFetch, NoCall, KeyLookups
    <3> QED
      BY <3>1, <3>2, <3>3
  <2> QED
    BY <2>1, <2>2, <2>3, <2>4
<1>2. KeyCacheInv /\ [KeyCacheNext]_keyCacheVars =>
        [\A c \in Call :
           lookup[c].at # "returned" /\ lookup'[c].at = "returned" =>
             /\ lookup'[c].found => lookup'[c].served >= lookup'[c].began - Ttl
             /\ since[lookup'[c].kid] \in 0..(lookup'[c].began - 1) => lookup'[c].found]_keyCacheVars
  BY <1>1
<1> QED
  BY <1>2, KeyCacheInitFits, KeyCacheStepFits, PTL DEF KeysAreCurrent

-----------------------------------------------------------------------------
(* The rate limiters: the window remembers the last of what was admitted,  *)
(* and what it has forgotten is a window's length ago.                     *)

Moments == 0..MaxNow

\* h are the hits remembered at t, a all that were admitted.
Remembers(h, a, t) ==
  /\ Len(h) <= Len(a)
  /\ \A i \in 1..Len(h) : h[i] = a[Len(a) - Len(h) + i]
  /\ \A j \in 1..(Len(a) - Len(h)) : a[j] + Window <= t
  /\ \A i, j \in 1..Len(a) : i <= j => a[i] <= a[j]
  /\ \A j \in 1..Len(a) : a[j] <= t

\* What WindowHolds says of one process and key.
Spaced(a) ==
  \A i \in DOMAIN a : i + Rpm \in DOMAIN a => a[i + Rpm] - a[i] >= Window

\* The hits within the window are the last ones.
LEMMA WindowIsEnd ==
  ASSUME NEW h \in Seq(Moments), NEW t \in Moments,
         \A i, j \in 1..Len(h) : i <= j => h[i] <= h[j]
  PROVE  \E m \in 0..Len(h) : {i \in DOMAIN h : t - h[i] < Window} = {i \in DOMAIN h : i > m}
<1> DEFINE P == {i \in DOMAIN h : t - h[i] < Window}
<1>0. Window \in Nat /\ MaxNow \in Nat /\ DOMAIN h = 1..Len(h) /\ Len(h) \in Nat
  BY RateLimitsAssumption
<1>1. CASE P = {}
  <2>1. Len(h) \in 0..Len(h) /\ P = {i \in DOMAIN h : i > Len(h)}
    BY <1>0, <1>1
  <2> QED
    BY <2>1
<1>2. CASE P # {}
  <2>1. PICK f \in P : \A i \in P : f <= i
    <3>1. P \subseteq Nat
      BY <1>0
    <3> HIDE DEF P
    <3> QED
      BY <1>2, <3>1, LeastOf
  <2>2. \A i \in DOMAIN h : h[i] \in Nat
    BY <1>0 DEF Moments
  <2>3. \A i \in DOMAIN h : i >= f => i \in P
    <3> SUFFICES ASSUME NEW i \in DOMAIN h, i >= f PROVE i \in P
      OBVIOUS
    <3>1. h[f] <= h[i] /\ h[f] \in Nat /\ h[i] \in Nat /\ t \in Nat
      BY <1>0, <2>2 DEF Moments
    <3>2. t - h[f] < Window
      OBVIOUS
    <3>3. t - h[i] < Window
      BY <1>0, <3>1, <3>2
    <3> QED
      BY <3>3
  <2>4. f - 1 \in 0..Len(h) /\ \A i \in DOMAIN h : i > f - 1 <=> i >= f
    BY <1>0
  <2>5. P = {i \in DOMAIN h : i > f - 1}
    BY <2>1, <2>3, <2>4
  <2> QED
    BY <2>4, <2>5
<1> QED
  BY <1>1, <1>2

\* One more request is let through while the window has room.
LEMMA AdmitFits ==
  ASSUME NEW h \in Seq(Moments), NEW a \in Seq(Moments), NEW t \in Moments,
         Remembers(h, a, t), Spaced(a),
         NEW w, w = Filtered(h, {i \in DOMAIN h : t - h[i] < Window}), Len(w) < Rpm
  PROVE  /\ Append(w, t) \in Seq(Moments) /\ Append(a, t) \in Seq(Moments)
         /\ Remembers(Append(w, t), Append(a, t), t)
         /\ Spaced(Append(a, t))
<1>0. /\ Window \in Nat /\ MaxNow \in Nat /\ Rpm \in Nat /\ Rpm > 0 /\ t \in Nat
      /\ Len(a) \in Nat /\ Len(h) \in Nat /\ DOMAIN h = 1..Len(h)
      /\ \A i \in 1..Len(a) : a[i] \in Nat
      /\ \A i \in 1..Len(h) : h[i] \in Nat
  BY RateLimitsAssumption DEF Moments
<1>1. PICK d \in Nat : Len(a) = d + Len(h)
  <2>1. Len(a) - Len(h) \in Nat /\ Len(a) = (Len(a) - Len(h)) + Len(h)
    BY <1>0 DEF Remembers
  <2> QED
    BY <2>1
<1>2. /\ \A i \in 1..Len(h) : h[i] = a[d + i]
      /\ \A j \in 1..d : a[j] + Window <= t
      /\ \A i, j \in 1..Len(a) : i <= j => a[i] <= a[j]
      /\ \A j \in 1..Len(a) : a[j] <= t
  <2>1. Len(a) - Len(h) = d
    BY <1>0, <1>1
  <2> QED
    BY <2>1 DEF Remembers
<1>3. \A i, j \in 1..Len(h) : i <= j => h[i] <= h[j]
  <2> SUFFICES ASSUME NEW i \in 1..Len(h), NEW j \in 1..Len(h), i <= j PROVE h[i] <= h[j]
    OBVIOUS
  <2>1. d + i \in 1..Len(a) /\ d + j \in 1..Len(a) /\ d + i <= d + j
    BY <1>0, <1>1
  <2>2. h[i] = a[d + i] /\ h[j] = a[d + j]
    BY <1>2
  <2> QED
    BY <1>2, <2>1, <2>2
<1>4. PICK m \in 0..Len(h) : {i \in DOMAIN h : t - h[i] < Window} = {i \in DOMAIN h : i > m}
  BY <1>3, WindowIsEnd
<1>5. PICK k \in Nat : Len(h) = m + k /\ m \in Nat
  <2>1. Len(h) - m \in Nat /\ Len(h) = m + (Len(h) - m) /\ m \in Nat
    BY <1>0
  <2> QED
    BY <2>1
<1>6. /\ w \in Seq(Moments) /\ Len(w) = k
      /\ \A i \in 1..k : w[i] = h[m + i]
  <2>1. Len(h) - m = k
    BY <1>5
  <2>2. PICK P : P = {i \in DOMAIN h : t - h[i] < Window}
    OBVIOUS
  <2>3. P = {i \in DOMAIN h : i > m} /\ w = Filtered(h, P)
    BY <1>4, <2>2
  <2>4. /\ Filtered(h, P) \in Seq(Moments)
        /\ Len(Filtered(h, P)) = Len(h) - m
        /\ \A i \in 1..(Len(h) - m) : Filtered(h, P)[i] = h[m + i]
    BY <2>3, FilteredEnd
  <2> QED
    BY <2>1, <2>3, <2>4
<1>7. \A i \in 1..k : w[i] = a[d + m + i]
  <2> SUFFICES ASSUME NEW i \in 1..k PROVE w[i] = a[d + m + i]
    OBVIOUS
  <2>1. m + i \in 1..Len(h) /\ d + (m + i) = d + m + i
    BY <1>5
  <2> QED
    BY <1>2, <1>6, <2>1
<1>8. \A j \in 1..(d + m) : a[j] + Window <= t
  <2> SUFFICES ASSUME NEW j \in 1..(d + m) PROVE a[j] + Window <= t
    OBVIOUS
  <2>1. CASE j <= d
    BY <1>2, <2>1
  <2>2. CASE j > d
    <3>1. PICK i \in 1..m : j = d + i
      <4>1. j - d \in 1..m /\ j = d + (j - d)
        BY <1>5, <2>2
      <4> QED
        BY <4>1
    <3>2. i \in DOMAIN h /\ ~(i > m) /\ h[i] = a[j]
      BY <1>0, <1>2, <1>5, <3>1
    <3>3. ~(t - h[i] < Window) /\ h[i] \in Nat
      BY <1>0, <1>4, <3>2
    <3> QED
      BY <1>0, <3>2, <3>3
  <2> QED
    BY <1>5, <2>1, <2>2
<1>9. PICK n \in Nat : n = Len(a) /\ n = d + m + k
  BY <1>1, <1>5
<1>10. PICK b, v : b = Append(a, t) /\ v = Append(w, t)
  OBVIOUS
<1>11. /\ DOMAIN a = 1..n /\ DOMAIN b = 1..(n + 1) /\ b \in Seq(Moments) /\ Len(b) = n + 1 /\ b[n + 1] = t
       /\ \A i \in 1..n : b[i] = a[i]
  <2>1. n \in Nat /\ n = Len(a) /\ a \in Seq(Moments) /\ t \in Moments
    BY <1>9
  <2>2. /\ DOMAIN a = 1..n /\ DOMAIN Append(a, t) = 1..(n + 1)
        /\ Append(a, t) \in Seq(Moments) /\ Len(Append(a, t)) = n + 1
        /\ Append(a, t)[n + 1] = t
        /\ \A i \in 1..n : Append(a, t)[i] = a[i]
    BY <2>1, AppendTo
  <2> QED
    BY <1>10, <2>2
<1>12. /\ v \in Seq(Moments) /\ Len(v) = k + 1 /\ v[k + 1] = t
       /\ \A i \in 1..k : v[i] = w[i]
  <2>1. k \in Nat /\ k = Len(w) /\ w \in Seq(Moments) /\ t \in Moments
    BY <1>6
  <2>2. /\ DOMAIN w = 1..k /\ DOMAIN Append(w, t) = 1..(k + 1)
        /\ Append(w, t) \in Seq(Moments) /\ Len(Append(w, t)) = k + 1
        /\ Append(w, t)[k + 1] = t
        /\ \A i \in 1..k : Append(w, t)[i] = w[i]
    BY <2>1, AppendTo
  <2> QED
    BY <1>10, <2>2
<1>13. \A i \in 1..(k + 1) : v[i] = b[(d + m) + i]
  <2> SUFFICES ASSUME NEW i \in 1..(k + 1) PROVE v[i] = b[(d + m) + i]
    OBVIOUS
  <2>1. CASE i = k + 1
    <3>1. (d + m) + i = n + 1
      BY <1>5, <1>9, <2>1
    <3> QED
      BY <1>11, <1>12, <2>1, <3>1
  <2>2. CASE i # k + 1
    <3>1. i \in 1..k /\ (d + m) + i \in 1..n /\ (d + m) + i = d + m + i
      BY <1>5, <1>9, <2>2
    <3> QED
      BY <1>7, <1>11, <1>12, <3>1
  <2> QED
    BY <2>1, <2>2
<1>14. \A i \in 1..(n + 1) : b[i] <= t
  <2> SUFFICES ASSUME NEW i \in 1..(n + 1) PROVE b[i] <= t
    OBVIOUS
  <2>1. CASE i = n + 1
    BY <1>0, <1>11, <2>1
  <2>2. CASE i # n + 1
    <3>1. i \in 1..n /\ b[i] = a[i]
      BY <1>11, <2>2
    <3> QED
      BY <1>2, <1>9, <3>1
  <2> QED
    BY <2>1, <2>2
<1>15. \A i, j \in 1..(n + 1) : i <= j => b[i] <= b[j]
  <2> SUFFICES ASSUME NEW i \in 1..(n + 1), NEW j \in 1..(n + 1), i <= j PROVE b[i] <= b[j]
    OBVIOUS
  <2>1. CASE j = n + 1
    BY <1>11, <1>14, <2>1
  <2>2. CASE j # n + 1
    <3>1. i \in 1..n /\ j \in 1..n
      BY <2>2
    <3> QED
      BY <1>2, <1>9, <1>11, <3>1
  <2> QED
    BY <2>1, <2>2
<1>16. \A j \in 1..(d + m) : b[j] + Window <= t
  BY <1>5, <1>8, <1>9, <1>11
<1>17. Remembers(v, b, t)
  <2>1. Len(b) - Len(v) = d + m /\ Len(v) <= Len(b)
    BY <1>5, <1>9, <1>11, <1>12
  <2> QED
    BY <1>11, <1>12, <1>13, <1>14, <1>15, <1>16, <2>1 DEF Remembers
<1>18. Spaced(b)
  <2> SUFFICES ASSUME NEW i \in 1..(n + 1), i + Rpm \in 1..(n + 1)
               PROVE  b[i + Rpm] - b[i] >= Window
    BY <1>11 DEF Spaced
  <2>1. CASE i + Rpm = n + 1
    <3>1. i \in 1..(d + m) /\ i \in 1..n
      BY <1>0, <1>5, <1>6, <1>9, <2>1
    <3>2. b[i] + Window <= t /\ b[i] \in Nat /\ b[i + Rpm] = t
      BY <1>0, <1>9, <1>11, <1>16, <2>1, <3>1
    <3> QED
      BY <1>0, <3>2
  <2>2. CASE i + Rpm # n + 1
    <3>1. i \in 1..n /\ i + Rpm \in 1..n
      BY <1>0, <2>2
    <3>2. a[i + Rpm] - a[i] >= Window
      BY <1>11, <3>1 DEF Spaced
    <3> QED
      BY <1>11, <3>1, <3>2
  <2> QED
    BY <2>1, <2>2
<1> QED
  BY <1>10, <1>11, <1>12, <1>17, <1>18

\* The lesser of two numbers.
LEMMA LesserOfTwo ==
  ASSUME NEW x \in Int, NEW y \in Int
  PROVE  Min({x, y}) = IF x <= y THEN x ELSE y
<1>1. \A m \in {x, y} : (\A z \in {x, y} : m <= z) <=> m = (IF x <= y THEN x ELSE y)
  OBVIOUS
<1>2. (IF x <= y THEN x ELSE y) \in {x, y}
  OBVIOUS
<1> QED
  BY <1>1, <1>2 DEF Min

\* One more tick counted at the next look adds what one more filling adds.
LEMMA TickFills ==
  ASSUME NEW c \in Nat, NEW x \in Nat, NEW d \in Nat, NEW r \in Nat
  PROVE  Min({c, x + (d + 1) * r}) = Min({c, Min({c, x + d * r}) + r})
<1>1. PICK p \in Nat : p = d * r
  OBVIOUS
<1>2. (d + 1) * r = p + r
  BY <1>1
<1>3. x + p \in Int /\ c \in Int
  OBVIOUS
<1>4. Min({c, x + p}) = IF c <= x + p THEN c ELSE x + p
  BY <1>3, LesserOfTwo
<1>5. PICK y \in Nat : y = Min({c, x + p})
  BY <1>4
<1>6. Min({c, y + r}) = IF c <= y + r THEN c ELSE y + r
  <2>1. y + r \in Int
    OBVIOUS
  <2> QED
    BY <1>3, <2>1, LesserOfTwo
<1>7. Min({c, x + (p + r)}) = IF c <= x + (p + r) THEN c ELSE x + (p + r)
  <2>1. x + (p + r) \in Int
    OBVIOUS
  <2> QED
    BY <1>3, <2>1, LesserOfTwo
<1> QED
  BY <1>1, <1>2, <1>4, <1>5, <1>6, <1>7

\* A bucket holds what one that is filled at every tick would hold.
BucketFits(b) ==
  /\ fund[b] \in 0..Capacity[b]
  /\ states[b].tokens \in 0..Capacity[b]
  /\ states[b].at \in Int /\ -1 <= states[b].at /\ states[b].at <= time
  /\ Tokens(b) = fund[b]

RateInv ==
  /\ time \in Moments
  /\ hits \in [Server -> [Key -> Seq(Moments)]]
  /\ admitted \in [Server -> [Key -> Seq(Moments)]]
  /\ \A s \in Server, k \in Key :
       Remembers(hits[s][k], admitted[s][k], time) /\ Spaced(admitted[s][k])
  /\ \A b \in Bucket : BucketFits(b)

\* A bucket that is looked at, and pays cost tokens, is still filled as it should be.
LEMMA LookedAt ==
  ASSUME RateInv, NEW b \in Bucket, NEW cost \in 0..Tokens(b),
         states'[b] = [tokens |-> Tokens(b) - cost, at |-> time], fund'[b] = fund[b] - cost,
         UNCHANGED time
  PROVE  BucketFits(b)'
<1>1. /\ fund[b] \in 0..Capacity[b] /\ Tokens(b) = fund[b] /\ time \in Nat
      /\ Capacity[b] \in Nat /\ RefillRate[b] \in Nat
  BY RateLimitsAssumption DEF RateInv, BucketFits, Moments
<1>2. PICK x \in Nat : x = fund[b] - cost
  BY <1>1
<1>3. x \in 0..Capacity[b] /\ fund'[b] = x /\ states'[b] = [tokens |-> x, at |-> time]
  BY <1>1, <1>2
<1>4. (time - time) * RefillRate[b] = 0
  BY <1>1
<1>5. Tokens(b)' = Min({Capacity[b], x + 0})
  <2>1. states'[b].at = time /\ states'[b].tokens = x /\ time' = time /\ time # -1
    BY <1>1, <1>3
  <2>2. Tokens(b)' = Min({Capacity[b], x + (time - time) * RefillRate[b]})
    BY <2>1 DEF Tokens
  <2> QED
    BY <1>4, <2>2
<1>6. Min({Capacity[b], x + 0}) = x
  <2>1. x + 0 \in Int /\ Capacity[b] \in Int
    BY <1>1
  <2>2. Min({Capacity[b], x + 0}) = IF Capacity[b] <= x + 0 THEN Capacity[b] ELSE x + 0
    BY <2>1, LesserOfTwo
  <2> QED
    BY <1>1, <1>3, <2>2
<1> QED
  BY <1>1, <1>3, <1>5, <1>6 DEF BucketFits

\* A tick fills every bucket.
LEMMA TickKeepsBucket ==
  ASSUME RateInv, NEW b \in Bucket, TickTime
  PROVE  BucketFits(b)'
<1>1. /\ fund[b] \in 0..Capacity[b] /\ Tokens(b) = fund[b] /\ time \in Nat
      /\ Capacity[b] \in Nat /\ RefillRate[b] \in Nat
      /\ states[b].tokens \in 0..Capacity[b]
      /\ states[b].at \in Int /\ -1 <= states[b].at /\ states[b].at <= time
  BY RateLimitsAssumption DEF RateInv, BucketFits, Moments
<1>2. PICK c \in Nat, r \in Nat : c = Capacity[b] /\ r = RefillRate[b]
  BY <1>1
<1>3. /\ states'[b] = states[b] /\ fund'[b] = Min({c, fund[b] + r}) /\ time' = time + 1
  BY <1>2 DEF TickTime
<1>4. Min({c, fund[b] + r}) = IF c <= fund[b] + r THEN c ELSE fund[b] + r
  <2>1. fund[b] + r \in Int /\ c \in Int
    BY <1>1
  <2> QED
    BY <2>1, LesserOfTwo
<1>5. fund'[b] \in 0..c
  BY <1>1, <1>2, <1>3, <1>4
<1>6. Tokens(b)' = fund'[b]
  <2>1. CASE states[b].at = -1
    BY <1>1, <1>2, <1>3, <1>4, <2>1 DEF Tokens
  <2>2. CASE states[b].at # -1
    <3>1. PICK d \in Nat, x \in Nat : d = time - states[b].at /\ x = states[b].tokens
      BY <1>1
    <3>2. Tokens(b) = Min({c, x + d * r})
      BY <1>2, <2>2, <3>1 DEF Tokens
    <3>3. (time + 1) - states[b].at = d + 1
      BY <1>1, <3>1
    <3>4. Tokens(b)' = Min({c, x + (d + 1) * r})
      BY <1>2, <1>3, <2>2, <3>1, <3>3 DEF Tokens
    <3> QED
      BY <1>1, <1>3, <3>2, <3>4, TickFills
  <2> QED
    BY <2>1, <2>2
<1> QED
  BY <1>1, <1>2, <1>3, <1>5, <1>6 DEF BucketFits

\* Initially nothing was admitted and every bucket is full.
LEMMA RateInitFits == RateInit => RateInv
<1> SUFFICES ASSUME RateInit PROVE RateInv
  OBVIOUS
<1>1. time \in Moments /\ 0 \in Nat
  BY RateLimitsAssumption DEF RateInit, Moments
<1>2. ASSUME NEW s \in Server, NEW k \in Key
      PROVE  Remembers(hits[s][k], admitted[s][k], time) /\ Spaced(admitted[s][k])
  <2>1. hits[s][k] = <<>> /\ admitted[s][k] = <<>>
    BY DEF RateInit
  <2> QED
    BY <2>1 DEF Remembers, Spaced
<1>3. ASSUME NEW b \in Bucket PROVE BucketFits(b)
  <2>1. states[b].tokens = 0 /\ states[b].at = -1 /\ fund[b] = Capacity[b] /\ time = 0
    BY DEF RateInit, NoState
  <2>2. Capacity[b] \in Nat
    BY RateLimitsAssumption
  <2> QED
    BY <2>1, <2>2 DEF BucketFits, Tokens
<1> QED
  BY <1>1, <1>2, <1>3 DEF RateInv, RateInit

\* Time passes, requests come, a process starts again.
LEMMA RateStepFits == RateInv /\ [RateNext]_rateVars => RateInv'
<1> SUFFICES ASSUME RateInv, [RateNext]_rateVars
             PROVE  RateInv'
  OBVIOUS
<1>0. \A b \in Bucket : UNCHANGED <<time, states, fund>> => BucketFits(b)'
  BY DEF RateInv, BucketFits, Tokens
<1>1. CASE UNCHANGED rateVars
  BY <1>0, <1>1 DEF rateVars, RateInv
<1>2. ASSUME NEW s \in Server, NEW k \in Key, Admit(s, k)
      PROVE  RateInv'
  <2>1. /\ hits[s][k] \in Seq(Moments) /\ admitted[s][k] \in Seq(Moments) /\ time \in Moments
        /\ Remembers(hits[s][k], admitted[s][k], time) /\ Spaced(admitted[s][k])
    BY DEF RateInv
  <2>2. PICK w : w = Windowed(s, k)
    OBVIOUS
  <2>3. /\ w = Filtered(hits[s][k], {i \in DOMAIN hits[s][k] : time - hits[s][k][i] < Window})
        /\ Len(w) < Rpm
    BY <1>2, <2>2 DEF Admit, Windowed
  <2>4. /\ Append(w, time) \in Seq(Moments) /\ Append(admitted[s][k], time) \in Seq(Moments)
        /\ Remembers(Append(w, time), Append(admitted[s][k], time), time)
        /\ Spaced(Append(admitted[s][k], time))
    BY <2>1, <2>3, AdmitFits
  <2>5. PICK h, a : h = Append(w, time) /\ a = Append(admitted[s][k], time)
    OBVIOUS
  <2>6. /\ h \in Seq(Moments) /\ a \in Seq(Moments)
        /\ hits' = [hits EXCEPT ![s][k] = h] /\ admitted' = [admitted EXCEPT ![s][k] = a]
        /\ UNCHANGED <<time, states, fund>>
    BY <1>2, <2>2, <2>4, <2>5 DEF Admit
  <2>7. Remembers(h, a, time) /\ Spaced(a)
    BY <2>4, <2>5
  <2>8. /\ hits' \in [Server -> [Key -> Seq(Moments)]]
        /\ admitted' \in [Server -> [Key -> Seq(Moments)]]
    BY <2>6 DEF RateInv
  <2>9. ASSUME NEW u \in Server, NEW l \in Key
        PROVE  Remembers(hits'[u][l], admitted'[u][l], time') /\ Spaced(admitted'[u][l])
    <3>1. CASE u = s /\ l = k
      <4>1. hits'[u][l] = h /\ admitted'[u][l] = a
        BY <2>6, <3>1 DEF RateInv
      <4> QED
        BY <2>6, <2>7, <4>1
    <3>2. CASE ~(u = s /\ l = k)
      <4>1. hits'[u][l] = hits[u][l] /\ admitted'[u][l] = admitted[u][l]
        BY <2>6, <3>2 DEF RateInv
      <4> QED
        BY <2>6, <4>1 DEF RateInv
    <3> QED
      BY <3>1, <3>2
  <2> QED
    BY <1>0, <2>6, <2>8, <2>9 DEF RateInv
<1>3. ASSUME NEW s \in Server, RestartLimiter(s)
      PROVE  RateInv'
  <2>1. /\ hits' \in [Server -> [Key -> Seq(Moments)]]
        /\ admitted' \in [Server -> [Key -> Seq(Moments)]]
    BY <1>3 DEF RestartLimiter, RateInv
  <2>2. ASSUME NEW u \in Server, NEW l \in Key
        PROVE  Remembers(hits'[u][l], admitted'[u][l], time') /\ Spaced(admitted'[u][l])
    <3>1. CASE u = s
      <4>1. hits'[u][l] = <<>> /\ admitted'[u][l] = <<>>
        BY <1>3, <3>1 DEF RestartLimiter, RateInv
      <4> QED
        BY <4>1 DEF Remembers, Spaced
    <3>2. CASE u # s
      <4>1. hits'[u][l] = hits[u][l] /\ admitted'[u][l] = admitted[u][l] /\ time' = time
        BY <1>3, <3>2 DEF RestartLimiter, RateInv
      <4> QED
        BY <4>1 DEF RateInv
    <3> QED
      BY <3>1, <3>2
  <2> QED
    BY <1>0, <1>3, <2>1, <2>2 DEF RestartLimiter, RateInv
<1>4. ASSUME NEW d \in Demand, Pay(d)
      PROVE  RateInv'
  <2>1. ASSUME NEW b \in Bucket PROVE BucketFits(b)'
    <3>1. CASE b \in ToSet(d.buckets)
      <4>1. PICK cost \in Nat : cost = d.cost
        BY RateLimitsAssumption
      <4>2. Tokens(b) >= cost /\ Tokens(b) \in Nat
        <5>1. Capacity[b] \in Nat /\ fund[b] \in 0..Capacity[b] /\ Tokens(b) = fund[b]
          BY RateLimitsAssumption DEF RateInv, BucketFits
        <5>2. Tokens(b) >= d.cost
          BY <1>4, <3>1 DEF Pay
        <5> QED
          BY <4>1, <5>1, <5>2
      <4>3. cost \in 0..Tokens(b)
        BY <4>2
      <4>4. /\ states'[b] = [tokens |-> Tokens(b) - cost, at |-> time]
            /\ fund'[b] = fund[b] - cost /\ UNCHANGED time
        BY <1>4, <3>1, <4>1 DEF Pay, Filled
      <4> QED
        BY <4>3, <4>4, LookedAt
    <3>2. CASE b \notin ToSet(d.buckets)
      <4>1. states'[b] = states[b] /\ fund'[b] = fund[b] /\ time' = time
        BY <1>4, <3>2 DEF Pay
      <4> QED
        BY <4>1 DEF RateInv, BucketFits, Tokens
    <3> QED
      BY <3>1, <3>2
  <2> QED
    BY <1>4, <2>1 DEF Pay, RateInv
<1>5. ASSUME NEW d \in Demand, Refuse(d)
      PROVE  RateInv'
  <2>1. UNCHANGED <<time, hits, admitted, fund>>
    BY <1>5 DEF Refuse
  <2>2. \A b \in Bucket : states'[b] = states[b] \/ states'[b] = Filled(b)
    BY <1>5 DEF Refuse
  <2>3. ASSUME NEW b \in Bucket PROVE BucketFits(b)'
    <3>1. CASE states'[b] = Filled(b)
      <4>1. Tokens(b) \in Nat /\ fund[b] \in Nat
        BY RateLimitsAssumption DEF RateInv, BucketFits
      <4>2. PICK cost \in 0..Tokens(b) : cost = 0
        BY <4>1
      <4>3. /\ states'[b] = [tokens |-> Tokens(b) - cost, at |-> time]
            /\ fund'[b] = fund[b] - cost /\ UNCHANGED time
        BY <2>1, <3>1, <4>1, <4>2 DEF Filled
      <4> QED
        BY <4>3, LookedAt
    <3>2. CASE states'[b] = states[b]
      BY <2>1, <3>2 DEF RateInv, BucketFits, Tokens
    <3> QED
      BY <2>2, <3>1, <3>2
  <2> QED
    BY <2>1, <2>3 DEF RateInv
<1>6. CASE TickTime
  <2>1. time' \in Moments /\ time' = time + 1 /\ time \in Nat /\ UNCHANGED <<hits, admitted>>
    BY <1>6, RateLimitsAssumption DEF TickTime, RateInv, Moments
  <2>2. ASSUME NEW s \in Server, NEW k \in Key
        PROVE  Remembers(hits[s][k], admitted[s][k], time')
    <3>1. /\ admitted[s][k] \in Seq(Moments) /\ Remembers(hits[s][k], admitted[s][k], time)
          /\ hits[s][k] \in Seq(Moments)
      BY DEF RateInv
    <3>2. PICK h \in Seq(Moments), a \in Seq(Moments) : h = hits[s][k] /\ a = admitted[s][k]
      BY <3>1
    <3>3. /\ Window \in Nat /\ Len(a) \in Nat /\ Len(h) \in Nat
          /\ \A j \in 1..Len(a) : a[j] \in Nat
      BY RateLimitsAssumption DEF Moments
    <3>4. Remembers(h, a, time)
      BY <3>1, <3>2
    <3>5. \A j \in 1..(Len(a) - Len(h)) : a[j] + Window <= time'
      BY <2>1, <3>3, <3>4 DEF Remembers
    <3>6. \A j \in 1..Len(a) : a[j] <= time'
      BY <2>1, <3>3, <3>4 DEF Remembers
    <3>7. Remembers(h, a, time')
      BY <3>4, <3>5, <3>6 DEF Remembers
    <3> QED
      BY <3>2, <3>7
  <2> QED
    BY <1>6, <2>1, <2>2, TickKeepsBucket DEF RateInv
<1> QED
  BY <1>1, <1>2, <1>3, <1>4, <1>5, <1>6 DEF RateNext

\* Whatever is asked for, whenever, and however often a process starts again: no window
\* of one process holds more than rpm requests, and no bucket drifts or is overdrawn.
THEOREM LimitsAreHeld == RateInit /\ [][RateNext]_rateVars => []LimitsHold
<1>1. RateInv => LimitsHold
  <2> SUFFICES ASSUME RateInv PROVE LimitsHold
    OBVIOUS
  <2>1. RateTypeOK
    <3>1. \A b \in Bucket : states[b].at \in -1..MaxNow
      BY RateLimitsAssumption DEF RateInv, BucketFits, Moments
    <3> QED
      BY <3>1 DEF RateInv, RateTypeOK, BucketFits, Moments
  <2>2. WindowHolds
    BY DEF RateInv, Spaced, WindowHolds
  <2>3. LazyIsEager
    BY DEF RateInv, BucketFits, LazyIsEager
  <2> QED
    BY <2>1, <2>2, <2>3 DEF LimitsHold
<1> QED
  BY <1>1, RateInitFits, RateStepFits, PTL

-----------------------------------------------------------------------------
(* The value of digits.                                                    *)

\* v[k] is the value of the first k digits, for k up to n.
Counts(v, digits, n) ==
  /\ v \in [0..n -> Nat] /\ v[0] = 0
  /\ \A k \in 1..n : v[k] = 10 * v[k - 1] + digits[k]

\* One more digit is counted.
LEMMA OneMoreCounts ==
  ASSUME NEW n \in Nat, n # 0, NEW digits, digits[n] \in Nat, NEW v, Counts(v, digits, n - 1)
  PROVE  \E w : Counts(w, digits, n)
<1> DEFINE w == [k \in 0..n |-> IF k = n THEN 10 * v[n - 1] + digits[n] ELSE v[k]]
<1>1. w \in [0..n -> Nat] /\ w[0] = 0
  BY DEF Counts
<1>2. \A k \in 1..n : w[k] = 10 * w[k - 1] + digits[k]
  BY DEF Counts
<1> HIDE DEF w
<1> QED
  BY <1>1, <1>2 DEF Counts

\* Every sequence of digits has the values of its beginnings: a shortest beginning that
\* has none would get one from the beginning before it.
LEMMA CountsExist ==
  ASSUME NEW digits \in Seq(Digit)
  PROVE  \E v : Counts(v, digits, Len(digits))
<1> DEFINE Bad == {n \in 0..Len(digits) : ~ \E v : Counts(v, digits, n)}
<1>0. Len(digits) \in Nat /\ \A k \in 1..Len(digits) : digits[k] \in Nat
  BY DEF Digit
<1>1. SUFFICES ASSUME Bad # {} PROVE FALSE
  BY <1>0
<1>2. PICK n \in Bad : \A m \in Bad : n <= m
  <2>1. Bad \subseteq Nat
    BY <1>0
  <2> HIDE DEF Bad
  <2> QED
    BY <1>1, <2>1, LeastOf
<1>3. n # 0
  <2> DEFINE w == [k \in 0..0 |-> 0]
  <2>1. w \in [0..0 -> Nat] /\ w[0] = 0 /\ \A k \in 1..0 : w[k] = 10 * w[k - 1] + digits[k]
    OBVIOUS
  <2> HIDE DEF w
  <2>2. Counts(w, digits, 0)
    BY <2>1 DEF Counts
  <2> QED
    BY <1>2, <2>2
<1>4. n - 1 \in 0..Len(digits) /\ n - 1 \notin Bad /\ n \in Nat /\ digits[n] \in Nat
  BY <1>0, <1>2, <1>3
<1>5. PICK v : Counts(v, digits, n - 1)
  BY <1>4
<1>6. \E w : Counts(w, digits, n)
  BY <1>3, <1>4, <1>5, OneMoreCounts
<1> QED
  BY <1>2, <1>6

\* So the value is well defined.
LEMMA ValueCounts ==
  ASSUME NEW digits \in Seq(Digit)
  PROVE  \E v : Counts(v, digits, Len(digits)) /\ ValueOf(digits) = v[Len(digits)]
<1> DEFINE upTo == CHOOSE v : v = [k \in 0..Len(digits) |->
                                     IF k = 0 THEN 0 ELSE 10 * v[k - 1] + digits[k]]
<1>0. Len(digits) \in Nat /\ \A k \in 1..Len(digits) : digits[k] \in 0..9
  BY DEF Digit
<1>1. PICK v : Counts(v, digits, Len(digits))
  BY CountsExist
<1>2. v = [k \in 0..Len(digits) |-> IF k = 0 THEN 0 ELSE 10 * v[k - 1] + digits[k]]
  BY <1>0, <1>1 DEF Counts
<1>3. upTo = [k \in 0..Len(digits) |-> IF k = 0 THEN 0 ELSE 10 * upTo[k - 1] + digits[k]]
  BY <1>2
<1>4. ValueOf(digits) = upTo[Len(digits)]
  BY DEF ValueOf
<1> HIDE DEF upTo
<1>5. upTo[0] = 0 /\ \A k \in 1..Len(digits) : upTo[k] = 10 * upTo[k - 1] + digits[k]
  BY <1>0, <1>3
<1>6. upTo \in [0..Len(digits) -> Nat]
  <2> DEFINE Bad == {k \in 0..Len(digits) : upTo[k] \notin Nat}
  <2>1. SUFFICES ASSUME Bad # {} PROVE FALSE
    BY <1>3
  <2>2. PICK n \in Bad : \A m \in Bad : n <= m
    <3>1. Bad \subseteq Nat
      BY <1>0
    <3> HIDE DEF Bad
    <3> QED
      BY <2>1, <3>1, LeastOf
  <2>3. n # 0 /\ n \in 1..Len(digits) /\ upTo[n] \notin Nat
    BY <1>0, <1>5, <2>2
  <2>4. n - 1 \in 0..Len(digits) /\ upTo[n - 1] \in Nat
    BY <1>0, <2>2, <2>3
  <2>5. upTo[n] = 10 * upTo[n - 1] + digits[n] /\ digits[n] \in Nat
    BY <1>0, <1>5, <2>3
  <2> QED
    BY <2>3, <2>4, <2>5
<1> QED
  BY <1>4, <1>5, <1>6 DEF Counts

\* The digit p places from the end, 0 before the first.
At(digits, p) == IF p < Len(digits) THEN digits[Len(digits) - p] ELSE 0

\* q is what is left of a number after p divisions by ten, A the remainders.
Divides(q, A) ==
  /\ q \in [Nat -> Nat] /\ A \in [Nat -> 0..9]
  /\ \A p \in Nat : q[p] = 10 * q[p + 1] + A[p]

ZeroFrom(q, n) == \A p \in Nat : p >= n => q[p] = 0

\* Every place holds a digit.
LEMMA PlacesHoldDigits ==
  ASSUME NEW digits \in Seq(Digit)
  PROVE  /\ Len(digits) \in Nat
         /\ [p \in Nat |-> At(digits, p)] \in [Nat -> 0..9]
<1>1. Len(digits) \in Nat /\ \A i \in 1..Len(digits) : digits[i] \in 0..9
  BY DEF Digit
<1>2. ASSUME NEW p \in Nat PROVE At(digits, p) \in 0..9
  <2>1. CASE p < Len(digits)
    <3>1. Len(digits) - p \in 1..Len(digits)
      BY <1>1, <2>1
    <3> QED
      BY <1>1, <2>1, <3>1 DEF At
  <2>2. CASE ~(p < Len(digits))
    BY <2>2 DEF At
  <2> QED
    BY <2>1, <2>2
<1> QED
  BY <1>1, <1>2

\* The value of digits is what repeated division by ten takes them from.
LEMMA Divisions ==
  ASSUME NEW digits \in Seq(Digit)
  PROVE  \E q : /\ q[0] = ValueOf(digits) /\ q[0] \in Nat
                /\ Divides(q, [p \in Nat |-> At(digits, p)])
                /\ ZeroFrom(q, Len(digits))
<1> DEFINE A == [p \in Nat |-> At(digits, p)]
<1>1. PICK n \in Nat : n = Len(digits)
  OBVIOUS
<1>2. PICK v : Counts(v, digits, n) /\ ValueOf(digits) = v[n]
  BY <1>1, ValueCounts
<1> DEFINE q == [p \in Nat |-> IF p <= n THEN v[n - p] ELSE 0]
<1>3. q \in [Nat -> Nat]
  BY <1>2 DEF Counts
<1>4. q[0] = ValueOf(digits)
  BY <1>2
<1>5. ASSUME NEW p \in Nat
      PROVE  q[p] = 10 * q[p + 1] + A[p] /\ (p >= n => q[p] = 0)
  <2>1. CASE p < n
    BY <1>1, <1>2, <2>1 DEF Counts, At
  <2>2. CASE p >= n
    BY <1>1, <1>2, <2>2 DEF Counts, At
  <2> QED
    BY <2>1, <2>2
<1>6. A \in [Nat -> 0..9]
  BY PlacesHoldDigits
<1> HIDE DEF q, A
<1>7. q[0] \in Nat
  BY <1>3
<1>8. Divides(q, A) /\ ZeroFrom(q, Len(digits))
  BY <1>1, <1>3, <1>5, <1>6 DEF Divides, ZeroFrom
<1> QED
  BY <1>4, <1>7, <1>8 DEF A

\* A division has one quotient and one remainder.
LEMMA OneRemainder ==
  ASSUME NEW x \in Nat, NEW y \in Nat, NEW d \in 0..9, NEW e \in 0..9, 10 * x + d = 10 * y + e
  PROVE  x = y /\ d = e
OBVIOUS

\* One step of it.
LEMMA Divided ==
  ASSUME NEW q, NEW A, Divides(q, A), NEW p \in Nat
  PROVE  /\ q[p] = 10 * q[p + 1] + A[p]
         /\ q[p] \in Nat /\ q[p + 1] \in Nat /\ A[p] \in 0..9 /\ p + 1 \in Nat
<1>1. p + 1 \in Nat
  OBVIOUS
<1> QED
  BY <1>1 DEF Divides

\* Divided by ten again and again: the same number, the same remainders.
LEMMA SameRemainders ==
  ASSUME NEW n \in Nat, NEW q, NEW r, NEW A, NEW B,
         Divides(q, A), Divides(r, B), ZeroFrom(q, n), ZeroFrom(r, n)
  PROVE  q[0] = r[0] <=> \A p \in Nat : A[p] = B[p]
<1>1. ASSUME NEW p \in Nat, q[p] = r[p] PROVE q[p + 1] = r[p + 1] /\ A[p] = B[p]
  <2>1. /\ q[p] = 10 * q[p + 1] + A[p] /\ r[p] = 10 * r[p + 1] + B[p]
        /\ q[p + 1] \in Nat /\ r[p + 1] \in Nat /\ A[p] \in 0..9 /\ B[p] \in 0..9
    BY Divided
  <2>2. \A x, y \in Nat : \A d, e \in 0..9 : 10 * x + d = 10 * y + e => x = y /\ d = e
    BY OneRemainder
  <2>3. 10 * q[p + 1] + A[p] = 10 * r[p + 1] + B[p]
    BY <1>1, <2>1
  <2>4. ASSUME NEW x \in Nat, NEW y \in Nat, NEW d \in 0..9, NEW e \in 0..9,
               x = q[p + 1], y = r[p + 1], d = A[p], e = B[p]
        PROVE  x = y /\ d = e
    <3>1. 10 * x + d = 10 * y + e
      BY <2>3, <2>4
    <3> QED
      BY <2>2, <3>1
  <2> QED
    BY <2>1, <2>4
<1>2. ASSUME q[0] = r[0] PROVE \A p \in Nat : A[p] = B[p]
  <2> DEFINE Bad == {p \in Nat : q[p] # r[p]}
  <2>1. SUFFICES ASSUME Bad # {} PROVE FALSE
    BY <1>1
  <2>2. PICK m \in Bad : \A o \in Bad : m <= o
    <3>1. Bad \subseteq Nat
      OBVIOUS
    <3> HIDE DEF Bad
    <3> QED
      BY <2>1, <3>1, LeastOf
  <2>3. m \in Nat /\ m # 0 /\ q[m] # r[m]
    BY <1>2, <2>2
  <2>4. m - 1 \in Nat /\ (m - 1) + 1 = m /\ m - 1 \notin Bad
    BY <2>2, <2>3
  <2>5. q[m - 1] = r[m - 1]
    BY <2>4
  <2>6. q[(m - 1) + 1] = r[(m - 1) + 1]
    BY <1>1, <2>4, <2>5
  <2> QED
    BY <2>3, <2>4, <2>6
<1>3. ASSUME \A p \in Nat : A[p] = B[p] PROVE q[0] = r[0]
  <2> DEFINE Bad == {p \in 0..n : q[p] # r[p]}
  <2>1. SUFFICES ASSUME Bad # {} PROVE FALSE
    OBVIOUS
  <2>2. PICK m \in Bad : \A o \in Bad : m >= o
    <3>1. Bad \subseteq 0..n
      OBVIOUS
    <3> HIDE DEF Bad
    <3> QED
      BY <2>1, <3>1, GreatestOf
  <2>3. m \in Nat /\ m + 1 \in Nat /\ q[m] # r[m]
    BY <2>2
  <2>4. q[m + 1] = r[m + 1]
    <3>1. m + 1 \notin Bad
      BY <2>2, <2>3
    <3>2. CASE m + 1 <= n
      BY <2>3, <3>1, <3>2
    <3>3. CASE m + 1 > n
      <4>1. m + 1 >= n
        BY <2>3, <3>3
      <4> QED
        BY <2>3, <4>1 DEF ZeroFrom
    <3> QED
      BY <2>3, <3>2, <3>3
  <2>5. q[m] = 10 * q[m + 1] + A[m] /\ r[m] = 10 * r[m + 1] + B[m] /\ A[m] = B[m]
    BY <1>3, <2>3, Divided
  <2> QED
    BY <2>3, <2>4, <2>5
<1> QED
  BY <1>2, <1>3

\* Numbers that end somewhere both end somewhere.
LEMMA BothEnd ==
  ASSUME NEW k \in Nat, NEW l \in Nat, NEW q, NEW r, ZeroFrom(q, k), ZeroFrom(r, l)
  PROVE  \E n \in Nat : ZeroFrom(q, n) /\ ZeroFrom(r, n)
<1>1. k + l \in Nat /\ \A p \in Nat : p >= k + l => p >= k /\ p >= l
  OBVIOUS
<1>2. ZeroFrom(q, k + l) /\ ZeroFrom(r, k + l)
  BY <1>1 DEF ZeroFrom
<1> QED
  BY <1>1, <1>2

\* Digits stand for the same number exactly if they agree at every place.
LEMMA ValueByPlaces ==
  ASSUME NEW a \in Seq(Digit), NEW b \in Seq(Digit)
  PROVE  /\ ValueOf(a) \in Nat
         /\ ValueOf(a) = ValueOf(b) <=> \A p \in Nat : At(a, p) = At(b, p)
<1> DEFINE A == [p \in Nat |-> At(a, p)]
           B == [p \in Nat |-> At(b, p)]
<1>1. Len(a) \in Nat /\ Len(b) \in Nat
  BY PlacesHoldDigits
<1>2. \A p \in Nat : A[p] = At(a, p) /\ B[p] = At(b, p)
  OBVIOUS
<1>3. PICK q : q[0] = ValueOf(a) /\ q[0] \in Nat /\ Divides(q, A) /\ ZeroFrom(q, Len(a))
  BY Divisions
<1>4. PICK r : r[0] = ValueOf(b) /\ r[0] \in Nat /\ Divides(r, B) /\ ZeroFrom(r, Len(b))
  BY Divisions
<1> HIDE DEF A, B
<1>5. PICK n \in Nat : ZeroFrom(q, n) /\ ZeroFrom(r, n)
  BY <1>1, <1>3, <1>4, BothEnd
<1>6. q[0] = r[0] <=> \A p \in Nat : A[p] = B[p]
  BY <1>3, <1>4, <1>5, SameRemainders
<1> QED
  BY <1>2, <1>3, <1>4, <1>6

-----------------------------------------------------------------------------
(* Ways of writing the digits before the point.                            *)

\* Written without leading zeros.
Tight(s) ==
  /\ s \in Seq(Digit) /\ Len(s) \in Nat \ {0}
  /\ Len(s) > 1 => s[1] # 0

\* normalizeDecimal leaves the digits before the point tight, and at their places.
LEMMA LeadingDropped ==
  ASSUME NEW d \in Seq(Digit), d # <<>>
  PROVE  /\ Tight(DropLeadingZeros(d))
         /\ \A p \in Nat : At(DropLeadingZeros(d), p) = At(d, p)
<1> DEFINE Kept == {i \in DOMAIN d : d[i] # 0 \/ i = Len(d)}
<1>1. PICK l \in Nat \ {0} : l = Len(d) /\ DOMAIN d = 1..l
  OBVIOUS
<1>2. l \in Kept /\ Kept \subseteq 1..l /\ Kept \subseteq Nat
  BY <1>1
<1>3. PICK m \in 1..l : m \in Kept /\ Min(Kept) = m /\ \A i \in Kept : m <= i
  <2>1. Kept # {}
    BY <1>2
  <2>2. PICK x \in Kept : \A y \in Kept : x <= y
    <3> HIDE DEF Kept
    <3> QED
      BY <1>2, <2>1, LeastOf
  <2>3. Min(Kept) \in Kept /\ \A y \in Kept : Min(Kept) <= y
    <3> HIDE DEF Kept
    <3> QED
      BY <2>2 DEF Min
  <2> QED
    BY <1>2, <2>3
<1> DEFINE s == DropLeadingZeros(d)
<1>4. s = SubSeq(d, m, l)
  BY <1>1, <1>3 DEF DropLeadingZeros
<1>5. /\ s \in Seq(Digit) /\ Len(s) = l - m + 1 /\ Len(s) \in Nat \ {0}
      /\ \A i \in 1..(l - m + 1) : s[i] = d[m + i - 1]
  BY <1>1, <1>3, <1>4
<1> HIDE DEF s
<1>6. Len(s) > 1 => s[1] # 0
  <2> SUFFICES ASSUME Len(s) > 1 PROVE s[1] # 0
    OBVIOUS
  <2>1. m # l /\ 1 \in 1..(l - m + 1) /\ m + 1 - 1 = m
    BY <1>3, <1>5
  <2> QED
    BY <1>1, <1>3, <1>5, <2>1
<1>7. ASSUME NEW p \in Nat PROVE At(s, p) = At(d, p)
  <2>1. CASE p < l - m + 1
    <3>1. l - m + 1 - p \in 1..(l - m + 1) /\ m + (l - m + 1 - p) - 1 = l - p /\ p < l
      BY <1>3, <2>1
    <3>2. At(s, p) = s[l - m + 1 - p] /\ At(d, p) = d[l - p]
      BY <1>1, <1>5, <2>1, <3>1 DEF At
    <3>3. s[l - m + 1 - p] = d[m + (l - m + 1 - p) - 1]
      BY <1>5, <3>1
    <3> QED
      BY <3>1, <3>2, <3>3
  <2>2. CASE ~(p < l - m + 1) /\ p < l
    <3>1. l - p \in 1..l /\ ~(m <= l - p)
      BY <1>3, <2>2
    <3>2. l - p \notin Kept
      BY <1>3, <3>1
    <3>3. d[l - p] = 0
      BY <1>1, <3>1, <3>2
    <3> QED
      BY <1>1, <1>5, <2>2, <3>3 DEF At
  <2>3. CASE ~(p < l)
    <3>1. ~(p < l - m + 1)
      BY <1>3, <2>3
    <3> QED
      BY <1>1, <1>5, <2>3, <3>1 DEF At
  <2> QED
    BY <2>1, <2>2, <2>3
<1> QED
  BY <1>5, <1>6, <1>7 DEF Tight, s

\* No tight digits are longer than others that agree with them at every place.
LEMMA TightIsShort ==
  ASSUME NEW s, NEW t, Tight(s), Tight(t), \A p \in Nat : At(s, p) = At(t, p)
  PROVE  ~(Len(s) < Len(t))
<1> SUFFICES ASSUME Len(s) < Len(t) PROVE FALSE
  OBVIOUS
<1>1. PICK k \in Nat \ {0} : k = Len(s)
  BY DEF Tight
<1>2. PICK l \in Nat \ {0} : l = Len(t) /\ t[1] # 0 /\ k < l
  BY <1>1 DEF Tight
<1>3. l - 1 \in Nat /\ l - 1 < l /\ ~(l - 1 < k) /\ l - (l - 1) = 1
  BY <1>1, <1>2
<1>4. At(s, l - 1) = 0 /\ At(t, l - 1) = t[1]
  BY <1>1, <1>2, <1>3 DEF At
<1> QED
  BY <1>2, <1>3, <1>4

\* Tight digits are known by what they have at each place.
LEMMA TightIsUnique ==
  ASSUME NEW s, NEW t, Tight(s), Tight(t), \A p \in Nat : At(s, p) = At(t, p)
  PROVE  s = t
<1>1. ~(Len(s) < Len(t)) /\ ~(Len(t) < Len(s))
  BY TightIsShort
<1>2. PICK n \in Nat : n = Len(s) /\ n = Len(t) /\ DOMAIN s = 1..n /\ DOMAIN t = 1..n
  BY <1>1 DEF Tight
<1>3. ASSUME NEW i \in 1..n PROVE s[i] = t[i]
  <2>1. n - i \in Nat /\ n - i < n /\ n - (n - i) = i
    BY <1>2
  <2>2. At(s, n - i) = s[i] /\ At(t, n - i) = t[i]
    BY <1>2, <2>1 DEF At
  <2> QED
    BY <2>1, <2>2
<1> QED
  BY <1>2, <1>3 DEF Tight

\* Digits before the point are written alike after it exactly if they agree at every
\* place.
LEMMA WholesAgree ==
  ASSUME NEW a \in Seq(Digit), NEW b \in Seq(Digit), a # <<>>, b # <<>>
  PROVE  DropLeadingZeros(a) = DropLeadingZeros(b) <=> \A p \in Nat : At(a, p) = At(b, p)
<1>1. /\ Tight(DropLeadingZeros(a)) /\ \A p \in Nat : At(DropLeadingZeros(a), p) = At(a, p)
      /\ Tight(DropLeadingZeros(b)) /\ \A p \in Nat : At(DropLeadingZeros(b), p) = At(b, p)
  BY LeadingDropped
<1>2. ASSUME \A p \in Nat : At(a, p) = At(b, p)
      PROVE  DropLeadingZeros(a) = DropLeadingZeros(b)
  BY <1>1, <1>2, TightIsUnique
<1> QED
  BY <1>1, <1>2

\* Zero is written with one digit before the point.
LEMMA ZeroWhole ==
  ASSUME NEW a \in Seq(Digit), a # <<>>
  PROVE  DropLeadingZeros(a) = <<0>> <=> \A p \in Nat : At(a, p) = 0
<1>1. Tight(DropLeadingZeros(a)) /\ \A p \in Nat : At(DropLeadingZeros(a), p) = At(a, p)
  BY LeadingDropped
<1>2. Tight(<<0>>) /\ \A p \in Nat : At(<<0>>, p) = 0
  <2>1. Len(<<0>>) = 1 /\ <<0>>[1] = 0 /\ <<0>> \in Seq(Digit)
    BY DEF Digit
  <2>2. \A p \in Nat : p < 1 => 1 - p = 1
    OBVIOUS
  <2> QED
    BY <2>1, <2>2 DEF Tight, At
<1> QED
  BY <1>1, <1>2, TightIsUnique

-----------------------------------------------------------------------------
(* Ways of writing the digits after the point.                             *)

\* The i-th digit after the point.
After(digits, i) == IF i \in DOMAIN digits THEN digits[i] ELSE 0

\* Written without trailing zeros.
Trimmed(s) ==
  /\ s \in Seq(Digit) /\ Len(s) \in Nat
  /\ Len(s) > 0 => s[Len(s)] # 0

\* normalizeDecimal leaves the digits after the point trimmed, and at their places.
LEMMA TrailingDropped ==
  ASSUME NEW d \in Seq(Digit)
  PROVE  /\ Trimmed(DropTrailingZeros(d)) /\ Len(DropTrailingZeros(d)) <= Len(d)
         /\ \A i \in Nat \ {0} : After(DropTrailingZeros(d), i) = After(d, i)
<1> DEFINE Kept == {0} \cup {i \in DOMAIN d : d[i] # 0}
<1>1. PICK l \in Nat : l = Len(d) /\ DOMAIN d = 1..l
  OBVIOUS
<1>2. Kept # {} /\ Kept \subseteq 0..l
  BY <1>1
<1>3. PICK m \in 0..l : m \in Kept /\ Max(Kept) = m /\ \A i \in Kept : m >= i
  <2>1. PICK x \in Kept : \A y \in Kept : x >= y
    <3> HIDE DEF Kept
    <3> QED
      BY <1>2, GreatestOf
  <2>2. Max(Kept) \in Kept /\ \A y \in Kept : Max(Kept) >= y
    <3> HIDE DEF Kept
    <3> QED
      BY <2>1 DEF Max
  <2> QED
    BY <1>2, <2>2
<1> DEFINE s == DropTrailingZeros(d)
<1>4. s = SubSeq(d, 1, m)
  BY <1>3 DEF DropTrailingZeros
<1>5. /\ s \in Seq(Digit) /\ Len(s) = m /\ m \in Nat /\ DOMAIN s = 1..m
      /\ \A i \in 1..m : s[i] = d[i]
  BY <1>1, <1>3, <1>4
<1> HIDE DEF s
<1>6. m > 0 => s[m] # 0
  BY <1>3, <1>5
<1>7. ASSUME NEW i \in Nat \ {0} PROVE After(s, i) = After(d, i)
  <2>1. CASE i <= m
    BY <1>1, <1>3, <1>5, <2>1 DEF After
  <2>2. CASE ~(i <= m)
    <3>1. i \notin Kept /\ i \notin 1..m
      BY <1>3, <2>2
    <3>2. i \in DOMAIN d => d[i] = 0
      BY <3>1
    <3> QED
      BY <1>5, <3>1, <3>2 DEF After
  <2> QED
    BY <2>1, <2>2
<1> QED
  BY <1>1, <1>3, <1>5, <1>6, <1>7 DEF Trimmed, s

\* No trimmed digits are longer than others that agree with them everywhere.
LEMMA TrimmedIsShort ==
  ASSUME NEW s, NEW t, Trimmed(s), Trimmed(t), \A i \in Nat \ {0} : After(s, i) = After(t, i)
  PROVE  ~(Len(s) < Len(t))
<1> SUFFICES ASSUME Len(s) < Len(t) PROVE FALSE
  OBVIOUS
<1>1. PICK k \in Nat : k = Len(s) /\ DOMAIN s = 1..k
  BY DEF Trimmed
<1>2. PICK l \in Nat \ {0} : l = Len(t) /\ DOMAIN t = 1..l /\ t[l] # 0 /\ k < l
  BY <1>1 DEF Trimmed
<1>3. l \notin 1..k /\ l \in 1..l
  BY <1>1, <1>2
<1>4. After(s, l) = 0 /\ After(t, l) = t[l]
  BY <1>1, <1>2, <1>3 DEF After
<1> QED
  BY <1>2, <1>4

\* Trimmed digits are known by what they have at each place.
LEMMA TrimmedIsUnique ==
  ASSUME NEW s, NEW t, Trimmed(s), Trimmed(t), \A i \in Nat \ {0} : After(s, i) = After(t, i)
  PROVE  s = t
<1>1. ~(Len(s) < Len(t)) /\ ~(Len(t) < Len(s))
  BY TrimmedIsShort
<1>2. PICK n \in Nat : n = Len(s) /\ n = Len(t) /\ DOMAIN s = 1..n /\ DOMAIN t = 1..n
  BY <1>1 DEF Trimmed
<1>3. ASSUME NEW i \in 1..n PROVE s[i] = t[i]
  <2>1. After(s, i) = s[i] /\ After(t, i) = t[i] /\ i \in Nat \ {0}
    BY <1>2 DEF After
  <2> QED
    BY <2>1
<1> QED
  BY <1>2, <1>3 DEF Trimmed

\* Digits after the point are written alike after it exactly if they agree at every
\* place.
LEMMA FractionsAgree ==
  ASSUME NEW a \in Seq(Digit), NEW b \in Seq(Digit)
  PROVE  /\ DropTrailingZeros(a) = DropTrailingZeros(b)
              <=> \A i \in Nat \ {0} : After(a, i) = After(b, i)
         /\ DropTrailingZeros(a) = <<>> <=> \A i \in Nat \ {0} : After(a, i) = 0
<1>1. /\ Trimmed(DropTrailingZeros(a))
      /\ \A i \in Nat \ {0} : After(DropTrailingZeros(a), i) = After(a, i)
      /\ Trimmed(DropTrailingZeros(b))
      /\ \A i \in Nat \ {0} : After(DropTrailingZeros(b), i) = After(b, i)
  BY TrailingDropped
<1>2. ASSUME \A i \in Nat \ {0} : After(a, i) = After(b, i)
      PROVE  DropTrailingZeros(a) = DropTrailingZeros(b)
  BY <1>1, <1>2, TrimmedIsUnique
<1>3. Trimmed(<<>>) /\ \A i \in Nat \ {0} : After(<<>>, i) = 0
  BY DEF Trimmed, After
<1>4. ASSUME \A i \in Nat \ {0} : After(a, i) = 0
      PROVE  DropTrailingZeros(a) = <<>>
  BY <1>1, <1>3, <1>4, TrimmedIsUnique
<1> QED
  BY <1>1, <1>2, <1>3, <1>4

-----------------------------------------------------------------------------
(* Ways of writing a number.                                               *)

Decimal(text) == IsText(text) /\ text.kind = "decimal"

\* What is at each place of a decimal.
LEMMA DigitsByPlaces ==
  ASSUME NEW text, Decimal(text)
  PROVE  /\ DigitsOf(text) \in Seq(Digit)
         /\ \A p \in Nat : At(DigitsOf(text), p)
              = IF p < Scale THEN After(text.fraction, Scale - p) ELSE At(text.whole, p - Scale)
<1> DEFINE w == text.whole
           f == text.fraction
           padded == [i \in 1..Scale |-> IF i \in DOMAIN f THEN f[i] ELSE 0]
<1>1. PICK l \in Nat : l = Len(w) /\ w \in Seq(Digit) /\ f \in Seq(Digit)
  BY DEF Decimal, IsText
<1>2. Scale \in Nat
  BY RequestHashAssumption
<1>3. padded \in Seq(Digit) /\ Len(padded) = Scale
  <2>1. \A i \in 1..Scale : padded[i] \in Digit
    BY <1>1 DEF Digit
  <2>2. padded \in [1..Scale -> Digit]
    BY <2>1
  <2> HIDE DEF padded
  <2> QED
    BY <1>2, <2>2
<1>4. \A i \in 1..Scale : padded[i] = After(f, i)
  BY DEF After
<1>5. DigitsOf(text) = w \o padded
  BY DEF DigitsOf
<1> HIDE DEF w, f, padded
<1>6. /\ w \o padded \in Seq(Digit) /\ Len(w \o padded) = l + Scale
      /\ \A i \in 1..l : (w \o padded)[i] = w[i]
      /\ \A i \in 1..Scale : (w \o padded)[l + i] = padded[i]
  BY <1>1, <1>2, <1>3
<1>7. PICK n \in Nat : n = l + Scale
  BY <1>2
<1>8. PICK d : /\ d = DigitsOf(text) /\ d \in Seq(Digit) /\ Len(d) = n
               /\ \A i \in 1..l : d[i] = w[i]
               /\ \A i \in 1..Scale : d[l + i] = padded[i]
  BY <1>5, <1>6, <1>7, Zenon
<1>9. ASSUME NEW p \in Nat
      PROVE  At(d, p) = IF p < Scale THEN After(f, Scale - p) ELSE At(w, p - Scale)
  <2>1. CASE p < Scale
    <3>1. Scale - p \in 1..Scale /\ n - p = l + (Scale - p) /\ p < n
      BY <1>2, <1>7, <2>1
    <3>2. At(d, p) = d[l + (Scale - p)]
      BY <1>8, <3>1 DEF At
    <3> QED
      BY <1>4, <1>8, <2>1, <3>1, <3>2
  <2>2. CASE ~(p < Scale) /\ p < n
    <3>1. n - p \in 1..l /\ n - p = l - (p - Scale) /\ p - Scale < l
      BY <1>2, <1>7, <2>2
    <3>2. At(d, p) = d[n - p] /\ At(w, p - Scale) = w[l - (p - Scale)]
      BY <1>1, <1>8, <2>2, <3>1 DEF At, w
    <3> QED
      BY <1>8, <2>2, <3>1, <3>2
  <2>3. CASE ~(p < Scale) /\ ~(p < n)
    <3>1. ~(p - Scale < l)
      BY <1>2, <1>7, <2>3
    <3> QED
      BY <1>1, <1>8, <2>3, <3>1 DEF At
  <2> QED
    BY <2>1, <2>2, <2>3
<1> QED
  BY <1>8, <1>9 DEF w, f

\* Two decimals have the same digits at all places exactly if both parts have.
LEMMA PartsAgree ==
  ASSUME NEW a, NEW b, Decimal(a), Decimal(b)
  PROVE  (\A p \in Nat : At(DigitsOf(a), p) = At(DigitsOf(b), p))
           <=> /\ \A p \in Nat : At(a.whole, p) = At(b.whole, p)
               /\ \A i \in Nat \ {0} : After(a.fraction, i) = After(b.fraction, i)
<1>0. Scale \in Nat
  BY RequestHashAssumption
<1>1. \A p \in Nat :
        /\ At(DigitsOf(a), p) = IF p < Scale THEN After(a.fraction, Scale - p) ELSE At(a.whole, p - Scale)
        /\ At(DigitsOf(b), p) = IF p < Scale THEN After(b.fraction, Scale - p) ELSE At(b.whole, p - Scale)
  BY DigitsByPlaces
<1>2. ASSUME \A p \in Nat : At(DigitsOf(a), p) = At(DigitsOf(b), p)
      PROVE  /\ \A p \in Nat : At(a.whole, p) = At(b.whole, p)
             /\ \A i \in Nat \ {0} : After(a.fraction, i) = After(b.fraction, i)
  <2>1. ASSUME NEW p \in Nat PROVE At(a.whole, p) = At(b.whole, p)
    <3>1. p + Scale \in Nat /\ ~(p + Scale < Scale) /\ (p + Scale) - Scale = p
      BY <1>0
    <3> QED
      BY <1>1, <1>2, <3>1
  <2>2. ASSUME NEW i \in Nat \ {0} PROVE After(a.fraction, i) = After(b.fraction, i)
    <3>1. CASE i <= Scale
      <4>1. Scale - i \in Nat /\ Scale - i < Scale /\ Scale - (Scale - i) = i
        BY <1>0, <3>1
      <4> QED
        BY <1>1, <1>2, <4>1
    <3>2. CASE ~(i <= Scale)
      <4>1. \A f \in Seq(Digit) : Len(f) <= Scale => After(f, i) = 0
        BY <1>0, <3>2 DEF After
      <4> QED
        BY <4>1 DEF Decimal, IsText
    <3> QED
      BY <3>1, <3>2
  <2> QED
    BY <2>1, <2>2
<1>3. ASSUME \A p \in Nat : At(a.whole, p) = At(b.whole, p),
             \A i \in Nat \ {0} : After(a.fraction, i) = After(b.fraction, i)
      PROVE  \A p \in Nat : At(DigitsOf(a), p) = At(DigitsOf(b), p)
  <2> SUFFICES ASSUME NEW p \in Nat PROVE At(DigitsOf(a), p) = At(DigitsOf(b), p)
    OBVIOUS
  <2>1. CASE p < Scale
    <3>1. Scale - p \in Nat \ {0}
      BY <1>0, <2>1
    <3> QED
      BY <1>1, <1>3, <2>1, <3>1
  <2>2. CASE ~(p < Scale)
    <3>1. p - Scale \in Nat
      BY <1>0, <2>2
    <3> QED
      BY <1>1, <1>3, <2>2, <3>1
  <2> QED
    BY <2>1, <2>2
<1> QED
  BY <1>2, <1>3

\* Zero, written with one digit.
Zero == [kind |-> "decimal", negative |-> FALSE, whole |-> <<0>>, fraction |-> <<>>]

\* Decimals have the same value, but for their signs, exactly if they are written alike
\* after normalizeDecimal, and the value 0 if they are written 0.
LEMMA ValuesAgree ==
  ASSUME NEW a, NEW b, Decimal(a), Decimal(b)
  PROVE  /\ ValueOf(DigitsOf(a)) \in Nat
         /\ ValueOf(DigitsOf(a)) = ValueOf(DigitsOf(b))
              <=> /\ DropLeadingZeros(a.whole) = DropLeadingZeros(b.whole)
                  /\ DropTrailingZeros(a.fraction) = DropTrailingZeros(b.fraction)
<1>1. DigitsOf(a) \in Seq(Digit) /\ DigitsOf(b) \in Seq(Digit)
  BY DigitsByPlaces
<1>2. /\ ValueOf(DigitsOf(a)) \in Nat
      /\ ValueOf(DigitsOf(a)) = ValueOf(DigitsOf(b))
           <=> \A p \in Nat : At(DigitsOf(a), p) = At(DigitsOf(b), p)
  BY <1>1, ValueByPlaces
<1>3. /\ a.whole \in Seq(Digit) /\ a.whole # <<>> /\ a.fraction \in Seq(Digit)
      /\ b.whole \in Seq(Digit) /\ b.whole # <<>> /\ b.fraction \in Seq(Digit)
  BY DEF Decimal, IsText
<1>4. DropLeadingZeros(a.whole) = DropLeadingZeros(b.whole)
        <=> \A p \in Nat : At(a.whole, p) = At(b.whole, p)
  BY <1>3, WholesAgree
<1>5. DropTrailingZeros(a.fraction) = DropTrailingZeros(b.fraction)
        <=> \A i \in Nat \ {0} : After(a.fraction, i) = After(b.fraction, i)
  BY <1>3, FractionsAgree
<1> QED
  BY <1>2, <1>4, <1>5, PartsAgree

\* No digits have no value.
LEMMA NothingIsZero == ValueOf(<<>>) = 0
<1>1. <<>> \in Seq(Digit) /\ Len(<<>>) = 0
  OBVIOUS
<1>2. PICK q : q[0] = ValueOf(<<>>) /\ ZeroFrom(q, Len(<<>>))
  BY <1>1, Divisions
<1> QED
  BY <1>1, <1>2 DEF ZeroFrom

\* A decimal has the value 0 exactly if it is written 0.
LEMMA ZeroIsWrittenZero ==
  ASSUME NEW a, Decimal(a)
  PROVE  ValueOf(DigitsOf(a)) = 0
           <=> DropLeadingZeros(a.whole) = <<0>> /\ DropTrailingZeros(a.fraction) = <<>>
<1>1. <<0>> \in Seq(Digit) /\ <<>> \in Seq(Digit) /\ <<0>> # <<>> /\ Len(<<>>) = 0
  BY DEF Digit
<1>2. Decimal(Zero)
  BY <1>1, RequestHashAssumption DEF Decimal, IsText, Zero
<1>3. /\ \A p \in Nat : At(<<0>>, p) = 0 /\ At(<<>>, p) = 0
      /\ \A i \in Nat \ {0} : After(<<>>, i) = 0
  <2>1. Len(<<0>>) = 1 /\ <<0>>[1] = 0 /\ \A p \in Nat : p < 1 => 1 - p = 1
    OBVIOUS
  <2>2. \A p \in Nat : ~(p < 0)
    OBVIOUS
  <2> QED
    BY <1>1, <2>1, <2>2 DEF At, After
<1>4. DropLeadingZeros(<<0>>) = <<0>> /\ DropTrailingZeros(<<>>) = <<>>
  BY <1>1, <1>3, ZeroWhole, FractionsAgree
<1>5. ValueOf(DigitsOf(Zero)) = 0
  <2>1. Scale \in Nat
    BY RequestHashAssumption
  <2>2. ASSUME NEW p \in Nat PROVE At(DigitsOf(Zero), p) = 0
    <3>1. /\ DigitsOf(Zero) \in Seq(Digit)
          /\ At(DigitsOf(Zero), p) = IF p < Scale THEN After(<<>>, Scale - p) ELSE At(<<0>>, p - Scale)
      BY <1>2, DigitsByPlaces DEF Zero
    <3>2. (p < Scale => Scale - p \in Nat \ {0}) /\ (~(p < Scale) => p - Scale \in Nat)
      BY <2>1
    <3> QED
      BY <1>3, <3>1, <3>2
  <2>3. DigitsOf(Zero) \in Seq(Digit)
    BY <1>2, DigitsByPlaces
  <2>4. \A p \in Nat : At(DigitsOf(Zero), p) = At(<<>>, p)
    BY <1>3, <2>2
  <2>5. ValueOf(DigitsOf(Zero)) = ValueOf(<<>>)
    BY <1>1, <2>3, <2>4, ValueByPlaces
  <2> QED
    BY <2>5, NothingIsZero
<1>6. Zero.whole = <<0>> /\ Zero.fraction = <<>>
  BY DEF Zero
<1> QED
  BY <1>2, <1>4, <1>5, <1>6, ValuesAgree

\* normalizeDecimal writes two decimals alike exactly if they stand for one number.
LEMMA NumbersAgree ==
  ASSUME NEW a, NEW b, Decimal(a), Decimal(b)
  PROVE  NumberOf(a) = NumberOf(b) <=> NormalizeDecimal(a) = NormalizeDecimal(b)
<1> DEFINE ZeroA == DropLeadingZeros(a.whole) = <<0>> /\ DropTrailingZeros(a.fraction) = <<>>
           ZeroB == DropLeadingZeros(b.whole) = <<0>> /\ DropTrailingZeros(b.fraction) = <<>>
           Alike == /\ DropLeadingZeros(a.whole) = DropLeadingZeros(b.whole)
                    /\ DropTrailingZeros(a.fraction) = DropTrailingZeros(b.fraction)
<1>1. NormalizeDecimal(a) = NormalizeDecimal(b)
        <=> Alike /\ (a.negative /\ ~ZeroA <=> b.negative /\ ~ZeroB)
  <2>1. a.negative \in BOOLEAN /\ b.negative \in BOOLEAN
    BY DEF Decimal, IsText
  <2> QED
    BY <2>1 DEF NormalizeDecimal
<1>2. PICK m \in Nat, n \in Nat : m = ValueOf(DigitsOf(a)) /\ n = ValueOf(DigitsOf(b))
  BY ValuesAgree
<1>3. (m = n <=> Alike) /\ (m = 0 <=> ZeroA) /\ (n = 0 <=> ZeroB)
  BY <1>2, ValuesAgree, ZeroIsWrittenZero
<1>4. /\ NumberOf(a) = IF a.negative THEN -m ELSE m
      /\ NumberOf(b) = IF b.negative THEN -n ELSE n
  BY <1>2 DEF NumberOf
<1> HIDE DEF ZeroA, ZeroB, Alike
<1>5. NumberOf(a) = NumberOf(b) <=> m = n /\ (a.negative /\ m # 0 <=> b.negative /\ n # 0)
  BY <1>4
<1> QED
  BY <1>1, <1>3, <1>5

\* Values that norm makes the same are the same, and the other way round.
LEMMA TextsAgree ==
  ASSUME NEW a, NEW b, IsText(a), IsText(b)
  PROVE  SameText(a, b) <=> Norm(a) = Norm(b)
<1>1. CASE a.kind = "decimal" /\ b.kind = "decimal"
  BY <1>1, NumbersAgree DEF Decimal, SameText, Norm
<1>2. CASE a.kind = "word" /\ b.kind = "word"
  BY <1>2 DEF SameText, Norm
<1>3. CASE a.kind # b.kind
  <2>1. \A t : NormalizeDecimal(t).kind = "decimal"
    BY DEF NormalizeDecimal
  <2> QED
    BY <1>3, <2>1 DEF SameText, Norm, IsText
<1> QED
  BY <1>1, <1>2, <1>3 DEF IsText

-----------------------------------------------------------------------------
(* Ways of writing a body, and the verdict.                                *)

\* The first m fields have different names, which are among those of b's first n.
Apart(a, m) == \A i, j \in 1..m : a[i].name = a[j].name => i = j

Among(a, m, b, n) == \A i \in 1..m : \E j \in 1..n : a[i].name = b[j].name

\* A body is a sequence of fields of different names.
LEMMA BodyShape ==
  ASSUME NEW body, IsBody(body)
  PROVE  \E n \in Nat : /\ n = Len(body) /\ DOMAIN body = 1..n
                        /\ Apart(body, n)
                        /\ \A i \in 1..n : IsText(body[i].text)
<1>1. PICK F : body \in Seq(F)
  BY DEF IsBody
<1>2. Len(body) \in Nat /\ DOMAIN body = 1..Len(body)
  BY <1>1
<1> QED
  BY <1>2 DEF IsBody, Apart

\* All of one's names among the other's: no more fields, and if there are as many, the
\* same names.
LEMMA NamesAmongNames ==
  ASSUME NEW m \in Nat, NEW n \in Nat, NEW a, NEW b,
         Apart(a, m), Among(a, m, b, n)
  PROVE  /\ m <= n
         /\ m = n => Among(b, n, a, m)
<1> DEFINE g == [i \in 1..m |-> CHOOSE j \in 1..n : a[i].name = b[j].name]
<1>1. \A i \in 1..m : g[i] \in 1..n /\ a[i].name = b[g[i]].name
  <2> SUFFICES ASSUME NEW i \in 1..m PROVE g[i] \in 1..n /\ a[i].name = b[g[i]].name
    OBVIOUS
  <2>1. PICK j \in 1..n : a[i].name = b[j].name
    BY DEF Among
  <2>2. g[i] = CHOOSE k \in 1..n : a[i].name = b[k].name
    OBVIOUS
  <2> HIDE DEF g
  <2> QED
    BY <2>1, <2>2
<1>2. g \in [1..m -> 1..n]
  BY <1>1
<1> HIDE DEF g
<1>3. ASSUME NEW i \in 1..m, NEW j \in 1..m, g[i] = g[j] PROVE i = j
  <2>1. a[i].name = b[g[i]].name /\ a[j].name = b[g[j]].name
    BY <1>1
  <2>2. a[i].name = a[j].name
    BY <1>3, <2>1
  <2> QED
    BY <2>2 DEF Apart
<1>4. g \in Injection(1..m, 1..n)
  BY <1>2, <1>3 DEF Injection, IsInjective
<1>5. IsFiniteSet(1..n) /\ \A k \in Nat : Cardinality(1..k) = k
  <2>1. \A k \in Nat : IsFiniteSet(1..k) /\ Cardinality(1..k) = IF 1 > k THEN 0 ELSE k - 1 + 1
    BY FS_Interval
  <2>2. \A k \in Nat : (IF 1 > k THEN 0 ELSE k - 1 + 1) = k
    OBVIOUS
  <2> QED
    BY <2>1, <2>2
<1>6. /\ Cardinality(1..m) <= Cardinality(1..n)
      /\ Cardinality(1..m) = Cardinality(1..n) <=> g \in Surjection(1..m, 1..n)
  BY <1>4, <1>5, FS_Injection
<1>7. m <= n /\ (m = n => g \in Surjection(1..m, 1..n))
  BY <1>5, <1>6
<1>8. ASSUME g \in Surjection(1..m, 1..n), NEW j \in 1..n
      PROVE  \E i \in 1..m : a[i].name = b[j].name
  <2>1. PICK i \in 1..m : g[i] = j
    BY <1>8 DEF Surjection
  <2> QED
    BY <1>1, <2>1
<1> QED
  BY <1>7, <1>8 DEF Among

Names(body) == {body[i].name : i \in DOMAIN body}

\* A normalized body has each field's value under its name.
LEMMA NormalizedFields ==
  ASSUME NEW body, IsBody(body)
  PROVE  /\ NormalizedBody(body) = [x \in Names(body) |-> NormalizedBody(body)[x]]
         /\ DOMAIN NormalizedBody(body) = Names(body)
         /\ \A i \in DOMAIN body : NormalizedBody(body)[body[i].name] = Norm(body[i].text)
<1>1. ASSUME NEW i \in DOMAIN body
      PROVE  NormalizedBody(body)[body[i].name] = Norm(body[i].text)
  <2>1. body[i].name \in Names(body)
    BY DEF Names
  <2>2. (CHOOSE j \in DOMAIN body : body[j].name = body[i].name) = i
    <3>1. \A j \in DOMAIN body : body[j].name = body[i].name => j = i
      BY DEF IsBody
    <3>2. \E j \in DOMAIN body : body[j].name = body[i].name
      OBVIOUS
    <3> QED
      BY <3>1, <3>2
  <2> QED
    BY <2>1, <2>2 DEF NormalizedBody, Names
<1>2. /\ NormalizedBody(body) = [x \in Names(body) |-> NormalizedBody(body)[x]]
      /\ DOMAIN NormalizedBody(body) = Names(body)
  BY DEF NormalizedBody, Names
<1> QED
  BY <1>1, <1>2

\* Bodies are the same field by field exactly if they are normalized to the same.
LEMMA BodiesAgree ==
  ASSUME NEW a, NEW b, IsBody(a), IsBody(b)
  PROVE  SameFields(a, b) <=> NormalizedBody(a) = NormalizedBody(b)
<1>1. PICK m \in Nat : /\ m = Len(a) /\ DOMAIN a = 1..m
                       /\ Apart(a, m)
                       /\ \A i \in 1..m : IsText(a[i].text)
  BY BodyShape
<1>2. PICK n \in Nat : /\ n = Len(b) /\ DOMAIN b = 1..n
                       /\ Apart(b, n)
                       /\ \A i \in 1..n : IsText(b[i].text)
  BY BodyShape
<1>3. \A i \in 1..m, j \in 1..n :
        SameText(a[i].text, b[j].text) <=> Norm(a[i].text) = Norm(b[j].text)
  BY <1>1, <1>2, TextsAgree
<1>4. /\ \A i \in 1..m : NormalizedBody(a)[a[i].name] = Norm(a[i].text)
      /\ \A j \in 1..n : NormalizedBody(b)[b[j].name] = Norm(b[j].text)
  BY <1>1, <1>2, NormalizedFields
<1>5. Names(a) = {a[i].name : i \in 1..m} /\ Names(b) = {b[j].name : j \in 1..n}
  BY <1>1, <1>2 DEF Names
<1>6. SameFields(a, b)
        <=> m = n /\ \A i \in 1..m : \E j \in 1..n : a[i].name = b[j].name /\ SameText(a[i].text, b[j].text)
  BY <1>1, <1>2 DEF SameFields
<1>7. ASSUME SameFields(a, b) PROVE NormalizedBody(a) = NormalizedBody(b)
  <2>1. m = n /\ Among(a, m, b, n)
    BY <1>6, <1>7 DEF Among
  <2>2. Among(b, n, a, m)
    BY <1>1, <2>1, NamesAmongNames
  <2>3. Names(a) = Names(b)
    <3>1. \A x \in Names(a) : x \in Names(b)
      BY <1>5, <2>1 DEF Among
    <3>2. \A x \in Names(b) : x \in Names(a)
      BY <1>5, <2>2 DEF Among
    <3> QED
      BY <3>1, <3>2
  <2>4. ASSUME NEW x \in Names(a) PROVE NormalizedBody(a)[x] = NormalizedBody(b)[x]
    <3>1. PICK i \in 1..m : x = a[i].name
      BY <1>5
    <3>2. PICK j \in 1..n : a[i].name = b[j].name /\ SameText(a[i].text, b[j].text)
      BY <1>6, <1>7
    <3>3. NormalizedBody(a)[x] = Norm(a[i].text) /\ NormalizedBody(b)[x] = Norm(b[j].text)
      BY <1>4, <3>1, <3>2
    <3> QED
      BY <1>3, <3>2, <3>3
  <2>5. /\ NormalizedBody(a) = [x \in Names(a) |-> NormalizedBody(a)[x]]
        /\ NormalizedBody(b) = [x \in Names(b) |-> NormalizedBody(b)[x]]
    BY NormalizedFields
  <2>6. [x \in Names(a) |-> NormalizedBody(a)[x]] = [x \in Names(a) |-> NormalizedBody(b)[x]]
    BY <2>4
  <2> QED
    BY <2>3, <2>5, <2>6
<1>8. ASSUME NormalizedBody(a) = NormalizedBody(b) PROVE SameFields(a, b)
  <2>1. Names(a) = Names(b)
    <3>1. /\ DOMAIN NormalizedBody(a) = Names(a)
          /\ DOMAIN NormalizedBody(b) = Names(b)
      BY NormalizedFields
    <3> QED
      BY <1>8, <3>1
  <2>2. Among(a, m, b, n) /\ Among(b, n, a, m)
    BY <1>5, <2>1 DEF Among
  <2>3. m <= n /\ n <= m
    BY <1>1, <1>2, <2>2, NamesAmongNames
  <2>4. ASSUME NEW i \in 1..m
        PROVE  \E j \in 1..n : a[i].name = b[j].name /\ SameText(a[i].text, b[j].text)
    <3>1. PICK j \in 1..n : a[i].name = b[j].name
      BY <2>2 DEF Among
    <3>2. Norm(a[i].text) = Norm(b[j].text)
      BY <1>4, <1>8, <3>1
    <3> QED
      BY <1>3, <3>1, <3>2
  <2>5. m = n
    BY <2>3
  <2> QED
    BY <1>6, <2>4, <2>5
<1> QED
  BY <1>7, <1>8

\* However long the numbers and bodies: a key used again is taken for the same request
\* exactly if the two requests mean the same (canonicalRequestHash).
THEOREM VerdictsAreByMeaning == HashInit /\ [][HashNext]_hashVars => []VerdictIsByMeaning
<1> DEFINE Inv == RequestHashTypeOK /\ VerdictIsByMeaning
<1>1. HashInit => Inv
  BY DEF HashInit, RequestHashTypeOK, VerdictIsByMeaning
<1>2. Inv /\ [HashNext]_hashVars => Inv'
  <2> SUFFICES ASSUME Inv, [HashNext]_hashVars PROVE Inv'
    OBVIOUS
  <2>1. CASE UNCHANGED hashVars
    BY <2>1 DEF hashVars, RequestHashTypeOK, VerdictIsByMeaning
  <2>2. ASSUME NEW req \in HttpRequest, Reuse(req) PROVE Inv'
    <3>1. IsBody(firstUse.body) /\ IsBody(req.body)
      BY RequestHashAssumption DEF RequestHashTypeOK
    <3>2. CanonicalRequest(req) = CanonicalRequest(firstUse)
            <=> /\ firstUse.route = req.route
                /\ firstUse.versioned = req.versioned
                /\ NormalizedBody(firstUse.body) = NormalizedBody(req.body)
      BY DEF CanonicalRequest, PathTemplate
    <3>3. SameFields(firstUse.body, req.body)
            <=> NormalizedBody(firstUse.body) = NormalizedBody(req.body)
      BY <3>1, BodiesAgree
    <3> QED
      BY <2>2, <3>2, <3>3 DEF Reuse, RequestHashTypeOK, VerdictIsByMeaning
  <2> QED
    BY <2>1, <2>2 DEF HashNext
<1>3. Inv => VerdictIsByMeaning
  OBVIOUS
<1> QED
  BY <1>1, <1>2, <1>3, PTL

=============================================================================
