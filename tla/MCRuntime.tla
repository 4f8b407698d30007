------------------------------- MODULE MCRuntime -------------------------------
(***************************************************************************)
(* The runtime's components that share no state with one another, checked   *)
(* one at a time in one run: the initial state chooses which of them moves. *)
(***************************************************************************)
EXTENDS EventBroker, EventTailer, Migrations, WorkflowTasks, Listing, TLC

CONSTANTS r1, r2, r3, k1, k2

MCTypeFilter == [c \in Client |-> {"x"}]

\* r1 is an older release, in which 2, a repeatable one, had other statements; in
\* the image of r3 migration 1 was edited after its release, and 2 is missing.
MCFileOf == r1 :> <<1, 1>> @@ r2 :> <<1, 2>> @@ r3 :> <<2, 0>>

\* The second task is scheduled after the first of the times that callers pass.
MCScheduledFor == k1 :> 0 @@ k2 :> 2

\* The order of assets and accounts is not the order of ids.
MCSqlOrder == <<3, 1, 4, 2>>

VARIABLE focus

Init ==
  /\ BrokerInit /\ TailerInit /\ MigrationsInit /\ TasksInit /\ ListingInit
  /\ focus \in {"broker", "tailer", "migrations", "tasks", "lists"}
  /\ focus # "broker" => feeds = {}

Next ==
  /\ UNCHANGED focus
  /\ \/ /\ focus = "broker" /\ BrokerNext
        /\ UNCHANGED <<tailerVars, migrationVars, taskVars, listingVars>>
     \/ /\ focus = "tailer" /\ TailerNext
        /\ UNCHANGED <<brokerVars, migrationVars, taskVars, listingVars>>
     \/ /\ focus = "migrations" /\ MigrationsNext
        /\ UNCHANGED <<brokerVars, tailerVars, taskVars, listingVars>>
     \/ /\ focus = "tasks" /\ TasksNext
        /\ UNCHANGED <<brokerVars, tailerVars, migrationVars, listingVars>>
     \/ /\ focus = "lists" /\ ListingNext
        /\ UNCHANGED <<brokerVars, tailerVars, migrationVars, taskVars>>

\* No fair step of a component that does not move is enabled by its initial state.
Fairness == BrokerFairness /\ TailerFairness /\ MigrationsFairness /\ ListingFairness

Spec ==
  /\ Init
  /\ [][Next]_<<focus, brokerVars, tailerVars, migrationVars, taskVars, listingVars>>
  /\ Fairness

=============================================================================
