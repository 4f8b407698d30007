------------------------------- MODULE MCEventLog -------------------------------
(***************************************************************************)
(* Instance of EventLog for TLC: events of one of the registry's types.    *)
(***************************************************************************)
EXTENDS EventLog

MCEmitted == {<<"transfer_intent", "succeeded">>}

=============================================================================
