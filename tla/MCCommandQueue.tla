--------------------------- MODULE MCCommandQueue ---------------------------
(***************************************************************************)
(* Instance of CommandQueue for TLC.  Request 1 is one the participant can *)
(* execute.  Request 2 is, by the configuration, one whose operation       *)
(* stores another command_id (Mismatched), or one whose command_type has   *)
(* no profile, as the types that enqueueIntent writes.                     *)
(***************************************************************************)
EXTENDS CommandQueue
=============================================================================
