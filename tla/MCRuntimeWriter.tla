---------------------------- MODULE MCRuntimeWriter ----------------------------
(***************************************************************************)
(* A session of an agent whose hooks name nobody, then one of an agent     *)
(* with hooks of its own, which is at work in the repository all the time. *)
(***************************************************************************)
EXTENDS RuntimeWriter

CONSTANTS a, b

MCAgentOf == <<a, b>>
MCHooks == {Shared, b}

==============================================================================
