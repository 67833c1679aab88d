--------------------------- MODULE MCHolisticState ---------------------------
(***************************************************************************)
(* Small instances of HolisticState: one or two steps, of which a stands for *)
(* the texts the code supplies, one lesson, and at most one process that   *)
(* runs the CLI and one MCP server.                                        *)
(***************************************************************************)
EXTENDS HolisticState

CONSTANTS a, b, l, c1, m1

==============================================================================
