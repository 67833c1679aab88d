----------------------------- MODULE MCStateLock -----------------------------
(***************************************************************************)
(* Small instances of StateLock: one process that holds, one that recovers *)
(* and one that comes in between.                                          *)
(***************************************************************************)
EXTENDS StateLock

CONSTANTS p1, p2, p3

Processes == {p1, p2, p3}
Anywhere == ControlPoints
InCriticalOnly == {"critical"}
Nowhere == {}

==============================================================================
