--------------------------- MODULE MCSessionStore ----------------------------
(***************************************************************************)
(* Small instances of SessionStore: two sessions, two processes that hold  *)
(* the lock and a command that does not, in any order.                     *)
(***************************************************************************)
EXTENDS SessionStore

CONSTANTS s1, s2, k1, k2, c1

==============================================================================
