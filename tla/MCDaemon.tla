-------------------------------- MODULE MCDaemon --------------------------------
(***************************************************************************)
(* A small instance of Daemon on PassiveCapture: two files and two         *)
(* branches, so that the buffer can stay below the threshold and reach it  *)
(* at once or by and by, and a switch of the branch can be undone; two     *)
(* daemons, so that one can find, overtake and replace the other.          *)
(***************************************************************************)
EXTENDS Daemon

CONSTANTS f, g, main, dev, p1, p2

=============================================================================
