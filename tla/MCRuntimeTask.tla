---------------------------- MODULE MCRuntimeTask ----------------------------
(***************************************************************************)
(* Small instances of RuntimeTask.  There is one task; what is bounded is  *)
(* the output that waits to be read.                                       *)
(***************************************************************************)
EXTENDS RuntimeTask

(* With two events unread, the exit can overtake one that ends the session  *)
(* and one that follows it.                                                 *)
ShortOutput == 2

==============================================================================
