---------------------------- MODULE AbstractLock ----------------------------
(***************************************************************************)
(* What withLockSync promises its callers: at most one of them is inside   *)
(* the protected function, and the lock passes from one caller to the next *)
(* only by being free in between.  A caller leaves by finishing or by      *)
(* dying; the promise does not tell the two apart.                         *)
(***************************************************************************)
CONSTANTS Proc,    \* the processes that share the repository
          Nobody     \* "nobody"

VARIABLE owner

Init == owner = Nobody

Enter(p) == owner = Nobody /\ owner' = p

Leave(p) == owner = p /\ owner' = Nobody

Next == \E p \in Proc : Enter(p) \/ Leave(p)

Spec == Init /\ [][Next]_owner
=============================================================================
