------------------------------ MODULE MCStateSync ------------------------------
EXTENDS StateSync

MCMachine == {"laptop", "phone"}
MCProcess == {1, 2, 3}
MCMachineOf == [p \in MCProcess |-> IF p = 3 THEN "phone" ELSE "laptop"]
MCConfig ==
  LET all == [autoSync |-> TRUE, portableState |-> TRUE, onCheckpoint |-> TRUE,
              onHandoff |-> TRUE]
  IN [m \in MCMachine |-> IF m = "laptop" THEN all ELSE [all EXCEPT !.autoSync = FALSE]]
MCLegacy == <<[Project EXCEPT !.by = "legacy"]>>

=============================================================================
