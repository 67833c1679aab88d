------------------------------ MODULE MCDashboard ------------------------------
EXTENDS Dashboard

Beacon == [writer |-> FALSE, id |-> "beacon", kind |-> "local_cli"]
Says(s, type, note) ==
  [session |-> s, type |-> type, note |-> note, from |-> Beacon, task |-> FALSE]
MCReports == {Says(1, "work.completed", "none"), Says(2, "input.requested", "none"),
              Says(1, "session.ended", "acknowledged")}
MCSession == 1..2

Within(p, r, t) == [posts |-> p, requests |-> r, time |-> t]
MCBound == [board |-> Within(2, 2, 2), history |-> Within(0, 2, 5),
            detail |-> Within(1, 1, 2)]

==============================================================================
