------------------------------ MODULE MCAndonApi ------------------------------
EXTENDS AndonApi

writer == [writer |-> TRUE, id |-> "file-state", kind |-> "writer"]
hook == [writer |-> FALSE, id |-> "hook", kind |-> "agent"]
cli == [writer |-> FALSE, id |-> "", kind |-> ""]

Report(type, note, from) == [type |-> type, note |-> note, from |-> from, task |-> FALSE]

MCReports ==
  {Report("session.needs_input", "none", writer),
   Report("work.started", "none", writer),
   Report("session.heartbeat", "none", hook),
   Report("validation.failed", "none", hook),
   Report("command.failed", "none", hook),
   Report("agent.summary_emitted", "signal", hook),
   Report("context.branch_changed", "branch", cli),
   [Report("task.started", "none", cli) EXCEPT !.task = TRUE],
   [Report("file.changed", "none", hook) EXCEPT !.task = TRUE]}
MCServiceTypes == {"approval.requested", "session.completed"}

=============================================================================
