-------------------------- MODULE MCSettingsPages --------------------------
EXTENDS SettingsPages

Visits ==
  { [parts |-> {"save"}, clicks |-> 4],
    [parts |-> {"download", "apply", "rollback"}, clicks |-> 3],
    [parts |-> {"apply", "execute", "rollback", "restart"}, clicks |-> 3],
    [parts |-> {"execute", "rollback", "restart", "start"}, clicks |-> 2],
    [parts |-> {"execute", "plan", "start"}, clicks |-> 2],
    [parts |-> {"refresh", "download"}, clicks |-> 3] }

=============================================================================
