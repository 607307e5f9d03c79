SPECIFICATION Spec
CONSTANTS
  TicksPerSecond = 2
  Minute = 2
  Hour = 4
  HoursPerDay = 3
  DurationRange = 128
  MaxSinceAge = 36
  WellFormedHosts = {"node01", "node02"}
  WellFormedNames = {"messages", "motd"}
  CanonicalPaths = {"/var/log/messages", "/etc/motd"}
  MaxTime = 73
  StartTimes = {65}
  Requests <- UntilToday
  Policies <- MCPolicies
  Edits <- MCEdits
INVARIANT
  VerifyAcceptsWhatPlanProduced
