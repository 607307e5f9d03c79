SPECIFICATION Spec
CONSTANTS
  Scenarios <- MCScenarios
  MaxDrift = 2
  CensusCap = 3
  HostCensusCap = 2
  BreakdownHosts = 1
  WazuhMaxLimit = 4
  FleetItemCap = 2
  TokenTTL = 2
  QueueCensus = 2
  OwnerCensus = 2
  MaxRows = 2
INVARIANTS
  EmptyResultSaysWhich
