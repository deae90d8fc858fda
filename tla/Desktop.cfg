CONSTANTS
  Requests = {r1, r2}
  MaxAsked = 3
  MaxLaunchers = 2
  MaxFaults = 1
  Ports = {1, 2, 3}
  Values = {1, 2}
  Torn = Torn
SPECIFICATION FairSpec
INVARIANTS OneAgentUnlessOverlap  NewSettingsAreUsed
PROPERTIES GoneWithLauncher
CHECK_DEADLOCK FALSE
