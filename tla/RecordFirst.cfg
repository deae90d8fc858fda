CONSTANTS
  Tabs = {a, b}
  None = None
  Hidden = Hidden
  Imported = Imported
  Importers = {a}
  MaxMeetings = 2
  Flows = {f1, f2}
  MaxClaims = 1
  MaxFaults = 1
  Haste = {}
SPECIFICATION FairSpec
CHECK_DEADLOCK FALSE
PROPERTY NeverAbandoned
  
