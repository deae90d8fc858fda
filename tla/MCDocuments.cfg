CONSTANTS
  Requests = {r1, r2}
  Meetings = {m1, m2}
  Names = {"n1"}
  Kinds = {"table", "brief", "custom"}
  Versions = 2
  MaxAsked = 5
  MaxCrashes = 1
  Counter = Counter
  ReportFile = ReportFile
  ReportText = ReportText
  Missing = Missing
  Torn = Torn
SPECIFICATION Spec
INVARIANTS IndexesDiffer NameIsKept 
SYMMETRY Symmetry
CHECK_DEADLOCK FALSE
