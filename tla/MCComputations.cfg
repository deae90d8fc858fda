CONSTANTS
  Keys = {"key"}
  Tenants = {"t1", "t2"}
  Scopes = {"admin"}
  None = None
  Absent = Absent
  Blank = Blank
  Unknown = Unknown
  Nobody = Nobody
  Unset = Unset
SPECIFICATION InputSpec
INVARIANTS SearchHolds  OthersAreReached AccessHolds
