CONSTANTS
  NoOne = NoOne
  Admins = {a1, a2}
  Jobs = {j1}
  PullsLive = TRUE
  Threshold = 2
  MaxRequests = 2
  MaxSlow = 1
  MaxDrops = 1
  MaxMishaps = 1
SPECIFICATION FairSessionSpec
INVARIANTS OneAtATime
PROPERTIES  BackUnlessFault
