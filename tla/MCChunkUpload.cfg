CONSTANTS
  h1 = h1
  h2 = h2
  c1 = c1
  c2 = c2
  k1 = k1
  k2 = k2
  Nothing = Nothing
  Handlers = {h1, h2}
  Chunks = {c1, c2}
  Seqs = {0, 1}
  Keys = {k1, k2}
  SeqOf <- UploadSeqs
  KeyOf <- UploadKeys
  Transcribes = FALSE
  MaxTries = 4
  MaxLost = 2
  MaxOutages = 1
  MaxFaults = 1
SPECIFICATION FairSpec
CHECK_DEADLOCK FALSE
INVARIANTS AcceptedIsStoredUnlessFault
PROPERTY EventuallyTold
