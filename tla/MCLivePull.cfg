CONSTANTS
  Nothing = Nothing
  Handlers = {p1, p2}
  Chunks = {1, 2}
  Named = {1, 2}
  Numbered = {}
  Seqs <- PullSeqs
  Keys <- PullKeys
  BatchLimit = 2
  Transcribes = TRUE
  MaxOutages = 1
  MaxFaults = 1
SPECIFICATION FairSpec
INVARIANTS QueuedOnce
PROPERTY QueuedUnlessFault
