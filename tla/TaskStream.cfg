CONSTANTS
  Tasks = {t1}
  Consumers = {c1, c2}
  MaxAttempts = 3
  MaxFaults = 2
SPECIFICATION FairSpec
INVARIANTS NoTaskLost DuplicatesNeedFaults DeadOnlyAfterRetries
PROPERTIES KeepsFairPromise
