CONSTANTS
  Hooks = {"hook"}
  Workers = {"worker1", "worker2"}
  Processes <- TwoProcesses
  Decisions = {1}
  Reachable = {1}
  BatchSize = 1
  StaleAfter = 1
  MaxAttempts = 3
  BaseDelay = 5
  MaxDelay = 6
  MaxFaults = 3
  Stalls = FALSE
  Unlisted = FALSE
SPECIFICATION Spec
INVARIANTS TypeOK ExclusiveExecution LoadedRowIsCurrent AttemptsBounded SentMeansLinked ReferenceMeansSent NoActionIsLeftAlone StaleMissIsDefinitive
PROPERTIES KeepsLifecycle RetriesAreSpaced RetriesFollowCount
