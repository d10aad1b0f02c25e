CONSTANTS
  Hooks = {"hook"}
  Workers = {"worker1"}
  Processes <- OneProcess
  Decisions = {1}
  Reachable = {1}
  BatchSize = 1
  StaleAfter = 1
  MaxAttempts = 2
  BaseDelay = 1
  MaxDelay = 2
  MaxFaults = 1
  Stalls = FALSE
  Unlisted = FALSE
SPECIFICATION Spec
PROPERTIES BackoffRespected
