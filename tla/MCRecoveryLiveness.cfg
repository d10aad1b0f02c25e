CONSTANTS
  Hooks = {"hook"}
  Workers = {"worker1"}
  Processes <- OneProcess
  Decisions = {1, 2}
  Reachable = {1}
  BatchSize = 1
  StaleAfter = 1
  MaxAttempts = 2
  BaseDelay = 1
  MaxDelay = 1
  MaxFaults = 1
  Stalls = FALSE
  Unlisted = TRUE
SPECIFICATION FairSpec
PROPERTIES EveryDecisionSettles
