SPECIFICATION Spec
CONSTANTS
  MaxIssued = 3
  MaxSent = 2
  MaxCalls = 2
INVARIANTS DataInOrder BlocksOwned
PROPERTIES EveryWaitIsAnswered
CHECK_DEADLOCK FALSE
