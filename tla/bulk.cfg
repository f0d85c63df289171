CONSTANTS
  Faults <- SurvivedFaults
  MaxFaults = 2
  RetryCount = 2
  Removable = TRUE
SPECIFICATION FairSpec
INVARIANTS SuccessIsTrue InStep
PROPERTIES UpMeansCapacity OperationEnds
CHECK_DEADLOCK FALSE
