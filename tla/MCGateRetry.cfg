CONSTANTS
  N = 2
  DepChoices <- TwoSubtaskPlans
  MaxRetries = 1
  MaxGateRetries = 1
  StallTicks = 1
  Modes <- StrictMode
  SharedPool = FALSE
  CommitCanFail = FALSE
  MaxEdits = 2
SPECIFICATION Spec
PROPERTIES GateRetryFixed
