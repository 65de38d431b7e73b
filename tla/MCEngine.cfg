CONSTANTS
  N = 2
  DepChoices <- TwoSubtaskPlans
  MaxRetries = 1
  MaxGateRetries = 1
  StallTicks = 1
  Modes <- CoreModes
  SharedPool = TRUE
  CommitCanFail = FALSE
  MaxEdits = 1
SPECIFICATION FairSpec
INVARIANTS TypeOK ActiveCountExact CurrentAgent SpawnBudget DepsStartFirst
PROPERTIES DispatchWithinLimit ImplementsLifecycle Termination
