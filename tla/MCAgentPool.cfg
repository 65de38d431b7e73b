SPECIFICATION Spec
CONSTANTS
  r1 = r1
  r2 = r2
  clean = clean
  builder = builder
  scout = scout
  Run <- MCRun
  Agent <- MCAgent
  Owner <- MCOwner
  Scout <- MCScout
  Old <- MCOld
  Attempts = 2
  KillFails = TRUE
INVARIANT PoolInv
INVARIANT NothingRegisteredLeft
INVARIANT OwnWorktree
PROPERTY PromptReachesAttempt
CHECK_DEADLOCK FALSE
