SPECIFICATION Spec
CONSTANTS
  r1 = r1
  r2 = r2
  clean = clean
  builder = builder
  scout = scout
  Run <- MCRun
  Agent <- MCAgent
  Owner <- MCOwner
  Scout <- MCScout
  Old = {}
  Attempts = 1
  KillFails = FALSE
CHECK_DEADLOCK FALSE
PROPERTY IndependentRuns
