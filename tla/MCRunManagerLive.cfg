CONSTANTS
  Run = {r1, r2}
  MaxConcurrent = 1
  Outcome <- StrictOutcomes
  MaxCrashes = 1
SPECIFICATION FairSpec
PROPERTIES QueueDrains RunsEnd
