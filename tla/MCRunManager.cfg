CONSTANTS
  Run = {r1, r2, r3}
  MaxConcurrent = 2
  Outcome <- StrictOutcomes
  MaxCrashes = 1
SPECIFICATION Spec
INVARIANTS TypeOK RunLimit NoStrayTask ReportedOutcome
PROPERTIES AtMostOnce CancelFinal
SYMMETRY Symmetry
