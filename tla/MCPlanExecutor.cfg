CONSTANTS
  Name = {"a", "b", "c", "goal"}
  Goal = "goal"
  Batches <- Answers
  MaxRounds = 2
SPECIFICATION FairSpec
INVARIANTS TypeOK DepsRanFirst DropsOnlyBlocked FailureEnds
PROPERTIES PlanEnds
