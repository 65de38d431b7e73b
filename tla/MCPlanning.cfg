CONSTANTS
  Name = {"a", "b", "c", "d", "e", "f", "g", "h", "i", "commit", "task"}
  Task = "task"
  Ceremony = {"commit"}
  Answers <- SomeAnswers
  MaxPolls = 3
SPECIFICATION FairSpec
INVARIANTS TypeOK BlockedAreOrphans PlanFits ScoutGone
PROPERTIES PlanningEnds
