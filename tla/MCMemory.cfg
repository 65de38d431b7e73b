CONSTANTS
  Actor = {"learner", "organizer"}
  Domain = {"run_result", "general"}
  RunResult = "run_result"
  Limit = 2
  MaxEntries = 4
SPECIFICATION FairSpec
INVARIANTS TypeOK OldestFirst
PROPERTIES LostBesideAnother DomainDelivered
