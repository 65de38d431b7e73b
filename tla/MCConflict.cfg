SPECIFICATION Spec
CONSTANTS
  Caller = {c1, c2}
  Entries = 2
  Branch = {1, 2}
  NoBranch = 0
  Priority = {0}
  Clash <- MCClash
  Telltale = {}
PROPERTY ConflictReturned
CHECK_DEADLOCK FALSE
