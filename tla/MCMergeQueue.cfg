SPECIFICATION Spec
CONSTANTS
  Caller = {c1, c2}
  Entries = 2
  Branch = {1, 2}
  NoBranch = 0
  Priority = {0, 1}
  Clash <- MCClash
  Telltale = {2}
INVARIANT QInv
PROPERTY ImplementsFifo
CHECK_DEADLOCK FALSE
SYMMETRY Interchangeable
