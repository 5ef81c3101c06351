SPECIFICATION FairSpec
CONSTANTS
  Approvals = {a1, a2}
  Questions = {q1}
  Conns = {c1}
  MaxTurns = 2
  None = None
INVARIANTS
  PendingHasACall
  
PROPERTIES
  
  InterruptReleases
CHECK_DEADLOCK FALSE
