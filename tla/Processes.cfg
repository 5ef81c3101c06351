SPECIFICATION MCSpec
CONSTANTS
  a1 = a1
  b1 = b1
  r1 = r1
  r2 = r2
  r3 = r3
  c1 = c1
  n1 = n1
  None = None
  Starts = {a1, b1}
  Attached = {a1}
  Background = {b1}
  MaxOps = 1
  Requests = {r1, r2, r3}
  Conns = {c1}
  Names = {n1}
  Width = 2
  MaxProcesses = 1
  Protected = 0
INVARIANTS
  RunningIsHeld
  WakeIsComing
  RunningIsReachable
  DisconnectKills
PROPERTIES
  DroppedCallsEnd
CHECK_DEADLOCK FALSE
