SPECIFICATION Spec
CONSTANTS
  s1 = s1
  s2 = s2
  h1 = h1
  i1 = i1
  NoTurn = NoTurn
  StartReqs = {s1, s2}
  ShellReqs = {h1}
  InterruptReqs = {i1}
  RejectReqs = {s1}
  Patience = "none"
  PersistMayFail = TRUE
CONSTRAINT
  TwoTurnRequests
INVARIANTS
  QueuedInOnePlace
  RefusedLeavesNothing
  InterruptTruthful
