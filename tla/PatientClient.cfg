SPECIFICATION FairSpec
CONSTANTS
  s1 = s1
  s2 = s2
  i1 = i1
  i2 = i2
  NoTurn = NoTurn
  StartReqs = {s1, s2}
  ShellReqs = {}
  InterruptReqs = {i1, i2}
  RejectReqs = {}
  Patience = "call"
  PersistMayFail = TRUE
INVARIANTS
  PatientClientStarts
PROPERTIES
  ImplementsContract
  CancelEndsTurn
