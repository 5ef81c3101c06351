SPECIFICATION FairSpec
CONSTANTS
  a = a
  t0 = t0
  x1 = x1
  i1 = i1
  w1 = w1
  All = All
  None = None
  Children = {a}
  Child = a
  Task = t0
  Messages = {}
  Turns = {t0}
  Closers = {x1}
  Interrupts = {i1}
  Waits = {w1}
  MayFail = TRUE
INVARIANTS
  NothingSkipped
PROPERTIES
  SpawnIsAnswered
  CloseStops
