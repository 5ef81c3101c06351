SPECIFICATION Spec
CONSTANTS
  a = a
  t0 = t0
  m1 = m1
  m2 = m2
  All = All
  None = None
  Children = {a}
  Child = a
  Task = t0
  Messages = {m1, m2}
  Turns = {t0, m1, m2}
  Closers = {}
  Interrupts = {}
  Waits = {}
  MayFail = TRUE
SYMMETRY Symmetry
INVARIANTS
  GivenOnce
