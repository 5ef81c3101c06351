SPECIFICATION MCSpec
CONSTANTS
  Sessions = {s1, s2}
  Conns = {c1, c2}
  Capacity = 1
  MaxResumes = 3
  MaxTurns = 1
  None = None
  Starts = {t1, t2}
  Hidden = {}
  Edits = {e1}
  Rollbacks = {r1}
  Compacts = {k1}
  MaxWork = 1
  MaxUnread = 1
  MaxCrashes = 1
  MaxFails = 1
  Junk = Junk
  Paths = {p, q}
  Texts = {a, b}
  Tools = {"write", "edit", "patch"}
  MaxChanges = 2
  MaxWrites = 1
  MaxErrors = 1
  Absent = Absent
  Binary = Binary
INVARIANTS
  OneHydration
  RestartChangesNothing
  GoneStaysGone
  NothingUnread
  OrderKept
  UserContentKept
  LoneChangeUndone
CONSTRAINT Apart
SYMMETRY Symmetry
