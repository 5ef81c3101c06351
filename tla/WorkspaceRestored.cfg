SPECIFICATION Spec
CONSTANTS
  Paths = {p, q}
  Texts = {a, b, c}
  Tools = {"edit"}
  MaxChanges = 2
  MaxWrites = 0
  MaxErrors = 0
  Absent = Absent
  Binary = Binary
  None = None
INVARIANT RestoredToPreTurn
CHECK_DEADLOCK FALSE
