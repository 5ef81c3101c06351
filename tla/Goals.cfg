SPECIFICATION Spec
CONSTANTS
  Requests = {r1, r2}
  Conts = {k1, k2}
  Users = {u1}
  MaxGoals = 2
  Budgeted = TRUE
  None = None
SYMMETRY Symmetry
INVARIANTS ChargedToItsGoal OneWrapUp
 
CHECK_DEADLOCK FALSE
