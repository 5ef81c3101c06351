SPECIFICATION MCSpec
CONSTANTS
  Users = {u1, u2}
  Tools = {t1}
  MaxRetries = 1
  MaxAnswers = 2
  MaxManual = 1
  MaxUnread = 1
  None = None
  QueueInputs = {a, b}
  SteerInputs = {s}
  Note = note
  MaxTurns = 2
  MaxLives = 2
SYMMETRY Symmetry
INVARIANTS  GivenOncePerLife  TimelySteerStaysInTurn
PROPERTIES TranscriptOnlyGrows LoopConverges
CHECK_DEADLOCK FALSE
