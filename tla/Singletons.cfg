SPECIFICATION MCSpec
CONSTANTS
  p1 = p1
  p2 = p2
  p3 = p3
  NoProc = NoProc
  Partial = Partial
  Procs = {p1, p2, p3}
  Modes = {"stdio", "listen", "status", "shutdown"}
  Clis = {c1}
  Desktops = {d1, d2}
  Files = {f1, f2, f3, f4, f5, f6, f7, f8}
  NoFile = NoFile
  SharedHome = TRUE
INVARIANTS
  OneServer
  ServingIsFindable
  AloneSucceeds
  
PROPERTIES
  Settles
CHECK_DEADLOCK FALSE
