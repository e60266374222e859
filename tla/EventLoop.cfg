SPECIFICATION Spec
CONSTANTS
  Tasks = {t1, t2, t3}
  Events = {e1, e2, e3}
  Fds = {f1, f2}
  Slots = {s1, s2}
  MaxTimeout = 1
  ReuseFds = TRUE
  None = None
SYMMETRY Symmetry
INVARIANTS
  TypeOK
  SwitchStack
  MainRunsAlone
  ArmedHasTask
  CursorLinked
  
PROPERTIES
  OnlyLoopEndsYield
