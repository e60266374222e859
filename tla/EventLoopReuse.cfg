SPECIFICATION Spec
CONSTANTS
  Tasks = {t1, t2}
  Events = {e1, e2, e3}
  Fds = {f1, f2}
  Slots = {s1}
  MaxTimeout = 0
  ReuseFds = TRUE
  None = None
SYMMETRY Symmetry
INVARIANT FreshReadiness
