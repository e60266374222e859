SPECIFICATION Spec
CONSTANTS
  Second = 3
  Timers = {a, b, c}
  Timeouts <- WholeSeconds
  Remainders = {1, 4, 5}
  MaxTime = 10
  None = None
INVARIANTS
  StampsAreDue
PROPERTIES
  WakesWhenDue
