SPECIFICATION Spec
CONSTANTS
  Client = {k1, k2}
  Files <- TheFiles
  None = None
  MaxSignals = 2
CHECK_DEADLOCK FALSE
INVARIANT InFlightFinish
