SPECIFICATION Spec
CONSTANTS
  w1 = w1
  w2 = w2
  none = none
  NoWorker = none
  Workers = {w1, w2}
  Interval = 2
  Duration = 8
  Delay = 1
  Timeout = 2
  Budget = 3
INVARIANT TypeOK
INVARIANT LeaseHeld
INVARIANT MutualExclusion
