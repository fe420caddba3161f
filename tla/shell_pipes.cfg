SPECIFICATION FairSpec
CONSTANTS
  Input = 3
  Output = 4
  Capacity = 2
CHECK_DEADLOCK FALSE
INVARIANT TypeOK
INVARIANT ExitIsWhole
INVARIANT ExitIsKept
PROPERTY Completes
