SPECIFICATION Spec
CONSTANTS
  Input = 1
  Output = 1
  Capacity = 1
CHECK_DEADLOCK FALSE
INVARIANT ErrorsAreInfrastructure
