SPECIFICATION Spec
CONSTANTS
  a = a
  b = b
  c = c
  Jobs = {a, b, c}
  Modes = {"overwrite", "append", "create_only", "read", "unsupported"}
  Chunks = 2
  OldSize = 3
  MaxBad = 1
SYMMETRY Symmetry
CHECK_DEADLOCK FALSE
INVARIANT TypeOK
INVARIANT AtMostOneCreates
INVARIANT SuccessIsWritten
INVARIANT UndisturbedIsWhole
INVARIANT AppendsSurvive
INVARIANT UndisturbedRead
INVARIANT OneLateChange
