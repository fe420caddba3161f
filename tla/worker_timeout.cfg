SPECIFICATION Spec
CONSTANTS
  a = a
  b = b
  c = c
  Jobs = {a}
  Allowed = {a}
  Blocking = {a}
  MayPanic = {}
  HandlerResults = {"success", "failure"}
INVARIANT HardTimeout
