SPECIFICATION FairSpec
CONSTANTS
  a = a
  b = b
  c = c
  Jobs = {a}
  Allowed = {a}
  Blocking = {}
  MayPanic = {a}
  HandlerResults = {"success", "failure"}
PROPERTY HeartbeatCancelled
