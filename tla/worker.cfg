SPECIFICATION FairSpec
CONSTANTS
  a = a
  b = b
  c = c
  Jobs = {a, b, c}
  Allowed = {a, b}
  Blocking = {a}
  MayPanic = {b}
  HandlerResults = {"success", "failure"}
INVARIANT TypeOK
INVARIANT QuietBetweenBatches
INVARIANT HeartbeatSpansExecution
PROPERTY TasksEnd
PROPERTY ShutdownCompletes
PROPERTY HeartbeatCancelledUnlessPanic
