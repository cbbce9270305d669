SPECIFICATION Spec
CONSTANTS
  r1 = r1
  s1 = s1
  NoOp = NoOp
  Op = {r1, s1}
  Subscriptions = {s1}
  Cancellable = {r1, s1}
  WriteErrors = TRUE
  MaxId = 2
  MaxFrames = 3
  WireCap = 2
  Payloads = {"message", "error"}
  Signals = {"undecodable"}
CHECK_DEADLOCK FALSE
INVARIANTS TypeOK WaiterIsReachable NoStaleSink InOrderDelivery NothingAfterTheEnd TerminateAfterActivate
PROPERTY ImplementsCalls
