SPECIFICATION Spec
CONSTANTS
  r1 = r1
  r2 = r2
  s1 = s1
  NoOp = NoOp
  Op = {r1}
  Subscriptions = {}
  Cancellable = {}
  WriteErrors = FALSE
  MaxId = 2
  MaxFrames = 1
  WireCap = 1
  Payloads = {"message"}
  Signals = {"fatal"}
CHECK_DEADLOCK FALSE
PROPERTY TimeoutMeansAlive
