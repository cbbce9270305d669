SPECIFICATION ReadingSpec
CONSTANTS
  r1 = r1
  r2 = r2
  s1 = s1
  NoOp = NoOp
  Op = {s1}
  Subscriptions = {s1}
  Cancellable = {}
  WriteErrors = FALSE
  MaxId = 2
  MaxFrames = 1
  WireCap = 1
  Payloads = {"message"}
  Signals = {}
CHECK_DEADLOCK FALSE
PROPERTY SubscribeHandshakeIsBounded
