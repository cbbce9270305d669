SPECIFICATION ClientSpec
CONSTANTS
  r1 = r1
  s1 = s1
  NoOp = NoOp
  Op = {r1, s1}
  Subscriptions = {s1}
  Cancellable = {}
  WriteErrors = FALSE
  MaxId = 2
  MaxFrames = 2
  WireCap = 1
  Payloads = {"message", "garbled"}
  Signals = {"ping", "unparsable", "fatal"}
CHECK_DEADLOCK FALSE
PROPERTIES LossReachesEveryone LossIsNoticed InFlightCallsFail
