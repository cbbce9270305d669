SPECIFICATION WellBehavedSpec
CONSTANTS
  r1 = r1
  s1 = s1
  NoOp = NoOp
  Op = {r1, s1}
  Subscriptions = {s1}
  Cancellable = {r1}
  WriteErrors = TRUE
  MaxId = 2
  MaxFrames = 2
  WireCap = 1
  Payloads = {"message", "error"}
  Signals = {"ping", "unparsable", "fatal"}
CHECK_DEADLOCK FALSE
PROPERTIES AnswersAreDispatched RequestsReturn WriteFailureCloses DroppedStreamsTerminate
