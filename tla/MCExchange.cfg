SPECIFICATION Spec
CONSTANTS
  Half = 8
  MaxCalls = 17
  Ops = {"GetConfiguration", "SubscribeToComponentUpdates", "SubscribeToTopic"}
  Frames <- MCFrames
INVARIANTS TypeOK ClosedMeansLost BuildersParse
PROPERTIES OnlyOwnFrames EmptyPayload ErrorsAreErrors MembersMayBeAdded
CHECK_DEADLOCK FALSE
