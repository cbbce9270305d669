SPECIFICATION FairSpec
CONSTANTS
  c1 = c1
  c2 = c2
  Writer = {c1, c2, 2}
  Pongs = {2}
  Droppable = {c1}
  Parts = 2
  Room = 1
  WriteErrors = TRUE
  Frames = 3
  Start <- MCStart
  Damage = TRUE
  Lengths = {1, 3}
INVARIANTS TypeOK FramesDoNotMix YieldsWhatWasSent NoneMeansAll
PROPERTIES WritesEnd FramesArrive ImplementsQueue
CHECK_DEADLOCK FALSE
