SPECIFICATION Spec
CONSTANTS
  c1 = c1
  c2 = c2
  Writer = {c1, c2, 2}
  Pongs = {2}
  Droppable = {c1}
  Parts = 2
  Room = 1
  WriteErrors = FALSE
  Frames = 3
  Start <- MCStart
  Damage = FALSE
  Lengths = {}
INVARIANT EachMessageIsOneFrame
CHECK_DEADLOCK FALSE
