SPECIFICATION Spec
CONSTANTS
  c1 = c1
  c2 = c2
  c3 = c3
  NoUpdate = NoUpdate
  Conns <- OneConn
  MaxSessions = 1
  MaxUtteranceWords = 0
  MaxFrames = 3
  MaxUtts = 2
  MaxWords = 1
  MaxFaults = 1
CHECK_DEADLOCK FALSE
INVARIANTS
  DroppedLeavesNoSegment
