SPECIFICATION Spec
CONSTANTS
  c1 = c1
  c2 = c2
  c3 = c3
  NoUpdate = NoUpdate
  Conns <- ThreeConns
  MaxSessions = 2
  MaxUtteranceWords = 0
  MaxFrames = 2
  MaxUtts = 1
  MaxWords = 1
  MaxFaults = 1
CHECK_DEADLOCK FALSE
SYMMETRY Symmetry
INVARIANTS
  SlotAccounting
