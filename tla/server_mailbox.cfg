SPECIFICATION Spec
CONSTANTS
  c1 = c1
  c2 = c2
  c3 = c3
  NoUpdate = NoUpdate
  Conns <- OneConn
  MaxSessions = 1
  MaxUtteranceWords = 1
  MaxFrames = 5
  MaxUtts = 3
  MaxWords = 2
  MaxFaults = 1
CHECK_DEADLOCK FALSE
INVARIANTS
  TypeOK
  FinalsSticky
  LatestPartialWins
  NoLostWakeup
  OrderlyPartials
  OrderlyFinals
  OneSegmentPerUtterance
  OneCallPerSession
PROPERTIES
  ImplementsService
