CONSTANTS
  Configs <- MCConfigs
  Requests <- MCRequests
  Words = {"u", "v"}
  Stop = "eos"
  WarmupPositions = {0, 2, 3}
  MaxDrafts = 2
  RescueTokens = 2
SPECIFICATION Spec
INVARIANTS TypeOK RowsOfRequest RowsComplete
