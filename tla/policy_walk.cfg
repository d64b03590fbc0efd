CONSTANTS
  Configs <- MCConfigs
  Requests <- MCRequests
  Tokens <- MCTokens
  MaxDraft = 4
  MaxUnseen = 1
SPECIFICATION Spec
INVARIANTS TypeOK WholeUnits FrontierRecovered CorruptWithheld MonotoneUnits RegressionRecovered
