SPECIFICATION Spec
CONSTANTS
  SamplesPerFrame = 2
  MaxWindow = 5
  FrameThreshold = 1
  RewindThreshold = 1
  CommitPolicies = {"frontier_flush", "rewind_abort"}
  Budget = 6
  Chunks = {1, 2, 3}
  MaxAudio = 9
  MaxTokens = 2
CHECK_DEADLOCK FALSE
INVARIANTS
  TypeOK
  SortedAnchors
  PrefixWithoutHole
  AnchorsBehindHead
  NeverRefed
