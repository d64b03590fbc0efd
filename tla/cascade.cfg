CONSTANTS
  Words = {"a", "ab"}
  Fraction = "fraction"
  Grows <- MCGrows
  Configs <- MCConfigs
  Tokens <- MCTokens
  Targets = {"x", "y"}
  MaxAudio = 3
  MaxSend = 2
  MaxWords = 2
  MaxMore = 1
  MaxEmitted = 1
SPECIFICATION Spec
INVARIANTS TypeOK SegmentsCoverAudio FlushedAtEnd ShownIsTranslation
PROPERTY OpenWordsStayOpen
