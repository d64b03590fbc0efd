SPECIFICATION Spec
CONSTANTS
  a = a
  b = b
  x = x
  y = y
  Words = {a, b}
  Tokens = {x}
  Sources <- TwoTexts
  Seeds <- SomeSeeds
  NoUnit <- NoUnitDef
  Unread <- NoUnitDef
  Brief = {}
  MaxDraft = 1
  MaxTarget = 1
  MaxUtts = 2
  MaxFaults = 2
CHECK_DEADLOCK FALSE
INVARIANTS
  TypeOK
  WireFollowsAccepted
  LastUpdateDrafted
