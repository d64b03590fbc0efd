SPECIFICATION Spec
CONSTANTS
  a = a
  b = b
  x = x
  y = y
  Words = {a}
  Tokens = {x, y}
  Sources <- OneWord
  Seeds <- SomeSeeds
  NoUnit <- NoUnitDef
  Unread <- UnreadDef
  Brief <- ShortTexts
  MaxDraft = 2
  MaxTarget = 2
  MaxUtts = 1
  MaxFaults = 0
CHECK_DEADLOCK FALSE
PROPERTIES
  AcceptedAppendOnly
  FinalExtendsPartial
