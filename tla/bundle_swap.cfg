SPECIFICATION Spec
CONSTANTS
  s1 = s1
  s2 = s2
  s3 = s3
  p1 = p1
  p2 = p2
  en_de = en_de
  en_zh = en_zh
  k1 = k1
  k2 = k2
  None = None
  Sessions = {s1, s2, s3}
  Prints = {p1, p2}
  Validating = {p1}
  HeadsPaths = {en_de, en_zh}
  Knobs = {k1}
  MaxFaults = 2
INVARIANTS
  TypeOK
  RunsOwnConfig
  PolicyOfDirection
