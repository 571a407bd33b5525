SPECIFICATION Spec
CONSTANTS
  TL_MAX_ENTRIES = 3
  MODULUS = 8
  s1 = s1
  s2 = s2
  Sources = {s1, s2}
  Written <- MCWritten
  WILD = WILD
  INTERVAL = 1
  Refs = {0, 1, 2, 3, 4, 5, 6, 7}
  Counts <- MCCounts
  Rooms = {2}
  MaxTime = 3
SYMMETRY SourceSymmetry
INVARIANTS TrendTypeOK ReadRangeExact
PROPERTIES KeepsLatest
