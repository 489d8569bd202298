CONSTANTS
  d1 = d1
  d2 = d2
  s1 = s1
  s2 = s2
  t1 = t1
  None = None
  Rerun = Rerun
  Docs = {d1, d2}
  Sources = {s1, s2}
  Topics = {t1}
  MaxDay = 0
  Offset = 1
  OverlapDays = 0
  MaxLost = 1
  MaxMoves = 2
  VolumeFloor = 1
  MinCleanDays = 1
  CooldownDays = 2
  MinRepresentatives = 2
  PeriodDays = 0
SYMMETRY Symmetry
SPECIFICATION Spec
PROPERTY ThinMeansThin
CHECK_DEADLOCK FALSE
