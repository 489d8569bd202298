CONSTANTS
  d1 = d1
  d2 = d2
  s1 = s1
  s2 = s2
  t1 = t1
  None = None
  Rerun = Rerun
  Docs = {d1, d2}
  Sources = {s1, s2}
  Topics = {t1}
  MaxDay = 1
  Offset = 1
  OverlapDays = 0
  MaxMoves = 2
  MaxLost = 1
  VolumeFloor = 1
  MinCleanDays = 1
  CooldownDays = 2
  MinRepresentatives = 2
  PeriodDays = 1
SYMMETRY Symmetry
SPECIFICATION Spec
INVARIANTS TypeOK BreakdownsAgree CountWithinSample CooldownHolds
CHECK_DEADLOCK FALSE
