CONSTANTS
  d1 = d1
  d2 = d2
  t1 = t1
  t2 = t2

  c1 = c1
  c2 = c2
  c3 = c3
  Docs = {d1, d2}
  Topics = {t1, t2}
  Calls = {c1, c2, c3}
  DormancyDays = 1
  RetentionDays = 1
  MaxDay = 2
  NoTopic = NoTopic
  NoCall = NoCall
SYMMETRY Symmetry
SPECIFICATION Spec
INVARIANTS TypeOK CountedOnce MergesResolve MergedIsEmpty
PROPERTY UserDecisionsStand
CHECK_DEADLOCK FALSE
