CONSTANTS
  Sources = {s1, s2}
  Callers = {c1}
  Workers = {w1, w2}
  MaxDay = 1
  LastDay = 1
  Tokens = {t1, t2}
  NoToken = NoToken
  MaxToggles = 0
  MaxCrashes = 1
  MaxAborts = 1
  MaxOverruns = 0
SPECIFICATION FairSpec
PROPERTIES EveryRunIsFinalised
CHECK_DEADLOCK FALSE
