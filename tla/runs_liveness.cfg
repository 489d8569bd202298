CONSTANTS
  Sources = {s1, s2}
  Callers = {c1, c2}
  Workers = {w1, w2}
  MaxDay = 1
  LastDay = 2
  Tokens = {t1, t2}
  NoToken = NoToken
  MaxToggles = 0
  MaxCrashes = 1
  MaxAborts = 1
  MaxOverruns = 0
SPECIFICATION FairSpec
PROPERTIES PendingBecomesFinal RecoversWhenAsked
CHECK_DEADLOCK FALSE
