CONSTANTS
  Sources = {s1, s2}
  Callers = {c1, c2}
  Workers = {w1, w2}
  MaxDay = 1
  LastDay = 1
  Tokens = {t1, t2}
  NoToken = NoToken
  MaxToggles = 1
  MaxCrashes = 1
  MaxAborts = 1
  MaxOverruns = 1
SPECIFICATION Spec
INVARIANTS TypeOK ExclusiveDispatch VerdictMatchesLedger PostRunOnce
PROPERTIES FinalIsFinal ImplementsLedger
CHECK_DEADLOCK FALSE
SYMMETRY Symmetry
