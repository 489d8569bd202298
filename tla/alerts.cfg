CONSTANTS
  Deliveries = {d1, d2, d3}
  Mistyped = {d3}
  Sweeps = {w1, w2}
  MaxOverlaps = 1
  MaxCrashes = 1
  MaxTries = 6
SPECIFICATION FairSpec
INVARIANTS TypeOK OutcomeWasEarned TriesAreLimited
PROPERTIES TerminalIsTerminal DeliveriesEnd
CHECK_DEADLOCK FALSE
