\* Two overlapping collections of one source; what differs between the kinds.
SPECIFICATION Spec
CONSTANTS
  Kinds = {"play", "appstore", "discourse", "news", "rss", "hackernews"}
  Collections = {r1, r2}
  NQ = 2
  NP = 2
  Quota = 2
  Page = 2
  MaxItems = 3
  MaxFailures = 1
  MaxCrashes = 1
  Uncached = Uncached
  NoStats = NoStats
INVARIANTS TypeOK SkipsAreExplained MeasurementIsComplete KeptAddsUp
CHECK_DEADLOCK FALSE
SYMMETRY Symmetry
