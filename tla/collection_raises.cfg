\* A source whose items carry naive timestamps, collected again once its
\* watermark is saved.
SPECIFICATION Spec
CONSTANTS
  Kinds = {"rss", "news", "play"}
  Collections = {r1, r2}
  NQ = 2
  NP = 2
  Quota = 2
  Page = 2
  MaxItems = 3
  MaxFailures = 1
  MaxCrashes = 1
  Uncached = Uncached
  NoStats = NoStats
INVARIANT RowOnEveryOutcome
CHECK_DEADLOCK FALSE
SYMMETRY Symmetry
