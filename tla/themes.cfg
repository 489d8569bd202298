\* Two clients, three requests on a monitor in use, two jobs, one crash.
SPECIFICATION Spec
CONSTANTS
  Clients = {c1, c2}
  None = None
  Crons = {"c1", "c2"}
  Zones = {"z1", "z2"}
  Created <- CreatedSchedule
  Edits <- SomeEdits
  Keys = {"store"}
  MaxCalls = 3
  Queries = {q1, q2}
  Refs = {"store"}
  MaxJobs = 2
  MaxCrashes = 1
INVARIANTS TypeOK DiscoveryWasReviewed AcceptanceIsWhole RegistrationFollows
PROPERTIES RejectionStands BeatCatchesUp JobsEnd
CHECK_DEADLOCK FALSE
