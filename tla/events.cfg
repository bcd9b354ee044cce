SPECIFICATION EventsSpec
CONSTANTS
  Events = {"bought", "bad_shape", "no_tenant"}
  Route <- MCRoute
  Requests = {"r1", "r2"}
  Faults = {"slow", "crash", "add", "add_lost", "unmark", "db", "db_lost", "forget"}
  MaxFaults = 3
  Members = {"m1", "m2"}
  Plans = {"p1", "p2"}
  JobIds = {1, 2, 3, 4}
  Clicks = {"c1"}
  Codes = {"temporary", "missing", "refused", "unknown"}
  Attempts = 2
  Often = 2
  JobScenarios <- QueueCases
  NoJob = 0
INVARIANTS TypeOK AckedIsQueued QueueHolds
PROPERTIES KeepsInbox EventsSettle
CHECK_DEADLOCK FALSE
