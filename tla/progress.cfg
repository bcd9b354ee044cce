SPECIFICATION ProgressSpec
CONSTANTS
  Gyms = {"g1", "g2"}
  Procs = {"p1", "p2"}
  Manual = "manual"
  Nobody = "nobody"
  SweepScenarios <- SweepCases
  Members = {"m1", "m2", "m3"}
  Visitors = {"n1"}
  PageLimit = 2
  MaxPages = 2
  DriftScenarios <- DriftCases
INVARIANTS OneOfEach
PROPERTIES SweepsDeliver VanishedIsFound GrantsEnd LapsedLeaves
CHECK_DEADLOCK FALSE
