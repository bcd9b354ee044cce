SPECIFICATION PeopleSpec
CONSTANTS
  Seats = {"s1", "s2"}
  Holder = "h"
  HubRequests = {"q1", "q2"}
  HouseholdScenarios <- HouseholdCases
  Emails = {"e1", "e2", "e3"}
  SwapDoors = {"d1", "d2"}
  FirstEmail = "e1"
  SwapScenarios <- SwapCases
  CheckPlans = {"p1", "p2", "p3"}
  CheckDoors = {"d1", "d2"}
  DoorOf <- DoorsOfPlans
  CheckScenarios <- CheckCases
INVARIANTS SeatsHold SwapHolds
PROPERTIES PeopleSettle ChecksHold
CHECK_DEADLOCK FALSE
