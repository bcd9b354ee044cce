SPECIFICATION OrdersRunSpec
CONSTANTS
  o1 = o1
  o2 = o2
  PlanOrders = {o1, o2}
  Histories <- EventCases
  Orders = {"p1", "p2"}
  PassDoors = {"d1", "d2"}
  PassWorkers = {"w1", "w2"}
  PassAttempts = 2
  PassScenarios <- PassCases
  Accounts = {"a1", "a2"}
  Gyms = {"g1", "g2"}
  MaxPeople = 5
  PeopleScenarios <- PeopleCases
INVARIANT OrdersHold
PROPERTIES PassesHold OrdersSettle KisiHolds
CHECK_DEADLOCK FALSE
