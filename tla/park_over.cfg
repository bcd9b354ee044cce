SPECIFICATION OrdersRunSpec
CONSTANTS
  o1 = o1
  o2 = o2
  PlanOrders = {o1, o2}
  Histories <- ParkedAhead
  Orders = {"p1", "p2"}
  PassDoors = {"d1", "d2"}
  PassWorkers = {"w1", "w2"}
  PassAttempts = 2
  PassScenarios <- NoPassCases
  Accounts = {"a1", "a2"}
  Gyms = {"g1", "g2"}
  MaxPeople = 5
  PeopleScenarios <- NobodyCases
PROPERTIES EndedIsOut
CHECK_DEADLOCK FALSE
