SPECIFICATION DataSpec
CONSTANTS
  DataSources <- MCDataSources
  SourceReads <- MCSourceReads
  MemberOf <- MCMemberOf
  ReadOf <- MCReadOf
  RidesOn <- MCRidesOn
  MinAge = 0
  MinSeen = 1
  Orders = {"a1", "b1"}
  Seats = {s1, s2}
  s1 = s1
  s2 = s2
  Classes <- EndOrPay
  Modes = {"on"}
  Faults = {"empty_read", "webhook", "crash", "enqueue"}
  o1 = o1
  o2 = o2
  o3 = o3
  o4 = o4
  b1 = b1
  b2 = b2
  p1 = p1
  p2 = p2
  p3 = p3
  Ordered = {o1, o2, o3, o4}
  Booked = {b1, b2}
  Guests = {o4}
  Pairs = {p1, p2, p3}
  PairOf <- MCPairOf
  OrderLimit = 2
  BookingLimit = 1
  MaxWixPages = 2
  ListScenarios <- ListCases
SYMMETRY SeatSymmetry
INVARIANTS NeverHalfAtOnce DeathsStrandOne ListsHold
CHECK_DEADLOCK FALSE
