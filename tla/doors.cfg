SPECIFICATION DoorsRunSpec
CONSTANTS
  Members = {"m1", "m2"}
  Plans = {"p1", "p2"}
  Doors = {"d1", "d2"}
  DoorsAtStart <- OneDoorEach
  Saves = {"s1"}
  Patches <- MixedPatch
  MaxRoles = 3
  Scenarios <- DoorCases
  RemovalOn = TRUE
  Sweep = "sweep"
  Same = Same
  m1 = m1
  m2 = m2
  kisi = kisi
  seam = seam
  Parties = {m1, m2}
  Platforms = {kisi, seam}
  Kisi = kisi
  KeyTries = 2
  MaxKeyEdits = 2
  KeySlips = 1
  Gyms <- KeyCases
  Callers = {"c1", "c2", "c3"}
  Limit = 2
  Window = 2
  Tries = 2
  Overloads = 2
PROPERTIES DoorsHold DoorsSettle ParkedGetsIn RequestsComeBack
CHECK_DEADLOCK FALSE
