SPECIFICATION Spec
CONSTANTS
  a = a
  b = b
  g1 = g1
  j1 = j1
  j2 = j2
  j3 = j3
  NoPlan = NoPlan
  NoJob = NoJob
  Plans = {a, b}
  Groups = {g1}
  DoorsOf <- NoDoorForB
  Jobs = {j1, j2, j3}
  Kinds = {"purchase", "started", "payfail", "recovered", "cancel", "finish"}
  Parks = {"no_api_key", "future_start", "no_email"}
  ForeignUser = TRUE
  StaffDeletes = TRUE
  MaxAttempts = 2
  MaxStalls = 1
  MaxFaults = 3
  MaxIds = 6
SYMMETRY JobSymmetry
CONSTRAINT FaultsBound
INVARIANTS RowsAreTrue RemovingHasOwner
CHECK_DEADLOCK FALSE
