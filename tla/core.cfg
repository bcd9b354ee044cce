SPECIFICATION Spec
CONSTANTS
    a = a
    b = b
    g1 = g1
    g2 = g2
    j1 = j1
    j2 = j2
    j3 = j3
    NoPlan = NoPlan
    NoJob = NoJob
    Plans = {a, b}
    Groups = {g1, g2}
    DoorsOf <- SharedDoor
    Jobs = {j1, j2, j3}
    Kinds = {"purchase", "cancel", "deleted"}
    Parks = {}
    ForeignUser = FALSE
    StaffDeletes = FALSE
    MaxAttempts = 2
    MaxStalls = 1
    MaxFaults = 2
    MaxIds = 6
SYMMETRY JobSymmetry
INVARIANTS TypeOK RecordsHold CountStands
PROPERTIES OtherPlansKeepDoors
CHECK_DEADLOCK FALSE
