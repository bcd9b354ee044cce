SPECIFICATION Spec
CONSTANTS
    DataSources <- MCDataSources
    SourceReads <- MCSourceReads
    MemberOf <- MCMemberOf
    ReadOf <- MCReadOf
    RidesOn <- MCRidesOn
    MinAge = 1
    MinSeen = 2
    Orders = {"a1", "a2"}
    Seats = {}
    Classes <- AnyClass
    Modes = {"on"}
    Faults = {"webhook", "decline", "clock_read", "crash"}
INVARIANTS TypeOK SpareThePaying
PROPERTIES StrikeEarned
CHECK_DEADLOCK FALSE
