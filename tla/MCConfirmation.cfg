SPECIFICATION Spec
CONSTANTS
    b1 = b1
    b2 = b2
    Requesters = {b1, b2}
    Users = {"op"}
    Contents = {"a", "b"}
    MaxTries = 3
    TokenTtl = 2
    DelayTtl = 1
    Destinations <- MCDestinations
    DefaultProvider = "far"
    Recipient <- MCPhone
    OperationTtl = 1
    LongTtl = 2
    MaxTime = 2
    MaxSms = 2
    MaxFaults = 1
    MaxRequests = 4
    Reports = {1, 4}
SYMMETRY Symmetry
CHECK_DEADLOCK FALSE
INVARIANTS
    TriesBounded
    ConfirmedOnce
