CONSTANTS
    Admins = {a1, a2}
    Names = {"a", "b"}
    Roles = {"r"}
    PoolNames = {"", "a"}
    ObjectIds <- MCObjectIds
    MaxCalls = 3
    Fields <- MCFields
    Commands <- MCCommands
SPECIFICATION ConsoleSpec
INVARIANTS NoDanglingBinding StoreHoldsOwnServices
SYMMETRY AdminSymmetry
CHECK_DEADLOCK FALSE
