CONSTANTS
    Apis = {"pools", "tenancies", "users", "customers"}
    Callers = {"a", "b"}
    Interferers = {"b"}
SPECIFICATION Spec
INVARIANTS
    ServedAsAsked
    RaceKeepsOperation
