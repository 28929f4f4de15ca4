CONSTANTS
    Key = {k1, k2, k3}
    Value = {v1, v2}
    Element = {e1, e2, e3, e4}
    Selector = {x, y}
    Null = Null
    maxSelectors = 3
    MaxIndex = 3
    TypeOf <- MCTypeOf
    Rows <- MCRows
    Indexes = {"id", "s", "n", "b", "t"}
    DbFilters <- MCFilters
    MaxLimit = 2
SPECIFICATION StructuresSpec
INVARIANTS  FilterIsAnswered
PROPERTY ImplementsKeyedFifo
SYMMETRY Symmetry
CHECK_DEADLOCK FALSE
