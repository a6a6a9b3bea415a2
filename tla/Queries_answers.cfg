SPECIFICATION Spec
CONSTANTS
    a = a
    b = b
    c = c
    f = f
    d = d
    none = none
    TypeOf <- Types
    Null <- none
    Matches <- Like
    Cell <- MCCell
    MaxDepth = 2
    Name <- Names
    Contents <- Data
    Fixed <- MCFixed
    Dynamic <- MCDynamic
    Value = {0, 1}
    JoinTypes = {"LEFT", "FULL", "NATURAL INNER"}
    Filters <- MCFilters
    Selections <- MCSelections
    Groups <- MCGroups
    Havings <- MCHavings
    Orders <- MCOrders
    Limits <- MCLimits
    Unions <- MCUnions
    MaxTables = 3
    MaxClauses = 3
INVARIANTS
    TypeOK
    AnswersAsMeant
    OnlyItsTables
CHECK_DEADLOCK FALSE
