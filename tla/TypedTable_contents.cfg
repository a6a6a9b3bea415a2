SPECIFICATION Spec
CONSTANTS
    a = a
    b = b
    f = f
    d = d
    none = none
    s1 = s1
    s2 = s2
    unmade = unmade
    Half8 = 2
    Half32 = 4
    Half64 = 8
    Text = {}
    Null <- none
    Unmade <- unmade
    Matches = {}
    Cell <- MCCell
    MaxDepth = 1
    TypeOf <- MCTypeOf
    Statement <- Statements
    Queries <- MCQueries
    TheTable <- a
    Types <- MCTypes
    Choice <- MCChoice
    Cells <- MCCells
    CellType <- MCCellType
    CellChoice <- MCCellChoice
    UpdateDeleteLimit = TRUE
    MaxRows = 2
INVARIANTS
    TypeOK
PROPERTIES
    Implements
