SPECIFICATION Spec
CONSTANTS
    Conn = {c1, c2, c3}
    Txn = {t1, t2}
    Change = {x1, x2}
    NoConn = NoConn
    Nesting = FALSE
SYMMETRY Symmetry
INVARIANTS
    TypeOK
    OpenTxIsOwned
    Durability
    RolledBackStaysOut
PROPERTIES
    RepeatableRead
    StuckReachesNothing
    ImplementsStore
