SPECIFICATION Spec
CONSTANTS
    Conn = {c1, c2}
    Txn = {t1, t2}
    Change = {x1}
    NoConn = NoConn
    Nesting = FALSE
SYMMETRY Symmetry
INVARIANTS
    ScopeExitEndsTransaction
