SPECIFICATION Spec
CONSTANTS
    Db = {d1, d2}
    Stmt = {s1, s2}
    Conn = {c1, c2}
    Handle = {h1, h2}
    None = None
    Gone = Gone
SYMMETRY Symmetry
INVARIANTS
    TypeOK
    OneOwner
    NothingElseLost
PROPERTIES
    CreatedAsTold
