SPECIFICATION Spec
CONSTANTS
    Name = {t1, t2}
    Col = {c1}
    Key = {"none"}
    Freed = Freed
    Extra = TRUE
    Foreign = TRUE
SYMMETRY Symmetry
INVARIANTS
    TypeOK
    KnownTablesMatch
    FileStaysOpenable
    NoDanglingReference
