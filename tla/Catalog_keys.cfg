SPECIFICATION Spec
CONSTANTS
    Name = {t1}
    Col = {c1, c2}
    Key = {"none", "plain", "auto"}
    Freed = Freed
    Extra = TRUE
    Foreign = TRUE
SYMMETRY Symmetry
INVARIANTS
    KnownTablesMatch
