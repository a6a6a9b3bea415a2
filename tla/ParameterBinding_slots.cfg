SPECIFICATION Spec
CONSTANTS
    Value = {v1}
    Null = Null
    Queries <- SupportedQueries
INVARIANTS
    TypeOK
    ParametersAsBound
    ColumnsAsGiven
