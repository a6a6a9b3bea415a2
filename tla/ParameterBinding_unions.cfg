SPECIFICATION Spec
CONSTANTS
    Value = {v1}
    Null = Null
    Queries <- TwoUnions
INVARIANTS
    ParametersAsBound
