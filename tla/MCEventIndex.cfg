CONSTANTS
    Data = {d1, d2}
    MaxID = 3
SPECIFICATION Spec
INVARIANTS
    TypeOK
    IdsUnique
    LookupExact
