CONSTANTS
    Requests = {g1}
    Resetters = {r1}
    MaxMutations = 2
SPECIFICATION FairSpec
INVARIANTS
    TypeOK

    
