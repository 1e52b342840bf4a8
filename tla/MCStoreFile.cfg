CONSTANTS
    Requests = {g1, g2, g3}
    Resetters = {}
    MaxMutations = 3
SPECIFICATION Spec
INVARIANTS
    FileNeverTorn

    
    
