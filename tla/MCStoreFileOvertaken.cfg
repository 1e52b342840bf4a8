CONSTANTS
    Requests = {g1, g2}
    Resetters = {}
    MaxMutations = 3
SPECIFICATION Spec
INVARIANTS
    AckedDurable
