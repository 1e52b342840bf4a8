CONSTANTS
    Names = {n1}
    Tokens = {s1, s2}
    NoToken = none
    Tasks = {t1}
    MaxCreated = 3
    Faults = {"restart", "empty", "database", "save"}
SPECIFICATION Spec
INVARIANTS
    TypeOK
    
SYMMETRY Symmetry
