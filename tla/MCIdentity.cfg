CONSTANTS
    Names = {n1}
    Tokens = {s1, s2}
    NoToken = none
    Tasks = {t1, t2}
    MaxCreated = 3
    Faults = {}
SPECIFICATION Spec
INVARIANTS
    RequestsComeFromAccounts
    SessionsDieWithAccount
    OneSessionPerUser
SYMMETRY Symmetry
