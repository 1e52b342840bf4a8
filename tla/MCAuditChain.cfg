CONSTANTS
    MaxAudit = 3
    MaxLogged = 7
    Writers = {w1, w2}
SPECIFICATION Spec
INVARIANTS
    TypeOK
    ChainLinked
    HeadCutVisible
SYMMETRY Symmetry
