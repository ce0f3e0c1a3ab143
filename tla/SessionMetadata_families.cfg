CONSTANTS
    Codes = {c1, c2}
    HasClaims = {c1}
    Reqs = {r1, r2, r3}
    Keys = {k1, k2}
    NoKey = NoKey
    Nil = Nil

SPECIFICATION Spec
SYMMETRY RequestSymmetry
CHECK_DEADLOCK FALSE
INVARIANT TypeOK
INVARIANT ClaimsSurvive
INVARIANT IntrospectionNamesTheKey
