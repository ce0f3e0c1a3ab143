CONSTANTS
    r1 = r1
    r2 = r2
    r3 = r3
    j1 = j1
    IssuedAt = {1}
    Lifetimes = {6}
    Reqs = {r1}
    Jtis = {j1}
    Proofs <- MCProofs
    NoProof = NoProof
    DPoPWindow = 1
    PoPWindow = 1
    Leeway = 1
    JTITTL = 4
    MaxDelay = 1
    MaxEpoch = 1
    MaxTime = 7
    MissReturnsZero = TRUE
    Faults = FALSE

SPECIFICATION Spec
SYMMETRY RequestSymmetry
CHECK_DEADLOCK FALSE
INVARIANT AssertionsExpireSoon
