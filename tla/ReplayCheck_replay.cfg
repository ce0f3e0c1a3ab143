CONSTANTS
    r1 = r1
    r2 = r2
    r3 = r3
    j1 = j1
    IssuedAt = {2}
    Lifetimes = {6}
    Reqs = {r1, r2}
    Jtis = {j1}
    Proofs <- MCProofs
    NoProof = NoProof
    DPoPWindow = 1
    PoPWindow = 1
    Leeway = 1
    JTITTL = 4
    MaxDelay = 1
    MaxEpoch = 1
    MaxTime = 4
    MissReturnsZero = TRUE
    Faults = TRUE

SPECIFICATION Spec
SYMMETRY RequestSymmetry
CHECK_DEADLOCK FALSE
INVARIANT TypeOK
INVARIANT DPoPProofsAreNotReplayed
INVARIANT ReplaysWaitForTTL
INVARIANT ReplayedWasAccepted
