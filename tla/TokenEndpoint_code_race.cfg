CONSTANTS
    c1 = c1
    p1 = p1
    r1 = r1
    r2 = r2
    r3 = r3
    r4 = r4
    k1 = k1
    k2 = k2
    wallet = wallet
    backend = backend
    Codes = {c1}
    PreCodes = {}
    NoCode = NoCode
    Reqs = {r1, r2}
    NoReq = NoReq
    Clients = {wallet}
    IssuerBackend = IssuerBackend
    NoClient = NoClient
    Keys = {k1}
    NoKey = NoKey
    DPoPClients = {}
    CnfKeys <- MCCnfKeys
    RequireKeyBinding = FALSE
    RequireAttestation = FALSE
    MissReturnsZero = FALSE
    Faults = FALSE

SPECIFICATION Spec
SYMMETRY RequestSymmetry
CHECK_DEADLOCK FALSE
INVARIANT CodeAnsweredOnce
