CONSTANTS
    k1 = k1
    Clients = {wallet, other}
    NoClient = NoClient
    Faults = TRUE
    Logins = {l1}
    NoLogin = NoLogin
    Calls = {call1, call2}
    Pushes = {p1}
    NoPush = NoPush
    States = {l1}
    StateOf <- MCStateOf
    SameDevice = {}
    RequirePAR = FALSE
    Codes = {l1}
    PreCodes = {}
    NoCode = NoCode
    Reqs = {r1, r2}
    NoReq = NoReq
    IssuerBackend = IssuerBackend
    Keys = {k1}
    NoKey = NoKey
    DPoPClients = {}
    CnfKeys <- MCCnfKeys
    RequireKeyBinding = TRUE
    RequireAttestation = TRUE
    MissReturnsZero = FALSE

SPECIFICATION JointSpec
SYMMETRY Symmetry
CHECK_DEADLOCK FALSE
INVARIANT AttestedSessionFromOwnLogin
INVARIANT AttestedSessionOfOwnClient
PROPERTY ImplementsTokenEndpoint
VIEW View
