CONSTANTS
    l1 = l1
    l2 = l2
    s1 = s1
    s2 = s2
    Logins = {l1, l2}
    NoLogin = NoLogin
    Calls = {k1, k2}
    Pushes = {p1}
    NoPush = NoPush
    Clients = {wallet, other}
    NoClient = NoClient
    States = {s1, s2}
    StateOf <- MCStateOf
    SameDevice = {l2}
    RequirePAR = FALSE
    Faults = TRUE

SPECIFICATION LoginSpec
SYMMETRY CallSymmetry
CHECK_DEADLOCK FALSE
INVARIANT LoginTypeOK
INVARIANT SavedRequestSpentOnce
INVARIANT CodeOfItsLogin
INVARIANT RedirectBacksItsCode
INVARIANT PushMintsOneCode
