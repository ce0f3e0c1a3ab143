CONSTANTS
    l1 = l1
    l2 = l2
    l3 = l3
    public = public
    internal = internal
    Logins = {l1, l2, l3}
    Bases = {public, internal}
    NoBase = NoBase
    Garbled = Garbled
    BaseOf <- MCBaseOf
    Length <- MCLength
    Faults = TRUE

SPECIFICATION Spec
CHECK_DEADLOCK FALSE
INVARIANT TypeOK
INVARIANT ForeignRedirectNeedsOverlap
