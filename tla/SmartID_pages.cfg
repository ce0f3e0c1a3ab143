CONSTANTS
    Pages = {p1, p2}
    Sessions = {s1, s2}
    NoSession = NoSession
    Faults = TRUE

SPECIFICATION Spec
CHECK_DEADLOCK FALSE
INVARIANT TypeOK
INVARIANT OwnTimeoutUnlessOvertaken
INVARIANT InAsConfirmed
