SPECIFICATION Spec

CONSTANTS
    People = {"p"}
    Browsers = {b1}
    b1 = b1
    Requests = {r1, r2}
    r1 = r1
    r2 = r2
    SignupsEnabled = FALSE
    MaxSessions = 2
    MaxStates = 1
    MaxLinks = 2
    MaxChanges = 2
    PerMinute = 2
    Minute = 3
    Sweep = 5
    Clients = {"c"}
    Pauses = {0, 1, 2, 3}
    MaxCalls = 6

SYMMETRY Interchangeable

INVARIANTS
    OneSessionPerBrowser
    AttemptsAreLimited
PROPERTIES
    OldLinksAdmitNobody

CHECK_DEADLOCK FALSE
