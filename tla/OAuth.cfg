SPECIFICATION Spec

CONSTANTS
    Grants = {g1}
    Requests = {r1, r2}
    g1 = g1
    r1 = r1
    r2 = r2
    MaxPairs = 3
    MaxDynamicClientsPerDay = 1

SYMMETRY Interchangeable

INVARIANTS
    CodesIssueOnce
    ClosedConnectionsAreSilent
    OnePairPerFamily
    FamiliesEndTogether
PROPERTIES
    EndedFamiliesStayEnded

\* The bounds may leave nothing to do.
CHECK_DEADLOCK FALSE
