SPECIFICATION Spec

CONSTANTS
    PerMinute = 2
    Minute = 3
    Sweep = 5
    Clients = {"c"}
    Pauses = {0, 1, 2, 3}
    MaxCalls = 6

INVARIANTS
    WindowSlides

\* The bounds leave nothing to do.
CHECK_DEADLOCK FALSE
