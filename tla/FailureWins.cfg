CONSTANTS
    Items = {"play", "seek"}
    ExpectedFailures = {"seek"}
    ExpectedSkips = {"seek"}
    NIters = 3
    MaxCalls = 4
SPECIFICATION Spec
CHECK_DEADLOCK FALSE
INVARIANTS
    FailureWins
