SPECIFICATION Spec
CONSTANTS
    Tests = {t1, t2}
    NIters = 2
    NMonitors = 1
    MaxReports = 1
    Modes = {"async", "sync"}
    MaxQueue = 2
SYMMETRY Symmetry
INVARIANTS
    RowPerIteration
    PercentageCommittedLast
    NothingReportedIsMissing
    CallsBackWhenStored
CHECK_DEADLOCK FALSE
