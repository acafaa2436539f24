CONSTANTS
    Runs = {1, 2, 3}
    SingleRun = TRUE
    NBatches = 1
    Environments <- MCEnvironments
    NSets = 2
    Percentages = {0, 50, 100}
SPECIFICATION Spec
CHECK_DEADLOCK FALSE
INVARIANTS
    KeepsServing
    ShowsWhatRuns
