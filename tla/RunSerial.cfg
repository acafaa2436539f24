CONSTANTS
    Runs <- MCRuns
    SingleRun = TRUE
    NBatches = 2
    Environments <- MCEnvironments
    MaxTests = 1
    NIters = 1
SPECIFICATION FairSpec
CHECK_DEADLOCK FALSE
INVARIANTS
    TypeOK
    SingleChain
    ClosedAndDone
    RunsDoNotOverlap
    QuitsWhenComplete
PROPERTIES
    EventuallyQuits
