CONSTANTS
    NPrograms = 2
    NGens = 2
    MaxLines = 3
SPECIFICATION FairSpec
CHECK_DEADLOCK FALSE
INVARIANTS
    ReadsAreLimited
    TestsListed
    AlarmTakenBack
    EveryCombinationOnce
PROPERTIES
    StartupEnds
