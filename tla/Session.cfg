CONSTANTS
    NArgs = 2
    MaxItems = 1
    Environments = {
        {},
        {"refuses", "refusesLate", "hang", "race", "timeout", "abort", "badArgs"},
        {"undying", "refuses", "hang", "timeout"},
        {"mute", "undying", "crash", "spawnFails", "refuses", "hang", "race",
         "badArgs"},
        {"slow", "timeout"},
        {"slow", "crash", "refusesLate", "race"},
        {"slow", "mute", "undying", "badArgs", "abort"}}
SPECIFICATION FairSpec
CHECK_DEADLOCK FALSE
INVARIANTS
    EachIterationStopsOnce
    TimerOnlyWhileRunning
    FiledUnderOwnIteration
    RecordedArgsRan
    NoOrphan
    DoneOnce
    ExitsNormally
PROPERTIES
    EventuallyDone
    ImplementsLifecycle
