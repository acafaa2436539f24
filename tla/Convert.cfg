CONSTANTS
    OldDatabases <- MCOldDatabases
    Variables = {"HOME", "DISPLAY"}
    MaxOpens = 3
    MaxKills = 1
SPECIFICATION OpenSpec
CHECK_DEADLOCK FALSE
INVARIANTS
    NothingLost
    MovedAgree
    ReadyIsWhole
