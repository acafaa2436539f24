CONSTANTS
    NArgs = 2
    MaxItems = 1
    Environments = {{"crash", "timeout"}}
SPECIFICATION FairSpec
CHECK_DEADLOCK FALSE
PROPERTIES
    EndsWhenProgramLeaves
