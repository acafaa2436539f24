CONSTANTS
    Clients = {"desktop", "daemon"}
    TestClasses = {"play", "blank"}
    MonitorClasses = {"gdb"}
    Root = "monitor"
    Declares <- MCDeclares
    Undeclared = {"frames"}
    MaxSessions = 2
    MaxMerges = 2
    MaxKills = 1
SPECIFICATION Spec
CHECK_DEADLOCK FALSE
INVARIANTS
    ReferencesResolve
    CopiesAgree
PROPERTIES
    MergeOnlyAdds
