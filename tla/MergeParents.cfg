CONSTANTS
    Clients = {"desktop"}
    TestClasses = {"blank"}
    MonitorClasses = {"gdb"}
    Root = "monitor"
    Declares <- MCDeclares
    Undeclared = {"frames"}
    MaxSessions = 2
    MaxMerges = 2
    MaxKills = 2
SPECIFICATION Spec
CHECK_DEADLOCK FALSE
PROPERTIES
    ParentsAreMapped
