----------------------------- MODULE MCDBMerge ------------------------------
EXTENDS DBMerge

\* Every test class declares what all tests have, and one has an argument of
\* its own; a monitor has an argument, the class Monitor nothing.
MCDeclares ==
    [c \in Classes |->
        [arguments |-> CASE c = "play" -> {"bus_address", "uri"}
                         [] c = "blank" -> {"bus_address"}
                         [] c = "gdb" -> {"gdb-script"}
                         [] OTHER -> {},
         extrainfo |-> IF c \in TestClasses THEN {"cpu-load"} ELSE {}]]
=============================================================================
