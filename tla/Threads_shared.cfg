CONSTANTS
    Threads = {t1, t2}
    Keys = {k1}
    Values = {v0}
    Default = v0
    Nesting = 2
    None = None
    Loggers = {t1, t2}
    MaxCalls = 2
    ForeignUnlock = "ignored"
    Nobody = Nobody
SPECIFICATION Spec

    
PROPERTIES
    
    GuardKeepsIterators
    ContainerCallsReturn
    LogIsKept
CHECK_DEADLOCK FALSE
