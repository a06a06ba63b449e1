CONSTANTS
    Threads = {t1, t2}
    Names = {n1}
    Types = {A}
    Operations = {"get", "reset"}
    CtorThrows = {}
    CtorGets = {}
    DtorGets = {}
    MaxObjects = 2
    Null = Null
    None = None
SPECIFICATION Spec
PROPERTY NothingCreatedAfterReset
CHECK_DEADLOCK FALSE
