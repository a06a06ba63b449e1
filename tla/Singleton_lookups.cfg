CONSTANTS
    Threads = {t1, t2}
    Names = {n1}
    Types = {A, B}
    Operations = {"get", "release", "reset", "set_operational", "drop"}
    CtorThrows = {B}
    CtorGets = {}
    DtorGets = {B}
    MaxObjects = 2
    Null = Null
    None = None
SPECIFICATION FairSpec
INVARIANT LookupsAgree
 
CHECK_DEADLOCK FALSE
