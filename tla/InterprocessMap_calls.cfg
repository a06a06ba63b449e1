CONSTANTS
    Users = {u1, u2}
    Keys = {k1, k2}
    MaxValue = 1
    Capacity = 1
    Platforms = {"windows", "posix"}
    Processes = {"windows"}
    MaxCrashes = 1
    None = None
SPECIFICATION FairSpec
INVARIANTS
    CallsAreAtomic
    
PROPERTIES
    GuardExcludesOthers
    CallsReturn
