CONSTANTS
    SizeMax = 4
    S = 3
    Values = {a, b}
    MaxText = 4
    MaxBytes = 4
    MaxUnits = 3
    MaxPath = 5
    Users = {u1, u2}
    Dirs = {d, e}
    Files = {f}
    MaxStuck = 1
    Readers = {r1, r2}
    Texts <- TextSet
    Makers = {p1, p2, p3}
    TempNames = {n1, n2}
    Threads = {t1, t2}
    Homes = {h1, h2}
    FirstBuffer = 2
    MaxLength = 4
    Slots = {o1, o2, o3}
    Targets = {file1, file2}
    MaxInitialized = 3
SPECIFICATION Spec
INVARIANTS
    
    StoredTablesAnswer
    TextReadsBack
    
    
    
    TemporariesAreTemporary
    CreatorsDoNotCollide
    
    
    
    ScopesAreKept
PROPERTIES
    
    ImplementsWindow
