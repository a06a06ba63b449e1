SPECIFICATION Spec
CONSTANTS
    c1 = c1
    c2 = c2
    h1 = h1
    h2 = h2
    check = check
    count = count
    None = None
    Ids <- OneId
    Clients = {c1, c2}
    Handlers = {h1, h2}
    HandlerId <- PoolId
    Order <- MixedPool
    Forward <- NoForward
    OnException = {h1}
    Throwing = {h1}
    Limits = {0}
    Disposable = {}
    MaxSends = 3
INVARIANTS
    EveryMessageInOnePlace
    BusyCountAccounts
    NoLostWakeup
PROPERTIES
    ImplementsService
