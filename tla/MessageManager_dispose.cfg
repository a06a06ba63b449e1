SPECIFICATION FairSpec
CONSTANTS
    c1 = c1
    c2 = c2
    h1 = h1
    h2 = h2
    check = check
    count = count
    None = None
    Ids <- OneId
    Clients = {c1, c2}
    Handlers = {h1, h2}
    HandlerId <- PoolId
    Order <- FifoPool
    Forward <- NoForward
    OnException = {h1}
    Throwing = {h1}
    Limits = {1}
    Disposable = {count}
    MaxSends = 2
INVARIANTS
    QueueWithinLimit
PROPERTIES
    ImplementsService
    DisposeReturns
CHECK_DEADLOCK FALSE
