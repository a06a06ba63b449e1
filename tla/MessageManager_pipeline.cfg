SPECIFICATION FairSpec
CONSTANTS
    c1 = c1
    c2 = c2
    h1 = h1
    h2 = h2
    check = check
    count = count
    None = None
    Ids <- TwoIds
    Clients = {c1}
    Handlers = {h1, h2}
    HandlerId <- PipeId
    Order <- FifoPool
    Forward <- PipeForward
    OnException = {h1}
    Throwing = {h1}
    Limits = {0}
    Disposable = {}
    MaxSends = 2
PROPERTIES
    PipelineDrained
    EveryMessageHandled
    WaitReturns
