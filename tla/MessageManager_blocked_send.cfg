SPECIFICATION FairSpec
CONSTANTS
    c1 = c1
    c2 = c2
    h1 = h1
    h2 = h2
    check = check
    count = count
    None = None
    Ids <- OneId
    Clients = {c1}
    Handlers = {h1}
    HandlerId <- SingleId
    Order <- SingleFifo
    Forward <- NoForward
    OnException = {}
    Throwing = {}
    Limits = {1}
    Disposable = {}
    MaxSends = 3
PROPERTIES
    BlockedSendProceeds
