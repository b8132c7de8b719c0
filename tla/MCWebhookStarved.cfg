\* Self-hook with as many clients as workers, as when 4 of them post at once.
CONSTANTS
    Clients = {c1, c2}
    Forwards = {f1, f2}
    Workers = {w1, w2}
    HookThreads = {h1}
    ClientRequests <- KeyedRequests
    AuthEnabled = TRUE
    HookKey = TRUE
    SelfHook = TRUE
    MaxRequests = 1
    KeepAliveMax = 1
    Backlog = 3
    NoConn = NoConn
    NoWorker = NoWorker
    NoRequest = NoRequest
SPECIFICATION FairSpec
PROPERTIES AnsweredWhileServing
CHECK_DEADLOCK FALSE
