\* Self-hook, a worker to spare: the server is stopped while a forward queues.
CONSTANTS
    Clients = {c1}
    Forwards = {f1}
    Workers = {w1, w2}
    HookThreads = {h1}
    ClientRequests <- KeyedRequests
    AuthEnabled = TRUE
    HookKey = TRUE
    SelfHook = TRUE
    MaxRequests = 1
    KeepAliveMax = 1
    Backlog = 3
    NoConn = NoConn
    NoWorker = NoWorker
    NoRequest = NoRequest
SPECIFICATION FairSpec
PROPERTIES StopTerminates
CHECK_DEADLOCK FALSE
