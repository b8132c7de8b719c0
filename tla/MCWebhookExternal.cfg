\* The webhook is another service: two clients of two requests, two workers,
\* one hook thread (with two the headers race may crash the server).
CONSTANTS
    Clients = {c1, c2}
    Forwards = {}
    Workers = {w1, w2}
    HookThreads = {h1}
    ClientRequests <- HookRequests
    AuthEnabled = TRUE
    HookKey = TRUE
    SelfHook = FALSE
    MaxRequests = 2
    KeepAliveMax = 2
    Backlog = 2
    NoConn = NoConn
    NoWorker = NoWorker
    NoRequest = NoRequest
SPECIFICATION FairSpec
PROPERTIES PatientClientAnswered StopTerminates
CHECK_DEADLOCK FALSE
