\* Self-hook: two clients of two requests each, with and without the key, two workers, two hook threads.
CONSTANTS
    Clients = {c1, c2}
    Forwards = {f1, f2}
    Workers = {w1, w2}
    HookThreads = {h1, h2}
    ClientRequests <- AnyRequests
    AuthEnabled = TRUE
    HookKey = TRUE
    SelfHook = TRUE
    MaxRequests = 2
    KeepAliveMax = 3
    Backlog = 2
    NoConn = NoConn
    NoWorker = NoWorker
    NoRequest = NoRequest
SPECIFICATION Spec
INVARIANTS TypeOK RequestOutlivesJob OneOwnerPerConnection OnlyUnreadStranded StopQuiesces RepliesSolicited OnlyAuthorizedForwards
PROPERTIES ImplementsJobs
SYMMETRY MCSymmetry
CHECK_DEADLOCK FALSE
