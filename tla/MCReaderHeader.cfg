\* One small response, in pieces.
CONSTANTS
    Messages <- PlainMessage
    RequestSize = 1
    RecvMax = 9
    Timed = FALSE
SPECIFICATION FairSpec
INVARIANTS HeaderAwaited
CHECK_DEADLOCK FALSE
