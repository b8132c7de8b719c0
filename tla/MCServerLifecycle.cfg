\* One server object through any four calls and its destruction.
CONSTANTS MaxCalls = 4
SPECIFICATION FairSpec
INVARIANTS TypeOK ListenerHasServer ThreadNeverAbandoned StoppedIsClean StartReports
PROPERTIES CallsReturn
CHECK_DEADLOCK FALSE
