\* Three threads, each free to construct, get and destroy, and three objects.
CONSTANTS
    Threads = {t1, t2, t3}
    Constructors = {t1, t2}
    Getters = {t2, t3}
    Destructors = {t1, t3}
    Objects = {o1, o2, o3}
    ConstructFirst = FALSE
    MayThrow = TRUE
    NoThread = NoThread
    Null = Null
SPECIFICATION Spec
INVARIANTS TypeOK AtMostOneInstance NoLeakNoDoubleDelete PointersLive
PROPERTIES ImplementsCell
CHECK_DEADLOCK FALSE
