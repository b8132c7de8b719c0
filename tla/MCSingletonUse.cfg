\* The server's use of the class: construct first, never destroy.
CONSTANTS
    Threads = {t1, t2, t3}
    Constructors = {t1, t2, t3}
    Getters = {t1, t2, t3}
    Destructors = {}
    Objects = {o1, o2}
    ConstructFirst = TRUE
    MayThrow = FALSE
    NoThread = NoThread
    Null = Null
SPECIFICATION FairSpec
INVARIANTS UseIsSafe
PROPERTIES ConstructCompletes
