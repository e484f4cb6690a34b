CONSTANTS
    Threads = {t1}
    NoThread = NoThread
    Ops <- OpsStartup
    Requests <- AllRequests
    Shape <- ShapeNoLookup
    Setup = "cold"
    RefBound = 2
SPECIFICATION Spec
INVARIANT CacheAllOrNothing
