CONSTANTS
    Threads = {t1}
    NoThread = NoThread
    Ops <- OpsLifecycle
    Requests <- AllRequests
    Shape <- ShapeShipped
    Setup = "cold"
    RefBound = 2
SPECIFICATION Spec
INVARIANT TypeOK
INVARIANT NoCrash
INVARIANT NoOverRelease
INVARIANT NoLeak
INVARIANT CacheAllOrNothing
