CONSTANTS
    Threads = {t1, t2}
    NoThread = NoThread
    Ops <- OpsInitCacheFinalize
    Requests <- AllRequests
    Shape <- ShapeShipped
    Setup = "runtime"
    RefBound = 2
SPECIFICATION Spec
INVARIANT CacheNeedsRuntime
CHECK_DEADLOCK FALSE
