CONSTANTS
    Threads = {t1, t2}
    NoThread = NoThread
    Ops <- OpsLookupCleanup
    Requests <- AllRequests
    Shape <- ShapeShipped
    Setup = "serving"
    RefBound = 2
SPECIFICATION Spec
INVARIANT NoCrash
