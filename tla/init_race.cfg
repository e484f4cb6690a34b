CONSTANTS
    Threads = {t1, t2}
    NoThread = NoThread
    Ops <- OpsInit
    Requests <- AllRequests
    Shape <- ShapeShipped
    Setup = "cold"
    RefBound = 2
SPECIFICATION Spec
INVARIANT NoCrash
