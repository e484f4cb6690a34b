CONSTANTS
    Threads = {t1, t2}
    NoThread = NoThread
    Ops <- OpsTeardown
    Requests <- AllRequests
    Shape <- ShapeShipped
    Setup = "serving"
    RefBound = 2
SPECIFICATION Spec
INVARIANT NoOverRelease
