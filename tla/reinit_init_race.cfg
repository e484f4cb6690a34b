CONSTANTS
    Threads = {t1, t2}
    NoThread = NoThread
    Ops <- OpsReinitInit
    Requests <- AllRequests
    Shape <- ShapeShipped
    Setup = "serving"
    RefBound = 2
SPECIFICATION Spec
PROPERTY ImplementsCacheLifecycle
