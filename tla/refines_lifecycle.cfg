CONSTANTS
    Threads = {t1, t2}
    NoThread = NoThread
    Ops <- OpsRefine
    Requests <- AllRequests
    Shape <- ShapeShipped
    Setup = "cold"
    RefBound = 2
SPECIFICATION Spec
PROPERTY ImplementsCacheLifecycle
\* A render without a cache kills the process, which then takes no step.
CHECK_DEADLOCK FALSE
