CONSTANTS
    Threads = {t1, t2}
    NoThread = NoThread
    Ops <- OpsServeRebuild
    Requests <- AllRequests
    Shape <- ShapeShipped
    Setup = "cold"
    RefBound = 2
SPECIFICATION FairSpec
INVARIANT GilReleasedOnReturn
PROPERTY EveryCallReturns
\* A process that has died takes no step, and at RefBound no entry point is
\* started: both are states with no successor that the bridge really reaches.
CHECK_DEADLOCK FALSE
