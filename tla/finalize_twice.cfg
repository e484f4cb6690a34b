CONSTANTS
    Threads = {t1}
    NoThread = NoThread
    Ops <- OpsFinalize
    Requests <- AllRequests
    Shape <- ShapeShipped
    Setup = "cold"
    RefBound = 2
SPECIFICATION Spec
PROPERTY FinalizeEmptiesCache
