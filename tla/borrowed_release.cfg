CONSTANTS
    Threads = {t1}
    NoThread = NoThread
    Ops <- OpsFinalize
    Requests <- AllRequests
    Shape <- ShapeRenderNotCallable
    Setup = "cold"
    RefBound = 2
SPECIFICATION Spec
INVARIANT NoOverRelease
