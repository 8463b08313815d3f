SPECIFICATION MgSpec
CONSTANTS
    Requests = {r1, r2, r3}
    Threads = {t1, t2}
    NoThread = NoThread
    MaxPending = 2
    MaxAuthorizations = 4
    MaxHead = 3
INVARIANTS
    ClosedProjectRunsNothing
    HeadIsAuthorized
    OneHolderPerRequest
    StoppedEndsCancelled
SYMMETRY Symmetry
