SPECIFICATION RnSpec
CONSTANTS
    Runs = {run1}
    ThisRun = run1
    Commits = {1, 2}
    NoCommit = 0
    Bundles = {}
    Hunks = {h1}
    NoHunk = NoHunk
    MaxReviewRevision = 0
    Requests = {1, 2, 3}
    Threads = {t1}
    NoThread = NoThread
    MaxPending = 2
    MaxAuthorizations = 3
    MaxHead = 2
    MaxAttempts = 3
    MaxQueue = 2
INVARIANTS
    BundleIsAccepted
    NothingLeftBehind
    AuditTellsRequests
PROPERTIES
    OperationEnds
CHECK_DEADLOCK FALSE
