SPECIFICATION PpSpec
CONSTANTS
    Procs = {p, q}
    Names = {n}
    Old = 1
    Current = 2
    Guards = {FALSE}
    MaxRows = 2
    MaxIds = 3
    MaxBusy = 2
    None = None
INVARIANTS
    NoHalfPackage
    AcknowledgedSurvives
    ArchiveIsAState
PROPERTIES
    UpgradeKeepsOldCopy
SYMMETRY Symmetry
CHECK_DEADLOCK FALSE
