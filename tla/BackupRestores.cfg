SPECIFICATION PpSpec
CONSTANTS
    Procs = {p}
    Names = {n}
    Old = 1
    Current = 2
    Guards = {TRUE, FALSE}
    MaxRows = 2
    MaxIds = 3
    MaxBusy = 2
    None = None
INVARIANT
    BackupRestores
CHECK_DEADLOCK FALSE
