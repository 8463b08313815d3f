SPECIFICATION HrSpec
CONSTANTS
    Projects = {a, b}
    Places = {x, y}
    Tags = {en}
    MaxRecent = 2
    MaxEndpoints = 2
    Threads = {t1, t2}
    MaxMade = 2
    MaxUpdates = 4
    None = None
INVARIANTS
    RegistryLoads
    RestartShowsLastList
    SecretHasEndpoint
SYMMETRY Symmetry
CHECK_DEADLOCK FALSE
