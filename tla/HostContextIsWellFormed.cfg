SPECIFICATION CpSpec
CONSTANTS
    Chapters = {1, 2}
    Parent <- MCParent
    Knowledge = {1}
    Styles = {2}
    NeverSend = {1}
    Lengths <- MCLengths
    InputBudget <- MCBudget
    Asks <- MCAsks
    MaxAttempts = 2
    MaxEntries = 8
    MaxHead = 3
    MaxRevision = 1
    NoChapter = NoChapter
    NoPacket = NoPacket
INVARIANT
    HostContextIsWellFormed
CHECK_DEADLOCK FALSE
