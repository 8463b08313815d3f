SPECIFICATION SwSpec
CONSTANTS
    MaxDocuments = 2
    MaxCommits = 3
    Titles = {"a"}
    Texts = {"x", "y"}
    BatchSize = 2
    MaxCrashes = 1
INVARIANTS
    ReadySummaryKnowsItsScope
    NothingIsForgotten
PROPERTIES
    QueueDrains
CHECK_DEADLOCK FALSE
