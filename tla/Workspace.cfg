SPECIFICATION WsSpec
CONSTANTS
    MaxDocuments = 3
    MaxCommits = 5
    MaxShared = 2
    Titles = {"a"}
    Texts = {"x", "y"}
    Processes = {p1, p2}
INVARIANTS
    HeadRootIsContent
    ActiveDocumentsFormForest
    Reopens
PROPERTIES
    DocumentRevisionNamesState
    ChangeIsQueued
SYMMETRY Symmetry
CHECK_DEADLOCK FALSE
