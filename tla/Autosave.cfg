SPECIFICATION AsSpec
CONSTANTS
    b1 = b1
    b2 = b2
    Blocks = {b1, b2}
    Environments <- MCEnvironments
    MaxTyped = 3
    MaxEdits = 2
    MaxFails = 1
    MaxCommands = 1
INVARIANTS
    TypedTextIsKept
    NoConflictWithItself
    CommandSeesWhatWasTyped
PROPERTY EverythingSettles
CHECK_DEADLOCK FALSE
