SPECIFICATION RvSpec
CONSTANTS
    Runs = {r1}
    Commits <- MCCommits
    NoCommit = 0
    Bundles = {}
    Hunks = {"h1", "h2", "h3"}
    NoHunk = NoHunk
    MaxReviewRevision = 3
    MaxDocuments = 1
    MaxCommits = 3
    Titles = {"t"}
    Texts <- MCTexts
    Characters = {"a", "b", "c", "d", "W"}
    Wide = {"W"}
    Pages = {p1, p2}
    Proposals <- MCProposals
INVARIANTS
    StatusMatchesReplay
    PageAtHeadShowsLog
    AppliedIsWhatWasDecided
    BranchKeepsDecidedText
SYMMETRY Symmetry
CHECK_DEADLOCK FALSE
