SPECIFICATION OpSpec
CONSTANTS
    Runs = {r1}
    Commits = {"c1", "c2"}
    NoCommit = "none"
    Bundles <- AllBundles
    Hunks = {h1}
    NoHunk = NoHunk
    MaxReviewRevision = 5
INVARIANTS
    OpTypeOK
    ReviewHeadReplaysLog
    RunFollowsReview
    AppliedFollowsDecision
PROPERTIES
    AuditSpec
CHECK_DEADLOCK FALSE
