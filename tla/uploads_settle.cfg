SPECIFICATION FairSpec
CONSTANTS
    Candidate = {c1, c2}
    Content = {k1}
    Run = {r1, r2}
    None = None
    PutTTL = 0
    CommitWindow = 1
    AbandonedAfter = 2
    MaxCommit = 1
    MaxRetries = 0
    MaxTime = 3
    Deletion = "partial"
    Renotify = TRUE
    Rewrite = TRUE
INVARIANTS OneDocumentPerContent SweepSparesCommits
PROPERTY UploadsSettle
