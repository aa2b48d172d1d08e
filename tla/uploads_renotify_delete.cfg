SPECIFICATION Spec
CONSTANTS
    Candidate = {c1, c2}
    Content = {k1}
    Run = {r1, r2, r3}
    None = None
    PutTTL = 0
    CommitWindow = 1
    AbandonedAfter = 2
    MaxCommit = 1
    MaxRetries = 0
    MaxTime = 4
    Deletion = "whole"
    Renotify = TRUE
    Rewrite = FALSE
INVARIANT DocumentsKeepTheirBytes
