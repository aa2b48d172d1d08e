SPECIFICATION Spec
CONSTANTS
    Candidate = {c1, c2}
    Content = {k1}
    Run = {r1, r2}
    None = None
    PutTTL = 0
    CommitWindow = 1
    AbandonedAfter = 2
    MaxCommit = 1
    MaxRetries = 1
    MaxTime = 4
    Deletion = "never"
    Renotify = FALSE
    Rewrite = FALSE
INVARIANT CommittedRunsCanRetry
