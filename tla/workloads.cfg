SPECIFICATION Spec
CONSTANTS
    Chunk = {1, 2, 3}
    DocumentOf <- MCDocumentOf
    ReleaseEmbedders <- MCReleaseEmbedders
    Indexings <- MCIndexings
    Limits = {1, 2}
    CandidateMultiplier = 1
    CandidateMinimum = 1
    FusionK = 60
    Unit = 238266
    Dimension = 3
    RawIndex = {0, 1, 2, 4, 5}
    Weight = {1, 2}
    MaxEntries = 3
    None = None
    Slug <- MCSlug
    Integral = {"12", "big"}
    Huge = {"big"}
    Parses = {"12", "1.5", "big"}
    zero = zero
    num = num
    Typed = {zero, num}
    Zeros = {zero}
    Workbooks <- MCWorkbooks
    FlowRun = {1, 2, 3, 4}
    Parents <- MCParents
    Task = {1, 2, 3}
    Place <- MCPlace
    Stagings <- MCStagings
    MaxTries = 2
    Initialiser = {init1, init2}
    Cli = {cli}
    Sha = {"s1"}
    Arrivals <- MCArrivals
INVARIANTS BestScores NearerComesFirst LimitIsFilled LiteralIsTheVector OkKeepsTheData MetadataIsTrue FailsOnlyFor ClearsWhatItCan ReturnsWhenAllEnded ManifestNamesWhatIsThere CompletedBundleIsWhole DownloadIsOneBundle MigrationsApply SchemaFollowsRevision HeadIsTheModels PublishedStaysSearchable InitialisersTakeTurns
