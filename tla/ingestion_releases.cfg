SPECIFICATION Spec
CONSTANTS
    e1 = e1
    e2 = e2
    Event = {e1}
    Duplicate = {}
    EmbedRun = {g1}
    TextId = {i1}
    None = None
    Release = {"old", "new"}
    Extractor <- TwoExtractors
    Chunker <- TwoChunkers
    Embedders <- TwoEmbedders
    IngestReleases = {"old"}
    EmbedReleases = {"new"}
    MaxRetries = 0
    Faults = {}
    Deletion = "never"
INVARIANT PublishedIsComplete
