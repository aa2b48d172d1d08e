SPECIFICATION FairSpec
CONSTANTS
    e1 = e1
    e2 = e2
    Event = {e1, e2}
    Duplicate = {e2}
    EmbedRun = {g1, g2}
    TextId = {i1, i2}
    None = None
    Release = {"old"}
    Extractor <- OldExtractor
    Chunker <- OldChunker
    Embedders <- OneEmbedder
    IngestReleases = {"old"}
    EmbedReleases = {"old"}
    MaxRetries = 0
    Faults = {"outside", "crash"}
    Deletion = "partial"
INVARIANT RunsConverge
PROPERTY EverythingEnds
