SPECIFICATION Spec
CONSTANTS
    e1 = e1
    e2 = e2
    Event = {e1, e2}
    Duplicate = {e2}
    EmbedRun = {g1, g2}
    TextId = {i1, i2, i3, i4}
    None = None
    Release = {"old"}
    Extractor <- OldExtractor
    Chunker <- OldChunker
    Embedders <- OldEmbedders
    IngestReleases = {"old"}
    EmbedReleases = {"old"}
    MaxRetries = 1
    Faults = {"task"}
    Deletion = "never"
SYMMETRY Ids
INVARIANTS TypeOK ExtractionHasText PublishedIsComplete StatusSettles DoneIsPublished
