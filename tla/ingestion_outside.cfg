SPECIFICATION Spec
CONSTANTS
    e1 = e1
    e2 = e2
    Event = {e1}
    Duplicate = {}
    EmbedRun = {g1}
    TextId = {i1}
    None = None
    Release = {"old"}
    Extractor <- OldExtractor
    Chunker <- OldChunker
    Embedders <- OldEmbedders
    IngestReleases = {"old"}
    EmbedReleases = {"old"}
    MaxRetries = 0
    Faults = {"outside"}
    Deletion = "never"
INVARIANT StatusSettles
