SPECIFICATION Spec
CONSTANTS
    File <- MCFile
    Info <- MCInfo
    UPLOAD_PART_LENGTH = 2
    EXPIRATION = 1
    UPLOAD_METHOD = "POST"
    ENABLE_TOPIC = TRUE
    Tenancy <- MCTenancy
    SHADOW_TENANCY_PATH = TRUE
    Server <- MCServer
    Worker = {w1, w2}
    Prefixes <- MCPrefixes
    MaxDate = 2
    MaxFaults = 1
    MaxScratch = 2
    MaxTime = 2
    Options <- MCOptions
SYMMETRY WorkerSymmetry
INVARIANTS UrlsWork FetchIsExact AcknowledgedIsKept
