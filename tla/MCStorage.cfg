SPECIFICATION KeepSpec
CONSTANTS
    BLOCKS_SAMPLE_AMOUNT = 1
    AUTO_FIXING_DEPTH = 1
    BLOCKS_COUNT_INTERVAL_FOR_SAVE = 2
    WRITE_BATCH_SIZE = 2
    BLOCKS_COUNT_INTERVAL_FOR_FLUSH = 100
    BLOCKS_IN_SPLIT_BLOCK_LOG_FILE = 4
    BLOCKS_IN_BATCH_IO_MODE = 2
    MAX_FILES_OF_SPLIT_BLOCK_LOG = 9
    Missing = Missing
    Values <- MCValues
    Key <- MCKey
    KeysImmutable = TRUE
    MaxId = 2
    MaxDepth = 3
    MaxRevision = 3
    DynamicAlloc <- MCDynamicAlloc
    MaxThrows = 1
    Readers = {api}
    MaxBlock = 14
    StorageWorlds <- AllStores
    HIVE_MAX_BLOCK_SIZE = 4
    OffsetSize = 2
    OffsetRange = 64
    WalkBack = 2
    Sessions <- AnySession
    Compressors = {w1, w2}
    blocks_to_prefetch = 1
    max_completed_queue_size = 1
    Jobs <- AnyJob
    Core <- Tables
    PluginType = {"votes"}
    StateBlocks = {"x"}
    MaxStateHead = 2
    Lives <- AnyLives
    DiskSize = 20
    FullThreshold = 30
    ScaleRate = 50
    Callers = {c}
    Worlds <- NodeWorlds
    SnapWorlds <- SnapshotWorlds
INVARIANTS
    UndoRestoresSnapshot
    RevisionsConsecutive
    IndexSound
    StorageWhole
    ArchivesExact
    LoadedExact
    ToolsExact
    CompressionExact
    MemoryExact
PROPERTY Durable
CHECK_DEADLOCK FALSE
