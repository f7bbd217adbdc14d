INIT ServiceInit
NEXT ServiceNext
CONSTANTS
    HIVE_NULL_ACCOUNT = "null"
    TREASURY = "treasury"
    OBSOLETE_TREASURY = "obsolete"
    HIVE_INIT_MINER_NAME = "initminer"
    NoName = ""
    Names <- names
    WellFormed <- people
    Existing = {"alice", "ico"}
    PIXA_ICO_ACCOUNT = "ico"
    PIXA_TEAM_ACCOUNT = "team"
    Amounts <- amounts
    HIVE_MAX_ACCOUNT_CREATION_FEE = 1
    HIVE_MIN_ACCOUNT_CREATION_FEE = 1
    Percents <- percents
    ONE_HUNDRED_PERCENT = 100
    Times = {1, 2}
    HIVE_MIN_RECURRENT_TRANSFERS_RECURRENCE = 2
    HIVE_PROPOSAL_MAX_IDS_NUMBER = 2
    Parties <- parties
    HeldAssets <- held
    AccountId <- ids
    HIVE_PROPOSAL_MAINTENANCE_CLEANUP = 4
    HBD_SYMBOL = 2
    HIVE_SYMBOL = 1
    DATABASE_API_SINGLE_QUERY_LIMIT = 5
    head_block_time = 25
    ListWorlds <- AllLists
    Row <- Rows
    Key = {"k1", "k2", "k3"}
    Day = 3
    Hour = 1
    Minute = 1
    ObservedWorlds <- AllObserved
    Workers = {"w1", "w2"}
    Clients = {"net", "writer", "api", "main"}
    TxObject = {"o1", "o2", "o3"}
    TheBlock = "block"
    NoOne = "none"
    BlockWorlds <- AllShared
    EarlyMethods = {"get_status"}
    LateMethods = {"get_block", "broadcast"}
    LegacyMethods = {"broadcast"}
    PoolThreads = {p1, p2}
    Connections = {c1, c2}
    ServerWorlds <- AllServers
    DriverWorlds <- AllDriven
    maximum_block_size = 8
    SizeReserve = 2
    HeaderSize = 1
    HIVE_MAX_SCHEDULE = 2
    ToleranceMin = 1
    ToleranceMax = 2
    ToleranceRate = 50
    BlockSpacing = 3
    MaxHeadBlock = 2
    MaxBuilt = 3
    MaxTicks = 9
INVARIANTS
    OperationsAccountable
    ListsExact
    ObserversExact
    SharingSound
    CallsServed
    DriversExact
CHECK_DEADLOCK FALSE
