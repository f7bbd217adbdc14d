SPECIFICATION Spec
CONSTANTS
  NoAccount = "none"
  HIVE_NULL_ACCOUNT = "null"
  HIVE_TEMP_ACCOUNT = "temp"
  NoKey = "no key"
  HIVE_MAX_SIG_CHECK_DEPTH = 2
  HIVE_MAX_AUTHORITY_MEMBERSHIP = 4
  HIVE_MAX_SIG_CHECK_ACCOUNTS = 9
  HIVE_OWNER_AUTH_RECOVERY_PERIOD = 3
  HIVE_ACCOUNT_RECOVERY_REQUEST_EXPIRATION_PERIOD = 2
  HIVE_OWNER_UPDATE_LIMIT = 1
  HIVE_OWNER_AUTH_HISTORY_TRACKING_START_BLOCK_NUM = 2
  HIVE_ACCOUNT_SUBSIDY_PRECISION = 5
  HIVE_MAX_WITNESSES = 3
  max_voted_witnesses = 2
  HIVE_HARDFORK_REQUIRED_WITNESSES = 2
  HIVE_100_PERCENT = 100
  VIRTUAL_MAX = 255
  RD_DENOMINATOR = 16
  HIVE_WITNESS_SUBSIDY_BUDGET_PERCENT = 125
  HIVE_WITNESS_SUBSIDY_DECAY_PERCENT = 300
  HIVE_DECAY_BACKSTOP_PERCENT = 90
  HIVE_FEED_INTERVAL_BLOCKS = 2
  HIVE_MAX_FEED_AGE_SECONDS = 3
  RECENT_SLOTS = 4
  elected_weight = 1
  timeshare_weight = 5
  HIVE_NUM_HARDFORKS = 30
  Worlds <- ChainWorlds
INVARIANTS AccountsSafe ProductionGoesOn
PROPERTY HardforkByQuorum
CHECK_DEADLOCK FALSE
