SPECIFICATION CreditsSpec
CONSTANTS
  alice = alice
  bob = bob
  carol = carol
  dave = dave
  erin = erin
  pixa_ico = pixa_ico
  NoAccount = NoAccount
  Account <- AllAccounts
  Witness = {w}
  id <- ids
  Worlds <- SmallWorlds
  HIVE_MAX_PROXY_RECURSION_DEPTH = 3
  HIVE_MAX_ACCOUNT_WITNESS_VOTES = 1
  HIVE_VESTING_WITHDRAW_INTERVALS = 2
  HIVE_VESTING_WITHDRAW_INTERVAL = 1
  HIVE_MAX_WITHDRAW_ROUTES = 2
  HIVE_100_PERCENT = 2
  HIVE_DELAYED_VOTING_TOTAL_INTERVAL = 2
  HIVE_DELAYED_VOTING_INTERVAL = 1
  HIVE_GOVERNANCE_VOTE_EXPIRATION_PERIOD = 2
  HIVE_OWNER_AUTH_RECOVERY_PERIOD = 1
  delegation_return_period = 1
  min_delegation = 1
  min_update = 1
  MaxAmount = 3
  MaxGap = 2
  HIVE_RC_REGEN_TIME = 3
  HIVE_RC_BUCKET_TIME_LENGTH = 1
  HIVE_RC_WINDOW_BUCKET_COUNT = 2
  RD_DENOMINATOR = 16
  rc_regen_blocks = 6
  rc_adjustment = 2
  min_rc_delegation = 1
  remove_threshold = 1
  curve <- small_curve
  dynamics <- small_dynamics
  blocksize = 3
INVARIANTS GovernanceExact CreditsExact
PROPERTY NothingForFree
