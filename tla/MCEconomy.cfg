SPECIFICATION Spec
CONSTANTS
  NoAccount = NoAccount
  HIVE_NULL_ACCOUNT = "null"
  TREASURY = "omnibus"
  OBSOLETE_TREASURY = "dao"
  HIVE_INIT_MINER_NAME = "initminer"
  NoName = ""
  HIVE_100_PERCENT = 100
  HIVE_HBD_HARD_LIMIT = 30
  hbd_stop_percent = 30
  hbd_start_percent = 20
  hbd_interest_rate = 20
  HIVE_SECONDS_PER_YEAR = 1
  HIVE_HBD_INTEREST_COMPOUND_INTERVAL = 1
  HIVE_FEED_HISTORY_WINDOW = 3
  HIVE_MAX_PENDING_TRANSFERS = 2
  HIVE_SAVINGS_WITHDRAW_REQUEST_LIMIT = 2
  HIVE_SAVINGS_WITHDRAW_TIME = 2
  HIVE_MAX_OPEN_RECURRENT_TRANSFERS = 2
  HIVE_MAX_RECURRENT_TRANSFER_END_DATE = 4
  HIVE_MAX_CONSECUTIVE_RECURRENT_TRANSFER_FAILURES = 2
  HIVE_MAX_RECURRENT_TRANSFERS_PER_BLOCK = 2
  Recurrence = {1, 2}
  Executions = {2}
  HIVE_MAX_LIMIT_ORDER_EXPIRATION = 2
  HIVE_CONVERSION_DELAY = 2
  HIVE_COLLATERALIZED_CONVERSION_DELAY = 2
  HIVE_CONVERSION_COLLATERAL_RATIO = 200
  HIVE_COLLATERALIZED_CONVERSION_FEE = 5
  HIVE_TREASURY_FEE = 2
  HIVE_PROPOSAL_FEE_INCREASE_DAYS = 1
  HIVE_PROPOSAL_FEE_INCREASE_AMOUNT = 1
  HIVE_ONE_DAY_SECONDS = 2
  HIVE_PROPOSAL_MAINTENANCE_CLEANUP = 1
  HIVE_PROPOSAL_MAINTENANCE_PERIOD = 1
  HIVE_DAILY_PROPOSAL_MAINTENANCE_PERIOD = 2
  HIVE_PROPOSAL_CONVERSION_RATE = 50
  HIVE_MIN_PAYOUT_HBD = 1
  total_amount_divider = 3
  remove_threshold = 2
  inflation_rate = 100
  HIVE_VOTING_MANA_REGENERATION_SECONDS = 4
  downvote_pool_percent = 25
  HIVE_SOFT_MAX_COMMENT_DEPTH = 1
  HIVE_MIN_ROOT_COMMENT_INTERVAL = 1
  HIVE_MIN_REPLY_INTERVAL = 1
  HIVE_MIN_COMMENT_EDIT_INTERVAL = 1
  HIVE_CASHOUT_WINDOW_SECONDS = 3
  HIVE_UPVOTE_LOCKOUT_SECONDS = 2
  vote_power_reserve_rate = 1
  PIXA_HF30_VOTE_DUST_THRESHOLD = 1
  early_voting_seconds = 1
  mid_voting_seconds = 1
  HIVE_RECENT_RSHARES_DECAY_TIME_HF19 = 8
  percent_curation_rewards = 50
  content_constant = 2
  MAX_ACCEPTED_PAYOUT = 100
  HIVE_BLOCKS_PER_YEAR = 20
  content_reward_percent = 30
  vesting_reward_percent = 15
  proposal_fund_percent = 20
  HIVE_MAX_WITNESSES = 2
  Worlds <- EconomyWorlds
INVARIANTS SupplyExact BalancesSound ClaimsExact
PROPERTY VirtualSupplySettled
CHECK_DEADLOCK FALSE
