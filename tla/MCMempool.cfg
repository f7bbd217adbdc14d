SPECIFICATION Spec
CONSTANTS
  t1 = t1
  t2 = t2
  t3 = t3
  t4 = t4
  t5 = t5
  alice = alice
  NoAccount = NoAccount
  Tx <- AllTx
  Account = {alice}
  expiration <- expirations
  get_transaction_size <- sizes
  custom_by <- customs
  Needs <- needs
  Excludes <- excludes
  Privileged = {t2}
  Worlds <- SmallWorlds
  HIVE_MAX_TIME_UNTIL_EXPIRATION = 2
  HIVE_MAX_TIME_UNTIL_SIGNATURE_EXPIRATION = 4
  HIVE_CUSTOM_OP_BLOCK_LIMIT = 1
  HIVE_BLOCK_GENERATION_POSTPONED_TX_LIMIT = 1
  MaxBlockSize = 3
  MaxTxSize = 2
  MaxMempoolSize = 3
  MaxBlocks = 4
  MaxTime = 5
  MaxGap = 2
  MaxPopped = 2
  MaxForks = 1
INVARIANTS NoReplay PendingExact
PROPERTY NothingLost
