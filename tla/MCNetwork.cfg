SPECIFICATION FairSpec
CONSTANTS
  Node = {"a", "b", "c"}
  Block <- Blocks
  Trx = {100}
  NoBlock = 0
  Connection = {"ab", "ba", "ac", "bc"}
  previous_id <- prev
  get_block_num <- numbers
  Worlds <- NetWorlds
  ITEM_IDS_LIMIT = 3
  MIN_BLOCK_IDS_TO_PREFETCH = 2
  MAX_BLOCKS_PER_PEER = 1
  MAX_BLOCKS_TO_HANDLE = 4
  MAX_SYNC_BLOCKS_TO_PREFETCH = 2
  BREAKER_COUNT = 1
  MINIMUM_PROTOCOL_VERSION = 106
  MESSAGE_CACHE_DURATION_IN_BLOCKS = 1
  MAX_ITEMS_PER_PEER = 2
  MAX_INVENTORY = 2
  MAX_BLOCK_INVENTORY = 2
  FUTURE_BLOCK_IDS_GRACE_BLOCKS = 2
  transactions <- contained
INVARIANTS PeersTreatedFairly NothingForgotten
PROPERTY Settles
CHECK_DEADLOCK FALSE
