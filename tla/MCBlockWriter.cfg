SPECIFICATION Spec
CONSTANTS
  r1 = r1  a2 = a2  a3 = a3  a4 = a4  b3 = b3  b4 = b4  b5 = b5
  c2 = c2  c3 = c3  d3 = d3  d4 = d4  w1 = w1  w2 = w2  w3 = w3
  NoBlock = NoBlock
  Block <- AllBlocks
  Witness <- AllWitnesses
  previous_id <- parents
  get_block_num <- numbers
  witness <- signers
  Root = r1
  Worlds <- CrashWorlds
  Schedule <- schedules
  Confirm <- confirms
  HIVE_100_PERCENT = 100
  HIVE_IRREVERSIBLE_THRESHOLD = 66
  HIVE_MAX_WITNESSES = 1
  HIVE_MAX_UNDO_HISTORY = 9
  MaxForkDbSize = 4
INVARIANT InStep
PROPERTY IrreversibleStays
