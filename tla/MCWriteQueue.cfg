SPECIFICATION FairSpec
CONSTANTS
  b1 = b1
  b2 = b2
  t1 = t1
  t2 = t2
  t3 = t3
  g1 = g1
  g2 = g2
  P2pBlock = {b1, b2}
  P2pTx = {t3}
  ApiTx = {t1}
  ColonyTx = {t2}
  GenBlock = {g1, g2}
  slot <- slots
  Worlds <- SmallWorlds
  max_held_blocks = 1
  MaxSlot = 2
INVARIANTS NobodyWaitsForever AnswersOrderly
PROPERTY EveryoneGoesOn
CHECK_DEADLOCK FALSE
