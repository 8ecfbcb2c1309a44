SPECIFICATION Spec
CONSTANTS
  SLOTS = 2
  PER_SLOT = 3
  MAX_PAYLOAD = 3
  NoFrag = NoFrag
  NoTemplate = NoTemplate
  Stream <- MCStream
  Whole <- MCWhole
  BadHeader <- MCBadHeader
INVARIANT SlotsInv CompleteIsOriginal
PROPERTY PoolBehaviour
