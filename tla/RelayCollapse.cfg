SPECIFICATION Spec
CONSTANTS
  N = 3
  Key <- MCKey
  IdBits = 4
  SeqBits = 2
  SLOTS = 2
  PER_SLOT = 2
  MAX_PAYLOAD = 3
  MAX_FRAGMENTS = 2
  NoFrag = NoFrag
  NoTemplate = NoTemplate
  NR = 2
  BROADCAST_ADDR = "all"
  DEFAULT_TTL = 1
  MaxPayload <- MCMaxPayload
  SelfAddr = "self"
  IdBase = 0
  Peer = {"p1", "p2"}
  Declared = {}
  Source = {"Lora", "Mqtt"}
  Port = {}
  Foreign <- MCForeign
  GroupsOf <- MCGroupsOf
  Payload = {}
  MAX_IDS = 0

PROPERTY WholeFramesGetThrough
