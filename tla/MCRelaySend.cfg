SPECIFICATION Spec
CONSTANTS
  N = 2
  Key <- MCKey
  IdBits = 5
  SeqBits = 3
  SLOTS = 1
  PER_SLOT = 3
  MAX_PAYLOAD = 5
  MAX_FRAGMENTS = 2
  NoFrag = NoFrag
  NoTemplate = NoTemplate
  NR = 1
  BROADCAST_ADDR = "all"
  DEFAULT_TTL = 1
  MaxPayload <- MCMaxPayload
  SelfAddr = "self"
  IdBase = 29
  Peer = {"p1", "p2"}
  Declared = {"p2"}
  Source = {"Mqtt"}
  Port = {"Lora", "EspNow"}
  Foreign <- MCForeign
  GroupsOf <- MCGroupsOf
  Payload <- MCPayload
  MAX_IDS = 5
INVARIANT PlansReassemble UnicastRoutes
PROPERTY IdsAreFresh
