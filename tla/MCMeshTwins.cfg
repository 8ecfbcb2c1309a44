SPECIFICATION FairSpec
CONSTANTS
  N = 1
  Key <- MCKey
  IdBits = 3
  SeqBits = 1
  SLOTS = 1
  PER_SLOT = 1
  MAX_PAYLOAD = 1
  MAX_FRAGMENTS = 1
  NoFrag = NoFrag
  NoTemplate = NoTemplate
  NR = 1
  BROADCAST_ADDR = "all"
  DEFAULT_TTL = 2
  MaxPayload <- MCMaxPayload
  Node = {"b", "c"}
  Bridge = {"b", "c"}
  Responder = {}
  PONG <- MCPong
  IdBase <- MCIdBase
  Link <- MCLink
  Letter <- MCLetter
  Scenario <- MCScenario
  MAX_REBOOTS = 1
CHECK_DEADLOCK FALSE
PROPERTY ForwardingDiesOut
