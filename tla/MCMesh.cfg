SPECIFICATION Spec
CONSTANTS
  N = 8
  Key <- MCKey
  IdBits = 6
  SeqBits = 4
  SLOTS = 2
  PER_SLOT = 2
  MAX_PAYLOAD = 3
  MAX_FRAGMENTS = 2
  NoFrag = NoFrag
  NoTemplate = NoTemplate
  NR = 1
  BROADCAST_ADDR = "all"
  DEFAULT_TTL = 2
  MaxPayload <- MCMaxPayload
  Node = {"a", "b", "c", "e"}
  Bridge = {"b", "c"}
  Responder = {"e"}
  PONG <- MCPong
  IdBase <- MCIdBase
  Link <- MCLink
  Letter <- MCLetter
  Scenario <- MCScenario
  MAX_REBOOTS = 0
CHECK_DEADLOCK FALSE
INVARIANT HandledOnce WholeLettersArrive PingsAnswered
