SPECIFICATION Spec
CONSTANTS
  N = 8
  Key <- MCKey
  IdBits = 6
  SeqBits = 4
  SLOTS = 1
  PER_SLOT = 2
  MAX_PAYLOAD = 2
  MAX_FRAGMENTS = 2
  NoFrag = NoFrag
  NoTemplate = NoTemplate
  NR = 2
  BROADCAST_ADDR = "all"
  DEFAULT_TTL = 2
  MaxPayload <- MCMaxPayload
  CARD_ADDR = "card"
  CARD_ID_BASE = 0
  QUEUE = 2
  Nothing = Nothing
  CONNACK_BUF = 4
  SUBACK_BUF = 5
  PKT_BUF = 6
  TOPIC_UPLINK <- MCTopic
  Scenario <- DesyncScenario
CHECK_DEADLOCK FALSE
INVARIANT ReadsStayInStep
