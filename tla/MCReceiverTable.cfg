SPECIFICATION Spec
CONSTANTS
  NR = 2
  Peer = {p1, p2, p3}
  BROADCAST_ADDR = all
  DEFAULT_TTL = 4
  MaxPayload <- MCMaxPayload
INVARIANT TableInv
PROPERTY BehavesAsMap
