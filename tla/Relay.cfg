SPECIFICATION Spec
CONSTANTS
  Dn = {d1}
  Peer = peer
  Message <- RelayMessages
  MessageId = {1}
  MaxPendingBinds = 1
  MaxRequests = 3
  PeersClose = TRUE
  Capacity = 2
  ListenStarttls = TRUE
INVARIANTS EveryRequestOnce BlockedAnsweredHere WholeFrames
PROPERTIES FramesPassOn SilenceEnds
CHECK_DEADLOCK FALSE
