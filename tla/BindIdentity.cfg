SPECIFICATION Spec
CONSTANTS
  Dn = {d1, d2}
  Peer = peer
  Message <- BindMessages
  MessageId = {1, 2}
  MaxPendingBinds = 1
  MaxRequests = 3
  PeersClose = FALSE
  Capacity = 2
  ListenStarttls = FALSE
SYMMETRY DnSymmetry
INVARIANTS TypeOK IdentityVerified IdentityMatchesTold ChargedAsTold PendingOutstanding
CHECK_DEADLOCK FALSE
