SPECIFICATION ChainSpec
CONSTANTS
  self = self
  head = head
  tail = tail
  e1 = e1
  e2 = e2
  none = none
  Self = self
  Unrouted = none
  Peer = {head, tail}
  Expert = {e1, e2}
  Owners <- OwnersOfTwo
  Replicas <- ReplicasOfTwo
  MaxAttempts = 3
  Layers = 2
  MaxFailures = 1
  MaxCrashes = 1
  MaxLeaves = 1
  Route <- Stages
  Bounds <- Ranges
  Split = {2, 3}
INVARIANT RequestsAccepted
CHECK_DEADLOCK FALSE
