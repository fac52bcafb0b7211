SPECIFICATION FairSpec
CONSTANTS
  self = self
  b = b
  c = c
  e1 = e1
  e2 = e2
  e3 = e3
  none = none
  Self = self
  Unrouted = none
  Peer = {b, c}
  Expert = {e1, e2, e3}
  Owners <- OwnersOfThree
  Replicas <- ReplicasOfThree
  MaxAttempts = 2
  Layers = 2
  MaxFailures = 1
  MaxCrashes = 1
  MaxLeaves = 1
INVARIANTS TypeOK Complete Disciplined RaisedInNeed Released
PROPERTIES Implements Ends
CHECK_DEADLOCK FALSE
