SPECIFICATION Spec
CONSTANTS
  Node = {n1, n2}
  Peers <- FullPeers
  ModelId <- SomeModel
  KIndirect = 2
  KGossip = 3
  StartInc = 1
  Joiners = {n2}
  Probers = {n1, n2}
  Timely = FALSE
  Aging = TRUE
  MaxClock = 2
  MaxInc = 2
  MaxProbes = 1
  MaxNet = 1
  MaxLog = 1
  MaxLosses = 1
  MaxDups = 1
  MaxCrashes = 1
INVARIANTS TypeOK ObserversFollowView ModelAdmitted SelfRecord
PROPERTIES RevivalIsFirstHand
