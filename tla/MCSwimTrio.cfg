SPECIFICATION Spec
CONSTANTS
  Node = {n1, n2, n3}
  Peers <- FullPeers
  ModelId <- OneModel
  KIndirect = 2
  KGossip = 3
  StartInc = 1
  Joiners = {}
  Probers = {n1}
  Timely = TRUE
  Aging = FALSE
  MaxClock = 2
  MaxInc = 3
  MaxProbes = 2
  MaxNet = 3
  MaxLog = 2
  MaxLosses = 1
  MaxDups = 0
  MaxCrashes = 1
SYMMETRY HelperSym
INVARIANTS DeadlineIffSuspect IncarnationsIssued GossipFresh LossMasked
PROPERTIES RevivalIsFirstHand
