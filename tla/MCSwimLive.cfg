SPECIFICATION FairSpec
CONSTANTS
  Node = {n1, n2}
  Peers <- FullPeers
  ModelId <- OneModel
  KIndirect = 2
  KGossip = 3
  StartInc = 1
  Joiners = {}
  Probers = {n1, n2}
  Timely = TRUE
  Aging = FALSE
  MaxClock = 1
  MaxInc = 3
  MaxProbes = 1
  MaxNet = 6
  MaxLog = 2
  MaxLosses = 2
  MaxDups = 0
  MaxCrashes = 1
PROPERTIES CrashDetected OneSidedCleared
