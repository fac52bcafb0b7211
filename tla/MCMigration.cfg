SPECIFICATION Spec
CONSTANTS
  n1 = n1
  n2 = n2
  n3 = n3
  a = a
  b = b
  c = c
  Node = {n1, n2}
  Expert = {a, b, c}
  Bootstrap <- PairBootstrap
  MaxExperts = 3
  Cooldown = 1
  Evicting = TRUE
  TTL = 1
  Garbage = Garbage
  Scanners = {n2}
  Requested = {a}
  MaxClock = 3
  MaxNet = 2
  MaxLosses = 1
  MaxCrashes = 1
INVARIANTS TypeOK LiveIsHeld ServedRight OwnClaim Capacity BootstrapKept BootstrapOwned
  NoInventedOwnership SlotsMatch
PROPERTY OwnershipMonotone
CHECK_DEADLOCK FALSE
