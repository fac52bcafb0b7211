SPECIFICATION Spec
CONSTANTS
  n1 = n1
  n2 = n2
  n3 = n3
  a = a
  b = b
  c = c
  Node = {n1, n2, n3}
  Expert = {a, b, c}
  Bootstrap <- TrioBootstrap
  MaxExperts = 2
  Cooldown = 1
  Evicting = TRUE
  TTL = 1
  Garbage = Garbage
  Scanners = {n2, n3}
  Requested = {}
  MaxClock = 3
  MaxNet = 1
  MaxLosses = 0
  MaxCrashes = 0
INVARIANTS TransferRight
CHECK_DEADLOCK FALSE
