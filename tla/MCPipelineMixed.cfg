SPECIFICATION Spec
CONSTANTS
  r1 = r1
  r2 = r2
  Stages = 3
  Req = {r1, r2}
  MaxNew = 2
  FailAt = {1}
  RejectAt = {}
  EarlyCrash = TRUE
  Budgets <- Mixtures
SYMMETRY Symmetry
INVARIANTS OneRound TokensRight HeadReleased
CHECK_DEADLOCK FALSE
