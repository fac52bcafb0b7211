SPECIFICATION FairSpec
CONSTANTS
  r1 = r1
  r2 = r2
  Stages = 3
  Req = {r1}
  MaxNew = 2
  FailAt = {1}
  RejectAt = {}
  EarlyCrash = FALSE
  Budgets <- OneFault
PROPERTY Answered
CHECK_DEADLOCK FALSE
