SPECIFICATION FairSpec
CONSTANTS
  r1 = r1
  r2 = r2
  Stages = 3
  Req = {r1, r2}
  MaxNew = 2
  FailAt = {0}
  RejectAt = {2}
  EarlyCrash = FALSE
  Budgets <- OneTrouble
INVARIANTS TypeOK CachesDropped NoKeyError NothingAfterTheEnd
PROPERTY Answered
CHECK_DEADLOCK FALSE
