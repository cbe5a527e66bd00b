CONSTANTS
  r1 = r1
  r2 = r2
  Run = {r1, r2}
  NoRun = NoRun
  Process = {p1, p2}
  Group = {g1}
  Boot = Boot
  Member = {m1}
  Work <- SharedWork
  MayClose = {p1, p2}
  MayCrash = {}
  MayFail = {}
  MayStall = {r1, r2}
SPECIFICATION LiveSpec
PROPERTY TransactionsUnderLease
CHECK_DEADLOCK FALSE
