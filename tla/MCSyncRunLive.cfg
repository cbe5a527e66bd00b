CONSTANTS
  r1 = r1
  r2 = r2
  Run = {r1, r2}
  NoRun = NoRun
  Process = {p1, p2}
  Group = {g1}
  Boot = Boot
  Member = {m1}
  Work <- SharedWork
  MayClose = {}
  MayCrash = {p1, p2}
  MayFail = {r1, r2}
  MayStall = {}
SPECIFICATION LiveSpec
PROPERTIES
  LocksComeBack
  RunsEnd
CHECK_DEADLOCK FALSE
