CONSTANTS
  r1 = r1
  r2 = r2
  Run = {r1, r2}
  NoRun = NoRun
  Process = {p1, p2}
  Group = {g1}
  Boot = Boot
  Member = {m1}
  Work <- GroupWork
  MayClose = {p1, p2}
  MayCrash = {p1, p2}
  MayFail = {}
  MayStall = {r1, r2}
SPECIFICATION Spec
SYMMETRY Symmetry
INVARIANTS
  TypeOK
  LeftoversRecovered
  SuccessIsComplete
PROPERTIES
  FinalIsFinal
  StaleNeverWrites
CHECK_DEADLOCK FALSE
