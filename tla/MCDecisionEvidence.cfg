CONSTANTS
  f1 = f1
  f2 = f2
  o = o
  c = c
  x = x
  m1 = m1
  m2 = m2
  Member = {m1, m2}
  Shared = {m2}
  Finalizer = {f1}
  Overrider = {o}
  Recomputer = {c}
  Declared <- Overridden
  Noted = {c}
  Other = {x}
  NoRun = NoRun
  NoView = NoView
  MaxEdits = 0
  MaxAudits = 0
  MayExclude = {}
  MayStall = {}
  MayCrash = {}
  MayFail = {}
  MayExpire = {}
  Recorded <- Stored
  Checked <- RaceChecked
  Answers <- RaceAnswers
SPECIFICATION Spec
INVARIANTS
  EvidenceRetained
CHECK_DEADLOCK FALSE
