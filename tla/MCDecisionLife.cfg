CONSTANTS
  f1 = f1
  f2 = f2
  o = o
  c = c
  x = x
  m1 = m1
  m2 = m2
  Member = {m1, m2}
  Shared = {m2}
  Finalizer = {f1}
  Overrider = {o}
  Recomputer = {c}
  Declared <- Overridden
  Noted = {}
  Other = {x}
  NoRun = NoRun
  NoView = NoView
  MaxEdits = 1
  MaxAudits = 0
  MayExclude = {m2}
  MayStall = {}
  MayCrash = {f1, o}
  MayFail = {f1}
  MayExpire = {f1, x}
  Recorded <- Stored
  Checked <- LifeChecked
  Answers <- LifeAnswers
SPECIFICATION Spec
INVARIANTS
  TypeOK
  SourcesRetained
  ChangesNoted
CHECK_DEADLOCK FALSE
