CONSTANTS
  KeptElements = 2
  Null = Null
  XiSize = 2
  SquadSize = 3
  FormWindow = 2
  FormAhead = 1
  Horizon = 3
  HitCost = 4
  MaxPerClub = 2
  ClientClubLimit = 2
SPECIFICATION Spec
INVARIANT SemanticsFollowRows
INVARIANT FinalAtMostTtlOld
INVARIANT MembersSound
PROPERTY MembersKept
INVARIANT RunsTellAll
INVARIANT StartedIsMigrated
INVARIANT DraftsSound
INVARIANT SmokeIsSound
INVARIANT ScanIsExact
INVARIANT PointsReconciled
INVARIANT WinnersLeadTable
INVARIANT SquadsAddUp
INVARIANT RivalsMirror
INVARIANT PlayersJudgedAlike
CHECK_DEADLOCK FALSE
