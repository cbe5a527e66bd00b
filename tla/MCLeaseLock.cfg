CONSTANTS
  Owner = {o1, o2}
  NoOwner = NoOwner
  Ttl = 1
  Retention = 2
  Burst = 1
  MayCrash = {o1, o2}
  MaxTime = 3
  MaxCommits = 2
SPECIFICATION LiveSpec
INVARIANT MutualExclusion
INVARIANT LostIsFinal
PROPERTY FreedByHolderOrTime
PROPERTY ImplementsFencedStore
PROPERTY DeadHolderYields
CHECK_DEADLOCK FALSE
