CONSTANTS
  Sync = {"sync", "final"}
  Finalize = {"final"}
  Ttl = 3
  MaxTime = 4
SPECIFICATION Spec
PROPERTY FinalOnCheckedData
CHECK_DEADLOCK FALSE
