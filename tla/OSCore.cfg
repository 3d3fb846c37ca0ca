SPECIFICATION Spec
CONSTANTS
  MaxTasks = 4
  MaxSem = 2
  TicksPerSched = 2
  Delays = {0, 2}
  Counts = {0, 1}
  Unguarded = {}
INVARIANTS TypeOK OnePlace PoolAccounted StateTells QueuesAgree PointersAgree
  NoUnitWhileWaiting SemPoolAccounted
PROPERTIES ReadyInOrder WakeInOrder IdleLast
