\* The environment makes the unguarded call "KillExpired".
SPECIFICATION Spec
CONSTANTS
  MaxTasks = 3
  MaxSem = 1
  TicksPerSched = 2
  Delays = {0, 1}
  Counts = {0, 1}
  Unguarded = {"KillExpired"}
INVARIANT TerminatedLeaves
