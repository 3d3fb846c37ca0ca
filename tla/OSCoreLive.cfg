\* Liveness, with the fairness of FairSpec.
SPECIFICATION FairSpec
CONSTANTS
  MaxTasks = 4
  MaxSem = 1
  TicksPerSched = 2
  Delays = {0, 2}
  Counts = {0, 1}
  Unguarded = {}
PROPERTIES PromiseKept ReadyRuns TimedWaitEnds
