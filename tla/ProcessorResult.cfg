SPECIFICATION Spec
CONSTANTS
  StackWords = 18
  Procs = {1, 2, 3}
  Idle = 1
  Programs <- MCLeavePrograms
  ShellPrograms <- MCLeavePrograms
  IdleProgram <- MCIdleProgram
  Results <- MCResults
  Junk = {0}
  SelfDelete = TRUE
PROPERTY OwnResult
