SPECIFICATION Spec
CONSTANTS
  StackWords = 18
  Procs = {1, 2, 3}
  Idle = 1
  Programs <- MCFramePrograms
  ShellPrograms <- MCFramePrograms
  IdleProgram <- MCIdleProgram
  Results <- MCResults
  Junk = {0}
  SelfDelete = FALSE
PROPERTY FrameRestored
