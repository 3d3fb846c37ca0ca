SPECIFICATION Spec
CONSTANTS
  StackWords = 18
  Procs = {1, 2, 3}
  Idle = 1
  Programs <- MCPrograms
  ShellPrograms <- MCShellPrograms
  IdleProgram <- MCIdleProgram
  Results <- MCResults
  Junk = {0}
  SelfDelete = FALSE
INVARIANTS TypeOK OwnSegments WithinStack WithinCode ReadsOwn KeepsFrames
PROPERTIES OwnProcessor Unnoticed StackRestored
