SPECIFICATION Spec
CONSTANTS
  Pids = {1, 2}
  PageCount = 2
  StackPageCount = 1
  CodePages = 1
  HostedPages = 1
  Capacity = 3
  SwapSpacePage = 3
  Versions = {1}
INVARIANTS NoLeak
