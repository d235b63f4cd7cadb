SPECIFICATION Spec
CONSTANTS
  init = init
  main = main
  idle = idle
  p1 = p1
  p2 = p2
  p3 = p3
  Threads <- MCThreads
  Priority <- MCPriority
  Idle = idle
  InitProc = init
  Main = main
  MaxPid = 7
  KPages = 13
  BitmapBytes = 3
  PageSize = 2
  ExitCodes <- MCExitCodes
SYMMETRY Slots
INVARIANT NoLostOrphan
