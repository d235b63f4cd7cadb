SPECIFICATION MCSpec
CONSTANTS
  kthread = kthread
  proc = proc
  idle = idle
  l1 = l1
  l2 = l2
  init = init
  child = child
  main_thread = main_thread
  data = data
  small = small
  big = big
  NULL = NULL
  Main = main_thread
  Threads <- MCThreads
  Idle = idle
  Priority <- MCPriority
  KThreads <- MCKThreads
  BootOrder <- MCOrder
  Locks = {l1, l2}
  MaxRepeat = 2
  Procs = {init, child}
  FirstProc = init
  KernelBits = 13
  UserBits = 4
  UserPages = 4
  TableSpan = 2
  BitmapPages = 2
  BitmapFreed = 1
  Sizes = {1, 2}
  MainSizes = {2}
  MaxCalls = 6
INVARIANTS
  SchedulerSound MutualExclusion NoLostWakeup
  FrameOnce AllocationsSound FaultsOnlyShort ScanSound
  HeapAsserts ListsExact DataIntact
PROPERTY ImplementsMutex
CONSTRAINT NotRaced
CHECK_DEADLOCK FALSE
