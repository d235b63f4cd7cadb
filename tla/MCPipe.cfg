SPECIFICATION MCSpec
CONSTANTS
  reader = reader
  writer = writer
  idle = idle
  byte1 = byte1
  byte2 = byte2
  NULL = NULL
  Threads <- MCThreads
  Priority <- MCPriority
  Idle = idle
  First = writer
  BootOrder <- MCOrder
  Writers = {writer}
  Readers = {reader}
  Chars = {byte1, byte2}
  Counts = {1, 2, 4}
  BufSize = 4
INVARIANTS SchedulerSound ShellSound FilesSound
PROPERTIES ImplementsFifo WriteReturns LineEnds
CHECK_DEADLOCK FALSE
