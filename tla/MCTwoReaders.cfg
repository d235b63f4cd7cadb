SPECIFICATION MCSpec
CONSTANTS
  reader1 = reader1
  reader2 = reader2
  idle = idle
  NULL = NULL
  Threads <- MCThreads
  Priority <- MCPriority
  Idle = idle
  First = reader1
  BootOrder <- MCOrder
  Readers = {reader1, reader2}
  Keys <- MCKeys
  Chars <- MCChars
  BufSize = 3
  MaxBytes = 2
INVARIANT NoStuckChar
