SPECIFICATION FairSpec
CONSTANTS
  m = m
  p = p
  q = q
  idle = idle
  a = a
  b = b
  NULL = NULL
  Threads <- DuoThreads
  Priority <- DuoPriority
  Idle = idle
  First = m
  BootOrder <- DuoOrder
  Users = {m, p}
  KThreads = {m, idle}
  Sectors = {0, 1}
  Values = {a, b}
  Ops = {"read", "write"}
  Counts <- DuoCounts
  TimeLimit = 4
  MaxBusy = 1
INVARIANTS SchedulerSound InterruptsMatch
PROPERTIES ChannelFreed ImplementsAtomicDisk
