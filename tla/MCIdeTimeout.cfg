SPECIFICATION FairSpec
CONSTANTS
  m = m
  p = p
  q = q
  idle = idle
  a = a
  b = b
  NULL = NULL
  Threads <- SoloThreads
  Priority <- SoloPriority
  Idle = idle
  First = p
  BootOrder <- SoloOrder
  Users = {p}
  KThreads = {idle}
  Sectors = {0}
  Values = {a}
  Ops = {"read", "write"}
  Counts <- SoloCounts
  TimeLimit = 4
  MaxBusy = 1
PROPERTY BusyWaitEnds
