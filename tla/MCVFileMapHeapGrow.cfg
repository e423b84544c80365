SPECIFICATION Spec
CONSTANTS
  InitCap = 2
  MaxCap = 8
  KeysPerVal = 2
  FdMin = 10
  MaxFd = 15
  MaxPipes = 1
  HostFds <- MCHostFds
  Files <- MCFiles
  f1 = f1
  f2 = f2
  NoFile = NoFile
  Junk = 0
INVARIANTS EntryFdIsKey
