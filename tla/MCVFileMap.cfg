SPECIFICATION Spec
CONSTANTS
  InitCap = 2
  MaxCap = 4
  KeysPerVal = 2
  FdMin = 10
  MaxFd = 12
  MaxPipes = 1
  HostFds <- MCHostFds
  Files <- MCFiles
  f1 = f1
  f2 = f2
  NoFile = NoFile
  Junk = 0
INVARIANTS MapInv SearchWindow
PROPERTIES ImplementsFdTable CallReturns
