SPECIFICATION Spec
CONSTANTS
  InitCap = 4
  MaxCap = 4
  KeysPerVal = 2
  FdMin = 10
  MaxFd = 11
  MaxPipes = 2
  HostFds <- MCHostFds
  Files <- MCFiles
  f1 = f1
  f2 = f2
  NoFile = NoFile
  Junk = 0
PROPERTIES SetKeepsKeys
