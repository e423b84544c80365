SPECIFICATION Spec
CONSTANTS
  HostMax = 7
  FdMin = 100
  MaxFd = 102
  Cap = 3
  o1 = o1
  o2 = o2
  Objs <- MCObjs
  NRings = 3
  Null = Null
SYMMETRY Symmetry
PROPERTIES DeviceIsDevice
CHECK_DEADLOCK FALSE
VIEW View
