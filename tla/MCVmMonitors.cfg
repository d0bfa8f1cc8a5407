SPECIFICATION Spec
CONSTANTS
  Threads = {t1, t2}
  Objects = {o1}
  NoThread = NoThread
  MaxRecursion = 2
  MaxDepth = 2
INVARIANTS MonitorMatchesEnters ParkedWaiterIsReachable
PROPERTIES LockIsGranted ShutdownReleasesParked
CHECK_DEADLOCK FALSE
