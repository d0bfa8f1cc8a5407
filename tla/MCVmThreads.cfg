CONSTANTS
  NoThread = NoThread
  Root = root
  Java = {a, b}
  Interruptible = {a}
SPECIFICATION Spec
INVARIANTS NoSleepThroughProgress EndReachesMonitors NoneLeftRunning
PROPERTIES ShutdownReturns
CHECK_DEADLOCK FALSE
