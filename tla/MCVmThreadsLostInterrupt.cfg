CONSTANTS
  NoThread = NoThread
  Root = root
  Java = {a, b}
  Interruptible = {a}
SPECIFICATION Spec
PROPERTY InterruptWakesJoiner
CHECK_DEADLOCK FALSE
