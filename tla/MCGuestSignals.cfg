SPECIFICATION Spec
CONSTANTS
  Threads = {1, 2}
  Root = 1
  Signals = {9, 10, 17}
  Handlers <- MCHandlers
  MaxFrames = 2
  MaxCalls = 5
CHECK_DEADLOCK FALSE
INVARIANTS CallersMask RestartIsFresh
PROPERTIES SignalIsTaken ExitEndsThread
