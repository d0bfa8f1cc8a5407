SPECIFICATION Spec
CONSTANTS
  Threads = {t1, t2}
  Addresses = {a1}
  Values = {0, 1}
  Sweepers = {s1}
  NoThread = NoThread
  SizeMax = 7
  MaxWake = 2
  DiscardRace = FALSE
INVARIANTS
  TokensCovered
PROPERTIES
  SignalEndsWait
  ImplementsPromise
