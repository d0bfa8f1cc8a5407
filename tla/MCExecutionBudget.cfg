SPECIFICATION Spec
CONSTANTS
  Threads = {c1, c2}
  Lanes = 1
  Rate = 4
  Second = 5
  Capacity = 4
  Slice = 3
  MaxRequest = 3
INVARIANTS TypeOK AdmissionIsExact
PROPERTIES KeepsRate EveryWaitEnds
