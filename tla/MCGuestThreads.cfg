SPECIFICATION Spec
CONSTANTS
  LastThread = 3
  Words = {w1}
  NoWord = NoWord
  HostFailures = TRUE
INVARIANTS GroupExitIsFinal EndedMeansExited WordNamesLiveThread NoIdOfUncreatedThread JoinerIsWoken
PROPERTIES DrainEnds
CHECK_DEADLOCK FALSE
