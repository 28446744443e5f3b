SPECIFICATION Spec
CONSTANTS
  Cases <- MCCases
  Images <- MCImages
  ImageBase = 5
  Word = 2
  GuidSize = 4
INVARIANTS
  TypeOK
  SettingsFromOneSource
  NothingLeftBetweenCalls
  LogIsAnOpenFile
  ReturnsClean
  BootedIsVerified
  OrdinaryStartBoots
  UnsetOnlyWithoutImage
PROPERTIES
  ScanStaysInside
  Ends
  KeepsPromise
CHECK_DEADLOCK FALSE
