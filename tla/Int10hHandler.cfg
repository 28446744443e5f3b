SPECIFICATION Spec
CONSTANTS
  Requests <- MCRequests
  RomSegment = 49152
  CallerStack <- MCCallerStack
INVARIANTS
  TypeOK
  StackRestored
PROPERTY ImplementsService
